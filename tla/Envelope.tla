------------------------------ MODULE Envelope ------------------------------
(***************************************************************************)
(* The binary envelope a storage backend holds for a record               *)
(* (src/database/record/wrapper.go) and the fixed 34-byte metadata codec   *)
(* (src/database/record/meta-gencode.go), as operators on sequences of     *)
(* bytes (naturals below 256):                                             *)
(*                                                                         *)
(*   version 1 | uvarint length, meta block | format byte | payload        *)
(*                                                                         *)
(* The meta block is dsd.Dump(meta, GenCode): the GenCode tag byte, then   *)
(* the 34 gencode bytes.  A legacy envelope holds the 34 bytes alone.      *)
(* The packages varint, container and dsd are not among the sources; the   *)
(* operators for them follow the envelope layout of the specification.    *)
(*                                                                         *)
(* A decoder returns a record [ok |-> TRUE, ...] or Fail.  Timestamps are  *)
(* int64 in the code; TLC integers are 32-bit, so the inputs are int64     *)
(* values in that range, whose bytes 4..7 are all 0 or all 255.            *)
(***************************************************************************)
EXTENDS Integers, Sequences

Fail == [ok |-> FALSE]

Drop(s, n) == SubSeq(s, n + 1, Len(s))

-----------------------------------------------------------------------------
(* formats/dsd and formats/varint *)

\* dsd's format tags (AUTO, 'G' and 'J'); record.AUTO, record.GenCode and
\* record.JSON alias them.
AUTO    == 0
GenCode == 71
JSON    == 74

\* varint.Pack64: unsigned LEB128, seven bits per byte, low groups first.
RECURSIVE PackUvarint(_)
PackUvarint(n) ==
  IF n < 128 THEN <<n>> ELSE <<(n % 128) + 128>> \o PackUvarint(n \div 128)

\* varint.Unpack64: the value and the number of bytes it took.
RECURSIVE UnpackUvarint(_)
UnpackUvarint(b) ==
  CASE b = <<>>      -> Fail
    [] Head(b) < 128 -> [ok |-> TRUE, value |-> Head(b), n |-> 1]
    [] OTHER         ->
         LET r == UnpackUvarint(Tail(b)) IN
         IF r.ok THEN [ok |-> TRUE, value |-> Head(b) - 128 + 128 * r.value, n |-> r.n + 1]
                 ELSE r

\* varint.Unpack8: as Unpack64, and the value must fit a byte.
Unpack8(b) ==
  LET r == UnpackUvarint(b) IN IF r.ok /\ r.value < 256 THEN r ELSE Fail

\* container.AppendAsBlock: the block's length as a uvarint, then the block.
AppendAsBlock(c, block) == c \o PackUvarint(Len(block)) \o block

\* varint.GetNextBlock: the block and the bytes taken by length and block.
GetNextBlock(b) ==
  LET l == UnpackUvarint(b) IN
  IF l.ok /\ Len(b) >= l.n + l.value
    THEN [ok |-> TRUE, block |-> SubSeq(b, l.n + 1, l.n + l.value), n |-> l.n + l.value]
    ELSE Fail

-----------------------------------------------------------------------------
(* Meta gencode *)

GenCodeSize == 34

\* byte(x >> (8 * i)) of an int64 x: bits 8i..8i+7 of its two's complement.
\* Above bit 31 these are the sign bits for x in TLC's range.
Byte(x, i) ==
  IF i < 4 THEN (x \div (256 ^ i)) % 256 ELSE IF x < 0 THEN 255 ELSE 0

Int64LE(x) == [j \in 1..8 |-> Byte(x, j - 1)]

\* int64(b0)<<0 | ... | int64(b7)<<56 of eight little-endian bytes.
RECURSIVE FromLE(_)
FromLE(s) ==
  IF Len(s) = 1 THEN (IF Head(s) >= 128 THEN Head(s) - 256 ELSE Head(s))
                ELSE Head(s) + 256 * FromLE(Tail(s))

Flag(b) == IF b THEN 1 ELSE 0

\* Meta.GenCodeMarshal: the four timestamps at 0, 8, 16 and 24, the
\* secret flag at 32, the crown-jewel flag at 33.
GenCodeMarshal(m) ==
  Int64LE(m.created) \o Int64LE(m.modified) \o Int64LE(m.expires)
    \o Int64LE(m.deleted) \o <<Flag(m.secret), Flag(m.crown)>>

\* Meta.GenCodeUnmarshal: too short a buffer is an error; a flag is set
\* only by the byte 1.
GenCodeUnmarshal(b) ==
  IF Len(b) < GenCodeSize THEN Fail
  ELSE [ok |-> TRUE,
        meta |-> [created  |-> FromLE(SubSeq(b, 1, 8)),
                  modified |-> FromLE(SubSeq(b, 9, 16)),
                  expires  |-> FromLE(SubSeq(b, 17, 24)),
                  deleted  |-> FromLE(SubSeq(b, 25, 32)),
                  secret   |-> b[33] = 1,
                  crown    |-> b[34] = 1]]

\* dsd.Dump(meta, GenCode): the tag, then the gencode bytes.
DsdDumpMeta(m) == <<GenCode>> \o GenCodeMarshal(m)

\* dsd.Load into a *Meta: the tag is read as Unpack8; only GenCode decodes
\* a Meta (no code of the sources writes a meta block in another format).
DsdLoadMeta(b) ==
  LET f == Unpack8(b) IN
  IF f.ok /\ f.value = GenCode THEN GenCodeUnmarshal(Drop(b, f.n)) ELSE Fail

-----------------------------------------------------------------------------
(* record.Wrapper; a record is [meta, format, data] *)

\* NewWrapper: a record of the given meta, format and data (the key, split
\* by ParseKey, is not part of the record here).
NewWrapper(meta, format, data) == [meta |-> meta, format |-> format, data |-> data]

\* Wrapper.Marshal(r, format): a deleted record has no data section at
\* all; a format other than AUTO must be the wrapper's; else the format
\* byte, then the data.
Marshal(r, format) ==
  CASE r.meta.deleted > 0                   -> [ok |-> TRUE, bytes |-> <<>>]
    [] format # AUTO /\ format # r.format   -> Fail
    [] OTHER                                -> [ok |-> TRUE, bytes |-> <<r.format>> \o r.data]

\* Wrapper.MarshalRecord: version byte 1, the meta block, Marshal(r, JSON).
MarshalRecord(r) ==
  LET d == Marshal(r, JSON) IN
  IF d.ok THEN [ok |-> TRUE, bytes |-> AppendAsBlock(<<1>>, DsdDumpMeta(r.meta)) \o d.bytes]
          ELSE Fail

\* An envelope written before the meta block carried its dsd tag.
LegacyRecord(r) == AppendAsBlock(<<1>>, GenCodeMarshal(r.meta)) \o <<r.format>> \o r.data

\* Mutant: the legacy test reads metaSection[3] for metaSection[4].
NewRawWrapperByte3(b) ==
  LET v    == Unpack8(b)
      blk  == GetNextBlock(Drop(b, v.n))
      sect == blk.block
      meta == IF Len(sect) = 34 /\ sect[4] = 0 THEN GenCodeUnmarshal(sect)
                                                ELSE DsdLoadMeta(sect)
      off  == v.n + blk.n
      f    == Unpack8(Drop(b, off))
  IN CASE ~v.ok \/ v.value # 1 -> Fail
       [] ~blk.ok               -> Fail
       [] ~meta.ok              -> Fail
       [] ~f.ok                 -> Fail
       [] OTHER -> [ok |-> TRUE, meta |-> meta.meta, format |-> f.value,
                    data |-> Drop(b, off + f.n)]

\* NewRawWrapper: version, meta block (34 bytes with a zero fifth byte are
\* taken as legacy gencode, anything else goes to dsd.Load), format byte
\* read as Unpack8, and the rest is the data.
NewRawWrapper(b) ==
  LET v    == Unpack8(b)
      blk  == GetNextBlock(Drop(b, v.n))
      sect == blk.block
      meta == IF Len(sect) = 34 /\ sect[5] = 0 THEN GenCodeUnmarshal(sect)
                                                ELSE DsdLoadMeta(sect)
      off  == v.n + blk.n
      f    == Unpack8(Drop(b, off))
  IN CASE ~v.ok \/ v.value # 1 -> Fail
       [] ~blk.ok               -> Fail
       [] ~meta.ok              -> Fail
       [] ~f.ok                 -> Fail
       [] OTHER -> [ok |-> TRUE, meta |-> meta.meta, format |-> f.value,
                    data |-> Drop(b, off + f.n)]

\* Wrapper.GetAccessor: only JSON data that is not empty has an accessor.
HasAccessor(w) == w.format = JSON /\ w.data # <<>>

====
