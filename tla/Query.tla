------------------------------- MODULE Query -------------------------------
(***************************************************************************)
(* A query on the bbolt backend: BBolt.Query starts the goroutine          *)
(* queryExecutor (src/database/storage/bbolt/bbolt.go), which scans a      *)
(* read-only transaction's cursor from Seek(prefix) in key order and       *)
(* pushes matching records onto the iterator's bounded Next channel; the   *)
(* consumer (the API's processQuery, src/api/database.go) ranges over Next *)
(* and then reads Err(), and may cancel by closing Done.                   *)
(*                                                                         *)
(* Keys are byte strings, modelled as sequences of small naturals and      *)
(* ordered like bytes.Compare, so that a prefix selects a contiguous run   *)
(* of the cursor.  A bbolt View transaction sees one snapshot: the stored  *)
(* records are fixed for the whole scan.  bbolt holds every record as     *)
(* the bytes of its envelope (module Envelope), which the scan decodes     *)
(* with NewRawWrapper.  Crown-jewel permission is checked exactly like     *)
(* the secret flag and is left out.                                        *)
(***************************************************************************)
EXTENDS Naturals, Sequences, SequencesExt, Envelope

CONSTANTS
  KeySpace,   \* the keys that may be stored (sequences of byte values)
  QueryPrefixes,   \* the key prefixes the query may have (q.DatabaseKeyPrefix())
  Entries,    \* the stored records a key may hold, see Entry
  Now,        \* time.Now().Unix() during the scan
  MatchData,  \* the payloads the query's condition accepts
  NextCap,    \* capacity of the iterator's Next channel
  Internal,   \* the query's internal flag (BBolt.Query's internal argument)
  NoEntry     \* model value: the key is not stored

(* A record as it was written (meta, dsd format and payload bytes), and    *)
(* whether it was written in the legacy envelope, whose meta block lacks   *)
(* the dsd tag.                                                            *)
Entry == [rec: [meta: [created: Int, modified: Int, expires: Int, deleted: Int,
                       secret: BOOLEAN, crown: BOOLEAN],
                format: Nat, data: Seq(Nat)],
          legacy: BOOLEAN]

\* The bytes bbolt holds for an entry.
Bytes(e) == IF e.legacy THEN LegacyRecord(e.rec) ELSE MarshalRecord(e.rec).bytes

\* NewRawWrapper of the bytes of every entry.  The scan step takes this
\* table as its argument, so that TLC computes it once per model.
Decoded == [e \in Entries |-> NewRawWrapper(Bytes(e))]

ASSUME /\ \A e \in Entries : e \in Entry
       /\ NextCap \in Nat \ {0}
       /\ Internal \in BOOLEAN

VARIABLES
  snapshot,   \* [KeySpace -> Entries \cup {NoEntry}]: the transaction's view
  prefix,     \* the query's key prefix
  cursor,     \* index of the cursor's key in the sorted stored keys
  phase,      \* producer: "seek", "scan", "send", "block" or "finished"
  next,       \* the Next channel's buffer
  closed,     \* Next has been closed by Finish
  done,       \* the Done channel has been closed (Cancel)
  err,        \* the iterator's error: "nil", "timeout" or "decode"
  out,        \* the records the consumer has received
  cons        \* consumer: "reading", "finished" or "stalled"

vars == <<snapshot, prefix, cursor, phase, next, closed, done, err, out, cons>>

-----------------------------------------------------------------------------

(* bytes.Compare(a, b) < 0 *)
RECURSIVE LexLess(_, _)
LexLess(a, b) ==
  CASE a = <<>>          -> b # <<>>
    [] b = <<>>          -> FALSE
    [] Head(a) # Head(b) -> Head(a) < Head(b)
    [] OTHER             -> LexLess(Tail(a), Tail(b))

Stored == {k \in KeySpace : snapshot[k] # NoEntry}

(* The bucket's keys in cursor order. *)
Sorted == SetToSortSeq(Stored, LexLess)

\* Meta.CheckPermission for a non-local query.
Permitted(m) == Internal \/ ~m.secret

\* Meta.CheckValidity: not deleted, and not expired.
CheckValidity(m) == m.deleted = 0 /\ (m.expires = 0 \/ m.expires >= Now)

\* q.MatchesRecord: the condition is evaluated through the record's accessor.
MatchesRecord(r) == HasAccessor(r) /\ r.data \in MatchData

(* Reference result (spec 4.2): the stored keys with the prefix whose      *)
(* records, as written, are valid, permitted and match, in key order.      *)
Expected ==
  SetToSortSeq({k \in Stored : /\ IsPrefix(prefix, k)
                               /\ CheckValidity(snapshot[k].rec.meta)
                               /\ Permitted(snapshot[k].rec.meta)
                               /\ MatchesRecord(snapshot[k].rec)}, LexLess)

\* The key at the cursor; the cursor is past the end when it exceeds Len(Sorted).
Key == Sorted[cursor]

-----------------------------------------------------------------------------

Init ==
  /\ snapshot \in [KeySpace -> Entries \cup {NoEntry}]
  /\ prefix \in QueryPrefixes
  /\ cursor = 1
  /\ phase = "seek"
  /\ next = <<>>
  /\ closed = FALSE
  /\ done = FALSE
  /\ err = "nil"
  /\ out = <<>>
  /\ cons = "reading"

\* Mutant: Finish records the error but leaves Next open.
FinishNoClose(e) ==
  /\ err' = e
  /\ phase' = "finished"
  /\ UNCHANGED <<cursor, closed>>

(* iterator.Finish(err): record the error, then close Next. *)
Finish(e) ==
  /\ err' = e
  /\ closed' = TRUE
  /\ phase' = "finished"
  /\ UNCHANGED cursor

\* Mutant: Seek taken as the first key strictly above the prefix.
SeekAbovePrefix ==
  /\ phase = "seek"
  /\ cursor' = IF \E i \in 1..Len(Sorted) : LexLess(prefix, Sorted[i])
                 THEN CHOOSE i \in 1..Len(Sorted) :
                        /\ LexLess(prefix, Sorted[i])
                        /\ \A j \in 1..(i - 1) : ~LexLess(prefix, Sorted[j])
                 ELSE Len(Sorted) + 1
  /\ phase' = "scan"
  /\ UNCHANGED <<snapshot, prefix, next, closed, done, err, out, cons>>

(* c.Seek(prefix): the first key not below the prefix. *)
Seek ==
  /\ phase = "seek"
  /\ cursor' = IF \E i \in 1..Len(Sorted) : ~LexLess(Sorted[i], prefix)
                 THEN CHOOSE i \in 1..Len(Sorted) :
                        /\ ~LexLess(Sorted[i], prefix)
                        /\ \A j \in 1..(i - 1) : LexLess(Sorted[j], prefix)
                 ELSE Len(Sorted) + 1
  /\ phase' = "scan"
  /\ UNCHANGED <<snapshot, prefix, next, closed, done, err, out, cons>>

\* Mutant: a skipped record ends the scan (return nil for continue).
ScanStepStopOnSkip(dec) ==
  /\ phase = "scan"
  /\ LET w == dec[snapshot[Key]] IN
     CASE cursor > Len(Sorted)         -> Finish("nil")
       [] ~IsPrefix(prefix, Key)       -> Finish("nil")
       [] ~w.ok                        -> Finish("decode")
       [] ~CheckValidity(w.meta)
          \/ ~Permitted(w.meta)
          \/ ~MatchesRecord(w)         -> Finish("nil")
       [] OTHER                        -> /\ phase' = "send"
                                          /\ UNCHANGED <<cursor, err, closed>>
  /\ UNCHANGED <<snapshot, prefix, next, done, out, cons>>

(* One turn of the scan loop up to the send: end of the bucket or of the   *)
(* prefix returns nil, an undecodable record returns NewRawWrapper's       *)
(* error, invalid, forbidden or non-matching records are skipped.  The    *)
(* second NewRawWrapper, of the copied bytes, decodes the same bytes.      *)
ScanStep(dec) ==
  /\ phase = "scan"
  /\ LET w == dec[snapshot[Key]] IN
     CASE cursor > Len(Sorted)         -> Finish("nil")
       [] ~IsPrefix(prefix, Key)       -> Finish("nil")
       [] ~w.ok                        -> Finish("decode")
       [] ~CheckValidity(w.meta)
          \/ ~Permitted(w.meta)
          \/ ~MatchesRecord(w)         -> /\ cursor' = cursor + 1
                                          /\ UNCHANGED <<err, closed, phase>>
       [] OTHER                        -> /\ phase' = "send"
                                          /\ UNCHANGED <<cursor, err, closed>>
  /\ UNCHANGED <<snapshot, prefix, next, done, out, cons>>

\* The record at the cursor goes onto Next and the loop moves on.
Enqueue ==
  /\ Len(next) < NextCap
  /\ next' = Append(next, Key)
  /\ cursor' = cursor + 1
  /\ phase' = "scan"
  /\ UNCHANGED <<err, closed>>

(* The outer select: Done, a send that does not block, or default. *)
Send ==
  /\ phase = "send"
  /\ \/ done /\ Finish("nil") /\ UNCHANGED next
     \/ Enqueue
     \/ /\ ~done
        /\ Len(next) = NextCap
        /\ phase' = "block"
        /\ UNCHANGED <<cursor, next, err, closed>>
  /\ UNCHANGED <<snapshot, prefix, done, out, cons>>

\* Mutant: the blocking send without the time.After case.
BlockNoTimeout ==
  /\ phase = "block"
  /\ \/ done /\ Finish("nil") /\ UNCHANGED next
     \/ Enqueue
  /\ UNCHANGED <<snapshot, prefix, done, out, cons>>

(* The inner select: Done, the blocking send, or time.After(1s). *)
Block ==
  /\ phase = "block"
  /\ \/ done /\ Finish("nil") /\ UNCHANGED next
     \/ Enqueue
     \/ Finish("timeout") /\ UNCHANGED next
  /\ UNCHANGED <<snapshot, prefix, done, out, cons>>

Producer == Seek \/ ScanStep(Decoded) \/ Send \/ Block

(* processQuery's range over it.Next receives one record. *)
Receive ==
  /\ cons = "reading"
  /\ next # <<>>
  /\ out' = Append(out, Head(next))
  /\ next' = Tail(next)
  /\ UNCHANGED <<snapshot, prefix, cursor, phase, closed, done, err, cons>>

(* The range ends on the closed, drained channel; it.Err() is read. *)
EndOfStream ==
  /\ cons = "reading"
  /\ next = <<>>
  /\ closed
  /\ cons' = "finished"
  /\ UNCHANGED <<snapshot, prefix, cursor, phase, next, closed, done, err, out>>

(* processQuery stops reading for good: it is blocked in api.send on a   *)
(* full sendQueue whose writer has gone (see module Api).                 *)
Stall ==
  /\ cons = "reading"
  /\ cons' = "stalled"
  /\ UNCHANGED <<snapshot, prefix, cursor, phase, next, closed, done, err, out>>

(* Iterator.Cancel: the consumer closes Done. *)
Cancel ==
  /\ ~done
  /\ done' = TRUE
  /\ UNCHANGED <<snapshot, prefix, cursor, phase, next, closed, err, out, cons>>

Consumer == Receive \/ EndOfStream \/ Stall \/ Cancel

Next == Producer \/ Consumer

(* The producer goroutine is scheduled fairly and the timer fires.  The   *)
(* consumer, processQuery's range loop, is scheduled fairly while it      *)
(* reads; it may stall at any time, and nothing forces it to.             *)
Spec == Init /\ [][Next]_vars /\ WF_vars(Producer)
        /\ WF_vars(Receive) /\ WF_vars(EndOfStream)

-----------------------------------------------------------------------------

(* The scan implements the query's promise (QueryResult): the records     *)
(* handed to the iterator are, in order, a prefix of the expected result,  *)
(* and the iterator ends without error only with the whole result or      *)
(* after a cancel, or with the timeout error.                             *)
Sent == out \o next

ResultStatus ==
  CASE phase # "finished"   -> "running"
    [] err = "timeout"      -> "timeout"
    [] err = "decode"       -> "decode"
    [] Sent = Expected      -> "ok"
    [] OTHER                -> "cancelled"

QR == INSTANCE QueryResult WITH
        Keys <- KeySpace, expected <- Expected, out <- Sent,
        status <- ResultStatus, cancelReq <- done

ScanImplementsQuery == QR!Spec

(* Spec 4.4 and 8, backpressure bound: even when the consumer stops       *)
(* reading, the producer goroutine finishes (the 1s timeout of its        *)
(* blocking send).                                                        *)
ProducerTerminates == <>(phase = "finished")

(* A consumer that keeps reading sees the end of the stream: every        *)
(* behaviour ends with the consumer finished, unless it stalled.          *)
ConsumerSeesEnd == <>(cons # "reading")

(* Spec section 8, round trip: every record bbolt holds that is not     *)
(* deleted decodes, through NewRawWrapper, to the meta, format and data    *)
(* MarshalRecord wrote, in the current envelope (meta block dsd-tagged)    *)
(* and in the legacy one (34 raw gencode bytes) alike.  A deleted record   *)
(* has no data section and does not decode (see the finding of run        *)
(* facade_delete).                                                         *)
EnvelopeRoundTrip ==
  \A k \in Stored :
    snapshot[k].rec.meta.deleted = 0 =>
      NewRawWrapper(Bytes(snapshot[k])) =
        [ok |-> TRUE, meta |-> snapshot[k].rec.meta,
         format |-> snapshot[k].rec.format, data |-> snapshot[k].rec.data]

====
