------------------------------ MODULE MCQuery ------------------------------
(* Small instances of the bbolt query scan for TLC. *)
EXTENDS Query, TLC

(* Four keys over the bytes 1 and 2: <<1>> sorts before its extensions,    *)
(* <<1,1>> before <<1,2>>, and <<2>> lies past the prefix <<1>>.           *)
MCKeySpace == {<<1>>, <<1, 1>>, <<1, 2>>, <<2>>}

(* The whole bucket, a prefix with a run of keys after it, and a prefix   *)
(* that Seek reaches in the middle of the bucket.                          *)
MCQueryPrefixes == {<<>>, <<1>>, <<1, 2>>}

(* Timestamps of 2020, whose four low bytes are all in use.  The secret     *)
(* record is held in the legacy envelope, the others in the current one.   *)
MCNow == 1600000000

Good     == [rec |-> [meta |-> [created |-> 1599990000, modified |-> 1599999999,
                                expires |-> 0, deleted |-> 0,
                                secret |-> FALSE, crown |-> FALSE],
                      format |-> JSON, data |-> <<1>>],
             legacy |-> FALSE]
Expired  == [Good EXCEPT !.rec.meta.expires = 1599999000]
Secret   == [Good EXCEPT !.rec.meta.secret = TRUE, !.legacy = TRUE]
NoMatch  == [Good EXCEPT !.rec.data = <<2>>]

MCEntries == {Good, Expired, Secret, NoMatch}

MCMatchData == {<<1>>}
====
