-------------------------------- MODULE Api --------------------------------
(***************************************************************************)
(* One websocket connection of the database API (src/api/database.go).    *)
(*                                                                         *)
(* The handler goroutine reads requests and starts one goroutine per      *)
(* request; every request goroutine reports through send(), which blocks  *)
(* on the 100-slot sendQueue; the writer goroutine drains the queue onto  *)
(* the connection.  shutdown() closes shutdownSignal and the connection,  *)
(* and is called by the handler on a read error and by the writer on a    *)
(* write error.                                                            *)
(*                                                                         *)
(* Request kinds: "put" stands for create/update/insert (one database     *)
(* write, then one success message), "delete" is handleDelete, "sub" is   *)
(* handleSub and "qsub" handleQsub.  The database holds one record; a     *)
(* write bumps its version, and the controller pushes the new version to  *)
(* the feed of every registered subscription (the controller is not      *)
(* among the sources: this follows spec section 4.5).  A delete writes    *)
(* the record as a tombstone, a new version with its Deleted time set.    *)
(* The bucket also holds a record written before the connection opened,  *)
(* under a lower key, which no request changes; it makes the scan send    *)
(* two records, so that its Next channel fills.                           *)
(* A query is the bbolt scan of module Query over the two keys: its       *)
(* producer goroutine (queryExecutor) takes a snapshot of the record when *)
(* its read transaction starts and pushes it, as envelope bytes decoded   *)
(* by NewRawWrapper, onto the iterator's Next channel, which processQuery  *)
(* drains.  The record of version v carries v as its payload, the older  *)
(* record 0.                                                               *)
(***************************************************************************)
EXTENDS Naturals, Sequences, FiniteSets, TLC

CONSTANTS
  Ops,        \* request goroutines (one per request message)
  Kind,       \* [Ops -> {"put", "delete", "sub", "qsub"}]
  QueueCap,   \* capacity of sendQueue (100 in the code)
  MaxErrors,  \* bound on the error messages one goroutine sends
  NextCap,    \* capacity of the iterator's Next channel
  NoMsg,      \* model value: no message pending in send()
  NoEntry     \* model value: the record is not stored

ASSUME /\ Kind \in [Ops -> {"put", "delete", "sub", "qsub"}]
       /\ QueueCap \in Nat \ {0}
       /\ MaxErrors \in Nat
       \* One query at a time: the iterator's variables are those of one scan.
       /\ Cardinality({o \in Ops : Kind[o] = "qsub"}) <= 1

MsgTypes == {"ok", "done", "new", "del", "error", "success"}

\* A message: its request, its type and the record version it carries (0: none).
Msg == [op: Ops, type: MsgTypes, item: Nat]

VARIABLES
  version,    \* the record's version in the database (0: absent)
  tombstones, \* the versions written by a delete
  subs,       \* registered subscriptions (one per sub/qsub goroutine)
  feed,       \* [Ops -> Seq(Nat)]: each subscription's Feed channel
  feedEnd,    \* [Ops -> {"open", "nil", "err"}]: Feed closed, and sub.Err
  queue,      \* sendQueue
  wire,       \* the messages written to the connection, in order
  shut,       \* shuttingDown / shutdownSignal closed
  connUp,     \* the websocket still reads and writes
  reader,     \* handler goroutine: "reading" or "exited"
  writer,     \* writer goroutine: "running" or "exited"
  pc,         \* [Ops -> ...]: where each request goroutine is
  pending,    \* [Ops -> Msg \cup {NoMsg}]: the message a goroutine is sending
  snapshot,   \* the scan's read transaction: the stored record, see Query
  cursor,     \* the scan's cursor
  qphase,     \* the producer: "idle" until db.Query, then as Query's phase
  qnext,      \* the iterator's Next channel
  qclosed,    \* Next closed by Finish
  qdone,      \* Done closed by Cancel
  qerr        \* the iterator's error

qVars == <<snapshot, cursor, qphase, qnext, qclosed, qdone, qerr>>

vars == <<version, tombstones, subs, feed, feedEnd, queue, wire, shut, connUp,
          reader, writer, pc, pending, qVars>>

dbVars == <<version, tombstones, subs, feed, feedEnd>>
ioVars == <<queue, wire, shut, connUp, reader, writer>>

(* The records' envelope (the operators of module Envelope). *)
Env == INSTANCE Envelope

(* The scan of module Query over the bucket's two keys. *)
RecKey == <<1>>

\* The key of the record no request changes; it sorts before RecKey.
OldKey == <<0>>

Keys == {OldKey, RecKey}

\* The meta a version is stored with: valid, not secret, and deleted if it
\* is a tombstone.
RecMeta(del) == [created |-> 1600000000, modified |-> 1600000000, expires |-> 0,
                 deleted |-> IF del THEN 1600000000 ELSE 0,
                 secret |-> FALSE, crown |-> FALSE]

\* The stored record of version v, in the current envelope.  handlePut's
\* transition code puts the JSON tag before data that lacks it, so every
\* record the API builds with NewWrapper has format JSON.
EntryOf(v, del) == [rec |-> Env!NewWrapper(RecMeta(del), Env!JSON, <<v>>), legacy |-> FALSE]

Versions == 1..Cardinality(Ops)

ScanEntries == {EntryOf(0, FALSE)} \cup {EntryOf(v, del) : v \in Versions, del \in BOOLEAN}

Q == INSTANCE Query WITH
       KeySpace <- Keys, QueryPrefixes <- {<<>>},
       Entries <- ScanEntries, Now <- 1600000000,
       MatchData <- {<<v>> : v \in 0..Cardinality(Ops)}, Internal <- FALSE,
       prefix <- <<>>, phase <- qphase, next <- qnext, closed <- qclosed,
       done <- qdone, err <- qerr, out <- <<>>, cons <- "reading"

Init ==
  /\ version = 0
  /\ tombstones = {}
  /\ subs = {}
  /\ feed = [o \in Ops |-> <<>>]
  /\ feedEnd = [o \in Ops |-> "open"]
  /\ queue = <<>>
  /\ wire = <<>>
  /\ shut = FALSE
  /\ connUp = TRUE
  /\ reader = "reading"
  /\ writer = "running"
  /\ pc = [o \in Ops |-> "unborn"]
  /\ pending = [o \in Ops |-> NoMsg]
  /\ snapshot = [k \in Keys |-> NoEntry]
  /\ cursor = 1
  /\ qphase = "idle"
  /\ qnext = <<>>
  /\ qclosed = FALSE
  /\ qdone = FALSE
  /\ qerr = "nil"

-----------------------------------------------------------------------------
(* shutdown(): shuttingDown.SetToIf, close(shutdownSignal), conn.Close(). *)
(* The callers test shuttingDown first; the effect is the same.          *)
Shutdown == shut' = TRUE /\ connUp' = FALSE

(* handler: ReadMessage returns a request and a goroutine is started. *)
ReadRequest(o) ==
  /\ reader = "reading" /\ connUp
  /\ pc[o] = "unborn"
  /\ pc' = [pc EXCEPT ![o] = IF Kind[o] \in {"put", "delete"} THEN "write" ELSE "register"]
  /\ UNCHANGED <<dbVars, ioVars, pending, qVars>>

(* handler: ReadMessage fails (the connection broke or was closed). *)
ReadFail ==
  /\ reader = "reading" /\ ~connUp
  /\ Shutdown
  /\ reader' = "exited"
  /\ UNCHANGED <<dbVars, queue, wire, writer, pc, pending, qVars>>

(* writer: a message taken from sendQueue is written; a write error shuts *)
(* the API down and ends the writer.                                     *)
WriterStep ==
  /\ writer = "running" /\ queue # <<>>
  /\ queue' = Tail(queue)
  /\ IF connUp THEN /\ wire' = Append(wire, Head(queue))
                    /\ UNCHANGED <<writer, shut, connUp>>
               ELSE /\ Shutdown
                    /\ writer' = "exited"
                    /\ UNCHANGED wire
  /\ UNCHANGED <<dbVars, reader, pc, pending, qVars>>

(* writer: the shutdownSignal case of its select. *)
WriterStop ==
  /\ writer = "running" /\ shut
  /\ writer' = "exited"
  /\ UNCHANGED <<dbVars, queue, wire, shut, connUp, reader, pc, pending, qVars>>

(* The client goes away. *)
ConnDrop ==
  /\ connUp
  /\ connUp' = FALSE
  /\ UNCHANGED <<dbVars, queue, wire, shut, reader, writer, pc, pending, qVars>>

(* The database ends a subscription's feed, with or without sub.Err. *)
FeedEnd(o, e) ==
  /\ o \in subs /\ feedEnd[o] = "open"
  /\ feedEnd' = [feedEnd EXCEPT ![o] = e]
  /\ UNCHANGED <<version, tombstones, subs, feed, ioVars, pc, pending, qVars>>

-----------------------------------------------------------------------------
(* Request goroutines.  A goroutine blocked in send() does nothing else. *)

Free(o) == pending[o] = NoMsg

\* The controller pushes a write to every open subscription's feed.
Push(v) == feed' = [s \in Ops |-> IF s \in subs /\ feedEnd[s] = "open"
                                    THEN Append(feed[s], v) ELSE feed[s]]

\* send(): the message is built, then pushed onto sendQueue (Send).
Emit(o, t, i) == pending' = [pending EXCEPT ![o] = [op |-> o, type |-> t, item |-> i]]

Goto(o, l) == pc' = [pc EXCEPT ![o] = l]

(* send(): sendQueue <- msg, once the queue has room. *)
Send(o) ==
  /\ pending[o] # NoMsg
  /\ Len(queue) < QueueCap
  /\ queue' = Append(queue, pending[o])
  /\ pending' = [pending EXCEPT ![o] = NoMsg]
  /\ UNCHANGED <<dbVars, wire, shut, connUp, reader, writer, pc, qVars>>

(* handlePut: db.Put commits (the controller feeds every subscription)   *)
(* and "success" is sent, or it fails and its error is sent.             *)
PutWrite(o) ==
  /\ pc[o] = "write" /\ Kind[o] = "put"
  /\ \/ /\ version' = version + 1
        /\ Push(version + 1)
        /\ Emit(o, "success", 0)
     \/ /\ Emit(o, "error", 0)
        /\ UNCHANGED <<version, feed>>
  /\ Goto(o, "end")
  /\ UNCHANGED <<tombstones, subs, feedEnd, ioVars, qVars>>

(* handleDelete: Interface.Delete reads the record (getRecord: absent is  *)
(* ErrNotFound, and a tombstone does not decode, see Database), sets its  *)
(* Deleted time and puts it; "success", or the error, is sent.            *)
DeleteWrite(o) ==
  /\ pc[o] = "write" /\ Kind[o] = "delete"
  /\ \/ /\ version > 0 /\ version \notin tombstones
        /\ version' = version + 1
        /\ tombstones' = tombstones \cup {version + 1}
        /\ Push(version + 1)
        /\ Emit(o, "success", 0)
     \/ /\ Emit(o, "error", 0)
        /\ UNCHANGED <<version, tombstones, feed>>
  /\ Goto(o, "end")
  /\ UNCHANGED <<subs, feedEnd, ioVars, qVars>>

(* Interface.Subscribe: q.Check and getController pass, and a fresh      *)
(* subscription (its Feed empty and open) is added to the controller.    *)
Subscribe(o) == subs' = subs \cup {o}

(* registerSub: db.Subscribe registers the subscription, or fails (the    *)
(* controller is gone, the database shutting down) and its error is sent *)
(* and the request ends.                                                  *)
Register(o) ==
  /\ pc[o] = "register"
  /\ \/ /\ Subscribe(o)
        /\ Goto(o, IF Kind[o] = "sub" THEN "sub" ELSE "query")
        /\ UNCHANGED pending
     \/ Emit(o, "error", 0) /\ Goto(o, "end") /\ UNCHANGED subs
  /\ UNCHANGED <<version, tombstones, feed, feedEnd, ioVars, qVars>>

\* Query's table Decoded, of this instance.
ScanDecoded == [e \in ScanEntries |-> Q!NewRawWrapper(Q!Bytes(e))]

(* Interface.Query: q.Check and getController pass, and the controller's *)
(* BBolt.Query starts queryExecutor on a new iterator.                    *)
DbQuery == qphase' = "view"

\* Mutant: processQuery returns on a db.Query error without sending it.
QueryStartSilent(o) ==
  /\ pc[o] = "query" /\ Free(o)
  /\ \/ Goto(o, "end") /\ UNCHANGED <<qVars, pending>>
     \/ /\ DbQuery
        /\ Goto(o, "results")
        /\ UNCHANGED <<snapshot, cursor, qnext, qclosed, qdone, qerr, pending>>
  /\ UNCHANGED <<dbVars, ioVars>>

(* processQuery: db.Query fails (the controller is gone, the database     *)
(* shutting down) and its error is sent, or it starts the producer.       *)
QueryStart(o) ==
  /\ pc[o] = "query" /\ Free(o)
  /\ \/ Emit(o, "error", 0) /\ Goto(o, "end") /\ UNCHANGED qVars
     \/ /\ DbQuery
        /\ Goto(o, "results")
        /\ UNCHANGED <<snapshot, cursor, qnext, qclosed, qdone, qerr, pending>>
  /\ UNCHANGED <<dbVars, ioVars>>

(* queryExecutor: b.db.View begins the read transaction, which sees the  *)
(* record as bbolt holds it now.                                          *)
QueryView ==
  /\ qphase = "view"
  /\ snapshot' = (OldKey :> EntryOf(0, FALSE))
                  @@ (RecKey :> IF version > 0 THEN EntryOf(version, version \in tombstones)
                                               ELSE NoEntry)
  /\ qphase' = "seek"
  /\ UNCHANGED <<cursor, qnext, qclosed, qdone, qerr>>
  /\ UNCHANGED <<dbVars, ioVars, pc, pending>>

(* The rest of queryExecutor: Seek, the scan loop and its selects. *)
QueryProducer ==
  /\ Q!Seek \/ Q!ScanStep(ScanDecoded) \/ Q!Send \/ Q!Block
  /\ UNCHANGED <<dbVars, ioVars, pc, pending>>

\* The record version a wrapper from it.Next carries: its decoded payload.
Item(k) == Head(ScanDecoded[snapshot[k]].data)

(* processQuery: the range over it.Next sends one "ok" per record. *)
QueryResult(o) ==
  /\ pc[o] = "results" /\ Free(o)
  /\ qnext # <<>>
  /\ Emit(o, "ok", Item(Head(qnext)))
  /\ qnext' = Tail(qnext)
  /\ UNCHANGED <<snapshot, cursor, qphase, qclosed, qdone, qerr>>
  /\ UNCHANGED <<dbVars, ioVars, pc>>

\* Mutant: it.Err() is not read after the range.
QueryDoneNoErr(o) ==
  /\ pc[o] = "results" /\ Free(o)
  /\ qnext = <<>> /\ qclosed
  /\ \/ Emit(o, "done", 0) /\ Goto(o, "sub") /\ UNCHANGED qdone
     \/ shut /\ qdone' = TRUE /\ Goto(o, "end") /\ UNCHANGED pending
  /\ UNCHANGED <<snapshot, cursor, qphase, qnext, qclosed, qerr>>
  /\ UNCHANGED <<dbVars, ioVars>>

(* processQuery after the range over the closed Next: it.Err() is sent   *)
(* and false returned; else its select between shutdownSignal (it.Cancel, *)
(* return false) and the closed Next ("done", return true).  handleQsub  *)
(* goes on to processSub only on true.                                    *)
QueryDone(o) ==
  /\ pc[o] = "results" /\ Free(o)
  /\ qnext = <<>> /\ qclosed
  /\ \/ qerr # "nil" /\ Emit(o, "error", 0) /\ Goto(o, "end") /\ UNCHANGED qdone
     \/ /\ qerr = "nil"
        /\ \/ Emit(o, "done", 0) /\ Goto(o, "sub") /\ UNCHANGED qdone
           \/ shut /\ qdone' = TRUE /\ Goto(o, "end") /\ UNCHANGED pending
  /\ UNCHANGED <<snapshot, cursor, qphase, qnext, qclosed, qerr>>
  /\ UNCHANGED <<dbVars, ioVars>>

\* processSub's classification: Deleted set is "del", Created = Modified is
\* "new", else "upd".  handlePut and Interface.Delete write every record
\* with nil meta or the fetched one, whose UpdateMeta gives Created =
\* Modified: "upd" is never sent (see the hazard at handlePut).
Event(v) == IF v \in tombstones THEN "del" ELSE "new"

\* Mutant: the feed is consumed while the query still runs.
SubRecordDuringQuery(o) ==
  /\ pc[o] \in {"results", "sub"} /\ Free(o)
  /\ feed[o] # <<>>
  /\ Emit(o, Event(Head(feed[o])), Head(feed[o]))
  /\ feed' = [feed EXCEPT ![o] = Tail(@)]
  /\ UNCHANGED <<version, tombstones, subs, feedEnd, ioVars, pc, qVars>>

(* processSub: a record from sub.Feed is sent as an event. *)
SubRecord(o) ==
  /\ pc[o] = "sub" /\ Free(o)
  /\ feed[o] # <<>>
  /\ Emit(o, Event(Head(feed[o])), Head(feed[o]))
  /\ feed' = [feed EXCEPT ![o] = Tail(@)]
  /\ UNCHANGED <<version, tombstones, subs, feedEnd, ioVars, pc, qVars>>

ErrorsSent(o) ==
  Cardinality({i \in 1..Len(wire) : wire[i].op = o /\ wire[i].type = "error"})
  + Cardinality({i \in 1..Len(queue) : queue[i].op = o /\ queue[i].type = "error"})

(* processSub: the closed feed yields nil; with sub.Err set the error is  *)
(* sent and the loop goes on.  (With Err nil the turn changes nothing.)   *)
SubFeedClosed(o) ==
  /\ pc[o] = "sub" /\ Free(o)
  /\ feed[o] = <<>> /\ feedEnd[o] = "err"
  /\ ErrorsSent(o) < MaxErrors
  /\ Emit(o, "error", 0)
  /\ UNCHANGED <<dbVars, ioVars, pc, qVars>>

\* Mutant: processSub's select without the shutdownSignal case.
SubShutdownNever(o) == FALSE

(* processSub: the shutdownSignal case: sub.Cancel() and return. *)
SubShutdown(o) ==
  /\ pc[o] = "sub" /\ Free(o)
  /\ shut
  /\ subs' = subs \ {o}
  /\ feedEnd' = [feedEnd EXCEPT ![o] = IF @ = "open" THEN "nil" ELSE @]
  /\ Goto(o, "end")
  /\ UNCHANGED <<version, tombstones, feed, ioVars, pending, qVars>>

Step(o) ==
  \/ PutWrite(o) \/ DeleteWrite(o) \/ Register(o) \/ QueryStart(o) \/ QueryResult(o)
  \/ QueryDone(o) \/ SubRecord(o) \/ SubFeedClosed(o) \/ SubShutdown(o)

Next ==
  \/ \E o \in Ops : ReadRequest(o) \/ Step(o) \/ Send(o)
  \/ ReadFail \/ WriterStep \/ WriterStop
  \/ QueryView \/ QueryProducer
  \/ ConnDrop
  \/ \E o \in Ops, e \in {"nil", "err"} : FeedEnd(o, e)

(* The Go scheduler runs every goroutine that can run: weak fairness per  *)
(* goroutine (the handler, the writer, the producer, each request).  A    *)
(* select picks among its ready cases at random, so each case that stays  *)
(* ready is taken: the writer's two cases, processQuery's closing select  *)
(* and processSub's shutdown case have their own.  The client and the     *)
(* database are not obliged to do anything.                               *)
QsubOps == {o \in Ops : Kind[o] = "qsub"}

SubOps == {o \in Ops : Kind[o] \in {"sub", "qsub"}}

Fairness ==
  /\ WF_vars(ReadFail \/ \E o \in Ops : ReadRequest(o))
  /\ \A o \in Ops : WF_vars(Send(o) \/ PutWrite(o) \/ DeleteWrite(o) \/ Register(o)
                            \/ QueryStart(o) \/ QueryResult(o) \/ SubRecord(o))
  /\ \A o \in QsubOps : WF_vars(QueryDone(o))
  /\ \A o \in SubOps : WF_vars(SubShutdown(o))
  /\ WF_vars(WriterStep) /\ WF_vars(WriterStop)
  /\ WF_vars(QueryView \/ QueryProducer)

Spec == Init /\ [][Next]_vars /\ Fairness

-----------------------------------------------------------------------------

\* The messages of request o the client has received, in order.
Received(o) == SelectSeq(wire, LAMBDA m : m.op = o)

Types(o) == [i \in 1..Len(Received(o)) |-> Received(o)[i].type]

(* Spec 4.4 and the protocol of handleQsub: a query stream reaches the    *)
(* client as its records, then one "done", then only subscription events  *)
(* or errors: no "ok" after "done" and no event before it.                 *)
QsubStreamShape ==
  \A o \in Ops : Kind[o] = "qsub" =>
    \A i, j \in 1..Len(Types(o)) :
      /\ Types(o)[i] = "done" /\ j > i => Types(o)[j] # "ok"
      /\ Types(o)[j] \in {"new", "del"} /\ i > j => Types(o)[i] # "done"
      /\ Types(o)[i] = "done" /\ Types(o)[j] = "done" => i = j

Released(o) == pc[o] \in {"unborn", "end"} /\ pending[o] = NoMsg

(* Spec section 6: the shutdown signal makes every request goroutine of   *)
(* the connection terminate rather than leak, blocked or spinning, and    *)
(* the query's producer goroutine (queryExecutor) finish as well.         *)
ShutdownReleasesGoroutines ==
  shut ~> (\A o \in Ops : Released(o)) /\ qphase \in {"idle", "finished"}

(* Spec 4.5: query-then-subscribe neither loses nor duplicates events     *)
(* relative to the snapshot: no record version reaches the client twice.  *)
QsubNoDuplicate ==
  \A o \in Ops : \A i, j \in 1..Len(Received(o)) :
    /\ i < j
    /\ Received(o)[i].item > 0
    => Received(o)[i].item # Received(o)[j].item

(* Spec 4.4 end to end: a client that receives "done" for a query has    *)
(* received, before it, one "ok" per record of the scan's snapshot that   *)
(* matches, in key order: the bbolt scan, the Next channel, processQuery's *)
(* range and the sendQueue lose, add and reorder nothing, and a scan that *)
(* ended in an error or a timeout is never reported as complete.          *)
ClientSeesSnapshot ==
  \A o \in Ops : \A i \in 1..Len(Received(o)) :
    Received(o)[i].type = "done" =>
      LET oks == SelectSeq(SubSeq(Received(o), 1, i - 1), LAMBDA m : m.type = "ok")
      IN /\ qphase = "finished" /\ qerr = "nil"
         /\ [j \in 1..Len(oks) |-> oks[j].item]
              = [j \in 1..Len(Q!Expected) |-> Item(Q!Expected[j])]

(* The protocol of handleQsub (its reply comment: ok..., done, or error): *)
(* a client whose qsub request was read is answered with "done" or        *)
(* "error", whatever the database, the scan or its timeout does, unless   *)
(* the connection shuts down first.                                       *)
QsubAnswered ==
  \A o \in QsubOps :
    (pc[o] # "unborn" ~> \/ shut
                         \/ \E i \in 1..Len(wire) : wire[i].op = o /\ wire[i].type \in {"done", "error"})

(* Spec section 6: a request goroutine that has returned has released its *)
(* subscription.                                                           *)
SubscriptionReleased == \A o \in Ops : pc[o] = "end" => o \notin subs

====
