---------------------------- MODULE QueryResult ----------------------------
(***************************************************************************)
(* What a query promises (spec 4.2, 4.4 and 8): the iterator hands out,    *)
(* in key order, exactly the records that have the query's prefix, are     *)
(* valid, are permitted and match, then ends without error; or it stops    *)
(* early, without error after the consumer cancelled it, or with the       *)
(* backpressure timeout error.                                             *)
(***************************************************************************)
EXTENDS Naturals, Sequences

CONSTANT Keys   \* the keys a result may hold

VARIABLES
  expected,   \* the result the query must produce; fixed by the snapshot
  out,        \* the records handed to the iterator so far
  status,     \* "running", "ok", "cancelled" or "timeout"
  cancelReq   \* the consumer has asked the query to stop

vars == <<expected, out, status, cancelReq>>

Init ==
  /\ expected \in Seq(Keys)
  /\ out = <<>>
  /\ status = "running"
  /\ cancelReq = FALSE

Emit ==
  /\ status = "running"
  /\ Len(out) < Len(expected)
  /\ out' = Append(out, expected[Len(out) + 1])
  /\ UNCHANGED <<expected, status, cancelReq>>

Complete ==
  /\ status = "running"
  /\ out = expected
  /\ status' = "ok"
  /\ UNCHANGED <<expected, out, cancelReq>>

Cancel ==
  /\ cancelReq' = TRUE
  /\ UNCHANGED <<expected, out, status>>

StopOnCancel ==
  /\ status = "running"
  /\ cancelReq
  /\ status' = "cancelled"
  /\ UNCHANGED <<expected, out, cancelReq>>

Abort ==
  /\ status = "running"
  /\ status' = "timeout"
  /\ UNCHANGED <<expected, out, cancelReq>>

Next == Emit \/ Complete \/ Cancel \/ StopOnCancel \/ Abort

Spec == Init /\ [][Next]_vars

====
