------------------------------- MODULE MCApi -------------------------------
(* Small connections of the database API for TLC. *)
EXTENDS Api, TLC

CONSTANTS p1, p2, d1, q1, s1

\* A write racing a query-then-subscribe.
OpsPutQsub == {p1, q1}
KindPutQsub == (p1 :> "put") @@ (q1 :> "qsub")

\* A write and a delete racing a query-then-subscribe.
OpsPutDelQsub == {p1, d1, q1}
KindPutDelQsub == (p1 :> "put") @@ (d1 :> "delete") @@ (q1 :> "qsub")

\* Two writes and nothing else.
OpsPuts == {p1, p2}
KindPuts == (p1 :> "put") @@ (p2 :> "put")

\* A plain subscription with a write.
OpsPutSub == {p1, s1}
KindPutSub == (p1 :> "put") @@ (s1 :> "sub")
====
