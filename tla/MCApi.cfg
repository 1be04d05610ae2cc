\* A write, a delete and a query-then-subscribe on one connection, a client
\* that may drop and a feed that may end.  The queue holds every message the
\* three goroutines can send (1 + 1 + 1 + 1 + 2 + 2 for the query's record,
\* its "done", the two events and the two feed errors), so no send blocks
\* for good.
\* The connection ends, and every goroutine with it, so behaviours stop;
\* there is no deadlock to look for.
CONSTANTS
  p1 = p1
  p2 = p2
  d1 = d1
  q1 = q1
  s1 = s1
  Ops <- OpsPutDelQsub
  Kind <- KindPutDelQsub
  QueueCap = 8
  MaxErrors = 1
  NoMsg = NoMsg
  NextCap = 1
  NoEntry = NoEntry
SPECIFICATION Spec
INVARIANT QsubStreamShape
INVARIANT ClientSeesSnapshot
PROPERTY QsubAnswered
PROPERTY ShutdownReleasesGoroutines
CHECK_DEADLOCK FALSE
