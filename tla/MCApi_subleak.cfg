\* A query-then-subscribe whose connection shuts down; behaviours end with the connection.
CONSTANTS
  p1 = p1
  p2 = p2
  d1 = d1
  q1 = q1
  s1 = s1
  Ops <- OpsPutQsub
  Kind <- KindPutQsub
  QueueCap = 6
  MaxErrors = 2
  NoMsg = NoMsg
  NextCap = 1
  NoEntry = NoEntry
SPECIFICATION Spec
INVARIANT SubscriptionReleased
CHECK_DEADLOCK FALSE
