\* Two writes and a one-slot sendQueue (the code's 100 slots, scaled down to the two goroutines); behaviours end with the connection.
CONSTANTS
  p1 = p1
  p2 = p2
  d1 = d1
  q1 = q1
  s1 = s1
  Ops <- OpsPuts
  Kind <- KindPuts
  QueueCap = 1
  MaxErrors = 2
  NoMsg = NoMsg
  NextCap = 1
  NoEntry = NoEntry
SPECIFICATION Spec
PROPERTY ShutdownReleasesGoroutines
CHECK_DEADLOCK FALSE
