\* A cached, non-internal Interface reads a key after marking it secret.
CONSTANTS
  i1 = i1
  i2 = i2
  c1 = c1
  c2 = c2
  k1 = k1
  k2 = k2
  a1 = a1
  BadAttr = BadAttr
  NoRecord = NoRecord
  Keys <- MCKeys
  Attrs = {a1}
  Ifaces <- MCIfaces
  Callers <- MCCallers
  IfaceOf <- MCIfaceOf
  Opts <- MCOptsCachedPublic
  ReadOnly = FALSE
  MaxTime = 2
  Durations = {1}

SPECIFICATION Spec
INVARIANT PermissionRegardlessOfCache

\* Once a tombstone no longer decodes (see GetAfterDeleteNotFound) every call
\* on the key fails and changes nothing; with the clock at MaxTime such states
\* have no successor.  The program is then stuck the same way.
CHECK_DEADLOCK FALSE
