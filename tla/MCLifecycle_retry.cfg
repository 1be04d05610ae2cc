\* Every goroutine stops once its calls have succeeded, or keeps failing to
\* initialize after its own setup failed; terminal states are expected.
CONSTANTS
  p1 = p1
  p2 = p2
  c1 = c1
  c2 = c2
  Callers <- MCCallers
  Controllers <- MCControllers
  MaxFailures = 2
SYMMETRY Symm
SPECIFICATION Spec
INVARIANT ShutdownNilMeansAllClosed
CHECK_DEADLOCK FALSE
