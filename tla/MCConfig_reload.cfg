\* Two string options whose keys share the part "b" at different depths;
\* values of both string and other types are set.  A process may stop
\* after any step, so deadlock is not looked for.
CONSTANTS
  a = a
  b = b
  d1 = d1
  d2 = d2
  Options <- MCOptions
  OptType <- MCOptType
  Matches <- MCMatches
  Data = {d1, d2}
  GoTypes = {"string", "int", "bool"}
  MaxChanges = 3
  Nil = Nil
  NoFile = NoFile
SPECIFICATION Spec
PROPERTY LoadRestoresSaved
CHECK_DEADLOCK FALSE
