CONSTANTS
  MaxSeq = 3
  Additions <- None
  Bodies <- Second
  Base <- SecondOnFirst
  Overtaking = 1
  MaxFailures = 2
  MaxRepeats = 1
  MaxMisses = 1
  MaxRebuilds = 0
  MaxCrashes = 1
SPECIFICATION Spec
INVARIANTS TypeOK MarkSound NewestAtMark
CHECK_DEADLOCK FALSE
