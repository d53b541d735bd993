CONSTANTS
  MaxSeq = 2
  Additions <- None
  Bodies <- None
  Base <- NoBase
  Overtaking = 0
  MaxFailures = 0
  MaxRepeats = 0
  MaxMisses = 0
  MaxRebuilds = 0
  MaxCrashes = 0
SPECIFICATION Spec
INVARIANT NothingInTheGap
CHECK_DEADLOCK FALSE
