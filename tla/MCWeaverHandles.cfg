CONSTANTS
  MaxSeq = 2
  Additions <- FirstTwo
  Bodies <- None
  Base <- NoBase
  Overtaking = 1
  MaxFailures = 1
  MaxRepeats = 0
  MaxMisses = 0
  MaxRebuilds = 1
  MaxCrashes = 1
SPECIFICATION FairSpec
INVARIANT MarkSound
PROPERTY EveryEventHandled
CHECK_DEADLOCK FALSE
