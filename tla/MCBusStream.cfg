CONSTANTS
  MaxEvents = 3
  Starts <- MCStarts
  MaxConns = 3
  MaxFaults = 2
  MaxChanges = 1
SPECIFICATION Spec
INVARIANTS TypeOK NothingLost OneLiveStream OpenMeansLive ReplyNotLost NeverStranded
PROPERTIES ImplementsFeed
CHECK_DEADLOCK FALSE
