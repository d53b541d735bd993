CONSTANTS
  j1 = j1
  w1 = w1
  w2 = w2
  c1 = c1
  c2 = c2
  NoJob = NoJob
  NoWorker = NoWorker
  Jobs <- OneJob
  Workers <- SingleWorker
  MaxRetries <- RetryOnce
  Slots <- TwoSlots
  MaxFaults = 0

SYMMETRY Sym
SPECIFICATION Spec
INVARIANTS TypeOK RetryBound NothingVanishes OneCopy AttemptsBounded
PROPERTIES TerminalStays ImplementsLifecycle
CHECK_DEADLOCK FALSE
