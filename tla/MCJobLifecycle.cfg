CONSTANTS
  j1 = j1
  w1 = w1
  w2 = w2
  c1 = c1
  c2 = c2
  NoJob = NoJob
  NoWorker = NoWorker
  Jobs <- OneJob
  Workers <- TwoWorkers
  MaxRetries <- RetryOnce
  Slots <- OneSlot
  MaxFaults = 1

SPECIFICATION FairSpec
INVARIANT OneWorker
PROPERTIES ImplementsLifecycle EveryJobEnds
CHECK_DEADLOCK FALSE
