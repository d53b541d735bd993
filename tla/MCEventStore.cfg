CONSTANTS
  t1 = t1
  t2 = t2
  NoTask = NoTask
  Tasks <- MCTasks
  MaxEventsPerFile = 1
  MaxFiles = 3
  MaxRestarts = 2
SPECIFICATION FairStoreSpec
INVARIANTS NumbersUnique StoredIsDurable StoreTypeOK ReadYourWrites ViewFromLog AppliedOnce StampIsNewest
PROPERTIES ViewGrows EveryAppendAnswered
CHECK_DEADLOCK FALSE
