CONSTANTS
  t1 = t1
  t2 = t2
  NoTask = NoTask
  Tasks <- MCTasks
  MaxEventsPerFile = 1
  MaxFiles = 3
  MaxRestarts = 0

SPECIFICATION Spec
INVARIANT UniqueNumbers
CHECK_DEADLOCK FALSE
