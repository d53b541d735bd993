CONSTANTS
  MaxEvents = 2
  Bodies <- SecondEvent
  MaxFetches = 2
  MaxFailures = 0
  MaxReconnects = 1
  MaxReloads = 0
SPECIFICATION Spec
INVARIANT ReplayReconciles
CHECK_DEADLOCK FALSE
