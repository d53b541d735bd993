CONSTANTS
  MaxEvents = 2
  Bodies <- SecondEvent
  MaxFetches = 2
  MaxFailures = 2
  MaxReconnects = 1
  MaxReloads = 1
SPECIFICATION FairSpec
INVARIANTS CacheTypeOK FreshAtRest BookmarkNeverLeads
PROPERTY Served
CHECK_DEADLOCK FALSE
