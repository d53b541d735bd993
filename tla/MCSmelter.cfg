CONSTANTS
  Declined <- Second
  WaveSize = 2
  MaxChanges = 2
  MaxTroubles = 1
  MaxRebuilds = 1
SPECIFICATION FairSpec
INVARIANTS SmelterTypeOK StoresAgree WavesComplete RebuildHonest
PROPERTY PlannersEnd
CHECK_DEADLOCK FALSE
