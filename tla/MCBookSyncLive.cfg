CONSTANTS
  Tasks = {t1, t2}
  NoTask = NoTask
  BufferMax = 2
  MaxId = 3
  MaxLag = 0
  MaxDisconnects = 1
  MaxSweeps = 1
  MaxLosses = 1
  MaxUnsound = 1
  MaxDeaths = 1
SPECIFICATION FairSpec
PROPERTY Recovers
CHECK_DEADLOCK FALSE
