CONSTANTS
  Tasks = {t1, t2}
  NoTask = NoTask
  BufferMax = 2
  MaxId = 4
  MaxLag = 0
  MaxDisconnects = 1
  MaxSweeps = 0
  MaxLosses = 0
  MaxUnsound = 0
  MaxDeaths = 0
SPECIFICATION PySpec
SYMMETRY TaskSymmetry
INVARIANT LiveComplete
CHECK_DEADLOCK FALSE
