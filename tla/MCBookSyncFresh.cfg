CONSTANTS
  Tasks = {t1, t2, t3}
  NoTask = NoTask
  BufferMax = 2
  MaxId = 5
  MaxLag = 0
  MaxDisconnects = 2
  MaxSweeps = 2
  MaxLosses = 0
  MaxUnsound = 1
  MaxDeaths = 0
SPECIFICATION Spec
SYMMETRY TaskSymmetry
INVARIANT FreshComplete
CHECK_DEADLOCK FALSE
