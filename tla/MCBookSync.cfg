CONSTANTS
  Tasks = {t1, t2}
  NoTask = NoTask
  BufferMax = 3
  MaxId = 5
  MaxLag = 2
  MaxDisconnects = 1
  MaxSweeps = 1
  MaxLosses = 1
  MaxUnsound = 1
  MaxDeaths = 1
SPECIFICATION Spec
SYMMETRY TaskSymmetry
INVARIANTS
  TypeOK
  ProvenComplete
  NoFalseGap
  BufferingIsServed
  ReplayMatchesLoop
PROPERTIES
  PublishesInOrder
  ImplementsExactCopy
CHECK_DEADLOCK FALSE
