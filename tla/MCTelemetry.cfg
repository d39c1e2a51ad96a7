CONSTANTS
  Shards = {s1}
  Symbols = {btc, eth}
  ShardOf <- MCShardOf
  Gatherers = {g1, g2}
  Nobody = Nobody
  MaxCount <- MCMaxCount
SPECIFICATION Spec
SYMMETRY Symmetry
INVARIANTS
  TypeOK
  AppliedWereRequested
  BookDropsWereProduced
  NoneLiveOffline
PROPERTIES
  CountersGrow
  ReportIsCurrent
CHECK_DEADLOCK FALSE
