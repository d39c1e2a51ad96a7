CONSTANTS
  btc = btc
  eth = eth
  sol = sol
  k1 = k1
  k2 = k2
  Symbols <- MCSymbols
  Shards <- MCShards
  ShardOf <- MCShardOf
  Rank <- MCRank
  Interval = 1
  MaxDisconnects = 1
  MaxSweeps = 1
  MaxTroubles = 1
SPECIFICATION FairSpec
INVARIANTS
  TypeOK
  WaitingAreServed
  OfflineIsUnsynced
PROPERTIES
  DisconnectIsLocal
  WaitingEnds
CHECK_DEADLOCK FALSE
