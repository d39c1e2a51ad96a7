CONSTANTS
  Names <- MCNames
  Tickers <- MCTickers
  Explicits <- MCExplicits
  Caps <- MCCaps
  NoCap = NoCap
  PerShard = 2
  MaxStarts = 2
SPECIFICATION Spec
INVARIANTS
  TracksWhatWasAsked
  RanksFollowLiquidity
  ShardsPartition
  StableAcrossRestarts
CHECK_DEADLOCK FALSE
