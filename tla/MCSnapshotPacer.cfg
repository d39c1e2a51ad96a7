CONSTANTS
  btc = btc
  eth = eth
  sol = sol
  Tasks <- MCTasks
  Rank <- MCRank
  Interval = 2
  MaxSeq = 4
SPECIFICATION FairSpec
INVARIANTS
  TypeOK
  TicketsKept
PROPERTIES
  ImplementsRankedSlots
  NoSlotBurned
  EveryoneServed
CHECK_DEADLOCK FALSE
