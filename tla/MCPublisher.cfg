CONSTANTS
  btc = btc
  eth = eth
  Clients = {c1}
  Symbols <- MCSymbols
  Filters <- MCFilters
  ChannelMax = 2
  QueueMax = 2
  OutMax = 2
  MaxEvents = 3
  MaxRequests = 3
SPECIFICATION FairSpec
INVARIANTS
  TypeOK
  EveryDropCounted
  SentInOrder
  TableMatchesHandlers
PROPERTY FeedNeverBlocks
CHECK_DEADLOCK FALSE
