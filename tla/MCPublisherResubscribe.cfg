CONSTANTS
  btc = btc
  eth = eth
  Clients = {c1}
  Symbols <- MCSymbols
  Filters <- MCFilters
  ChannelMax = 1
  QueueMax = 1
  OutMax = 1
  MaxEvents = 1
  MaxRequests = 2
SPECIFICATION Spec
PROPERTY LatestFilterServed
CHECK_DEADLOCK FALSE
