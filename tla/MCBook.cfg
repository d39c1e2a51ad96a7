CONSTANTS
  Price <- MCPrice
  Qty <- MCQty
  BufferMax = 2
  BboMismatchThreshold = 2
  Events <- MCEvents
  Snapshots <- MCSnapshots
  Tickers <- MCTickers
  MaxSnapshots = 3
  MaxTroubles = 2
SPECIFICATION Spec
INVARIANTS
  TypeOK
  LiveIsSound
  UncheckedIsCounted
  BufferOnlyWhileBuffering
PROPERTIES
  DropsAreCounted
  ImplementsProtocol

