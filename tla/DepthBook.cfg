\* One level is handed on.  At Binance a bid and two asks, four changes and a
\* subscription that may end; at OKEX two prices, two symbols, two changes, a
\* subscription of each that may end.
CONSTANTS
  MaxDepth = 1
  Bids = {1}
  Asks = {1, 2}
  Volumes = {0, 1}
  Prices = {1, 2}
  MaxId = 4
  MaxDepthSubs = 1
  SnapshotFails = TRUE
  s1 = s1
  s2 = s2
  OSymbols = {s1, s2}
  OVolumes = {0, 1}
  HalfInt = 2
  Epoch = 8
  MaxBatch = 1
  MaxOChanges = 2
  MaxOSubs = 1
SPECIFICATION MCSpec
CHECK_DEADLOCK FALSE
INVARIANTS
  PublishedIsTrue
  OkexIsTrue
PROPERTIES
  GetsIntoBook
