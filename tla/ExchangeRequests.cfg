\* Two requests of any kind, to any exchange, with up to two klines or
\* orders in an answer.
CONSTANTS
  Sources = {"okex", "binance"}
  Kinds = {"account", "insert", "cancel", "ticker", "kline", "order", "symbol"}
  Faults = {"symbol", "type"}
  MaxRequests = 2
  MaxItems = 2
SPECIFICATION FairSpec
CHECK_DEADLOCK FALSE
INVARIANTS
  LastEnds
  ToldIsTaken
PROPERTIES
  Told
