\* Two strategies, a channel of each kind, three subscriptions for one of
\* them or two for two, every fault.
CONSTANTS
  st1 = st1
  st2 = st2
  tick = tick
  depth = depth
  kline = kline
  stream = stream
  Strategies = {st1, st2}
  Tickers = {tick}
  Depths = {depth}
  Klines = {kline}
  Streams = {stream}
  MaxCalls = 4
  Faults = {"send", "refusal", "ping", "close", "kill"}
SPECIFICATION FairSpec
CHECK_DEADLOCK FALSE
INVARIANTS
  CountsAreSubscribers
PROPERTIES
  Fed
  Released
