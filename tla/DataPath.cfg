\* One thread of a market gateway, two of a trade gateway, one ticker; a second
\* is two ticks.
SPECIFICATION FairSpec
CONSTANTS
  MdThreads = {m1}
  TgThreads = {t1, t2}
  Symbols = {s1}
  Second = 2
  Boot = 1
  MaxTime = 7
  MaxFrames <- MCMaxFrames
INVARIANT FramesKept
PROPERTIES OldestFirst Delivered
CHECK_DEADLOCK FALSE
