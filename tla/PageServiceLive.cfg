\* Two writers that may be killed anywhere; rename may fail.
CONSTANTS
  w1 = w1
  w2 = w2
  w3 = w3
  r1 = r1
  uA = uA
  uB = uB
  NoUnit = NoUnit
  Writers = {w1, w2}
  Readers = {}
  Revisers = {}
  Units = {uA}
  UnitsOf <- OneUnit
  MaxUser = 2
  MaxPage = 1
  MayDie <- Anywhere
  RenameMayFail = TRUE
SPECIFICATION FairSpec
PROPERTIES
  RequestAnswered
  DeadReclaimed
