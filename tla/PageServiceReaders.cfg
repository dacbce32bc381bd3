\* A writer of one unit and a reader of two, which may be moved; killed with a page.
CONSTANTS
  w1 = w1
  w2 = w2
  w3 = w3
  r1 = r1
  uA = uA
  uB = uB
  NoUnit = NoUnit
  Writers = {w1}
  Readers = {r1}
  Revisers = {r1}
  Units = {uA, uB}
  UnitsOf <- ReaderOfBoth
  MaxUser = 3
  MaxPage = 2
  MayDie <- WithAPage
  RenameMayFail = FALSE
SPECIFICATION Spec
INVARIANTS
  ReaderCountsAreHolders
PROPERTIES
  NoRewind
