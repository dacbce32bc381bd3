\* Three writers, one of another unit, killed in GetPage.
CONSTANTS
  w1 = w1
  w2 = w2
  w3 = w3
  r1 = r1
  uA = uA
  uB = uB
  NoUnit = NoUnit
  Writers = {w1, w2, w3}
  Readers = {}
  Revisers = {}
  Units = {uA, uB}
  UnitsOf <- WriterElsewhere
  MaxUser = 2
  MaxPage = 2
  MayDie <- OnlyInGetPage
  RenameMayFail = FALSE
SPECIFICATION Spec
INVARIANTS
  OneWriterPerUnit
