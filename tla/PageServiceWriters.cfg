\* Two writers of one unit, killed anywhere but in GetPage; rename may fail.
CONSTANTS
  w1 = w1
  w2 = w2
  w3 = w3
  r1 = r1
  uA = uA
  uB = uB
  NoUnit = NoUnit
  Writers = {w1, w2}
  Readers = {}
  Revisers = {}
  Units = {uA}
  UnitsOf <- OneUnit
  MaxUser = 2
  MaxPage = 2
  MayDie <- NotInGetPage
  RenameMayFail = TRUE
SPECIFICATION Spec
SYMMETRY WriterSymmetry
INVARIANTS
  TypeOK
  Exclusion
  OneWriterPerUnit
  WriterCountsAreHolders
  SlotsHaveOneOwner
