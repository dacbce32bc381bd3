\* The pages of the system unit never fill up.
CONSTANTS
  c1 = c1
  c2 = c2
  Paged = Paged
  Clients = {c1, c2}
  PageFrames = 4
  OldFrames = {0, 4}
  MaxPage = 2
  MaxFrames = 2
  EarlyClients = FALSE
SPECIFICATION FairSpec
INVARIANTS
  WrittenIsThere
PROPERTIES
  ClientsServed
