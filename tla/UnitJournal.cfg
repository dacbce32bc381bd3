\* Writers killed anywhere, a reader that keeps reading and may be moved.
CONSTANTS
  r1 = r1
  r2 = r2
  Readers = {r1}
  Revisers = {r1}
  MaxPage = 2
  PageCells = 6
  Headroom = 3
  Lengths = {1, 2, 3}
  Junk = {"written", "end"}
  MaxFrames = 3
  MayCrash <- Anywhere
SPECIFICATION FairSpec
CHECK_DEADLOCK FALSE
INVARIANTS
  TypeOK
  HandsOutFrames
PROPERTIES
  FramesStay
  IsJournal
  NoOldFrames
  CatchesUp
