\* One strategy, two exchanges, started twice.
CONSTANTS
  c1 = c1
  c2 = c2
  s1 = s1
  s2 = s2
  Clients = {c1}
  Venues = {s1, s2}
  MaxSessions = 2
  MaxWritten = 2
  Refused = {c1}
  Uninitialised = {s1}
  LateThreads = FALSE
  Lost = TRUE
  Signals = TRUE
  Hasty = FALSE
  Forgotten = TRUE
  MaxUnsigned = 99
  MaxExponent = 10
  MaxText = 24
  Themes <- MCThemes
  Names <- MCNames
SPECIFICATION MCSpec
CHECK_DEADLOCK FALSE
INVARIANTS
  NotDropped
  ParsesAsGrammar
  Arrives
PROPERTIES
  EngineReturns
  RequestServed
