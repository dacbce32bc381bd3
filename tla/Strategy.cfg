\* Two sources; time limits are reached, requests lost, sessions end.
CONSTANTS
  s1 = s1
  s2 = s2
  Sources = {s1, s2}
  RidRange = 9
  MaxRequests = 4
  MaxDown = 1
  MayTimeOut = TRUE
  MayLose = TRUE
  Early = FALSE
  Exchanges = {"okex", "binance"}
  Callers = {"data"}
  MaxOrders = 2
  MaxTime = 3
  Listed <- MCListed
  Funds <- MCFunds
  Orders <- MCOrders
  OldOrders <- MCOldOrders
SPECIFICATION MCSpec
CHECK_DEADLOCK FALSE
INVARIANTS
  SyncGetsItsAnswer
  AsyncHanded
  Settled
  Covered
PROPERTIES
  SyncReturns
  StopStops
