SPECIFICATION FairSpec
CONSTANTS
  Domain = {d1, d2}
  Intervals = {0, 1}
  Terms = {1, 2}
  Null = Null
  Fault = {"notify", "database", "server"}
  MaxDay = 2
  MaxPurchases = 2
CHECK_DEADLOCK FALSE
INVARIANTS
  NotifiedIsSaved
  ActiveUntilExpiry
  FirstTermHandled
  SchedulerInv
PROPERTIES
  RunEnds
