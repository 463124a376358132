SPECIFICATION FairSpec
CONSTANTS
  Emp = {e1, e2}
  NoEmp = NoEmp
  Event = {purchased, renewal_verified}
  Stored = {purchased}
  Call = {c1}
  Reader = {r1}
  MaxTo = 2
  Fault = {"mail", "entry", "query", "stop"}
CHECK_DEADLOCK FALSE
INVARIANTS
  NotificationInv
  SummaryIsStarted
  DatedByRecipient
  ListedIsCounted
PROPERTIES
  ReadOnce
  CallEnds
