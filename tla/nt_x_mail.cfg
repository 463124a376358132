SPECIFICATION FairSpec
CONSTANTS
  Emp = {e1, e2}
  NoEmp = NoEmp
  Event = {purchased}
  Stored = {purchased}
  Call = {c1}
  Reader = {}
  MaxTo = 2
  Fault = {"mail"}
CHECK_DEADLOCK FALSE
PROPERTIES
  CallIsAnswered
