SPECIFICATION InTurnSpec
CONSTANTS
  Domain = {d1, d2}
  Drm = {m1, m2, m3}
  FirstDrm = m1
  NoDrm = NoDrm
  Request = {q1, q2}
  Fault = {"connection"}
  Touched = {d1}
  MaxTransfers = 4
CHECK_DEADLOCK FALSE
INVARIANTS
  LastTransferHolds
PROPERTIES
  HandoverSpec
  ApprovalReachesWorkflow
