SPECIFICATION Spec
CONSTANTS
  Domain = {d1}
  Drm = {m1, m2, m3}
  FirstDrm = m1
  NoDrm = NoDrm
  Request = {q1, q2}
  Fault = {"refuse", "connection"}
  Touched = {d1}
  MaxTransfers = 2
CHECK_DEADLOCK FALSE
SYMMETRY Symmetry
INVARIANTS
  AskedByOwner
  TransferInv
PROPERTIES
  MovedByApproval
