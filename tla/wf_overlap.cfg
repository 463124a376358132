SPECIFICATION Spec
CONSTANTS
  Domain = {d1}
  Request = {q1, q2}
  Drm = {m1, m2}
  NoDrm = NoDrm
  NRoles = 3
  Operation = {"apply", "approve", "renew", "purchase", "reject", "update"}
  MaxRenewals = 1
  MaxPurchases = 1
SYMMETRY RequestSymmetry
INVARIANTS
  WholeChain
  WorkflowInv
  PurchaseWasApproved
  ActiveWasBought
