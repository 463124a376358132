SPECIFICATION Spec
CONSTANTS
  Domain = {d1}
  Request = {q1}
  Drm = {m1}
  NoDrm = NoDrm
  NRoles = 3
  Operation = {"apply", "approve", "renew", "purchase"}
  MaxRenewals = 2
  MaxPurchases = 1
INVARIANTS
  RenewalCanBeApproved
