SPECIFICATION Spec
CONSTANTS
  Domain = {d1}
  Request = {q1, q2}
  Drm = {m1, m2}
  NoDrm = NoDrm
  NRoles = 6
  Operation = {"apply", "approve", "renew", "purchase", "delete", "reject", "update"}
  MaxRenewals = 2
  MaxPurchases = 2
CONSTRAINTS
  VerificationInTurn
  DomainInTurn
SYMMETRY RequestSymmetry
INVARIANTS
  VerifiedForThisApplication
PROPERTIES
  ChainSpec
