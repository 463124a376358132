SPECIFICATION Spec
CONSTANTS
  Ip = {ip1, ip2}
  Request = {q1, q2}
  Authenticated = {"review", "complete"}
  MaxRenewals = 2
CHECK_DEADLOCK FALSE
SYMMETRY Symmetry
INVARIANTS
  OpenOnlyUnseen
  NumbersGrow
  DecidedByHod
  IpInv
