SPECIFICATION Spec
CONSTANTS
  h1 = h1
  h2 = h2
  n1 = n1
  a1 = a1
  s1 = s1
  s2 = s2
  Member = {h1, h2, n1, a1}
  Hire = {s1, s2}
  Nobody = Nobody
  Post <- Posts
  Directory = {s1, s2, h1}
  Body <- Bodies
  Tele = {"null", "1"}
  MayChange = {h1, a1}
  MaxProjects = 2
  PageSize = 1
  Office = {"HOD", "NETOPS"}
  Request = {q1, q2}
SYMMETRY Symmetry
INVARIANTS
  StaffInv
  OneRole
  StaffedByActive
  AllOrNothing
  HodAssigned
  ToldIsAssigned
  OfficialsInOffice
  ListIsCounted
