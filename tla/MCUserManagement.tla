-------------------------- MODULE MCUserManagement --------------------------
(* Instances of UserManagement for TLC: two groups of one centre, an HOD   *)
(* of each, a member of NETOPS, an ARM; and two employees to come.         *)
EXTENDS UserManagement, TLC

CONSTANTS h1, h2, n1, a1, s1, s2

Posts ==
  h1 :> [role |-> "HOD", centre |-> 1, grp |-> 1] @@ h2 :> [role |-> "HOD", centre |-> 1, grp |-> 2]
  @@ n1 :> [role |-> "NETOPS", centre |-> 1, grp |-> 0]
  @@ a1 :> [role |-> "ARM", centre |-> 1, grp |-> 1]

Ask(name, hod, drm, arm) == [name |-> name, HOD |-> hod, DRM |-> drm, ARM |-> arm]

(* One new and one old, two new ones, the same name and the two the other  *)
(* way round, the same employee twice.                                     *)
Bodies == {Ask("p", h1, s1, a1), Ask("q", h1, s1, s2), Ask("q", h2, s2, s1),
           Ask("r", h2, s1, s1)}

Symmetry == Permutations(Request)
=============================================================================
