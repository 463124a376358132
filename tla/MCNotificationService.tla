----------------------- MODULE MCNotificationService -----------------------
(* Instances of NotificationService for TLC.                               *)
EXTENDS NotificationService, TLC

Symmetry == Permutations(Emp) \cup Permutations(Call)
============================================================================
