------------------------ MODULE MCDomainTransfer --------------------------
(* Instances of DomainTransfer for TLC.  The requests are alike, and so    *)
(* are the DRMs but the first.                                             *)
EXTENDS DomainTransfer, TLC

Symmetry == Permutations(Request) \cup Permutations(Drm \ {FirstDrm})
===========================================================================
