------------------------- MODULE MCDomainWorkflow -------------------------
(* Instances of DomainWorkflow for TLC.  The requests are alike.           *)
EXTENDS DomainWorkflow, TLC

RequestSymmetry == Permutations(Request)
===========================================================================
