------------------------ MODULE MCExpiryScheduler -------------------------
(* Instances of ExpiryScheduler for TLC.  The domains are alike.           *)
EXTENDS ExpiryScheduler, TLC

DomainSymmetry == Permutations(Domain)
===========================================================================
