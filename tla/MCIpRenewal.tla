---------------------------- MODULE MCIpRenewal ----------------------------
(* Instances of IpRenewal for TLC.  The requests are alike.                *)
EXTENDS IpRenewal, TLC

Symmetry == Permutations(Request) \cup Permutations(Ip)
============================================================================
