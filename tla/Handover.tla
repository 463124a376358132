----------------------------- MODULE Handover -----------------------------
(***************************************************************************)
(* What the transfer service and the workflow service promise together: a  *)
(* domain has one owner, who may ask for it to be handed over to another   *)
(* if nothing is asked already, and it is handed over as it was asked.     *)
(***************************************************************************)
CONSTANTS Domain, Drm, FirstDrm

VARIABLES
  owner,   \* a domain's DRM
  asked    \* the transfers <<from, to>> of a domain that are asked for

vars == <<owner, asked>>

Init ==
  /\ owner = [d \in Domain |-> FirstDrm]
  /\ asked = [d \in Domain |-> {}]

Ask(d, m) ==
  /\ m # owner[d]
  /\ asked[d] = {}
  /\ asked' = [asked EXCEPT ![d] = {<<owner[d], m>>}]
  /\ UNCHANGED owner

HandOver(d, m) ==
  /\ asked[d] = {<<owner[d], m>>}
  /\ owner' = [owner EXCEPT ![d] = m]
  /\ asked' = [asked EXCEPT ![d] = {}]

Next == \E d \in Domain, m \in Drm : Ask(d, m) \/ HandOver(d, m)

Spec == Init /\ [][Next]_vars
===========================================================================
