--------------------------- MODULE ApprovalChain ---------------------------
(***************************************************************************)
(* What the workflow service promises the people who use it, without       *)
(* requests, rows or copies: an application climbs a chain of authorities  *)
(* one stage at a time; only an authority that has not approved it yet may *)
(* return it; it can be bought at the top of the chain only; a renewal     *)
(* starts the climb again, and is not applied for twice.                   *)
(***************************************************************************)
EXTENDS Naturals

CONSTANTS Domain, NRoles

VARIABLES
  stage,        \* number of authorities that have approved, in order
  returnedBy,   \* authorities that have returned the application
  term,         \* number of renewals applied for
  renewing,     \* whether a renewal is under way
  bought        \* number of purchases

vars == <<stage, returnedBy, term, renewing, bought>>

Init ==
  /\ stage = [d \in Domain |-> 0]
  /\ returnedBy = [d \in Domain |-> {}]
  /\ term = [d \in Domain |-> 0]
  /\ renewing = [d \in Domain |-> FALSE]
  /\ bought = [d \in Domain |-> 0]

(* The next authority of the chain approves.                               *)
Approve(d) ==
  /\ stage[d] < NRoles
  /\ stage' = [stage EXCEPT ![d] = @ + 1]
  /\ UNCHANGED <<returnedBy, term, renewing, bought>>

(* The first authority only forwards, it never returns an application.     *)
Return(d, r) ==
  /\ r > stage[d] /\ r > 1
  /\ returnedBy' = [returnedBy EXCEPT ![d] = @ \cup {r}]
  /\ UNCHANGED <<stage, term, renewing, bought>>

Buy(d) ==
  /\ stage[d] = NRoles
  /\ bought' = [bought EXCEPT ![d] = @ + 1]
  /\ renewing' = [renewing EXCEPT ![d] = FALSE]
  /\ UNCHANGED <<stage, returnedBy, term>>

Renew(d) ==
  /\ ~renewing[d]
  /\ stage' = [stage EXCEPT ![d] = 0]
  /\ returnedBy' = [returnedBy EXCEPT ![d] = {}]
  /\ term' = [term EXCEPT ![d] = @ + 1]
  /\ renewing' = [renewing EXCEPT ![d] = TRUE]
  /\ UNCHANGED bought

Next ==
  \E d \in Domain :
    Approve(d) \/ Buy(d) \/ Renew(d) \/ \E r \in 1 .. NRoles : Return(d, r)

Spec == Init /\ [][Next]_vars
===========================================================================
