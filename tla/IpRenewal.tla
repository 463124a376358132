----------------------------- MODULE IpRenewal -----------------------------
(***************************************************************************)
(* ipRenewalController of RenewalAndTransferMicroService: a DRM asks for   *)
(* the renewal of an IP, the HOD approves or rejects it, the DRM may have  *)
(* a rejected one reviewed again, and NETOPS completes an approved one.    *)
(*                                                                         *)
(* Each handler is an asynchronous function of a Node server: it checks    *)
(* what it reads, awaits, and writes by the row's key.  The actions below  *)
(* run from one await to the next.  The table has no constraint but its    *)
(* key, so that only the checks keep the renewals of an IP in order.       *)
(***************************************************************************)
EXTENDS Naturals, Sequences, FiniteSets

CONSTANTS
  Ip,             \* IPs that may be renewed
  Request,        \* requests the service may serve at a time
  Authenticated,  \* handlers whose route runs protect, which sets req.user
  MaxRenewals     \* bound: rows of the table IpRenewal

ASSUME AuthenticatedAssumption == Authenticated \subseteq {"review", "complete"}
ASSUME MaxRenewalsAssumption == MaxRenewals \in Nat

VARIABLES
  rows,  \* table IpRenewal, a row's ip_rnwl_id being its position
  req,   \* what each request holds between two awaits
  past   \* history of each row: see Past

vars == <<rows, req, past>>

Status == {"PENDING_APPROVAL", "APPROVED_BY_HOD", "REJECTED_BY_HOD", "RENEWED_BY_NETOPS"}

Row == [ip_id: Ip, rnwl_no: Nat, is_aprvd: {"null", "true", "false"},
        is_rnwd: BOOLEAN, status: Status]

(* How many rows there were when the request of create that inserted this  *)
(* row looked for an open one and when it counted; whether this row was    *)
(* ever approved, ever rejected, and whether a complete of it has failed.  *)
Past == [seen: Nat, counted: Nat, aprvd: BOOLEAN, rejected: BOOLEAN, failed: BOOLEAN]

Id == DOMAIN rows

Idle == [op |-> "none"]

Creating == [op: {"create"}, phase: {"checked", "domain", "ip", "counted"},
             ip_id: Ip, rnwl_no: Nat, seen: Nat, counted: Nat]
Deciding == [op: {"approve", "reject", "review", "complete", "update_ip"}, id: Nat \ {0}]

Init ==
  /\ rows = <<>>
  /\ past = <<>>
  /\ req = [q \in Request |-> Idle]

Become(q, work) == req' = [req EXCEPT ![q] = work]

---------------------------------------------------------------------------
(* create.  A definition with a suffix is a plausible mistake in the one   *)
(* it is named after; no specification uses it.                            *)

OfIp(ip, n) == {i \in 1 .. n : rows[i].ip_id = ip}

Open_PendingOnly(ip) ==
  {i \in OfIp(ip, Len(rows)) : rows[i].status = "PENDING_APPROVAL"}

Open(ip) == {i \in OfIp(ip, Len(rows)) : rows[i].status # "RENEWED_BY_NETOPS"}

CheckNoneOpen(q) ==
  /\ req[q] = Idle
  /\ \E ip \in Ip :
       /\ Open(ip) = {}
       /\ Become(q, [op |-> "create", phase |-> "checked", ip_id |-> ip,
                     rnwl_no |-> 0, seen |-> Len(rows), counted |-> 0])
  /\ UNCHANGED <<rows, past>>

InPhase(q, phase) == req[q].op = "create" /\ req[q].phase = phase

(* getDomainDetails and getIpDetailsById found the domain and the IP.      *)
ReadDomain(q) ==
  /\ InPhase(q, "checked")
  /\ Become(q, [req[q] EXCEPT !.phase = "domain"])
  /\ UNCHANGED <<rows, past>>

ReadIp(q) ==
  /\ InPhase(q, "domain")
  /\ Become(q, [req[q] EXCEPT !.phase = "ip"])
  /\ UNCHANGED <<rows, past>>

Count_RenewedOnly(q) ==
  /\ InPhase(q, "ip")
  /\ LET counted == {i \in OfIp(req[q].ip_id, Len(rows)) : rows[i].status = "RENEWED_BY_NETOPS"}
     IN Become(q, [req[q] EXCEPT !.phase = "counted", !.counted = Len(rows),
                                 !.rnwl_no = Cardinality(counted) + 1])
  /\ UNCHANGED <<rows, past>>

Count(q) ==
  /\ InPhase(q, "ip")
  /\ Become(q, [req[q] EXCEPT
                  !.phase = "counted", !.counted = Len(rows),
                  !.rnwl_no = Cardinality(OfIp(req[q].ip_id, Len(rows))) + 1])
  /\ UNCHANGED <<rows, past>>

Insert(q) ==
  /\ InPhase(q, "counted")
  /\ Len(rows) < MaxRenewals
  /\ rows' = Append(rows, [ip_id |-> req[q].ip_id, rnwl_no |-> req[q].rnwl_no,
                           is_aprvd |-> "null", is_rnwd |-> FALSE,
                           status |-> "PENDING_APPROVAL"])
  /\ past' = Append(past, [seen |-> req[q].seen, counted |-> req[q].counted,
                           aprvd |-> FALSE, rejected |-> FALSE, failed |-> FALSE])
  /\ Become(q, Idle)

---------------------------------------------------------------------------
(* approve, reject, review and complete: findUnique, then update.          *)

(* The handlers begin with what they take from req.user, and throw where   *)
(* it is not set.                                                          *)
Served(op) == op \in {"review", "complete"} => op \in Authenticated

From == [approve  |-> "PENDING_APPROVAL", reject |-> "PENDING_APPROVAL",
         review |-> "REJECTED_BY_HOD", complete |-> "APPROVED_BY_HOD"]

CheckStatus_NotRenewed(q) ==
  /\ req[q] = Idle
  /\ \E i \in Id, op \in DOMAIN From :
       /\ Served(op)
       /\ rows[i].status # "RENEWED_BY_NETOPS"
       /\ Become(q, [op |-> op, id |-> i])
  /\ UNCHANGED <<rows, past>>

CheckStatus(q) ==
  /\ req[q] = Idle
  /\ \E i \in Id, op \in DOMAIN From :
       /\ Served(op)
       /\ rows[i].status = From[op]
       /\ Become(q, [op |-> op, id |-> i])
  /\ UNCHANGED <<rows, past>>

Approve(q) ==
  /\ req[q].op = "approve"
  /\ rows' = [rows EXCEPT ![req[q].id].is_aprvd = "true",
                          ![req[q].id].status = "APPROVED_BY_HOD"]
  /\ past' = [past EXCEPT ![req[q].id].aprvd = TRUE]
  /\ Become(q, Idle)

Reject(q) ==
  /\ req[q].op = "reject"
  /\ rows' = [rows EXCEPT ![req[q].id].is_aprvd = "false",
                          ![req[q].id].status = "REJECTED_BY_HOD"]
  /\ past' = [past EXCEPT ![req[q].id].rejected = TRUE]
  /\ Become(q, Idle)

(* is_aprvd stays what the rejection made it.                              *)
Review_ClearsRenewed(q) ==
  /\ req[q].op = "review"
  /\ rows' = [rows EXCEPT ![req[q].id].status = "PENDING_APPROVAL",
                          ![req[q].id].is_rnwd = FALSE]
  /\ Become(q, Idle)
  /\ UNCHANGED past

Review(q) ==
  /\ req[q].op = "review"
  /\ rows' = [rows EXCEPT ![req[q].id].status = "PENDING_APPROVAL"]
  /\ Become(q, Idle)
  /\ UNCHANGED past

Complete(q) ==
  /\ req[q].op = "complete"
  /\ rows' = [rows EXCEPT ![req[q].id].is_rnwd = TRUE,
                          ![req[q].id].status = "RENEWED_BY_NETOPS"]
  /\ Become(q, [op |-> "update_ip", id |-> req[q].id])
  /\ UNCHANGED past

(* updateIpDetails.  ip_id is a BigInt, which JSON.stringify refuses: the  *)
(* PUT is never sent, and complete answers that it failed.                 *)
UpdateIp(q) ==
  /\ req[q].op = "update_ip"
  /\ past' = [past EXCEPT ![req[q].id].failed = TRUE]
  /\ Become(q, Idle)
  /\ UNCHANGED rows

(* A request ends with an error before it writes: the workflow service     *)
(* does not answer or does not know the domain or the IP, the database     *)
(* refuses the query.                                                      *)
Refused(q) ==
  /\ req[q].op \notin {"none", "update_ip"}
  /\ Become(q, Idle)
  /\ UNCHANGED <<rows, past>>

Next ==
  \E q \in Request :
    \/ CheckNoneOpen(q) \/ ReadDomain(q) \/ ReadIp(q) \/ Count(q) \/ Insert(q)
    \/ CheckStatus(q) \/ Approve(q) \/ Reject(q) \/ Review(q)
    \/ Complete(q) \/ UpdateIp(q) \/ Refused(q)

Spec == Init /\ [][Next]_vars

---------------------------------------------------------------------------
(* Every variable has its type; what the requests refer to is in the table.*)
TypeOK ==
  /\ rows \in Seq(Row)
  /\ past \in Seq(Past) /\ Len(past) = Len(rows)
  /\ req \in [Request -> {Idle} \cup Creating \cup Deciding]
  /\ \A q \in Request : req[q].op \notin {"none", "create"} => req[q].id \in Id

(* A second renewal of an IP is begun only when the ones before it are     *)
(* through: each row its create had in view when it looked for an open one *)
(* is renewed, also when approvals, rejections, reviews and completions of *)
(* them overlap and are written over one another.                          *)
OpenOnlyUnseen ==
  \A i, j \in Id : rows[i].ip_id = rows[j].ip_id /\ i <= past[j].seen => rows[i].is_rnwd

(* The renewals of an IP are numbered in the order they were begun in, but *)
(* for two of which each was counted before the other was inserted.        *)
NumbersGrow ==
  \A i, j \in Id :
    rows[i].ip_id = rows[j].ip_id /\ i <= past[j].counted =>
      rows[i].rnwl_no < rows[j].rnwl_no

(* An IP is renewed only with an approval, and is under review again only  *)
(* after a rejection: no order of overlapping writes gets around the HOD.  *)
DecidedByHod ==
  \A i \in Id : /\ rows[i].is_rnwd => past[i].aprvd
                /\ rows[i].status = "APPROVED_BY_HOD" => rows[i].is_aprvd = "true"
                /\ (rows[i].status = "PENDING_APPROVAL" /\ rows[i].is_aprvd # "null") =>
                     past[i].rejected

---------------------------------------------------------------------------
(* The inductive invariant behind these.                                   *)

(* What a request has checked may not hold any more, but it did.           *)
CheckedOnce ==
  \A q \in Request :
    /\ req[q].op = "create" =>
         \A i \in OfIp(req[q].ip_id, req[q].seen) : rows[i].is_rnwd
    /\ req[q].op = "review" => past[req[q].id].rejected
    /\ req[q].op \in {"complete", "update_ip"} => past[req[q].id].aprvd

(* rnwl_no is one more than the rows of the IP that were counted.          *)
Numbered(ip, no, counted) ==
  counted \in 0 .. Len(rows) /\ no = Cardinality(OfIp(ip, counted)) + 1

CountedOnce ==
  /\ \A i \in Id : Numbered(rows[i].ip_id, rows[i].rnwl_no, past[i].counted)
  /\ \A q \in Request : InPhase(q, "counted") =>
       Numbered(req[q].ip_id, req[q].rnwl_no, req[q].counted)

InTable ==
  /\ \A i \in Id : past[i].seen < i /\ past[i].counted < i
  /\ \A q \in Request : req[q].op = "create" => req[q].seen <= Len(rows)

StatusAgrees ==
  \A i \in Id : /\ rows[i].status = "RENEWED_BY_NETOPS" => rows[i].is_rnwd
                /\ rows[i].status = "APPROVED_BY_HOD" => past[i].aprvd
                /\ rows[i].status = "REJECTED_BY_HOD" => past[i].rejected

IpInv ==
  /\ TypeOK
  /\ OpenOnlyUnseen /\ NumbersGrow /\ DecidedByHod
  /\ CheckedOnce /\ CountedOnce /\ InTable /\ StatusAgrees

---------------------------------------------------------------------------
(* complete answers "Failed to complete the renewal. Please try again." :  *)
(* what failed can be tried again, or has been.                            *)
CanTryAgain ==
  \A i \in Id : past[i].failed => rows[i].status = "APPROVED_BY_HOD"
============================================================================
