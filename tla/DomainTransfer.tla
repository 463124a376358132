-------------------------- MODULE DomainTransfer --------------------------
(***************************************************************************)
(* transferService of RenewalAndTransferMicroService: a DRM asks for a     *)
(* domain to be handed over to another DRM, the HOD approves, and the      *)
(* workflow service, which owns the domain's row, is told by a PATCH.      *)
(*                                                                         *)
(* create and approve are asynchronous functions of a Node server: at each *)
(* await another request may run, and what was read before may be out of   *)
(* date (each action below runs from one await to the next).  The table    *)
(* has no constraint but its key.  The workflow service serves a PATCH in  *)
(* a thread of its own, so that a PATCH whose connection broke goes on.    *)
(***************************************************************************)
EXTENDS Naturals, Sequences

CONSTANTS
  Domain,        \* domains that may be transferred
  Drm,           \* employees that may be a domain's DRM
  FirstDrm,      \* the DRM every domain begins with
  NoDrm,         \* nothing read yet
  Request,       \* requests the transfer service may serve at a time
  Fault,         \* what may fail: refuse (the PATCH), connection (under it)
  Touched,       \* domains whose row other operations write meanwhile
  MaxTransfers   \* bound: rows of the transfer table

ASSUME DrmAssumption == FirstDrm \in Drm /\ NoDrm \notin Drm
ASSUME FaultAssumption == Fault \subseteq {"refuse", "connection"}
ASSUME TouchedAssumption == Touched \subseteq Domain
ASSUME MaxTransfersAssumption == MaxTransfers \in Nat

VARIABLES
  drm,        \* drmEmployeeNumber of the rows of domain_name
  touch,      \* DRM in the row copy another workflow operation will write
  transfers,  \* table Transfer, a row's tt_id being its position
  req,        \* what each request of the transfer service holds
  patches,    \* PATCH requests the workflow service is serving
  applied,    \* history: number of times each transfer was written to drm
  owners      \* history: every DRM a domain has had

tables == <<transfers, applied>>
workflow == <<drm, touch, owners>>
vars == <<tables, workflow, req, patches>>

Transfer == [dm_id: Domain, trns_frm: Drm, trns_to: Drm, hod_approved: BOOLEAN]

Id == DOMAIN transfers

Idle == [op |-> "none"]

(* A request of create holds the row it will insert, one of approve the    *)
(* key of the row it is about.                                             *)
Creating == [op: {"create"}, phase: {"checked", "owned"}, row: Transfer]
Approving == [op: {"approve"}, phase: {"checked", "approved", "patching"}, id: Nat \ {0}]

Patch == [q: Request, id: Nat \ {0}, state: {"sent", "dirty", "clean"}]

Init ==
  /\ drm = [d \in Domain |-> FirstDrm]
  /\ owners = [d \in Domain |-> {FirstDrm}]
  /\ touch = [d \in Domain |-> NoDrm]
  /\ transfers = <<>>
  /\ applied = <<>>
  /\ req = [q \in Request |-> Idle]
  /\ patches = {}

---------------------------------------------------------------------------
(* create                                                                  *)

Open(d) == {i \in Id : transfers[i].dm_id = d /\ ~transfers[i].hod_approved}

Become(q, work) == req' = [req EXCEPT ![q] = work]

(* getByDomainId, find(t => !t.hod_approved).  A definition with a suffix  *)
(* is a plausible mistake in the one it is named after; no specification   *)
(* uses it.                                                                *)
Asking(d, m, n) ==
  [op |-> "create", phase |-> "checked",
   row |-> [dm_id |-> d, trns_frm |-> m, trns_to |-> n, hod_approved |-> FALSE]]

CheckNoneOpen(q) ==
  /\ req[q] = Idle
  /\ \E d \in Domain, m, n \in Drm :
       m # n /\ Open(d) = {} /\ Become(q, Asking(d, m, n))
  /\ UNCHANGED <<tables, workflow, patches>>

(* getDomainDetails, and after the users are looked up the check that the  *)
(* domain it returned is trns_frm's.                                       *)
CheckOwner_Skipped(q) ==
  /\ req[q].op = "create" /\ req[q].phase = "checked"
  /\ Become(q, [req[q] EXCEPT !.phase = "owned"])
  /\ UNCHANGED <<tables, workflow, patches>>

CheckOwner(q) ==
  /\ req[q].op = "create" /\ req[q].phase = "checked"
  /\ drm[req[q].row.dm_id] = req[q].row.trns_frm
  /\ Become(q, [req[q] EXCEPT !.phase = "owned"])
  /\ UNCHANGED <<tables, workflow, patches>>

Insert(q) ==
  /\ req[q].op = "create" /\ req[q].phase = "owned"
  /\ Len(transfers) < MaxTransfers
  /\ transfers' = Append(transfers, req[q].row)
  /\ applied' = Append(applied, 0)
  /\ Become(q, Idle)
  /\ UNCHANGED <<workflow, patches>>

---------------------------------------------------------------------------
(* approve                                                                 *)

CheckNotApproved_Skipped(q) ==
  /\ req[q] = Idle
  /\ \E i \in Id : Become(q, [op |-> "approve", phase |-> "checked", id |-> i])
  /\ UNCHANGED <<tables, workflow, patches>>

CheckNotApproved(q) ==
  /\ req[q] = Idle
  /\ \E i \in Id : /\ ~transfers[i].hod_approved
                   /\ Become(q, [op |-> "approve", phase |-> "checked", id |-> i])
  /\ UNCHANGED <<tables, workflow, patches>>

(* update({ where: { tt_id } }): whatever the row is by now.               *)
Approve_NotSaved(q) ==
  /\ req[q].op = "approve" /\ req[q].phase = "checked"
  /\ Become(q, [req[q] EXCEPT !.phase = "approved"])
  /\ UNCHANGED <<tables, workflow, patches>>

Approve_NoPatch(q) ==
  /\ req[q].op = "approve" /\ req[q].phase = "checked"
  /\ transfers' = [transfers EXCEPT ![req[q].id].hod_approved = TRUE]
  /\ Become(q, Idle)
  /\ UNCHANGED <<applied, workflow, patches>>

Approve(q) ==
  /\ req[q].op = "approve" /\ req[q].phase = "checked"
  /\ transfers' = [transfers EXCEPT ![req[q].id].hod_approved = TRUE]
  /\ Become(q, [req[q] EXCEPT !.phase = "approved"])
  /\ UNCHANGED <<applied, workflow, patches>>

(* updateDomainDetails                                                     *)
SendPatch(q) ==
  /\ req[q].op = "approve" /\ req[q].phase = "approved"
  /\ patches' = patches \cup {[q |-> q, id |-> req[q].id, state |-> "sent"]}
  /\ Become(q, [req[q] EXCEPT !.phase = "patching"])
  /\ UNCHANGED <<tables, workflow>>

Answered(q) == \A p \in patches : p.q # q \/ p.id # req[q].id

PatchAnswered(q) ==
  /\ req[q].op = "approve" /\ req[q].phase = "patching"
  /\ Answered(q)
  /\ Become(q, Idle)
  /\ UNCHANGED <<tables, workflow, patches>>

(* The answer of a PATCH under way never arrives.                          *)
ConnectionLost(q) ==
  /\ "connection" \in Fault
  /\ req[q].op = "approve" /\ req[q].phase = "patching"
  /\ ~Answered(q)
  /\ Become(q, Idle)
  /\ UNCHANGED <<tables, workflow, patches>>

(* A request ends with an error before it changes anything: a check fails, *)
(* a service it asks does not answer, the insert or the update fails.      *)
Refused(q) ==
  /\ req[q].op = "create" \/ (req[q].op = "approve" /\ req[q].phase = "checked")
  /\ Become(q, Idle)
  /\ UNCHANGED <<tables, workflow, patches>>

---------------------------------------------------------------------------
(* The workflow service: updateDomain, and the operations that write a     *)
(* domain's whole row with the DRM they read (purchase, deletion, expiry). *)

PatchLoad(p) ==
  /\ p.state = "sent"
  /\ LET to == transfers[p.id].trns_to
         from == drm[transfers[p.id].dm_id]
     IN patches' = (patches \ {p}) \cup
                     {[p EXCEPT !.state = IF from = to THEN "clean" ELSE "dirty"]}
  /\ UNCHANGED <<tables, workflow, req>>

SetDrm(d, m) ==
  /\ drm' = [drm EXCEPT ![d] = m]
  /\ owners' = [owners EXCEPT ![d] = @ \cup {m}]

PatchSave(p) ==
  /\ p.state # "sent"
  /\ IF p.state = "dirty" THEN SetDrm(transfers[p.id].dm_id, transfers[p.id].trns_to)
                          ELSE UNCHANGED <<drm, owners>>
  /\ applied' = [applied EXCEPT ![p.id] = @ + 1]
  /\ patches' = patches \ {p}
  /\ UNCHANGED <<transfers, touch, req>>

(* The domain or the new DRM is not found, or the service is down: the     *)
(* caller is told, or finds out.                                           *)
PatchRefused(p) ==
  /\ "refuse" \in Fault
  /\ patches' = patches \ {p}
  /\ UNCHANGED <<tables, workflow, req>>

TouchLoad(d) ==
  /\ d \in Touched /\ touch[d] = NoDrm
  /\ touch' = [touch EXCEPT ![d] = drm[d]]
  /\ UNCHANGED <<tables, drm, owners, req, patches>>

TouchCommit(d) ==
  /\ touch[d] # NoDrm
  /\ drm' = [drm EXCEPT ![d] = touch[d]]
  /\ touch' = [touch EXCEPT ![d] = NoDrm]
  /\ UNCHANGED <<tables, owners, req, patches>>

---------------------------------------------------------------------------
CreateStep(q) == CheckNoneOpen(q) \/ CheckOwner(q) \/ Insert(q)

ApproveStep(q) == Approve(q) \/ SendPatch(q) \/ PatchAnswered(q)

WorkflowStep == \E p \in patches : PatchLoad(p) \/ PatchSave(p)

Next ==
  \/ \E q \in Request : \/ CreateStep(q) \/ CheckNotApproved(q) \/ ApproveStep(q)
                        \/ ConnectionLost(q) \/ Refused(q)
  \/ WorkflowStep
  \/ \E p \in patches : PatchRefused(p)
  \/ \E d \in Domain : TouchLoad(d) \/ TouchCommit(d)

Spec == Init /\ [][Next]_vars

(* A request past its checks goes on, and so does a PATCH: both servers    *)
(* run, and neither waits for anybody but the other.                       *)
FairSpec ==
  /\ Spec
  /\ \A q \in Request : WF_vars(ApproveStep(q))
  /\ WF_vars(WorkflowStep)

---------------------------------------------------------------------------
(* Every variable has its type; what the requests and the workflow service *)
(* refer to is in the table.                                               *)
TypeOK ==
  /\ drm \in [Domain -> Drm]
  /\ owners \in [Domain -> SUBSET Drm]
  /\ touch \in [Domain -> Drm \cup {NoDrm}]
  /\ transfers \in Seq(Transfer)
  /\ applied \in Seq(Nat) /\ Len(applied) = Len(transfers)
  /\ req \in [Request -> {Idle} \cup Creating \cup Approving]
  /\ \A q \in Request : req[q].op = "approve" => req[q].id \in Id
  /\ patches \subseteq Patch /\ \A p \in patches : p.id \in Id

(* The workflow service is told of a transfer only after its approval is   *)
(* in the table: no domain goes to a DRM no HOD has approved it for, also  *)
(* when requests overlap, answers are lost and old copies are written.     *)
MovedByApproval ==
  [][\A d \in Domain : drm'[d] \notin owners[d] =>
       \E i \in Id : /\ transfers[i].dm_id = d /\ transfers[i].trns_to = drm'[d]
                     /\ transfers[i].hod_approved]_vars

(* A transfer is asked for on behalf of a DRM who had the domain, however  *)
(* old the answer of the workflow service is when the row is inserted.     *)
AskedByOwner ==
  \A i \in Id : transfers[i].trns_frm \in owners[transfers[i].dm_id]

---------------------------------------------------------------------------
(* The inductive invariant behind these two.                               *)

(* Whoever is a domain's DRM, in its row or in a copy of it, is one of its *)
(* owners, and so is the DRM a checked request of create asks for.         *)
DrmIsOwner ==
  \A d \in Domain :
    drm[d] \in owners[d] /\ (touch[d] # NoDrm => touch[d] \in owners[d])

OwnedByOwner ==
  \A q \in Request : req[q].op = "create" /\ req[q].phase = "owned" =>
    req[q].row.trns_frm \in owners[req[q].row.dm_id]

(* A request of approve that has saved has an approved transfer, and so    *)
(* has every PATCH, however long after its request it is served.           *)
SavedIsApproved ==
  \A q \in Request : req[q].op = "approve" /\ req[q].phase # "checked" =>
    transfers[req[q].id].hod_approved

PatchIsApproved == \A p \in patches : transfers[p.id].hod_approved

(* Whatever the two services hold in memory or in flight, its effect on a  *)
(* domain's row will be one that was approved or had been there before.    *)
TransferInv ==
  /\ TypeOK
  /\ DrmIsOwner /\ OwnedByOwner /\ AskedByOwner
  /\ SavedIsApproved /\ PatchIsApproved

---------------------------------------------------------------------------
(* What the code promises in a message or a comment, and keeps only while  *)
(* no two requests about one domain overlap, ApprovedIsApplied only while  *)
(* no PATCH is refused besides.                                            *)

(* "a transfer request for this domain is already in process": at most one *)
(* transfer of a domain waits for its approval.                            *)
OneOpenTransfer ==
  \A d \in Domain : \A i, j \in Open(d) : i = j

(* "Transfer with ID ... has already been approved": none is applied twice.*)
AppliedOnce == \A i \in Id : applied[i] <= 1

(* An approval refused by the workflow service is to be rolled back, and   *)
(* one that is not refused is applied: once nothing is under way, an       *)
(* approved transfer is one the workflow service has applied.              *)
ApprovedIsApplied ==
  (patches = {} /\ \A q \in Request : req[q] = Idle) =>
    \A i \in Id : transfers[i].hod_approved => applied[i] > 0

(* approve answers the HOD with the approved transfer when the workflow    *)
(* service has confirmed it: the domain is then the new DRM's until it is  *)
(* transferred again (Last: no later transfer of it was approved).         *)
Last(i) == \A j \in Id : (/\ transfers[j].dm_id = transfers[i].dm_id
                         /\ transfers[j].hod_approved) => j <= i

LastTransferHolds ==
  (patches = {} /\ \A q \in Request : req[q] = Idle) =>
    \A i \in Id : transfers[i].hod_approved /\ Last(i) /\ applied[i] > 0 =>
      drm[transfers[i].dm_id] = transfers[i].trns_to

(* Unless a PATCH is refused, an approval reaches the workflow service in  *)
(* the end, also when the answer gets lost.                                *)
ApprovalReachesWorkflow ==
  \A i \in 1 .. MaxTransfers :
    (i \in Id /\ transfers[i].hod_approved) ~> (i \in Id /\ applied[i] > 0)

---------------------------------------------------------------------------
(* When everything about one domain is done in turn.                       *)

Concerns(q, d) ==
  \/ req[q].op = "create" /\ req[q].row.dm_id = d
  \/ req[q].op = "approve" /\ transfers[req[q].id].dm_id = d

Awaits(q, p) ==
  /\ p.q = q /\ req[q].op = "approve" /\ req[q].phase = "patching"
  /\ req[q].id = p.id

(* Of a domain no two requests are under way, no request while a PATCH is  *)
(* but the one that awaits it, and neither while another operation of the  *)
(* workflow service holds its row.                                         *)
InTurn ==
  \A d \in Domain :
    /\ \A q, r \in Request : Concerns(q, d) /\ Concerns(r, d) => q = r
    /\ \A p \in patches : transfers[p.id].dm_id = d =>
         touch[d] = NoDrm /\ \A q \in Request : Concerns(q, d) => Awaits(q, p)
    /\ touch[d] # NoDrm => \A q \in Request : ~Concerns(q, d)

(* Nothing else is restricted: requests about different domains overlap,   *)
(* and whatever may fail fails.                                            *)
InTurnSpec ==
  /\ Init /\ [][Next /\ InTurn']_vars
  /\ \A q \in Request : WF_vars(ApproveStep(q))
  /\ WF_vars(WorkflowStep)

(* An open transfer is the last of its domain and not applied.             *)
OpenIsLast ==
  \A i \in Id : transfers[i].hod_approved \/
    /\ applied[i] = 0
    /\ \A j \in Id : transfers[j].dm_id = transfers[i].dm_id => j <= i

(* A transfer that was saved as approved and is on its way to the workflow *)
(* service is the last that was approved, and none of its domain is open.  *)
OnItsWay(i) == Last(i) /\ applied[i] = 0 /\ Open(transfers[i].dm_id) = {}

(* What a request or a PATCH has found is still so, and a row copy is the  *)
(* row: nothing has changed it in between.                                 *)
CreatingInTurn ==
  \A q \in Request : req[q].op = "create" =>
    /\ req[q].row.trns_frm # req[q].row.trns_to
    /\ ~req[q].row.hod_approved /\ Open(req[q].row.dm_id) = {}
    /\ req[q].phase = "owned" => drm[req[q].row.dm_id] = req[q].row.trns_frm

ApprovingInTurn ==
  \A q \in Request : req[q].op = "approve" =>
    /\ req[q].phase = "checked" => ~transfers[req[q].id].hod_approved
    /\ req[q].phase = "approved" => OnItsWay(req[q].id)

PatchingInTurn ==
  \A p \in patches :
    /\ OnItsWay(p.id)
    /\ p.state # "sent" =>
         (p.state = "clean") = (drm[transfers[p.id].dm_id] = transfers[p.id].trns_to)
    /\ \A r \in patches : transfers[r.id].dm_id = transfers[p.id].dm_id => r = p

LastIsOwner ==
  \A i \in Id : transfers[i].hod_approved /\ Last(i) /\ applied[i] > 0 =>
    drm[transfers[i].dm_id] = transfers[i].trns_to

TurnInv ==
  /\ OpenIsLast /\ LastIsOwner
  /\ CreatingInTurn /\ ApprovingInTurn /\ PatchingInTurn
  /\ \A i \in Id : transfers[i].trns_frm # transfers[i].trns_to /\ applied[i] <= 1
  /\ \A d \in Domain : touch[d] \in {NoDrm, drm[d]}

---------------------------------------------------------------------------
(* In turn, and if no PATCH is refused, the requests implement the handing *)
(* over of a domain in one step.                                           *)
Waiting(d) == {i \in Id : transfers[i].dm_id = d /\ applied[i] = 0}

Hand == INSTANCE Handover WITH
  owner <- drm,
  asked <- [d \in Domain |->
              {<<transfers[i].trns_frm, transfers[i].trns_to>> : i \in Waiting(d)}]

HandoverSpec == Hand!Spec

(* If no PATCH is refused, a transfer that is not applied is open or on    *)
(* its way, it is the only one, and it is from the domain's DRM.           *)
Underway(i) ==
  \/ \E q \in Request : req[q].op = "approve" /\ req[q].phase = "approved" /\ req[q].id = i
  \/ \E p \in patches : p.id = i

HandInv ==
  /\ \A i \in Id : transfers[i].hod_approved /\ applied[i] = 0 => Underway(i)
  /\ \A d \in Domain : \A i \in Waiting(d) :
       drm[d] = transfers[i].trns_frm /\ \A j \in Waiting(d) : i = j
===========================================================================
