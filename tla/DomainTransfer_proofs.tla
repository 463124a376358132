----------------------- MODULE DomainTransfer_proofs ----------------------
(***************************************************************************)
(* DomainTransfer for every set of domains, employees and requests, and    *)
(* every choice of faults: its types, its inductive invariant TransferInv, *)
(* and that a domain goes only to a DRM its transfer was approved for.     *)
(***************************************************************************)
EXTENDS DomainTransfer, TLAPS

USE DrmAssumption, FaultAssumption, TouchedAssumption, MaxTransfersAssumption

---------------------------------------------------------------------------
(* TransferInv, sorted by what it is about: the tables of the transfer     *)
(* service, the rows of the workflow service, one request, one PATCH.      *)

TablesOK ==
  /\ transfers \in Seq(Transfer)
  /\ applied \in Seq(Nat) /\ Len(applied) = Len(transfers)
  /\ AskedByOwner

RowsOK ==
  /\ drm \in [Domain -> Drm]
  /\ owners \in [Domain -> SUBSET Drm]
  /\ touch \in [Domain -> Drm \cup {NoDrm}]
  /\ DrmIsOwner

WorkOK(w) ==
  /\ w \in {Idle} \cup Creating \cup Approving
  /\ w.op = "create" /\ w.phase = "owned" => w.row.trns_frm \in owners[w.row.dm_id]
  /\ w.op = "approve" => w.id \in Id
  /\ w.op = "approve" /\ w.phase # "checked" => transfers[w.id].hod_approved

PatchOK(p) == p \in Patch /\ p.id \in Id /\ transfers[p.id].hod_approved

RequestsOK == (\A q \in Request : WorkOK(req[q])) /\ req = [q \in Request |-> req[q]]

PatchesOK == \A p \in patches : PatchOK(p)

LEMMA InvParts == TransferInv <=> TablesOK /\ RowsOK /\ RequestsOK /\ PatchesOK
<1>1. ASSUME TransferInv
      PROVE  TablesOK /\ RowsOK /\ RequestsOK /\ PatchesOK
  <2>1. TablesOK /\ RowsOK
    BY <1>1 DEF TransferInv, TypeOK, TablesOK, RowsOK
  <2>2. RequestsOK
    BY <1>1 DEF TransferInv, TypeOK, RequestsOK, WorkOK, OwnedByOwner, SavedIsApproved
  <2>3. PatchesOK
    BY <1>1 DEF TransferInv, TypeOK, PatchesOK, PatchOK, PatchIsApproved
  <2> QED BY <2>1, <2>2, <2>3
<1>2. ASSUME TablesOK, RowsOK, RequestsOK, PatchesOK
      PROVE  TransferInv
  <2>1. req \in [Request -> {Idle} \cup Creating \cup Approving]
    BY <1>2 DEF RequestsOK, WorkOK
  <2>2. OwnedByOwner /\ SavedIsApproved
        /\ \A q \in Request : req[q].op = "approve" => req[q].id \in Id
    BY <1>2 DEF RequestsOK, WorkOK, OwnedByOwner, SavedIsApproved
  <2>3. patches \subseteq Patch /\ PatchIsApproved /\ \A p \in patches : p.id \in Id
    BY <1>2 DEF PatchesOK, PatchOK, PatchIsApproved
  <2> QED BY <1>2, <2>1, <2>2, <2>3 DEF TransferInv, TypeOK, TablesOK, RowsOK
<1> QED BY <1>1, <1>2

---------------------------------------------------------------------------
(* No step takes back an owner, a row or an approval, so that what a       *)
(* request or a PATCH found stays right, however old it is.                *)

Grown ==
  /\ \A d \in Domain : owners[d] \subseteq owners'[d]
  /\ Id \subseteq Id'
  /\ \A i \in Id : /\ transfers'[i].dm_id = transfers[i].dm_id
                   /\ transfers'[i].trns_frm = transfers[i].trns_frm
                   /\ transfers[i].hod_approved => transfers'[i].hod_approved

LEMMA WorkStaysOK ==
  ASSUME Grown, NEW w, WorkOK(w)
  PROVE  WorkOK(w)'
<1>1. CASE w = Idle
  BY <1>1 DEF WorkOK, Idle
<1>2. CASE w \in Creating
  <2>1. w.op = "create" /\ w.row.dm_id \in Domain
    BY <1>2 DEF Creating, Transfer
  <2> QED BY <1>2, <2>1 DEF WorkOK, Grown
<1>3. CASE w \in Approving
  <2>1. w.op = "approve"
    BY <1>3 DEF Approving
  <2> QED BY <1>3, <2>1 DEF WorkOK, Grown
<1> QED BY <1>1, <1>2, <1>3 DEF WorkOK

LEMMA PatchStaysOK ==
  ASSUME Grown, NEW p, PatchOK(p)
  PROVE  PatchOK(p)'
BY DEF PatchOK, Grown

LEMMA UnchangedGrown ==
  ASSUME UNCHANGED <<transfers, owners>>
  PROVE  Grown
BY DEF Grown, Id

LEMMA BecomeOK ==
  ASSUME RequestsOK, Grown, NEW q \in Request, NEW w, WorkOK(w)', Become(q, w)
  PROVE  RequestsOK'
<1>1. req' = [p \in Request |-> req'[p]]
  BY DEF Become, RequestsOK
<1>2. ASSUME NEW p \in Request
      PROVE  WorkOK(req[p])'
  <2>1. CASE p = q
    BY <2>1 DEF Become, RequestsOK
  <2>2. CASE p # q
    <3>1. req'[p] = req[p]
      BY <2>2 DEF Become, RequestsOK
    <3>2. WorkOK(req[p])
      BY DEF RequestsOK
    <3>3. ASSUME NEW v, v = req[p]
          PROVE  WorkOK(v)'
      BY <3>2, <3>3, WorkStaysOK
    <3> QED BY <3>1, <3>3 DEF WorkOK, Id
  <2> QED BY <2>1, <2>2
<1> QED BY <1>1, <1>2 DEF RequestsOK

LEMMA RequestsStayOK ==
  ASSUME RequestsOK, Grown, UNCHANGED req
  PROVE  RequestsOK'
<1>1. ASSUME NEW q \in Request
      PROVE  WorkOK(req[q])'
  <2>1. ASSUME NEW v, v = req[q]
        PROVE  WorkOK(v)'
    BY <2>1, WorkStaysOK DEF RequestsOK
  <2> QED BY <2>1 DEF WorkOK, Id
<1> QED BY <1>1 DEF RequestsOK

LEMMA PatchesStayOK ==
  ASSUME PatchesOK, Grown, UNCHANGED patches
  PROVE  PatchesOK'
BY PatchStaysOK DEF PatchesOK
---------------------------------------------------------------------------
(* Steps that change only what one request holds.                          *)

ReadStep(q) ==
  \/ CheckNoneOpen(q) \/ CheckOwner(q) \/ CheckNotApproved(q)
  \/ PatchAnswered(q) \/ ConnectionLost(q) \/ Refused(q)

LEMMA AskingOK ==
  ASSUME NEW d \in Domain, NEW m \in Drm, NEW n \in Drm
  PROVE  WorkOK(Asking(d, m, n))
BY DEF WorkOK, Asking, Creating, Transfer

LEMMA IdleOK == WorkOK(Idle)
BY DEF WorkOK, Idle

LEMMA CreatingReq ==
  ASSUME RequestsOK, NEW q \in Request, req[q].op = "create"
  PROVE  req[q] \in Creating /\ req[q].row \in Transfer
BY DEF RequestsOK, WorkOK, Idle, Creating, Approving

LEMMA ApprovingReq ==
  ASSUME RequestsOK, NEW q \in Request, req[q].op = "approve"
  PROVE  req[q] \in Approving /\ req[q].id \in Id
BY DEF RequestsOK, WorkOK, Idle, Creating, Approving

LEMMA ReadWork ==
  ASSUME TransferInv, NEW q \in Request, ReadStep(q)
  PROVE  /\ \E w : WorkOK(w) /\ Become(q, w)
         /\ UNCHANGED <<tables, workflow, patches>>
<1> USE DEF ReadStep
<1>0. TablesOK /\ RowsOK /\ RequestsOK /\ PatchesOK
  BY InvParts
<1>1. CASE CheckNoneOpen(q)
  BY <1>1, AskingOK DEF CheckNoneOpen
<1>2. CASE CheckOwner(q)
  <2> DEFINE w == [req[q] EXCEPT !.phase = "owned"]
  <2>1. req[q] \in Creating /\ req[q].row \in Transfer
    BY <1>0, <1>2, CreatingReq DEF CheckOwner
  <2>2. w \in Creating /\ w.op = "create" /\ w.row = req[q].row
    BY <2>1 DEF Creating
  <2>3. w.row.trns_frm \in owners[w.row.dm_id]
    BY <1>0, <1>2, <2>1, <2>2 DEF CheckOwner, RowsOK, DrmIsOwner, Transfer
  <2>4. WorkOK(w)
    BY <2>2, <2>3 DEF WorkOK
  <2> QED BY <1>2, <2>4 DEF CheckOwner
<1>3. CASE CheckNotApproved(q)
  <2>1. PICK i \in Id : Become(q, [op |-> "approve", phase |-> "checked", id |-> i])
    BY <1>3 DEF CheckNotApproved
  <2>2. i \in Nat \ {0}
    BY <1>0, <2>1 DEF TablesOK, Id
  <2>3. WorkOK([op |-> "approve", phase |-> "checked", id |-> i])
    BY <2>1, <2>2 DEF WorkOK, Approving
  <2> QED BY <1>3, <2>1, <2>3 DEF CheckNotApproved
<1>4. CASE PatchAnswered(q)
  BY <1>4, IdleOK DEF PatchAnswered
<1>5. CASE ConnectionLost(q)
  BY <1>5, IdleOK DEF ConnectionLost
<1>6. CASE Refused(q)
  BY <1>6, IdleOK DEF Refused
<1> QED BY <1>1, <1>2, <1>3, <1>4, <1>5, <1>6

LEMMA ReadStepInv ==
  ASSUME TransferInv, NEW q \in Request, ReadStep(q)
  PROVE  TransferInv'
<1>0. TablesOK /\ RowsOK /\ RequestsOK /\ PatchesOK
  BY InvParts
<1>1. PICK w : WorkOK(w) /\ Become(q, w)
  BY ReadWork
<1>2. UNCHANGED <<tables, workflow, patches>>
  BY ReadWork
<1>3. Grown
  BY <1>2, UnchangedGrown DEF tables, workflow
<1>4. RequestsOK'
  BY <1>0, <1>1, <1>3, WorkStaysOK, BecomeOK
<1>5. TablesOK' /\ RowsOK'
  BY <1>0, <1>2 DEF TablesOK, RowsOK, AskedByOwner, DrmIsOwner, Id, tables, workflow
<1>6. PatchesOK'
  BY <1>0, <1>2, <1>3, PatchesStayOK
<1>7. (TablesOK /\ RowsOK /\ RequestsOK /\ PatchesOK)'
  BY <1>4, <1>5, <1>6
<1> QED BY <1>7, InvParts, PTL

---------------------------------------------------------------------------
(* The two writes of the transfer service, and the sending of the PATCH.   *)

LEMMA InsertGrown ==
  ASSUME TransferInv, NEW q \in Request, Insert(q)
  PROVE  /\ Grown /\ TablesOK'
<1>0. TablesOK /\ RowsOK /\ RequestsOK
  BY InvParts
<1>1. req[q].row \in Transfer /\ req[q].row.trns_frm \in owners[req[q].row.dm_id]
  BY <1>0, CreatingReq DEF Insert, RequestsOK, WorkOK
<1>2. /\ transfers' = Append(transfers, req[q].row)
      /\ applied' = Append(applied, 0)
      /\ UNCHANGED owners
  BY DEF Insert, workflow
<1>3. transfers \in Seq(Transfer) /\ applied \in Seq(Nat) /\ Len(applied) = Len(transfers)
  BY <1>0 DEF TablesOK
<1>4. /\ transfers' \in Seq(Transfer) /\ applied' \in Seq(Nat)
      /\ Len(applied') = Len(transfers')
  BY <1>1, <1>2, <1>3
<1>5. /\ Id' = Id \cup {Len(transfers) + 1}
      /\ \A i \in Id : transfers'[i] = transfers[i]
      /\ transfers'[Len(transfers) + 1] = req[q].row
  BY <1>1, <1>2, <1>3 DEF Id
<1>6. Grown
  BY <1>2, <1>5 DEF Grown
<1>7. AskedByOwner'
  BY <1>0, <1>1, <1>2, <1>5 DEF TablesOK, AskedByOwner
<1> QED BY <1>4, <1>6, <1>7 DEF TablesOK

LEMMA InsertInv ==
  ASSUME TransferInv, NEW q \in Request, Insert(q)
  PROVE  TransferInv'
<1>0. TablesOK /\ RowsOK /\ RequestsOK /\ PatchesOK
  BY InvParts
<1>1. Grown /\ TablesOK'
  BY InsertGrown
<1>2. RequestsOK'
  BY <1>0, <1>1, IdleOK, WorkStaysOK, BecomeOK DEF Insert
<1>3. RowsOK'
  BY <1>0 DEF RowsOK, DrmIsOwner, Insert, workflow
<1>4. PatchesOK'
  BY <1>0, <1>1, PatchesStayOK DEF Insert
<1> QED BY <1>1, <1>2, <1>3, <1>4, InvParts, PTL
LEMMA ApproveGrown ==
  ASSUME TransferInv, NEW q \in Request, Approve(q)
  PROVE  /\ Grown /\ TablesOK'
         /\ req[q].id \in Id' /\ transfers'[req[q].id].hod_approved
<1>0. TablesOK /\ RowsOK /\ RequestsOK
  BY InvParts
<1>1. req[q].id \in Id
  BY <1>0, ApprovingReq DEF Approve
<1>2. /\ transfers' = [transfers EXCEPT ![req[q].id].hod_approved = TRUE]
      /\ UNCHANGED <<applied, owners>>
  BY DEF Approve, workflow
<1>3. transfers \in Seq(Transfer) /\ \A i \in Id : transfers[i] \in Transfer
  BY <1>0 DEF TablesOK, Id
<1>4. [transfers[req[q].id] EXCEPT !.hod_approved = TRUE] \in Transfer
  BY <1>1, <1>3 DEF Transfer
<1>5. transfers' \in Seq(Transfer) /\ Len(transfers') = Len(transfers)
  BY <1>1, <1>2, <1>3, <1>4 DEF Id
<1>6. /\ Id' = Id
      /\ \A i \in Id : /\ transfers'[i].dm_id = transfers[i].dm_id
                       /\ transfers'[i].trns_frm = transfers[i].trns_frm
                       /\ transfers[i].hod_approved => transfers'[i].hod_approved
      /\ transfers'[req[q].id].hod_approved
  <2>1. Id' = Id
    BY <1>3, <1>5 DEF Id
  <2>2. transfers'[req[q].id] = [transfers[req[q].id] EXCEPT !.hod_approved = TRUE]
    BY <1>1, <1>2 DEF Id
  <2>3. ASSUME NEW i \in Id, i # req[q].id
        PROVE  transfers'[i] = transfers[i]
    BY <1>2, <2>3 DEF Id
  <2> QED BY <1>1, <1>3, <2>1, <2>2, <2>3 DEF Transfer
<1>7. Grown
  BY <1>2, <1>6 DEF Grown
<1>8. AskedByOwner'
  BY <1>0, <1>2, <1>6 DEF TablesOK, AskedByOwner
<1>9. TablesOK'
  BY <1>0, <1>2, <1>5, <1>8 DEF TablesOK
<1> QED BY <1>1, <1>6, <1>7, <1>9

LEMMA ApproveInv ==
  ASSUME TransferInv, NEW q \in Request, Approve(q)
  PROVE  TransferInv'
<1>0. TablesOK /\ RowsOK /\ RequestsOK /\ PatchesOK
  BY InvParts
<1>1. /\ Grown /\ TablesOK'
      /\ req[q].id \in Id' /\ transfers'[req[q].id].hod_approved
  BY ApproveGrown
<1>2. PICK w : w = [req[q] EXCEPT !.phase = "approved"]
  OBVIOUS
<1>3. w \in Approving /\ w.op = "approve" /\ w.id = req[q].id
  BY <1>0, <1>2, ApprovingReq DEF Approve, Approving
<1>4. WorkOK(w)'
  BY <1>1, <1>3 DEF WorkOK
<1>5. RequestsOK'
  BY <1>0, <1>1, <1>2, <1>4, BecomeOK DEF Approve
<1>6. RowsOK'
  BY <1>0 DEF RowsOK, DrmIsOwner, Approve, workflow
<1>7. PatchesOK'
  BY <1>0, <1>1, PatchesStayOK DEF Approve
<1> QED BY <1>1, <1>5, <1>6, <1>7, InvParts, PTL

LEMMA SendPatchInv ==
  ASSUME TransferInv, NEW q \in Request, SendPatch(q)
  PROVE  TransferInv'
<1>0. TablesOK /\ RowsOK /\ RequestsOK /\ PatchesOK
  BY InvParts
<1>1. Grown /\ UNCHANGED <<tables, workflow>>
  BY UnchangedGrown DEF SendPatch, tables, workflow
<1>2. /\ req[q] \in Approving /\ req[q].id \in Id
      /\ transfers[req[q].id].hod_approved
  BY <1>0, ApprovingReq DEF SendPatch, RequestsOK, WorkOK
<1>3. PICK w : w = [req[q] EXCEPT !.phase = "patching"]
  OBVIOUS
<1>4. WorkOK(w)
  <2>1. w \in Approving /\ w.op = "approve" /\ w.id = req[q].id
    BY <1>2, <1>3 DEF Approving
  <2> QED BY <1>2, <2>1 DEF WorkOK
<1>5. RequestsOK'
  BY <1>0, <1>1, <1>3, <1>4, WorkStaysOK, BecomeOK DEF SendPatch
<1>6. TablesOK' /\ RowsOK'
  BY <1>0, <1>1 DEF TablesOK, RowsOK, AskedByOwner, DrmIsOwner, Id, tables, workflow
<1>7. PatchOK([q |-> q, id |-> req[q].id, state |-> "sent"])
  BY <1>2 DEF PatchOK, Patch, Approving
<1>8. \A p \in patches' : PatchOK(p)
  BY <1>0, <1>7 DEF SendPatch, PatchesOK
<1>9. PatchesOK'
  BY <1>1, <1>8, PatchStaysOK DEF PatchesOK
<1> QED BY <1>5, <1>6, <1>9, InvParts, PTL

---------------------------------------------------------------------------
(* Steps of the workflow service.                                          *)

LEMMA PatchLoadInv ==
  ASSUME TransferInv, NEW p \in patches, PatchLoad(p)
  PROVE  TransferInv'
<1>0. TablesOK /\ RowsOK /\ RequestsOK /\ PatchesOK
  BY InvParts
<1>1. Grown /\ UNCHANGED <<tables, workflow, req>>
  BY UnchangedGrown DEF PatchLoad, tables, workflow
<1>2. RequestsOK'
  BY <1>0, <1>1, RequestsStayOK
<1>3. TablesOK' /\ RowsOK'
  BY <1>0, <1>1 DEF TablesOK, RowsOK, AskedByOwner, DrmIsOwner, Id, tables, workflow
<1>4. PICK s \in {"clean", "dirty"} :
        patches' = (patches \ {p}) \cup {[p EXCEPT !.state = s]}
  BY DEF PatchLoad
<1>5. PatchOK([p EXCEPT !.state = s])
  BY <1>0 DEF PatchesOK, PatchOK, Patch
<1>6. \A r \in patches' : PatchOK(r)
  BY <1>0, <1>4, <1>5 DEF PatchesOK
<1>7. PatchesOK'
  BY <1>1, <1>6, PatchStaysOK DEF PatchesOK
<1> QED BY <1>2, <1>3, <1>7, InvParts, PTL

LEMMA PatchSaveInv ==
  ASSUME TransferInv, NEW p \in patches, PatchSave(p)
  PROVE  TransferInv'
<1>0. TablesOK /\ RowsOK /\ RequestsOK /\ PatchesOK
  BY InvParts
<1>1. p.id \in Id /\ transfers[p.id] \in Transfer
  BY <1>0 DEF PatchesOK, PatchOK, TablesOK, Id
<1>2. UNCHANGED <<transfers, touch, req>> /\ patches' \subseteq patches
  BY DEF PatchSave
<1>3. \A d \in Domain : owners[d] \subseteq owners'[d]
  BY <1>0 DEF PatchSave, SetDrm, RowsOK
<1>4. Grown
  BY <1>2, <1>3 DEF Grown, Id
<1>5. RowsOK'
  <2>1. CASE p.state = "dirty"
    <3>1. PICK d \in Domain, m \in Drm : SetDrm(d, m)
      BY <1>1, <2>1 DEF PatchSave, Transfer
    <3> QED BY <1>0, <1>2, <3>1 DEF RowsOK, DrmIsOwner, SetDrm
  <2>2. CASE p.state # "dirty"
    BY <1>0, <1>2, <2>2 DEF RowsOK, DrmIsOwner, PatchSave
  <2> QED BY <2>1, <2>2
<1>6. TablesOK'
  <2>1. applied' \in Seq(Nat) /\ Len(applied') = Len(applied)
    BY <1>0, <1>1 DEF PatchSave, TablesOK, Id
  <2>2. AskedByOwner'
    <3>1. \A i \in Id : transfers[i] \in Transfer
      BY <1>0 DEF TablesOK, Id
    <3>2. \A i \in Id : transfers[i].dm_id \in Domain
      BY <3>1 DEF Transfer
    <3> QED BY <1>0, <1>2, <1>3, <3>2 DEF TablesOK, AskedByOwner, Id
  <2> QED BY <1>0, <1>2, <2>1, <2>2 DEF TablesOK
<1>7. RequestsOK'
  BY <1>0, <1>2, <1>4, RequestsStayOK
<1>8. PatchesOK'
  BY <1>0, <1>2, <1>4, PatchStaysOK DEF PatchesOK
<1> QED BY <1>5, <1>6, <1>7, <1>8, InvParts, PTL

LEMMA PatchRefusedInv ==
  ASSUME TransferInv, NEW p \in patches, PatchRefused(p)
  PROVE  TransferInv'
<1>0. TablesOK /\ RowsOK /\ RequestsOK /\ PatchesOK
  BY InvParts
<1>1. Grown /\ UNCHANGED <<tables, workflow, req>> /\ patches' \subseteq patches
  BY UnchangedGrown DEF PatchRefused, tables, workflow
<1>2. RequestsOK'
  BY <1>0, <1>1, RequestsStayOK
<1>3. TablesOK' /\ RowsOK'
  BY <1>0, <1>1 DEF TablesOK, RowsOK, AskedByOwner, DrmIsOwner, Id, tables, workflow
<1>4. PatchesOK'
  BY <1>0, <1>1, PatchStaysOK DEF PatchesOK
<1> QED BY <1>2, <1>3, <1>4, InvParts, PTL

LEMMA TouchInv ==
  ASSUME TransferInv, NEW d \in Domain, TouchLoad(d) \/ TouchCommit(d)
  PROVE  TransferInv'
<1>0. TablesOK /\ RowsOK /\ RequestsOK /\ PatchesOK
  BY InvParts
<1>1. UNCHANGED <<tables, owners, req, patches>>
  BY DEF TouchLoad, TouchCommit
<1>2. Grown
  BY <1>1, UnchangedGrown DEF tables
<1>3. RowsOK'
  <2>1. CASE TouchLoad(d)
    BY <1>0, <2>1 DEF RowsOK, DrmIsOwner, TouchLoad
  <2>2. CASE TouchCommit(d)
    BY <1>0, <2>2 DEF RowsOK, DrmIsOwner, TouchCommit
  <2> QED BY <2>1, <2>2
<1>4. TablesOK'
  BY <1>0, <1>1 DEF TablesOK, AskedByOwner, Id, tables
<1>5. RequestsOK' /\ PatchesOK'
  BY <1>0, <1>1, <1>2, RequestsStayOK, PatchesStayOK
<1> QED BY <1>3, <1>4, <1>5, InvParts, PTL

---------------------------------------------------------------------------
LEMMA InitInv == Init => TransferInv
<1> SUFFICES ASSUME Init PROVE TransferInv
  OBVIOUS
<1>1. TablesOK
  BY DEF Init, TablesOK, AskedByOwner, Id
<1>2. RowsOK
  BY DEF Init, RowsOK, DrmIsOwner
<1>3. RequestsOK
  BY IdleOK DEF Init, RequestsOK
<1>4. PatchesOK
  BY DEF Init, PatchesOK
<1> QED BY <1>1, <1>2, <1>3, <1>4, InvParts

LEMMA NextInv ==
  ASSUME TransferInv, [Next]_vars
  PROVE  TransferInv'
<1>1. CASE \E q \in Request : ReadStep(q)
  BY <1>1, ReadStepInv
<1>2. CASE \E q \in Request : Insert(q)
  BY <1>2, InsertInv
<1>3. CASE \E q \in Request : Approve(q)
  BY <1>3, ApproveInv
<1>4. CASE \E q \in Request : SendPatch(q)
  BY <1>4, SendPatchInv
<1>5. CASE WorkflowStep
  BY <1>5, PatchLoadInv, PatchSaveInv DEF WorkflowStep
<1>6. CASE \E p \in patches : PatchRefused(p)
  BY <1>6, PatchRefusedInv
<1>7. CASE \E d \in Domain : TouchLoad(d) \/ TouchCommit(d)
  BY <1>7, TouchInv
<1>8. CASE UNCHANGED vars
  <2>1. UNCHANGED <<transfers, applied, drm, touch, owners, req, patches>>
    BY <1>8 DEF vars, tables, workflow
  <2> QED BY <2>1 DEF TransferInv, TypeOK, DrmIsOwner, OwnedByOwner, AskedByOwner,
                      SavedIsApproved, PatchIsApproved, Id
<1> QED
  BY <1>1, <1>2, <1>3, <1>4, <1>5, <1>6, <1>7, <1>8
  DEF Next, CreateStep, ApproveStep, ReadStep

(* The inductive invariant: whatever the two services hold in memory or in *)
(* flight (overlapping requests, PATCHes whose connection broke, stale     *)
(* copies of a domain's row) concerns approved transfers and known owners. *)
THEOREM Invariance == Spec => []TransferInv
BY InitInv, NextInv, PTL DEF Spec

(* The tables, requests and PATCHes keep their types.                      *)
THEOREM TypeCorrect == Spec => []TypeOK
<1>1. TransferInv => TypeOK
  BY DEF TransferInv
<1> QED BY <1>1, Invariance, PTL

(* Every row of the transfer table names, as the one who hands over, a DRM *)
(* who had the domain, however old the answer create has checked.          *)
THEOREM TransfersAreAskedByOwners == Spec => []AskedByOwner
<1>1. TransferInv => AskedByOwner
  BY DEF TransferInv
<1> QED BY <1>1, Invariance, PTL

(* A domain gets a DRM it has not had only by a transfer to that DRM whose *)
(* approval is in the table.                                               *)
ToApproved ==
  \A d \in Domain : drm'[d] \notin owners[d] =>
    \E i \in Id : /\ transfers[i].dm_id = d /\ transfers[i].trns_to = drm'[d]
                  /\ transfers[i].hod_approved

LEMMA StepToApproved ==
  ASSUME TransferInv, [Next]_vars
  PROVE  ToApproved
<1>0. RowsOK /\ PatchesOK /\ TablesOK
  BY InvParts
<1>1. CASE UNCHANGED drm
  BY <1>0, <1>1 DEF ToApproved, RowsOK, DrmIsOwner
<1>2. CASE \E p \in patches : PatchSave(p)
  <2>1. PICK p \in patches : PatchSave(p)
    BY <1>2
  <2>2. p.id \in Id /\ transfers[p.id].hod_approved
    BY <1>0 DEF PatchesOK, PatchOK
  <2>3. CASE p.state = "dirty"
    <3>1. /\ drm' = [drm EXCEPT ![transfers[p.id].dm_id] = transfers[p.id].trns_to]
      BY <2>1, <2>3 DEF PatchSave, SetDrm
    <3>2. ASSUME NEW d \in Domain, drm'[d] \notin owners[d]
          PROVE  d = transfers[p.id].dm_id /\ drm'[d] = transfers[p.id].trns_to
      BY <1>0, <3>1, <3>2 DEF RowsOK, DrmIsOwner
    <3> QED BY <2>2, <3>2 DEF ToApproved
  <2>4. CASE p.state # "dirty"
    BY <1>1, <2>1, <2>4 DEF PatchSave
  <2> QED BY <2>3, <2>4
<1>3. CASE \E d \in Domain : TouchCommit(d)
  <2>1. PICK d \in Domain : TouchCommit(d)
    BY <1>3
  <2>2. \A e \in Domain : drm'[e] \in owners[e]
    BY <1>0, <2>1 DEF TouchCommit, RowsOK, DrmIsOwner
  <2> QED BY <2>2 DEF ToApproved
<1> QED
  BY <1>1, <1>2, <1>3
  DEF Next, CreateStep, ApproveStep, WorkflowStep, CheckNoneOpen, CheckOwner,
      Insert, CheckNotApproved, Approve, SendPatch, PatchAnswered, ConnectionLost,
      Refused, PatchLoad, PatchRefused, TouchLoad, workflow, tables, vars

(* The workflow service is told of a transfer only after its approval is   *)
(* saved, whatever overlaps and whichever answers are lost.                *)
THEOREM TransfersAreApproved == Spec => MovedByApproval
<1>1. TransferInv /\ [Next]_vars => [ToApproved]_vars
  BY StepToApproved
<1> QED BY <1>1, Invariance, PTL DEF Spec, MovedByApproval, ToApproved

---------------------------------------------------------------------------
(* When everything about one domain is done in turn: TurnInv.              *)

LEMMA RowTypes ==
  ASSUME TransferInv
  PROVE  /\ Id = 1 .. Len(transfers) /\ Len(transfers) \in Nat
         /\ \A i \in Id : transfers[i] \in Transfer /\ applied[i] \in Nat
         /\ \A q \in Request : req[q].op = "create" => req[q].row \in Transfer
         /\ \A q \in Request : req[q].op = "approve" => req[q].id \in Id
         /\ \A p \in patches : p.id \in Id
         /\ \A p \in patches : transfers[p.id].hod_approved
         /\ drm \in [Domain -> Drm]
<1>0. TablesOK /\ RowsOK /\ RequestsOK /\ PatchesOK
  BY InvParts
<1> QED BY <1>0, CreatingReq, ApprovingReq
        DEF TablesOK, RowsOK, PatchesOK, PatchOK, Id

LEMMA BecomeThis ==
  ASSUME TransferInv, NEW q \in Request, NEW w, Become(q, w)
  PROVE  req'[q] = w /\ \A r \in Request : r # q => req'[r] = req[r]
BY DEF TransferInv, TypeOK, Become

(* Steps that write neither the tables of the transfer service nor a DRM.  *)
LEMMA QuietTables ==
  ASSUME TurnInv, UNCHANGED <<transfers, applied, drm>>
  PROVE  /\ (OpenIsLast /\ LastIsOwner)'
         /\ \A i \in Id' : transfers'[i].trns_frm # transfers'[i].trns_to /\ applied'[i] <= 1
         /\ \A d : Open(d)' = Open(d)
         /\ \A i : OnItsWay(i)' = OnItsWay(i)
BY DEF TurnInv, OpenIsLast, LastIsOwner, Open, OnItsWay, Last, Id

LEMMA TurnRead ==
  ASSUME TransferInv, TurnInv, NEW q \in Request,
         CheckNoneOpen(q) \/ CheckOwner(q) \/ CheckNotApproved(q)
  PROVE  TurnInv'
<1>1. UNCHANGED <<transfers, applied, drm, touch, patches>>
  BY DEF CheckNoneOpen, CheckOwner, CheckNotApproved, tables, workflow
<1>2. PatchingInTurn' /\ \A d \in Domain : touch'[d] \in {NoDrm, drm'[d]}
  BY <1>1, QuietTables DEF TurnInv, PatchingInTurn
<1>3. req \in [Request -> {Idle} \cup Creating \cup Approving]
  BY DEF TransferInv, TypeOK
<1>4. CASE CheckNoneOpen(q)
  <2>1. PICK d \in Domain, m, n \in Drm :
          m # n /\ Open(d) = {} /\ req' = [req EXCEPT ![q] = Asking(d, m, n)]
    BY <1>4 DEF CheckNoneOpen, Become
  <2>2. CreatingInTurn'
    BY <1>1, <1>3, <2>1, QuietTables DEF TurnInv, CreatingInTurn, Asking
  <2>3. ApprovingInTurn'
    BY <1>1, <1>3, <2>1, QuietTables DEF TurnInv, ApprovingInTurn, Asking
  <2> QED BY <1>1, <1>2, <2>2, <2>3, QuietTables DEF TurnInv
<1>5. CASE CheckOwner(q)
  <2>1. /\ req' = [req EXCEPT ![q] = [req[q] EXCEPT !.phase = "owned"]]
        /\ req[q].op = "create" /\ drm[req[q].row.dm_id] = req[q].row.trns_frm
    BY <1>5 DEF CheckOwner, Become
  <2>2. req[q] \in Creating
    BY <1>3, <2>1 DEF Idle, Approving
  <2>3. req'[q].op = "create" /\ req'[q].row = req[q].row
    BY <1>3, <2>1, <2>2 DEF Creating
  <2>4. CreatingInTurn'
    <3>1. \A r \in Request : r # q => req'[r] = req[r]
      BY <1>3, <2>1
    <3>2. ASSUME NEW r \in Request, req'[r].op = "create"
          PROVE  req'[r].row = req[r].row /\ req[r].op = "create"
      BY <2>1, <2>3, <3>1, <3>2
    <3>3. ASSUME NEW r \in Request, req'[r].op = "create", req'[r].phase = "owned"
          PROVE  drm[req[r].row.dm_id] = req[r].row.trns_frm
      BY <2>1, <3>1, <3>2, <3>3 DEF TurnInv, CreatingInTurn
    <3> QED BY <1>1, <3>2, <3>3, QuietTables DEF TurnInv, CreatingInTurn
  <2>5. ApprovingInTurn'
    <3>1. \A r \in Request : r # q => req'[r] = req[r]
      BY <1>3, <2>1
    <3>2. req'[q].op # "approve"
      BY <2>1, <2>3
    <3> QED BY <1>1, <3>1, <3>2, QuietTables DEF TurnInv, ApprovingInTurn
  <2> QED BY <1>1, <1>2, <2>4, <2>5, QuietTables DEF TurnInv
<1>6. CASE CheckNotApproved(q)
  <2>1. PICK i \in Id : /\ ~transfers[i].hod_approved
                        /\ req' = [req EXCEPT ![q] =
                                    [op |-> "approve", phase |-> "checked", id |-> i]]
    BY <1>6 DEF CheckNotApproved, Become
  <2>2. CreatingInTurn'
    BY <1>1, <1>3, <2>1, QuietTables DEF TurnInv, CreatingInTurn
  <2>3. ApprovingInTurn'
    BY <1>1, <1>3, <2>1, QuietTables DEF TurnInv, ApprovingInTurn
  <2> QED BY <1>1, <1>2, <2>2, <2>3, QuietTables DEF TurnInv
<1> QED BY <1>4, <1>5, <1>6

LEMMA TurnIdle ==
  ASSUME TransferInv, TurnInv, NEW q \in Request,
         PatchAnswered(q) \/ ConnectionLost(q) \/ Refused(q)
  PROVE  TurnInv'
<1>1. UNCHANGED <<transfers, applied, drm, touch, patches>> /\ Become(q, Idle)
  BY DEF PatchAnswered, ConnectionLost, Refused, tables, workflow
<1>2. req \in [Request -> {Idle} \cup Creating \cup Approving]
  BY DEF TransferInv, TypeOK
<1>3. CreatingInTurn' /\ ApprovingInTurn'
  BY <1>1, <1>2, QuietTables DEF TurnInv, CreatingInTurn, ApprovingInTurn, Become, Idle
<1>4. PatchingInTurn'
  BY <1>1, QuietTables DEF TurnInv, PatchingInTurn
<1> QED BY <1>1, <1>3, <1>4, QuietTables DEF TurnInv

LEMMA TurnSend ==
  ASSUME TransferInv, TurnInv, InTurn, NEW q \in Request, SendPatch(q)
  PROVE  TurnInv'
<1>1. UNCHANGED <<transfers, applied, drm, touch>>
  BY DEF SendPatch, tables, workflow
<1>2. req \in [Request -> {Idle} \cup Creating \cup Approving]
  BY DEF TransferInv, TypeOK
<1>3. /\ req[q] \in Approving /\ req[q].phase = "approved" /\ req[q].op = "approve"
      /\ req' = [req EXCEPT ![q] = [req[q] EXCEPT !.phase = "patching"]]
  BY <1>2 DEF SendPatch, Become, Idle, Creating
<1>4. req'[q].op = "approve" /\ req'[q].phase = "patching" /\ req'[q].id = req[q].id
  BY <1>2, <1>3 DEF Approving
<1>5. CreatingInTurn' /\ ApprovingInTurn'
  BY <1>1, <1>2, <1>3, <1>4, QuietTables DEF TurnInv, CreatingInTurn, ApprovingInTurn
<1>6. OnItsWay(req[q].id)
  BY <1>3 DEF TurnInv, ApprovingInTurn
<1>7. \A p \in patches : transfers[p.id].dm_id # transfers[req[q].id].dm_id
  <2>1. transfers[req[q].id].dm_id \in Domain
    BY <1>3, RowTypes DEF Transfer
  <2> QED BY <1>3, <2>1 DEF InTurn, Concerns, Awaits
<1>8. PatchingInTurn'
  <2>1. patches' = patches \cup {[q |-> q, id |-> req[q].id, state |-> "sent"]}
    BY DEF SendPatch
  <2> QED BY <1>1, <1>6, <1>7, <2>1, QuietTables DEF TurnInv, PatchingInTurn
<1> QED BY <1>1, <1>5, <1>8, QuietTables DEF TurnInv

LEMMA TurnPatchStep ==
  ASSUME TransferInv, TurnInv, NEW p \in patches, PatchLoad(p) \/ PatchRefused(p)
  PROVE  TurnInv'
<1>1. UNCHANGED <<transfers, applied, drm, touch, req>>
  BY DEF PatchLoad, PatchRefused, tables, workflow
<1>2. CreatingInTurn' /\ ApprovingInTurn'
  BY <1>1, QuietTables DEF TurnInv, CreatingInTurn, ApprovingInTurn
<1>3. PatchingInTurn'
  <2>1. CASE PatchRefused(p)
    BY <1>1, <2>1, QuietTables DEF PatchRefused, TurnInv, PatchingInTurn
  <2>2. CASE PatchLoad(p)
    <3> DEFINE s == IF drm[transfers[p.id].dm_id] = transfers[p.id].trns_to
                      THEN "clean" ELSE "dirty"
    <3>1. patches' = (patches \ {p}) \cup {[p EXCEPT !.state = s]}
      BY <2>2 DEF PatchLoad
    <3>2. p \in Patch
      BY DEF TransferInv, TypeOK
    <3>3. PICK r : r = [p EXCEPT !.state = s]
      OBVIOUS
    <3>4. r.id = p.id /\ r.state = s
      BY <3>2, <3>3 DEF Patch
    <3> HIDE DEF s
    <3>5. \A t \in patches' : t = r \/ (t \in patches /\ t # p)
      BY <3>1, <3>3
    <3>6. ASSUME NEW t \in patches'
          PROVE  /\ OnItsWay(t.id)
                 /\ t.state # "sent" =>
                      (t.state = "clean") = (drm[transfers[t.id].dm_id] = transfers[t.id].trns_to)
      BY <3>4, <3>5 DEF TurnInv, PatchingInTurn, s
    <3>7. ASSUME NEW t \in patches', NEW u \in patches',
                 transfers[u.id].dm_id = transfers[t.id].dm_id
          PROVE  u = t
      BY <3>4, <3>5, <3>7 DEF TurnInv, PatchingInTurn
    <3> QED BY <1>1, <3>6, <3>7, QuietTables DEF PatchingInTurn
  <2> QED BY <2>1, <2>2
<1> QED BY <1>1, <1>2, <1>3, QuietTables DEF TurnInv

LEMMA TouchEffect ==
  ASSUME TransferInv, TurnInv, NEW d \in Domain, TouchLoad(d) \/ TouchCommit(d)
  PROVE  drm' = drm /\ \A e \in Domain : touch'[e] \in {NoDrm, drm[e]}
<1>1. /\ drm \in [Domain -> Drm] /\ touch \in [Domain -> Drm \cup {NoDrm}]
      /\ \A e \in Domain : touch[e] \in {NoDrm, drm[e]}
  BY DEF TransferInv, TypeOK, TurnInv
<1>2. CASE TouchLoad(d)
  BY <1>1, <1>2 DEF TouchLoad
<1>3. CASE TouchCommit(d)
  <2>1. drm' = [drm EXCEPT ![d] = drm[d]] /\ touch' = [touch EXCEPT ![d] = NoDrm]
    BY <1>1, <1>3 DEF TouchCommit
  <2> QED BY <1>1, <2>1
<1> QED BY <1>2, <1>3

LEMMA TurnTouch ==
  ASSUME TransferInv, TurnInv, NEW d \in Domain, TouchLoad(d) \/ TouchCommit(d)
  PROVE  TurnInv'
<1>1. UNCHANGED <<transfers, applied, req, patches>>
  BY DEF TouchLoad, TouchCommit, tables
<1>2. drm' = drm /\ \A e \in Domain : touch'[e] \in {NoDrm, drm[e]}
  BY TouchEffect
<1>3. CreatingInTurn' /\ ApprovingInTurn' /\ PatchingInTurn'
  BY <1>1, <1>2, QuietTables DEF TurnInv, CreatingInTurn, ApprovingInTurn, PatchingInTurn
<1> QED BY <1>1, <1>2, <1>3, QuietTables DEF TurnInv

LEMMA InsertEffect ==
  ASSUME TransferInv, NEW q \in Request, Insert(q)
  PROVE  LET n == Len(transfers) + 1
         IN  /\ Id = 1 .. Len(transfers) /\ Id' = Id \cup {n} /\ Len(transfers) \in Nat
             /\ \A i \in Id : transfers'[i] = transfers[i] /\ applied'[i] = applied[i]
             /\ transfers'[n] = req[q].row /\ applied'[n] = 0
<1>1. /\ transfers' = Append(transfers, req[q].row) /\ applied' = Append(applied, 0)
      /\ req[q].row \in Transfer
  BY RowTypes DEF Insert
<1> QED BY <1>1 DEF TransferInv, TypeOK, Id

LEMMA TurnInsert ==
  ASSUME TransferInv, TurnInv, InTurn, NEW q \in Request, Insert(q)
  PROVE  TurnInv'
<1> DEFINE n == Len(transfers) + 1
           d == req[q].row.dm_id
<1>1. /\ req[q].op = "create" /\ req[q].row \in Transfer /\ d \in Domain
      /\ Concerns(q, d)
  BY RowTypes DEF Insert, Transfer, Concerns
<1>2. /\ transfers' = Append(transfers, req[q].row) /\ applied' = Append(applied, 0)
      /\ Become(q, Idle) /\ UNCHANGED <<drm, touch, patches>>
  BY DEF Insert, workflow
<1>3. /\ Id = 1 .. Len(transfers) /\ Id' = Id \cup {n} /\ Len(transfers) \in Nat
      /\ \A i \in Id : transfers'[i] = transfers[i] /\ applied'[i] = applied[i]
      /\ transfers'[n] = req[q].row /\ applied'[n] = 0
  BY InsertEffect
<1>4. Open(d) = {} /\ ~req[q].row.hod_approved /\ req[q].row.trns_frm # req[q].row.trns_to
  BY <1>1 DEF TurnInv, CreatingInTurn
<1>5. \A e \in Domain : e # d => Open(e)' = Open(e)
  BY <1>3 DEF Open
<1>6. \A i \in Id : Last(i)' = Last(i)
  BY <1>3, <1>4 DEF Last
<1>7. ASSUME NEW i \in Id, OnItsWay(i), transfers[i].dm_id # d
      PROVE  OnItsWay(i)'
  <2>1. transfers[i].dm_id \in Domain
    BY RowTypes DEF Transfer
  <2> QED BY <1>3, <1>5, <1>6, <1>7, <2>1 DEF OnItsWay
<1> HIDE DEF n, d
<1>8. OpenIsLast'
  <2>1. ASSUME NEW i \in Id', ~transfers'[i].hod_approved
        PROVE  applied'[i] = 0 /\ \A j \in Id' : transfers'[j].dm_id = transfers'[i].dm_id => j <= i
    <3>1. CASE i = n
      BY <1>3, <3>1 DEF n
    <3>2. CASE i \in Id
      <4>1. transfers[i].dm_id # d
        BY <1>3, <1>4, <2>1, <3>2 DEF Open
      <4> QED BY <1>3, <2>1, <3>2, <4>1 DEF TurnInv, OpenIsLast, d
    <3> QED BY <1>3, <3>1, <3>2
  <2> QED BY <2>1 DEF OpenIsLast
<1>9. LastIsOwner'
  <2>1. ASSUME NEW i \in Id', transfers'[i].hod_approved, Last(i)', applied'[i] > 0
        PROVE  drm'[transfers'[i].dm_id] = transfers'[i].trns_to
    <3>1. i \in Id
      BY <1>3, <2>1
    <3>2. transfers[i].hod_approved /\ applied[i] > 0 /\ transfers'[i] = transfers[i]
      BY <1>3, <2>1, <3>1
    <3>3. Last(i)
      BY <1>6, <2>1, <3>1
    <3>4. drm[transfers[i].dm_id] = transfers[i].trns_to
      BY <3>1, <3>2, <3>3 DEF TurnInv, LastIsOwner
    <3> QED BY <1>2, <3>2, <3>4
  <2> QED BY <2>1 DEF LastIsOwner
<1>10. req'[q] = Idle /\ \A r \in Request : r # q => req'[r] = req[r]
  BY <1>2, BecomeThis
<1>11. CreatingInTurn'
  <2>1. ASSUME NEW r \in Request, r # q, req[r].op = "create"
        PROVE  req[r].row.dm_id \in Domain /\ req[r].row.dm_id # d
    <3>1. req[r].row.dm_id \in Domain
      BY <2>1, RowTypes DEF Transfer
    <3> QED BY <1>1, <2>1, <3>1 DEF InTurn, Concerns
  <2> QED BY <1>2, <1>5, <1>10, <2>1 DEF TurnInv, CreatingInTurn, Idle
<1>12. ApprovingInTurn'
  <2>1. ASSUME NEW r \in Request, r # q, req[r].op = "approve"
        PROVE  req[r].id \in Id /\ transfers[req[r].id].dm_id # d
    <3>1. req[r].id \in Id /\ transfers[req[r].id].dm_id \in Domain
      BY <2>1, RowTypes DEF Transfer
    <3> QED BY <1>1, <2>1, <3>1 DEF InTurn, Concerns
  <2>2. ASSUME NEW r \in Request, req'[r].op = "approve"
        PROVE  (/\ req[r].phase = "checked" => ~transfers[req[r].id].hod_approved
                /\ req[r].phase = "approved" => OnItsWay(req[r].id))'
    <3>1. r # q /\ req'[r] = req[r] /\ req[r].op = "approve"
      BY <1>10, <2>2 DEF Idle
    <3>2. PICK i : i = req[r].id
      OBVIOUS
    <3>3. i \in Id /\ transfers[i].dm_id # d
      BY <2>1, <3>1, <3>2
    <3>4. req[r].phase = "checked" => ~transfers'[i].hod_approved
      BY <1>3, <3>1, <3>2, <3>3 DEF TurnInv, ApprovingInTurn
    <3>5. req[r].phase = "approved" => OnItsWay(i)'
      BY <1>7, <3>1, <3>2, <3>3 DEF TurnInv, ApprovingInTurn
    <3> QED BY <3>1, <3>2, <3>4, <3>5
  <2> QED BY <2>2 DEF ApprovingInTurn
<1>13. PatchingInTurn'
  <2>1. ASSUME NEW p \in patches
        PROVE  p.id \in Id /\ transfers[p.id].dm_id # d
    <3>1. p.id \in Id /\ transfers[p.id].dm_id \in Domain
      BY RowTypes DEF Transfer
    <3> QED BY <1>1, <3>1 DEF InTurn, Awaits
  <2>2. ASSUME NEW p \in patches
        PROVE  OnItsWay(p.id)'
    BY <2>1, <1>7 DEF TurnInv, PatchingInTurn
  <2> QED BY <1>2, <1>3, <2>1, <2>2 DEF TurnInv, PatchingInTurn
<1>14. \A i \in Id' : transfers'[i].trns_frm # transfers'[i].trns_to /\ applied'[i] <= 1
  BY <1>3, <1>4 DEF TurnInv
<1> QED BY <1>2, <1>8, <1>9, <1>11, <1>12, <1>13, <1>14 DEF TurnInv

LEMMA ApproveEffect ==
  ASSUME TransferInv, NEW q \in Request, Approve(q)
  PROVE  /\ req[q].id \in Id /\ Id' = Id
         /\ \A i \in Id : i # req[q].id => transfers'[i] = transfers[i]
         /\ \A i \in Id : /\ transfers'[i].dm_id = transfers[i].dm_id
                          /\ transfers'[i].trns_frm = transfers[i].trns_frm
                          /\ transfers'[i].trns_to = transfers[i].trns_to
         /\ transfers'[req[q].id].hod_approved
<1>1. req[q].id \in Id /\ \A i \in Id : transfers[i] \in Transfer
  BY RowTypes DEF Approve
<1>2. transfers' = [transfers EXCEPT ![req[q].id].hod_approved = TRUE]
  BY DEF Approve
<1>3. /\ transfers'[req[q].id] = [transfers[req[q].id] EXCEPT !.hod_approved = TRUE]
      /\ Id' = Id
  BY <1>1, <1>2 DEF Id, TransferInv, TypeOK
<1>4. \A i \in Id : i # req[q].id => transfers'[i] = transfers[i]
  BY <1>2 DEF Id, TransferInv, TypeOK
<1> QED BY <1>1, <1>3, <1>4 DEF Transfer

LEMMA TurnApprove ==
  ASSUME TransferInv, TurnInv, InTurn, NEW q \in Request, Approve(q)
  PROVE  TurnInv'
<1>0. PICK n, d : n = req[q].id /\ d = transfers[n].dm_id
  OBVIOUS
<1>1. /\ req[q].op = "approve" /\ req[q].phase = "checked" /\ n \in Id
      /\ d \in Domain /\ Concerns(q, d) /\ ~transfers[n].hod_approved
  BY <1>0, RowTypes DEF Approve, Transfer, Concerns, TurnInv, ApprovingInTurn
<1>2. /\ transfers' = [transfers EXCEPT ![n].hod_approved = TRUE]
      /\ Become(q, [req[q] EXCEPT !.phase = "approved"])
      /\ UNCHANGED <<applied, drm, touch, patches>>
  BY <1>0 DEF Approve, workflow
<1>3. /\ Id = 1 .. Len(transfers) /\ Len(transfers) \in Nat
      /\ \A i \in Id : transfers[i] \in Transfer
  BY RowTypes
<1>4. /\ Id' = Id
      /\ \A i \in Id : i # n => transfers'[i] = transfers[i]
      /\ \A i \in Id : /\ transfers'[i].dm_id = transfers[i].dm_id
                       /\ transfers'[i].trns_frm = transfers[i].trns_frm
                       /\ transfers'[i].trns_to = transfers[i].trns_to
      /\ transfers'[n].hod_approved
  BY <1>0, ApproveEffect
<1>5. Open(d) = {n} /\ Open(d)' = {}
  <2>1. \A i \in Open(d) : i = n
    BY <1>0, <1>1, <1>3 DEF TurnInv, OpenIsLast, Open
  <2> QED BY <1>0, <1>1, <1>4, <2>1 DEF Open
<1>6. \A e : e # d => Open(e)' = Open(e)
  BY <1>0, <1>4 DEF Open
<1>7. ASSUME NEW i \in Id, transfers[i].dm_id # d
      PROVE  Last(i)' <=> Last(i)
  BY <1>0, <1>4, <1>7 DEF Last
<1>8. OnItsWay(n)'
  <2>1. Last(n)'
    BY <1>0, <1>1, <1>3, <1>4 DEF Last, TurnInv, OpenIsLast
  <2> QED BY <1>0, <1>1, <1>2, <1>4, <1>5, <2>1 DEF OnItsWay, TurnInv, OpenIsLast
<1>9. ASSUME NEW i \in Id, OnItsWay(i), transfers[i].dm_id # d
      PROVE  OnItsWay(i)'
  BY <1>2, <1>4, <1>6, <1>7, <1>9 DEF OnItsWay
<1>10. /\ req'[q].op = "approve" /\ req'[q].phase = "approved" /\ req'[q].id = n
       /\ \A r \in Request : r # q => req'[r] = req[r]
  <2>1. req[q] \in Approving
    BY <1>1, InvParts, ApprovingReq
  <2> QED BY <1>0, <1>2, <2>1, BecomeThis DEF Approving
<1>11. OpenIsLast'
  <2>1. ASSUME NEW i \in Id', ~transfers'[i].hod_approved
        PROVE  applied'[i] = 0 /\ \A j \in Id' : transfers'[j].dm_id = transfers'[i].dm_id => j <= i
    BY <1>2, <1>4, <2>1 DEF TurnInv, OpenIsLast
  <2> QED BY <2>1 DEF OpenIsLast
<1>12. LastIsOwner'
  <2>1. ASSUME NEW i \in Id', transfers'[i].hod_approved, Last(i)', applied'[i] > 0
        PROVE  drm'[transfers'[i].dm_id] = transfers'[i].trns_to
    <3>1. i # n
      BY <1>1, <1>2, <2>1 DEF TurnInv, OpenIsLast
    <3>2. transfers[i].dm_id # d
      <4>1. CASE transfers[i].dm_id = d
        <5>1. i <= n
          BY <1>0, <1>1, <1>4, <2>1, <4>1 DEF TurnInv, OpenIsLast
        <5>2. n <= i
          BY <1>0, <1>1, <1>4, <2>1, <4>1 DEF Last
        <5> QED BY <1>1, <1>3, <1>4, <2>1, <3>1, <5>1, <5>2
      <4> QED BY <4>1
    <3>3. transfers[i].hod_approved /\ Last(i) /\ applied[i] > 0
      BY <1>2, <1>4, <1>7, <2>1, <3>1, <3>2
    <3> QED BY <1>2, <1>4, <2>1, <3>3 DEF TurnInv, LastIsOwner
  <2> QED BY <2>1 DEF LastIsOwner
<1>13. CreatingInTurn'
  <2>1. \A e : Open(e)' \subseteq Open(e)
    BY <1>5, <1>6
  <2>2. \A r \in Request : req'[r].op = "create" => req'[r] = req[r]
    BY <1>10
  <2> QED BY <1>2, <2>1, <2>2 DEF TurnInv, CreatingInTurn
<1>14. ApprovingInTurn'
  <2>1. ASSUME NEW r \in Request, r # q, req[r].op = "approve"
        PROVE  req[r].id \in Id /\ transfers[req[r].id].dm_id # d
    <3>1. req[r].id \in Id /\ transfers[req[r].id].dm_id \in Domain
      BY <2>1, RowTypes DEF Transfer
    <3> QED BY <1>1, <2>1, <3>1 DEF InTurn, Concerns
  <2>2. ASSUME NEW r \in Request, req'[r].op = "approve"
        PROVE  (/\ req[r].phase = "checked" => ~transfers[req[r].id].hod_approved
                /\ req[r].phase = "approved" => OnItsWay(req[r].id))'
    <3>1. PICK i : i = req'[r].id
      OBVIOUS
    <3>2. CASE r = q
      BY <1>8, <1>10, <3>1, <3>2
    <3>3. CASE r # q
      <4>1. req'[r] = req[r] /\ i \in Id /\ transfers[i].dm_id # d
        BY <1>10, <2>1, <2>2, <3>1, <3>3
      <4>2. req[r].phase = "checked" => ~transfers'[i].hod_approved
        BY <1>0, <1>4, <2>2, <3>1, <4>1 DEF TurnInv, ApprovingInTurn
      <4>3. req[r].phase = "approved" => OnItsWay(i)'
        BY <1>9, <2>2, <3>1, <4>1 DEF TurnInv, ApprovingInTurn
      <4> QED BY <3>1, <4>1, <4>2, <4>3
    <3> QED BY <3>2, <3>3
  <2> QED BY <2>2 DEF ApprovingInTurn
<1>15. PatchingInTurn'
  <2>1. ASSUME NEW p \in patches
        PROVE  p.id \in Id /\ transfers[p.id].dm_id # d
    <3>1. p.id \in Id /\ transfers[p.id].dm_id \in Domain
      BY RowTypes DEF Transfer
    <3> QED BY <1>1, <3>1 DEF InTurn, Awaits
  <2>2. ASSUME NEW p \in patches
        PROVE  OnItsWay(p.id)'
    BY <2>1, <1>9 DEF TurnInv, PatchingInTurn
  <2> QED BY <1>2, <1>4, <2>1, <2>2 DEF TurnInv, PatchingInTurn
<1>16. \A i \in Id' : transfers'[i].trns_frm # transfers'[i].trns_to /\ applied'[i] <= 1
  BY <1>2, <1>4 DEF TurnInv
<1> QED BY <1>2, <1>11, <1>12, <1>13, <1>14, <1>15, <1>16 DEF TurnInv

(* The new DRM is written, or was there already.                           *)
LEMMA SaveEffect ==
  ASSUME TransferInv, TurnInv, NEW p \in patches, PatchSave(p)
  PROVE  LET d == transfers[p.id].dm_id
         IN  /\ p.id \in Id /\ Id' = Id
             /\ applied'[p.id] = 1 /\ \A i \in Id : i # p.id => applied'[i] = applied[i]
             /\ drm'[d] = transfers[p.id].trns_to
             /\ \A e \in Domain : e # d => drm'[e] = drm[e]
<1> DEFINE d == transfers[p.id].dm_id
<1>1. p.id \in Id /\ d \in Domain /\ applied[p.id] = 0
  BY RowTypes DEF Transfer, TurnInv, PatchingInTurn, OnItsWay
<1>2. UNCHANGED transfers /\ applied' = [applied EXCEPT ![p.id] = @ + 1]
  BY DEF PatchSave
<1>3. drm \in [Domain -> Drm] /\ p \in Patch
  BY DEF TransferInv, TypeOK
<1>4. CASE p.state = "dirty"
  BY <1>1, <1>2, <1>3, <1>4 DEF PatchSave, SetDrm, TransferInv, TypeOK, Id
<1>5. CASE p.state = "clean"
  <2>1. drm[d] = transfers[p.id].trns_to
    BY <1>5 DEF TurnInv, PatchingInTurn
  <2> QED BY <1>1, <1>2, <1>5, <2>1 DEF PatchSave, TransferInv, TypeOK, Id
<1> QED BY <1>3, <1>4, <1>5 DEF PatchSave, Patch

LEMMA TurnSave ==
  ASSUME TransferInv, TurnInv, InTurn, NEW p \in patches, PatchSave(p)
  PROVE  TurnInv'
<1> DEFINE n == p.id
           d == transfers[n].dm_id
<1>1. /\ n \in Id /\ d \in Domain /\ transfers[n].hod_approved
      /\ OnItsWay(n) /\ applied[n] = 0 /\ Open(d) = {} /\ touch[d] = NoDrm
  BY RowTypes DEF Transfer, TurnInv, PatchingInTurn, OnItsWay, InTurn
<1>2. /\ UNCHANGED <<transfers, touch, req>> /\ patches' = patches \ {p}
      /\ applied' = [applied EXCEPT ![n] = @ + 1]
  BY DEF PatchSave
<1>3. /\ Id = 1 .. Len(transfers) /\ Len(transfers) \in Nat /\ Id' = Id
      /\ applied'[n] = 1 /\ \A i \in Id : i # n => applied'[i] = applied[i]
  BY SaveEffect, RowTypes
<1>4. drm'[d] = transfers[n].trns_to /\ \A e \in Domain : e # d => drm'[e] = drm[e]
  BY SaveEffect
<1>5. \A e : Open(e)' = Open(e)
  BY <1>2 DEF Open, Id
<1>6. \A i : Last(i)' = Last(i)
  BY <1>2 DEF Last, Id
<1> HIDE DEF n
<1>7. ASSUME NEW i \in Id, OnItsWay(i), i # n
      PROVE  OnItsWay(i)'
  BY <1>2, <1>3, <1>5, <1>6, <1>7 DEF OnItsWay
<1>8. ASSUME NEW i \in Id, OnItsWay(i), transfers[i].hod_approved, transfers[i].dm_id = d
      PROVE  i = n
  BY <1>1, <1>3, <1>8 DEF OnItsWay, Last
<1>9. OpenIsLast'
  <2>1. ASSUME NEW i \in Id', ~transfers'[i].hod_approved
        PROVE  applied'[i] = 0 /\ \A j \in Id' : transfers'[j].dm_id = transfers'[i].dm_id => j <= i
    BY <1>1, <1>2, <1>3, <2>1 DEF TurnInv, OpenIsLast
  <2> QED BY <2>1 DEF OpenIsLast
<1>10. LastIsOwner'
  <2>1. ASSUME NEW i \in Id', transfers'[i].hod_approved, Last(i)', applied'[i] > 0
        PROVE  drm'[transfers'[i].dm_id] = transfers'[i].trns_to
    <3>1. CASE i = n
      BY <1>2, <1>4, <3>1
    <3>2. CASE i # n
      <4>1. transfers[i].dm_id # d
        BY <1>1, <1>2, <1>3, <1>6, <2>1, <3>2 DEF OnItsWay, Last
      <4>2. transfers[i].dm_id \in Domain /\ Last(i) /\ applied[i] > 0
        BY <1>2, <1>3, <1>6, <2>1, <3>2, RowTypes DEF Transfer
      <4>3. drm[transfers[i].dm_id] = transfers[i].trns_to
        BY <1>2, <1>3, <2>1, <4>2 DEF TurnInv, LastIsOwner
      <4> QED BY <1>2, <1>4, <4>1, <4>2, <4>3
    <3> QED BY <3>1, <3>2
  <2> QED BY <2>1 DEF LastIsOwner
<1>11. CreatingInTurn'
  <2>1. ASSUME NEW r \in Request, req[r].op = "create"
        PROVE  req[r].row.dm_id \in Domain /\ req[r].row.dm_id # d
    <3>1. req[r].row.dm_id \in Domain
      BY <2>1, RowTypes DEF Transfer
    <3> QED BY <1>1, <2>1, <3>1 DEF InTurn, Concerns, Awaits, n
  <2> QED BY <1>2, <1>4, <1>5, <2>1 DEF TurnInv, CreatingInTurn
<1>12. ApprovingInTurn'
  <2>1. ASSUME NEW r \in Request, req[r].op = "approve", req[r].phase = "approved"
        PROVE  req[r].id \in Id /\ req[r].id # n
    <3>1. req[r].id \in Id
      BY <2>1, RowTypes
    <3> QED BY <1>1, <2>1, <3>1 DEF InTurn, Concerns, Awaits, n
  <2>2. ASSUME NEW r \in Request, req[r].op = "approve", req[r].phase = "approved"
        PROVE  OnItsWay(req[r].id)'
    <3>1. PICK i : i = req[r].id
      OBVIOUS
    <3>2. OnItsWay(i)'
      BY <1>7, <2>1, <2>2, <3>1 DEF TurnInv, ApprovingInTurn
    <3> QED BY <1>2, <3>1, <3>2
  <2> QED BY <1>2, <2>2 DEF TurnInv, ApprovingInTurn
<1>13. PatchingInTurn'
  <2>1. ASSUME NEW r \in patches, r # p
        PROVE  r.id \in Id /\ transfers[r.id].dm_id # d /\ transfers[r.id].dm_id \in Domain
    BY <2>1, RowTypes DEF TurnInv, PatchingInTurn, n, Transfer
  <2>2. ASSUME NEW r \in patches, r # p
        PROVE  OnItsWay(r.id)'
    BY <2>1, <2>2, <1>1, <1>7 DEF TurnInv, PatchingInTurn
  <2>3. \A r \in patches' : r \in patches /\ r # p
    BY <1>2
  <2>4. ASSUME NEW r \in patches', r.state # "sent"
        PROVE  (r.state = "clean") = (drm'[transfers[r.id].dm_id] = transfers[r.id].trns_to)
    <3>1. drm'[transfers[r.id].dm_id] = drm[transfers[r.id].dm_id]
      BY <1>4, <2>1, <2>3
    <3> QED BY <2>3, <2>4, <3>1 DEF TurnInv, PatchingInTurn
  <2> QED BY <1>2, <2>2, <2>3, <2>4 DEF TurnInv, PatchingInTurn
<1>14. \A i \in Id' : transfers'[i].trns_frm # transfers'[i].trns_to /\ applied'[i] <= 1
  BY <1>2, <1>3 DEF TurnInv
<1>15. \A e \in Domain : touch'[e] \in {NoDrm, drm'[e]}
  BY <1>1, <1>2, <1>4 DEF TurnInv
<1> QED BY <1>9, <1>10, <1>11, <1>12, <1>13, <1>14, <1>15 DEF TurnInv

LEMMA InitTurn == Init => TurnInv
BY DEF Init, TurnInv, OpenIsLast, LastIsOwner, CreatingInTurn, ApprovingInTurn,
       PatchingInTurn, Id, Idle

LEMMA NextTurn ==
  ASSUME TransferInv, TurnInv, InTurn, [Next]_vars
  PROVE  TurnInv'
<1>1. CASE UNCHANGED vars
  <2>1. UNCHANGED <<transfers, applied, drm, touch, req, patches>>
    BY <1>1 DEF vars, tables, workflow
  <2> QED BY <2>1, QuietTables DEF TurnInv, CreatingInTurn, ApprovingInTurn, PatchingInTurn
<1>2. CASE Next
  BY <1>2, TurnRead, TurnIdle, TurnSend, TurnPatchStep, TurnTouch, TurnInsert,
     TurnApprove, TurnSave
  DEF Next, CreateStep, ApproveStep, WorkflowStep
<1> QED BY <1>1, <1>2

(* As long as everything about one domain is done in turn, whatever fails, *)
(* a domain is the DRM's it was transferred to last: a refused or lost     *)
(* PATCH, or one the service retries, never leaves another owner behind.   *)
THEOREM InTurnLastTransferHolds == Spec /\ []InTurn => []LastTransferHolds
<1>1. TurnInv => LastTransferHolds
  BY DEF TurnInv, LastIsOwner, LastTransferHolds
<1> QED BY <1>1, Invariance, InitTurn, NextTurn, PTL DEF Spec

(* And at most one transfer of a domain waits for its approval (the check  *)
(* of createTransfer holds its answer), and none is applied twice.         *)
THEOREM InTurnOneOpenOneApplied ==
  Spec /\ []InTurn => [](OneOpenTransfer /\ AppliedOnce)
<1>1. TransferInv /\ TurnInv => OneOpenTransfer /\ AppliedOnce
  BY RowTypes DEF TurnInv, OpenIsLast, Open, OneOpenTransfer, AppliedOnce
<1> QED BY <1>1, Invariance, InitTurn, NextTurn, PTL DEF Spec

---------------------------------------------------------------------------
(* The refinement of Handover.                                             *)

Pairs(d) == {<<transfers[i].trns_frm, transfers[i].trns_to>> : i \in Waiting(d)}

(* Steps that neither add nor apply a transfer nor change a DRM.           *)
LEMMA HandQuiet ==
  ASSUME HandInv, UNCHANGED drm, Id' = Id,
         \A i \in Id : /\ transfers'[i].dm_id = transfers[i].dm_id
                       /\ transfers'[i].trns_frm = transfers[i].trns_frm
                       /\ transfers'[i].trns_to = transfers[i].trns_to
                       /\ applied'[i] = applied[i],
         \A i \in Id : transfers'[i].hod_approved /\ applied[i] = 0 => Underway(i)'
  PROVE  HandInv' /\ UNCHANGED Hand!vars
<1>1. \A d : Waiting(d)' = Waiting(d) /\ Pairs(d)' = Pairs(d)
  BY DEF Waiting, Pairs
<1>2. UNCHANGED Hand!vars
  BY <1>1 DEF Hand!vars, Pairs
<1> QED BY <1>1, <1>2 DEF HandInv, Waiting

LEMMA HandRequest ==
  ASSUME TransferInv, TurnInv, HandInv, NEW q \in Request,
         \/ CheckNoneOpen(q) \/ CheckOwner(q) \/ CheckNotApproved(q)
         \/ PatchAnswered(q) \/ ConnectionLost(q) \/ Refused(q)
         \/ SendPatch(q)
  PROVE  HandInv' /\ UNCHANGED Hand!vars
<1>1. UNCHANGED <<transfers, applied, drm>>
  BY DEF CheckNoneOpen, CheckOwner, CheckNotApproved, PatchAnswered, ConnectionLost,
         Refused, SendPatch, tables, workflow
<1>2. PICK w : Become(q, w)
  BY DEF CheckNoneOpen, CheckOwner, CheckNotApproved, PatchAnswered, ConnectionLost,
         Refused, SendPatch
<1>3. \A r \in Request : r # q => req'[r] = req[r]
  BY <1>2, BecomeThis
<1>4. ASSUME NEW i, Underway(i)
      PROVE  Underway(i)'
  <2>1. CASE SendPatch(q)
    <3>1. [q |-> q, id |-> req[q].id, state |-> "sent"] \in patches' /\ patches \subseteq patches'
      BY <2>1 DEF SendPatch
    <3> QED BY <1>3, <1>4, <3>1 DEF Underway
  <2>2. CASE ~SendPatch(q)
    <3>1. /\ patches' = patches
          /\ ~(req[q].op = "approve" /\ req[q].phase = "approved")
      BY <2>2 DEF CheckNoneOpen, CheckOwner, CheckNotApproved, PatchAnswered,
                  ConnectionLost, Refused, Idle
    <3> QED BY <1>3, <1>4, <3>1 DEF Underway
  <2> QED BY <2>1, <2>2
<1>5. Id' = Id
  BY <1>1 DEF Id
<1>6. \A i \in Id : transfers'[i].hod_approved /\ applied[i] = 0 => Underway(i)'
  BY <1>1, <1>4 DEF HandInv
<1> QED BY <1>1, <1>5, <1>6, HandQuiet

LEMMA HandApprove ==
  ASSUME TransferInv, TurnInv, HandInv, NEW q \in Request, Approve(q)
  PROVE  HandInv' /\ UNCHANGED Hand!vars
<1>1. UNCHANGED <<applied, drm, patches>> /\ Become(q, [req[q] EXCEPT !.phase = "approved"])
  BY DEF Approve, workflow
<1>2. req[q] \in Approving
  BY InvParts, ApprovingReq DEF Approve
<1>3. /\ req'[q].op = "approve" /\ req'[q].phase = "approved" /\ req'[q].id = req[q].id
      /\ \A r \in Request : r # q => req'[r] = req[r]
  BY <1>1, <1>2, BecomeThis DEF Approving
<1>4. Underway(req[q].id)' /\ \A i : Underway(i) => Underway(i)'
  <2>1. ASSUME NEW i, i = req[q].id
        PROVE  Underway(i)'
    BY <1>3, <2>1 DEF Underway
  <2>2. ASSUME NEW i, Underway(i)
        PROVE  Underway(i)'
    BY <1>1, <1>3, <2>2 DEF Underway, Approve
  <2> QED BY <1>3, <2>1, <2>2
<1>5. /\ Id' = Id
      /\ \A i \in Id : /\ transfers'[i].dm_id = transfers[i].dm_id
                       /\ transfers'[i].trns_frm = transfers[i].trns_frm
                       /\ transfers'[i].trns_to = transfers[i].trns_to
                       /\ i # req[q].id => transfers'[i] = transfers[i]
  BY ApproveEffect
<1>6. ASSUME NEW i \in Id, transfers'[i].hod_approved, applied[i] = 0
      PROVE  Underway(i)'
  <2>1. CASE i = req[q].id
    <3>1. i = req'[q].id
      BY <1>3, <2>1
    <3> QED BY <1>3, <3>1 DEF Underway
  <2>2. CASE i # req[q].id
    <3>1. transfers[i].hod_approved
      BY <1>5, <1>6, <2>2
    <3>2. Underway(i)
      BY <1>6, <3>1 DEF HandInv
    <3> QED BY <1>4, <3>2
  <2> QED BY <2>1, <2>2
<1>7. \A i \in Id : /\ transfers'[i].dm_id = transfers[i].dm_id
                    /\ transfers'[i].trns_frm = transfers[i].trns_frm
                    /\ transfers'[i].trns_to = transfers[i].trns_to
                    /\ applied'[i] = applied[i]
  <2>1. applied' = applied
    BY <1>1
  <2> QED BY <1>5, <2>1
<1> QED BY <1>1, <1>5, <1>6, <1>7, HandQuiet

LEMMA HandPatchLoad ==
  ASSUME TransferInv, TurnInv, HandInv, NEW p \in patches, PatchLoad(p)
  PROVE  HandInv' /\ UNCHANGED Hand!vars
<1>1. UNCHANGED <<transfers, applied, drm, req>>
  BY DEF PatchLoad, tables, workflow
<1>2. PICK s : patches' = (patches \ {p}) \cup {[p EXCEPT !.state = s]}
  BY DEF PatchLoad
<1>3. [p EXCEPT !.state = s].id = p.id
  BY DEF TransferInv, TypeOK, Patch
<1>4. \A i : Underway(i) => Underway(i)'
  BY <1>1, <1>2, <1>3 DEF Underway
<1> QED BY <1>1, <1>4, HandQuiet DEF HandInv, Id

LEMMA HandTouch ==
  ASSUME TransferInv, TurnInv, HandInv, NEW d \in Domain, TouchLoad(d) \/ TouchCommit(d)
  PROVE  HandInv' /\ UNCHANGED Hand!vars
<1>1. UNCHANGED <<transfers, applied, drm, req, patches>>
  BY TouchEffect DEF TouchLoad, TouchCommit, tables
<1> QED BY <1>1, HandQuiet DEF HandInv, Underway, Id

(* A transfer is asked for when its row is inserted.                       *)
LEMMA HandInsert ==
  ASSUME TransferInv, TurnInv, HandInv, InTurn, NEW q \in Request, Insert(q)
  PROVE  HandInv' /\ Hand!Next
<1>0. PICK n, d, m : n = Len(transfers) + 1 /\ d = req[q].row.dm_id /\ m = req[q].row.trns_to
  OBVIOUS
<1>1. /\ req[q].op = "create" /\ req[q].row \in Transfer /\ d \in Domain /\ m \in Drm
      /\ Concerns(q, d) /\ Open(d) = {} /\ ~req[q].row.hod_approved
      /\ drm[d] = req[q].row.trns_frm /\ m # drm[d]
  BY <1>0, RowTypes DEF Insert, Transfer, Concerns, TurnInv, CreatingInTurn
<1>2. UNCHANGED <<drm, patches>> /\ Become(q, Idle)
  BY DEF Insert, workflow
<1>3. /\ Id = 1 .. Len(transfers) /\ Id' = Id \cup {n} /\ n \notin Id
      /\ \A i \in Id : transfers'[i] = transfers[i] /\ applied'[i] = applied[i]
      /\ transfers'[n] = req[q].row /\ applied'[n] = 0
  BY <1>0, InsertEffect
<1>4. Waiting(d) = {}
  <2>1. ASSUME NEW i \in Waiting(d)
        PROVE  FALSE
    <3>1. transfers[i].hod_approved /\ i \in Id /\ transfers[i].dm_id = d /\ applied[i] = 0
      BY <1>1, <2>1 DEF Waiting, Open
    <3>2. Underway(i)
      BY <3>1 DEF HandInv
    <3> QED BY <1>1, <3>1, <3>2 DEF Underway, InTurn, Concerns, Awaits
  <2> QED BY <2>1
<1>5. Waiting(d)' = {n} /\ \A e : e # d => Waiting(e)' = Waiting(e)
  BY <1>0, <1>3, <1>4 DEF Waiting
<1>6. HandInv'
  <2>1. \A i : Underway(i) => Underway(i)'
    BY <1>1, <1>2, BecomeThis DEF Underway
  <2>2. \A i \in Id' : transfers'[i].hod_approved /\ applied'[i] = 0 => Underway(i)'
    BY <1>1, <1>3, <2>1 DEF HandInv
  <2>3. \A e \in Domain : \A i \in Waiting(e)' :
          drm'[e] = transfers'[i].trns_frm /\ \A j \in Waiting(e)' : i = j
    BY <1>1, <1>2, <1>3, <1>5 DEF HandInv, Waiting
  <2> QED BY <2>2, <2>3 DEF HandInv
<1>7. Pairs(d) = {} /\ Pairs(d)' = {<<drm[d], m>>} /\ \A e : e # d => Pairs(e)' = Pairs(e)
  <2>1. ASSUME NEW e, e # d
        PROVE  Pairs(e)' = Pairs(e)
    BY <1>3, <1>5, <2>1 DEF Pairs, Waiting
  <2>2. Pairs(d)' = {<<drm[d], m>>}
    BY <1>0, <1>1, <1>3, <1>5 DEF Pairs
  <2> QED BY <1>4, <2>1, <2>2 DEF Pairs
<1>8. Hand!Ask(d, m)
  BY <1>1, <1>2, <1>7 DEF Hand!Ask, Pairs
<1> QED BY <1>1, <1>6, <1>8 DEF Hand!Next

(* It is handed over when the workflow service saves.                      *)
LEMMA HandSave ==
  ASSUME TransferInv, TurnInv, HandInv, InTurn, NEW p \in patches, PatchSave(p)
  PROVE  HandInv' /\ Hand!Next
<1>0. PICK n, d, m : n = p.id /\ d = transfers[n].dm_id /\ m = transfers[n].trns_to
  OBVIOUS
<1>1. /\ n \in Id /\ d \in Domain /\ m \in Drm /\ applied[n] = 0 /\ n \in Waiting(d)
  BY <1>0, RowTypes DEF Transfer, TurnInv, PatchingInTurn, OnItsWay, Waiting
<1>2. UNCHANGED <<transfers, req>> /\ patches' = patches \ {p}
  BY DEF PatchSave
<1>3. /\ Id' = Id /\ applied'[n] = 1 /\ \A i \in Id : i # n => applied'[i] = applied[i]
      /\ drm'[d] = m /\ \A e \in Domain : e # d => drm'[e] = drm[e]
  BY <1>0, SaveEffect
<1>4. Waiting(d) = {n} /\ drm[d] = transfers[n].trns_frm
  BY <1>1 DEF HandInv
<1>5. Waiting(d)' = {} /\ \A e : e # d => Waiting(e)' = Waiting(e)
  BY <1>0, <1>2, <1>3, <1>4 DEF Waiting
<1>6. HandInv'
  <2>1. \A i : Underway(i) /\ i # n => Underway(i)'
    BY <1>0, <1>2 DEF Underway
  <2>2. \A i \in Id' : transfers'[i].hod_approved /\ applied'[i] = 0 => Underway(i)'
    BY <1>2, <1>3, <2>1 DEF HandInv
  <2>3. \A e \in Domain : \A i \in Waiting(e)' :
          drm'[e] = transfers'[i].trns_frm /\ \A j \in Waiting(e)' : i = j
    BY <1>2, <1>3, <1>5 DEF HandInv
  <2> QED BY <2>2, <2>3 DEF HandInv
<1>7. Pairs(d) = {<<drm[d], m>>} /\ Pairs(d)' = {} /\ \A e : e # d => Pairs(e)' = Pairs(e)
  BY <1>0, <1>2, <1>4, <1>5 DEF Pairs
<1>8. drm' = [drm EXCEPT ![d] = m]
  <2>1. drm \in [Domain -> Drm] /\ drm' \in [Domain -> Drm]
    BY NextInv DEF TransferInv, TypeOK, Next, WorkflowStep
  <2> QED BY <1>3, <2>1
<1>9. Hand!HandOver(d, m)
  <2>1. [e \in Domain |-> Pairs(e)]' = [[e \in Domain |-> Pairs(e)] EXCEPT ![d] = {}]
    <3> HIDE DEF Pairs
    <3> QED BY <1>1, <1>7
  <2>2. [e \in Domain |-> Pairs(e)][d] = {<<drm[d], m>>}
    <3> HIDE DEF Pairs
    <3> QED BY <1>1, <1>7
  <2> QED BY <1>8, <2>1, <2>2 DEF Hand!HandOver, Pairs
<1> QED BY <1>1, <1>6, <1>9 DEF Hand!Next

LEMMA HandStep ==
  ASSUME "refuse" \notin Fault, TransferInv, TurnInv, HandInv, InTurn, [Next]_vars
  PROVE  HandInv' /\ [Hand!Next]_(Hand!vars)
<1>1. CASE UNCHANGED vars
  <2>1. UNCHANGED <<transfers, applied, drm, req, patches>>
    BY <1>1 DEF vars, tables, workflow
  <2> QED BY <2>1, HandQuiet DEF HandInv, Underway, Id
<1>2. CASE Next
  BY <1>2, HandRequest, HandApprove, HandPatchLoad, HandTouch, HandInsert, HandSave
  DEF Next, CreateStep, ApproveStep, WorkflowStep, PatchRefused
<1> QED BY <1>1, <1>2

(* When no PATCH is refused and everything about one domain is done in     *)
(* turn, transfer service and workflow service implement the handing over  *)
(* of a domain in one step, also when answers get lost.                    *)
THEOREM InTurnImplementsHandover ==
  ASSUME "refuse" \notin Fault
  PROVE  Spec /\ []InTurn => HandoverSpec
<1>1. Init => HandInv /\ Hand!Init
  <2> SUFFICES ASSUME Init PROVE HandInv /\ Hand!Init
    OBVIOUS
  <2>0. Id = {}
    BY DEF Init, Id
  <2>1. \A d : Waiting(d) = {} /\ Pairs(d) = {}
    <3>1. \A d : Waiting(d) = {}
      BY <2>0 DEF Waiting
    <3> QED BY <3>1 DEF Pairs
  <2> QED BY <2>1 DEF Init, HandInv, Id, Hand!Init, Pairs
<1>2. TransferInv /\ TurnInv /\ HandInv /\ InTurn /\ [Next]_vars => HandInv' /\ [Hand!Next]_(Hand!vars)
  BY HandStep
<1> QED BY <1>1, <1>2, Invariance, InitTurn, NextTurn, PTL DEF Spec, HandoverSpec, Hand!Spec

---------------------------------------------------------------------------
(* Served one at a time, and with no answer lost, requests are in turn.    *)

Waited ==
  /\ \A d \in Domain : touch[d] = NoDrm
  /\ \A p \in patches : \E q \in Request : Awaits(q, p)

LEMMA WaitedStep ==
  ASSUME TransferInv, Waited, [Next]_vars, "connection" \notin Fault, Touched = {}
  PROVE  Waited'
<1>1. CASE UNCHANGED vars
  BY <1>1 DEF Waited, Awaits, vars, tables, workflow
<1>2. ASSUME NEW q \in Request, req[q].op # "approve" \/ req[q].phase # "patching",
             \A r \in Request : r # q => req'[r] = req[r],
             patches' = patches, touch' = touch
      PROVE  Waited'
  <2>1. \A r \in Request, p \in patches : Awaits(r, p) => r # q /\ Awaits(r, p)'
    BY <1>2 DEF Awaits
  <2> QED BY <1>2, <2>1 DEF Waited
<1>3. ASSUME NEW q \in Request,
             CreateStep(q) \/ CheckNotApproved(q) \/ Approve(q) \/ Refused(q)
      PROVE  Waited'
  <2>1. req[q].op # "approve" \/ req[q].phase # "patching"
    BY <1>3 DEF CreateStep, CheckNoneOpen, CheckOwner, Insert, CheckNotApproved, Approve,
                Refused, Idle
  <2>2. (\A r \in Request : r # q => req'[r] = req[r]) /\ patches' = patches /\ touch' = touch
    BY <1>3 DEF TransferInv, TypeOK, CreateStep, CheckNoneOpen, CheckOwner, Insert, CheckNotApproved,
                Approve, Refused, Become, tables, workflow
  <2> QED BY <2>1, <2>2, <1>2
<1>4. ASSUME NEW q \in Request, SendPatch(q)
      PROVE  Waited'
  <2>1. req'[q] = [req[q] EXCEPT !.phase = "patching"]
    BY <1>4 DEF SendPatch, Become, TransferInv, TypeOK
  <2>2. req'[q].op = "approve" /\ req'[q].phase = "patching" /\ req'[q].id = req[q].id
    <3>1. req[q] \in Approving
      BY <1>4 DEF SendPatch, TransferInv, TypeOK, Idle, Creating
    <3> QED BY <1>4, <2>1, <3>1 DEF SendPatch, Approving
  <2>3. \A p \in patches' \ patches : Awaits(q, p)'
    BY <1>4, <2>2 DEF SendPatch, Awaits
  <2>4. \A r \in Request, p \in patches : Awaits(r, p) => Awaits(r, p)'
    BY <1>4 DEF SendPatch, Become, Awaits, TransferInv, TypeOK
  <2> QED BY <1>4, <2>3, <2>4 DEF Waited, SendPatch, workflow
<1>5. ASSUME NEW q \in Request, PatchAnswered(q)
      PROVE  Waited'
  <2>1. \A r \in Request, p \in patches : Awaits(r, p) => r # q
    BY <1>5 DEF PatchAnswered, Answered, Awaits
  <2>2. \A r \in Request, p \in patches : Awaits(r, p) => Awaits(r, p)'
    BY <1>5, <2>1 DEF PatchAnswered, Become, Awaits, TransferInv, TypeOK
  <2> QED BY <1>5, <2>2 DEF Waited, PatchAnswered, workflow
<1>6. ASSUME NEW p \in patches, PatchLoad(p)
      PROVE  Waited'
  <2>1. PICK s \in patches' : s = [p EXCEPT !.state = s.state] /\ patches' = (patches \ {p}) \cup {s}
    <3>1. PICK c : patches' = (patches \ {p}) \cup {[p EXCEPT !.state = c]}
      BY <1>6 DEF PatchLoad
    <3>2. p \in Patch
      BY <1>6 DEF TransferInv, TypeOK
    <3> QED BY <3>1, <3>2 DEF Patch
  <2>2. s.q = p.q /\ s.id = p.id
    BY <2>1, <1>6 DEF TransferInv, TypeOK, Patch
  <2>3. UNCHANGED <<req, touch>>
    BY <1>6 DEF PatchLoad, workflow
  <2>4. \A r \in Request : Awaits(r, p) => Awaits(r, s)'
    BY <2>2, <2>3 DEF Awaits
  <2>5. \A r \in Request, o \in patches : Awaits(r, o) => Awaits(r, o)'
    BY <2>3 DEF Awaits
  <2> QED BY <1>6, <2>1, <2>3, <2>4, <2>5 DEF Waited
<1>7. ASSUME NEW p \in patches, PatchSave(p) \/ PatchRefused(p)
      PROVE  Waited'
  BY <1>7 DEF Waited, Awaits, PatchSave, PatchRefused, workflow
<1>8. ASSUME NEW q \in Request, ConnectionLost(q)
      PROVE  FALSE
  BY <1>8 DEF ConnectionLost
<1>9. ASSUME NEW d \in Domain, TouchLoad(d) \/ TouchCommit(d)
      PROVE  FALSE
  BY <1>9 DEF TouchLoad, TouchCommit, Waited
<1> QED
  BY <1>1, <1>3, <1>4, <1>5, <1>6, <1>7, <1>8, <1>9
  DEF Next, ApproveStep, WorkflowStep

LEMMA OneAtATimeInTurn ==
  ASSUME \A q, r \in Request : q = r, "connection" \notin Fault, Touched = {}
  PROVE  Spec => []InTurn
<1>1. Init => Waited
  BY DEF Init, Waited
<1>2. Waited => InTurn
  <2> SUFFICES ASSUME Waited, NEW d \in Domain
               PROVE  /\ \A q, r \in Request : Concerns(q, d) /\ Concerns(r, d) => q = r
                      /\ \A p \in patches : transfers[p.id].dm_id = d =>
                           touch[d] = NoDrm /\ \A q \in Request : Concerns(q, d) => Awaits(q, p)
                      /\ touch[d] # NoDrm => \A q \in Request : ~Concerns(q, d)
    BY DEF InTurn
  <2>1. \A p \in patches, q \in Request : Awaits(q, p)
    BY DEF Waited
  <2> QED BY <2>1 DEF Waited
<1> QED BY <1>1, <1>2, WaitedStep, Invariance, PTL DEF Spec

(* What the HOD's approval and the DRM's request can rely on when the      *)
(* transfer service serves one request at a time and gets every answer,    *)
(* a refusal included: the domain is whose it was transferred to last.     *)
COROLLARY OneAtATimeLastTransferHolds ==
  ASSUME \A q, r \in Request : q = r, "connection" \notin Fault, Touched = {}
  PROVE  Spec => []LastTransferHolds
<1>1. Spec => []InTurn
  BY OneAtATimeInTurn
<1> QED BY <1>1, InTurnLastTransferHolds, PTL

(* And, if nothing fails, a transfer is a handing over in one step.        *)
COROLLARY OneAtATimeImplementsHandover ==
  ASSUME \A q, r \in Request : q = r, Fault = {}, Touched = {}
  PROVE  Spec => HandoverSpec
<1>1. Spec => []InTurn
  <2>1. "connection" \notin Fault
    OBVIOUS
  <2> QED BY <2>1, OneAtATimeInTurn
<1>2. Spec /\ []InTurn => HandoverSpec
  BY InTurnImplementsHandover
<1> QED BY <1>1, <1>2, PTL
===========================================================================
