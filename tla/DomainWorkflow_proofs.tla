---------------------- MODULE DomainWorkflow_proofs -----------------------
(***************************************************************************)
(* DomainWorkflow for every number of domains, requests, employees and     *)
(* authorities: its types, and its inductive invariant WorkflowInv with    *)
(* the safety properties that follow from it.                              *)
(***************************************************************************)
EXTENDS DomainWorkflow, FiniteSetTheorems, TLAPS

USE ChainAssumption, DrmAssumption, OperationAssumption, BoundAssumption

---------------------------------------------------------------------------
(* Types of the rows a handler computes.                                   *)

LEMMA RowTypes ==
  ASSUME NEW row \in DomainRow, NEW m \in Drm
  PROVE  /\ Renewed(row, m) \in DomainRow
         /\ [row EXCEPT !.drm = m] \in DomainRow
  BY DEF DomainRow, Renewed

LEMMA NewDomainRowType ==
  ASSUME NEW m \in Drm
  PROVE  NewDomainRow(m) \in DomainRow
  BY DEF DomainRow, NewDomainRow

LEMMA PurchasedType ==
  ASSUME NEW row \in DomainRow
  PROVE  Purchased(row) \in DomainRow
  BY DEF DomainRow, Purchased

LEMMA DeletedType ==
  ASSUME NEW row \in DomainRow
  PROVE  Deleted(row) \in DomainRow
  BY DEF DomainRow, Deleted

LEMMA VerificationTypes ==
  ASSUME NEW v \in VerificationRow, NEW r \in Role
  PROVE  /\ Verify(v, r) \in VerificationRow
         /\ r # ARM => SendBack(v, r) \in VerificationRow
         /\ NewVerificationRow \in VerificationRow
  BY DEF VerificationRow, Verify, SendBack, NewVerificationRow

LEMMA WorkTypes ==
  ASSUME NEW op \in TxOperation \cup PlainOperation, NEW d \in Domain
  PROVE  /\ NewWork(op, d) \in Work
         /\ NewWork(op, d).op = op /\ NewWork(op, d).d = d
  BY DEF NewWork, Work, Role, ARM, NoDomainRow, NewDomainRow, DomainRow,
         NewVerificationRow, VerificationRow

LEMMA InitType == Init => TypeOK
  BY DEF Init, TypeOK, NoDomainRow, NewDomainRow, DomainRow,
         NewVerificationRow, VerificationRow

LEMMA LoadType ==
  ASSUME TypeOK, NEW q \in Request, NEW work \in Work, Load(q, work)
  PROVE  TypeOK'
  BY DEF TypeOK, Load, tables

(* A request that begins holds the copies of one operation.                *)
LEMMA LoadStepType ==
  ASSUME TypeOK, NEW q \in Request, LoadStep(q)
  PROVE  TypeOK'
<1>1. CASE LoadApply(q)
  <2>1. PICK d \in Domain, m \in Drm :
          Load(q, [NewWork("apply", d) EXCEPT !.dom = NewDomainRow(m)])
    BY <1>1 DEF LoadApply
  <2>2. NewWork("apply", d) \in Work
    BY WorkTypes DEF TxOperation
  <2>3. NewDomainRow(m) \in DomainRow
    BY NewDomainRowType DEF TypeOK
  <2>4. [NewWork("apply", d) EXCEPT !.dom = NewDomainRow(m)] \in Work
    BY <2>2, <2>3 DEF Work
  <2> QED BY <2>1, <2>4, LoadType
<1>2. CASE LoadApprove(q)
  <2>1. PICK d \in Domain, r \in Role :
          Load(q, [NewWork("approve", d) EXCEPT
                  !.role = r, !.dv = Verify(dv[d], r), !.round = renewals[d]])
    BY <1>2 DEF LoadApprove
  <2>2. NewWork("approve", d) \in Work
    BY WorkTypes DEF TxOperation
  <2>3. Verify(dv[d], r) \in VerificationRow /\ renewals[d] \in Nat
    BY VerificationTypes DEF TypeOK
  <2>4. [NewWork("approve", d) EXCEPT
           !.role = r, !.dv = Verify(dv[d], r), !.round = renewals[d]] \in Work
    BY <2>2, <2>3 DEF Work
  <2> QED BY <2>1, <2>4, LoadType
<1>3. CASE LoadReject(q)
  <2>1. PICK d \in Domain, r \in Role :
          Load(q, [NewWork("reject", d) EXCEPT
                  !.role = r, !.dv = SendBack(dv[d], r)]) /\ r # ARM
    BY <1>3 DEF LoadReject, MayReject
  <2>2. NewWork("reject", d) \in Work
    BY WorkTypes DEF PlainOperation
  <2>3. SendBack(dv[d], r) \in VerificationRow
    BY <2>1, VerificationTypes DEF TypeOK
  <2>4. [NewWork("reject", d) EXCEPT
           !.role = r, !.dv = SendBack(dv[d], r)] \in Work
    BY <2>2, <2>3 DEF Work
  <2> QED BY <2>1, <2>4, LoadType
<1>4. CASE LoadRenew(q)
  <2>1. PICK d \in Domain, m \in Drm :
          Load(q, [NewWork("renew", d) EXCEPT !.dom = Renewed(dom[d], m)])
    BY <1>4 DEF LoadRenew
  <2>2. NewWork("renew", d) \in Work
    BY WorkTypes DEF TxOperation
  <2>3. Renewed(dom[d], m) \in DomainRow
    BY RowTypes DEF TypeOK
  <2>4. [NewWork("renew", d) EXCEPT !.dom = Renewed(dom[d], m)] \in Work
    BY <2>2, <2>3 DEF Work
  <2> QED BY <2>1, <2>4, LoadType
<1>5. CASE LoadPurchase(q)
  <2>1. PICK d \in Domain :
          Load(q, [NewWork("purchase", d) EXCEPT !.phase = "checked"])
    BY <1>5 DEF LoadPurchase
  <2>2. NewWork("purchase", d) \in Work
    BY WorkTypes DEF TxOperation
  <2>3. [NewWork("purchase", d) EXCEPT !.phase = "checked"] \in Work
    BY <2>2 DEF Work
  <2> QED BY <2>1, <2>3, LoadType
<1>6. CASE LoadDelete(q)
  <2>1. PICK d \in Domain :
          Load(q, [NewWork("delete", d) EXCEPT
                  !.dom = Deleted(dom[d]), !.dirty = Deleted(dom[d]) # dom[d]])
    BY <1>6 DEF LoadDelete
  <2>2. NewWork("delete", d) \in Work
    BY WorkTypes DEF TxOperation
  <2>3. Deleted(dom[d]) \in DomainRow /\ (Deleted(dom[d]) # dom[d]) \in BOOLEAN
    BY DeletedType DEF TypeOK
  <2>4. [NewWork("delete", d) EXCEPT
           !.dom = Deleted(dom[d]), !.dirty = Deleted(dom[d]) # dom[d]] \in Work
    BY <2>2, <2>3 DEF Work
  <2> QED BY <2>1, <2>4, LoadType
<1>7. CASE LoadUpdate(q)
  <2>1. PICK d \in Domain, m \in Drm :
          Load(q, [NewWork("update", d) EXCEPT
                  !.dom = [dom[d] EXCEPT !.drm = m], !.dirty = dom[d].drm # m])
    BY <1>7 DEF LoadUpdate
  <2>2. NewWork("update", d) \in Work
    BY WorkTypes DEF PlainOperation
  <2>3. [dom[d] EXCEPT !.drm = m] \in DomainRow /\ (dom[d].drm # m) \in BOOLEAN
    BY RowTypes DEF TypeOK
  <2>4. [NewWork("update", d) EXCEPT
           !.dom = [dom[d] EXCEPT !.drm = m], !.dirty = dom[d].drm # m] \in Work
    BY <2>2, <2>3 DEF Work
  <2> QED BY <2>1, <2>4, LoadType
<1>8. CASE ReadPurchasedDomain(q)
  <2>1. req[q] \in Work /\ Purchased(dom[req[q].d]) \in DomainRow
    BY <1>8, PurchasedType DEF ReadPurchasedDomain, Idle, Work, TypeOK
  <2>2. [req[q] EXCEPT !.phase = "loaded",
                       !.dom = Purchased(dom[req[q].d])] \in Work
    BY <2>1 DEF Work
  <2> QED BY <1>8, <2>2, LoadType DEF ReadPurchasedDomain
<1> QED
  BY <1>1, <1>2, <1>3, <1>4, <1>5, <1>6, <1>7, <1>8 DEF LoadStep

LEMMA AnnounceType ==
  ASSUME TypeOK, NEW q \in Request, Announce(q)
  PROVE  TypeOK'
<1> USE DEF TypeOK
<1>1. req[q] \in Work /\ EventOf(req[q].op) \in Event
  BY DEF Announce, TxOperation, Idle, Work, EventOf, Event
<1>2. ASSUME NEW b \in BOOLEAN
      PROVE  [req[q] EXCEPT !.phase = "announced", !.dirty = b] \in Work
  BY <1>1 DEF Work
<1>3. req' \in [Request -> {Idle} \cup Work]
  BY <1>1, <1>2 DEF Announce, Work
<1>4. announced' \in [Domain -> SUBSET Event]
  BY <1>1 DEF Announce, Work
<1> QED BY <1>3, <1>4 DEF Announce, tables

LEMMA WriteStepType ==
  ASSUME TypeOK, NEW q \in Request, WriteStep(q)
  PROVE  TypeOK'
<1> USE DEF TypeOK
<1>1. req[q].op # "none" => req[q] \in Work
  BY DEF Idle
<1>2. NewVerificationRow \in VerificationRow
  BY DEF NewVerificationRow, VerificationRow
<1>3. CASE CommitApply(q)
  BY <1>1, <1>2, <1>3 DEF CommitApply, Finish, Work
<1>4. CASE CommitApprove(q)
  BY <1>1, <1>4 DEF CommitApprove, Finish, Work
<1>5. CASE CommitRenew(q)
  BY <1>1, <1>2, <1>5 DEF CommitRenew, Finish, Work
<1>6. CASE CommitPurchase(q)
  BY <1>1, <1>6 DEF CommitPurchase, Finish, Work
<1>7. CASE CommitDelete(q)
  BY <1>1, <1>7 DEF CommitDelete, WriteDomain, Finish, Work
<1>8. CASE SaveReject(q)
  BY <1>1, <1>8 DEF SaveReject, Work, EventOf, Event
<1>9. CASE SaveUpdate(q)
  BY <1>1, <1>9 DEF SaveUpdate, WriteDomain, Work
<1> QED
  BY <1>3, <1>4, <1>5, <1>6, <1>7, <1>8, <1>9 DEF WriteStep

LEMMA NextType == TypeOK /\ [Next]_vars => TypeOK'
<1> SUFFICES ASSUME TypeOK, [Next]_vars PROVE TypeOK'
  OBVIOUS
<1>1. CASE UNCHANGED vars
  BY <1>1 DEF vars, TypeOK
<1>2. ASSUME NEW q \in Request, Abort(q) PROVE TypeOK'
  BY <1>2 DEF Abort, TypeOK, tables
<1> QED
  BY <1>1, <1>2, LoadStepType, AnnounceType, WriteStepType DEF Next

(* Type correctness: TypeOK holds in every reachable state.                *)
THEOREM TypeCorrect == Spec => []TypeOK
BY InitType, NextType, PTL DEF Spec

---------------------------------------------------------------------------
(* The inductive invariant.  A load leaves the tables alone, so only the   *)
(* new copy has to be considered; a write only adds approvals, purchases   *)
(* and renewals, so the copies of the other requests stay good.            *)

LEMMA InOrderKept ==
  ASSUME NEW v \in VerificationRow, NEW r \in Role, InOrder(v)
  PROVE  /\ MayVerify(v, r) => InOrder(Verify(v, r))
         /\ InOrder(SendBack(v, r))
         /\ InOrder(NewVerificationRow)
<1>1. ASSUME MayVerify(v, r) PROVE InOrder(Verify(v, r))
  <2>1. 1 .. r \subseteq v.verifiedBy \cup {r}
    BY <1>1 DEF MayVerify, InOrder, Role, ARM, VerificationRow
  <2>2. /\ Verify(v, r).verifiedBy = v.verifiedBy \cup {r}
        /\ Verify(v, r).isVerified <=> v.isVerified \/ r = HODHPC
    BY DEF Verify, VerificationRow
  <2> QED BY <2>1, <2>2 DEF InOrder
<1>2. InOrder(SendBack(v, r))
  BY DEF InOrder, SendBack, VerificationRow
<1>3. InOrder(NewVerificationRow)
  BY DEF InOrder, NewVerificationRow
<1> QED BY <1>1, <1>2, <1>3

LEMMA InitInv == Init => WorkflowInv
<1> SUFFICES ASSUME Init PROVE WorkflowInv
  OBVIOUS
<1>1. ASSUME NEW d \in Domain PROVE RowsOK(d)
  BY DEF Init, RowsOK, InOrder, RowBacked, NoDomainRow, NewDomainRow,
         NewVerificationRow
<1>2. \A q \in Request : req[q].op = "none"
  BY DEF Init, Idle
<1> QED BY <1>1, <1>2, InitType DEF WorkflowInv

(* Nothing a copy relies on is ever taken back.                            *)
Grown ==
  \A d \in Domain :
    /\ Approved(d) \subseteq Approved(d)'
    /\ purchases[d] > 0 => purchases'[d] > 0
    /\ renewals[d] > 0 => renewals'[d] > 0

LEMMA CopyStaysOK ==
  ASSUME NEW w \in Work, Grown, CopyOK(w)
  PROVE  CopyOK(w)'
  BY DEF CopyOK, RowBacked, Grown, Work

LEMMA LoadInv ==
  ASSUME WorkflowInv, TypeOK', NEW q \in Request, NEW work, Load(q, work), CopyOK(work)
  PROVE  WorkflowInv'
<1>1. TypeOK /\ TypeOK'
  BY DEF WorkflowInv
<1>2. UNCHANGED <<dom, dv, renewals, purchases, approvals>>
  BY DEF Load, tables
<1>3. ASSUME NEW d \in Domain PROVE RowsOK(d)'
  BY <1>2 DEF WorkflowInv, RowsOK, Approved, RowBacked
<1>4. Grown
  BY <1>2 DEF Grown, Approved
<1>5. ASSUME NEW p \in Request, (req[p].op # "none")' PROVE CopyOK(req[p])'
  <2>1. req'[p] = IF p = q THEN work ELSE req[p]
    BY <1>1 DEF Load, TypeOK
  <2>2. req'[p] \in Work
    BY <1>1, <1>5 DEF TypeOK, Idle
  <2>3. PICK w \in Work : w = req'[p]
    BY <2>2
  <2>4. CopyOK(w)
    BY <1>5, <2>1, <2>3 DEF WorkflowInv
  <2>5. CopyOK(w)'
    BY <1>4, <2>4, CopyStaysOK
  <2> QED BY <2>3, <2>5 DEF CopyOK, RowBacked, InOrder, Approved
<1> QED BY <1>1, <1>3, <1>5 DEF WorkflowInv

(* The copies of the operations that read no verification row.             *)
LEMMA FreshCopyOK ==
  ASSUME NEW op \in {"apply", "renew", "delete", "update"}, NEW d \in Domain,
         NEW row \in DomainRow, RowBacked(row, d, op), NEW b \in BOOLEAN
  PROVE  /\ CopyOK([NewWork(op, d) EXCEPT !.dom = row])
         /\ CopyOK([NewWork(op, d) EXCEPT !.dom = row, !.dirty = b])
  BY DEF CopyOK, NewWork, InOrder, NewVerificationRow

LEMMA LoadStepInv ==
  ASSUME WorkflowInv, NEW q \in Request, LoadStep(q)
  PROVE  WorkflowInv'
<1>1. TypeOK /\ TypeOK'
  BY LoadStepType DEF WorkflowInv
<1>2. \A d \in Domain : RowsOK(d) /\ dom[d] \in DomainRow /\ dv[d] \in VerificationRow
  BY <1>1 DEF WorkflowInv, TypeOK
<1>3. CASE LoadApply(q)
  <2>1. PICK d \in Domain, m \in Drm :
          Load(q, [NewWork("apply", d) EXCEPT !.dom = NewDomainRow(m)])
    BY <1>3 DEF LoadApply
  <2>2. RowBacked(NewDomainRow(m), d, "apply")
    BY DEF RowBacked, NewDomainRow
  <2>3. CopyOK([NewWork("apply", d) EXCEPT !.dom = NewDomainRow(m)])
    BY <2>2, NewDomainRowType, FreshCopyOK
  <2> QED BY <1>1, <2>1, <2>3, LoadInv
<1>4. CASE LoadApprove(q)
  <2>1. PICK d \in Domain, r \in Role :
          /\ MayVerify(dv[d], r)
          /\ Load(q, [NewWork("approve", d) EXCEPT
                        !.role = r, !.dv = Verify(dv[d], r), !.round = renewals[d]])
    BY <1>4 DEF LoadApprove, Approvable
  <2>2. InOrder(Verify(dv[d], r))
    BY <1>2, <2>1, InOrderKept DEF RowsOK
  <2>3. \A s \in Verify(dv[d], r).verifiedBy : s \in Approved(d) \/ s = r
    BY <1>2 DEF RowsOK, Verify, VerificationRow
  <2>4. RowBacked(NoDomainRow, d, "approve")
    BY DEF RowBacked, NoDomainRow, NewDomainRow
  <2>5. CopyOK([NewWork("approve", d) EXCEPT
                  !.role = r, !.dv = Verify(dv[d], r), !.round = renewals[d]])
    BY <2>2, <2>3, <2>4 DEF CopyOK, NewWork
  <2> QED BY <1>1, <2>1, <2>5, LoadInv
<1>5. CASE LoadReject(q)
  <2>1. PICK d \in Domain, r \in Role :
          Load(q, [NewWork("reject", d) EXCEPT
                     !.role = r, !.dv = SendBack(dv[d], r)])
    BY <1>5 DEF LoadReject
  <2>2. InOrder(SendBack(dv[d], r))
    BY <1>2, InOrderKept DEF RowsOK
  <2>3. \A s \in SendBack(dv[d], r).verifiedBy : s \in Approved(d)
    BY <1>2 DEF RowsOK, SendBack, VerificationRow
  <2>4. RowBacked(NoDomainRow, d, "reject")
    BY DEF RowBacked, NoDomainRow, NewDomainRow
  <2>5. CopyOK([NewWork("reject", d) EXCEPT !.role = r, !.dv = SendBack(dv[d], r)])
    BY <2>2, <2>3, <2>4 DEF CopyOK, NewWork
  <2> QED BY <1>1, <2>1, <2>5, LoadInv
<1>6. CASE LoadRenew(q)
  <2>1. PICK d \in Domain, m \in Drm :
          Load(q, [NewWork("renew", d) EXCEPT !.dom = Renewed(dom[d], m)])
    BY <1>6 DEF LoadRenew
  <2>2. RowBacked(Renewed(dom[d], m), d, "renew")
    BY <1>2 DEF RowsOK, RowBacked, Renewed, DomainRow
  <2>3. CopyOK([NewWork("renew", d) EXCEPT !.dom = Renewed(dom[d], m)])
    BY <1>2, <2>2, RowTypes, FreshCopyOK
  <2> QED BY <1>1, <2>1, <2>3, LoadInv
<1>7. CASE LoadPurchase(q)
  <2>1. PICK d \in Domain :
          /\ dv[d].isVerified
          /\ Load(q, [NewWork("purchase", d) EXCEPT !.phase = "checked"])
    BY <1>7 DEF LoadPurchase
  <2>2. Role \subseteq Approved(d)
    BY <1>2, <2>1 DEF RowsOK, InOrder, Role, HODHPC
  <2>3. CopyOK([NewWork("purchase", d) EXCEPT !.phase = "checked"])
    BY <2>2 DEF CopyOK, NewWork, RowBacked, NoDomainRow, NewDomainRow, InOrder,
                NewVerificationRow
  <2> QED BY <1>1, <2>1, <2>3, LoadInv
<1>8. CASE ReadPurchasedDomain(q)
  <2> DEFINE w == [req[q] EXCEPT !.phase = "loaded", !.dom = Purchased(dom[req[q].d])]
  <2>1. req[q] \in Work /\ req[q].op = "purchase" /\ CopyOK(req[q])
    BY <1>1, <1>8 DEF ReadPurchasedDomain, WorkflowInv, TypeOK, Idle
  <2>2. RowBacked(Purchased(dom[req[q].d]), req[q].d, "purchase")
    BY <1>2, <2>1 DEF RowsOK, RowBacked, Purchased, DomainRow, Work
  <2>3. /\ w.dv = req[q].dv /\ w.op = "purchase" /\ w.d = req[q].d
        /\ w.dom = Purchased(dom[req[q].d])
    BY <2>1 DEF Work
  <2>4. CopyOK(w)
    BY <2>1, <2>2, <2>3 DEF CopyOK
  <2>5. Load(q, w)
    BY <1>8 DEF ReadPurchasedDomain
  <2> HIDE DEF w
  <2> QED BY <1>1, <2>4, <2>5, LoadInv
<1>9. CASE LoadDelete(q)
  <2>1. PICK d \in Domain :
          Load(q, [NewWork("delete", d) EXCEPT
                     !.dom = Deleted(dom[d]), !.dirty = Deleted(dom[d]) # dom[d]])
    BY <1>9 DEF LoadDelete
  <2>2. RowBacked(Deleted(dom[d]), d, "delete") /\ (Deleted(dom[d]) # dom[d]) \in BOOLEAN
    BY <1>2 DEF RowsOK, RowBacked, Deleted, DomainRow
  <2>3. CopyOK([NewWork("delete", d) EXCEPT
                  !.dom = Deleted(dom[d]), !.dirty = Deleted(dom[d]) # dom[d]])
    BY <1>2, <2>2, DeletedType, FreshCopyOK
  <2> QED BY <1>1, <2>1, <2>3, LoadInv
<1>10. CASE LoadUpdate(q)
  <2>1. PICK d \in Domain, m \in Drm :
          Load(q, [NewWork("update", d) EXCEPT
                     !.dom = [dom[d] EXCEPT !.drm = m], !.dirty = dom[d].drm # m])
    BY <1>10 DEF LoadUpdate
  <2>2. RowBacked([dom[d] EXCEPT !.drm = m], d, "update") /\ (dom[d].drm # m) \in BOOLEAN
    BY <1>2 DEF RowsOK, RowBacked, DomainRow
  <2>3. CopyOK([NewWork("update", d) EXCEPT
                  !.dom = [dom[d] EXCEPT !.drm = m], !.dirty = dom[d].drm # m])
    BY <1>2, <2>2, RowTypes, FreshCopyOK
  <2> QED BY <1>1, <2>1, <2>3, LoadInv
<1> QED
  BY <1>3, <1>4, <1>5, <1>6, <1>7, <1>8, <1>9, <1>10 DEF LoadStep

LEMMA AnnounceInv ==
  ASSUME WorkflowInv, NEW q \in Request, Announce(q)
  PROVE  WorkflowInv'
<1>1. TypeOK /\ TypeOK'
  BY AnnounceType DEF WorkflowInv
<1>2. UNCHANGED <<dom, dv, renewals, purchases, approvals>>
  BY DEF Announce, tables
<1>3. ASSUME NEW d \in Domain PROVE RowsOK(d)'
  BY <1>2 DEF WorkflowInv, RowsOK, Approved, RowBacked
<1>4. ASSUME NEW p \in Request, (req[p].op # "none")' PROVE CopyOK(req[p])'
  <2>1. req[p] \in {Idle} \cup Work /\ req[q] \in Work
    BY <1>1 DEF TypeOK, Announce, TxOperation, Idle
  <2>2. /\ req'[p].op = req[p].op /\ req'[p].d = req[p].d
        /\ req'[p].dom = req[p].dom /\ req'[p].dv = req[p].dv
        /\ req'[p].role = req[p].role
    BY <1>1, <2>1 DEF Announce, TypeOK, Work
  <2>3. CopyOK(req[p])
    BY <1>4, <2>2 DEF WorkflowInv
  <2> QED BY <1>2, <2>2, <2>3 DEF CopyOK, RowBacked, Approved
<1> QED BY <1>1, <1>3, <1>4 DEF WorkflowInv

(* A request ends: the copies of the others stay good.                     *)
LEMMA EndInv ==
  ASSUME WorkflowInv, TypeOK', NEW q \in Request, req' = [req EXCEPT ![q] = Idle],
         Grown, \A d \in Domain : RowsOK(d)'
  PROVE  WorkflowInv'
<1>1. ASSUME NEW p \in Request, (req[p].op # "none")' PROVE CopyOK(req[p])'
  <2>1. req'[p] = req[p] /\ req[p] \in Work
    BY <1>1 DEF WorkflowInv, TypeOK, Idle
  <2>2. PICK w \in Work : w = req[p]
    BY <2>1
  <2>3. CopyOK(w)'
    BY <1>1, <2>1, <2>2, CopyStaysOK DEF WorkflowInv
  <2> QED BY <2>1, <2>2, <2>3 DEF CopyOK, RowBacked, InOrder, Approved
<1> QED BY <1>1 DEF WorkflowInv

LEMMA WriteStepInv ==
  ASSUME WorkflowInv, NEW q \in Request, WriteStep(q)
  PROVE  WorkflowInv'
<1> DEFINE w == req[q]
<1>1. TypeOK /\ TypeOK'
  BY WriteStepType DEF WorkflowInv
<1>2. w \in Work /\ CopyOK(w) /\ req' = [req EXCEPT ![q] = Idle]
  BY <1>1 DEF WriteStep, CommitApply, CommitApprove, CommitRenew, CommitPurchase,
              CommitDelete, SaveReject, SaveUpdate, Finish, WorkflowInv, TypeOK, Idle
<1>3. \A d \in Domain : RowsOK(d)
  BY DEF WorkflowInv
<1>4. InOrder(NewVerificationRow)
  BY DEF InOrder, NewVerificationRow
<1>5. CASE CommitApply(q)
  <2>1. Grown
    BY <1>5 DEF CommitApply, Grown, Approved
  <2>2. ASSUME NEW d \in Domain PROVE RowsOK(d)'
    BY <1>1, <1>2, <1>3, <1>4, <1>5
    DEF CommitApply, Finish, RowsOK, CopyOK, RowBacked, Approved, TypeOK,
        NewVerificationRow
  <2> QED BY <1>1, <1>2, <2>1, <2>2, EndInv
<1>6. CASE CommitApprove(q)
  <2>1. ASSUME NEW d \in Domain
        PROVE  Approved(d)' = Approved(d) \cup (IF d = w.d THEN {w.role} ELSE {})
    <3>1. approvals'[d] =
            approvals[d] \cup (IF d = w.d THEN {<<w.role, w.round>>} ELSE {})
      BY <1>1, <1>6 DEF CommitApprove, TypeOK
    <3>2. w.role \in Role /\ <<w.role, w.round>>[1] = w.role
      BY <1>2 DEF Work
    <3> QED BY <3>1, <3>2 DEF Approved
  <2>2. Grown
    BY <1>6, <2>1 DEF CommitApprove, Grown
  <2>3. ASSUME NEW d \in Domain PROVE RowsOK(d)'
    <3>1. dv'[d] = IF d = w.d THEN w.dv ELSE dv[d]
      BY <1>1, <1>6 DEF CommitApprove, TypeOK
    <3>2. UNCHANGED <<dom[d], purchases[d], renewals[d]>>
      BY <1>6 DEF CommitApprove
    <3> QED BY <1>2, <1>3, <2>1, <3>1, <3>2 DEF RowsOK, CopyOK, RowBacked
  <2> QED BY <1>1, <1>2, <2>2, <2>3, EndInv
<1>7. CASE CommitRenew(q)
  <2>1. Grown
    BY <1>1, <1>7 DEF CommitRenew, Grown, Approved, TypeOK
  <2>2. ASSUME NEW d \in Domain PROVE RowsOK(d)'
    BY <1>1, <1>2, <1>3, <1>4, <1>7
    DEF CommitRenew, Finish, RowsOK, CopyOK, RowBacked, Approved, TypeOK, Work,
        NewVerificationRow
  <2> QED BY <1>1, <1>2, <2>1, <2>2, EndInv
<1>8. CASE CommitPurchase(q)
  <2>1. Grown
    BY <1>1, <1>8 DEF CommitPurchase, Grown, Approved, TypeOK
  <2>2. ASSUME NEW d \in Domain PROVE RowsOK(d)'
    BY <1>1, <1>2, <1>3, <1>8
    DEF CommitPurchase, Finish, RowsOK, CopyOK, RowBacked, Approved, TypeOK, Work
  <2> QED BY <1>1, <1>2, <2>1, <2>2, EndInv
<1>9. CASE CommitDelete(q) \/ SaveUpdate(q)
  <2>1. Grown
    BY <1>9 DEF CommitDelete, SaveUpdate, Grown, Approved
  <2>2. ASSUME NEW d \in Domain PROVE RowsOK(d)'
    BY <1>1, <1>2, <1>3, <1>9
    DEF CommitDelete, SaveUpdate, WriteDomain, Finish, RowsOK, CopyOK, RowBacked,
        Approved, TypeOK
  <2> QED BY <1>1, <1>2, <2>1, <2>2, EndInv
<1>10. CASE SaveReject(q)
  <2>1. Grown
    BY <1>10 DEF SaveReject, Grown, Approved
  <2>2. ASSUME NEW d \in Domain PROVE RowsOK(d)'
    BY <1>1, <1>2, <1>3, <1>10
    DEF SaveReject, RowsOK, CopyOK, RowBacked, Approved, TypeOK
  <2> QED BY <1>1, <1>2, <2>1, <2>2, EndInv
<1> QED BY <1>5, <1>6, <1>7, <1>8, <1>9, <1>10 DEF WriteStep

LEMMA NextInv == WorkflowInv /\ [Next]_vars => WorkflowInv'
<1> SUFFICES ASSUME WorkflowInv, [Next]_vars PROVE WorkflowInv'
  OBVIOUS
<1>1. TypeOK'
  BY NextType DEF WorkflowInv
<1>2. CASE UNCHANGED vars
  BY <1>1, <1>2 DEF vars, WorkflowInv, RowsOK, CopyOK, RowBacked, Approved
<1>3. ASSUME NEW q \in Request, Abort(q) PROVE WorkflowInv'
  <2>1. /\ UNCHANGED <<dom, dv, renewals, purchases, approvals>>
        /\ req' = [req EXCEPT ![q] = Idle]
    BY <1>3 DEF Abort, tables
  <2>2. Grown /\ \A d \in Domain : RowsOK(d)'
    BY <2>1 DEF Grown, Approved, WorkflowInv, RowsOK, RowBacked
  <2> QED BY <1>1, <2>1, <2>2, EndInv
<1> QED
  BY <1>2, <1>3, LoadStepInv, AnnounceInv, WriteStepInv DEF Next

(* The inductive invariant holds in every reachable state.                 *)
THEOREM Invariance == Spec => []WorkflowInv
BY InitInv, NextInv, PTL DEF Spec

---------------------------------------------------------------------------
LEMMA InvImplies ==
  WorkflowInv => WholeChain /\ PurchaseWasApproved /\ ActiveWasBought /\ RenewalIsRecorded
<1> SUFFICES ASSUME WorkflowInv, NEW d \in Domain
             PROVE  /\ dv[d].isVerified => dv[d].verifiedBy = Role
                    /\ purchases[d] > 0 => \A r \in Role : \E a \in approvals[d] : a[1] = r
                    /\ dom[d].isActive => purchases[d] > 0 /\ dom[d].hasExpiry
                    /\ dom[d].isRenewal => renewals[d] > 0
  BY DEF WholeChain, PurchaseWasApproved, ActiveWasBought, RenewalIsRecorded
<1>1. RowsOK(d)
  BY DEF WorkflowInv
<1>2. dv[d].isVerified => dv[d].verifiedBy = Role
  BY <1>1 DEF WorkflowInv, TypeOK, VerificationRow, RowsOK, InOrder, Role, HODHPC
<1> QED BY <1>1, <1>2 DEF RowsOK, RowBacked, Approved

(* However requests interleave, a row marked verified carries the approval *)
(* of every authority of the chain.                                        *)
THEOREM VerifiedByWholeChain == Spec => []WholeChain
BY Invariance, InvImplies, PTL

(* However requests interleave, no domain is bought before every authority *)
(* of the chain has approved it.                                           *)
THEOREM PurchasesWereApproved == Spec => []PurchaseWasApproved
BY Invariance, InvImplies, PTL

(* However stale the copies written, an active domain was bought and has a *)
(* date on which it expires.                                               *)
THEOREM ActiveDomainsExpire == Spec => []ActiveWasBought
BY Invariance, InvImplies, PTL

(* However stale the copies written, a domain under renewal has a record   *)
(* of that renewal for the HOD's approval to find.                         *)
THEOREM RenewalsAreRecorded == Spec => []RenewalIsRecorded
BY Invariance, InvImplies, PTL

---------------------------------------------------------------------------
(* What holds while the rows are written in turn.  First what each kind of *)
(* step does, row by row.                                                  *)

LEMMA Holding ==
  ASSUME TypeOK, NEW p \in Request, req[p].op # "none"
  PROVE  /\ req[p] \in Work /\ req[p].d \in Domain /\ req[p].role \in Role
         /\ req[p].dom \in DomainRow /\ req[p].dv \in VerificationRow
         /\ dom[req[p].d] \in DomainRow /\ dv[req[p].d] \in VerificationRow
         /\ renewals[req[p].d] \in Nat /\ purchases[req[p].d] \in Nat
<1>1. req[p] \in Work
  BY DEF TypeOK, Idle
<1>2. req[p].d \in Domain /\ req[p].role \in Role
      /\ req[p].dom \in DomainRow /\ req[p].dv \in VerificationRow
  BY <1>1 DEF Work
<1> QED BY <1>1, <1>2 DEF TypeOK

OthersKeep(q) == \A p \in Request : p # q => req'[p] = req[p]

TablesKeep == UNCHANGED <<dom, dv, renewals, purchases, approvals>>

LEMMA LoadEffect ==
  ASSUME TypeOK, NEW q \in Request, NEW work, Load(q, work)
  PROVE  req'[q] = work /\ OthersKeep(q) /\ TablesKeep
  BY DEF Load, TypeOK, OthersKeep, TablesKeep, tables

(* What the copy w of a request that has just read says of the tables.     *)
ReadNow(q, w) ==
  /\ w.op = "apply" =>
       /\ ~Exists(w.d) /\ w.dom.drm # NoDrm /\ ~w.dom.isRenewal
       /\ \A p \in Request : req[p].op = "apply" => req[p].d # w.d
  /\ w.op # "none" /\ w.op # "apply" => Exists(w.d)
  /\ w.op = "approve" =>
       /\ w.round = renewals[w.d] /\ MayVerify(dv[w.d], w.role)
       /\ w.dv = Verify(dv[w.d], w.role)
  /\ w.op = "reject" => MayReject(dv[w.d], w.role) /\ w.dv = SendBack(dv[w.d], w.role)
  /\ w.op = "renew" =>
       /\ w.phase = "loaded" /\ ~dom[w.d].isRenewal
       /\ w.dom.isRenewal /\ w.dom.drm # NoDrm
  /\ w.op = "purchase" =>
       /\ dv[w.d].isVerified \/ (req[q].op = "purchase" /\ req[q].d = w.d)
       /\ w.phase # "checked" => ~w.dom.isRenewal /\ w.dom.drm # NoDrm
  /\ w.op \in {"delete", "update"} =>
       w.dom.isRenewal = dom[w.d].isRenewal /\ w.dom.drm # NoDrm

LEMMA LoadStepEffect ==
  ASSUME WorkflowInv, Present, NEW q \in Request, LoadStep(q)
  PROVE  /\ OthersKeep(q) /\ TablesKeep
         /\ \E w : req'[q] = w /\ w.op # "none" /\ ReadNow(q, w)
<1>0. TypeOK
  BY DEF WorkflowInv
<1>1. CASE LoadApply(q)
  <2>1. PICK d \in Domain, m \in Drm :
          /\ ~Exists(d) /\ \A p \in Request : req[p].op = "apply" => req[p].d # d
          /\ Load(q, [NewWork("apply", d) EXCEPT !.dom = NewDomainRow(m)])
    BY <1>1 DEF LoadApply
  <2>2. PICK w : w = [NewWork("apply", d) EXCEPT !.dom = NewDomainRow(m)]
    OBVIOUS
  <2>3. w.op = "apply" /\ w.d = d /\ w.dom = NewDomainRow(m)
    BY <2>2 DEF NewWork
  <2>4. ReadNow(q, w)
    BY <2>1, <2>3 DEF ReadNow, NewDomainRow
  <2> QED BY <1>0, <2>1, <2>2, <2>3, <2>4, LoadEffect
<1>2. CASE LoadApprove(q)
  <2>1. PICK d \in Domain, r \in Role :
          /\ Exists(d) /\ MayVerify(dv[d], r)
          /\ Load(q, [NewWork("approve", d) EXCEPT
                        !.role = r, !.dv = Verify(dv[d], r), !.round = renewals[d]])
    BY <1>2 DEF LoadApprove, Approvable
  <2>2. PICK w : w = [NewWork("approve", d) EXCEPT
                        !.role = r, !.dv = Verify(dv[d], r), !.round = renewals[d]]
    OBVIOUS
  <2>3. /\ w.op = "approve" /\ w.d = d /\ w.role = r
        /\ w.dv = Verify(dv[d], r) /\ w.round = renewals[d]
    BY <2>2 DEF NewWork
  <2>4. ReadNow(q, w)
    BY <2>1, <2>3 DEF ReadNow
  <2> QED BY <1>0, <2>1, <2>2, <2>3, <2>4, LoadEffect
<1>3. CASE LoadReject(q)
  <2>1. PICK d \in Domain, r \in Role :
          /\ Exists(d) /\ MayReject(dv[d], r)
          /\ Load(q, [NewWork("reject", d) EXCEPT !.role = r, !.dv = SendBack(dv[d], r)])
    BY <1>3 DEF LoadReject
  <2>2. PICK w : w = [NewWork("reject", d) EXCEPT !.role = r, !.dv = SendBack(dv[d], r)]
    OBVIOUS
  <2>3. w.op = "reject" /\ w.d = d /\ w.role = r /\ w.dv = SendBack(dv[d], r)
    BY <2>2 DEF NewWork
  <2>4. ReadNow(q, w)
    BY <2>1, <2>3 DEF ReadNow
  <2> QED BY <1>0, <2>1, <2>2, <2>3, <2>4, LoadEffect
<1>4. CASE LoadRenew(q)
  <2>1. PICK d \in Domain, m \in Drm :
          /\ Exists(d) /\ ~dom[d].isRenewal
          /\ Load(q, [NewWork("renew", d) EXCEPT !.dom = Renewed(dom[d], m)])
    BY <1>4 DEF LoadRenew
  <2>2. PICK w : w = [NewWork("renew", d) EXCEPT !.dom = Renewed(dom[d], m)]
    OBVIOUS
  <2>3. w.op = "renew" /\ w.d = d /\ w.phase = "loaded" /\ w.dom = Renewed(dom[d], m)
    BY <2>2 DEF NewWork
  <2>4. Renewed(dom[d], m).isRenewal /\ Renewed(dom[d], m).drm = m
    BY <1>0 DEF TypeOK, DomainRow, Renewed
  <2>5. ReadNow(q, w)
    BY <2>1, <2>3, <2>4 DEF ReadNow
  <2> QED BY <1>0, <2>1, <2>2, <2>3, <2>5, LoadEffect
<1>5. CASE LoadPurchase(q)
  <2>1. PICK d \in Domain :
          /\ Exists(d) /\ dv[d].isVerified
          /\ Load(q, [NewWork("purchase", d) EXCEPT !.phase = "checked"])
    BY <1>5 DEF LoadPurchase
  <2>2. PICK w : w = [NewWork("purchase", d) EXCEPT !.phase = "checked"]
    OBVIOUS
  <2>3. w.op = "purchase" /\ w.d = d /\ w.phase = "checked"
    BY <2>2 DEF NewWork
  <2>4. ReadNow(q, w)
    BY <2>1, <2>3 DEF ReadNow
  <2> QED BY <1>0, <2>1, <2>2, <2>3, <2>4, LoadEffect
<1>6. CASE ReadPurchasedDomain(q)
  <2>1. req[q].op = "purchase"
    BY <1>6 DEF ReadPurchasedDomain
  <2>2. PICK w : w = [req[q] EXCEPT !.phase = "loaded", !.dom = Purchased(dom[req[q].d])]
    OBVIOUS
  <2>3. Load(q, w)
    BY <1>6, <2>2 DEF ReadPurchasedDomain
  <2>4. w.op = "purchase" /\ w.d = req[q].d /\ w.dom = Purchased(dom[w.d])
    BY <1>0, <2>1, <2>2, Holding DEF Work
  <2>5. dom[w.d] \in DomainRow /\ Exists(w.d)
    BY <1>0, <2>1, <2>4, Holding DEF Present
  <2>6. ~Purchased(dom[w.d]).isRenewal /\ Purchased(dom[w.d]).drm = dom[w.d].drm
    BY <2>5 DEF Purchased, DomainRow
  <2>7. ReadNow(q, w)
    BY <2>1, <2>4, <2>5, <2>6 DEF ReadNow, Exists
  <2> QED BY <1>0, <2>3, <2>4, <2>7, LoadEffect
<1>7. CASE LoadDelete(q)
  <2>1. PICK d \in Domain :
          /\ Exists(d)
          /\ Load(q, [NewWork("delete", d) EXCEPT
                        !.dom = Deleted(dom[d]), !.dirty = Deleted(dom[d]) # dom[d]])
    BY <1>7 DEF LoadDelete
  <2>2. PICK w : w = [NewWork("delete", d) EXCEPT
                        !.dom = Deleted(dom[d]), !.dirty = Deleted(dom[d]) # dom[d]]
    OBVIOUS
  <2>3. w.op = "delete" /\ w.d = d /\ w.dom = Deleted(dom[d])
    BY <2>2 DEF NewWork
  <2>4. /\ Deleted(dom[d]).isRenewal = dom[d].isRenewal
        /\ Deleted(dom[d]).drm = dom[d].drm
    BY <1>0 DEF TypeOK, DomainRow, Deleted
  <2>5. ReadNow(q, w)
    BY <2>1, <2>3, <2>4 DEF ReadNow, Exists
  <2> QED BY <1>0, <2>1, <2>2, <2>3, <2>5, LoadEffect
<1>8. CASE LoadUpdate(q)
  <2>1. PICK d \in Domain, m \in Drm :
          /\ Exists(d)
          /\ Load(q, [NewWork("update", d) EXCEPT
                        !.dom = [dom[d] EXCEPT !.drm = m], !.dirty = dom[d].drm # m])
    BY <1>8 DEF LoadUpdate
  <2>2. PICK w : w = [NewWork("update", d) EXCEPT
                        !.dom = [dom[d] EXCEPT !.drm = m], !.dirty = dom[d].drm # m]
    OBVIOUS
  <2>3. w.op = "update" /\ w.d = d /\ w.dom = [dom[d] EXCEPT !.drm = m]
    BY <2>2 DEF NewWork
  <2>4. w.dom.isRenewal = dom[d].isRenewal /\ w.dom.drm = m
    BY <1>0, <2>3 DEF TypeOK, DomainRow
  <2>5. ReadNow(q, w)
    BY <2>1, <2>3, <2>4 DEF ReadNow
  <2> QED BY <1>0, <2>1, <2>2, <2>3, <2>5, LoadEffect
<1> QED
  BY <1>1, <1>2, <1>3, <1>4, <1>5, <1>6, <1>7, <1>8 DEF LoadStep

LEMMA AnnounceEffect ==
  ASSUME WorkflowInv, NEW q \in Request, Announce(q)
  PROVE  /\ OthersKeep(q) /\ TablesKeep
         /\ req[q].op \in TxOperation /\ req[q].phase = "loaded"
         /\ \E w : /\ req'[q] = w
                   /\ w.op = req[q].op /\ w.d = req[q].d /\ w.role = req[q].role
                   /\ w.dom = req[q].dom /\ w.dv = req[q].dv /\ w.round = req[q].round
                   /\ w.op = "renew" => w.dirty = (dv[w.d] # NewVerificationRow)
<1>1. TypeOK /\ req[q].op \in TxOperation /\ req[q].op # "none"
  BY DEF WorkflowInv, Announce, TxOperation
<1>2. req[q] \in Work
  BY <1>1, Holding
<1>3. PICK b : req' = [req EXCEPT ![q].phase = "announced", ![q].dirty = b]
               /\ (req[q].op = "renew" => b = (dv[req[q].d] # NewVerificationRow))
  BY DEF Announce
<1>4. req'[q] = [req[q] EXCEPT !.phase = "announced", !.dirty = b] /\ OthersKeep(q)
  BY <1>1, <1>3 DEF TypeOK, OthersKeep
<1> QED BY <1>1, <1>2, <1>3, <1>4 DEF Work, Announce, TablesKeep, tables

(* What the write of the copy w leaves of its domain's rows.               *)
LEMMA WriteStepEffect ==
  ASSUME WorkflowInv, NEW q \in Request, WriteStep(q)
  PROVE  LET w == req[q]
             d == req[q].d IN
         /\ OthersKeep(q) /\ req'[q] = Idle /\ w.op # "none"
         /\ \A e \in Domain : e # d =>
              /\ dom'[e] = dom[e] /\ dv'[e] = dv[e] /\ renewals'[e] = renewals[e]
              /\ purchases'[e] = purchases[e] /\ approvals'[e] = approvals[e]
         /\ dom'[d] = IF \/ w.op \in {"apply", "renew", "purchase"}
                         \/ w.op \in {"delete", "update"} /\ w.dirty
                      THEN w.dom ELSE dom[d]
         /\ dv'[d] = IF w.op = "apply" \/ (w.op = "renew" /\ w.dirty) THEN NewVerificationRow
                     ELSE IF w.op \in {"approve", "reject"} THEN w.dv ELSE dv[d]
         /\ renewals' = IF w.op = "renew" THEN [renewals EXCEPT ![d] = @ + 1] ELSE renewals
         /\ purchases' = IF w.op = "purchase" THEN [purchases EXCEPT ![d] = @ + 1]
                                             ELSE purchases
         /\ approvals'[d] = IF w.op = "approve" THEN approvals[d] \cup {<<w.role, w.round>>}
                                               ELSE approvals[d]
         /\ w.op \in TxOperation => w.phase = "announced"
<1>1. TypeOK
  BY DEF WorkflowInv
<1>2. /\ req[q].op # "none" /\ req' = [req EXCEPT ![q] = Idle]
      /\ req[q].op \in TxOperation => req[q].phase = "announced"
  BY DEF WriteStep, CommitApply, CommitApprove, CommitRenew, CommitPurchase,
         CommitDelete, SaveReject, SaveUpdate, Finish, TxOperation
<1>3. req[q].d \in Domain /\ OthersKeep(q) /\ req'[q] = Idle
  BY <1>1, <1>2, Holding DEF TypeOK, OthersKeep
<1> USE <1>1, <1>2, <1>3 DEF TypeOK
<1>4. CASE CommitApply(q)
  BY <1>4 DEF CommitApply, Finish
<1>5. CASE CommitApprove(q)
  BY <1>5 DEF CommitApprove, Finish
<1>6. CASE CommitRenew(q)
  BY <1>6 DEF CommitRenew, Finish
<1>7. CASE CommitPurchase(q)
  BY <1>7 DEF CommitPurchase, Finish
<1>8. CASE CommitDelete(q)
  BY <1>8 DEF CommitDelete, Finish, WriteDomain
<1>9. CASE SaveReject(q)
  BY <1>9 DEF SaveReject
<1>10. CASE SaveUpdate(q)
  BY <1>10 DEF SaveUpdate, WriteDomain
<1> QED BY <1>4, <1>5, <1>6, <1>7, <1>8, <1>9, <1>10 DEF WriteStep

LEMMA AbortEffect ==
  ASSUME WorkflowInv, NEW q \in Request, Abort(q)
  PROVE  OthersKeep(q) /\ TablesKeep /\ req'[q] = Idle
  BY DEF Abort, WorkflowInv, TypeOK, OthersKeep, TablesKeep, tables

---------------------------------------------------------------------------
(* An application is for a domain that is not there, all else for one that *)
(* is, however the requests overlap.                                       *)

LEMMA NoneIdle == Idle.op = "none"
  BY DEF Idle

LEMMA PresentNext ==
  ASSUME WorkflowInv, Present, Next
  PROVE  Present'
<1>1. TypeOK
  BY DEF WorkflowInv
<1>2. ASSUME NEW q \in Request, LoadStep(q)
      PROVE  Present'
  <2>1. PICK w : req'[q] = w /\ w.op # "none" /\ ReadNow(q, w)
    BY <1>2, LoadStepEffect
  <2>2. OthersKeep(q) /\ dom' = dom
    BY <1>2, LoadStepEffect DEF TablesKeep
  <2>3. w.op = "apply" =>
          /\ ~Exists(w.d) /\ w.dom.drm # NoDrm
          /\ \A p \in Request : req[p].op = "apply" => req[p].d # w.d
    BY <2>1 DEF ReadNow
  <2>4. w.op # "apply" => Exists(w.d)
    BY <2>1 DEF ReadNow
  <2>5. /\ w.op \in {"renew", "delete", "update"} => w.dom.drm # NoDrm
        /\ w.op = "purchase" /\ w.phase # "checked" => w.dom.drm # NoDrm
    BY <2>1 DEF ReadNow
  <2>6. ASSUME NEW p \in Request, req'[p].op # "none"
        PROVE  /\ (dom'[req'[p].d].drm # NoDrm) = (req'[p].op # "apply")
               /\ req'[p].op \in WritesDomain \cup {"apply"}
                    /\ ~(req'[p].op = "purchase" /\ req'[p].phase = "checked")
                    => req'[p].dom.drm # NoDrm
    BY <2>1, <2>2, <2>3, <2>4, <2>5, <2>6
    DEF Present, OthersKeep, Exists, WritesDomain, JustChecked
  <2>7. ASSUME NEW p \in Request, NEW r \in Request,
               req'[p].op = "apply", req'[r].op = "apply", req'[r].d = req'[p].d
        PROVE  r = p
    BY <2>1, <2>2, <2>3, <2>7 DEF Present, OthersKeep
  <2> QED BY <2>6, <2>7 DEF Present, Exists, JustChecked
<1>3. ASSUME NEW q \in Request, Announce(q)
      PROVE  Present'
  <2>1. PICK w : /\ req'[q] = w /\ w.op = req[q].op /\ w.d = req[q].d
                 /\ w.dom = req[q].dom
    BY <1>3, AnnounceEffect
  <2>2. /\ OthersKeep(q) /\ dom' = dom
        /\ req[q].op \in TxOperation /\ req[q].phase = "loaded"
    BY <1>3, AnnounceEffect DEF TablesKeep
  <2>3. ASSUME NEW p \in Request, req'[p].op # "none"
        PROVE  /\ (dom'[req'[p].d].drm # NoDrm) = (req'[p].op # "apply")
               /\ req'[p].op \in WritesDomain \cup {"apply"}
                    /\ ~(req'[p].op = "purchase" /\ req'[p].phase = "checked")
                    => req'[p].dom.drm # NoDrm
    BY <2>1, <2>2, <2>3 DEF Present, OthersKeep, Exists, JustChecked
  <2>4. ASSUME NEW p \in Request, NEW r \in Request,
               req'[p].op = "apply", req'[r].op = "apply", req'[r].d = req'[p].d
        PROVE  r = p
    BY <2>1, <2>2, <2>4 DEF Present, OthersKeep
  <2> QED BY <2>3, <2>4 DEF Present, Exists, JustChecked
<1>4. ASSUME NEW q \in Request, Abort(q)
      PROVE  Present'
  <2>1. OthersKeep(q) /\ dom' = dom /\ req'[q].op = "none"
    BY <1>4, AbortEffect, NoneIdle DEF TablesKeep
  <2> QED BY <2>1 DEF Present, OthersKeep, Exists, JustChecked
<1>5. ASSUME NEW q \in Request, WriteStep(q)
      PROVE  Present'
  <2>1. PICK w : w = req[q]
    OBVIOUS
  <2>2. /\ OthersKeep(q) /\ req'[q].op = "none" /\ w.op # "none"
        /\ \A e \in Domain : e # w.d => dom'[e] = dom[e]
        /\ dom'[w.d] = dom[w.d] \/ (/\ w.op \in WritesDomain \cup {"apply"}
                                    /\ w.op \in TxOperation => w.phase = "announced"
                                    /\ dom'[w.d] = w.dom)
    BY <1>5, <2>1, WriteStepEffect, NoneIdle DEF WritesDomain
  <2>3. w.op # "apply" => Exists(w.d)'
    BY <2>1, <2>2 DEF Present, Exists, JustChecked, TxOperation, WritesDomain
  <2>4. ASSUME NEW p \in Request, req'[p].op # "none"
        PROVE  /\ p # q /\ req'[p] = req[p] /\ req[p].d \in Domain
               /\ Exists(req[p].d)' = Exists(req[p].d)
    <3>1. p # q /\ req'[p] = req[p] /\ req[p].op # "none"
      BY <2>2, <2>4 DEF OthersKeep
    <3>2. req[p].d \in Domain
      BY <1>1, <3>1, Holding
    <3>3. CASE req[p].d # w.d
      BY <2>2, <3>1, <3>2, <3>3 DEF Exists
    <3>4. CASE req[p].d = w.d
      <4>1. w.op # "apply"
        BY <2>1, <2>2, <3>1, <3>4 DEF Present
      <4>2. Exists(w.d)
        BY <2>1, <2>2, <4>1 DEF Present
      <4> QED BY <2>3, <3>1, <3>2, <3>4, <4>1, <4>2 DEF Exists
    <3> QED BY <3>1, <3>2, <3>3, <3>4
  <2> QED BY <2>4 DEF Present, Exists, JustChecked
<1> QED BY <1>2, <1>3, <1>4, <1>5 DEF Next

LEMMA InitPresent == Init => Present
  BY NoneIdle DEF Init, Present

LEMMA PresentStep == WorkflowInv /\ Present /\ [Next]_vars => Present'
<1>1. ASSUME Present, UNCHANGED vars
      PROVE  Present'
  <2>1. req' = req /\ dom' = dom
    BY <1>1 DEF vars
  <2> QED BY <1>1, <2>1 DEF Present, Exists, JustChecked
<1> QED BY <1>1, PresentNext

---------------------------------------------------------------------------
(* Verification rows written in turn.                                      *)

Reviewed(w) ==
  /\ w.op = "approve" =>
       /\ w.round = renewals[w.d] /\ MayVerify(dv[w.d], w.role)
       /\ w.dv = Verify(dv[w.d], w.role)
  /\ w.op = "reject" =>
       MayReject(dv[w.d], w.role) /\ w.dv = SendBack(dv[w.d], w.role)
  /\ w.op = "renew" /\ w.phase = "announced" => w.dirty = (dv[w.d] # NewVerificationRow)

LEMMA ReviewedAll ==
  ReviewInv <=> /\ \A d \in Domain : dv[d].verifiedBy \X {renewals[d]} \subseteq approvals[d]
                /\ \A q \in Request : Reviewed(req[q])
  BY DEF ReviewInv, Reviewed

(* A step that leaves the tables alone, and the copies but one.            *)
LEMMA ReviewKept ==
  ASSUME ReviewInv, NEW q \in Request, OthersKeep(q), TablesKeep,
         NEW w, req'[q] = w, Reviewed(w)
  PROVE  ReviewInv'
<1>1. ASSUME NEW p \in Request
      PROVE  Reviewed(req[p])'
  <2>1. PICK x : x = req'[p]
    OBVIOUS
  <2>2. Reviewed(x)
    BY <2>1, ReviewedAll DEF OthersKeep
  <2> QED BY <2>1, <2>2 DEF Reviewed, TablesKeep
<1>2. \A d \in Domain : (dv[d].verifiedBy \X {renewals[d]} \subseteq approvals[d])'
  BY DEF ReviewInv, TablesKeep
<1> QED BY <1>1, <1>2 DEF ReviewInv, Reviewed

LEMMA ReviewWrite ==
  ASSUME WorkflowInv, Present, ReviewInv, VerificationInTurn, NEW q \in Request, WriteStep(q)
  PROVE  ReviewInv'
<1>0. PICK w, d : w = req[q] /\ d = req[q].d
  OBVIOUS
<1>1. TypeOK /\ w.op # "none" /\ d \in Domain /\ w.d = d
  BY <1>0, WriteStepEffect, Holding DEF WorkflowInv
<1>2. /\ w \in Work /\ w.role \in Role /\ dv[d] \in VerificationRow
      /\ renewals[d] \in Nat
  BY <1>0, <1>1, Holding
<1>3. /\ OthersKeep(q) /\ req'[q].op = "none"
      /\ \A e \in Domain : e # d => /\ dv'[e] = dv[e] /\ renewals'[e] = renewals[e]
                                    /\ approvals'[e] = approvals[e]
      /\ dv'[d] = IF w.op = "apply" \/ (w.op = "renew" /\ w.dirty) THEN NewVerificationRow
                  ELSE IF w.op \in {"approve", "reject"} THEN w.dv ELSE dv[d]
      /\ approvals'[d] = IF w.op = "approve" THEN approvals[d] \cup {<<w.role, w.round>>}
                                            ELSE approvals[d]
      /\ w.op # "renew" => renewals' = renewals
      /\ w.op \in TxOperation => w.phase = "announced"
  BY <1>0, WriteStepEffect, NoneIdle
<1>4. Reviewed(w)
  BY <1>0, ReviewedAll
<1>5. ASSUME NEW p \in Request
      PROVE  Reviewed(req[p])'
  <2>1. CASE p = q
    BY <1>3, <2>1 DEF Reviewed
  <2>2. CASE p # q
    <3>1. PICK x : x = req[p] /\ req'[p] = x
      BY <1>3, <2>2 DEF OthersKeep
    <3>2. Reviewed(x)
      BY <3>1, ReviewedAll
    <3>3. CASE x.op \notin WritesVerification
      BY <3>1, <3>3 DEF Reviewed, WritesVerification
    <3>4. CASE x.op \in WritesVerification /\ x.d # d
      <4>1. x.d \in Domain
        BY <1>1, <3>1, <3>4, Holding DEF WritesVerification
      <4> QED BY <1>3, <3>1, <3>2, <3>4, <4>1 DEF Reviewed
    <3>5. CASE x.op \in WritesVerification /\ x.d = d
      <4>1. w.op \notin WritesVerification
        BY <1>0, <2>2, <3>1, <3>5 DEF VerificationInTurn, InTurn
      <4>2. w.op # "apply"
        BY <1>0, <1>1, <3>1, <3>5 DEF Present, WritesVerification
      <4>3. dv'[d] = dv[d] /\ renewals'[d] = renewals[d]
        BY <1>3, <4>1, <4>2 DEF WritesVerification
      <4> QED BY <3>1, <3>2, <3>5, <4>3 DEF Reviewed
    <3> QED BY <3>3, <3>4, <3>5
  <2> QED BY <2>1, <2>2
<1>6. ASSUME NEW e \in Domain
      PROVE  (dv[e].verifiedBy \X {renewals[e]} \subseteq approvals[e])'
  <2>0. dv[e].verifiedBy \X {renewals[e]} \subseteq approvals[e]
    BY DEF ReviewInv
  <2>1. CASE e # d
    BY <1>3, <2>0, <2>1
  <2>2. CASE e = d /\ w.op = "approve"
    <3>1. /\ dv'[e].verifiedBy = dv[e].verifiedBy \cup {w.role}
          /\ renewals'[e] = renewals[e]
          /\ approvals'[e] = approvals[e] \cup {<<w.role, renewals[e]>>}
      BY <1>1, <1>2, <1>3, <1>4, <2>2 DEF Reviewed, Verify, VerificationRow
    <3> QED BY <2>0, <3>1
  <2>3. CASE e = d /\ w.op = "reject"
    <3>1. dv'[e].verifiedBy = dv[e].verifiedBy
      BY <1>1, <1>2, <1>3, <1>4, <2>3 DEF Reviewed, SendBack, VerificationRow
    <3> QED BY <1>3, <2>0, <2>3, <3>1
  <2>4. CASE e = d /\ w.op \in {"apply", "renew"}
    <3>1. w.op = "renew" => w.phase = "announced"
      BY <1>3 DEF TxOperation
    <3>2. dv'[e] = NewVerificationRow
      BY <1>1, <1>3, <1>4, <2>4, <3>1 DEF Reviewed
    <3> QED BY <3>2 DEF NewVerificationRow
  <2>5. CASE e = d /\ w.op \notin {"approve", "reject", "apply", "renew"}
    BY <1>3, <2>0, <2>5
  <2> QED BY <2>1, <2>2, <2>3, <2>4, <2>5
<1> QED BY <1>5, <1>6 DEF ReviewInv, Reviewed

LEMMA ReviewStep ==
  ASSUME WorkflowInv, Present, ReviewInv, VerificationInTurn, [Next]_vars
  PROVE  ReviewInv'
<1>1. CASE UNCHANGED vars
  <2>1. req' = req /\ dv' = dv /\ renewals' = renewals /\ approvals' = approvals
    BY <1>1 DEF vars
  <2> QED BY <2>1 DEF ReviewInv
<1>2. ASSUME NEW q \in Request, LoadStep(q)
      PROVE  ReviewInv'
  <2>1. PICK w : req'[q] = w /\ ReadNow(q, w)
    BY <1>2, LoadStepEffect
  <2>2. Reviewed(w)
    BY <2>1 DEF ReadNow, Reviewed
  <2> QED BY <1>2, <2>1, <2>2, LoadStepEffect, ReviewKept
<1>3. ASSUME NEW q \in Request, Announce(q)
      PROVE  ReviewInv'
  <2>1. PICK w : /\ req'[q] = w
                 /\ w.op = req[q].op /\ w.d = req[q].d /\ w.role = req[q].role
                 /\ w.dv = req[q].dv /\ w.round = req[q].round
                 /\ w.op = "renew" => w.dirty = (dv[w.d] # NewVerificationRow)
    BY <1>3, AnnounceEffect
  <2>2. Reviewed(req[q])
    BY ReviewedAll
  <2>3. Reviewed(w)
    BY <2>1, <2>2 DEF Reviewed
  <2> QED BY <1>3, <2>1, <2>3, AnnounceEffect, ReviewKept
<1>4. ASSUME NEW q \in Request, Abort(q)
      PROVE  ReviewInv'
  <2>1. Reviewed(Idle)
    BY NoneIdle DEF Reviewed
  <2> QED BY <1>4, <2>1, AbortEffect, ReviewKept
<1> QED BY <1>1, <1>2, <1>3, <1>4, ReviewWrite DEF Next

LEMMA InitReview == Init => ReviewInv
  BY NoneIdle DEF Init, ReviewInv, NewVerificationRow

(* As long as approvals, rejections and renewals of one domain do not      *)
(* overlap, a row marked verified was approved by every authority since    *)
(* the last renewal was applied for, whatever purchases, updates and       *)
(* deletions go on meanwhile and whatever fails.                           *)
THEOREM InTurnVerifiedForThisApplication ==
  Spec /\ []VerificationInTurn => []VerifiedForThisApplication
<1>1. WorkflowInv /\ ReviewInv => VerifiedForThisApplication
  BY InvImplies DEF ReviewInv, WholeChain, VerifiedForThisApplication
<1> QED BY <1>1, Invariance, InitPresent, PresentStep, InitReview, ReviewStep, PTL DEF Spec

(* And no authority's rejection is written into a row that holds its       *)
(* approval.                                                               *)
THEOREM InTurnDecisionIsFinal ==
  Spec /\ []VerificationInTurn => DecisionIsFinal
<1>1. ASSUME WorkflowInv, Present, ReviewInv, [Next]_vars
      PROVE  [\A d \in Domain : NewlySentBack(d) \cap dv[d].verifiedBy = {}]_vars
  <2> SUFFICES ASSUME Next, NEW d \in Domain
               PROVE  NewlySentBack(d) \cap dv[d].verifiedBy = {}
    BY <1>1
  <2>1. CASE dv'[d] = dv[d]
    BY <2>1 DEF NewlySentBack
  <2>2. CASE dv'[d] # dv[d]
    <3>1. PICK q \in Request : WriteStep(q)
      BY <1>1, <2>2, LoadStepEffect, AnnounceEffect, AbortEffect DEF Next, TablesKeep
    <3>2. PICK w : w = req[q]
      OBVIOUS
    <3>3. /\ w.op # "none" /\ w.d = d
          /\ dv'[d] = IF w.op = "apply" \/ (w.op = "renew" /\ w.dirty) THEN NewVerificationRow
                      ELSE IF w.op \in {"approve", "reject"} THEN w.dv ELSE dv[d]
      BY <1>1, <2>2, <3>1, <3>2, WriteStepEffect
    <3>4. Reviewed(w) /\ dv[d] \in VerificationRow
      BY <1>1, <3>2, ReviewedAll DEF WorkflowInv, TypeOK
    <3>5. CASE dv'[d] = NewVerificationRow
      BY <3>5 DEF NewlySentBack, NewVerificationRow
    <3>6. CASE w.op = "approve"
      BY <3>3, <3>4, <3>6 DEF Reviewed, Verify, VerificationRow, NewlySentBack
    <3>7. CASE w.op = "reject"
      BY <3>3, <3>4, <3>7 DEF Reviewed, SendBack, MayReject, VerificationRow, NewlySentBack
    <3> QED BY <2>2, <3>3, <3>5, <3>6, <3>7
  <2> QED BY <2>1, <2>2
<1> QED
  BY <1>1, Invariance, InitPresent, PresentStep, InitReview, ReviewStep, PTL
  DEF Spec, DecisionIsFinal

---------------------------------------------------------------------------
(* Domain rows written in turn.                                            *)

ShowsRenewal(w) ==
  /\ w.op = "apply" => ~w.dom.isRenewal
  /\ w.op = "renew" => w.dom.isRenewal /\ ~dom[w.d].isRenewal
  /\ w.op = "purchase" /\ w.phase # "checked" => ~w.dom.isRenewal
  /\ w.op \in {"delete", "update"} => w.dom.isRenewal = dom[w.d].isRenewal

LEMMA ShowsRenewalAll == RenewalInv <=> \A q \in Request : ShowsRenewal(req[q])
  BY DEF RenewalInv, ShowsRenewal, JustChecked

LEMMA RenewalKept ==
  ASSUME RenewalInv, NEW q \in Request, OthersKeep(q), TablesKeep,
         NEW w, req'[q] = w, ShowsRenewal(w)
  PROVE  RenewalInv'
<1>1. ASSUME NEW p \in Request
      PROVE  ShowsRenewal(req[p])'
  <2>1. PICK x : x = req'[p]
    OBVIOUS
  <2>2. ShowsRenewal(x)
    BY <2>1, ShowsRenewalAll DEF OthersKeep
  <2> QED BY <2>1, <2>2 DEF ShowsRenewal, TablesKeep
<1> QED BY <1>1 DEF RenewalInv, ShowsRenewal, JustChecked

LEMMA RenewalWrite ==
  ASSUME WorkflowInv, Present, RenewalInv, DomainInTurn, NEW q \in Request, WriteStep(q)
  PROVE  RenewalInv'
<1>0. PICK w, d : w = req[q] /\ d = req[q].d
  OBVIOUS
<1>1. TypeOK /\ w.op # "none" /\ d \in Domain /\ w.d = d
  BY <1>0, WriteStepEffect, Holding DEF WorkflowInv
<1>2. /\ OthersKeep(q) /\ req'[q].op = "none"
      /\ \A e \in Domain : e # d => dom'[e] = dom[e]
      /\ w.op \notin WritesDomain \cup {"apply"} => dom'[d] = dom[d]
  BY <1>0, WriteStepEffect, NoneIdle DEF WritesDomain
<1>3. ASSUME NEW p \in Request
      PROVE  ShowsRenewal(req[p])'
  <2>1. CASE p = q
    BY <1>2, <2>1 DEF ShowsRenewal
  <2>2. CASE p # q
    <3>1. PICK x : x = req[p] /\ req'[p] = x
      BY <1>2, <2>2 DEF OthersKeep
    <3>2. ShowsRenewal(x)
      BY <3>1, ShowsRenewalAll
    <3>3. CASE x.op \notin WritesDomain
      BY <3>1, <3>2, <3>3 DEF ShowsRenewal, WritesDomain
    <3>4. CASE x.op \in WritesDomain /\ x.d # d
      <4>1. x.d \in Domain
        BY <1>1, <3>1, <3>4, Holding DEF WritesDomain
      <4> QED BY <1>2, <3>1, <3>2, <3>4, <4>1 DEF ShowsRenewal
    <3>5. CASE x.op \in WritesDomain /\ x.d = d
      <4>1. w.op \notin WritesDomain
        BY <1>0, <2>2, <3>1, <3>5 DEF DomainInTurn, InTurn
      <4>2. w.op # "apply"
        BY <1>0, <1>1, <3>1, <3>5 DEF Present, WritesDomain
      <4> QED BY <1>2, <3>1, <3>2, <3>5, <4>1, <4>2 DEF ShowsRenewal
    <3> QED BY <3>3, <3>4, <3>5
  <2> QED BY <2>1, <2>2
<1> QED BY <1>3 DEF RenewalInv, ShowsRenewal, JustChecked

LEMMA RenewalStep ==
  ASSUME WorkflowInv, Present, RenewalInv, DomainInTurn, [Next]_vars
  PROVE  RenewalInv'
<1>1. CASE UNCHANGED vars
  <2>1. req' = req /\ dom' = dom
    BY <1>1 DEF vars
  <2> QED BY <2>1 DEF RenewalInv, JustChecked
<1>2. ASSUME NEW q \in Request, LoadStep(q)
      PROVE  RenewalInv'
  <2>1. PICK w : req'[q] = w /\ ReadNow(q, w)
    BY <1>2, LoadStepEffect
  <2>2. ShowsRenewal(w)
    BY <2>1 DEF ReadNow, ShowsRenewal
  <2> QED BY <1>2, <2>1, <2>2, LoadStepEffect, RenewalKept
<1>3. ASSUME NEW q \in Request, Announce(q)
      PROVE  RenewalInv'
  <2>1. PICK w : /\ req'[q] = w
                 /\ w.op = req[q].op /\ w.d = req[q].d /\ w.dom = req[q].dom
    BY <1>3, AnnounceEffect
  <2>2. ShowsRenewal(req[q]) /\ req[q].phase = "loaded"
    BY <1>3, ShowsRenewalAll, AnnounceEffect
  <2>3. ShowsRenewal(w)
    BY <2>1, <2>2 DEF ShowsRenewal
  <2> QED BY <1>3, <2>1, <2>3, AnnounceEffect, RenewalKept
<1>4. ASSUME NEW q \in Request, Abort(q)
      PROVE  RenewalInv'
  <2>1. ShowsRenewal(Idle)
    BY NoneIdle DEF ShowsRenewal
  <2> QED BY <1>4, <2>1, AbortEffect, RenewalKept
<1> QED BY <1>1, <1>2, <1>3, <1>4, RenewalWrite DEF Next

LEMMA InitRenewal == Init => RenewalInv
  BY NoneIdle DEF Init, RenewalInv

(* A renewal record is added in one step only, by a request that found the *)
(* domain not under renewal.                                               *)
LEMMA RenewalAdded ==
  ASSUME WorkflowInv, Present, Next, NEW d \in Domain, renewals'[d] > renewals[d]
  PROVE  \E q \in Request : req[q].op = "renew" /\ req[q].d = d
<1>1. TypeOK /\ renewals[d] \in Nat
  BY DEF WorkflowInv, TypeOK
<1>2. PICK q \in Request : WriteStep(q)
  <2>1. ~TablesKeep
    BY <1>1 DEF TablesKeep
  <2> QED BY <2>1, LoadStepEffect, AnnounceEffect, AbortEffect DEF Next
<1>3. renewals' = IF req[q].op = "renew" THEN [renewals EXCEPT ![req[q].d] = @ + 1]
                  ELSE renewals
  BY <1>2, WriteStepEffect
<1> QED BY <1>1, <1>3 DEF TypeOK

(* As long as renewals, purchases, updates and deletions of one domain do  *)
(* not overlap, a domain that is under renewal gets no second renewal      *)
(* record: applyForRenewal's check holds until its transaction commits.    *)
THEOREM InTurnOneRenewalAtATime ==
  Spec /\ []DomainInTurn => OneRenewalAtATime
<1>1. ASSUME WorkflowInv, Present, RenewalInv, [Next]_vars
      PROVE  [\A d \in Domain : renewals'[d] > renewals[d] => ~dom[d].isRenewal]_vars
  <2> SUFFICES ASSUME Next, NEW d \in Domain, renewals'[d] > renewals[d]
               PROVE  ~dom[d].isRenewal
    BY <1>1
  <2> QED BY <1>1, RenewalAdded DEF RenewalInv
<1> QED
  BY <1>1, Invariance, InitPresent, PresentStep, InitRenewal, RenewalStep, PTL
  DEF Spec, OneRenewalAtATime

---------------------------------------------------------------------------
(* Both written in turn: the approval chain is implemented.                *)

LEMMA StageIs ==
  ASSUME NEW k \in 0 .. NRoles
  PROVE  Cardinality(1 .. k) = k
  BY FS_Interval

LEMMA NewRowStage ==
  /\ NewVerificationRow.verifiedBy = {} /\ NewVerificationRow.sentBackBy = {}
  /\ Cardinality({}) = 0 /\ {} = 1 .. 0
  BY FS_EmptySet DEF NewVerificationRow

(* Approvals climb the chain.                                              *)
LEMMA Climb ==
  ASSUME NEW v \in VerificationRow, NEW r \in Role, MayVerify(v, r),
         NEW k \in 0 .. NRoles, v.verifiedBy = 1 .. k
  PROVE  \/ r = ARM /\ Verify(v, r).verifiedBy = v.verifiedBy
         \/ k < NRoles /\ Verify(v, r).verifiedBy = 1 .. k + 1
<1>1. Verify(v, r).verifiedBy = v.verifiedBy \cup {r}
  BY DEF Verify, VerificationRow
<1>2. CASE r \in 1 .. k
  <2>1. r = ARM
    BY <1>2 DEF MayVerify
  <2> QED BY <1>1, <1>2, <2>1
<1>3. CASE r \notin 1 .. k
  <2>1. r = k + 1
    BY <1>3 DEF MayVerify, Role, ARM
  <2>2. k < NRoles /\ 1 .. k + 1 = (1 .. k) \cup {k + 1}
    BY <2>1 DEF Role
  <2> QED BY <1>1, <2>1, <2>2
<1> QED BY <1>2, <1>3

LEMMA ChainKept ==
  ASSUME WorkflowInv, ChainInv, NEW q \in Request, OthersKeep(q), TablesKeep,
         req'[q].op = "purchase" => dv[req'[q].d].isVerified
  PROVE  ChainInv'
  BY DEF ChainInv, OthersKeep, TablesKeep, Exists

(* The chain's variables, and what a write of d's rows makes of them.      *)
Stage == [d \in Domain |-> Cardinality(dv[d].verifiedBy)]
ReturnedBy == [d \in Domain |-> dv[d].sentBackBy]
Renewing == [d \in Domain |-> dom[d].isRenewal]

LEMMA OneDomain ==
  ASSUME NEW d \in Domain,
         \A e \in Domain : e # d => dv'[e] = dv[e] /\ dom'[e] = dom[e]
  PROVE  /\ Stage[d] = Cardinality(dv[d].verifiedBy)
         /\ ReturnedBy[d] = dv[d].sentBackBy /\ Renewing[d] = dom[d].isRenewal
         /\ Stage' = [Stage EXCEPT ![d] = Cardinality(dv'[d].verifiedBy)]
         /\ ReturnedBy' = [ReturnedBy EXCEPT ![d] = dv'[d].sentBackBy]
         /\ Renewing' = [Renewing EXCEPT ![d] = dom'[d].isRenewal]
         /\ dv'[d].verifiedBy = dv[d].verifiedBy => Stage' = Stage
         /\ dv'[d].sentBackBy = dv[d].sentBackBy => ReturnedBy' = ReturnedBy
         /\ dom'[d].isRenewal = dom[d].isRenewal => Renewing' = Renewing
  BY DEF Stage, ReturnedBy, Renewing

LEMMA ChainWrite ==
  ASSUME WorkflowInv, Present, ReviewInv, RenewalInv, ChainInv,
         VerificationInTurn, DomainInTurn, NEW q \in Request, WriteStep(q)
  PROVE  ChainInv' /\ [Chain!Next]_(Chain!vars)
<1>0. PICK w, d : w = req[q] /\ d = req[q].d
  OBVIOUS
<1>1. /\ TypeOK /\ w.op # "none" /\ d \in Domain /\ w.d = d
      /\ w \in Work /\ w.role \in Role /\ w.dv \in VerificationRow /\ w.dom \in DomainRow
      /\ dv[d] \in VerificationRow /\ dom[d] \in DomainRow
  BY <1>0, WriteStepEffect, Holding DEF WorkflowInv
<1>2. /\ OthersKeep(q) /\ req'[q].op = "none"
      /\ \A e \in Domain : e # d => dv'[e] = dv[e] /\ dom'[e] = dom[e]
      /\ dv'[d] = IF w.op = "apply" \/ (w.op = "renew" /\ w.dirty) THEN NewVerificationRow
                  ELSE IF w.op \in {"approve", "reject"} THEN w.dv ELSE dv[d]
      /\ dom'[d] = IF \/ w.op \in {"apply", "renew", "purchase"}
                      \/ w.op \in {"delete", "update"} /\ w.dirty
                   THEN w.dom ELSE dom[d]
      /\ renewals' = IF w.op = "renew" THEN [renewals EXCEPT ![d] = @ + 1] ELSE renewals
      /\ purchases' = IF w.op = "purchase" THEN [purchases EXCEPT ![d] = @ + 1]
                                          ELSE purchases
      /\ w.op \in TxOperation => w.phase = "announced"
  BY <1>0, WriteStepEffect, NoneIdle
<1>3. Reviewed(w) /\ ShowsRenewal(w)
  BY <1>0, ReviewedAll, ShowsRenewalAll
<1>4. PICK k \in 0 .. NRoles : dv[d].verifiedBy = 1 .. k
  BY <1>1 DEF ChainInv
<1>5. /\ Exists(d) = (w.op # "apply")
      /\ w.op \in WritesDomain \cup {"apply"} /\ ~(w.op = "purchase" /\ w.phase = "checked")
           => w.dom.drm # NoDrm
  BY <1>0, <1>1 DEF Present, JustChecked
<1>6. Exists(d)'
  BY <1>2, <1>5 DEF Exists, TxOperation, WritesDomain
<1>7. ASSUME \E n \in 0 .. NRoles : dv'[d].verifiedBy = 1 .. n,
             dv[d].isVerified => dv'[d].isVerified \/ w.op \in {"apply", "renew"}
      PROVE  ChainInv'
  <2>1. ASSUME NEW e \in Domain
        PROVE  /\ \E n \in 0 .. NRoles : dv'[e].verifiedBy = 1 .. n
               /\ ~Exists(e)' => dv'[e] = NewVerificationRow /\ ~dom'[e].isRenewal
    BY <1>2, <1>6, <1>7 DEF ChainInv, Exists
  <2>2. ASSUME NEW p \in Request, req'[p].op = "purchase"
        PROVE  dv'[req'[p].d].isVerified
    <3>1. /\ p # q /\ req'[p] = req[p] /\ req[p].op = "purchase"
          /\ req[p].d \in Domain /\ dv[req[p].d].isVerified
      BY <1>1, <1>2, <2>2, Holding DEF OthersKeep, ChainInv
    <3>2. CASE req[p].d # d
      BY <1>2, <3>1, <3>2
    <3>3. CASE req[p].d = d
      <4>1. w.op # "apply"
        BY <1>5, <3>1, <3>3 DEF Present
      <4>2. w.op # "renew"
        BY <1>0, <3>1, <3>3 DEF DomainInTurn, InTurn, WritesDomain
      <4> QED BY <1>7, <3>1, <3>3, <4>1, <4>2
    <3> QED BY <3>2, <3>3
  <2> QED BY <2>1, <2>2 DEF ChainInv, Exists
<1>8. UNCHANGED <<Stage, ReturnedBy, renewals, Renewing, purchases>> => UNCHANGED Chain!vars
  BY DEF Chain!vars, Stage, ReturnedBy, Renewing
<1>9. CASE w.op = "apply"
  <2>1. /\ dv'[d] = NewVerificationRow /\ dv[d] = NewVerificationRow
        /\ ~dom[d].isRenewal /\ ~dom'[d].isRenewal /\ dom'[d] \in DomainRow
        /\ renewals' = renewals /\ purchases' = purchases
    BY <1>1, <1>2, <1>3, <1>5, <1>9 DEF ChainInv, ShowsRenewal
  <2>2. dom'[d].isRenewal = dom[d].isRenewal
    BY <1>1, <2>1 DEF DomainRow
  <2> QED BY <1>1, <1>2, <1>4, <1>7, <1>8, <2>1, <2>2, OneDomain
<1>10. CASE w.op \in {"delete", "update"}
  <2>1. /\ dv'[d] = dv[d] /\ dom'[d].isRenewal = dom[d].isRenewal
        /\ renewals' = renewals /\ purchases' = purchases
    BY <1>1, <1>2, <1>3, <1>10 DEF ShowsRenewal
  <2> QED BY <1>1, <1>2, <1>4, <1>7, <1>8, <2>1, OneDomain
<1>11. CASE w.op = "approve"
  <2>1. /\ dv'[d] = Verify(dv[d], w.role) /\ MayVerify(dv[d], w.role)
        /\ dom'[d] = dom[d] /\ renewals' = renewals /\ purchases' = purchases
    BY <1>1, <1>2, <1>3, <1>11 DEF Reviewed
  <2>2. /\ dv'[d].sentBackBy = dv[d].sentBackBy
        /\ dv[d].isVerified => dv'[d].isVerified
    BY <1>1, <2>1 DEF Verify, VerificationRow
  <2>3. CASE dv'[d].verifiedBy = dv[d].verifiedBy
    BY <1>1, <1>2, <1>4, <1>7, <1>8, <2>1, <2>2, <2>3, OneDomain
  <2>4. CASE k < NRoles /\ dv'[d].verifiedBy = 1 .. k + 1
    <3>1. k + 1 \in 0 .. NRoles
      BY <2>4
    <3>2. ChainInv'
      BY <1>7, <2>2, <2>4, <3>1
    <3>3. Stage[d] = k /\ Stage' = [Stage EXCEPT ![d] = Stage[d] + 1]
      BY <1>1, <1>2, <1>4, <2>4, <3>1, OneDomain, StageIs
    <3>4. ReturnedBy' = ReturnedBy /\ Renewing' = Renewing
      BY <1>1, <1>2, <2>1, <2>2, OneDomain
    <3>5. Chain!Approve(d)
      BY <2>1, <2>4, <3>3, <3>4 DEF Chain!Approve, Stage, ReturnedBy, Renewing
    <3> QED BY <1>1, <3>2, <3>5 DEF Chain!Next
  <2> QED BY <1>1, <1>4, <2>1, <2>3, <2>4, Climb
<1>12. CASE w.op = "reject"
  <2>1. /\ dv'[d] = SendBack(dv[d], w.role) /\ MayReject(dv[d], w.role)
        /\ dom'[d] = dom[d] /\ renewals' = renewals /\ purchases' = purchases
    BY <1>1, <1>2, <1>3, <1>12 DEF Reviewed
  <2>2. /\ dv'[d].sentBackBy = dv[d].sentBackBy \cup {w.role}
        /\ dv'[d].verifiedBy = dv[d].verifiedBy
        /\ dv[d].isVerified => dv'[d].isVerified
    BY <1>1, <2>1 DEF SendBack, VerificationRow
  <2>3. ChainInv'
    BY <1>4, <1>7, <2>2
  <2>4. w.role \in 1 .. NRoles /\ w.role > k /\ w.role > 1
    BY <1>1, <1>4, <2>1 DEF MayReject, Role, ARM
  <2>5. /\ Stage[d] = k /\ Stage' = Stage /\ Renewing' = Renewing
        /\ ReturnedBy' = [ReturnedBy EXCEPT ![d] = ReturnedBy[d] \cup {w.role}]
    BY <1>1, <1>2, <1>4, <2>1, <2>2, OneDomain, StageIs
  <2>6. Chain!Return(d, w.role)
    BY <2>1, <2>4, <2>5 DEF Chain!Return, Stage, ReturnedBy, Renewing
  <2> QED BY <1>1, <2>3, <2>4, <2>6 DEF Chain!Next
<1>13. CASE w.op = "renew"
  <2>1. /\ dv'[d] = NewVerificationRow /\ dom'[d] = w.dom
        /\ w.dom.isRenewal /\ ~dom[d].isRenewal
        /\ renewals' = [renewals EXCEPT ![d] = @ + 1] /\ purchases' = purchases
    BY <1>1, <1>2, <1>3, <1>13 DEF Reviewed, ShowsRenewal, TxOperation
  <2>2. ChainInv'
    <3>1. \E n \in 0 .. NRoles : dv'[d].verifiedBy = 1 .. n
      BY <2>1, NewRowStage
    <3> QED BY <1>7, <1>13, <3>1
  <2>3. /\ ~Renewing[d] /\ Renewing' = [Renewing EXCEPT ![d] = TRUE]
        /\ Stage' = [Stage EXCEPT ![d] = 0]
        /\ ReturnedBy' = [ReturnedBy EXCEPT ![d] = {}]
    <3>1. dom'[d].isRenewal = TRUE
      BY <1>1, <2>1 DEF DomainRow
    <3> QED BY <1>1, <1>2, <2>1, <3>1, NewRowStage, OneDomain
  <2>4. Chain!Renew(d)
    BY <2>1, <2>3 DEF Chain!Renew, Stage, ReturnedBy, Renewing
  <2> QED BY <1>1, <2>2, <2>4 DEF Chain!Next
<1>14. CASE w.op = "purchase"
  <2>1. /\ dv'[d] = dv[d] /\ dom'[d] = w.dom /\ ~w.dom.isRenewal
        /\ purchases' = [purchases EXCEPT ![d] = @ + 1] /\ renewals' = renewals
    BY <1>1, <1>2, <1>3, <1>14 DEF ShowsRenewal, TxOperation
  <2>2. ChainInv'
    BY <1>4, <1>7, <2>1
  <2>3. dv[d].verifiedBy = 1 .. NRoles
    BY <1>0, <1>1, <1>14, InvImplies DEF ChainInv, WholeChain, Role
  <2>4. /\ Stage[d] = NRoles /\ Stage' = Stage /\ ReturnedBy' = ReturnedBy
        /\ Renewing' = [Renewing EXCEPT ![d] = FALSE]
    <3>1. dom'[d].isRenewal = FALSE
      BY <1>1, <2>1 DEF DomainRow
    <3>2. NRoles \in 0 .. NRoles
      OBVIOUS
    <3> QED BY <1>1, <1>2, <2>1, <2>3, <3>1, <3>2, OneDomain, StageIs
  <2>5. Chain!Buy(d)
    BY <2>1, <2>4 DEF Chain!Buy, Stage, ReturnedBy, Renewing
  <2> QED BY <1>1, <2>2, <2>5 DEF Chain!Next
<1> QED
  BY <1>1, <1>9, <1>10, <1>11, <1>12, <1>13, <1>14
  DEF Work, TxOperation, PlainOperation

LEMMA ChainStep ==
  ASSUME WorkflowInv, Present, ReviewInv, RenewalInv, ChainInv,
         VerificationInTurn, DomainInTurn, [Next]_vars
  PROVE  ChainInv' /\ [Chain!Next]_(Chain!vars)
<1>1. ASSUME TablesKeep
      PROVE  UNCHANGED Chain!vars
  BY <1>1 DEF TablesKeep, Chain!vars
<1>2. CASE UNCHANGED vars
  <2>1. TablesKeep /\ req' = req
    BY <1>2 DEF vars, TablesKeep
  <2> QED BY <1>1, <2>1 DEF ChainInv, Exists, TablesKeep
<1>3. ASSUME NEW q \in Request, LoadStep(q)
      PROVE  ChainInv' /\ TablesKeep
  <2>1. PICK w : req'[q] = w /\ ReadNow(q, w)
    BY <1>3, LoadStepEffect
  <2>2. w.op = "purchase" => dv[w.d].isVerified
    BY <2>1 DEF ReadNow, ChainInv
  <2> QED BY <1>3, <2>1, <2>2, LoadStepEffect, ChainKept
<1>4. ASSUME NEW q \in Request, Announce(q)
      PROVE  ChainInv' /\ TablesKeep
  <2>1. PICK w : req'[q] = w /\ w.op = req[q].op /\ w.d = req[q].d
    BY <1>4, AnnounceEffect
  <2>2. w.op = "purchase" => dv[w.d].isVerified
    BY <2>1 DEF ChainInv
  <2> QED BY <1>4, <2>1, <2>2, AnnounceEffect, ChainKept
<1>5. ASSUME NEW q \in Request, Abort(q)
      PROVE  ChainInv' /\ TablesKeep
  BY <1>5, AbortEffect, NoneIdle, ChainKept
<1> QED BY <1>1, <1>2, <1>3, <1>4, <1>5, ChainWrite DEF Next

LEMMA InitChain == Init => ChainInv /\ Chain!Init
<1> SUFFICES ASSUME Init PROVE ChainInv /\ Chain!Init
  OBVIOUS
<1>1. ChainInv
  <2>1. 0 \in 0 .. NRoles /\ \A d \in Domain : dv[d].verifiedBy = 1 .. 0
    BY NewRowStage DEF Init
  <2> QED BY <2>1, NoneIdle DEF Init, ChainInv, NoDomainRow, NewDomainRow
<1>2. Chain!Init
  BY NewRowStage DEF Init, Chain!Init, NoDomainRow, NewDomainRow
<1> QED BY <1>1, <1>2

(* As long as requests that write the same row of a domain do not overlap, *)
(* the workflow service implements the approval chain: approvals climb it  *)
(* in order, only an authority that has not approved returns the           *)
(* application, a domain is bought at the top only, and a renewal starts   *)
(* the climb again.  Requests that write different rows may overlap, and   *)
(* any of them may fail.                                                   *)
THEOREM InTurnImplementsChain ==
  Spec /\ []VerificationInTurn /\ []DomainInTurn => ChainSpec
BY Invariance, InitPresent, PresentStep, InitReview, ReviewStep, InitRenewal,
   RenewalStep, InitChain, ChainStep, PTL DEF Spec, ChainSpec, Chain!Spec

(* In particular when requests about a domain are served one at a time, as *)
(* they are on a service that is not busy: nothing is assumed of failures. *)
COROLLARY OneAtATimeVerifies ==
  ASSUME \A p, q \in Request : p = q
  PROVE  Spec => []VerifiedForThisApplication
<1>1. VerificationInTurn
  BY DEF VerificationInTurn, InTurn
<1> QED BY <1>1, InTurnVerifiedForThisApplication, PTL

(* And every step they take is one of the chain's, or none of its.         *)
COROLLARY OneAtATimeImplementsChain ==
  ASSUME \A p, q \in Request : p = q
  PROVE  Spec => ChainSpec
<1>1. VerificationInTurn /\ DomainInTurn
  BY DEF VerificationInTurn, DomainInTurn, InTurn
<1> QED BY <1>1, InTurnImplementsChain, PTL
===========================================================================
