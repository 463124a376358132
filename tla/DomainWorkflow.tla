-------------------------- MODULE DomainWorkflow --------------------------
(***************************************************************************)
(* The life of a domain name in WorkFlowIpVaptService: the application,    *)
(* the chain of approvals, rejections, the purchase, renewals, deletion    *)
(* and the change of its DRM.                                              *)
(*                                                                         *)
(* Every operation is an HTTP request served by a thread of its own.  It   *)
(* reads the rows it needs, changes its copies, and later writes them back *)
(* (Load..., then Commit... or Save...).  No entity has a @Version and     *)
(* Hibernate writes every column of a changed entity, so a write replaces  *)
(* the whole row by the copy, whatever was committed in between.  The      *)
(* database runs at PostgreSQL's default READ COMMITTED: a transaction's   *)
(* rows become visible together, when it commits.                          *)
(*                                                                         *)
(* An authority is its position in Utility.VERIFICATION_ORDER: the code's  *)
(* chain is ARM, HOD, ED, NETOPS, WEBMASTER, HODHPC (NRoles = 6).  The     *)
(* handlers of the authorities between HOD and HODHPC are alike, so a      *)
(* shorter chain only leaves some of them out.                             *)
(***************************************************************************)
EXTENDS Naturals, FiniteSets

CONSTANTS
  Domain,        \* domain names that may be applied for
  Request,       \* threads that serve requests
  Drm,           \* employees that may be a domain's DRM
  NoDrm,         \* the drm of a row that does not exist
  NRoles,        \* length of VERIFICATION_ORDER
  Operation,     \* the operations the clients of this instance use
  MaxRenewals,   \* bound: no renewal is applied for once so many exist
  MaxPurchases   \* bound: no purchase is made once so many exist

TxOperation == {"apply", "approve", "renew", "purchase", "delete"}
PlainOperation == {"reject", "update"}

(* The chain has a first, a second and another last authority.             *)
ASSUME ChainAssumption == NRoles \in Nat /\ NRoles >= 3
ASSUME DrmAssumption == NoDrm \notin Drm
ASSUME OperationAssumption == Operation \subseteq TxOperation \cup PlainOperation
ASSUME BoundAssumption == MaxRenewals \in Nat /\ MaxPurchases \in Nat

Role == 1 .. NRoles
ARM == 1
HOD == 2
HODHPC == NRoles

(* The events of a domain's life.  The authorities' approvals have an      *)
(* event each; one stands for them all.                                    *)
Event == {"DOMAIN_APPLICATION_SUBMITTED", "DOMAIN_VERIFICATION_APPROVED",
          "DOMAIN_VERIFICATION_REJECTED", "DOMAIN_RENEWAL_REQUESTED",
          "DOMAIN_ACTIVATED", "DOMAIN_DELETED"}

VARIABLES
  dom,        \* table domain_name
  dv,         \* table domain_verification
  renewals,   \* number of rows of table domain_renewal of a domain
  purchases,  \* number of rows of table purchases of a domain
  req,        \* what each request holds in memory
  announced,  \* events handed to the notification client
  approvals   \* history: <<r, n>> if r's approval, given when n renewals
              \* had been applied for, was committed

vars == <<dom, dv, renewals, purchases, req, announced, approvals>>

---------------------------------------------------------------------------
(* Rows.  ARM \in verifiedBy stands for forwardedToArm.                    *)

DomainRow == [drm: Drm \cup {NoDrm}, isActive: BOOLEAN, isDeleted: BOOLEAN,
              isRenewal: BOOLEAN, hasExpiry: BOOLEAN]

VerificationRow == [verifiedBy: SUBSET Role, sentBackBy: SUBSET (Role \ {ARM}),
                    isVerified: BOOLEAN]

NewDomainRow(m) == [drm |-> m, isActive |-> FALSE, isDeleted |-> FALSE,
                    isRenewal |-> FALSE, hasExpiry |-> FALSE]

NewVerificationRow == [verifiedBy |-> {}, sentBackBy |-> {}, isVerified |-> FALSE]

NoDomainRow == NewDomainRow(NoDrm)

Exists(d) == dom[d].drm # NoDrm

(* What a request holds: the row copies it will write, whether the row it  *)
(* may have found as it wants it is dirty, so that Hibernate writes it,    *)
(* and the number of renewals there were when it read them.                *)
Idle == [op |-> "none"]

Work == [op: TxOperation \cup PlainOperation, phase: {"checked", "loaded", "announced"},
         d: Domain, role: Role, dom: DomainRow, dv: VerificationRow,
         round: Nat, dirty: BOOLEAN]

NewWork(op, d) ==
  [op |-> op, phase |-> "loaded", d |-> d, role |-> ARM, dom |-> NoDomainRow,
   dv |-> NewVerificationRow, round |-> 0, dirty |-> TRUE]

Free(q, op) == op \in Operation /\ req[q] = Idle

---------------------------------------------------------------------------
(* Guards and in-memory changes of the handlers.  A definition with a      *)
(* suffix (MayVerify_AnyOrder) is a plausible mistake in the one it is     *)
(* named after; no specification uses it.                                  *)

MayVerify_AnyOrder(v, r) == r = ARM \/ r \notin v.verifiedBy

MayVerify(v, r) ==
  r = ARM \/ (r - 1 \in v.verifiedBy /\ r \notin v.verifiedBy)

Verify_OneEarly(v, r) == [v EXCEPT !.verifiedBy = @ \cup {r},
                                   !.isVerified = @ \/ r + 1 = HODHPC]

Verify(v, r) == [v EXCEPT !.verifiedBy = @ \cup {r},
                          !.isVerified = @ \/ r = HODHPC]

(* findByDomainId returns an Optional: it throws when two rows match.      *)
HodRenewalFound(d) == dom[d].isRenewal => renewals[d] = 1

Approvable(d, r) == MayVerify(dv[d], r) /\ (r = HOD => HodRenewalFound(d))

(* verifyIfSentByPrevAuth: neither r nor the one before it sent it back.   *)
SentByPrevAuth(v, r) == {r - 1, r} \cap v.sentBackBy = {}

MayReject(v, r) ==
  /\ r # ARM
  /\ r \notin v.verifiedBy
  /\ r # HOD => SentByPrevAuth(v, r)

SendBack(v, r) == [v EXCEPT !.sentBackBy = @ \cup {r}]

Renewed(row, m) == [row EXCEPT !.drm = m, !.isRenewal = TRUE]

Purchased_NoExpiry(row) == [row EXCEPT !.isActive = TRUE, !.isRenewal = FALSE]

Purchased(row) == [row EXCEPT !.isActive = TRUE, !.isRenewal = FALSE,
                              !.hasExpiry = TRUE]

Deleted(row) == [row EXCEPT !.isActive = FALSE, !.isDeleted = TRUE]

EventOf(op) ==
  CASE op = "apply"    -> "DOMAIN_APPLICATION_SUBMITTED"
    [] op = "approve"  -> "DOMAIN_VERIFICATION_APPROVED"
    [] op = "renew"    -> "DOMAIN_RENEWAL_REQUESTED"
    [] op = "purchase" -> "DOMAIN_ACTIVATED"
    [] op = "delete"   -> "DOMAIN_DELETED"
    [] op = "reject"   -> "DOMAIN_VERIFICATION_REJECTED"

---------------------------------------------------------------------------
Init ==
  /\ dom = [d \in Domain |-> NoDomainRow]
  /\ dv = [d \in Domain |-> NewVerificationRow]
  /\ renewals = [d \in Domain |-> 0]
  /\ purchases = [d \in Domain |-> 0]
  /\ req = [q \in Request |-> Idle]
  /\ announced = [d \in Domain |-> {}]
  /\ approvals = [d \in Domain |-> {}]

tables == <<dom, dv, renewals, purchases, approvals>>

(* A request begins: it reads, checks, and changes its copies.             *)
Load(q, work) ==
  /\ req' = [req EXCEPT ![q] = work]
  /\ UNCHANGED <<tables, announced>>

(* addDomainRequest inserts new rows.  An insert of a name that another    *)
(* open transaction is inserting waits for it (unique index).              *)
LoadApply(q) ==
  \E d \in Domain, m \in Drm :
    /\ Free(q, "apply")
    /\ ~Exists(d)
    /\ \A p \in Request : req[p].op = "apply" => req[p].d # d
    /\ Load(q, [NewWork("apply", d) EXCEPT !.dom = NewDomainRow(m)])

LoadApprove(q) ==
  \E d \in Domain, r \in Role :
    /\ Free(q, "approve")
    /\ Exists(d)
    /\ Approvable(d, r)
    /\ Load(q, [NewWork("approve", d) EXCEPT
                  !.role = r, !.dv = Verify(dv[d], r), !.round = renewals[d]])

LoadReject(q) ==
  \E d \in Domain, r \in Role :
    /\ Free(q, "reject")
    /\ Exists(d)
    /\ MayReject(dv[d], r)
    /\ Load(q, [NewWork("reject", d) EXCEPT
                  !.role = r, !.dv = SendBack(dv[d], r)])

LoadRenew(q) ==
  \E d \in Domain, m \in Drm :
    /\ Free(q, "renew")
    /\ Exists(d)
    /\ renewals[d] < MaxRenewals
    /\ ~dom[d].isRenewal
    /\ Load(q, [NewWork("renew", d) EXCEPT !.dom = Renewed(dom[d], m)])

LoadPurchase_Unchecked(q) ==
  \E d \in Domain :
    /\ Free(q, "purchase")
    /\ Exists(d)
    /\ purchases[d] < MaxPurchases
    /\ Load(q, [NewWork("purchase", d) EXCEPT !.phase = "checked"])

(* The verification row is read first and checked, the domain's row after. *)
LoadPurchase(q) ==
  \E d \in Domain :
    /\ Free(q, "purchase")
    /\ Exists(d)
    /\ purchases[d] < MaxPurchases
    /\ dv[d].isVerified
    /\ Load(q, [NewWork("purchase", d) EXCEPT !.phase = "checked"])

ReadPurchasedDomain(q) ==
  /\ req[q].op = "purchase"
  /\ req[q].phase = "checked"
  /\ Load(q, [req[q] EXCEPT !.phase = "loaded", !.dom = Purchased(dom[req[q].d])])

LoadDelete(q) ==
  \E d \in Domain :
    /\ Free(q, "delete")
    /\ Exists(d)
    /\ Load(q, [NewWork("delete", d) EXCEPT
                  !.dom = Deleted(dom[d]), !.dirty = Deleted(dom[d]) # dom[d]])

LoadUpdate(q) ==
  \E d \in Domain, m \in Drm :
    /\ Free(q, "update")
    /\ Exists(d)
    /\ Load(q, [NewWork("update", d) EXCEPT
                  !.dom = [dom[d] EXCEPT !.drm = m], !.dirty = dom[d].drm # m])

---------------------------------------------------------------------------
(* Inside the transaction, before it commits, the notification is handed   *)
(* over: to Feign and awaited by approve, to an @Async thread by others.   *)
(* A renewal has just read the verification row, after its calls to the    *)
(* user service, and reset its copy: a row without a flag stays clean.     *)
Announce(q) ==
  /\ req[q].op \in TxOperation
  /\ req[q].phase = "loaded"
  /\ req' = [req EXCEPT
       ![q].phase = "announced",
       ![q].dirty = IF req[q].op = "renew" THEN dv[req[q].d] # NewVerificationRow
                                          ELSE @]
  /\ announced' = [announced EXCEPT ![req[q].d] = @ \cup {EventOf(req[q].op)}]
  /\ UNCHANGED tables

Finish(q, op) ==
  /\ req[q].op = op
  /\ req[q].phase = "announced"
  /\ req' = [req EXCEPT ![q] = Idle]
  /\ UNCHANGED announced

CommitApply(q) ==
  /\ Finish(q, "apply")
  /\ dom' = [dom EXCEPT ![req[q].d] = req[q].dom]
  /\ dv' = [dv EXCEPT ![req[q].d] = NewVerificationRow]
  /\ UNCHANGED <<renewals, purchases, approvals>>

CommitApprove(q) ==
  /\ Finish(q, "approve")
  /\ dv' = [dv EXCEPT ![req[q].d] = req[q].dv]
  /\ approvals' = [approvals EXCEPT ![req[q].d] =
                     @ \cup {<<req[q].role, req[q].round>>}]
  /\ UNCHANGED <<dom, renewals, purchases>>

CommitRenew_NoReset(q) ==
  /\ Finish(q, "renew")
  /\ dom' = [dom EXCEPT ![req[q].d] = req[q].dom]
  /\ renewals' = [renewals EXCEPT ![req[q].d] = @ + 1]
  /\ UNCHANGED <<dv, purchases, approvals>>

CommitRenew(q) ==
  /\ Finish(q, "renew")
  /\ dom' = [dom EXCEPT ![req[q].d] = req[q].dom]
  /\ dv' = IF req[q].dirty THEN [dv EXCEPT ![req[q].d] = NewVerificationRow]
                           ELSE dv
  /\ renewals' = [renewals EXCEPT ![req[q].d] = @ + 1]
  /\ UNCHANGED <<purchases, approvals>>

CommitPurchase_NoRecord(q) ==
  /\ Finish(q, "purchase")
  /\ dom' = [dom EXCEPT ![req[q].d] = req[q].dom]
  /\ UNCHANGED <<dv, renewals, purchases, approvals>>

CommitPurchase(q) ==
  /\ Finish(q, "purchase")
  /\ dom' = [dom EXCEPT ![req[q].d] = req[q].dom]
  /\ purchases' = [purchases EXCEPT ![req[q].d] = @ + 1]
  /\ UNCHANGED <<dv, renewals, approvals>>

WriteDomain(q) ==
  dom' = IF req[q].dirty THEN [dom EXCEPT ![req[q].d] = req[q].dom] ELSE dom

CommitDelete(q) ==
  /\ Finish(q, "delete")
  /\ WriteDomain(q)
  /\ UNCHANGED <<dv, renewals, purchases, approvals>>

(* reject and updateDomain run in no transaction: the save is on its own,  *)
(* and a rejection is announced after it.                                  *)
SaveReject(q) ==
  /\ req[q].op = "reject"
  /\ dv' = [dv EXCEPT ![req[q].d] = req[q].dv]
  /\ announced' = [announced EXCEPT ![req[q].d] = @ \cup {EventOf("reject")}]
  /\ req' = [req EXCEPT ![q] = Idle]
  /\ UNCHANGED <<dom, renewals, purchases, approvals>>

SaveUpdate(q) ==
  /\ req[q].op = "update"
  /\ WriteDomain(q)
  /\ req' = [req EXCEPT ![q] = Idle]
  /\ UNCHANGED <<dv, renewals, purchases, announced, approvals>>

(* The request fails before its write: a Feign call or the notification    *)
(* fails, the commit is refused, or the server stops.  Nothing is written. *)
Abort(q) ==
  /\ req[q].op # "none"
  /\ req' = [req EXCEPT ![q] = Idle]
  /\ UNCHANGED <<tables, announced>>

---------------------------------------------------------------------------
LoadStep(q) ==
  \/ LoadApply(q) \/ LoadApprove(q) \/ LoadReject(q) \/ LoadRenew(q)
  \/ LoadPurchase(q) \/ ReadPurchasedDomain(q) \/ LoadDelete(q) \/ LoadUpdate(q)

WriteStep(q) ==
  \/ CommitApply(q) \/ CommitApprove(q) \/ CommitRenew(q)
  \/ CommitPurchase(q) \/ CommitDelete(q) \/ SaveReject(q) \/ SaveUpdate(q)

Next == \E q \in Request : LoadStep(q) \/ Announce(q) \/ WriteStep(q) \/ Abort(q)

Spec == Init /\ [][Next]_vars

---------------------------------------------------------------------------
(* Every variable has its type: the tables hold rows of their columns'     *)
(* types (in particular the ARM never sends back), and a request holds     *)
(* nothing or the copies of one operation.                                 *)
TypeOK ==
  /\ dom \in [Domain -> DomainRow]
  /\ dv \in [Domain -> VerificationRow]
  /\ renewals \in [Domain -> Nat]
  /\ purchases \in [Domain -> Nat]
  /\ req \in [Request -> {Idle} \cup Work]
  /\ announced \in [Domain -> SUBSET Event]
  /\ approvals \in [Domain -> SUBSET (Role \X Nat)]

(* Whatever requests overlap, a row marked verified carries the approval   *)
(* of every authority: no interleaving of approve, reject and renewal      *)
(* makes the last flag appear on a row that skipped one (ApprovalService). *)
WholeChain == \A d \in Domain : dv[d].isVerified => dv[d].verifiedBy = Role

(* A domain is bought only after each authority's approval of it was       *)
(* committed at least once: the isVerified flag validateDomainIsVerified   *)
(* trusts cannot come from approvals that were rolled back.                *)
PurchaseWasApproved ==
  \A d \in Domain : purchases[d] > 0 =>
    \A r \in Role : \E a \in approvals[d] : a[1] = r

(* An active domain was bought and has an expiry date, even after stale    *)
(* copies of its row were written over newer ones: the expiry scheduler    *)
(* skips rows without a date, so such a domain would never expire.         *)
ActiveWasBought ==
  \A d \in Domain : dom[d].isActive => purchases[d] > 0 /\ dom[d].hasExpiry

(* A row under renewal has a renewal record: hodRenewalVerify looks it up  *)
(* when the HOD approves and throws when there is none.                    *)
RenewalIsRecorded == \A d \in Domain : dom[d].isRenewal => renewals[d] > 0

---------------------------------------------------------------------------
(* The inductive invariant behind them: what every row copy in memory must *)
(* satisfy for its write, however late, to keep the tables right.          *)

(* Approvals are given in the order of the chain, and the last one sets    *)
(* isVerified.                                                             *)
InOrder(v) ==
  /\ \A r \in v.verifiedBy : 1 .. r \subseteq v.verifiedBy
  /\ v.isVerified => HODHPC \in v.verifiedBy

Approved(d) == {r \in Role : \E a \in approvals[d] : a[1] = r}

(* A copy of a domain's row shows a purchase or a renewal only if it is in *)
(* the tables, or if the operation op that holds it will add it there.     *)
RowBacked(row, d, op) ==
  /\ row.isActive => row.hasExpiry /\ (op = "purchase" \/ purchases[d] > 0)
  /\ row.isRenewal => op = "renew" \/ renewals[d] > 0

RowsOK(d) ==
  /\ InOrder(dv[d])
  /\ dv[d].verifiedBy \subseteq Approved(d)
  /\ purchases[d] > 0 => Role \subseteq Approved(d)
  /\ RowBacked(dom[d], d, "none")

CopyOK(w) ==
  /\ InOrder(w.dv)
  /\ \A r \in w.dv.verifiedBy :
       r \in Approved(w.d) \/ (w.op = "approve" /\ w.role = r)
  /\ w.op = "purchase" => Role \subseteq Approved(w.d)
  /\ RowBacked(w.dom, w.d, w.op)

(* Whichever copies the requests hold, writing any of them in any order    *)
(* keeps each row in the order of the chain, backed by committed           *)
(* approvals, purchases and renewals.                                      *)
WorkflowInv ==
  /\ TypeOK
  /\ \A d \in Domain : RowsOK(d)
  /\ \A q \in Request : req[q].op # "none" => CopyOK(req[q])

---------------------------------------------------------------------------
(* What the code promises in a comment, a message or a name, and keeps     *)
(* only while no two requests overlap, or not at all.                      *)

(* resetDomainVerificationRecord prepares the record "for a new approval   *)
(* workflow": a row marked verified was approved by every authority since  *)
(* the last renewal was applied for, not by approvals of an earlier term.  *)
VerifiedForThisApplication ==
  \A d \in Domain : dv[d].isVerified =>
    Role \X {renewals[d]} \subseteq approvals[d]

NewlySentBack(d) == dv'[d].sentBackBy \ dv[d].sentBackBy

(* "HOD CANNOT CHANGE DECISION AFTER VERFIYING", and so for the others     *)
(* (RejectionService): no write adds a rejection by an authority whose     *)
(* approval is in the row.                                                 *)
DecisionIsFinal ==
  [][\A d \in Domain : NewlySentBack(d) \cap dv[d].verifiedBy = {}]_vars

(* applyForRenewal announces "after the transaction has successfully       *)
(* committed", and registerDomainPurchase too: when no request is under    *)
(* way, whatever was announced is in the tables.                           *)
AnnouncedIsRecorded ==
  \A d \in Domain : (\A q \in Request : req[q] = Idle \/ req[q].d # d) =>
    /\ "DOMAIN_RENEWAL_REQUESTED" \in announced[d] => renewals[d] > 0
    /\ "DOMAIN_ACTIVATED" \in announced[d] => purchases[d] > 0

(* A renewal is refused when the domain "is already undergoing renewal":   *)
(* no renewal record is added to a domain that is under renewal.           *)
OneRenewalAtATime ==
  [][\A d \in Domain : renewals'[d] > renewals[d] => ~dom[d].isRenewal]_vars

(* "THE RENEWAL APPROVAL WILL FOLLOW THE SAME APIS AS EXPOSED BY APPROVAL  *)
(* CONTROLLER" (RenewalController): the row of a domain under renewal is   *)
(* verified, or some authority the chain is waiting for can approve it.    *)
RenewalCanBeApproved ==
  \A d \in Domain : dom[d].isRenewal =>
    \/ dv[d].isVerified
    \/ \E r \in Role \ dv[d].verifiedBy : Approvable(d, r)

---------------------------------------------------------------------------
(* If no two write the same row of a domain at a time, the requests        *)
(* implement the approval chain: approvals climb it in order, no authority *)
(* returns what it approved, and a domain is bought at the top only.       *)
Chain == INSTANCE ApprovalChain WITH
  stage <- [d \in Domain |-> Cardinality(dv[d].verifiedBy)],
  returnedBy <- [d \in Domain |-> dv[d].sentBackBy],
  term <- renewals,
  renewing <- [d \in Domain |-> dom[d].isRenewal],
  bought <- purchases

ChainSpec == Chain!Spec

---------------------------------------------------------------------------
(* What the code would have to provide for it: that requests which write   *)
(* the same row, each from a copy it read before, do not overlap.  Others  *)
(* do: those for other domains, and those that write another row.          *)
InTurn(ops) ==
  \A p, q \in Request :
    {req[p].op, req[q].op} \subseteq ops /\ req[p].d = req[q].d => p = q

WritesVerification == {"approve", "reject", "renew"}
WritesDomain == {"renew", "purchase", "delete", "update"}

VerificationInTurn == InTurn(WritesVerification)
DomainInTurn == InTurn(WritesDomain)

JustChecked(q) == req[q].op = "purchase" /\ req[q].phase = "checked"

(* Always: an application is for a domain that is not there yet, by one    *)
(* request; every other request is for a domain that is there, and leaves  *)
(* it there.                                                               *)
Present ==
  \A q \in Request : req[q].op # "none" =>
    /\ Exists(req[q].d) = (req[q].op # "apply")
    /\ req[q].op \in WritesDomain \cup {"apply"} /\ ~JustChecked(q) =>
         req[q].dom.drm # NoDrm
    /\ req[q].op = "apply" =>
         \A p \in Request : req[p].op = "apply" /\ req[p].d = req[q].d => p = q

(* With verification rows written in turn: a row's approvals were given    *)
(* since the last renewal, and a copy is what would be read now.           *)
ReviewInv ==
  /\ \A d \in Domain : dv[d].verifiedBy \X {renewals[d]} \subseteq approvals[d]
  /\ \A q \in Request : LET w == req[q] IN
       /\ w.op = "approve" =>
            /\ w.round = renewals[w.d] /\ MayVerify(dv[w.d], w.role)
            /\ w.dv = Verify(dv[w.d], w.role)
       /\ w.op = "reject" =>
            MayReject(dv[w.d], w.role) /\ w.dv = SendBack(dv[w.d], w.role)
       /\ w.op = "renew" /\ w.phase = "announced" =>
            w.dirty = (dv[w.d] # NewVerificationRow)

(* With domain rows written in turn: a copy shows the renewal its          *)
(* operation leaves the row with now.                                      *)
RenewalInv ==
  \A q \in Request : LET w == req[q] IN
    /\ w.op = "apply" => ~w.dom.isRenewal
    /\ w.op = "renew" => w.dom.isRenewal /\ ~dom[w.d].isRenewal
    /\ w.op = "purchase" /\ ~JustChecked(q) => ~w.dom.isRenewal
    /\ w.op \in {"delete", "update"} => w.dom.isRenewal = dom[w.d].isRenewal

(* With both: the authorities that approved are the first of the chain, a  *)
(* domain that is not there has an unused row, and one that is being       *)
(* bought stays verified.                                                  *)
ChainInv ==
  /\ \A d \in Domain : \E k \in 0 .. NRoles : dv[d].verifiedBy = 1 .. k
  /\ \A d \in Domain : ~Exists(d) => dv[d] = NewVerificationRow /\ ~dom[d].isRenewal
  /\ \A q \in Request : req[q].op = "purchase" => dv[req[q].d].isVerified
===========================================================================
