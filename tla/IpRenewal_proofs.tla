------------------------- MODULE IpRenewal_proofs --------------------------
(***************************************************************************)
(* IpRenewal for every set of IPs and requests, and every choice of the    *)
(* handlers behind protect: its types, its inductive invariant IpInv, and  *)
(* the safety properties that follow from it.                              *)
(***************************************************************************)
EXTENDS IpRenewal, FiniteSetTheorems, TLAPS

USE AuthenticatedAssumption, MaxRenewalsAssumption

---------------------------------------------------------------------------
(* IpInv, sorted by what it is about: the table, one row and its history,  *)
(* what one request holds.                                                 *)

TablesOK == rows \in Seq(Row) /\ past \in Seq(Past) /\ Len(past) = Len(rows)

SeenOK(ip, n) == n \in 0 .. Len(rows) /\ \A i \in OfIp(ip, n) : rows[i].is_rnwd

StatusOK(r, p) ==
  /\ r.is_rnwd => p.aprvd
  /\ r.status = "APPROVED_BY_HOD" => r.is_aprvd = "true" /\ p.aprvd
  /\ r.status = "PENDING_APPROVAL" /\ r.is_aprvd # "null" => p.rejected
  /\ r.status = "RENEWED_BY_NETOPS" => r.is_rnwd
  /\ r.status = "REJECTED_BY_HOD" => p.rejected

RowOK(i) ==
  /\ past[i].seen < i /\ past[i].counted < i
  /\ SeenOK(rows[i].ip_id, past[i].seen)
  /\ Numbered(rows[i].ip_id, rows[i].rnwl_no, past[i].counted)
  /\ StatusOK(rows[i], past[i])

WorkOK(w) ==
  /\ w \in {Idle} \cup Creating \cup Deciding
  /\ w.op = "create" =>
       /\ SeenOK(w.ip_id, w.seen)
       /\ w.phase = "counted" => Numbered(w.ip_id, w.rnwl_no, w.counted)
  /\ w.op \notin {"none", "create"} => w.id \in Id
  /\ w.op = "review" => past[w.id].rejected
  /\ w.op \in {"complete", "update_ip"} => past[w.id].aprvd

RowsOK == \A i \in Id : RowOK(i)

RequestsOK == (\A q \in Request : WorkOK(req[q])) /\ req = [q \in Request |-> req[q]]

LEMMA IdRange ==
  ASSUME TablesOK
  PROVE  /\ Len(rows) \in Nat /\ Id = 1 .. Len(rows) /\ DOMAIN past = Id
         /\ \A i \in Id : rows[i] \in Row /\ past[i] \in Past /\ i \in Nat \ {0}
BY DEF TablesOK, Id

LEMMA InvImpliesParts ==
  ASSUME IpInv
  PROVE  TablesOK /\ RowsOK /\ RequestsOK
<1>1. TablesOK
  BY DEF IpInv, TypeOK, TablesOK
<1>2. ASSUME NEW i \in Id
      PROVE  RowOK(i)
  <2>0. rows[i] \in Row /\ past[i] \in Past /\ i \in 1 .. Len(rows) /\ Len(rows) \in Nat
    BY <1>1, IdRange
  <2>1. past[i].seen < i /\ past[i].counted < i
    BY DEF IpInv, InTable
  <2>2. SeenOK(rows[i].ip_id, past[i].seen)
    <3>1. past[i].seen \in 0 .. Len(rows)
      BY <2>0, <2>1 DEF Past
    <3>2. ASSUME NEW k \in OfIp(rows[i].ip_id, past[i].seen)
          PROVE  rows[k].is_rnwd
      <4>1. k \in 1 .. past[i].seen /\ rows[k].ip_id = rows[i].ip_id
        BY <3>2 DEF OfIp
      <4>2. k \in Id /\ k <= past[i].seen
        BY <1>1, <3>1, <4>1, IdRange
      <4> QED BY <4>1, <4>2 DEF IpInv, OpenOnlyUnseen
    <3> QED BY <3>1, <3>2 DEF SeenOK
  <2>3. Numbered(rows[i].ip_id, rows[i].rnwl_no, past[i].counted)
    BY DEF IpInv, CountedOnce
  <2>4. StatusOK(rows[i], past[i])
    BY DEF IpInv, DecidedByHod, StatusAgrees, StatusOK
  <2> QED BY <2>1, <2>2, <2>3, <2>4 DEF RowOK
<1>3. ASSUME NEW q \in Request
      PROVE  WorkOK(req[q])
  <2>1. req[q] \in {Idle} \cup Creating \cup Deciding
    BY DEF IpInv, TypeOK
  <2>2. ASSUME req[q].op = "create"
        PROVE  /\ SeenOK(req[q].ip_id, req[q].seen)
               /\ req[q].phase = "counted" =>
                    Numbered(req[q].ip_id, req[q].rnwl_no, req[q].counted)
    <3>1. req[q] \in Creating
      BY <2>1, <2>2 DEF Idle, Deciding
    <3>2. req[q].seen \in 0 .. Len(rows)
      BY <1>1, <2>2, <3>1, IdRange DEF IpInv, InTable, Creating
    <3>3. \A i \in OfIp(req[q].ip_id, req[q].seen) : rows[i].is_rnwd
      BY <2>2 DEF IpInv, CheckedOnce
    <3> QED BY <2>2, <3>2, <3>3 DEF SeenOK, IpInv, CountedOnce, InPhase
  <2>3. /\ req[q].op \notin {"none", "create"} => req[q].id \in Id
        /\ req[q].op = "review" => past[req[q].id].rejected
        /\ req[q].op \in {"complete", "update_ip"} => past[req[q].id].aprvd
    BY DEF IpInv, TypeOK, CheckedOnce
  <2> QED BY <2>1, <2>2, <2>3 DEF WorkOK
<1>4. req = [q \in Request |-> req[q]]
  BY DEF IpInv, TypeOK
<1> QED BY <1>1, <1>2, <1>3, <1>4 DEF RowsOK, RequestsOK

(* Fewer rows were counted, and i itself is not among them.                *)
LEMMA CountGrows ==
  ASSUME TablesOK, NEW i \in Id, NEW n \in Nat, NEW m \in Nat, n < i, i <= m
  PROVE  Cardinality(OfIp(rows[i].ip_id, n)) < Cardinality(OfIp(rows[i].ip_id, m))
<1> DEFINE S == OfIp(rows[i].ip_id, n)
           T == OfIp(rows[i].ip_id, m)
<1>0. i \in Nat \ {0}
  BY IdRange
<1>1. S \subseteq T /\ i \in T /\ i \notin S /\ T \subseteq 1 .. m
  BY <1>0 DEF OfIp
<1>2. IsFiniteSet(T)
  <2>1. IsFiniteSet(1 .. m) /\ T \in SUBSET (1 .. m)
    BY <1>1, FS_Interval
  <2> QED BY <2>1, FS_Subset
<1>3. IsFiniteSet(S) /\ Cardinality(S) <= Cardinality(T) /\ Cardinality(S) # Cardinality(T)
  BY <1>1, <1>2, FS_Subset
<1>4. Cardinality(S) \in Nat /\ Cardinality(T) \in Nat
  BY <1>2, <1>3, FS_CardinalityType
<1> QED BY <1>3, <1>4

LEMMA PartsImplyInv ==
  ASSUME TablesOK, RowsOK, RequestsOK
  PROVE  IpInv
<1>0. /\ Len(rows) \in Nat /\ Id = 1 .. Len(rows)
      /\ \A i \in Id : rows[i] \in Row /\ past[i] \in Past /\ RowOK(i)
  BY IdRange DEF RowsOK
<1>1. TypeOK
  <2>1. req \in [Request -> {Idle} \cup Creating \cup Deciding]
    BY DEF RequestsOK, WorkOK
  <2> QED BY <2>1 DEF TypeOK, TablesOK, RequestsOK, WorkOK
<1>2. OpenOnlyUnseen
  <2> SUFFICES ASSUME NEW i \in Id, NEW j \in Id,
                      rows[i].ip_id = rows[j].ip_id, i <= past[j].seen
               PROVE  rows[i].is_rnwd
    BY DEF OpenOnlyUnseen
  <2>1. i \in OfIp(rows[j].ip_id, past[j].seen)
    BY <1>0 DEF OfIp, Past
  <2> QED BY <1>0, <2>1 DEF RowOK, SeenOK
<1>3. NumbersGrow
  <2> SUFFICES ASSUME NEW i \in Id, NEW j \in Id,
                      rows[i].ip_id = rows[j].ip_id, i <= past[j].counted
               PROVE  rows[i].rnwl_no < rows[j].rnwl_no
    BY DEF NumbersGrow
  <2>1. past[i].counted \in Nat /\ past[j].counted \in Nat /\ past[i].counted < i
    BY <1>0 DEF RowOK, Past
  <2>2. Cardinality(OfIp(rows[i].ip_id, past[i].counted))
          < Cardinality(OfIp(rows[i].ip_id, past[j].counted))
    BY <2>1, CountGrows
  <2>3. /\ rows[i].rnwl_no = Cardinality(OfIp(rows[i].ip_id, past[i].counted)) + 1
        /\ rows[j].rnwl_no = Cardinality(OfIp(rows[i].ip_id, past[j].counted)) + 1
    BY <1>0 DEF RowOK, Numbered
  <2>4. ASSUME NEW n \in Nat
        PROVE  Cardinality(OfIp(rows[i].ip_id, n)) \in Nat
    <3>1. IsFiniteSet(1 .. n) /\ OfIp(rows[i].ip_id, n) \subseteq 1 .. n
      BY FS_Interval DEF OfIp
    <3> QED BY <3>1, FS_Subset, FS_CardinalityType
  <2>5. /\ Cardinality(OfIp(rows[i].ip_id, past[i].counted)) \in Nat
        /\ Cardinality(OfIp(rows[i].ip_id, past[j].counted)) \in Nat
    BY <2>1, <2>4
  <2> QED BY <2>2, <2>3, <2>5
<1>4. DecidedByHod /\ StatusAgrees
  BY <1>0 DEF RowOK, StatusOK, DecidedByHod, StatusAgrees
<1>5. CheckedOnce
  BY DEF RequestsOK, WorkOK, SeenOK, CheckedOnce
<1>6. CountedOnce
  BY <1>0 DEF RequestsOK, WorkOK, RowOK, CountedOnce, InPhase
<1>7. InTable
  BY <1>0 DEF RequestsOK, WorkOK, SeenOK, RowOK, InTable
<1> QED BY <1>1, <1>2, <1>3, <1>4, <1>5, <1>6, <1>7 DEF IpInv

---------------------------------------------------------------------------
(* No step takes back a row, its IP, its number or what was done to it, so *)
(* that what a request found stays right, however old it is.               *)

Kept(r, s) == s.ip_id = r.ip_id /\ s.rnwl_no = r.rnwl_no /\ (r.is_rnwd => s.is_rnwd)

Later(p, o) == /\ o.seen = p.seen /\ o.counted = p.counted
               /\ (p.aprvd => o.aprvd) /\ (p.rejected => o.rejected)

Grown ==
  /\ Len(rows') \in Nat /\ Len(rows) <= Len(rows') /\ Id \subseteq Id'
  /\ \A i \in Id : Kept(rows[i], rows'[i]) /\ Later(past[i], past'[i])

LEMMA UnchangedGrown ==
  ASSUME TablesOK, UNCHANGED <<rows, past>>
  PROVE  Grown
BY IdRange DEF Grown, Kept, Later, Id

LEMMA OfIpStays ==
  ASSUME TablesOK, Grown, NEW ip, NEW n \in 0 .. Len(rows)
  PROVE  OfIp(ip, n)' = OfIp(ip, n)
<1>1. ASSUME NEW i \in 1 .. n
      PROVE  rows'[i].ip_id = rows[i].ip_id
  <2>1. i \in Id
    BY IdRange
  <2> QED BY <2>1 DEF Grown, Kept
<1> QED BY <1>1 DEF OfIp

LEMMA SeenStaysOK ==
  ASSUME TablesOK, Grown, NEW ip, NEW n, SeenOK(ip, n)
  PROVE  SeenOK(ip, n)'
<1>1. n \in 0 .. Len(rows) /\ n \in 0 .. Len(rows')
  BY IdRange DEF SeenOK, Grown
<1>2. OfIp(ip, n)' = OfIp(ip, n) /\ OfIp(ip, n) \subseteq Id
  <2>1. OfIp(ip, n)' = OfIp(ip, n)
    BY <1>1, OfIpStays
  <2>2. OfIp(ip, n) \subseteq Id
    BY <1>1, IdRange DEF OfIp
  <2> QED BY <2>1, <2>2
<1>3. ASSUME NEW i \in OfIp(ip, n)'
      PROVE  rows'[i].is_rnwd
  <2>1. i \in OfIp(ip, n) /\ i \in Id
    BY <1>2, <1>3
  <2> QED BY <2>1 DEF SeenOK, Grown, Kept
<1> QED BY <1>1, <1>3 DEF SeenOK

LEMMA NumberedStays ==
  ASSUME TablesOK, Grown, NEW ip, NEW no, NEW n, Numbered(ip, no, n)
  PROVE  Numbered(ip, no, n)'
<1>1. n \in 0 .. Len(rows) /\ n \in 0 .. Len(rows')
  BY IdRange DEF Numbered, Grown
<1>2. OfIp(ip, n)' = OfIp(ip, n)
  BY <1>1, OfIpStays
<1> QED BY <1>1, <1>2 DEF Numbered

LEMMA WorkStaysOK ==
  ASSUME TablesOK, Grown, NEW w, WorkOK(w)
  PROVE  WorkOK(w)'
<1>1. ASSUME w.op = "create"
      PROVE  /\ SeenOK(w.ip_id, w.seen)'
             /\ w.phase = "counted" => Numbered(w.ip_id, w.rnwl_no, w.counted)'
  BY <1>1, SeenStaysOK, NumberedStays DEF WorkOK
<1>2. ASSUME w.op \notin {"none", "create"}
      PROVE  /\ w.id \in Id'
             /\ w.op = "review" => past'[w.id].rejected
             /\ w.op \in {"complete", "update_ip"} => past'[w.id].aprvd
  BY <1>2 DEF WorkOK, Grown, Later
<1> QED BY <1>1, <1>2 DEF WorkOK

LEMMA BecomeOK ==
  ASSUME TablesOK, RequestsOK, Grown, NEW q \in Request, NEW w, WorkOK(w)', Become(q, w)
  PROVE  RequestsOK'
<1>1. req' = [p \in Request |-> req'[p]]
  BY DEF Become, RequestsOK
<1>2. ASSUME NEW p \in Request
      PROVE  WorkOK(req[p])'
  <2>0. ASSUME NEW v, v = req'[p], WorkOK(v)'
        PROVE  WorkOK(req[p])'
    BY <2>0 DEF WorkOK, SeenOK, Numbered, OfIp, Id
  <2>1. CASE p = q
    <3>1. req'[p] = w
      BY <2>1 DEF Become, RequestsOK
    <3> QED BY <2>0, <3>1
  <2>2. CASE p # q
    <3>1. req'[p] = req[p]
      BY <2>2 DEF Become, RequestsOK
    <3>2. ASSUME NEW v, v = req[p]
          PROVE  WorkOK(v)'
      BY <3>2, WorkStaysOK DEF RequestsOK
    <3> QED BY <2>0, <3>1, <3>2
  <2> QED BY <2>1, <2>2
<1> QED BY <1>1, <1>2 DEF RequestsOK

(* A row that is not written, or is written with a state that agrees.      *)
LEMMA RowStaysOK ==
  ASSUME TablesOK, TablesOK', Grown, NEW i \in Id, RowOK(i), StatusOK(rows[i], past[i])'
  PROVE  RowOK(i)'
<1>1. Kept(rows[i], rows'[i]) /\ Later(past[i], past'[i])
  BY DEF Grown
<1>2. SeenOK(rows[i].ip_id, past[i].seen)'
  <2>1. ASSUME NEW ip, ip = rows[i].ip_id, NEW n, n = past[i].seen
        PROVE  SeenOK(ip, n)'
    BY <2>1, SeenStaysOK DEF RowOK
  <2> QED BY <1>1, <2>1 DEF Kept, Later, SeenOK, OfIp
<1>3. Numbered(rows[i].ip_id, rows[i].rnwl_no, past[i].counted)'
  <2>1. ASSUME NEW ip, ip = rows[i].ip_id, NEW no, no = rows[i].rnwl_no,
               NEW n, n = past[i].counted
        PROVE  Numbered(ip, no, n)'
    BY <2>1, NumberedStays DEF RowOK
  <2> QED BY <1>1, <2>1 DEF Kept, Later, Numbered, OfIp
<1>4. past'[i].seen < i /\ past'[i].counted < i
  BY <1>1 DEF Later, RowOK
<1> QED BY <1>2, <1>3, <1>4 DEF RowOK
---------------------------------------------------------------------------
(* Steps that change only what one request holds.                          *)

ReadStep(q) ==
  \/ CheckNoneOpen(q) \/ ReadDomain(q) \/ ReadIp(q) \/ Count(q)
  \/ CheckStatus(q) \/ Refused(q)

LEMMA IdleOK == WorkOK(Idle)
BY DEF WorkOK, Idle

LEMMA CreatingReq ==
  ASSUME RequestsOK, NEW q \in Request, req[q].op = "create"
  PROVE  req[q] \in Creating /\ SeenOK(req[q].ip_id, req[q].seen)
BY DEF RequestsOK, WorkOK, Idle, Creating, Deciding

LEMMA DecidingReq ==
  ASSUME RequestsOK, NEW q \in Request, req[q].op \notin {"none", "create"}
  PROVE  req[q] \in Deciding /\ req[q].id \in Id /\ WorkOK(req[q])
BY DEF RequestsOK, WorkOK, Idle, Creating, Deciding

LEMMA CheckNoneOpenWork ==
  ASSUME TablesOK, RowsOK, NEW ip \in Ip, Open(ip) = {}
  PROVE  WorkOK([op |-> "create", phase |-> "checked", ip_id |-> ip,
                 rnwl_no |-> 0, seen |-> Len(rows), counted |-> 0])
<1>1. ASSUME NEW i \in OfIp(ip, Len(rows))
      PROVE  rows[i].is_rnwd
  <2>1. i \in Id /\ rows[i].status = "RENEWED_BY_NETOPS"
    BY <1>1, IdRange DEF Open, OfIp
  <2> QED BY <2>1 DEF RowsOK, RowOK, StatusOK
<1>2. SeenOK(ip, Len(rows))
  BY <1>1, IdRange DEF SeenOK
<1> QED BY <1>2, IdRange DEF WorkOK, Creating

LEMMA NextPhaseWork ==
  ASSUME RequestsOK, NEW q \in Request, req[q].op = "create",
         NEW phase \in {"domain", "ip"}
  PROVE  WorkOK([req[q] EXCEPT !.phase = phase])
<1>1. req[q] \in Creating /\ SeenOK(req[q].ip_id, req[q].seen)
  BY CreatingReq
<1> QED BY <1>1 DEF WorkOK, Creating

LEMMA CountWork ==
  ASSUME TablesOK, RequestsOK, NEW q \in Request, req[q].op = "create"
  PROVE  WorkOK([req[q] EXCEPT
                   !.phase = "counted", !.counted = Len(rows),
                   !.rnwl_no = Cardinality(OfIp(req[q].ip_id, Len(rows))) + 1])
<1> DEFINE no == Cardinality(OfIp(req[q].ip_id, Len(rows))) + 1
           w == [req[q] EXCEPT !.phase = "counted", !.counted = Len(rows), !.rnwl_no = no]
<1>1. req[q] \in Creating /\ SeenOK(req[q].ip_id, req[q].seen)
  BY CreatingReq
<1>2. Len(rows) \in Nat
  BY IdRange
<1>3. no \in Nat
  <2>1. IsFiniteSet(1 .. Len(rows))
    <3>1. ASSUME NEW m \in Nat
          PROVE  IsFiniteSet(1 .. m)
      BY FS_Interval
    <3> QED BY <1>2, <3>1
  <2>2. OfIp(req[q].ip_id, Len(rows)) \in SUBSET (1 .. Len(rows))
    BY DEF OfIp
  <2>3. IsFiniteSet(OfIp(req[q].ip_id, Len(rows)))
    BY <2>1, <2>2, FS_Subset
  <2> QED BY <2>3, FS_CardinalityType
<1>4. Numbered(req[q].ip_id, no, Len(rows))
  BY <1>2 DEF Numbered
<1> HIDE DEF no
<1>5. /\ w \in Creating /\ w.op = "create" /\ w.phase = "counted"
      /\ w.ip_id = req[q].ip_id /\ w.seen = req[q].seen
      /\ w.counted = Len(rows) /\ w.rnwl_no = no
  BY <1>1, <1>2, <1>3 DEF Creating
<1>6. WorkOK(w)
  BY <1>1, <1>4, <1>5 DEF WorkOK
<1> QED BY <1>6 DEF no

LEMMA CheckStatusWork ==
  ASSUME TablesOK, RowsOK, NEW i \in Id, NEW op \in DOMAIN From, rows[i].status = From[op]
  PROVE  WorkOK([op |-> op, id |-> i])
<1>1. i \in Nat \ {0} /\ StatusOK(rows[i], past[i])
  BY IdRange DEF RowsOK, RowOK
<1>2. op \in {"approve", "reject", "review", "complete"}
  BY DEF From
<1>3. op = "review" => past[i].rejected
  BY <1>1 DEF StatusOK, From
<1>4. op = "complete" => past[i].aprvd
  BY <1>1 DEF StatusOK, From
<1> QED BY <1>1, <1>2, <1>3, <1>4 DEF WorkOK, Deciding

LEMMA ReadWork ==
  ASSUME IpInv, NEW q \in Request, ReadStep(q)
  PROVE  (\E w : WorkOK(w) /\ Become(q, w)) /\ UNCHANGED <<rows, past>>
<1>0. TablesOK /\ RowsOK /\ RequestsOK
  BY InvImpliesParts
<1>1. CASE CheckNoneOpen(q)
  BY <1>0, <1>1, CheckNoneOpenWork DEF CheckNoneOpen
<1>2. CASE ReadDomain(q)
  BY <1>0, <1>2, NextPhaseWork DEF ReadDomain, InPhase
<1>3. CASE ReadIp(q)
  BY <1>0, <1>3, NextPhaseWork DEF ReadIp, InPhase
<1>4. CASE Count(q)
  BY <1>0, <1>4, CountWork DEF Count, InPhase
<1>5. CASE CheckStatus(q)
  BY <1>0, <1>5, CheckStatusWork DEF CheckStatus
<1>6. CASE Refused(q)
  BY <1>6, IdleOK DEF Refused
<1> QED BY <1>1, <1>2, <1>3, <1>4, <1>5, <1>6 DEF ReadStep

LEMMA ReadStepInv ==
  ASSUME IpInv, NEW q \in Request, ReadStep(q)
  PROVE  IpInv'
<1>0. TablesOK /\ RowsOK /\ RequestsOK
  BY InvImpliesParts
<1>1. PICK w : WorkOK(w) /\ Become(q, w)
  BY ReadWork
<1>2. UNCHANGED <<rows, past>>
  BY ReadWork
<1>3. Grown
  BY <1>0, <1>2, UnchangedGrown
<1>4. RequestsOK'
  BY <1>0, <1>1, <1>3, WorkStaysOK, BecomeOK
<1>5. TablesOK' /\ RowsOK'
  BY <1>0, <1>2 DEF TablesOK, RowsOK, RowOK, SeenOK, Numbered, OfIp, Id
<1> QED BY <1>4, <1>5, PartsImplyInv, PTL

---------------------------------------------------------------------------
(* Insert.                                                                 *)

NewRow(w) == [ip_id |-> w.ip_id, rnwl_no |-> w.rnwl_no, is_aprvd |-> "null",
              is_rnwd |-> FALSE, status |-> "PENDING_APPROVAL"]

NewPast(w) == [seen |-> w.seen, counted |-> w.counted, aprvd |-> FALSE,
               rejected |-> FALSE, failed |-> FALSE]

LEMMA InsertInv ==
  ASSUME IpInv, NEW q \in Request, Insert(q)
  PROVE  IpInv'
<1> PICK w : w = req[q]
  OBVIOUS
<1> PICK n : n = Len(rows) + 1
  OBVIOUS
<1>0. TablesOK /\ RowsOK /\ RequestsOK
  BY InvImpliesParts
<1>1. w \in Creating /\ SeenOK(w.ip_id, w.seen) /\ Numbered(w.ip_id, w.rnwl_no, w.counted)
  BY <1>0, CreatingReq DEF Insert, InPhase, RequestsOK, WorkOK
<1>2. NewRow(w) \in Row /\ NewPast(w) \in Past /\ StatusOK(NewRow(w), NewPast(w))
  BY <1>1 DEF NewRow, NewPast, Row, Past, Status, StatusOK, Creating
<1>3. rows' = Append(rows, NewRow(w)) /\ past' = Append(past, NewPast(w))
  BY DEF Insert, NewRow, NewPast
<1>4. /\ TablesOK' /\ Len(rows') = n /\ n \in Nat /\ Id' = Id \cup {n}
      /\ \A i \in Id : rows'[i] = rows[i] /\ past'[i] = past[i] /\ i # n
      /\ rows'[n] = NewRow(w) /\ past'[n] = NewPast(w)
  <2>1. Len(rows) \in Nat /\ Id = 1 .. Len(rows)
    BY <1>0, IdRange
  <2>2. rows' \in Seq(Row) /\ past' \in Seq(Past) /\ Len(past') = Len(rows') /\ Len(rows') = n
    BY <1>0, <1>2, <1>3 DEF TablesOK
  <2>3. \A i \in Id : rows'[i] = rows[i] /\ past'[i] = past[i] /\ i # n
    BY <1>0, <1>2, <1>3, <2>1 DEF TablesOK
  <2>4. rows'[n] = NewRow(w) /\ past'[n] = NewPast(w)
    BY <1>0, <1>2, <1>3 DEF TablesOK
  <2>5. Id' = Id \cup {n} /\ n \in Nat
    BY <2>1, <2>2 DEF Id
  <2> QED BY <2>2, <2>3, <2>4, <2>5 DEF TablesOK
<1>5. Grown
  <2>1. Len(rows) <= Len(rows') /\ Id \subseteq Id'
    BY <1>0, <1>4, IdRange
  <2> QED BY <1>4, <2>1 DEF Grown, Kept, Later
<1>6. RequestsOK'
  <2>1. WorkOK(Idle)' /\ Become(q, Idle)
    BY <1>0, <1>5, IdleOK, WorkStaysOK DEF Insert
  <2> QED BY <1>0, <1>5, <2>1, BecomeOK
<1>7. ASSUME NEW i \in Id
      PROVE  RowOK(i)'
  <2>1. RowOK(i) /\ StatusOK(rows[i], past[i])'
    BY <1>0, <1>4 DEF RowsOK, RowOK, StatusOK
  <2> QED BY <1>0, <1>4, <1>5, <2>1, RowStaysOK
<1>8. RowOK(n)'
  <2>1. w.seen \in 0 .. Len(rows) /\ w.counted \in 0 .. Len(rows)
    BY <1>1 DEF SeenOK, Numbered
  <2>2. past'[n].seen < n /\ past'[n].counted < n
    BY <1>0, <1>4, <2>1, IdRange DEF NewPast
  <2>3. StatusOK(rows[n], past[n])'
    BY <1>2, <1>4 DEF StatusOK
  <2>4. SeenOK(w.ip_id, w.seen)' /\ Numbered(w.ip_id, w.rnwl_no, w.counted)'
    BY <1>0, <1>1, <1>5, SeenStaysOK, NumberedStays
  <2>5. SeenOK(rows[n].ip_id, past[n].seen)'
    BY <1>4, <2>4 DEF SeenOK, OfIp, NewRow, NewPast
  <2>6. Numbered(rows[n].ip_id, rows[n].rnwl_no, past[n].counted)'
    BY <1>4, <2>4 DEF Numbered, OfIp, NewRow, NewPast
  <2> QED BY <2>2, <2>3, <2>5, <2>6 DEF RowOK
<1>9. RowsOK'
  BY <1>4, <1>7, <1>8 DEF RowsOK
<1> QED BY <1>4, <1>6, <1>9, PartsImplyInv, PTL

---------------------------------------------------------------------------
(* Approve, Reject, Review, Complete and UpdateIp: a write of one row and  *)
(* its history.                                                            *)

Written(i, r, p) ==
  /\ rows' = [rows EXCEPT ![i] = r]
  /\ past' = [past EXCEPT ![i] = p]
  /\ r \in Row /\ p \in Past
  /\ Kept(rows[i], r) /\ Later(past[i], p) /\ StatusOK(r, p)

LEMMA WrittenOK ==
  ASSUME TablesOK, RowsOK, NEW i \in Id, NEW r, NEW p, Written(i, r, p)
  PROVE  /\ TablesOK' /\ RowsOK' /\ Grown /\ Id' = Id
         /\ rows'[i] = r /\ past'[i] = p
<1>1. Len(rows) \in Nat /\ Id = 1 .. Len(rows) /\ DOMAIN past = Id
  BY IdRange
<1>2. /\ TablesOK' /\ Id' = Id /\ Len(rows') = Len(rows)
      /\ rows'[i] = r /\ past'[i] = p
      /\ \A k \in Id : k # i => rows'[k] = rows[k] /\ past'[k] = past[k]
  BY <1>1 DEF Written, TablesOK, Id
<1>3. Grown
  <2>1. ASSUME NEW k \in Id
        PROVE  Kept(rows[k], rows'[k]) /\ Later(past[k], past'[k])
    BY <1>2 DEF Written, Kept, Later
  <2> QED BY <1>1, <1>2, <2>1 DEF Grown
<1>4. ASSUME NEW k \in Id
      PROVE  RowOK(k)'
  <2>1. RowOK(k) /\ StatusOK(rows[k], past[k])'
    BY <1>2 DEF Written, RowsOK, RowOK, StatusOK
  <2> QED BY <1>2, <1>3, <2>1, RowStaysOK
<1> QED BY <1>2, <1>3, <1>4 DEF RowsOK

LEMMA DecideWritten ==
  ASSUME IpInv, NEW q \in Request,
         Approve(q) \/ Reject(q) \/ Review(q) \/ Complete(q) \/ UpdateIp(q)
  PROVE  \E r, p : Written(req[q].id, r, p)
<1> DEFINE i == req[q].id
<1>0. TablesOK /\ RowsOK /\ RequestsOK
  BY InvImpliesParts
<1>1. req[q] \in Deciding /\ i \in Id /\ WorkOK(req[q])
  BY <1>0, DecidingReq DEF Approve, Reject, Review, Complete, UpdateIp
<1>2. /\ rows[i] \in Row /\ past[i] \in Past /\ StatusOK(rows[i], past[i])
      /\ i \in DOMAIN rows /\ i \in DOMAIN past
      /\ rows = [rows EXCEPT ![i] = rows[i]] /\ past = [past EXCEPT ![i] = past[i]]
  BY <1>0, <1>1, IdRange DEF RowsOK, RowOK, Id, TablesOK
<1>3. CASE Approve(q)
  <2> DEFINE r == [rows[i] EXCEPT !.is_aprvd = "true", !.status = "APPROVED_BY_HOD"]
             p == [past[i] EXCEPT !.aprvd = TRUE]
  <2>1. rows' = [rows EXCEPT ![i] = r] /\ past' = [past EXCEPT ![i] = p]
    BY <1>2, <1>3 DEF Approve
  <2>2. r \in Row /\ p \in Past /\ Kept(rows[i], r) /\ Later(past[i], p) /\ StatusOK(r, p)
    BY <1>2 DEF Row, Past, Status, Kept, Later, StatusOK
  <2>3. Written(i, r, p)
    BY <2>1, <2>2 DEF Written
  <2> QED BY <2>3
<1>4. CASE Reject(q)
  <2> DEFINE r == [rows[i] EXCEPT !.is_aprvd = "false", !.status = "REJECTED_BY_HOD"]
             p == [past[i] EXCEPT !.rejected = TRUE]
  <2>1. rows' = [rows EXCEPT ![i] = r] /\ past' = [past EXCEPT ![i] = p]
    BY <1>2, <1>4 DEF Reject
  <2>2. r \in Row /\ p \in Past /\ Kept(rows[i], r) /\ Later(past[i], p) /\ StatusOK(r, p)
    BY <1>2 DEF Row, Past, Status, Kept, Later, StatusOK
  <2>3. Written(i, r, p)
    BY <2>1, <2>2 DEF Written
  <2> QED BY <2>3
<1>5. CASE Review(q)
  <2> DEFINE r == [rows[i] EXCEPT !.status = "PENDING_APPROVAL"]
  <2>1. rows' = [rows EXCEPT ![i] = r] /\ past' = [past EXCEPT ![i] = past[i]]
    BY <1>2, <1>5 DEF Review
  <2>2. past[i].rejected
    BY <1>1, <1>5 DEF WorkOK, Review
  <2>3. r \in Row /\ Kept(rows[i], r) /\ Later(past[i], past[i]) /\ StatusOK(r, past[i])
    BY <1>2, <2>2 DEF Row, Past, Status, Kept, Later, StatusOK
  <2>4. Written(i, r, past[i])
    BY <1>2, <2>1, <2>3 DEF Written
  <2> QED BY <2>4
<1>6. CASE Complete(q)
  <2> DEFINE r == [rows[i] EXCEPT !.is_rnwd = TRUE, !.status = "RENEWED_BY_NETOPS"]
  <2>1. rows' = [rows EXCEPT ![i] = r] /\ past' = [past EXCEPT ![i] = past[i]]
    BY <1>2, <1>6 DEF Complete
  <2>2. past[i].aprvd
    BY <1>1, <1>6 DEF WorkOK, Complete
  <2>3. r \in Row /\ Kept(rows[i], r) /\ Later(past[i], past[i]) /\ StatusOK(r, past[i])
    BY <1>2, <2>2 DEF Row, Past, Status, Kept, Later, StatusOK
  <2>4. Written(i, r, past[i])
    BY <1>2, <2>1, <2>3 DEF Written
  <2> QED BY <2>4
<1>7. CASE UpdateIp(q)
  <2> DEFINE p == [past[i] EXCEPT !.failed = TRUE]
  <2>1. rows' = [rows EXCEPT ![i] = rows[i]] /\ past' = [past EXCEPT ![i] = p]
    BY <1>2, <1>7 DEF UpdateIp
  <2>2. p \in Past /\ Kept(rows[i], rows[i]) /\ Later(past[i], p) /\ StatusOK(rows[i], p)
    BY <1>2 DEF Row, Past, Kept, Later, StatusOK
  <2>3. Written(i, rows[i], p)
    BY <1>2, <2>1, <2>2 DEF Written
  <2> QED BY <2>3
<1> QED BY <1>3, <1>4, <1>5, <1>6, <1>7

LEMMA DecideInv ==
  ASSUME IpInv, NEW q \in Request,
         Approve(q) \/ Reject(q) \/ Review(q) \/ Complete(q) \/ UpdateIp(q)
  PROVE  IpInv'
<1> DEFINE i == req[q].id
<1>0. TablesOK /\ RowsOK /\ RequestsOK
  BY InvImpliesParts
<1>1. req[q] \in Deciding /\ i \in Id /\ WorkOK(req[q])
  BY <1>0, DecidingReq DEF Approve, Reject, Review, Complete, UpdateIp
<1>2. TablesOK' /\ RowsOK' /\ Grown
  BY <1>0, <1>1, DecideWritten, WrittenOK
<1>3. \E w : WorkOK(w) /\ Become(q, w)
  <2>1. CASE Complete(q)
    <3>1. past[i].aprvd /\ i \in Nat \ {0}
      BY <1>0, <1>1, <2>1, IdRange DEF WorkOK, Complete
    <3>2. WorkOK([op |-> "update_ip", id |-> i])
      BY <1>1, <3>1 DEF WorkOK, Deciding
    <3> QED BY <2>1, <3>2 DEF Complete
  <2>2. CASE ~Complete(q)
    BY <2>2, IdleOK DEF Approve, Reject, Review, UpdateIp
  <2> QED BY <2>1, <2>2
<1>4. RequestsOK'
  BY <1>0, <1>2, <1>3, WorkStaysOK, BecomeOK
<1> QED BY <1>2, <1>4, PartsImplyInv, PTL

---------------------------------------------------------------------------
LEMMA InitInv == Init => IpInv
<1> SUFFICES ASSUME Init PROVE IpInv
  OBVIOUS
<1>1. TablesOK /\ RowsOK
  BY DEF Init, TablesOK, RowsOK, Id
<1>2. RequestsOK
  <2>1. \A q \in Request : req[q] = Idle
    BY DEF Init
  <2>2. \A q \in Request : WorkOK(req[q])
    BY <2>1, IdleOK
  <2> QED BY <2>2 DEF Init, RequestsOK
<1> QED BY <1>1, <1>2, PartsImplyInv

LEMMA NextInv == IpInv /\ [Next]_vars => IpInv'
<1> SUFFICES ASSUME IpInv, [Next]_vars PROVE IpInv'
  OBVIOUS
<1>1. ASSUME NEW q \in Request, ReadStep(q)
      PROVE  IpInv'
  BY <1>1, ReadStepInv
<1>2. ASSUME NEW q \in Request, Insert(q)
      PROVE  IpInv'
  BY <1>2, InsertInv
<1>3. ASSUME NEW q \in Request,
             Approve(q) \/ Reject(q) \/ Review(q) \/ Complete(q) \/ UpdateIp(q)
      PROVE  IpInv'
  BY <1>3, DecideInv
<1>4. CASE UNCHANGED vars
  <2>1. TablesOK' /\ RowsOK' /\ RequestsOK'
    BY <1>4, InvImpliesParts
      DEF vars, TablesOK, RowsOK, RowOK, RequestsOK, WorkOK, SeenOK, Numbered, OfIp, Id
  <2> QED BY <2>1, PartsImplyInv, PTL
<1> QED BY <1>1, <1>2, <1>3, <1>4 DEF Next, ReadStep

(* IpInv holds in every state: see IpInv in IpRenewal.                     *)
THEOREM Invariance == Spec => []IpInv
BY InitInv, NextInv, PTL DEF Spec

(* Every variable keeps its type (the whole of ipRenewalController).       *)
THEOREM TypeCorrect == Spec => []TypeOK
<1>1. IpInv => TypeOK
  BY DEF IpInv
<1> QED BY <1>1, Invariance, PTL

(* However requests overlap, a renewal of an IP is begun only when those   *)
(* that were there when create looked (controller, createIpRenewal) are    *)
(* renewed.                                                                *)
THEOREM RenewalsInOrder == Spec => []OpenOnlyUnseen
<1>1. IpInv => OpenOnlyUnseen
  BY DEF IpInv
<1> QED BY <1>1, Invariance, PTL

(* However requests overlap, rnwl_no grows from every renewal of an IP to  *)
(* each one that was counted after it was inserted.                        *)
THEOREM NumbersInOrder == Spec => []NumbersGrow
<1>1. IpInv => NumbersGrow
  BY DEF IpInv
<1> QED BY <1>1, Invariance, PTL

(* However requests overlap, no IP is renewed without the HOD's approval,  *)
(* and none reviewed without the HOD's rejection.                          *)
THEOREM HodDecides == Spec => []DecidedByHod
<1>1. IpInv => DecidedByHod
  BY DEF IpInv
<1> QED BY <1>1, Invariance, PTL
============================================================================
