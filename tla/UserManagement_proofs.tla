----------------------- MODULE UserManagement_proofs -----------------------
(***************************************************************************)
(* UserManagement for any employees, bodies, offices and requests: its     *)
(* types, its inductive invariant StaffInv, and the properties that        *)
(* follow.                                                                 *)
(***************************************************************************)
EXTENDS UserManagement, FiniteSetTheorems, SequenceTheorems, TLAPS

USE EmpAssumption, BodyAssumption, OfficeAssumption, BoundAssumption

---------------------------------------------------------------------------
(* StaffInv, sorted by what it is about: the tables, what one request      *)
(* holds, and the employees different requests create.                     *)

TablesTyped ==
  /\ appUser \in [Emp -> Role \cup {"none"}]
  /\ table \in [Role -> [Emp -> Row \cup {NoRow}]]
  /\ project \in Seq(Body) /\ Len(project) <= MaxProjects
  /\ answered \subseteq Body
  /\ past \in Seq(SUBSET Emp) /\ Len(past) = Len(project)

TablesOK ==
  /\ TablesTyped
  /\ OneRole /\ StaffedByActive /\ AllOrNothing /\ ToldIsAssigned
  /\ HodsApart /\ HodOfRow

NewOf(w) == IF w.op = "assign" THEN w.new ELSE {}

CheckedBy(w, r) == w.phase = "project" \/ (w.phase = "ARM" /\ r = "DRM")

CreatesOK(w) ==
  \A e \in Emp, r \in Staff : <<e, r>> \in w.new =>
    /\ appUser[e] = "none"
    /\ w.body[r] = e
    /\ w.phase \in {"DRM", "ARM", "project"}
    /\ w.missing => w.body[w.phase] # e

ChecksOK(w) ==
  \A r \in Staff : CheckedBy(w, r) =>
    w.body[r] \notin w.gone /\ (<<w.body[r], r>> \in w.new \/ appUser[w.body[r]] = r)

AssignOK(w) ==
  /\ CreatesOK(w) /\ ChecksOK(w)
  /\ w.missing => w.phase \in Staff
  /\ w.gone \subseteq Gone
  /\ w.phase = "committed" => \E i \in DOMAIN project : project[i] = w.body
  /\ w.phase # "HOD" => IsHod(w.body.HOD, w.centre, w.grp)

OfficialOK(w, r, e) ==
  e # Nobody => /\ e \notin w.gone /\ table[r][e] # NoRow
                /\ r # "HODHPC" => table[r][e].centre = w.centre

OfficialsOK(w) ==
  w.gone \subseteq Gone /\ \A r \in DOMAIN w.answer : OfficialOK(w, r, w.answer[r])

Reach(w) == (w.page - 1) * PageSize + Cardinality(w.data)

ListOK(w) ==
  w.data # {} => /\ w.phase = "found" => Reach(w) <= Cardinality(ProjectsOf(w.emp))
                 /\ w.phase = "answered" => Reach(w) <= w.totalItems

Work == {Idle} \cup Assigning \cup Updating \cup Asking \cup Listing \cup LoggingIn

WorkOK(w) ==
  /\ w \in Work
  /\ w.op = "assign" => AssignOK(w)
  /\ w.op = "officials" => OfficialsOK(w)
  /\ w.op = "list" => ListOK(w)

Apart ==
  \A p, q \in Request, e \in Emp, r, s \in Staff :
    <<e, r>> \in NewOf(req[p]) /\ <<e, s>> \in NewOf(req[q]) => p = q /\ r = s

RequestsOK ==
  req = [q \in Request |-> req[q]] /\ (\A q \in Request : WorkOK(req[q])) /\ Apart

(* Who is the HOD of those an assignment has created: the group's one.     *)
LEMMA TheHod == TablesOK => HodAssigned
<1> SUFFICES ASSUME TablesOK, NEW e \in Hire, NEW r \in Staff, table[r][e] # NoRow,
                    NEW hod \in Holders("HOD", table[r][e].centre, table[r][e].grp)
             PROVE  \E i \in DOMAIN project : project[i].HOD = hod /\ project[i][r] = e
  BY DEF HodAssigned
<1>1. PICK i \in DOMAIN project :
        project[i][r] = e /\ IsHod(project[i].HOD, table[r][e].centre, table[r][e].grp)
  BY DEF TablesOK, HodOfRow
<1>2. hod \in Emp /\ table["HOD"][hod] # NoRow /\ table["HOD"][hod].grp = table[r][e].grp
  BY DEF Holders, IsActive
<1>3. project[i] \in Body /\ project[i].HOD \in Emp
  BY DEF TablesOK, TablesTyped
<1>4. hod = project[i].HOD
  BY <1>1, <1>2, <1>3 DEF TablesOK, HodsApart, IsHod
<1> QED BY <1>1, <1>4

LEMMA InvIsParts == StaffInv <=> up \in BOOLEAN /\ TablesOK /\ RequestsOK
<1>1. ASSUME StaffInv
      PROVE  up \in BOOLEAN /\ TablesOK /\ RequestsOK
  <2>1. up \in BOOLEAN /\ TablesOK
    BY <1>1 DEF StaffInv, TypeOK, TablesOK, TablesTyped
  <2>2. Apart
    BY <1>1 DEF StaffInv, CreatedOnce, Apart, New, NewOf
  <2>3. ASSUME NEW q \in Request
        PROVE  WorkOK(req[q])
    <3>1. req[q] \in Work
      BY <1>1 DEF StaffInv, TypeOK, Work
    <3>2. ASSUME req[q].op = "assign"
          PROVE  AssignOK(req[q])
      <4>1. New(q) = req[q].new
        BY <3>2 DEF New
      <4>2. CreatesOK(req[q])
        BY <1>1, <4>1 DEF StaffInv, CreatedApart, CreatesOK
      <4>3. ChecksOK(req[q])
        BY <1>1, <3>2, <4>1 DEF StaffInv, CheckedIsStaff, ChecksOK, Checked, CheckedBy
      <4> QED BY <1>1, <3>2, <4>2, <4>3
              DEF StaffInv, AssignOK, MissingInTurn, GoneForGood, CommittedIsThere, HodOfRequest
    <3>3. req[q].op = "officials" => OfficialsOK(req[q])
      BY <1>1 DEF StaffInv, OfficialsOK, OfficialOK, OfficialsInOffice, GoneForGood
    <3>4. req[q].op = "list" => ListOK(req[q])
      BY <1>1 DEF StaffInv, ListOK, Reach, ListIsCounted, FoundIsThere
    <3> QED BY <3>1, <3>2, <3>3, <3>4 DEF WorkOK
  <2> QED BY <1>1, <2>1, <2>2, <2>3 DEF RequestsOK, StaffInv, TypeOK
<1>2. ASSUME up \in BOOLEAN, TablesOK, RequestsOK
      PROVE  StaffInv
  <2>1. TypeOK
    BY <1>2 DEF TypeOK, TablesOK, TablesTyped, RequestsOK, WorkOK, Work
  <2>2. OneRole /\ StaffedByActive /\ AllOrNothing /\ ToldIsAssigned /\ HodsApart /\ HodOfRow
    BY <1>2 DEF TablesOK
  <2>3. HodAssigned
    BY <1>2, TheHod
  <2>4. CreatedOnce
    BY <1>2 DEF CreatedOnce, RequestsOK, Apart, New, NewOf
  <2>5. \A q \in Request : req[q].op = "assign" => AssignOK(req[q])
    BY <1>2 DEF RequestsOK, WorkOK
  <2>6. CreatedApart
    BY <2>5 DEF CreatedApart, New, AssignOK, CreatesOK
  <2>7. CheckedIsStaff
    BY <2>5 DEF CheckedIsStaff, Checked, CheckedBy, New, AssignOK, ChecksOK
  <2>8. MissingInTurn /\ CommittedIsThere /\ HodOfRequest
    BY <2>5 DEF MissingInTurn, CommittedIsThere, HodOfRequest, AssignOK
  <2>9. GoneForGood
    BY <1>2, <2>5 DEF GoneForGood, AssignOK, RequestsOK, WorkOK, OfficialsOK
  <2>10. OfficialsInOffice
    BY <1>2 DEF OfficialsInOffice, RequestsOK, WorkOK, OfficialsOK, OfficialOK
  <2>11. ListIsCounted /\ FoundIsThere
    BY <1>2 DEF ListIsCounted, FoundIsThere, RequestsOK, WorkOK, ListOK, Reach
  <2> QED BY <2>1, <2>2, <2>3, <2>4, <2>6, <2>7, <2>8, <2>9, <2>10, <2>11 DEF StaffInv
<1> QED BY <1>1, <1>2

---------------------------------------------------------------------------
(* The tables.                                                             *)

LEMMA BodyStaff ==
  ASSUME NEW b \in Body, NEW r \in Staff
  PROVE  b[r] \in Emp /\ b.HOD \in Emp
<1>1. b \in [name: STRING, HOD: Emp, DRM: Emp, ARM: Emp]
  OBVIOUS
<1>2. CASE r = "DRM"
  BY <1>1, <1>2
<1>3. CASE r = "ARM"
  BY <1>1, <1>3
<1> QED BY <1>1, <1>2, <1>3 DEF Staff

LEMMA RowIsOne ==
  ASSUME NEW row \in Row
  PROVE  row # NoRow
BY DEF Row, NoRow

LEMMA RowOf ==
  ASSUME TablesTyped, NEW r \in Role, NEW e \in Emp, table[r][e] # NoRow
  PROVE  table[r][e] \in Row
BY DEF TablesTyped

LEMMA NewRowIsRow ==
  ASSUME NEW centre \in Nat, NEW grp \in Nat
  PROVE  /\ NewRow(centre, grp) \in Row /\ NewRow(centre, grp) # NoRow
         /\ NewRow(centre, grp).centre = centre /\ NewRow(centre, grp).grp = grp
         /\ NewRow(centre, grp).is_active
<1>1. NewRow(centre, grp) \in Row
  BY DEF NewRow, Row
<1> QED BY <1>1, RowIsOne DEF NewRow

(* Who is active is not gone, and neither is who is no user.               *)
LEMMA StillThere ==
  ASSUME TablesOK, NEW e \in Emp,
         appUser[e] = "none" \/ \E r \in Role : IsActive(r, e)
  PROVE  e \notin Gone
<1>1. CASE appUser[e] = "none"
  BY <1>1 DEF TablesOK, OneRole, Gone, Role, Staff
<1>2. ASSUME NEW r \in Role, IsActive(r, e)
      PROVE  e \notin Gone
  <2>1. \A s \in Role : table[s][e] # NoRow => s = r
    BY <1>2 DEF IsActive, TablesOK, OneRole
  <2> QED BY <1>2, <2>1 DEF Gone
<1> QED BY <1>1, <1>2

LEMMA UpTo ==
  ASSUME NEW m \in Nat
  PROVE  IsFiniteSet(1 .. m)
BY FS_Interval

LEMMA ProjectAt ==
  ASSUME TablesTyped
  PROVE  /\ DOMAIN project = 1 .. Len(project) /\ Len(project) \in Nat
         /\ DOMAIN past = DOMAIN project /\ IsFiniteSet(DOMAIN project)
         /\ \A i \in DOMAIN project : i \in Nat /\ project[i] \in Body
<1>1. DOMAIN project = 1 .. Len(project) /\ Len(project) \in Nat /\ DOMAIN past = DOMAIN project
  BY DEF TablesTyped
<1>2. \A i \in DOMAIN project : i \in Nat /\ project[i] \in Body
  BY <1>1 DEF TablesTyped
<1>3. IsFiniteSet(DOMAIN project)
  BY <1>1, UpTo
<1> QED BY <1>1, <1>2, <1>3

LEMMA ProjectsCounted ==
  ASSUME TablesTyped, NEW e
  PROVE  /\ ProjectsOf(e) \subseteq DOMAIN project /\ ProjectsOf(e) \subseteq Nat
         /\ IsFiniteSet(ProjectsOf(e)) /\ Cardinality(ProjectsOf(e)) \in Nat
<1>1. ProjectsOf(e) \subseteq DOMAIN project
  BY DEF ProjectsOf
<1>2. IsFiniteSet(ProjectsOf(e)) /\ ProjectsOf(e) \subseteq Nat
  BY <1>1, ProjectAt, FS_Subset
<1> QED BY <1>1, <1>2, FS_CardinalityType

(* What no step takes back: a project, a user's role, the centre and the   *)
(* group of a row, and that somebody is gone.                              *)
SameOffice(old, new) == new # NoRow /\ new.centre = old.centre /\ new.grp = old.grp

Grown ==
  /\ \A i \in DOMAIN project : i \in DOMAIN project' /\ project'[i] = project[i]
  /\ \A e \in Emp : appUser[e] # "none" => appUser'[e] = appUser[e]
  /\ \A r \in Role, e \in Emp : table[r][e] # NoRow => SameOffice(table[r][e], table'[r][e])
  /\ Gone \subseteq Gone'

LEMMA HodStays ==
  ASSUME Grown, NEW e \in Emp, NEW centre, NEW grp, IsHod(e, centre, grp)
  PROVE  IsHod(e, centre, grp)'
<1>1. SameOffice(table["HOD"][e], table'["HOD"][e])
  BY DEF Grown, IsHod, Role
<1> QED BY <1>1 DEF IsHod, SameOffice

LEMMA SameTables ==
  ASSUME TablesOK, UNCHANGED <<db, history>>
  PROVE  TablesOK' /\ Grown
<1>1. UNCHANGED <<appUser, table, project, answered, past>>
  BY DEF db, history
<1>2. Gone' = Gone
  BY <1>1 DEF Gone, IsActive
<1>3. Grown
  BY <1>1, <1>2 DEF Grown, SameOffice
<1>4. TablesOK'
  BY <1>1 DEF TablesOK, TablesTyped, OneRole, StaffedByActive, AllOrNothing, ToldIsAssigned,
              HodsApart, HodOfRow, IsHod
<1> QED BY <1>3, <1>4
---------------------------------------------------------------------------
(* The requests.                                                           *)

(* What a request holds stays right while the tables grow, unless one it   *)
(* is creating becomes a user.                                             *)
LEMMA WorkKept ==
  ASSUME TablesOK, TablesOK', Grown, NEW w, WorkOK(w),
         \A e \in Emp, r \in Staff : <<e, r>> \in NewOf(w) => appUser'[e] = "none"
  PROVE  WorkOK(w)'
<1>1. ASSUME w.op = "assign"
      PROVE  AssignOK(w)'
  <2>0. AssignOK(w) /\ w \in Assigning /\ NewOf(w) = w.new
    BY <1>1 DEF WorkOK, Work, Idle, Assigning, Updating, Asking, Listing, LoggingIn, NewOf
  <2>1. CreatesOK(w)'
    BY <2>0 DEF AssignOK, CreatesOK
  <2>2. ChecksOK(w)'
    <3>1. ASSUME NEW r \in Staff, CheckedBy(w, r)
          PROVE  w.body[r] \notin w.gone /\ (<<w.body[r], r>> \in w.new \/ appUser'[w.body[r]] = r)
      <4>1. w.body[r] \notin w.gone /\ (<<w.body[r], r>> \in w.new \/ appUser[w.body[r]] = r)
        BY <2>0, <3>1 DEF AssignOK, ChecksOK
      <4>2. w.body[r] \in Emp
        BY <2>0, BodyStaff DEF Assigning
      <4>3. r # "none"
        BY DEF Staff
      <4> QED BY <4>1, <4>2, <4>3 DEF Grown
    <3> QED BY <3>1 DEF ChecksOK
  <2>3. w.gone \subseteq Gone'
    BY <2>0 DEF AssignOK, Grown
  <2>4. w.phase = "committed" => \E i \in DOMAIN project' : project'[i] = w.body
    BY <2>0 DEF AssignOK, Grown
  <2>5. w.phase # "HOD" => IsHod(w.body.HOD, w.centre, w.grp)'
    <3>1. w.body.HOD \in Emp
      BY <2>0 DEF Assigning
    <3> QED BY <2>0, <3>1, HodStays DEF AssignOK
  <2> QED BY <2>0, <2>1, <2>2, <2>3, <2>4, <2>5 DEF AssignOK
<1>2. ASSUME w.op = "officials"
      PROVE  OfficialsOK(w)'
  <2>0. OfficialsOK(w) /\ w \in Asking
    BY <1>2 DEF WorkOK, Work, Idle, Assigning, Updating, Asking, Listing, LoggingIn
  <2>1. PICK asked \in SUBSET Office : w.answer \in [asked -> Emp \cup {Nobody}]
    BY <2>0 DEF Asking
  <2>2. ASSUME NEW r \in asked
        PROVE  OfficialOK(w, r, w.answer[r])'
    <3>1. r \in Role /\ w.answer[r] \in Emp \cup {Nobody}
      BY <2>1
    <3>2. OfficialOK(w, r, w.answer[r])
      BY <2>0, <2>1 DEF OfficialsOK
    <3>3. CASE w.answer[r] = Nobody
      BY <3>3 DEF OfficialOK
    <3>4. CASE w.answer[r] # Nobody
      <4>1. SameOffice(table[r][w.answer[r]], table'[r][w.answer[r]])
        BY <3>1, <3>2, <3>4 DEF Grown, OfficialOK
      <4> QED BY <3>2, <3>4, <4>1 DEF OfficialOK, SameOffice
    <3> QED BY <3>3, <3>4
  <2> QED BY <2>0, <2>1, <2>2 DEF OfficialsOK, Grown
<1>3. ASSUME w.op = "list"
      PROVE  ListOK(w)'
  <2>0. ListOK(w) /\ w \in Listing
    BY <1>3 DEF WorkOK, Work, Idle, Assigning, Updating, Asking, Listing, LoggingIn
  <2>1. ProjectsOf(w.emp) \subseteq ProjectsOf(w.emp)'
    BY DEF ProjectsOf, Grown
  <2>2. /\ Cardinality(ProjectsOf(w.emp)) <= Cardinality(ProjectsOf(w.emp)')
        /\ Cardinality(ProjectsOf(w.emp)) \in Nat /\ Cardinality(ProjectsOf(w.emp)') \in Nat
    <3>1. TablesTyped /\ TablesTyped'
      BY DEF TablesOK
    <3>2. IsFiniteSet(ProjectsOf(w.emp)')
      <4>1. ProjectsOf(w.emp)' \subseteq DOMAIN project'
        BY DEF ProjectsOf
      <4>2. IsFiniteSet(DOMAIN project')
        <5>1. DOMAIN project' = 1 .. Len(project') /\ Len(project') \in Nat
          BY <3>1 DEF TablesTyped
        <5> QED BY <5>1, UpTo
      <4> QED BY <4>1, <4>2, FS_Subset
    <3> QED BY <2>1, <3>2, FS_Subset, FS_CardinalityType
  <2>3. Reach(w) \in Int
    <3>1. w.data \subseteq 1 .. MaxProjects /\ IsFiniteSet(1 .. MaxProjects)
      BY <2>0, UpTo DEF Listing
    <3>2. Cardinality(w.data) \in Nat
      BY <3>1, FS_Subset, FS_CardinalityType
    <3> QED BY <2>0, <3>2 DEF Reach, Listing
  <2> QED BY <2>0, <2>2, <2>3 DEF ListOK, Reach
<1> QED BY <1>1, <1>2, <1>3 DEF WorkOK

LEMMA NothingNew ==
  ASSUME NEW w, w.op # "assign"
  PROVE  NewOf(w) = {}
BY DEF NewOf

(* The other requests while one changes and the tables grow.               *)
LEMMA OthersKept ==
  ASSUME TablesOK, TablesOK', Grown, RequestsOK, NEW q \in Request, NEW v, WorkOK(v)',
         req' = [req EXCEPT ![q] = v],
         \A p \in Request \ {q}, e \in Emp, r \in Staff :
           <<e, r>> \in NewOf(req[p]) =>
             appUser'[e] = "none" /\ \A s \in Staff : <<e, s>> \notin NewOf(v),
         \A e \in Emp, r, s \in Staff :
           <<e, r>> \in NewOf(v) /\ <<e, s>> \in NewOf(v) => r = s
  PROVE  RequestsOK'
<1>1. \A p \in Request : req'[p] = IF p = q THEN v ELSE req[p]
  BY DEF RequestsOK
<1>2. req' = [p \in Request |-> req'[p]]
  BY DEF RequestsOK
<1>3. ASSUME NEW p \in Request
      PROVE  WorkOK(req[p])'
  <2>1. PICK w : w = req'[p]
    OBVIOUS
  <2>2. WorkOK(w)'
    <3>1. CASE p = q
      BY <1>1, <2>1, <3>1
    <3>2. CASE p # q
      <4>1. w = req[p] /\ WorkOK(w)
        BY <1>1, <2>1, <3>2 DEF RequestsOK
      <4>2. \A e \in Emp, r \in Staff : <<e, r>> \in NewOf(w) => appUser'[e] = "none"
        BY <3>2, <4>1
      <4> QED BY <4>1, <4>2, WorkKept
    <3> QED BY <3>1, <3>2
  <2>3. WorkOK(req[p])' <=> WorkOK(w)'
    BY <2>1 DEF WorkOK, AssignOK, CreatesOK, ChecksOK, CheckedBy, IsHod, OfficialsOK, OfficialOK,
                ListOK, Reach
  <2> QED BY <2>2, <2>3
<1>4. Apart'
  <2>1. ASSUME NEW o \in Request, NEW p \in Request, NEW e \in Emp, NEW r \in Staff, NEW s \in Staff,
               <<e, r>> \in NewOf(req'[o]), <<e, s>> \in NewOf(req'[p])
        PROVE  o = p /\ r = s
    <3>1. CASE o # q /\ p # q
      BY <1>1, <2>1, <3>1 DEF RequestsOK, Apart
    <3>2. CASE o = q /\ p # q
      BY <1>1, <2>1, <3>2
    <3>3. CASE o # q /\ p = q
      BY <1>1, <2>1, <3>3
    <3>4. CASE o = q /\ p = q
      BY <1>1, <2>1, <3>4
    <3> QED BY <3>1, <3>2, <3>3, <3>4
  <2> QED BY <2>1 DEF Apart, NewOf
<1> QED BY <1>2, <1>3, <1>4 DEF RequestsOK

LEMMA NewAreNone ==
  ASSUME RequestsOK, NEW p \in Request, NEW e \in Emp, NEW r \in Staff, <<e, r>> \in NewOf(req[p])
  PROVE  appUser[e] = "none"
BY DEF RequestsOK, WorkOK, AssignOK, CreatesOK, NewOf

(* One request goes on, and the tables stay as they are.                   *)
LEMMA RequestStep ==
  ASSUME TablesOK, UNCHANGED <<db, history>>, RequestsOK, NEW q \in Request,
         NEW v, WorkOK(v), req' = [req EXCEPT ![q] = v],
         \A p \in Request \ {q}, e \in Emp, r, s \in Staff :
           <<e, r>> \in NewOf(req[p]) => <<e, s>> \notin NewOf(v),
         \A e \in Emp, r, s \in Staff :
           <<e, r>> \in NewOf(v) /\ <<e, s>> \in NewOf(v) => r = s
  PROVE  TablesOK' /\ RequestsOK'
<1>1. TablesOK' /\ Grown /\ UNCHANGED appUser
  BY SameTables DEF db
<1>2. \A p \in Request, e \in Emp, r \in Staff : <<e, r>> \in NewOf(req[p]) => appUser'[e] = "none"
  BY <1>1, NewAreNone
<1>3. \A e \in Emp, r \in Staff : <<e, r>> \in NewOf(v) => appUser'[e] = "none"
  BY <1>1 DEF WorkOK, AssignOK, CreatesOK, NewOf
<1>4. WorkOK(v)'
  BY <1>1, <1>3, WorkKept
<1> QED BY <1>1, <1>2, <1>4, OthersKept

(* The request creates no more employees than before.                      *)
LEMMA SameNew ==
  ASSUME TablesOK, UNCHANGED <<db, history>>, RequestsOK, NEW q \in Request,
         NEW v, WorkOK(v), req' = [req EXCEPT ![q] = v], NewOf(v) \subseteq NewOf(req[q])
  PROVE  TablesOK' /\ RequestsOK'
<1>1. \A p \in Request \ {q}, e \in Emp, r, s \in Staff :
        <<e, r>> \in NewOf(req[p]) => <<e, s>> \notin NewOf(v)
  BY DEF RequestsOK, Apart
<1>2. \A e \in Emp, r, s \in Staff : <<e, r>> \in NewOf(v) /\ <<e, s>> \in NewOf(v) => r = s
  BY DEF RequestsOK, Apart
<1> QED BY <1>1, <1>2, RequestStep

LEMMA IdleIsOK == WorkOK(Idle)
BY DEF WorkOK, Work, Idle

(* A request ends.                                                         *)
LEMMA EndStep ==
  ASSUME TablesOK, UNCHANGED <<db, history>>, RequestsOK, NEW q \in Request, Become(q, Idle)
  PROVE  TablesOK' /\ RequestsOK'
<1>1. NewOf(Idle) = {}
  BY DEF NewOf, Idle
<1> QED BY <1>1, IdleIsOK, SameNew DEF Become
---------------------------------------------------------------------------
(* The assignment, up to its commit.                                       *)

LEMMA Assigned ==
  ASSUME RequestsOK, NEW q \in Request, req[q].op = "assign"
  PROVE  /\ req[q] \in Assigning /\ AssignOK(req[q]) /\ NewOf(req[q]) = req[q].new
         /\ req[q].body \in Body /\ req[q].body.HOD \in Emp
         /\ \A r \in Staff : req[q].body[r] \in Emp
<1>1. req[q] \in Assigning /\ AssignOK(req[q]) /\ NewOf(req[q]) = req[q].new
  BY DEF RequestsOK, WorkOK, Work, Idle, Assigning, Updating, Asking, Listing, LoggingIn, NewOf
<1>2. req[q].body \in Body
  BY <1>1 DEF Assigning
<1> QED BY <1>1, <1>2, BodyStaff DEF Staff

LEMMA BeginOK ==
  ASSUME TablesOK, RequestsOK, NEW q \in Request, Begin(q)
  PROVE  TablesOK' /\ RequestsOK'
<1>1. PICK body \in Body :
        Become(q, [op |-> "assign", phase |-> "HOD", missing |-> FALSE, body |-> body,
                   centre |-> 0, grp |-> 0, new |-> {}, gone |-> Gone])
  BY DEF Begin
<1>2. PICK v : v = [op |-> "assign", phase |-> "HOD", missing |-> FALSE, body |-> body,
                    centre |-> 0, grp |-> 0, new |-> {}, gone |-> Gone]
  OBVIOUS
<1>3. v \in Assigning
  BY <1>2 DEF Assigning, Gone
<1>4. CreatesOK(v) /\ ChecksOK(v)
  BY <1>2 DEF CreatesOK, ChecksOK, CheckedBy
<1>5. AssignOK(v)
  BY <1>2, <1>4 DEF AssignOK
<1>6. WorkOK(v) /\ NewOf(v) = {}
  BY <1>2, <1>3, <1>5 DEF WorkOK, Work, NewOf
<1> QED BY <1>1, <1>2, <1>6, SameNew DEF Begin, Become

LEMMA FindHodOK ==
  ASSUME TablesOK, RequestsOK, NEW q \in Request, FindHod(q)
  PROVE  TablesOK' /\ RequestsOK'
<1> PICK w : w = req[q]
  OBVIOUS
<1>1. /\ w \in Assigning /\ AssignOK(w) /\ w.op = "assign" /\ w.phase = "HOD"
      /\ w.body.HOD \in Emp
  BY Assigned DEF FindHod, In
<1>2. PICK hod : hod = table["HOD"][w.body.HOD]
  OBVIOUS
<1>3. hod \in Row /\ hod # NoRow
  BY <1>1, <1>2, RowOf DEF FindHod, TablesOK, Role
<1>4. PICK v : v = [w EXCEPT !.phase = "DRM", !.centre = hod.centre, !.grp = hod.grp]
  OBVIOUS
<1>5. /\ v \in Assigning /\ v.op = "assign" /\ v.phase = "DRM" /\ v.body = w.body
      /\ v.new = w.new /\ v.missing = w.missing /\ v.gone = w.gone
      /\ v.centre = hod.centre /\ v.grp = hod.grp
  BY <1>1, <1>3, <1>4 DEF Assigning, Row
<1>6. \A e \in Emp, r \in Staff : <<e, r>> \notin w.new
  BY <1>1 DEF AssignOK, CreatesOK
<1>7. CreatesOK(v) /\ ChecksOK(v)
  BY <1>5, <1>6 DEF CreatesOK, ChecksOK, CheckedBy
<1>8. IsHod(v.body.HOD, v.centre, v.grp)
  BY <1>2, <1>3, <1>5 DEF IsHod
<1>9. AssignOK(v)
  BY <1>1, <1>5, <1>7, <1>8 DEF AssignOK, Staff
<1>10. WorkOK(v) /\ NewOf(v) = NewOf(w)
  BY <1>1, <1>5, <1>9 DEF WorkOK, Work, NewOf
<1>11. req' = [req EXCEPT ![q] = v]
  BY <1>2, <1>4 DEF FindHod, RequestsOK
<1> QED BY <1>10, <1>11, SameNew DEF FindHod

(* A check that holds leads to the next one.                               *)
Passed(w, r, new) == [w EXCEPT !.missing = FALSE, !.phase = After(r), !.new = new]

LEMMA PassedOK ==
  ASSUME NEW w \in Assigning, AssignOK(w), NEW r \in Staff, w.phase = r,
         NEW v, NEW new, v = Passed(w, r, new),
         new \in SUBSET (Emp \X Staff),
         \A e \in Emp, s \in Staff :
           <<e, s>> \in new => appUser[e] = "none" /\ w.body[s] = e,
         w.new \subseteq new,
         w.body[r] \notin w.gone, <<w.body[r], r>> \in new \/ appUser[w.body[r]] = r
  PROVE  WorkOK(v) /\ NewOf(v) = new
<1>1. After(r) \in {"ARM", "project"} /\ (After(r) = "ARM" => r = "DRM") /\ (After(r) = "project" => r = "ARM")
  BY DEF After, Staff
<1>2. /\ v \in Assigning /\ v.op = "assign" /\ v.phase = After(r) /\ v.body = w.body
      /\ v.new = new /\ v.missing = FALSE /\ v.gone = w.gone
      /\ v.centre = w.centre /\ v.grp = w.grp
  BY <1>1 DEF Assigning, Passed
<1>3. CreatesOK(v)
  BY <1>1, <1>2 DEF CreatesOK
<1>4. ChecksOK(v)
  <2>1. ASSUME NEW s \in Staff, CheckedBy(v, s)
        PROVE  v.body[s] \notin v.gone /\ (<<v.body[s], s>> \in v.new \/ appUser[v.body[s]] = s)
    <3>1. s = r \/ CheckedBy(w, s)
      BY <1>1, <1>2, <2>1 DEF CheckedBy, Staff
    <3>2. CASE s = r
      BY <1>2, <3>2
    <3>3. CASE CheckedBy(w, s)
      BY <1>2, <3>3 DEF AssignOK, ChecksOK
    <3> QED BY <3>1, <3>2, <3>3
  <2> QED BY <2>1 DEF ChecksOK
<1>5. AssignOK(v)
  BY <1>1, <1>2, <1>3, <1>4 DEF AssignOK, Staff
<1> QED BY <1>2, <1>5 DEF WorkOK, Work, NewOf

LEMMA CheckUserOK ==
  ASSUME TablesOK, RequestsOK, NEW q \in Request, NEW r \in Staff, CheckUser(q, r)
  PROVE  TablesOK' /\ RequestsOK'
<1> PICK w : w = req[q]
  OBVIOUS
<1>1. /\ w \in Assigning /\ AssignOK(w) /\ w.op = "assign" /\ w.phase = r /\ ~w.missing
      /\ w.body[r] \in Emp /\ NewOf(w) = w.new
  BY Assigned DEF CheckUser, In
<1>2. UNCHANGED <<db, history>> /\ r \in Role
  BY DEF CheckUser, Role
<1>3. CASE IsUser(q, w.body[r])
  <2>1. PICK v : v = [w EXCEPT !.phase = After(r)]
    OBVIOUS
  <2>2. IsValid(q, w.body[r], r) /\ req' = [req EXCEPT ![q] = v]
    BY <1>3, <2>1 DEF CheckUser, RequestsOK
  <2>3. v = Passed(w, r, w.new)
    BY <1>1, <2>1 DEF Assigning, Passed
  <2>4. \A e \in Emp, s \in Staff : <<e, s>> \in w.new => appUser[e] = "none" /\ w.body[s] = e
    BY <1>1 DEF AssignOK, CreatesOK
  <2>5. <<w.body[r], r>> \in w.new \/ IsActive(r, w.body[r])
    BY <2>2 DEF IsValid
  <2>6. w.body[r] \notin Gone
    BY <1>1, <1>2, <2>4, <2>5, StillThere
  <2>7. <<w.body[r], r>> \in w.new \/ appUser[w.body[r]] = r
    BY <1>1, <1>2, <2>5 DEF IsActive, TablesOK, OneRole
  <2>8. w.body[r] \notin w.gone /\ w.new \in SUBSET (Emp \X Staff)
    BY <1>1, <2>6 DEF AssignOK, Assigning
  <2>9. WorkOK(v) /\ NewOf(v) = w.new
    BY <1>1, <2>3, <2>4, <2>7, <2>8, PassedOK
  <2> QED BY <1>1, <1>2, <2>2, <2>9, SameNew
<1>4. CASE ~IsUser(q, w.body[r])
  <2>1. PICK v : v = [w EXCEPT !.missing = TRUE]
    OBVIOUS
  <2>2. req' = [req EXCEPT ![q] = v]
    BY <1>4, <2>1 DEF CheckUser, RequestsOK
  <2>3. /\ v \in Assigning /\ v.op = "assign" /\ v.phase = w.phase /\ v.body = w.body
        /\ v.new = w.new /\ v.missing /\ v.gone = w.gone
        /\ v.centre = w.centre /\ v.grp = w.grp
    BY <1>1, <2>1 DEF Assigning
  <2>4. \A s \in Staff : <<w.body[r], s>> \notin w.new
    BY <1>4 DEF IsUser
  <2>5. CreatesOK(v)
    BY <1>1, <2>3, <2>4 DEF AssignOK, CreatesOK
  <2>6. ChecksOK(v)
    BY <1>1, <2>3 DEF AssignOK, ChecksOK, CheckedBy
  <2>7. AssignOK(v)
    BY <1>1, <2>3, <2>5, <2>6 DEF AssignOK
  <2>8. WorkOK(v) /\ NewOf(v) = w.new
    BY <2>3, <2>7 DEF WorkOK, Work, NewOf
  <2> QED BY <1>1, <1>2, <2>2, <2>8, SameNew
<1> QED BY <1>3, <1>4

LEMMA CreateUserOK ==
  ASSUME TablesOK, RequestsOK, NEW q \in Request, NEW r \in Staff, CreateUser(q, r)
  PROVE  TablesOK' /\ RequestsOK'
<1> PICK w : w = req[q]
  OBVIOUS
<1> PICK e : e = w.body[r]
  OBVIOUS
<1>1. /\ w \in Assigning /\ AssignOK(w) /\ w.op = "assign" /\ w.phase = r /\ w.missing
      /\ e \in Emp /\ NewOf(w) = w.new
  BY Assigned DEF CreateUser, In
<1>2. UNCHANGED <<db, history>> /\ appUser[e] = "none" /\ ~IsTaken(q, e)
  BY DEF CreateUser
<1>3. PICK new : new = w.new \cup {<<e, r>>}
  OBVIOUS
<1>4. PICK v : v = Passed(w, r, new)
  OBVIOUS
<1>5. req' = [req EXCEPT ![q] = v]
  BY <1>3, <1>4 DEF CreateUser, RequestsOK, Passed
<1>6. new \in SUBSET (Emp \X Staff)
  BY <1>1, <1>3 DEF Assigning
<1>7. \A f \in Emp, s \in Staff : <<f, s>> \in w.new =>
        appUser[f] = "none" /\ w.body[s] = f /\ f # e
  BY <1>1 DEF AssignOK, CreatesOK
<1>8. \A f \in Emp, s \in Staff : <<f, s>> \in new => appUser[f] = "none" /\ w.body[s] = f
  BY <1>2, <1>3, <1>7
<1>9. e \notin w.gone
  BY <1>1, <1>2, StillThere DEF AssignOK
<1>10. WorkOK(v) /\ NewOf(v) = new
  <2>1. w.new \subseteq new /\ <<w.body[r], r>> \in new /\ w.body[r] \notin w.gone
    BY <1>3, <1>9
  <2> QED BY <1>1, <1>4, <1>6, <1>8, <2>1, PassedOK
<1>11. \A p \in Request \ {q}, s \in Staff : <<e, s>> \notin NewOf(req[p])
  BY <1>2 DEF IsTaken, NewOf
<1>12. \A p \in Request \ {q}, f \in Emp, s, t \in Staff :
         <<f, s>> \in NewOf(req[p]) => <<f, t>> \notin NewOf(v)
  <2>1. \A p \in Request \ {q}, f \in Emp, s, t \in Staff :
          <<f, s>> \in NewOf(req[p]) => <<f, t>> \notin NewOf(w)
    BY DEF RequestsOK, Apart
  <2> QED BY <1>1, <1>3, <1>10, <1>11, <2>1
<1>13. \A f \in Emp, s, t \in Staff : <<f, s>> \in NewOf(v) /\ <<f, t>> \in NewOf(v) => s = t
  <2>1. \A f \in Emp, s, t \in Staff : <<f, s>> \in NewOf(w) /\ <<f, t>> \in NewOf(w) => s = t
    BY DEF RequestsOK, Apart
  <2> QED BY <1>1, <1>3, <1>7, <1>10, <2>1
<1> QED BY <1>2, <1>5, <1>10, <1>12, <1>13, RequestStep
---------------------------------------------------------------------------
(* The commit.                                                             *)

LEMMA CommitTables ==
  ASSUME TablesOK, RequestsOK, NEW q \in Request, Commit(q),
         NEW w, w = req[q]
  PROVE  /\ TablesOK' /\ Grown
         /\ \E i \in DOMAIN project' : project'[i] = w.body
         /\ \A e \in Emp : (\A r \in Staff : <<e, r>> \notin w.new) => appUser'[e] = appUser[e]
<1> PICK n : n = Len(project)
  OBVIOUS
<1>1. /\ w \in Assigning /\ AssignOK(w) /\ w.op = "assign" /\ w.phase = "project"
      /\ NewOf(w) = w.new /\ w.body \in Body /\ \A r \in Staff : w.body[r] \in Emp
  BY Assigned DEF Commit, In
<1>2. /\ project' = Append(project, w.body) /\ past' = Append(past, w.gone)
      /\ UNCHANGED answered /\ n < MaxProjects
      /\ \A i \in DOMAIN project : project[i].name # w.body.name
  BY DEF Commit, Insert
<1>3. /\ appUser' = [e \in Emp |-> IF <<e, "DRM">> \in w.new THEN "DRM"
                                  ELSE IF <<e, "ARM">> \in w.new THEN "ARM" ELSE appUser[e]]
      /\ table' = [r \in Role |-> [e \in Emp |->
                     IF <<e, r>> \in w.new THEN NewRow(w.centre, w.grp) ELSE table[r][e]]]
  BY DEF Commit, Insert, IsNew
<1>4. w.centre \in Nat /\ w.grp \in Nat /\ w.gone \in SUBSET Emp /\ w.new \subseteq Emp \X Staff
  BY <1>1 DEF Assigning
<1>5. \A e \in Emp, r, s \in Staff : <<e, r>> \in w.new /\ <<e, s>> \in w.new => r = s
  BY <1>1 DEF RequestsOK, Apart
<1>6. \A e \in Emp, r \in Staff : <<e, r>> \in w.new => appUser[e] = "none" /\ w.body[r] = e
  BY <1>1 DEF AssignOK, CreatesOK
<1>7. \A e \in Emp, r \in Staff : <<e, r>> \in w.new => appUser'[e] = r
  BY <1>3, <1>5 DEF Staff
<1>8. \A e \in Emp : (\A r \in Staff : <<e, r>> \notin w.new) => appUser'[e] = appUser[e]
  BY <1>3 DEF Staff
<1>9. \A e \in Emp : appUser[e] # "none" => appUser'[e] = appUser[e]
  BY <1>6, <1>8
<1>10. /\ NewRow(w.centre, w.grp) \in Row /\ NewRow(w.centre, w.grp) # NoRow
       /\ NewRow(w.centre, w.grp).centre = w.centre /\ NewRow(w.centre, w.grp).grp = w.grp
  BY <1>4, NewRowIsRow
<1>11. \A r \in Role, e \in Emp :
         table'[r][e] = IF <<e, r>> \in w.new THEN NewRow(w.centre, w.grp) ELSE table[r][e]
  BY <1>3
<1>12. \A r \in Role, e \in Emp : <<e, r>> \in w.new => r \in Staff /\ table[r][e] = NoRow
  BY <1>4, <1>6 DEF TablesOK, OneRole, Role, Staff
<1>13. \A r \in Role, e \in Emp : table[r][e] # NoRow => table'[r][e] = table[r][e]
  BY <1>11, <1>12
<1>14. /\ project' \in Seq(Body) /\ Len(project') = n + 1 /\ n \in Nat
       /\ past' \in Seq(SUBSET Emp) /\ Len(past') = n + 1
       /\ DOMAIN project = 1 .. n /\ DOMAIN project' = 1 .. n + 1
       /\ \A i \in 1 .. n : project'[i] = project[i] /\ past'[i] = past[i]
       /\ project'[n + 1] = w.body /\ past'[n + 1] = w.gone
  BY <1>1, <1>2, <1>4 DEF TablesOK, TablesTyped
<1>15. Gone \subseteq Gone'
  BY <1>13 DEF Gone, IsActive
<1>16. Grown
  BY <1>9, <1>13, <1>14, <1>15 DEF Grown, SameOffice
<1>17. TablesTyped'
  <2>1. appUser' \in [Emp -> Role \cup {"none"}]
    BY <1>3 DEF TablesOK, TablesTyped, Role, Staff
  <2>2. table' \in [Role -> [Emp -> Row \cup {NoRow}]]
    <3>1. \A r \in Role, e \in Emp : table[r][e] \in Row \cup {NoRow}
      BY DEF TablesOK, TablesTyped
    <3> QED BY <1>3, <1>10, <3>1
  <2> QED BY <1>2, <1>14, <2>1, <2>2 DEF TablesOK, TablesTyped
<1>18. OneRole'
  <2>1. ASSUME NEW e \in Emp, NEW r \in Role
        PROVE  table'[r][e] # NoRow <=> appUser'[e] = r
    <3>1. CASE \E s \in Staff : <<e, s>> \in w.new
      <4>1. PICK s \in Staff : <<e, s>> \in w.new
        BY <3>1
      <4>2. appUser'[e] = s /\ appUser[e] = "none"
        BY <1>6, <1>7, <4>1
      <4>3. table[r][e] = NoRow
        BY <4>2 DEF TablesOK, OneRole, Role, Staff
      <4>4. <<e, r>> \in w.new <=> r = s
        BY <1>5, <1>12, <4>1
      <4> QED BY <1>10, <1>11, <4>2, <4>3, <4>4
    <3>2. CASE \A s \in Staff : <<e, s>> \notin w.new
      <4>1. <<e, r>> \notin w.new
        BY <1>12, <3>2
      <4> QED BY <1>8, <1>11, <3>2, <4>1 DEF TablesOK, OneRole
    <3> QED BY <3>1, <3>2
  <2> QED BY <2>1 DEF OneRole
<1>19. StaffedByActive'
  <2>1. ASSUME NEW i \in DOMAIN project', NEW r \in Staff
        PROVE  appUser'[project'[i][r]] = r /\ project'[i][r] \notin past'[i]
    <3>1. CASE i \in 1 .. n
      <4>1. project[i] \in Body /\ project[i][r] \in Emp
        BY <3>1, <1>14, BodyStaff DEF TablesOK, TablesTyped
      <4>2. appUser[project[i][r]] = r /\ project[i][r] \notin past[i] /\ r # "none"
        BY <3>1, <1>14 DEF TablesOK, StaffedByActive, Staff
      <4> QED BY <1>9, <1>14, <3>1, <4>1, <4>2
    <3>2. CASE i = n + 1
      <4>1. w.body[r] \notin w.gone /\ (<<w.body[r], r>> \in w.new \/ appUser[w.body[r]] = r)
        BY <1>1 DEF AssignOK, ChecksOK, CheckedBy
      <4>2. appUser'[w.body[r]] = r
        BY <1>1, <1>7, <1>9, <4>1 DEF Staff
      <4> QED BY <1>14, <3>2, <4>1, <4>2
    <3> QED BY <1>14, <2>1, <3>1, <3>2
  <2> QED BY <2>1 DEF StaffedByActive
<1>20. AllOrNothing'
  <2>1. ASSUME NEW e \in Hire, appUser'[e] # "none"
        PROVE  \E i \in DOMAIN project' : project'[i][appUser'[e]] = e
    <3>1. CASE \E s \in Staff : <<e, s>> \in w.new
      <4>1. PICK s \in Staff : <<e, s>> \in w.new
        BY <3>1
      <4>2. appUser'[e] = s /\ w.body[s] = e
        BY <1>6, <1>7, <4>1 DEF Emp
      <4> QED BY <1>14, <4>2
    <3>2. CASE \A s \in Staff : <<e, s>> \notin w.new
      <4>1. appUser'[e] = appUser[e]
        BY <1>8, <3>2 DEF Emp
      <4>2. PICK i \in DOMAIN project : project[i][appUser[e]] = e
        BY <2>1, <4>1 DEF TablesOK, AllOrNothing
      <4> QED BY <1>14, <4>1, <4>2
    <3> QED BY <3>1, <3>2
  <2> QED BY <2>1 DEF AllOrNothing
<1>21. ToldIsAssigned'
  <2>1. answered' \subseteq {project'[i] : i \in DOMAIN project'}
    BY <1>2, <1>14 DEF TablesOK, ToldIsAssigned
  <2>2. ASSUME NEW i \in DOMAIN project', NEW j \in DOMAIN project', project'[i].name = project'[j].name
        PROVE  i = j
    BY <1>2, <1>14, <2>2 DEF TablesOK, ToldIsAssigned
  <2> QED BY <2>1, <2>2 DEF ToldIsAssigned
<1>22. \A e \in Emp : table'["HOD"][e] = table["HOD"][e]
  BY <1>11, <1>12 DEF Role, Staff
<1>23. HodsApart'
  BY <1>22 DEF TablesOK, HodsApart
<1>24. HodOfRow'
  <2>1. ASSUME NEW e \in Hire, NEW r \in Staff, table'[r][e] # NoRow
        PROVE  \E i \in DOMAIN project' :
                 /\ project'[i][r] = e
                 /\ table'["HOD"][project'[i].HOD] # NoRow
                 /\ table'["HOD"][project'[i].HOD].centre = table'[r][e].centre
                 /\ table'["HOD"][project'[i].HOD].grp = table'[r][e].grp
    <3>0. r \in Role /\ e \in Emp
      BY DEF Role, Emp
    <3>1. CASE <<e, r>> \in w.new
      <4>1. table'[r][e] = NewRow(w.centre, w.grp) /\ w.body[r] = e
        BY <1>6, <1>11, <3>0, <3>1
      <4>2. IsHod(w.body.HOD, w.centre, w.grp) /\ w.body.HOD \in Emp
        BY <1>1 DEF AssignOK
      <4> QED BY <1>10, <1>14, <1>22, <4>1, <4>2 DEF IsHod
    <3>2. CASE <<e, r>> \notin w.new
      <4>1. table'[r][e] = table[r][e]
        BY <1>11, <3>0, <3>2
      <4>2. PICK i \in DOMAIN project :
              project[i][r] = e /\ IsHod(project[i].HOD, table[r][e].centre, table[r][e].grp)
        BY <2>1, <4>1 DEF TablesOK, HodOfRow
      <4>3. project[i].HOD \in Emp
        BY DEF TablesOK, TablesTyped
      <4>4. project'[i] = project[i] /\ i \in DOMAIN project'
        BY <1>14
      <4>5. table'["HOD"][project[i].HOD] = table["HOD"][project[i].HOD]
        BY <1>22, <4>3
      <4> QED BY <4>1, <4>2, <4>4, <4>5 DEF IsHod
    <3> QED BY <3>1, <3>2
  <2> QED BY <2>1 DEF HodOfRow, IsHod
<1> QED BY <1>8, <1>14, <1>16, <1>17, <1>18, <1>19, <1>20, <1>21, <1>23, <1>24 DEF TablesOK
LEMMA CommitOK ==
  ASSUME TablesOK, RequestsOK, NEW q \in Request, Commit(q)
  PROVE  TablesOK' /\ RequestsOK'
<1> PICK w : w = req[q]
  OBVIOUS
<1> PICK v : v = [w EXCEPT !.phase = "committed", !.new = {}]
  OBVIOUS
<1>1. /\ w \in Assigning /\ AssignOK(w) /\ w.op = "assign" /\ w.phase = "project"
      /\ NewOf(w) = w.new /\ w.body.HOD \in Emp
  BY Assigned DEF Commit, In
<1>2. /\ TablesOK' /\ Grown /\ \E i \in DOMAIN project' : project'[i] = w.body
      /\ \A e \in Emp : (\A r \in Staff : <<e, r>> \notin w.new) => appUser'[e] = appUser[e]
  BY CommitTables
<1>3. req' = [req EXCEPT ![q] = v]
  BY DEF Commit, Insert, RequestsOK
<1>4. /\ v \in Assigning /\ v.op = "assign" /\ v.phase = "committed" /\ v.body = w.body
      /\ v.new = {} /\ v.missing = w.missing /\ v.gone = w.gone
      /\ v.centre = w.centre /\ v.grp = w.grp
  BY <1>1 DEF Assigning
<1>5. CreatesOK(v)' /\ ChecksOK(v)'
  BY <1>4 DEF CreatesOK, ChecksOK, CheckedBy
<1>6. IsHod(v.body.HOD, v.centre, v.grp)'
  <2>1. IsHod(w.body.HOD, w.centre, w.grp)
    BY <1>1 DEF AssignOK
  <2>2. IsHod(w.body.HOD, w.centre, w.grp)'
    BY <1>1, <1>2, <2>1, HodStays
  <2> QED BY <1>4, <2>2 DEF IsHod
<1>7. v.gone \subseteq Gone' /\ ~v.missing
  BY <1>1, <1>2, <1>4 DEF AssignOK, Grown, Staff
<1>8. AssignOK(v)'
  BY <1>2, <1>4, <1>5, <1>6, <1>7 DEF AssignOK
<1>9. WorkOK(v)' /\ NewOf(v) = {}
  BY <1>4, <1>8 DEF WorkOK, Work, NewOf
<1>10. \A p \in Request \ {q}, e \in Emp, r \in Staff :
         <<e, r>> \in NewOf(req[p]) => appUser'[e] = "none"
  <2>1. ASSUME NEW p \in Request \ {q}, NEW e \in Emp, NEW r \in Staff, <<e, r>> \in NewOf(req[p])
        PROVE  appUser'[e] = "none"
    <3>1. \A s \in Staff : <<e, s>> \notin w.new
      BY <1>1, <2>1 DEF RequestsOK, Apart
    <3>2. appUser[e] = "none"
      BY <2>1, NewAreNone
    <3> QED BY <1>2, <3>1, <3>2
  <2> QED BY <2>1
<1> QED BY <1>2, <1>3, <1>9, <1>10, OthersKept

LEMMA AnnounceOK ==
  ASSUME TablesOK, RequestsOK, NEW q \in Request, Announce(q)
  PROVE  TablesOK' /\ RequestsOK'
<1>1. /\ req[q] \in Assigning /\ AssignOK(req[q]) /\ req[q].phase = "committed"
      /\ req[q].body \in Body
  BY Assigned DEF Announce, In
<1>2. PICK i \in DOMAIN project : project[i] = req[q].body
  BY <1>1 DEF AssignOK
<1>3. UNCHANGED <<appUser, table, project, past>> /\ answered' = answered \cup {req[q].body}
  BY DEF Announce, db
<1>4. ToldIsAssigned'
  BY <1>2, <1>3 DEF TablesOK, ToldIsAssigned
<1>5. TablesOK'
  BY <1>1, <1>3, <1>4 DEF TablesOK, TablesTyped, OneRole, StaffedByActive, AllOrNothing,
                          HodsApart, HodOfRow, IsHod
<1>6. Grown
  BY <1>3 DEF Grown, SameOffice, Gone, IsActive
<1>7. WorkOK(Idle)' /\ NewOf(Idle) = {} /\ req' = [req EXCEPT ![q] = Idle]
  BY IdleIsOK DEF WorkOK, Work, Idle, NewOf, Announce, Become
<1>8. \A p \in Request, e \in Emp, r \in Staff : <<e, r>> \in NewOf(req[p]) => appUser'[e] = "none"
  BY <1>3, NewAreNone
<1> QED BY <1>5, <1>6, <1>7, <1>8, OthersKept

---------------------------------------------------------------------------
(* Rows change, but for the centre and the group; nobody comes back.       *)

LEMMA TouchedOK ==
  ASSUME TablesOK, UNCHANGED <<appUser, project, history>>,
         table' \in [Role -> [Emp -> Row \cup {NoRow}]],
         \A r \in Role, e \in Emp :
           IF table[r][e] = NoRow
             THEN table'[r][e] = NoRow
             ELSE /\ SameOffice(table[r][e], table'[r][e])
                  /\ table'[r][e].is_active => table[r][e].is_active
  PROVE  TablesOK' /\ Grown
<1>1. UNCHANGED <<appUser, project, answered, past>>
  BY DEF history
<1>2. \A r \in Role, e \in Emp : table'[r][e] # NoRow <=> table[r][e] # NoRow
  BY DEF SameOffice
<1>3. \A r \in Role, e \in Emp : table[r][e] # NoRow => SameOffice(table[r][e], table'[r][e])
  OBVIOUS
<1>4. TablesTyped' /\ StaffedByActive' /\ AllOrNothing' /\ ToldIsAssigned'
  BY <1>1 DEF TablesOK, TablesTyped, StaffedByActive, AllOrNothing, ToldIsAssigned
<1>5. OneRole'
  BY <1>1, <1>2 DEF TablesOK, OneRole
<1>6. HodsApart'
  BY <1>2, <1>3 DEF TablesOK, HodsApart, SameOffice, Role
<1>7. HodOfRow'
  <2>1. ASSUME NEW e \in Hire, NEW r \in Staff, table'[r][e] # NoRow
        PROVE  \E i \in DOMAIN project' :
                 /\ project'[i][r] = e
                 /\ table'["HOD"][project'[i].HOD] # NoRow
                 /\ table'["HOD"][project'[i].HOD].centre = table'[r][e].centre
                 /\ table'["HOD"][project'[i].HOD].grp = table'[r][e].grp
    <3>1. r \in Role /\ e \in Emp /\ "HOD" \in Role
      BY DEF Role, Emp
    <3>2. table[r][e] # NoRow /\ SameOffice(table[r][e], table'[r][e])
      BY <1>2, <1>3, <2>1, <3>1
    <3>3. PICK i \in DOMAIN project :
            project[i][r] = e /\ IsHod(project[i].HOD, table[r][e].centre, table[r][e].grp)
      BY <3>2 DEF TablesOK, HodOfRow
    <3>4. project[i].HOD \in Emp
      BY DEF TablesOK, TablesTyped
    <3>5. SameOffice(table["HOD"][project[i].HOD], table'["HOD"][project[i].HOD])
      BY <1>3, <3>1, <3>3, <3>4 DEF IsHod
    <3> QED BY <1>1, <3>2, <3>3, <3>5 DEF IsHod, SameOffice
  <2> QED BY <2>1 DEF HodOfRow, IsHod
<1>8. Gone \subseteq Gone'
  BY <1>2 DEF Gone, IsActive
<1>9. Grown
  BY <1>1, <1>3, <1>8 DEF Grown
<1> QED BY <1>4, <1>5, <1>6, <1>7, <1>9 DEF TablesOK

LEMMA UpdateRowOK ==
  ASSUME TablesOK, RequestsOK, NEW q \in Request, UpdateRow(q)
  PROVE  TablesOK' /\ RequestsOK'
<1>1. PICK role, emp : role = req[q].role /\ emp = req[q].emp
  OBVIOUS
<1>2. role \in Role /\ emp \in Emp /\ table[role][emp] # NoRow
  BY <1>1 DEF UpdateRow, RequestsOK, WorkOK, Work, Idle, Assigning, Updating, Asking, Listing, LoggingIn,
              Role
<1>3. PICK tele \in Tele : table' = [table EXCEPT ![role][emp].tele_no = tele]
  BY <1>1 DEF UpdateRow
<1>4. PICK old, new : old = table[role][emp] /\ new = [old EXCEPT !.tele_no = tele]
  OBVIOUS
<1>5. old \in Row
  BY <1>2, <1>4, RowOf DEF TablesOK
<1>6. /\ new \in Row /\ new.centre = old.centre /\ new.grp = old.grp
      /\ new.is_active = old.is_active
  BY <1>4, <1>5 DEF Row
<1>7. /\ table' = [table EXCEPT ![role] = [table[role] EXCEPT ![emp] = new]]
      /\ table \in [Role -> [Emp -> Row \cup {NoRow}]]
  BY <1>2, <1>3, <1>4 DEF TablesOK, TablesTyped
<1>8. table' \in [Role -> [Emp -> Row \cup {NoRow}]]
  BY <1>2, <1>6, <1>7
<1>9. \A r \in Role, e \in Emp : table'[r][e] = IF r = role /\ e = emp THEN new ELSE table[r][e]
  BY <1>2, <1>7
<1>10. \A r \in Role, e \in Emp :
         IF table[r][e] = NoRow
           THEN table'[r][e] = NoRow
           ELSE /\ SameOffice(table[r][e], table'[r][e])
                /\ table'[r][e].is_active => table[r][e].is_active
  BY <1>2, <1>4, <1>6, <1>9, RowIsOne DEF SameOffice
<1>11. TablesOK' /\ Grown
  BY <1>8, <1>10, TouchedOK DEF UpdateRow
<1>12. WorkOK(Idle)' /\ NewOf(Idle) = {} /\ req' = [req EXCEPT ![q] = Idle]
  BY IdleIsOK DEF WorkOK, Work, Idle, NewOf, UpdateRow, Become
<1>13. \A p \in Request, e \in Emp, r \in Staff : <<e, r>> \in NewOf(req[p]) => appUser'[e] = "none"
  BY NewAreNone DEF UpdateRow
<1> QED BY <1>11, <1>12, <1>13, OthersKept

LEMMA DeactivateOK ==
  ASSUME TablesOK, RequestsOK, NEW role \in Role, NEW emp \in Emp, Deactivate(role, emp)
  PROVE  TablesOK' /\ RequestsOK'
<1>1. table[role][emp] # NoRow /\ table' = [table EXCEPT ![role][emp].is_active = FALSE]
  BY DEF Deactivate, IsActive
<1>2. PICK old, new : old = table[role][emp] /\ new = [old EXCEPT !.is_active = FALSE]
  OBVIOUS
<1>3. old \in Row
  BY <1>1, <1>2, RowOf DEF TablesOK
<1>4. new \in Row /\ new.centre = old.centre /\ new.grp = old.grp /\ new.is_active = FALSE
  BY <1>2, <1>3 DEF Row
<1>5. /\ table' = [table EXCEPT ![role] = [table[role] EXCEPT ![emp] = new]]
      /\ table \in [Role -> [Emp -> Row \cup {NoRow}]]
  BY <1>1, <1>2 DEF TablesOK, TablesTyped
<1>6. table' \in [Role -> [Emp -> Row \cup {NoRow}]]
  BY <1>4, <1>5
<1>7. \A r \in Role, e \in Emp : table'[r][e] = IF r = role /\ e = emp THEN new ELSE table[r][e]
  BY <1>5
<1>8. ASSUME NEW r \in Role, NEW e \in Emp
      PROVE  IF table[r][e] = NoRow
               THEN table'[r][e] = NoRow
               ELSE /\ SameOffice(table[r][e], table'[r][e])
                    /\ table'[r][e].is_active => table[r][e].is_active
  <2>1. CASE r = role /\ e = emp
    <3>1. table[r][e] = old /\ old # NoRow /\ table'[r][e] = new
      BY <1>1, <1>2, <1>7, <2>1
    <3>2. SameOffice(old, new) /\ ~new.is_active
      BY <1>4, RowIsOne DEF SameOffice
    <3> QED BY <3>1, <3>2
  <2>2. CASE ~(r = role /\ e = emp)
    BY <1>7, <2>2 DEF SameOffice
  <2> QED BY <2>1, <2>2
<1>9. TablesOK' /\ Grown
  BY <1>6, <1>8, TouchedOK DEF Deactivate
<1>10. ASSUME NEW p \in Request
       PROVE  WorkOK(req[p])'
  <2>1. PICK w : w = req[p]
    OBVIOUS
  <2>2. \A e \in Emp, r \in Staff : <<e, r>> \in NewOf(w) => appUser'[e] = "none"
    BY <2>1, NewAreNone DEF Deactivate
  <2>3. WorkOK(w)' /\ req'[p] = w
    BY <1>9, <2>1, <2>2, WorkKept DEF RequestsOK, Deactivate
  <2> QED BY <2>3 DEF WorkOK, AssignOK, CreatesOK, ChecksOK, CheckedBy, IsHod, OfficialsOK, OfficialOK,
                      ListOK, Reach
<1> QED BY <1>9, <1>10 DEF Deactivate, RequestsOK, Apart, NewOf
---------------------------------------------------------------------------
(* Requests that create nobody.                                            *)

LEMMA FindUserOK ==
  ASSUME TablesOK, RequestsOK, NEW q \in Request, FindUser(q)
  PROVE  TablesOK' /\ RequestsOK'
<1>1. PICK e \in MayChange :
        appUser[e] \in Staff /\ Become(q, [op |-> "update", emp |-> e, role |-> appUser[e]])
  BY DEF FindUser
<1>2. PICK v : v = [op |-> "update", emp |-> e, role |-> appUser[e]]
  OBVIOUS
<1>3. v \in Updating
  BY <1>1, <1>2 DEF Updating
<1>4. WorkOK(v) /\ NewOf(v) = {}
  BY <1>2, <1>3 DEF WorkOK, Work, NewOf
<1> QED BY <1>1, <1>2, <1>4, SameNew DEF FindUser, Become

LEMMA AskedOK ==
  ASSUME NEW centre \in Nat, NEW grp \in Nat, NEW asked \in SUBSET Office,
         NEW answer \in [asked -> Emp \cup {Nobody}],
         NEW v, v = [op |-> "officials", centre |-> centre, grp |-> grp, gone |-> Gone, answer |-> answer],
         \A r \in asked : OfficialOK(v, r, answer[r])
  PROVE  WorkOK(v) /\ NewOf(v) = {}
<1>1. v \in Asking /\ v.op = "officials" /\ v.answer = answer /\ v.gone = Gone
  BY DEF Asking, Gone
<1>2. OfficialsOK(v)
  BY <1>1 DEF OfficialsOK
<1> QED BY <1>1, <1>2 DEF WorkOK, Work, NewOf

LEMMA FindOwnCentreOK ==
  ASSUME TablesOK, RequestsOK, NEW q \in Request, FindOwnCentre(q)
  PROVE  TablesOK' /\ RequestsOK'
<1>1. PICK e \in Emp :
        /\ appUser[e] \in Staff /\ IsActive(appUser[e], e)
        /\ Become(q, [op |-> "officials", centre |-> table[appUser[e]][e].centre,
                      grp |-> table[appUser[e]][e].grp, gone |-> Gone, answer |-> <<>>])
  BY DEF FindOwnCentre
<1>2. PICK row : row = table[appUser[e]][e]
  OBVIOUS
<1>3. row \in Row
  BY <1>1, <1>2, RowOf DEF IsActive, TablesOK, Role
<1>4. row.centre \in Nat /\ row.grp \in Nat /\ <<>> \in [{} -> Emp \cup {Nobody}]
  BY <1>3 DEF Row
<1>5. PICK v : v = [op |-> "officials", centre |-> row.centre, grp |-> row.grp, gone |-> Gone,
                    answer |-> <<>>]
  OBVIOUS
<1>6. WorkOK(v) /\ NewOf(v) = {}
  <2>1. PICK none : none = <<>>
    OBVIOUS
  <2>2. none \in UNION {[asked -> Emp \cup {Nobody}] : asked \in SUBSET Office} /\ DOMAIN none = {}
    <3>1. {} \in SUBSET Office
      OBVIOUS
    <3> QED BY <1>4, <2>1, <3>1
  <2>3. v \in Asking /\ v.op = "officials" /\ v.gone = Gone /\ v.answer = none
    BY <1>4, <1>5, <2>1, <2>2 DEF Asking, Gone
  <2>4. OfficialsOK(v)
    BY <2>2, <2>3 DEF OfficialsOK
  <2> QED BY <2>3, <2>4 DEF WorkOK, Work, NewOf
<1> QED BY <1>1, <1>2, <1>5, <1>6, SameNew DEF FindOwnCentre, Become

LEMMA FindProjectOK ==
  ASSUME TablesOK, RequestsOK, NEW q \in Request, FindProject(q)
  PROVE  TablesOK' /\ RequestsOK'
<1>1. PICK i \in DOMAIN project :
        /\ IsActive("HOD", project[i].HOD)
        /\ Become(q, [op |-> "officials", centre |-> table["HOD"][project[i].HOD].centre,
                      grp |-> table["HOD"][project[i].HOD].grp, gone |-> Gone,
                      answer |-> [r \in Office \cap {"HOD"} |-> project[i].HOD]])
  BY DEF FindProject
<1>2. PICK hod, row : hod = project[i].HOD /\ row = table["HOD"][hod]
  OBVIOUS
<1>3. hod \in Emp /\ "HOD" \in Role
  BY <1>2 DEF TablesOK, TablesTyped, Role
<1>4. row \in Row /\ row # NoRow
  BY <1>1, <1>2, <1>3, RowOf DEF IsActive, TablesOK
<1>5. row.centre \in Nat /\ row.grp \in Nat
  BY <1>4 DEF Row
<1>6. hod \notin Gone
  BY <1>1, <1>2, <1>3, StillThere
<1>7. PICK answer : answer = [r \in Office \cap {"HOD"} |-> hod]
  OBVIOUS
<1>8. PICK v : v = [op |-> "officials", centre |-> row.centre, grp |-> row.grp, gone |-> Gone,
                    answer |-> answer]
  OBVIOUS
<1>9. answer \in [Office \cap {"HOD"} -> Emp \cup {Nobody}]
  BY <1>3, <1>7
<1>10. ASSUME NEW r \in Office \cap {"HOD"}
       PROVE  OfficialOK(v, r, answer[r])
  <2>1. r = "HOD" /\ answer[r] = hod
    BY <1>7
  <2>2. table[r][hod] = row /\ v.gone = Gone /\ v.centre = row.centre
    BY <1>2, <1>8, <2>1
  <2> QED BY <1>4, <1>6, <2>1, <2>2 DEF OfficialOK
<1>11. WorkOK(v) /\ NewOf(v) = {}
  BY <1>5, <1>8, <1>9, <1>10, AskedOK
<1> QED BY <1>1, <1>2, <1>7, <1>8, <1>11, SameNew DEF FindProject, Become

LEMMA ReadOfficialOK ==
  ASSUME TablesOK, RequestsOK, NEW q \in Request, ReadOfficial(q)
  PROVE  TablesOK' /\ RequestsOK'
<1> PICK w : w = req[q]
  OBVIOUS
<1>1. w \in Asking /\ w.op = "officials" /\ OfficialsOK(w)
  BY DEF ReadOfficial, RequestsOK, WorkOK, Work, Idle, Assigning, Updating, Asking, Listing, LoggingIn
<1>2. PICK r \in Office \ DOMAIN w.answer :
        \E official \in IF Holders(r, w.centre, w.grp) = {} THEN {Nobody} ELSE Holders(r, w.centre, w.grp) :
          req' = [req EXCEPT ![q].answer = [s \in DOMAIN @ \cup {r} |-> IF s = r THEN official ELSE @[s]]]
  BY DEF ReadOfficial
<1>3. PICK official \in IF Holders(r, w.centre, w.grp) = {} THEN {Nobody} ELSE Holders(r, w.centre, w.grp) :
        req' = [req EXCEPT ![q].answer = [s \in DOMAIN @ \cup {r} |-> IF s = r THEN official ELSE @[s]]]
  BY <1>2
<1>4. PICK asked \in SUBSET Office : w.answer \in [asked -> Emp \cup {Nobody}]
  BY <1>1 DEF Asking
<1>5. PICK answer : answer = [s \in asked \cup {r} |-> IF s = r THEN official ELSE w.answer[s]]
  OBVIOUS
<1>6. PICK v : v = [w EXCEPT !.answer = answer]
  OBVIOUS
<1>7. req' = [req EXCEPT ![q] = v]
  BY <1>3, <1>4, <1>5, <1>6 DEF RequestsOK
<1>8. official \in Emp \cup {Nobody}
  BY <1>3 DEF Holders
<1>9. answer \in [asked \cup {r} -> Emp \cup {Nobody}] /\ asked \cup {r} \in SUBSET Office
  BY <1>4, <1>5, <1>8
<1>10. /\ v \in Asking /\ v.op = "officials" /\ v.answer = answer /\ v.gone = w.gone
       /\ v.centre = w.centre
  BY <1>1, <1>6, <1>9 DEF Asking
<1>11. OfficialOK(v, r, official)
  <2>1. CASE official = Nobody
    BY <2>1 DEF OfficialOK
  <2>2. CASE official # Nobody
    <3>1. /\ official \in Emp /\ IsActive(r, official)
          /\ r # "HODHPC" => table[r][official].centre = w.centre
      BY <1>3, <2>2 DEF Holders
    <3>2. official \notin Gone
      BY <3>1, StillThere
    <3> QED BY <1>1, <1>10, <3>1, <3>2 DEF OfficialOK, OfficialsOK, IsActive
  <2> QED BY <2>1, <2>2
<1>12. ASSUME NEW s \in asked \cup {r}
       PROVE  OfficialOK(v, s, answer[s])
  <2>1. CASE s = r
    BY <1>5, <1>11, <2>1
  <2>2. CASE s # r
    <3>1. answer[s] = w.answer[s] /\ s \in DOMAIN w.answer
      BY <1>4, <1>5, <2>2
    <3> QED BY <1>1, <1>10, <3>1 DEF OfficialsOK, OfficialOK
  <2> QED BY <2>1, <2>2
<1>13. OfficialsOK(v)
  BY <1>1, <1>9, <1>10, <1>12 DEF OfficialsOK
<1>14. WorkOK(v) /\ NewOf(v) = {}
  BY <1>10, <1>13 DEF WorkOK, Work, NewOf
<1> QED BY <1>7, <1>14, SameNew DEF ReadOfficial

LEMMA FindPageOK ==
  ASSUME TablesOK, RequestsOK, NEW q \in Request, FindPage(q)
  PROVE  TablesOK' /\ RequestsOK'
<1>1. PICK e \in Emp, page \in 1 .. MaxProjects :
        LET left == Cardinality(ProjectsOf(e)) - (page - 1) * PageSize
        IN \E data \in SUBSET ProjectsOf(e) :
             /\ Cardinality(data) =
                  IF left <= 0 THEN 0 ELSE IF left < PageSize THEN left ELSE PageSize
             /\ Become(q, [op |-> "list", phase |-> "found", emp |-> e, page |-> page,
                           data |-> data, totalItems |-> 0])
  BY DEF FindPage
<1>2. PICK k : k = (page - 1) * PageSize
  OBVIOUS
<1>3. PICK data \in SUBSET ProjectsOf(e) :
        /\ Cardinality(data) = IF Cardinality(ProjectsOf(e)) - k <= 0 THEN 0
                               ELSE IF Cardinality(ProjectsOf(e)) - k < PageSize
                                      THEN Cardinality(ProjectsOf(e)) - k ELSE PageSize
        /\ Become(q, [op |-> "list", phase |-> "found", emp |-> e, page |-> page,
                      data |-> data, totalItems |-> 0])
  BY <1>1, <1>2
<1>4. PICK v : v = [op |-> "list", phase |-> "found", emp |-> e, page |-> page,
                    data |-> data, totalItems |-> 0]
  OBVIOUS
<1>5. /\ ProjectsOf(e) \subseteq 1 .. MaxProjects /\ IsFiniteSet(ProjectsOf(e))
      /\ Cardinality(ProjectsOf(e)) \in Nat
  <2>1. TablesTyped
    BY DEF TablesOK
  <2>2. DOMAIN project \subseteq 1 .. MaxProjects
    BY <2>1, ProjectAt DEF TablesTyped
  <2> QED BY <2>1, <2>2, ProjectsCounted
<1>6. k \in Nat
  <2>1. page - 1 \in Nat /\ PageSize \in Nat
    OBVIOUS
  <2> QED BY <1>2, <2>1
<1>7. IsFiniteSet(data) /\ (data # {} => Cardinality(data) # 0)
  <2>1. IsFiniteSet(data)
    BY <1>5, FS_Subset
  <2> QED BY <2>1, FS_EmptySet
<1>8. data # {} => k + Cardinality(data) <= Cardinality(ProjectsOf(e))
  BY <1>3, <1>5, <1>6, <1>7
<1>9. /\ v \in Listing /\ v.op = "list" /\ v.phase = "found" /\ v.data = data
      /\ v.page = page /\ v.emp = e
  BY <1>4, <1>5 DEF Listing
<1>10. ListOK(v)
  BY <1>2, <1>8, <1>9 DEF ListOK, Reach
<1>11. WorkOK(v) /\ NewOf(v) = {}
  BY <1>9, <1>10 DEF WorkOK, Work, NewOf
<1> QED BY <1>3, <1>4, <1>11, SameNew DEF FindPage, Become

LEMMA CountProjectsOK ==
  ASSUME TablesOK, RequestsOK, NEW q \in Request, CountProjects(q)
  PROVE  TablesOK' /\ RequestsOK'
<1> PICK w : w = req[q]
  OBVIOUS
<1>1. w \in Listing /\ w.op = "list" /\ w.phase = "found" /\ ListOK(w)
  BY DEF CountProjects, RequestsOK, WorkOK, Work, Idle, Assigning, Updating, Asking, Listing, LoggingIn
<1>2. PICK n : n = Cardinality(ProjectsOf(w.emp))
  OBVIOUS
<1>3. n \in Nat
  BY <1>2, ProjectsCounted DEF TablesOK
<1>4. PICK v : v = [w EXCEPT !.phase = "answered", !.totalItems = n]
  OBVIOUS
<1>5. /\ v \in Listing /\ v.op = "list" /\ v.phase = "answered" /\ v.data = w.data
      /\ v.page = w.page /\ v.totalItems = n
  BY <1>1, <1>3, <1>4 DEF Listing
<1>6. ListOK(v)
  BY <1>1, <1>2, <1>5 DEF ListOK, Reach
<1>7. WorkOK(v) /\ NewOf(v) = {}
  BY <1>5, <1>6 DEF WorkOK, Work, NewOf
<1>8. req' = [req EXCEPT ![q] = v]
  BY <1>2, <1>4 DEF CountProjects, RequestsOK
<1> QED BY <1>7, <1>8, SameNew DEF CountProjects

LEMMA LoginOK ==
  ASSUME TablesOK, RequestsOK, NEW q \in Request, Authenticate(q) \/ GetUserRole(q)
  PROVE  TablesOK' /\ RequestsOK'
<1>1. PICK v : v \in LoggingIn /\ req' = [req EXCEPT ![q] = v]
  <2>1. CASE Authenticate(q)
    <3>1. PICK e \in Emp : Become(q, [op |-> "login", phase |-> "bound", emp |-> e])
      BY <2>1 DEF Authenticate
    <3>2. [op |-> "login", phase |-> "bound", emp |-> e] \in LoggingIn
      BY DEF LoggingIn
    <3> QED BY <3>1, <3>2 DEF Become
  <2>2. CASE GetUserRole(q)
    <3>1. PICK w : w = req[q]
      OBVIOUS
    <3>2. w \in LoggingIn
      BY <2>2, <3>1 DEF GetUserRole, RequestsOK, WorkOK, Work, Idle, Assigning, Updating, Asking, Listing,
                        LoggingIn
    <3>3. [w EXCEPT !.phase = "role"] \in LoggingIn
      BY <3>2 DEF LoggingIn
    <3>4. req' = [req EXCEPT ![q] = [w EXCEPT !.phase = "role"]]
      BY <2>2, <3>1 DEF GetUserRole, RequestsOK
    <3> QED BY <3>3, <3>4
  <2> QED BY <2>1, <2>2
<1>2. WorkOK(v) /\ NewOf(v) = {}
  BY <1>1 DEF WorkOK, Work, LoggingIn, NewOf
<1> QED BY <1>1, <1>2, SameNew DEF Authenticate, GetUserRole

LEMMA DownOK ==
  ASSUME TablesOK, RequestsOK, Down
  PROVE  TablesOK' /\ RequestsOK'
<1>1. TablesOK'
  BY SameTables DEF Down
<1>2. ASSUME NEW q \in Request
      PROVE  WorkOK(req[q])'
  BY DEF Down, WorkOK, Work, Idle
<1>3. Apart'
  BY DEF Down, Apart, NewOf, Idle
<1> QED BY <1>1, <1>2, <1>3 DEF RequestsOK, Down
---------------------------------------------------------------------------
(* StaffInv holds at the start, and every step keeps it.                   *)

LEMMA InitOK == Init => StaffInv
<1> SUFFICES ASSUME Init PROVE StaffInv
  OBVIOUS
<1>1. \A r \in Role, e \in Emp : table[r][e] # NoRow =>
        /\ e \in Member /\ Post[e].role = r
        /\ table[r][e].centre = Post[e].centre /\ table[r][e].grp = Post[e].grp
  BY DEF Init, NewRow
<1>2. \A e \in Member : /\ Post[e].role \in Role /\ Post[e].centre \in Nat /\ Post[e].grp \in Nat
                       /\ appUser[e] = Post[e].role
                       /\ table[Post[e].role][e] = NewRow(Post[e].centre, Post[e].grp)
  BY PostAssumption DEF Init, Emp
<1>3. \A e \in Emp : e \notin Member => appUser[e] = "none"
  BY DEF Init
<1>4. "none" \notin Role
  BY DEF Role, Staff
<1>5. TablesTyped
  <2>1. appUser \in [Emp -> Role \cup {"none"}]
    BY <1>2, <1>3 DEF Init
  <2>2. table \in [Role -> [Emp -> Row \cup {NoRow}]]
    <3>1. \A e \in Member : NewRow(Post[e].centre, Post[e].grp) \in Row
      BY <1>2, NewRowIsRow
    <3> QED BY <3>1 DEF Init
  <2> QED BY <2>1, <2>2 DEF TablesTyped, Init
<1>6. OneRole
  <2>1. ASSUME NEW e \in Emp, NEW r \in Role
        PROVE  table[r][e] # NoRow <=> appUser[e] = r
    <3>1. CASE e \in Member
      <4>1. NewRow(Post[e].centre, Post[e].grp) # NoRow
        BY <1>2, <3>1, NewRowIsRow
      <4> QED BY <1>1, <1>2, <3>1, <4>1
    <3>2. CASE e \notin Member
      BY <1>1, <1>3, <1>4, <3>2
    <3> QED BY <3>1, <3>2
  <2> QED BY <2>1 DEF OneRole
<1>7. project = <<>> /\ DOMAIN project = {} /\ answered = {}
  BY DEF Init
<1>8. StaffedByActive /\ ToldIsAssigned
  BY <1>7 DEF StaffedByActive, ToldIsAssigned
<1>9. \A e \in Hire : e \in Emp /\ e \notin Member
  BY DEF Emp
<1>10. AllOrNothing
  BY <1>3, <1>9 DEF AllOrNothing
<1>11. HodOfRow
  BY <1>1, <1>9 DEF HodOfRow, Role
<1>12. HodsApart
  <2>1. ASSUME NEW e \in Emp, NEW f \in Emp, table["HOD"][e] # NoRow, table["HOD"][f] # NoRow,
               table["HOD"][e].grp = table["HOD"][f].grp
        PROVE  e = f
    <3>1. e \in Member /\ Post[e].role = "HOD" /\ f \in Member /\ Post[f].role = "HOD"
      BY <1>1, <2>1 DEF Role
    <3>2. Post[e].grp = Post[f].grp
      BY <1>1, <2>1 DEF Role
    <3> QED BY <3>1, <3>2, UniqueAssumption
  <2> QED BY <2>1 DEF HodsApart
<1>13. TablesOK
  BY <1>5, <1>6, <1>8, <1>10, <1>11, <1>12 DEF TablesOK
<1>14. RequestsOK
  <2>1. req = [q \in Request |-> Idle]
    BY DEF Init
  <2>2. \A q \in Request : req[q] = Idle /\ NewOf(req[q]) = {}
    BY <2>1 DEF NewOf, Idle
  <2> QED BY <2>1, <2>2, IdleIsOK DEF RequestsOK, Apart
<1> QED BY <1>13, <1>14, InvIsParts DEF Init

(* Requests that end.                                                      *)
LEMMA EndsOK ==
  ASSUME TablesOK, RequestsOK, NEW q \in Request,
         RollBack(q) \/ UpdateRefused(q) \/ OfficialsAnswered(q) \/ ListAnswered(q) \/ GetUserGroup(q)
  PROVE  TablesOK' /\ RequestsOK'
BY EndStep DEF RollBack, UpdateRefused, OfficialsAnswered, ListAnswered, GetUserGroup

LEMMA AssignStep ==
  ASSUME TablesOK, RequestsOK, NEW q \in Request, Assign(q)
  PROVE  TablesOK' /\ RequestsOK' /\ UNCHANGED up
<1>1. UNCHANGED up
  BY DEF Assign, Begin, FindHod, Commit, Insert, Announce, RollBack, CheckUser, CreateUser
<1> QED BY <1>1, BeginOK, FindHodOK, CommitOK, AnnounceOK, EndsOK, CheckUserOK, CreateUserOK DEF Assign

LEMMA OtherStep ==
  ASSUME TablesOK, RequestsOK, NEW q \in Request,
         Update(q) \/ Officials(q) \/ List(q) \/ Login(q)
  PROVE  TablesOK' /\ RequestsOK' /\ (UNCHANGED up \/ up' = FALSE)
<1>1. CASE Update(q)
  <2>1. UNCHANGED up
    BY <1>1 DEF Update, FindUser, UpdateRow, UpdateRefused
  <2> QED BY <1>1, <2>1, FindUserOK, UpdateRowOK, EndsOK DEF Update
<1>2. CASE Officials(q)
  <2>1. UNCHANGED up
    BY <1>2 DEF Officials, FindOwnCentre, FindProject, ReadOfficial, OfficialsAnswered
  <2> QED BY <1>2, <2>1, FindOwnCentreOK, FindProjectOK, ReadOfficialOK, EndsOK DEF Officials
<1>3. CASE List(q)
  <2>1. UNCHANGED up
    BY <1>3 DEF List, FindPage, CountProjects, ListAnswered
  <2> QED BY <1>3, <2>1, FindPageOK, CountProjectsOK, EndsOK DEF List
<1>4. CASE Login(q)
  <2>1. CASE NotProvisioned(q)
    BY <2>1, DownOK DEF NotProvisioned, Down
  <2>2. CASE Authenticate(q) \/ GetUserRole(q) \/ GetUserGroup(q)
    <3>1. UNCHANGED up
      BY <2>2 DEF Authenticate, GetUserRole, GetUserGroup
    <3> QED BY <2>2, <3>1, LoginOK, EndsOK
  <2> QED BY <1>4, <2>1, <2>2 DEF Login
<1> QED BY <1>1, <1>2, <1>3, <1>4

(* Nothing but up changes, or nothing at all.                              *)
LEMMA SameOK ==
  ASSUME TablesOK, RequestsOK, UNCHANGED <<db, req, history>>
  PROVE  TablesOK' /\ RequestsOK'
<1>1. TablesOK' /\ Grown /\ UNCHANGED <<appUser, req>>
  BY SameTables DEF db
<1>2. ASSUME NEW p \in Request
      PROVE  WorkOK(req[p])'
  <2>1. PICK w : w = req[p]
    OBVIOUS
  <2>2. \A e \in Emp, r \in Staff : <<e, r>> \in NewOf(w) => appUser'[e] = "none"
    BY <1>1, <2>1, NewAreNone
  <2>3. WorkOK(w)' /\ req'[p] = w
    BY <1>1, <2>1, <2>2, WorkKept DEF RequestsOK
  <2> QED BY <2>3 DEF WorkOK, AssignOK, CreatesOK, ChecksOK, CheckedBy, IsHod, OfficialsOK, OfficialOK,
                      ListOK, Reach
<1> QED BY <1>1, <1>2 DEF RequestsOK, Apart, NewOf

LEMMA StepOK == StaffInv /\ [Next]_vars => StaffInv'
<1> SUFFICES ASSUME up \in BOOLEAN, TablesOK, RequestsOK, [Next]_vars
             PROVE  up' \in BOOLEAN /\ TablesOK' /\ RequestsOK'
  <2>1. (up \in BOOLEAN /\ TablesOK /\ RequestsOK => StaffInv)'
    BY InvIsParts, PTL
  <2> QED BY <2>1, InvIsParts
<1>1. CASE Restart
  BY <1>1, SameOK DEF Restart
<1>2. ASSUME NEW r \in Role, NEW e \in Emp, Deactivate(r, e)
      PROVE  up' \in BOOLEAN /\ TablesOK' /\ RequestsOK'
  BY <1>2, DeactivateOK DEF Deactivate
<1>3. ASSUME NEW q \in Request, Assign(q)
      PROVE  up' \in BOOLEAN /\ TablesOK' /\ RequestsOK'
  BY <1>3, AssignStep
<1>4. ASSUME NEW q \in Request, Update(q) \/ Officials(q) \/ List(q) \/ Login(q)
      PROVE  up' \in BOOLEAN /\ TablesOK' /\ RequestsOK'
  BY <1>4, OtherStep
<1>5. CASE UNCHANGED vars
  BY <1>5, SameOK DEF vars
<1> QED BY <1>1, <1>2, <1>3, <1>4, <1>5 DEF Next

---------------------------------------------------------------------------
(* The inductive invariant holds in every state of the service.            *)
THEOREM Invariance == Spec => []StaffInv
BY InitOK, StepOK, PTL DEF Spec

(* Every variable keeps its type.                                          *)
THEOREM TypeCorrect == Spec => []TypeOK
<1>1. StaffInv => TypeOK
  BY DEF StaffInv
<1> QED BY Invariance, <1>1, PTL

(* Every user has one row, in the table of the role AppUser says.          *)
THEOREM RolesAreOne == Spec => []OneRole
<1>1. StaffInv => OneRole
  BY DEF StaffInv
<1> QED BY Invariance, <1>1, PTL

(* The DRM and the ARM of a project have these roles, and were not gone    *)
(* when it was begun.                                                      *)
THEOREM ProjectsAreStaffed == Spec => []StaffedByActive
<1>1. StaffInv => StaffedByActive
  BY DEF StaffInv
<1> QED BY Invariance, <1>1, PTL

(* Nobody is created without the project.                                  *)
THEOREM NobodyIsLeftBehind == Spec => []AllOrNothing
<1>1. StaffInv => AllOrNothing
  BY DEF StaffInv
<1> QED BY Invariance, <1>1, PTL

(* Those an assignment created find the HOD who assigned them.             *)
THEOREM HodsHaveAssigned == Spec => []HodAssigned
<1>1. StaffInv => HodAssigned
  BY DEF StaffInv
<1> QED BY Invariance, <1>1, PTL

(* What was answered and announced is in the database, under its own name. *)
THEOREM AnnouncedIsThere == Spec => []ToldIsAssigned
<1>1. StaffInv => ToldIsAssigned
  BY DEF StaffInv
<1> QED BY Invariance, <1>1, PTL

(* Officials who are answered had not left when the request began.         *)
THEOREM OfficialsHold == Spec => []OfficialsInOffice
<1>1. StaffInv => OfficialsInOffice
  BY DEF StaffInv
<1> QED BY Invariance, <1>1, PTL

(* The count of an answer reaches to the page it shows.                    *)
THEOREM ListsAreCounted == Spec => []ListIsCounted
<1>1. StaffInv => ListIsCounted
  BY DEF StaffInv
<1> QED BY Invariance, <1>1, PTL
=============================================================================
