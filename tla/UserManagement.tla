--------------------------- MODULE UserManagement ---------------------------
(***************************************************************************)
(* UserManagementMicroservice: an HOD assigns a project to a DRM and an    *)
(* ARM, who are created from LDAP if the service does not know them; users *)
(* change their details, log in, and ask who their officials are and which *)
(* projects they have.                                                     *)
(*                                                                         *)
(* The service is one Node process; an action runs from one await to the   *)
(* next, or several where what the first read cannot change before the     *)
(* last.  The assignment is one transaction at read committed: what others *)
(* have committed is seen, the rows it inserts are its own until it        *)
(* commits, and an insert with the key of another's waits for that one.    *)
(* A definition with a suffix is a plausible mistake in the one it is      *)
(* named after; no specification uses it.                                  *)
(***************************************************************************)
EXTENDS Naturals, Sequences, FiniteSets

CONSTANTS
  Member,       \* employees the database starts with
  Hire,         \* employees it does not
  Nobody,       \* no employee
  Post,         \* role, centre and group of each member
  Directory,    \* employees LDAP has a name and an address of
  Body,         \* bodies of the assignments HODs ask for
  Tele,         \* telephone numbers users give, or "null"
  MayChange,    \* bound: those set inactive, or updating their details
  MaxProjects,  \* bound: rows of ProjectAssignment
  PageSize,     \* the pageSize of the lists asked for
  Office,       \* bound: the officials asked for
  Request       \* requests the service may serve at a time

Emp == Member \cup Hire
Staff == {"DRM", "ARM"}
Role == Staff \cup {"HOD", "ED", "NETOPS", "WEBMASTER", "HODHPC"}

ASSUME EmpAssumption == Member \cap Hire = {} /\ Nobody \notin Emp /\ Directory \subseteq Emp
ASSUME PostAssumption == Post \in [Member -> [role: Role, centre: Nat, grp: Nat]]
ASSUME UniqueAssumption ==
  \A e, f \in Member : e # f /\ Post[e].role = Post[f].role =>
    /\ Post[e].role = "HOD" => Post[e].grp # Post[f].grp
    /\ Post[e].role \in {"ED", "NETOPS", "WEBMASTER"} => Post[e].centre # Post[f].centre
ASSUME BodyAssumption == Body \subseteq [name: STRING, HOD: Emp, DRM: Emp, ARM: Emp]
ASSUME OfficeAssumption == Office \subseteq Role \ Staff
ASSUME BoundAssumption ==
  MaxProjects \in Nat /\ PageSize \in 1 .. 100 /\ "null" \in Tele /\ MayChange \subseteq Emp

VARIABLES
  up,        \* the process runs
  appUser,   \* table AppUser: the role of each employee, or "none"
  table,     \* the table of each role: a row, or NoRow, for each employee
  project,   \* table ProjectAssignment, in the order of project_id
  req,       \* what each request holds between two awaits
  answered,  \* history: the bodies answered with 201, and sent to the webhook
  past       \* history: who was inactive when a project's request began

db == <<appUser, table, project>>
history == <<answered, past>>
vars == <<up, db, req, history>>

NoRow == [none |-> TRUE]
Row == [centre: Nat, grp: Nat, is_active: BOOLEAN, tele_no: Tele]
NewRow(centre, grp) ==
  [centre |-> centre, grp |-> grp, is_active |-> TRUE, tele_no |-> "null"]

Idle == [op |-> "none"]
Assigning == [op: {"assign"}, phase: {"HOD", "DRM", "ARM", "project", "committed"},
              missing: BOOLEAN, body: Body, centre: Nat, grp: Nat,
              new: SUBSET (Emp \X Staff), gone: SUBSET Emp]
Updating == [op: {"update"}, emp: Emp, role: Staff]
Asking == [op: {"officials"}, centre: Nat, grp: Nat, gone: SUBSET Emp,
           answer: UNION {[asked -> Emp \cup {Nobody}] : asked \in SUBSET Office}]
Listing == [op: {"list"}, phase: {"found", "answered"}, emp: Emp, page: Nat \ {0},
            data: SUBSET (1 .. MaxProjects), totalItems: Nat]
LoggingIn == [op: {"login"}, phase: {"bound", "role"}, emp: Emp]

Init ==
  /\ up = TRUE
  /\ appUser = [e \in Emp |-> IF e \in Member THEN Post[e].role ELSE "none"]
  /\ table = [r \in Role |-> [e \in Emp |->
                IF e \in Member /\ Post[e].role = r
                  THEN NewRow(Post[e].centre, Post[e].grp) ELSE NoRow]]
  /\ project = <<>>
  /\ req = [q \in Request |-> Idle]
  /\ answered = {} /\ past = <<>>

Become(q, work) == req' = [req EXCEPT ![q] = work]

IsActive(r, e) == table[r][e] # NoRow /\ table[r][e].is_active

Gone == {e \in Emp : \E r \in Role : table[r][e] # NoRow /\ ~IsActive(r, e)}

---------------------------------------------------------------------------
(* assignmentController.  The schema compares the two employee numbers as  *)
(* strings: the same number, spelled with a leading zero, passes.          *)

Begin(q) ==
  /\ up /\ req[q] = Idle
  /\ \E body \in Body :
       Become(q, [op |-> "assign", phase |-> "HOD", missing |-> FALSE, body |-> body,
                  centre |-> 0, grp |-> 0, new |-> {}, gone |-> Gone])
  /\ UNCHANGED <<up, db, history>>

In(q, phase) == req[q].op = "assign" /\ req[q].phase = phase
After(r) == IF r = "DRM" THEN "ARM" ELSE "project"

FindHod(q) ==
  /\ In(q, "HOD")
  /\ LET hod == table["HOD"][req[q].body.HOD]
     IN /\ hod # NoRow
        /\ req' = [req EXCEPT ![q].phase = "DRM", ![q].centre = hod.centre, ![q].grp = hod.grp]
  /\ UNCHANGED <<up, db, history>>

(* What the transaction sees: what is committed, and its own rows.         *)
IsUser(q, e) == appUser[e] # "none" \/ \E r \in Staff : <<e, r>> \in req[q].new
IsValid_Unchecked(q, e, r) == <<e, r>> \in req[q].new \/ table[r][e] # NoRow
IsValid(q, e, r) == <<e, r>> \in req[q].new \/ IsActive(r, e)

CheckUser(q, r) ==
  LET e == req[q].body[r]
  IN /\ In(q, r) /\ ~req[q].missing
     /\ IF IsUser(q, e)
          THEN IsValid(q, e, r) /\ req' = [req EXCEPT ![q].phase = After(r)]
          ELSE req' = [req EXCEPT ![q].missing = TRUE]
     /\ UNCHANGED <<up, db, history>>

FoundByIdentifier(e) == e \in Directory

(* Another transaction has inserted the employee and not committed.        *)
IsTaken(q, e) == \E p \in Request \ {q} : req[p].op = "assign" /\ \E r \in Staff : <<e, r>> \in req[p].new

CreateUser_Upsert(q, r) ==
  LET e == req[q].body[r]
  IN /\ In(q, r) /\ req[q].missing
     /\ FoundByIdentifier(e)
     /\ req' = [req EXCEPT ![q].missing = FALSE, ![q].phase = After(r), ![q].new = @ \cup {<<e, r>>}]
     /\ UNCHANGED <<up, db, history>>

CreateUser_AtOnce(q, r) ==
  LET e == req[q].body[r]
  IN /\ In(q, r) /\ req[q].missing
     /\ FoundByIdentifier(e) /\ appUser[e] = "none"
     /\ appUser' = [appUser EXCEPT ![e] = r]
     /\ table' = [table EXCEPT ![r][e] = NewRow(req[q].centre, req[q].grp)]
     /\ req' = [req EXCEPT ![q].missing = FALSE, ![q].phase = After(r)]
     /\ UNCHANGED <<up, project, history>>

CreateUser_NoWait(q, r) ==
  LET e == req[q].body[r]
  IN /\ In(q, r) /\ req[q].missing
     /\ FoundByIdentifier(e) /\ appUser[e] = "none"
     /\ req' = [req EXCEPT ![q].missing = FALSE, ![q].phase = After(r), ![q].new = @ \cup {<<e, r>>}]
     /\ UNCHANGED <<up, db, history>>

CreateUser(q, r) ==
  LET e == req[q].body[r]
  IN /\ In(q, r) /\ req[q].missing
     /\ FoundByIdentifier(e)
     /\ appUser[e] = "none" /\ ~IsTaken(q, e)
     /\ req' = [req EXCEPT ![q].missing = FALSE, ![q].phase = After(r), ![q].new = @ \cup {<<e, r>>}]
     /\ UNCHANGED <<up, db, history>>

IsNew(q, e, r) == <<e, r>> \in req[q].new

Insert(q) ==
  /\ Len(project) < MaxProjects
  /\ project' = Append(project, req[q].body)
  /\ appUser' = [e \in Emp |-> IF IsNew(q, e, "DRM") THEN "DRM"
                               ELSE IF IsNew(q, e, "ARM") THEN "ARM" ELSE appUser[e]]
  /\ table' = [r \in Role |-> [e \in Emp |->
                 IF IsNew(q, e, r) THEN NewRow(req[q].centre, req[q].grp) ELSE table[r][e]]]
  /\ past' = Append(past, req[q].gone)
  /\ req' = [req EXCEPT ![q].phase = "committed", ![q].new = {}]
  /\ UNCHANGED <<up, answered>>

Commit_AnyName(q) == In(q, "project") /\ Insert(q)

(* The insert of the project, whose name is unique, and the commit.        *)
Commit(q) ==
  /\ In(q, "project")
  /\ \A i \in DOMAIN project : project[i].name # req[q].body.name
  /\ Insert(q)

(* 201 and, without an await in between, the call of the webhook, whose    *)
(* failure is logged.                                                      *)
Announce(q) ==
  /\ In(q, "committed")
  /\ answered' = answered \cup {req[q].body}
  /\ Become(q, Idle)
  /\ UNCHANGED <<up, db, past>>

(* A check that does not hold, a duplicate key, LDAP, or a transaction     *)
(* that takes more than five seconds: the rollback, and 500.               *)
RollBack(q) ==
  /\ req[q].op = "assign" /\ req[q].phase # "committed"
  /\ Become(q, Idle)
  /\ UNCHANGED <<up, db, history>>

Assign(q) ==
  \/ Begin(q) \/ FindHod(q) \/ Commit(q) \/ Announce(q) \/ RollBack(q)
  \/ \E r \in Staff : CheckUser(q, r) \/ CreateUser(q, r)

---------------------------------------------------------------------------
(* updateController: the role is read, then the row of that role updated.  *)

FindUser(q) ==
  /\ up /\ req[q] = Idle
  /\ \E e \in MayChange :
       /\ appUser[e] \in Staff
       /\ Become(q, [op |-> "update", emp |-> e, role |-> appUser[e]])
  /\ UNCHANGED <<up, db, history>>

IsFree(r, e, tele) ==
  tele \notin {table[r][f].tele_no : f \in {f \in Emp \ {e} : table[r][f] # NoRow}}

UpdateRow(q) ==
  /\ req[q].op = "update"
  /\ table[req[q].role][req[q].emp] # NoRow
  /\ \E tele \in Tele \ {"null"} :
       /\ IsFree(req[q].role, req[q].emp, tele)
       /\ table' = [table EXCEPT ![req[q].role][req[q].emp].tele_no = tele]
  /\ Become(q, Idle)
  /\ UNCHANGED <<up, appUser, project, history>>

(* P2025, no such row, or P2002, a number that is taken: 500.              *)
UpdateRefused(q) ==
  /\ req[q].op = "update"
  /\ Become(q, Idle)
  /\ UNCHANGED <<up, db, history>>

Update(q) == FindUser(q) \/ UpdateRow(q) \/ UpdateRefused(q)

(* Bound: requests that change nothing are served one at a time.           *)
MayRead(q) ==
  /\ up /\ req[q] = Idle
  /\ \A p \in Request : req[p].op \notin {"officials", "list", "login"}

---------------------------------------------------------------------------
(* getResponsibleOfficials and getProjectDetails: the centre and the group *)
(* first, of the user or of the project's HOD; then queries that run side  *)
(* by side.                                                                *)

FindOwnCentre(q) ==
  /\ MayRead(q)
  /\ \E e \in Emp :
       /\ appUser[e] \in Staff /\ IsActive(appUser[e], e)
       /\ LET row == table[appUser[e]][e]
          IN Become(q, [op |-> "officials", centre |-> row.centre, grp |-> row.grp,
                        gone |-> Gone, answer |-> <<>>])
  /\ UNCHANGED <<up, db, history>>

FindProject(q) ==
  /\ MayRead(q)
  /\ \E i \in DOMAIN project :
       LET hod == project[i].HOD
       IN /\ IsActive("HOD", hod)
          /\ Become(q, [op |-> "officials", centre |-> table["HOD"][hod].centre,
                        grp |-> table["HOD"][hod].grp, gone |-> Gone,
                        answer |-> [r \in Office \cap {"HOD"} |-> hod]])
  /\ UNCHANGED <<up, db, history>>

Holders_OfCentre(r, centre, grp) ==
  {e \in Emp : IsActive(r, e) /\ (r # "HODHPC" => table[r][e].centre = centre)}

Holders_OnceThere(r, centre, grp) ==
  {e \in Emp : /\ table[r][e] # NoRow
               /\ r # "HODHPC" => table[r][e].centre = centre
               /\ r = "HOD" => table[r][e].grp = grp}

(* Who holds an office: of the centre, and the HOD of the group as well.   *)
Holders(r, centre, grp) ==
  {e \in Emp : /\ IsActive(r, e)
               /\ r # "HODHPC" => table[r][e].centre = centre
               /\ r = "HOD" => table[r][e].grp = grp}

ReadOfficial(q) ==
  /\ req[q].op = "officials"
  /\ \E r \in Office \ DOMAIN req[q].answer :
       LET found == Holders(r, req[q].centre, req[q].grp)
       IN \E official \in IF found = {} THEN {Nobody} ELSE found :
            req' = [req EXCEPT ![q].answer = [s \in DOMAIN @ \cup {r} |->
                                                IF s = r THEN official ELSE @[s]]]
  /\ UNCHANGED <<up, db, history>>

OfficialsAnswered(q) ==
  /\ req[q].op = "officials" /\ DOMAIN req[q].answer = Office
  /\ Become(q, Idle)
  /\ UNCHANGED <<up, db, history>>

Officials(q) == FindOwnCentre(q) \/ FindProject(q) \/ ReadOfficial(q) \/ OfficialsAnswered(q)

---------------------------------------------------------------------------
(* getProjectList: find and count are two statements of one transaction,   *)
(* each of which sees what is committed by then; find gives no order.      *)

ProjectsOf_AsHod(e) == {i \in DOMAIN project : project[i].HOD = e}

ProjectsOf(e) ==
  {i \in DOMAIN project : e \in {project[i].HOD, project[i].DRM, project[i].ARM}}

FindPage(q) ==
  /\ MayRead(q)
  /\ \E e \in Emp, page \in 1 .. MaxProjects :
       LET left == Cardinality(ProjectsOf(e)) - (page - 1) * PageSize
       IN \E data \in SUBSET ProjectsOf(e) :
            /\ Cardinality(data) =
                 IF left <= 0 THEN 0 ELSE IF left < PageSize THEN left ELSE PageSize
            /\ Become(q, [op |-> "list", phase |-> "found", emp |-> e, page |-> page,
                          data |-> data, totalItems |-> 0])
  /\ UNCHANGED <<up, db, history>>

CountProjects_AsHod(q) ==
  /\ req[q].op = "list" /\ req[q].phase = "found"
  /\ req' = [req EXCEPT ![q].phase = "answered",
                        ![q].totalItems = Cardinality(ProjectsOf_AsHod(req[q].emp))]
  /\ UNCHANGED <<up, db, history>>

CountProjects(q) ==
  /\ req[q].op = "list" /\ req[q].phase = "found"
  /\ req' = [req EXCEPT ![q].phase = "answered",
                        ![q].totalItems = Cardinality(ProjectsOf(req[q].emp))]
  /\ UNCHANGED <<up, db, history>>

ListAnswered(q) ==
  /\ req[q].op = "list" /\ req[q].phase = "answered"
  /\ Become(q, Idle)
  /\ UNCHANGED <<up, db, history>>

List(q) == FindPage(q) \/ CountProjects(q) \/ ListAnswered(q)

---------------------------------------------------------------------------
(* Login: LDAP knows the address and the password; then the role is asked  *)
(* for in a callback of the LDAP client, whose errors nobody handles.      *)

Authenticate(q) ==
  /\ MayRead(q)
  /\ \E e \in Emp : FoundByIdentifier(e) /\ Become(q, [op |-> "login", phase |-> "bound", emp |-> e])
  /\ UNCHANGED <<up, db, history>>

GetUserRole(q) ==
  /\ req[q].op = "login" /\ req[q].phase = "bound"
  /\ appUser[req[q].emp] # "none"
  /\ req' = [req EXCEPT ![q].phase = "role"]
  /\ UNCHANGED <<up, db, history>>

GetUserGroup(q) ==
  /\ req[q].op = "login" /\ req[q].phase = "role"
  /\ Become(q, Idle)
  /\ UNCHANGED <<up, db, history>>

(* Open transactions are rolled back.                                      *)
Down ==
  /\ up' = FALSE
  /\ req' = [q \in Request |-> Idle]
  /\ UNCHANGED <<db, history>>

(* "User not provisioned in this app": the rejection ends the process.     *)
NotProvisioned(q) ==
  /\ req[q].op = "login" /\ req[q].phase = "bound"
  /\ appUser[req[q].emp] = "none"
  /\ Down

Login(q) == Authenticate(q) \/ GetUserRole(q) \/ GetUserGroup(q) \/ NotProvisioned(q)

Restart == ~up /\ up' = TRUE /\ UNCHANGED <<db, req, history>>

---------------------------------------------------------------------------
(* is_active is read in every operation and written by none: it is the     *)
(* administrator of the database who sets it.                              *)

Deactivate(r, e) ==
  /\ e \in MayChange /\ IsActive(r, e)
  /\ table' = [table EXCEPT ![r][e].is_active = FALSE]
  /\ UNCHANGED <<up, appUser, project, req, history>>

Next ==
  \/ Restart
  \/ \E r \in Role, e \in Emp : Deactivate(r, e)
  \/ \E q \in Request : Assign(q) \/ Update(q) \/ Officials(q) \/ List(q) \/ Login(q)

Spec == Init /\ [][Next]_vars

---------------------------------------------------------------------------
TypeOK ==
  /\ up \in BOOLEAN
  /\ appUser \in [Emp -> Role \cup {"none"}]
  /\ table \in [Role -> [Emp -> Row \cup {NoRow}]]
  /\ project \in Seq(Body) /\ Len(project) <= MaxProjects
  /\ req \in [Request -> {Idle} \cup Assigning \cup Updating \cup Asking \cup Listing \cup LoggingIn]
  /\ answered \subseteq Body
  /\ past \in Seq(SUBSET Emp) /\ Len(past) = Len(project)

(* Every user has one row, in the table of the role AppUser says, and      *)
(* nobody has one who is not a user: two assignments at once do not make   *)
(* an employee a DRM and an ARM.                                           *)
OneRole == \A e \in Emp, r \in Role : table[r][e] # NoRow <=> appUser[e] = r

(* The DRM and the ARM of a project have rows of these roles, so that they *)
(* are not the same, and were not inactive already when its assignment     *)
(* began.                                                                  *)
StaffedByActive ==
  \A i \in DOMAIN project : \A r \in Staff :
    appUser[project[i][r]] = r /\ project[i][r] \notin past[i]

(* An employee is created together with a project, or not at all: an       *)
(* assignment that fails leaves nobody behind.                             *)
AllOrNothing ==
  \A e \in Hire : appUser[e] # "none" => \E i \in DOMAIN project : project[i][appUser[e]] = e

(* Those the service created are answered nobody else as their HOD than    *)
(* one who has assigned them a project.                                    *)
HodAssigned ==
  \A e \in Hire, r \in Staff : table[r][e] # NoRow =>
    \A hod \in Holders("HOD", table[r][e].centre, table[r][e].grp) :
      \E i \in DOMAIN project : project[i].HOD = hod /\ project[i][r] = e

(* Nobody is told of an assignment that is not in the database, however    *)
(* many ask for the same name.                                             *)
ToldIsAssigned ==
  /\ answered \subseteq {project[i] : i \in DOMAIN project}
  /\ \A i, j \in DOMAIN project : project[i].name = project[j].name => i = j

(* An official who is answered had not left when the request began, and is *)
(* of the centre it found.                                                 *)
OfficialsInOffice ==
  \A q \in Request : req[q].op = "officials" =>
    \A r \in DOMAIN req[q].answer : LET e == req[q].answer[r] IN
      e # Nobody => /\ e \notin req[q].gone /\ table[r][e] # NoRow
                    /\ r # "HODHPC" => table[r][e].centre = req[q].centre

(* No page is shown that the count of the same answer does not reach to.   *)
ListIsCounted ==
  \A q \in Request : (req[q].op = "list" /\ req[q].phase = "answered" /\ req[q].data # {}) =>
    (req[q].page - 1) * PageSize + Cardinality(req[q].data) <= req[q].totalItems

---------------------------------------------------------------------------
(* The inductive invariant behind these.                                   *)

New(q) == IF req[q].op = "assign" THEN req[q].new ELSE {}

(* An employee is created by one transaction, in one role, for the project *)
(* it assigns, and is no user until it commits.                            *)
CreatedOnce ==
  \A p, q \in Request, e \in Emp, r, s \in Staff :
    <<e, r>> \in New(p) /\ <<e, s>> \in New(q) => p = q /\ r = s

CreatedApart ==
  \A q \in Request, e \in Emp, r \in Staff : <<e, r>> \in New(q) =>
    /\ appUser[e] = "none"
    /\ req[q].body[r] = e
    /\ req[q].phase \in {"DRM", "ARM", "project"}
    /\ req[q].missing => req[q].body[req[q].phase] # e

MissingInTurn ==
  \A q \in Request : req[q].op = "assign" /\ req[q].missing => req[q].phase \in Staff

(* Whoever was inactive when a request began still is.                     *)
GoneForGood ==
  \A q \in Request : req[q].op \in {"assign", "officials"} => req[q].gone \subseteq Gone

Checked(q, r) ==
  req[q].op = "assign" /\ (req[q].phase = "project" \/ (req[q].phase = "ARM" /\ r = "DRM"))

CheckedIsStaff ==
  \A q \in Request, r \in Staff : Checked(q, r) =>
    LET e == req[q].body[r]
    IN e \notin req[q].gone /\ (<<e, r>> \in New(q) \/ appUser[e] = r)

CommittedIsThere ==
  \A q \in Request : req[q].op = "assign" /\ req[q].phase = "committed" =>
    \E i \in DOMAIN project : project[i] = req[q].body

(* An HOD is the only one of the group, and of the group the request or    *)
(* the row it has inserted has.                                            *)
IsHod(e, centre, grp) ==
  /\ table["HOD"][e] # NoRow
  /\ table["HOD"][e].centre = centre /\ table["HOD"][e].grp = grp

HodsApart ==
  \A e, f \in Emp : table["HOD"][e] # NoRow /\ table["HOD"][f] # NoRow
                      /\ table["HOD"][e].grp = table["HOD"][f].grp => e = f

HodOfRequest ==
  \A q \in Request : req[q].op = "assign" /\ req[q].phase # "HOD" =>
    IsHod(req[q].body.HOD, req[q].centre, req[q].grp)

HodOfRow ==
  \A e \in Hire, r \in Staff : table[r][e] # NoRow =>
    \E i \in DOMAIN project : /\ project[i][r] = e
                               /\ IsHod(project[i].HOD, table[r][e].centre, table[r][e].grp)

FoundIsThere ==
  \A q \in Request : (req[q].op = "list" /\ req[q].phase = "found" /\ req[q].data # {}) =>
    (req[q].page - 1) * PageSize + Cardinality(req[q].data) <= Cardinality(ProjectsOf(req[q].emp))

StaffInv ==
  /\ TypeOK
  /\ OneRole /\ StaffedByActive /\ AllOrNothing /\ HodAssigned /\ ToldIsAssigned
  /\ OfficialsInOffice /\ ListIsCounted
  /\ CreatedOnce /\ CreatedApart /\ MissingInTurn /\ GoneForGood /\ CheckedIsStaff
  /\ CommittedIsThere /\ HodsApart /\ HodOfRequest /\ HodOfRow /\ FoundIsThere

---------------------------------------------------------------------------
(* "The promise is rejected with an error message if authentication fails  *)
(* or if any required information is not found": a login that was begun    *)
(* does not end with the process.                                          *)
LoginIsAnswered == [][\A q \in Request : req[q].op = "login" => up']_vars
=============================================================================
