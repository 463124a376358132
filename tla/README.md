# Domain-Management-System: TLA+ models, checks and proofs

The repository is a set of services with which an organisation applies for
domain names, has the applications approved by a chain of authorities, buys,
renews, transfers and expires them. This directory models the parts that hold
the system's own logic, checks them with TLC, and proves its safety
properties for every value of the constants with TLAPS.

Paths below are relative to the repository; `W/` stands for
`src/WorkFlowIpVaptService/src/main/java/com/dnsManagement/WorkFlowIpVaptService/`,
`R/` for `src/RenewalAndTransferMicroService/src/`, `N/` for
`src/NotificationMicroservice/src/`, `U/` for
`src/UserManagementMicroservice/server/src/` and `L/` for
`src/LoggingMicroservice/src/`.

## 1. Inventory

| Part | State it keeps | Operations | Talks to |
|---|---|---|---|
| Workflow service, life of a domain (`W/services`, `W/controllers`) | tables `domain_name`, `domain_verification`, `domain_renewal`, `purchases`, `ip`, `vapt` | `addDomainRequest`, `approve`, `reject`, `applyForRenewal`, `registerDomainPurchase`, `deleteDomain`, `updateDomain`, queries | user management (Feign, synchronous), notification service (Feign, `@Async`), transfer service (queries) |
| Workflow service, expiry scheduler (`W/schedulers`) | `domain_name` (expiry date, activity, last notification) | `checkDomainExpirations`, daily by cron | notification service |
| Transfer service (`R/services/transferService.ts`) | table `Transfer` | `create`, `approve`, queries | workflow service (GET, PATCH), user management |
| IP renewal (`R/controllers/ipRenewalController.ts`) | table `IpRenewal` | create, approve, reject, review, complete | workflow service (domain and IP looked up; PUT of the address) |
| VAPT renewal (`R/services/vaptRenewalService.ts`) | table `VaptRenewal`, which stays empty | create, approve, reject, review | workflow service |
| Notification service (`N/`) | table `Notification`; e-mails under way | webhook; list, mark as read, counts | user management, SMTP |
| User management (`U/`) | tables `AppUser`, one per role, `ProjectAssignment`; LDAP is read | project assignment, update of details, login, officials, project lists | LDAP, notification service |
| Logging service (`L/`) | collection `LogEntry`; one file a day | post, query, archive job every minute | - |
| API gateway, service registry | none | token filter, Eureka | all |

What is hard in it:

* *Overlapping requests on one row.* No entity has a `@Version`, Hibernate writes
  every column of a changed entity, and transactions run at READ COMMITTED. A
  request that read a row early and commits late replaces what was committed in
  between (`W/services/ApprovalService.java:97`, `PurchaseService.java:69`).
  `reject` and `updateDomain` run in no transaction at all.
* *Check, await, act.* The transfer service checks and inserts several awaits
  apart, in tables without constraints (`R/services/transferService.ts:32-94`,
  `R/controllers/ipRenewalController.ts:37-110`).
* *Started and not awaited.* The webhook starts e-mails and rows and answers
  (`N/controllers/webhook.controller.ts:103`); a promise nobody handles, there or
  in the LDAP callback of a login (`U/services/ldapAuth.ts:171`), ends the process
  with everything else it was doing.
* *Several reads, one answer.* Lists and their counts, a user's officials, the
  checks of an assignment: each statement sees what is committed by then.
* *A job that overlaps itself.* The archiver truncates the day's file and streams
  into it every minute, whether or not the last run has ended
  (`L/jobs/logArchiver.job.ts:44`).
* *Two services, one decision.* A transfer's approval is saved in one service and
  applied by another; the call may be refused, or lost after it took effect.
* *A daily job that must not miss its day.* The scheduler's query asks for an
  exact date; failures in the middle, stops of the server and purchases that
  commit during the run decide whether a domain is ever found.
* *Long legal sequences.* Rejections, resets, a second renewal, a second term:
  flags that are set and never reset.

What makes each part correct: a domain is bought only after every authority's
approval, and is active only with an expiry date the scheduler can find; the
scheduler deactivates on the expiry date and not before, and tells nobody what
was not committed; a domain goes only to a DRM an HOD has approved it for; one
renewal or transfer at a time; an approval ends up applied; an IP is renewed only
with the HOD's approval; what a webhook call is answered is what was started; an
employee has one role and is created with a project or not at all; the day's file
has the day's entries. The full list of hazards, each at its line, is in `PROJECT.json`.

## 2. Modules

| Module | What it is |
|---|---|
| `DomainWorkflow` | the workflow service's operations on a domain |
| `ApprovalChain` | what they promise: the abstract chain of approvals |
| `DomainWorkflow_proofs` | theorems about `DomainWorkflow` |
| `ExpiryScheduler` | the daily run, with purchases going on |
| `ExpiryScheduler_proofs` | theorems about `ExpiryScheduler` |
| `DomainTransfer` | transfer service and workflow service together |
| `DomainTransfer_proofs` | theorems about `DomainTransfer` |
| `Handover` | what they promise: the abstract handing over of a domain |
| `IpRenewal` | the renewals of an IP |
| `IpRenewal_proofs` | theorems about `IpRenewal` |
| `NotificationService` | webhook and dashboard |
| `NotificationService_proofs` | theorems about `NotificationService` |
| `UserManagement` | assignments, updates, logins and queries that overlap |
| `UserManagement_proofs` | theorems about `UserManagement` |
| `LogArchiver` | posting, querying and archiving of logs |
| `LogArchiver_proofs` | theorems about `LogArchiver` |
| `MC...` | TLC instances (symmetry sets, records the `.cfg` syntax has no form for); the other values of the constants are in the `.cfg` files |

A definition with a suffix (`MayVerify_AnyOrder`) is a plausible mistake in the
definition it is named after. No specification uses it; it is what a property is
tried against, to see that it would notice the mistake.

### DomainWorkflow

One variable per table: `dom` (columns the operations decide on), `dv` (the
verification row; the flags `verifiedBy...`/`forwardedToArm` are one set of
authorities, the flags `sentBackBy...` another), `renewals` and `purchases`
(numbers of rows). `req` is what each request holds in memory. `approvals` is a
history variable, `announced` the events handed to the notification client.

An operation is a `Load...` action (read, check, change the copies), for those in
a transaction `Announce` (the notification is handed over before the commit,
which is where the code does it), and a `Commit...` or `Save...` that writes the
whole rows. Any other request may act in between. `Abort` is every way an
operation ends without writing: a Feign call, the notification or the commit
fails, or the server stops.

| Action | Code |
|---|---|
| `LoadApply`, `CommitApply` | `DomainNameService.addDomainRequest` |
| `LoadApprove`, `CommitApprove`, `MayVerify`, `Verify`, `HodRenewalFound` | `ApprovalService.approve`, `roleHandlers`, `Utility.verifyIfVerifiedByPrevAuth`, `hodRenewalVerify` |
| `LoadReject`, `SaveReject`, `MayReject` | `RejectionService.reject`, `rejectionRole`, `Utility.verifyIfSentByPrevAuth` |
| `LoadRenew`, `CommitRenew` | `DomainRenewalService.applyForRenewal`, `resetDomainVerificationRecord` |
| `LoadPurchase`, `ReadPurchasedDomain`, `CommitPurchase` | `PurchaseService.registerDomainPurchase` |
| `LoadDelete`, `CommitDelete` | `DomainNameService.deleteDomain` |
| `LoadUpdate`, `SaveUpdate` | `DomainNameService.updateDomain` |
| `Announce` | `sendNotificationAsync` and, for `approve`, the direct Feign call |

Simplifications, and why they lose nothing here. A row that the operation has not
changed is not written (Hibernate's dirty check): `dirty`. An operation's reads of
the row it will write are one step, at the moment of the load, and `renew` reads
the verification row again where the code does, after its calls to the user
service. An authority is its position in `VERIFICATION_ORDER`; the handlers
between HOD and HODHPC are alike, so an instance with a shorter chain leaves some
of them out, and the theorems hold for every length. `hodApprovalDate`, remarks
and dates nothing decides on are left out.

### ExpiryScheduler

Days are numbers. `row` has the columns the run and a purchase touch; `todo` the
intervals today's run has not dealt with, largest first as in the code; `phase`
and `copies` the method `checkAndNotifyForSpecificDays` between its steps:
`Query` (with phase 1, the changes in memory), `Save` or `SaveFails`, `Dispatch`,
`Deliver` (a thread of the executor, in any order), `Join`. `Join` abandons the
remaining intervals when a notification has failed, because
`allOf(...).join()` throws and nothing catches it. `LoadPurchase` and
`CommitPurchase` run at any moment. `Midnight` starts the next day's run, or none
if the server is down. `Stop` is the server stopping in the middle of a run. Four
history variables record what was committed (`saved`), told (`sent`), failed to be told
(`lost`), and which interval of which day no run dealt with, or not to its end
(`skipped`); the properties are stated with them.

Assumed: a run ends on the day it began, a purchase sets no date in the past, and
the applications of the domains in this module are approved (that part is
`DomainWorkflow`).

### DomainTransfer

The table `Transfer` (`transfers`, a row's `tt_id` being its position), what each
request of the Node server holds between two awaits (`req`), the PATCH requests
the workflow service is serving (`patches`), and the DRM in `domain_name`
(`drm`). `CheckNoneOpen`, `CheckOwner`, `Insert` are `create`; `CheckNotApproved`,
`Approve`, `SendPatch`, `PatchAnswered` are `approve`. `PatchLoad` and `PatchSave`
are `updateDomain` of the workflow service, in a thread that goes on when the
connection breaks (`ConnectionLost`). `TouchLoad` and `TouchCommit` stand for the
other operations of the workflow service that write a domain's row back whole.
Authorization is left out: whoever calls is taken to be allowed to.

### IpRenewal

`rows` is the table, a row's `ip_rnwl_id` being its position; `req` what each
handler holds between two awaits; `past` a history of each row: how long the
table was when its `create` looked for an open renewal and when it counted, and
whether the row was ever approved, rejected, or failed to be completed.
`CheckNoneOpen`, `ReadDomain`, `ReadIp`, `Count`, `Insert` are `create`;
`CheckStatus` is the `findUnique` and the check of `approve`, `reject`, `review`
and `complete`, each followed by its update, whose condition is the key alone.
`Refused` is every error answer before a write.

Two things are modelled as they are built. `Authenticated` names the handlers
whose routes run `protect`: those that read `req.user` without it throw at once
(`R/routes/ipRenewals.ts` has none, so that as deployed the set is empty and
`review` and `complete` do nothing; the run lets both work). And `UpdateIp`: the
body of the PUT holds a `BigInt`, which `JSON.stringify` refuses, so that
`complete` marks the row and then answers that it failed.

### NotificationService

`call` is what `handleWebhook` holds for each call (the recipients, whose turn it
is, the count), `mail` and `entry` how far the e-mail and the dashboard row of a
recipient have got, `db` the table, `board` what `getMyNotifications` holds
between the list and the count. `Receive`, `Skip` and `Notify` are the loop, one
recipient after the other; `Notify` starts both and awaits neither.
`MailSent`, `MailFails`, `EntryWritten` and `EntryLost` settle them, in any order
and after the answer too.

`MailFails` ends the process: `sendEmail` throws again, the webhook has gone on,
and Node ends on a rejection nobody handles. `Stop` is any other end. nodemon
leaves the service down until somebody restarts it (`Restart`). What had been sent
to the mail server or the database by then may still arrive (`adrift`).
`MarkRead`, `MarkBulk` and `MarkAll` are the three `updateMany`s. `MarkAll` takes
no user, because the controller passes a field tokens do not have and Prisma leaves
an undefined condition out.

### UserManagement

`appUser`, `table` and `project` are the tables, `table` one for each role; `req`
is what each request holds; `past` and `answered` are histories. An assignment is
one transaction at read committed: `FindHod`, `CheckUser` and `CreateUser` for the
DRM and then the ARM, `Commit`, `Announce`; a request sees what is committed and
its own rows (`IsUser`, `IsValid`), its rows are nobody else's until it commits
(`new`), and an insert of a key another transaction holds waits (`IsTaken`).
`RollBack` is every failure, the timeout of five seconds included. LDAP is read
inside the transaction and never written.

`FindUser`, `UpdateRow` are `updateController`; `FindOwnCentre`, `FindProject`,
`ReadOfficial` the officials of a user or a project, whose queries run side by
side; `FindPage`, `CountProjects` the project list; `Authenticate`, `GetUserRole`,
`GetUserGroup` a login, and `NotProvisioned` the login of an employee LDAP knows and
the service does not, which ends the process. `is_active` is set by nobody in the
code: `Deactivate` is the administrator of the database, who is assumed not to
set anybody active again.

### LogArchiver

Time counts minutes. `files` holds for each day the lines of its file, each line
the log it is; `run` is what a run of `archiveLogsForDate` holds: whether its
stream has opened (and with that truncated) the file, where the cursor is, the
lines that wait, its own position in the file. `Fire` is the schedule, every
minute and for the minute's day; `Open`, `Fetch`, `Write` and `End` go on
independently, so that two runs write over one another. `CursorFails` ends a run's
reading early. `Find` and `CountDocuments` are `getLogEntries`.

## 3. What TLC checks

`tlc -config <run>.cfg <module>`; every run ends within three minutes on two cores.

| Run | Module | Shows |
|---|---|---|
| `wf_in_turn` | MCDomainWorkflow | Two requests that overlap unless they write the same row, all six authorities, every operation, two renewals and two purchases: the service implements `ApprovalChain` (`ChainSpec`: nobody rejects what they approved, one renewal at a time), and a verified row was approved by every authority since the last renewal was applied for (`VerifiedForThisApplication`) |
| `wf_overlap` | MCDomainWorkflow | Two overlapping requests on one domain: `WholeChain`, `PurchaseWasApproved`, `ActiveWasBought`, and the inductive invariant `WorkflowInv` of the proofs |
| `es_faults` | MCExpiryScheduler | Every fault, purchases during the runs: a domain in its first term gets every notice on its day and is inactive after its expiry date's run, except for what that day's failure was about (`FirstTermHandled`); `NotifiedIsSaved`, `ActiveUntilExpiry`, `SchedulerInv`, and each run ends (`RunEnds`) |
| `dt_in_turn` | MCDomainTransfer | Two requests that overlap unless they are about the same domain, lost answers, other writers of a row: the two services implement `Handover` (`HandoverSpec`: one open transfer of a domain, each applied once), what was transferred last holds (`LastTransferHolds`), and an approval reaches the workflow service (`ApprovalReachesWorkflow`) |
| `dt_overlap` | MCDomainTransfer | Two overlapping requests, refusals, lost answers, stale whole-row writes: `MovedByApproval`, `AskedByOwner`, `TransferInv` |
| `ip_overlap` | MCIpRenewal | Two overlapping requests about the renewals of two IPs: a renewal follows only on renewals that were through when it was begun (`OpenOnlyUnseen`), numbers grow (`NumbersGrow`), no order of stale writes gets around the HOD (`DecidedByHod`), `IpInv` |
| `nt_webhook` | MCNotificationService | A call to two recipients, every fault, a dashboard: the answer's number is what was started (`SummaryIsStarted`), dates and readers of rows (`DatedByRecipient`, `ReadOnce`), list and count (`ListedIsCounted`), a call is answered or cut short (`CallEnds`), `NotificationInv` |
| `la_archive` | MCLogArchiver | Two runs over one file while entries come in, in and out of order: whenever the runs of a day were not broken off, nobody began before another had its file open, and not both another run overlapped and an entry came late, everything due is in the file once and in order (`ArchivedInFull`); no entry of another day ever is (`OwnDayOnly`); pages and counts (`PageIsCounted`); `ArchiveInv` |
| `us_overlap` | MCUserManagement | Two assignments that create the same employees, with updates, lists, logins and officials who leave: `OneRole`, `StaffedByActive`, `AllOrNothing`, `HodAssigned`, `ToldIsAssigned`, `OfficialsInOffice`, `ListIsCounted`, `StaffInv` |

Each `...Inv`, the inductive invariant of its module, has the type invariant `TypeOK` as
a conjunct. Three runs end in a counterexample, a disagreement between the code and a
comment in it (`findings` in `PROJECT.json` quotes the line):

| Run | Property | What happens |
|---|---|---|
| `wf_x_second_renewal` | `RenewalCanBeApproved` | the HOD cannot approve a domain's second renewal: two records where one is looked up |
| `us_x_login` | `LoginIsAnswered` | an employee of the directory who is no user of the service logs in, and the process ends instead of rejecting |
| `nt_x_mail` | `CallIsAnswered` | an e-mail of a call fails, which ends the process; the call was to go on and be answered |

More disagreements are stated in the modules and have no run of their own. TLC
finds each violated when it is put in the place of the properties of the `.cfg` named
here:

* `wf_overlap`, `VerifiedForThisApplication`: an approval that read the row before
  a renewal reset it writes the approvals of the last term back.
* `wf_overlap`, `AnnouncedIsRecorded`: a renewal is announced inside its
  transaction, which then rolls back (`W/services/DomainRenewalService.java:92`).
* `wf_overlap`, `DecisionIsFinal` and `OneRenewalAtATime`; `dt_overlap`,
  `OneOpenTransfer` and `AppliedOnce`: a check on a copy and a later write.
* `es_faults`, `ExpiredIsInactive`: one failed warning, `join()` throws, and the
  domains that expire that day stay active for good. In a second term it fails
  without a fault (`Fault = {}`), because a purchase does not reset
  `lastNotificationDateSentForDays`; `FirstTermHandled` and `ActiveUntilExpiry`
  therefore speak of the first term.
* `es_faults`, `RenewalSurvives`: the run writes rows it read before a purchase.
* `dt_overlap`, `LastTransferHolds`: another operation writes back the row it read
  before a PATCH, or two transfers of a domain are applied in the wrong order.
* `dt_overlap`, `ApprovedIsApplied`: the workflow service refuses, the transfer
  stays approved and cannot be approved again.
* `ip_overlap`, `CanTryAgain`: `complete` answers "Please try again" and refuses
  the second attempt, since the row is already marked as renewed.
* `nt_webhook`, `ReadByRecipient`: "mark all of the authenticated user's unread
  notifications" marks everybody's. `NotifiedOnBoth`: "n user(s) notified via Email
  and Dashboard" counts what was started, also for events the table has no value for.
* `la_archive`, `AllArchived`: entries that come in or come late in the last minute
  of a day are in no file, since each run is for the day it begins on.

The models also say what no property does. An authority may reject what has not
reached it (`Utility.verifyIfSentByPrevAuth` asks only whether the neighbours have
sent it back; `ApprovalChain.Return` says what the code does), and a deleted domain
may be bought and be active again, since nothing reads `isDeleted`.

### Bounds, and why they are enough

* `wf_in_turn`: `MaxRenewals = MaxPurchases = 2` lets a domain go through its
  application and two renewals, with the chain's real length. Operations on
  different domains share no row, so one domain. An approval or a rejection overlaps
  with a purchase, a deletion or a change of DRM here, which share no row with it.
* `wf_overlap`: a chain of three (first, second, last), two requests: every pair
  of operations overlaps, and what an overlap left behind is the state the next
  pair starts from. `delete` is left out here to keep the run short; its write has
  the form of `update`'s, and the proof covers it.
* `es_faults`: three days, the intervals 0 and 1 and terms of one or two days: a
  purchase made on the first day has a warning and an expiry inside the horizon, or
  only the latter; a second purchase may come during any run; two domains are needed
  for one to fail and the other to suffer.
* `dt_*`: three DRMs (from, to, and a third to transfer on to), two or four rows;
  in `dt_in_turn` two domains, so that requests overlap.
* `ip_overlap`: two rows of at most two IPs, and two requests, are what a race of
  two creates, or of two decisions about one row, needs; a row can go through
  rejection and review any number of times.
* `nt_webhook`: one call of up to two recipients. Calls share nothing but the
  process and the table; the second recipient is the one a failure of the first
  one's e-mail cuts off. One event the table has a value for and one it does not.
* `la_archive`: a day of three minutes and the first one of the next, two runs, two
  entries, a cursor that fetches one at a time: the second run can be begun at every
  point of the first, and each entry come in before or after the cursor has passed
  it. The queries ask for one entry a page, for no limit (`limit=0`), and for page 0,
  which the validator lets through. A query and an archive run are not under way
  together (`Quiet`): neither changes what the other reads.
* `us_overlap`: the bodies asked for create one or two new employees, the same two
  in exchanged roles, under one name twice, and one employee as both; two groups
  with an HOD each. `MayChange` names who may leave or change details, `Office` the
  officials asked for, and requests that change nothing are served one at a time
  (`MayRead`): they do not meet each other.
* `MaxRenewals`, `MaxPurchases`, `MaxDay`, `MaxTransfers`, `MaxTo`, `MaxLogs`,
  `Until` and `MaxProjects` are bounds of the instances only; they appear as guards
  or as the range of an input. Because of them the runs other than `DomainWorkflow`'s
  and `UserManagement`'s reach states in which nothing is left to do, and do not
  check for deadlock.

### Fairness

Assumed only where a liveness property needs it. `ExpiryScheduler.FairSpec`: a run
that can take a step takes one. The scheduler's thread and the executor's threads
are scheduled by the JVM, and a Feign call ends, by its timeout at the latest.
Nothing is assumed of purchases or of the next day. `DomainTransfer.FairSpec`: a
request that has passed its checks goes on, and so does a PATCH the workflow
service has received; both are plain server code that waits for nobody else.
`NotificationService.FairSpec`: the loop of a call goes on. This assumes that the user
service answers or its connection breaks: `axios.get` has no timeout
(`N/services/user.service.ts:47`), so that a service which accepts the connection and
never answers would hold the call. Nothing is assumed of the mail server or the
database, which the loop does not wait for, nor that anybody restarts the service,
which is why `CallEnds` says answered or cut short. Clients are never assumed to act.

## 4. What is proved

`tlapm <module>_proofs.tla`, for seven modules. Assumptions: those the modules
declare about their constants (a chain of at least three authorities; `0 \in
Intervals`; one HOD per group at the start; and so on). The number of domains,
requests, employees, intervals, days, calls, readers, runs and entries is arbitrary.
Each proof module has `TypeCorrect`, `Invariance` (of the module's `...Inv`) and the
properties that follow from it; these have no other hypothesis. A second group of
theorems is about what the code keeps only while the rows of a domain are written in
turn; each states its hypothesis (*In turn*, below).

`DomainWorkflow_proofs`: `VerifiedByWholeChain`, `PurchasesWereApproved`,
`ActiveDomainsExpire`, `RenewalsAreRecorded`. `WholeChain` alone is not inductive: an
approval that is about to be written may come from a copy much older than the row.
`WorkflowInv` therefore says of every copy in memory what it must satisfy for its write,
however late, to keep the tables right (`CopyOK`): its flags are in the order of the
chain (`InOrder`), each is backed by an approval that was committed, or is the
approval this very request will commit, and it shows a purchase or a renewal only if
the tables have one or the request will add it (`RowBacked`). That approvals,
purchases and renewals are only ever added is what makes an old copy as good as a
new one. The proof takes the actions one by one; those that write nothing share a
lemma about requests.

`ExpiryScheduler_proofs`: `NotificationsAreSaved`, `NoEarlyDeactivation`.
`NotifiedIsSaved` needs what the run holds but has not handed out yet
(`HandedOutIsSaved`); `ActiveUntilExpiry` needs that the copies of a run that
deactivate do so on the expiry date (`CopiesOK`), which in turn needs that a purchase
always sets a date and activates (`DatedWhenBought`, `BuyingActivates`).
`FirstTermIsHandled` proves `FirstTermHandled` whatever fails. Its invariant `TermInv`
is added to `SchedulerInv`: in a first term the row's last interval is past or is the
one the run has just saved (`LastIsPast`), so that no later one is overlooked; a copy is
the row with the run's change (`CopyIsRow`), so that a save undoes nothing; and what was
due was told, or its notice failed, or its interval was left out that day (`DueIsSent`).
Each way a run gets done with intervals, by an empty query, a rollback, a join or a
stop, is an instance of one lemma (`DoneTerm`).

`DomainTransfer_proofs`: `TransfersAreAskedByOwners`, `TransfersAreApproved` (the
action property `MovedByApproval`). The invariant adds to the tables what is in
memory and in flight: a request that has saved an approval, and every PATCH, is about
an approved transfer (`SavedIsApproved`, `PatchIsApproved`), and every copy of a
domain's row, and the owner `create` has checked, is one the domain had
(`DrmIsOwner`, `OwnedByOwner`). One fact carries the proof: no step takes back an
owner, a row of the table or an approval (`Grown`), so what a request found stays
right however late it acts on it.

`IpRenewal_proofs`: `RenewalsInOrder`, `NumbersInOrder`, `HodDecides`. A request that
has checked a status may write long after it has changed, so `IpInv` keeps what the
check established for good (`CheckedOnce`): a row under completion was approved at
some time, and a create saw no open row. `CountedOnce` says what `rnwl_no` is in
terms of the rows that were there; that rows are only appended, and an IP's rows up
to a position are fewer than up to a later one, gives `NumbersGrow`.

`NotificationService_proofs`: `AnswersCount`, `DatesAreRecipients`,
`ListsAreCounted`, and the action property `RowsAreReadOnce`. The count of a call
equals the number of items started because they are started in turn
(`StartedInTurn`, `TurnByTurn`), so that each `Notify` adds one to both; settling,
and the end of the process, change how far an item is and never whether it was
started (`Settled`). For the dashboards, rows are never taken away, change their
recipient or become unread (`RowsKept`): what was listed and is still unread can
only get smaller after the count.

`UserManagement_proofs`: `RolesAreOne`, `ProjectsAreStaffed`, `NobodyIsLeftBehind`,
`HodsHaveAssigned`, `AnnouncedIsThere`, `OfficialsHold`, `ListsAreCounted`.
`StaffInv` relates each transaction to the tables others commit to meanwhile: an
employee is created by one transaction, in one role, and is no user until it commits
(`CreatedOnce`, `CreatedApart`); a check that was passed is still right
(`CheckedIsStaff`), because roles, centres and groups of rows, projects, and that
somebody has left are never taken back (`Grown`). `HodAssigned` follows from
`HodOfRow` and `HodsApart`: the HOD who assigned is the only one of the group.

`LogArchiver_proofs`: `OwnEntries`, `PagesAreCounted`, `ArchivedWhenIntact`. The
sorted result of a query is defined by rank (at each position the entry with so many
before it), so that no induction is needed: a rank is a cardinality
(`ArrangedIs`, `ArrangedUnique`), and what a fetch returns is what follows the cursor
(`BatchIs`). `ArchiveInv` has for each day, as long as its runs were not broken off, one of
two shapes. Either one run is alone in the file: what it has written and holds is in
order, ends at its cursor, and everything due is among it or ahead of the cursor
(`RunsAlone`). Or runs overlap and entries come in order: then every run's lines are a
beginning of the same sequence, so that a run which writes over another's line writes
the same line (`RunsTogether`). In both, the last run to end leaves everything due
behind (`EndedComplete`). The proof takes one day at a time; a step of another day's
run is framed off (`OtherDays`).

### In turn

The server puts no lock around a check and the write that relies on it, and TLC
refutes a number of promises when requests about one domain overlap (section 3).
What is proved of these is how far they hold. The hypothesis is a state predicate
that is to hold throughout the behaviour: two requests that *write the same row* of
one domain are not under way together (for transfers: two requests, PATCHes or other
writers of one domain's row). Requests for other domains, and requests that
write other rows of the same domain, overlap as they like, and every failure of the
model is possible, unless a line says otherwise. `wf_in_turn` and `dt_in_turn` check the
behaviours with this restriction: the first has the two predicates as constraints of TLC,
the second, whose liveness property needs it in the specification, has `InTurnSpec`. What
the restriction forbids is the beginning of some requests, never a step of one under way,
so that fairness stays what the code justifies. In particular the predicates hold while
one request is served at a time: the corollaries `OneAtATime...` say so without a
hypothesis on the behaviour.

| Theorem | Hypothesis | Property |
|---|---|---|
| `InTurnVerifiedForThisApplication` | `[]VerificationInTurn` | `VerifiedForThisApplication` |
| `InTurnDecisionIsFinal` | `[]VerificationInTurn` | `DecisionIsFinal` |
| `InTurnOneRenewalAtATime` | `[]DomainInTurn` | `OneRenewalAtATime` |
| `InTurnImplementsChain` | both | `ChainSpec`: `DomainWorkflow` implements `ApprovalChain` |
| `OneAtATimeVerifies`, `OneAtATimeImplementsChain` | one request | the same two |
| `InTurnLastTransferHolds` | `[]InTurn` | `LastTransferHolds` |
| `InTurnOneOpenOneApplied` | `[]InTurn` | `OneOpenTransfer`, `AppliedOnce` |
| `InTurnImplementsHandover` | `[]InTurn`, no PATCH is refused | `HandoverSpec`: `DomainTransfer` implements `Handover` |
| `OneAtATimeLastTransferHolds` | one request, no lost answers, no stale writers | the same |
| `OneAtATimeImplementsHandover` | one request, no faults, no stale writers | the same |

Each has an inductive invariant that is added to the module's own: `Present`,
`ReviewInv`, `RenewalInv` in `DomainWorkflow` (a copy in memory is what would be read
now, and a row's approvals were given since the last renewal); `TurnInv`, `HandInv` in
`DomainTransfer` (an open transfer is its domain's last; an approved transfer that is
not applied has its request or its PATCH under way, so that `Handover`'s one step
is taken when the row is written).
`InTurnImplementsHandover` cannot do without its hypothesis on refusals: after one the
transfer is approved and never applied (`ApprovedIsApplied`, section 3).

The invariants were checked by TLC before they were proved. No run lists them, since
without the hypothesis most of them are false; they were checked on instances of
their own, restricted to states in which it holds: `Present`, `ReviewInv` and `RenewalInv`
on two overlapping requests (13.7, 4.9 and 3.7 million states), `TurnInv` with every fault
and two requests (9,198), `HandInv` with lost answers and two domains (52,510). `TermInv`
needs no such restriction; it was checked with every fault over three days and two
purchases (1.1 million states) and over four days (2.4 million). `ArchiveInv` is checked by
`la_archive` and was checked besides with three runs, with days of one minute, and with
three entries fetched two at a time (up to 2.5 million states).

### Only model-checked

Liveness: `RunEnds`, `ApprovalReachesWorkflow`, `CallEnds`. With fairness
and `ENABLED` they are out of the prover's reach. Every other property of a passing
run is stated by a theorem, those in the table above with the hypothesis given there.
The counterexamples of section 3 are TLC's.

## 5. Not modelled

* *VAPT renewal* (`R/services/vaptRenewalService.ts`). Its table stays empty: the
  validator of `create` is `z.string().min(1).pipe(z.bigint())`, which accepts
  nothing, so that every body is refused; the decisions look for rows that were never
  inserted, and write a column the table does not have.
* *IP and VAPT records of the workflow service* (`W/services/IpService.java`,
  `VaptService.java`): single-row reads and writes nothing else decides on. The one
  update another service asks for is never sent (`IpRenewal.UpdateIp`).
* *Queries that decide nothing*: the workflow service's searches, lists of centres,
  groups and users by role, details by number. Answers made of several reads are
  modelled where the reads can disagree.
* *Who may call*: the gateway's filter and the services' token checks keep no state.
  Where a handler throws for want of a user, or uses one that is undefined, the model
  says so.
* *`addDomainRequest`'s update of the DRM's and the ARM's records* in the user
  service, which no rollback takes back: the models of the two services are not
  composed. What the notification service does with an event is modelled
  (`NotificationService`), separately from those who send it.
* *The Eureka registry* (no code of its own), mail texts, validation of formats,
  Docker, Jenkins, ELK, the monitoring, LDAP seed data and database dumps.
