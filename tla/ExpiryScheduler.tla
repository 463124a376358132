-------------------------- MODULE ExpiryScheduler --------------------------
(***************************************************************************)
(* DomainExpirationScheduler: the daily run that warns of the domains that *)
(* expire in 60, 30 and 15 days and deactivates those that expire today.   *)
(*                                                                         *)
(* For one interval after the other it queries the domains that expire on  *)
(* that date, changes its detached copies (prepare), merges them back in   *)
(* one transaction (commit), hands one notification each to the task       *)
(* executor (notify) and joins them all.  Meanwhile the service goes on    *)
(* serving purchases, each of which reads the domain's row and later       *)
(* writes it back whole.                                                   *)
(*                                                                         *)
(* Days are counted from 0.  A run is assumed to end on the day it began.  *)
(***************************************************************************)
EXTENDS Integers

CONSTANTS
  Domain,         \* domains whose applications are approved
  Intervals,      \* days before the expiry at which something is due
  Terms,          \* days from a purchase to the expiry date it may set
  Null,           \* a column without a value
  Fault,          \* what may fail: notify, database, server
  MaxDay,         \* bound: the last day
  MaxPurchases    \* bound: purchases of a domain

ASSUME IntervalsAssumption == Intervals \subseteq Nat /\ 0 \in Intervals
ASSUME TermAssumption == Terms \subseteq Nat
ASSUME NullAssumption == Null \notin Int
ASSUME FaultAssumption == Fault \subseteq {"notify", "database", "server"}
ASSUME DayAssumption == MaxDay \in Nat /\ MaxPurchases \in Nat

VARIABLES
  day,        \* LocalDate.now()
  row,        \* columns of domain_name the run and a purchase read or write
  buying,     \* the copy of the row a purchase under way will write
  purchases,  \* number of purchases committed
  since,      \* history: the day of the last of them
  todo,       \* intervals today's run has not dealt with
  phase,      \* where the run stands in the first of them
  copies,     \* the detached rows it loaded
  pending,    \* notifications the task executor has not delivered
  failed,     \* whether one of their futures has failed
  saved,      \* history: <<domain, interval, expiry>> committed by a run
  sent,       \* history: <<domain, interval, expiry>> notified
  lost,       \* history: those whose notification failed
  skipped     \* history: <<day, interval>> no run dealt with, or not in full

rows == <<row, buying, purchases, since>>
run == <<todo, phase, copies, pending, failed>>
history == <<saved, sent, lost, skipped>>
vars == <<day, rows, run, history>>

Row == [expiry: Nat \cup {Null}, active: BOOLEAN, last: Intervals \cup {Null}]

NewRow == [expiry |-> Null, active |-> FALSE, last |-> Null]

Init ==
  /\ day = 0
  /\ row = [d \in Domain |-> NewRow]
  /\ buying = [d \in Domain |-> Null]
  /\ purchases = [d \in Domain |-> 0]
  /\ since = [d \in Domain |-> 0]
  /\ todo = {} /\ phase = "query" /\ copies = <<>>
  /\ pending = {} /\ failed = FALSE
  /\ saved = {} /\ sent = {} /\ lost = {} /\ skipped = {}

---------------------------------------------------------------------------
(* registerDomainPurchase: the same for the first term and for a renewal.  *)
(* The webmaster gives the expiry date; it is never one in the past here.  *)
Bought_NotActivated(r, date) == [r EXCEPT !.expiry = date]

Bought(r, date) == [r EXCEPT !.expiry = date, !.active = TRUE]

LoadPurchase(d) ==
  /\ buying[d] = Null
  /\ purchases[d] < MaxPurchases
  /\ \E t \in Terms : buying' = [buying EXCEPT ![d] = Bought(row[d], day + t)]
  /\ UNCHANGED <<day, row, purchases, since, run, history>>

CommitPurchase(d) ==
  /\ buying[d] # Null
  /\ row' = [row EXCEPT ![d] = buying[d]]
  /\ buying' = [buying EXCEPT ![d] = Null]
  /\ purchases' = [purchases EXCEPT ![d] = @ + 1]
  /\ since' = [since EXCEPT ![d] = day]
  /\ UNCHANGED <<day, run, history>>

---------------------------------------------------------------------------
(* A definition with a suffix is a plausible mistake in the one it is      *)
(* named after; no specification uses it.                                  *)
Running == todo # {}

(* Midnight: cron "0 0 0 * * ?".  A server that is down then has no run    *)
(* that day: the cron trigger does not make up for it.                     *)
Midnight ==
  /\ ~Running
  /\ day < MaxDay
  /\ day' = day + 1
  /\ \/ todo' = Intervals /\ UNCHANGED skipped
     \/ /\ "server" \in Fault /\ todo' = {}
        /\ skipped' = skipped \cup ({day + 1} \X Intervals)
  /\ UNCHANGED <<rows, phase, copies, pending, failed, saved, sent, lost>>

Current(i) == i \in todo /\ \A j \in todo : j <= i

(* The run is done with some intervals, some of them left out.             *)
Done(some, leftOut) ==
  /\ todo' = todo \ some
  /\ skipped' = skipped \cup ({day} \X leftOut)
  /\ phase' = "query" /\ copies' = <<>> /\ pending' = {} /\ failed' = FALSE

Due_WrongWay(i) == {d \in Domain : /\ row[d].expiry = day + i
                                   /\ row[d].last = Null \/ row[d].last < i}

Due(i) == {d \in Domain : /\ row[d].expiry = day + i
                          /\ row[d].last = Null \/ row[d].last > i}

Prepared_AlwaysInactive(r, i) == [r EXCEPT !.last = i, !.active = FALSE]

Prepared(r, i) == [r EXCEPT !.last = i, !.active = @ /\ i # 0]

Query ==
  /\ phase = "query"
  /\ \E i \in Intervals :
       /\ Current(i)
       /\ \/ Due(i) = {} /\ Done({i}, {})
          \/ /\ Due(i) # {}
             /\ copies' = [d \in Due(i) |-> Prepared(row[d], i)]
             /\ phase' = "prepared"
             /\ UNCHANGED <<todo, pending, failed, skipped>>
  /\ UNCHANGED <<day, rows, saved, sent, lost>>

Notices(i) == {<<d, i, copies[d].expiry>> : d \in DOMAIN copies}

(* updateDomainsInTransaction merges the detached rows: whatever was       *)
(* written to them since the query is replaced.                            *)
Save ==
  /\ phase = "prepared"
  /\ row' = [d \in Domain |-> IF d \in DOMAIN copies THEN copies[d] ELSE row[d]]
  /\ \E i \in Intervals : Current(i) /\ saved' = saved \cup Notices(i)
  /\ phase' = "saved"
  /\ UNCHANGED <<day, buying, purchases, since, todo, copies, pending, failed,
                 sent, lost, skipped>>

SaveFails_Dispatches ==
  /\ phase = "prepared"
  /\ "database" \in Fault
  /\ phase' = "saved"
  /\ UNCHANGED <<day, rows, todo, copies, pending, failed, history>>

(* The transaction rolls back: the next interval.                          *)
SaveFails ==
  /\ phase = "prepared"
  /\ "database" \in Fault
  /\ \E i \in Intervals : Current(i) /\ Done({i}, {i})
  /\ UNCHANGED <<day, rows, saved, sent, lost>>

Dispatch ==
  /\ phase = "saved"
  /\ \E i \in Intervals : Current(i) /\ pending' = Notices(i)
  /\ phase' = "joining"
  /\ UNCHANGED <<day, rows, todo, copies, failed, history>>

(* A thread of the executor calls the notification service.                *)
Deliver ==
  \E n \in pending :
    /\ pending' = pending \ {n}
    /\ \/ sent' = sent \cup {n} /\ UNCHANGED <<failed, lost>>
       \/ "notify" \in Fault /\ failed' = TRUE /\ lost' = lost \cup {n} /\ UNCHANGED sent
    /\ UNCHANGED <<day, rows, todo, phase, copies, saved, skipped>>

Join_OnlyIfAllSucceed ==
  /\ phase = "joining"
  /\ pending = {} /\ ~failed
  /\ \E i \in Intervals : Current(i) /\ Done({i}, {})
  /\ UNCHANGED <<day, rows, saved, sent, lost>>

(* join() throws when any of the futures failed: the exception leaves      *)
(* checkDomainExpirations, and with it the intervals that remain.          *)
Join ==
  /\ phase = "joining"
  /\ pending = {}
  /\ \E i \in Intervals :
       Current(i) /\ IF failed THEN Done(todo, todo \ {i}) ELSE Done({i}, {})
  /\ UNCHANGED <<day, rows, saved, sent, lost>>

(* The server stops in the middle of a run: what it held is gone.          *)
Stop ==
  /\ "server" \in Fault
  /\ Running
  /\ Done(todo, todo)
  /\ buying' = [d \in Domain |-> Null]
  /\ UNCHANGED <<day, row, purchases, since, saved, sent, lost>>

---------------------------------------------------------------------------
RunStep == Query \/ Save \/ SaveFails \/ Dispatch \/ Deliver \/ Join

Next ==
  \/ \E d \in Domain : LoadPurchase(d) \/ CommitPurchase(d)
  \/ Midnight \/ RunStep \/ Stop

Spec == Init /\ [][Next]_vars

(* A run that has something to do goes on: its thread and the threads of   *)
(* the executor are scheduled, and a Feign call ends, if only by timeout.  *)
FairSpec == Spec /\ WF_vars(RunStep)

---------------------------------------------------------------------------
(* Every variable has its type, and a run holds copies and futures only    *)
(* while it deals with an interval.                                        *)
Notice == Domain \X Intervals \X Nat

TypeOK ==
  /\ day \in 0 .. MaxDay
  /\ row \in [Domain -> Row]
  /\ buying \in [Domain -> Row \cup {Null}]
  /\ purchases \in [Domain -> Nat]
  /\ since \in [Domain -> 0 .. MaxDay]
  /\ todo \subseteq Intervals
  /\ phase \in {"query", "prepared", "saved", "joining"}
  /\ DOMAIN copies \subseteq Domain
  /\ \A d \in DOMAIN copies : copies[d] \in Row /\ copies[d].expiry # Null
  /\ phase # "query" => Running
  /\ pending \subseteq Notice /\ (pending # {} => phase = "joining")
  /\ failed \in BOOLEAN
  /\ saved \subseteq Notice /\ sent \subseteq Notice /\ lost \subseteq Notice
  /\ skipped \subseteq (0 .. MaxDay) \X Intervals

(* "only then dispatches notifications": nobody is told of an expiry that  *)
(* the database was not updated for, whatever fails.                       *)
NotifiedIsSaved == sent \subseteq saved

(* A run that works on an interval ends, also when notifications fail.     *)
RunEnds == Running ~> ~Running

(* What was due to domain d by the end of today's run at interval i of the *)
(* expiry date its row holds, if it was bought before that day.            *)
WasDue(d, i) ==
  /\ row[d].expiry # Null
  /\ since[d] < row[d].expiry - i
  /\ row[d].expiry - i <= day

FirstTerm(d) == purchases[d] = 1

(* A domain in its first term gets the notice of every interval on its     *)
(* day, and is inactive once the run of its expiry date has ended, unless  *)
(* that very notice fails, or the server, the transaction, or a notice of  *)
(* an interval before it on that day: a failure does no harm to the other  *)
(* domains of its interval, and none on any other day.                     *)
FirstTermHandled ==
  ~Running => \A d \in Domain, i \in Intervals :
    FirstTerm(d) /\ WasDue(d, i) /\ <<row[d].expiry - i, i>> \notin skipped =>
      /\ <<d, i, row[d].expiry>> \in sent \cup lost
      /\ i = 0 => ~row[d].active

(* Whatever fails, no domain in its first term is deactivated before its   *)
(* expiry date, and none before the commit that its notice is sent after.  *)
ActiveUntilExpiry ==
  \A d \in Domain : FirstTerm(d) /\ ~row[d].active =>
    row[d].expiry <= day /\ <<d, 0, row[d].expiry>> \in saved

---------------------------------------------------------------------------
(* The inductive invariant behind them.                                    *)

(* What the run holds in memory or has handed out is saved, or will be     *)
(* before it is handed out.                                                *)
HandedOutIsSaved ==
  /\ phase = "saved" => \A i \in Intervals : Current(i) => Notices(i) \subseteq saved
  /\ pending \cup lost \subseteq saved

(* A domain has an expiry date once it is bought, and the run loads none   *)
(* before.                                                                 *)
DatedWhenBought ==
  \A d \in Domain :
    /\ purchases[d] = 0 => row[d].expiry = Null /\ d \notin DOMAIN copies
    /\ purchases[d] # 0 => row[d].expiry # Null

(* A purchase under way will set a date and activate its domain.           *)
BuyingActivates ==
  \A d \in Domain : buying[d] # Null => buying[d].active /\ buying[d].expiry # Null

(* A copy that deactivates a domain in its first term does so on its       *)
(* expiry date.                                                            *)
CopiesOK ==
  \A d \in Domain : FirstTerm(d) /\ d \in DOMAIN copies /\ ~copies[d].active =>
    /\ copies[d].expiry <= day
    /\ <<d, 0, copies[d].expiry>> \in saved \/ Current(0)

(* Whatever fails and whenever, the notifications and the copies of a run  *)
(* are right with respect to the rows that are saved.                      *)
SchedulerInv ==
  /\ TypeOK
  /\ NotifiedIsSaved /\ HandedOutIsSaved
  /\ DatedWhenBought /\ BuyingActivates
  /\ CopiesOK /\ ActiveUntilExpiry

---------------------------------------------------------------------------
(* The inductive invariant behind FirstTermHandled.                        *)

(* Until its first purchase is committed a domain's row is as it was made, *)
(* and no run has saved it.                                                *)
NewUntilBought ==
  \A d \in Domain : purchases[d] = 0 =>
    /\ row[d] = NewRow /\ \A n \in saved : n[1] # d
    /\ buying[d] # Null => buying[d].last = Null

(* The run works on the interval i, at which d is due today.               *)
DueToday(d, i) == row[d].expiry = day + i /\ since[d] < day

(* The interval a row was last handled at was due before today, or today   *)
(* and the run is done with it, if only with its transaction.              *)
LastIsPast(d) ==
  LET l == row[d].last IN l # Null =>
    \/ row[d].expiry < day + l
    \/ /\ row[d].expiry = day + l
       /\ l \in todo => phase \in {"saved", "joining"} /\ Current(l)

(* The run has loaded the domains that are due at the interval it works    *)
(* on, its copies are the rows changed for it, and it tells of them.       *)
CopyIsRow(d) ==
  \A i \in Intervals : Current(i) /\ phase # "query" =>
    /\ DueToday(d, i) => d \in DOMAIN copies
    /\ d \in DOMAIN copies =>
         /\ row[d].expiry = day + i /\ copies[d].expiry = day + i
         /\ phase = "prepared" => copies[d] = Prepared(row[d], i)
         /\ phase = "joining" => <<d, i, day + i>> \in pending \cup sent \cup lost

(* What was due before today, or today at an interval the run is done      *)
(* with, was told or lost; and whoever was told of the expiry is inactive. *)
DueIsSent(d) ==
  \A i \in Intervals :
    /\ WasDue(d, i) /\ ~(DueToday(d, i) /\ i \in todo)
    /\ <<row[d].expiry - i, i>> \notin skipped
    => <<d, i, row[d].expiry>> \in sent \cup lost

TermInv ==
  /\ NewUntilBought
  /\ \A d \in Domain : FirstTerm(d) =>
       /\ LastIsPast(d) /\ CopyIsRow(d) /\ DueIsSent(d)
       /\ <<d, 0, row[d].expiry>> \in saved => ~row[d].active

---------------------------------------------------------------------------
(* What the code promises and does not keep.                               *)

(* "Handles expired domains": once today's run is over, no domain bought   *)
(* before its expiry date is active on or after it.                        *)
ExpiredIsInactive ==
  ~Running => \A d \in Domain : WasDue(d, 0) => ~row[d].active

(* The run is "transactionally safe": it takes back nothing a purchase has *)
(* committed, so that only a purchase changes the expiry date of a domain. *)
RenewalSurvives ==
  [][\A d \in Domain : row'[d].expiry # row[d].expiry =>
       purchases'[d] # purchases[d]]_vars
===========================================================================
