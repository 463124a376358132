---------------------------- MODULE LogArchiver ----------------------------
(***************************************************************************)
(* LoggingMicroservice: logs are stored as they are posted, queried page   *)
(* by page, and copied into one file for each day.  The day's file is      *)
(* written anew every minute, and nothing waits for the run of the minute  *)
(* before: each run opens the file itself, truncates it, and writes from   *)
(* its own position, so that runs write over one another.                  *)
(*                                                                         *)
(* Time counts minutes; a line is as long as any other.  The server's time *)
(* zone is UTC.  A definition with a suffix is a plausible mistake in the  *)
(* one it is named after; no specification uses it.                        *)
(***************************************************************************)
EXTENDS Integers, Sequences, FiniteSets, SequencesExt

CONSTANTS
  DayLength,  \* minutes of a day
  Until,      \* bound: the last minute
  MaxLogs,    \* bound: entries of the collection
  Stamp,      \* bound: the times entries are given
  Run,        \* runs of the archiver under way at a time
  Batch,      \* entries the cursor fetches at a time
  Query,      \* requests of getLogEntries at a time
  Questions   \* bound: what they ask for

ASSUME DayAssumption == DayLength \in Nat \ {0} /\ Until \in Nat
ASSUME MaxLogsAssumption == MaxLogs \in Nat /\ Stamp \subseteq 0 .. Until
ASSUME BatchAssumption == Batch \in Nat \ {0}
ASSUME QuestionsAssumption ==
  Questions \subseteq [from: Nat, to: Nat, page: Nat, limit: Nat]

VARIABLES
  now,      \* the minute
  startup,  \* the timer set when the service starts has not fired
  logs,     \* collection LogEntry, in the order the entries were saved in
  files,    \* lines of each day's file, each the position of a log, or Hole
  run,      \* what each run of archiveLogsForDate holds
  query,    \* what getLogEntries holds, or has answered
  past      \* history: what happened to the runs of a day, see Intact

store == <<now, startup, files, run, past>>
vars == <<store, logs, query>>

Time == 0 .. Until
DayOf(t) == t \div DayLength
Day == 0 .. DayOf(Until)
LastMinute(d) == d * DayLength + DayLength - 1

Log == [timestamp: Time, receivedAt: Time]
Id == DOMAIN logs
Hole == 0

Idle == [phase |-> "idle"]
Archiving == [phase: {"fetching", "fetched"}, day: Day, opened: BOOLEAN, last: Nat,
              lines: Seq(Nat \ {0}), pos: Nat]
Asked == [phase: {"found", "answered"}, asked: Questions,
          data: Seq(Nat \ {0}), totalDocuments: Nat]

Init ==
  /\ now = 0
  /\ startup = TRUE
  /\ logs = <<>>
  /\ files = [d \in Day |-> <<>>]
  /\ run = [r \in Run |-> Idle]
  /\ query = [q \in Query |-> Idle]
  /\ past = [d \in Day |-> {}]

---------------------------------------------------------------------------
(* What the indexes give: the entries some condition holds of, ordered by  *)
(* timestamp, equal ones as they were saved.                               *)

Before(i, j) == \/ logs[i].timestamp < logs[j].timestamp
                \/ logs[i].timestamp = logs[j].timestamp /\ i < j

(* At each position the entry that so many of the others are before.       *)
Sorted(some) ==
  [k \in 1 .. Cardinality(some) |->
     CHOOSE i \in some : Cardinality({j \in some : Before(j, i)}) = k - 1]

First(s, n) == SubSeq(s, 1, IF n < Len(s) THEN n ELSE Len(s))

OfDay_Open(d) == {i \in Id : DayOf(logs[i].timestamp) <= d}

OfDay(d) == {i \in Id : DayOf(logs[i].timestamp) = d}

Runs(d) == {r \in Run : run[r] # Idle /\ run[r].day = d}

---------------------------------------------------------------------------
(* createLogEntry: the caller may give the time, else it is now.           *)
(* Out of order: an entry of that day has a later time already.            *)
OutOfOrder(t) == \E i \in OfDay(DayOf(t)) : logs[i].timestamp > t

Create ==
  /\ Len(logs) < MaxLogs
  /\ \E t \in Stamp :
       /\ logs' = Append(logs, [timestamp |-> t, receivedAt |-> now])
       /\ past' = IF OutOfOrder(t) /\ Runs(DayOf(t)) # {}
                    THEN [past EXCEPT ![DayOf(t)] = @ \cup {"disturbed"}] ELSE past
  /\ UNCHANGED <<now, startup, files, run, query>>

---------------------------------------------------------------------------
(* archiveLogsForDate                                                      *)

(* Bound: no query is under way when a run is.  They have the collection   *)
(* in common, and neither changes it.                                      *)
Quiet == \A q \in Query : query[q] = Idle

Start(r, d) ==
  /\ run[r] = Idle /\ Quiet
  /\ run' = [run EXCEPT ![r] = [phase |-> "fetching", day |-> d, opened |-> FALSE,
                                last |-> 0, lines |-> <<>>, pos |-> 0]]
  /\ past' = [past EXCEPT ![d] =
                IF Runs(d) = {} THEN {}
                ELSE @ \cup {"shared"} \cup {"late" : o \in {o \in Runs(d) : ~run[o].opened}}]

(* The schedule "1 * * * * *" is every minute's first second.              *)
Fire(r) ==
  /\ now + 1 \in Time
  /\ now' = now + 1
  /\ Start(r, DayOf(now + 1))
  /\ UNCHANGED <<startup, logs, files, query>>

(* The timer of the start, set to 100 seconds, for the day of the start.   *)
StartupFires(r) ==
  /\ startup /\ now \in {1, 2}
  /\ startup' = FALSE
  /\ Start(r, 0)
  /\ UNCHANGED <<now, logs, files, query>>

(* createWriteStream opens the file in the background; what is written     *)
(* before waits.                                                           *)
Open_Appending(r) ==
  /\ run[r] # Idle /\ ~run[r].opened
  /\ run' = [run EXCEPT ![r].opened = TRUE, ![r].pos = Len(files[run[r].day])]
  /\ UNCHANGED <<now, startup, files, past, logs, query>>

Open(r) ==
  /\ run[r] # Idle /\ ~run[r].opened
  /\ run' = [run EXCEPT ![r].opened = TRUE]
  /\ files' = [files EXCEPT ![run[r].day] = <<>>]
  /\ UNCHANGED <<now, startup, past, logs, query>>

(* The cursor goes on from the entry it gave last.                         *)
Rest_Later(r) ==
  Sorted({i \in OfDay(run[r].day) :
            run[r].last = 0 \/ logs[run[r].last].timestamp < logs[i].timestamp})

Rest(r) ==
  Sorted({i \in OfDay(run[r].day) : run[r].last = 0 \/ Before(run[r].last, i)})

Fetch(r) ==
  /\ run[r].phase = "fetching"
  /\ LET batch == First(Rest(r), Batch)
     IN run' = IF batch = <<>>
                 THEN [run EXCEPT ![r].phase = "fetched"]
                 ELSE [run EXCEPT ![r].lines = @ \o batch, ![r].last = Last(batch)]
  /\ UNCHANGED <<now, startup, files, past, logs, query>>

WrittenAt(lines, p, i) ==
  [k \in 1 .. (IF p > Len(lines) THEN p ELSE Len(lines)) |->
     IF k = p THEN i ELSE IF k <= Len(lines) THEN lines[k] ELSE Hole]

Write(r) ==
  /\ run[r] # Idle /\ run[r].opened /\ run[r].lines # <<>>
  /\ files' = [files EXCEPT ![run[r].day] = WrittenAt(@, run[r].pos + 1, Head(run[r].lines))]
  /\ run' = [run EXCEPT ![r].lines = Tail(@), ![r].pos = @ + 1]
  /\ UNCHANGED <<now, startup, past, logs, query>>

End(r) ==
  /\ run[r].phase = "fetched" /\ run[r].opened /\ run[r].lines = <<>>
  /\ run' = [run EXCEPT ![r] = Idle]
  /\ UNCHANGED <<now, startup, files, past, logs, query>>

(* The cursor fails: what was fetched is written, and no more.             *)
CursorFails(r) ==
  /\ run[r].phase = "fetching"
  /\ run' = [run EXCEPT ![r].phase = "fetched"]
  /\ past' = [past EXCEPT ![run[r].day] = @ \cup {"broken"}]
  /\ UNCHANGED <<now, startup, files, logs, query>>

---------------------------------------------------------------------------
(* getLogEntries: find, then countDocuments.                               *)

Matching(asked) == {i \in Id : logs[i].timestamp \in asked.from .. asked.to}

Skip(asked) == (asked.page - 1) * asked.limit

(* A limit of 0 is none.                                                   *)
Page(asked) ==
  LET sorted == Reverse(Sorted(Matching(asked)))
      rest == SubSeq(sorted, Skip(asked) + 1, Len(sorted))
  IN IF asked.limit = 0 THEN rest ELSE First(rest, asked.limit)

(* Page 0 is not refused by the validator, but a negative skip is by the   *)
(* database.                                                               *)
Find(q) ==
  /\ query[q] = Idle /\ \A r \in Run : run[r] = Idle
  /\ \E asked \in Questions :
       /\ Skip(asked) >= 0
       /\ query' = [query EXCEPT ![q] = [phase |-> "found", asked |-> asked,
                                         data |-> Page(asked), totalDocuments |-> 0]]
  /\ UNCHANGED <<store, logs>>

CountDocuments_OfPage(q) ==
  /\ query[q].phase = "found"
  /\ query' = [query EXCEPT ![q].phase = "answered",
                            ![q].totalDocuments = Len(query[q].data)]
  /\ UNCHANGED <<store, logs>>

CountDocuments(q) ==
  /\ query[q].phase = "found"
  /\ query' = [query EXCEPT ![q].phase = "answered",
                            ![q].totalDocuments = Cardinality(Matching(query[q].asked))]
  /\ UNCHANGED <<store, logs>>

Answer(q) ==
  /\ query[q].phase = "answered"
  /\ query' = [query EXCEPT ![q] = Idle]
  /\ UNCHANGED <<store, logs>>

---------------------------------------------------------------------------
Archive(r) == Open(r) \/ Fetch(r) \/ Write(r) \/ End(r)

Next ==
  \/ Create
  \/ \E r \in Run : Fire(r) \/ StartupFires(r) \/ Archive(r) \/ CursorFails(r)
  \/ \E q \in Query : Find(q) \/ CountDocuments(q) \/ Answer(q)

Spec == Init /\ [][Next]_vars

---------------------------------------------------------------------------
TypeOK ==
  /\ now \in Time /\ startup \in BOOLEAN
  /\ logs \in Seq(Log)
  /\ files \in [Day -> Seq(Nat)]
  /\ run \in [Run -> {Idle} \cup Archiving]
  /\ query \in [Query -> {Idle} \cup Asked]
  /\ past \in [Day -> SUBSET {"shared", "disturbed", "late", "broken"}]

(* A day's file has the day's entries only, whichever run wrote a line.    *)
OwnDayOnly ==
  \A d \in Day : \A i \in ToSet(files[d]) \ {Hole} : DayOf(logs[i].timestamp) = d

(* Since a run of the day was last begun with no other under way: no       *)
(* cursor has failed, no run was begun before the last had its file open,  *)
(* and not both has another run been begun before the last ended and an    *)
(* entry come out of order.                                                *)
Intact(d) ==
  /\ {"broken", "late"} \cap past[d] = {}
  /\ ~ {"shared", "disturbed"} \subseteq past[d]

(* When the day is over and its runs have ended, the entries that were     *)
(* there when its last run was begun are in its file, each once and in     *)
(* order, and if no run was begun while another was under way the file is  *)
(* in order throughout and has no hole.  Runs that overlap lose nothing    *)
(* then if entries come in order, entries out of order do no harm if runs  *)
(* do not overlap, and what a run left broken the next one mends.          *)
Due(d) == {i \in OfDay(d) : logs[i].receivedAt < LastMinute(d)}

Ascending(lines) == \A k, l \in DOMAIN lines : k < l => Before(lines[k], lines[l])

InOrder(lines, some) ==
  \A k, l \in DOMAIN lines :
    k < l /\ {lines[k], lines[l]} \subseteq some => Before(lines[k], lines[l])

Complete(d) ==
  /\ Due(d) \subseteq ToSet(files[d]) /\ InOrder(files[d], Due(d))
  /\ "shared" \in past[d] \/ (Hole \notin ToSet(files[d]) /\ Ascending(files[d]))

ArchivedInFull ==
  \A d \in Day : (DayOf(now) > d /\ Runs(d) = {} /\ Intact(d)) => Complete(d)

(* The count of an answer is made after its page was read, and entries are *)
(* never deleted: no page is shown that the count does not reach to.       *)
PageIsCounted ==
  \A q \in Query : (query[q].phase = "answered" /\ query[q].data # <<>>) =>
    Skip(query[q].asked) + Len(query[q].data)
      <= query[q].totalDocuments

---------------------------------------------------------------------------
(* The inductive invariant behind these.                                   *)

(* What waits to be written is of the run's day too, and a run that has    *)
(* not opened its file has written nothing.                                *)
OwnLinesOnly ==
  /\ \A d \in Day : ToSet(files[d]) \subseteq OfDay(d) \cup {Hole}
  /\ \A r \in Run : run[r] # Idle =>
       /\ ToSet(run[r].lines) \subseteq OfDay(run[r].day)
       /\ run[r].last = 0 \/ run[r].last \in OfDay(run[r].day)
       /\ run[r].opened \/ run[r].pos = 0

(* A page that was read shows no more than would be counted now.           *)
PageIsThere ==
  \A q \in Query : (query[q].phase = "found" /\ query[q].data # <<>>) =>
    Skip(query[q].asked) + Len(query[q].data)
      <= Cardinality(Matching(query[q].asked))

(* What a day's runs are to leave behind, known when the last was begun.   *)
Needed(d) == IF now >= LastMinute(d) THEN Due(d) ELSE {}

(* A run that was alone from its beginning: what it has written and will   *)
(* write is in order and ends where its cursor is, and an entry that is    *)
(* needed is among it or ahead of the cursor.                              *)
Emitted(r, d) == (IF run[r].opened THEN files[d] ELSE <<>>) \o run[r].lines

Alone(r, d) ==
  LET s == Emitted(r, d)
  IN  /\ run[r].opened => run[r].pos = Len(files[d])
      /\ ToSet(s) \subseteq OfDay(d) /\ Ascending(s)
      /\ run[r].last = IF s = <<>> THEN 0 ELSE Last(s)
      /\ \A i \in Needed(d) \ ToSet(s) :
           run[r].phase = "fetching" /\ (run[r].last = 0 \/ Before(run[r].last, i))

RunsAlone ==
  \A d \in Day : {"shared", "broken"} \cap past[d] = {} =>
    \A r \in Runs(d) : Runs(d) = {r} /\ Alone(r, d)

(* Entries in order: every run that is under way writes the day's entries, *)
(* each where it belongs, so that a run may write over what another wrote. *)
Fetched(r) == run[r].pos + Len(run[r].lines)

Follows(r, all) ==
  /\ Fetched(r) <= Len(all)
  /\ \A k \in DOMAIN run[r].lines : run[r].lines[k] = all[run[r].pos + k]
  /\ run[r].last = IF Fetched(r) = 0 THEN 0 ELSE all[Fetched(r)]

InPlace(lines, all) ==
  Len(lines) <= Len(all) /\ \A k \in DOMAIN lines : lines[k] \in {Hole, all[k]}

(* The run begun last: nobody else has its file still to open, and what it *)
(* has written stays.                                                      *)
Leads(r, d, all) ==
  /\ \A o \in Runs(d) : o = r \/ run[o].opened
  /\ \A k \in 1 .. run[r].pos : k \in DOMAIN files[d] /\ files[d][k] = all[k]
  /\ run[r].phase = "fetched" => Needed(d) \subseteq {all[k] : k \in 1 .. Fetched(r)}

AllOpened(d) == \A r \in Runs(d) : run[r].opened

RunsTogether ==
  \A d \in Day : (Runs(d) # {} /\ {"disturbed", "late", "broken"} \cap past[d] = {}) =>
    LET all == Sorted(OfDay(d))
    IN  /\ \A r \in Runs(d) : Follows(r, all)
        /\ AllOpened(d) => InPlace(files[d], all)
        /\ \/ \E r \in Runs(d) : Leads(r, d, all)
           \/ AllOpened(d) /\ Needed(d) \subseteq ToSet(files[d])

(* And when the runs have ended, after the last was begun.                 *)
EndedComplete ==
  \A d \in Day : (now >= LastMinute(d) /\ Runs(d) = {} /\ Intact(d)) => Complete(d)

ArchiveInv ==
  /\ TypeOK /\ OwnDayOnly /\ OwnLinesOnly /\ PageIsThere /\ PageIsCounted
  /\ RunsAlone /\ RunsTogether /\ EndedComplete

---------------------------------------------------------------------------
(* "Archives all logs for a specific day".                                 *)
AllArchived ==
  \A d \in Day : (DayOf(now) > d /\ Runs(d) = {} /\ past[d] = {}) =>
    OfDay(d) \subseteq {files[d][k] : k \in DOMAIN files[d]}
============================================================================
