------------------------ MODULE NotificationService ------------------------
(***************************************************************************)
(* NotificationMicroservice.  A webhook call names an event and its        *)
(* recipients; for each, the user service is asked for the address, and an *)
(* e-mail and a row for the user's dashboard are started, neither awaited. *)
(* Users list their unread rows and mark them as read.                     *)
(*                                                                         *)
(* The service is one Node process: the actions run from one await to the  *)
(* next.  A rejected promise nobody handles ends it, and nodemon leaves it *)
(* down; what the mail server and the database had been sent by then they  *)
(* may still do.  A definition with a suffix is a plausible mistake in the *)
(* one it is named after; no specification uses it.                        *)
(***************************************************************************)
EXTENDS Naturals, Sequences, FiniteSets

CONSTANTS
  Emp,     \* employees
  NoEmp,   \* nobody
  Event,   \* event types the callers use
  Stored,  \* those among the values of the column event_type
  Call,    \* webhook calls the service receives
  Reader,  \* dashboards open at a time
  MaxTo,   \* bound: recipients of a call
  Fault    \* what may fail: mail, entry (a row's insert), query, stop (the process)

ASSUME EmpAssumption == NoEmp \notin Emp
ASSUME EventAssumption == Stored \subseteq Event
ASSUME MaxToAssumption == MaxTo \in Nat
ASSUME FaultAssumption == Fault \subseteq {"mail", "entry", "query", "stop"}

VARIABLES
  up,       \* the process runs
  call,     \* what handleWebhook holds for each call
  mail,     \* how far the e-mail to a recipient of a call has got
  entry,    \* how far the dashboard row has
  db,       \* table Notification, a row's notification_id being its position
  board     \* what getMyNotifications holds, or has answered, for each reader

webhook == <<call, mail, entry>>
vars == <<up, webhook, db, board>>

Item == Call \X (1 .. MaxTo)

MailState == {"none", "pending", "adrift", "sent", "failed", "lost"}
EntryState == {"none", "pending", "adrift", "done", "refused", "lost"}

To == UNION {[1 .. n -> Emp] : n \in 0 .. MaxTo}

NoCall == [phase |-> "none"]
Received == [phase: {"serving", "answered", "cut"}, event: Event, to: To,
             k: 1 .. MaxTo + 1, n: 0 .. MaxTo]

Row == [recipient_emp_no: Emp, event_type: Stored, is_read: BOOLEAN,
        read_at: BOOLEAN, read_by: Emp \cup {NoEmp}]

Id == DOMAIN db

Closed == [phase |-> "closed"]
Listing == [phase: {"listed", "shown"}, emp: Emp, messages: SUBSET (Nat \ {0}),
            unreadCount: Nat]

Init ==
  /\ up = TRUE
  /\ call = [c \in Call |-> NoCall]
  /\ mail = [i \in Item |-> "none"]
  /\ entry = [i \in Item |-> "none"]
  /\ db = <<>>
  /\ board = [r \in Reader |-> Closed]

---------------------------------------------------------------------------
(* handleWebhook                                                           *)

(* A payload that is not one is answered 400, and nothing is started.      *)
Receive(c) ==
  /\ up /\ call[c] = NoCall
  /\ \E e \in Event, to \in To :
       call' = [call EXCEPT ![c] =
                  [phase |-> IF to = <<>> THEN "answered" ELSE "serving",
                   event |-> e, to |-> to, k |-> 1, n |-> 0]]
  /\ UNCHANGED <<up, mail, entry, db, board>>

(* The loop's next round, or the answer: 202 with n, or 206 for none.      *)
Advance(c, counted) ==
  call' = [call EXCEPT ![c].k = @ + 1, ![c].n = @ + counted,
                       ![c].phase = IF call[c].k = Len(call[c].to) THEN "answered"
                                                                   ELSE "serving"]

Current(c) == <<c, call[c].k>>

(* findUserEmailByEmpNo gave nothing: no such user, or the user service    *)
(* did not answer; or the e-mail's text could not be made.                 *)
Skip_Counted(c) ==
  /\ up /\ call[c].phase = "serving"
  /\ Advance(c, 1)
  /\ UNCHANGED <<up, mail, entry, db, board>>

Skip(c) ==
  /\ up /\ call[c].phase = "serving"
  /\ Advance(c, 0)
  /\ UNCHANGED <<up, mail, entry, db, board>>

(* createDbNotification throws, and catches, for an event that is not in   *)
(* its enum.                                                               *)
Notify_Unchecked(c) ==
  /\ up /\ call[c].phase = "serving"
  /\ Advance(c, 1)
  /\ mail' = [mail EXCEPT ![Current(c)] = "pending"]
  /\ entry' = [entry EXCEPT ![Current(c)] = "pending"]
  /\ UNCHANGED <<up, db, board>>

Notify(c) ==
  /\ up /\ call[c].phase = "serving"
  /\ Advance(c, 1)
  /\ mail' = [mail EXCEPT ![Current(c)] = "pending"]
  /\ entry' = [entry EXCEPT ![Current(c)] =
                 IF call[c].event \in Stored THEN "pending" ELSE "refused"]
  /\ UNCHANGED <<up, db, board>>

---------------------------------------------------------------------------
(* What was started and not awaited.                                       *)

MailSent(i) ==
  /\ mail[i] \in {"pending", "adrift"}
  /\ mail' = [mail EXCEPT ![i] = "sent"]
  /\ UNCHANGED <<up, call, entry, db, board>>

EntryWritten(i) ==
  /\ entry[i] \in {"pending", "adrift"}
  /\ entry' = [entry EXCEPT ![i] = "done"]
  /\ db' = Append(db, [recipient_emp_no |-> call[i[1]].to[i[2]],
                       event_type |-> call[i[1]].event,
                       is_read |-> FALSE, read_at |-> FALSE, read_by |-> NoEmp])
  /\ UNCHANGED <<up, call, mail, board>>

(* createDbNotification catches the error and returns null; a row the      *)
(* process had not sent when it ended is not written at all.               *)
EntryLost(i) ==
  /\ \/ entry[i] = "pending" /\ "entry" \in Fault
     \/ entry[i] = "adrift"
  /\ entry' = [entry EXCEPT ![i] = "lost"]
  /\ UNCHANGED <<up, call, mail, db, board>>

MailLost(i) ==
  /\ mail[i] = "adrift"
  /\ mail' = [mail EXCEPT ![i] = "lost"]
  /\ UNCHANGED <<up, call, entry, db, board>>

---------------------------------------------------------------------------
(* The end of the process, and a new start.                                *)

Adrift(state) == [i \in Item |-> IF state[i] = "pending" THEN "adrift" ELSE state[i]]

Ends(mails) ==
  /\ up' = FALSE
  /\ mail' = Adrift(mails)
  /\ entry' = Adrift(entry)
  /\ call' = [c \in Call |-> IF call[c].phase = "serving"
                               THEN [call[c] EXCEPT !.phase = "cut"] ELSE call[c]]
  /\ board' = [r \in Reader |-> IF board[r].phase = "listed" THEN Closed ELSE board[r]]
  /\ UNCHANGED db

(* sendEmail throws again what sendMail threw, "to be handled by the       *)
(* controller", which has gone on: an unhandled rejection.                 *)
MailFails_CallsForgotten(i) ==
  /\ "mail" \in Fault /\ mail[i] = "pending"
  /\ up' = FALSE
  /\ mail' = Adrift([mail EXCEPT ![i] = "failed"])
  /\ entry' = Adrift(entry)
  /\ UNCHANGED <<call, db, board>>

MailFails(i) ==
  /\ "mail" \in Fault /\ mail[i] = "pending"
  /\ Ends([mail EXCEPT ![i] = "failed"])

Stop ==
  /\ "stop" \in Fault /\ up
  /\ Ends(mail)

Restart ==
  /\ ~up
  /\ up' = TRUE
  /\ UNCHANGED <<webhook, db, board>>

---------------------------------------------------------------------------
(* The dashboard.                                                          *)

Unread(e) == {i \in Id : db[i].recipient_emp_no = e /\ ~db[i].is_read}

(* getMyNotifications: getDbNotifications, whose errors are an empty list, *)
(* and then getUnreadNotificationCount.                                    *)
List(r) ==
  /\ up /\ board[r].phase # "listed"
  /\ \E e \in Emp :
     \E messages \in {Unread(e)} \cup (IF "query" \in Fault THEN {{}} ELSE {}) :
       board' = [board EXCEPT ![r] = [phase |-> "listed", emp |-> e,
                                      messages |-> messages, unreadCount |-> 0]]
  /\ UNCHANGED <<up, webhook, db>>

CountUnread_ReadToo(r) ==
  /\ up /\ board[r].phase = "listed"
  /\ board' = [board EXCEPT
                 ![r].phase = "shown",
                 ![r].unreadCount = Cardinality({i \in Id : db[i].recipient_emp_no = board[r].emp
                                                            /\ db[i].is_read})]
  /\ UNCHANGED <<up, webhook, db>>

CountUnread(r) ==
  /\ up /\ board[r].phase = "listed"
  /\ board' = [board EXCEPT ![r].phase = "shown",
                            ![r].unreadCount = Cardinality(Unread(board[r].emp))]
  /\ UNCHANGED <<up, webhook, db>>

(* updateMany: one statement.  read_by is a history of who asked for it.   *)
Mark(e, some, dated) ==
  /\ db' = [i \in Id |-> IF i \in some
                           THEN [db[i] EXCEPT !.is_read = TRUE, !.read_at = dated, !.read_by = e]
                           ELSE db[i]]
  /\ UNCHANGED <<up, webhook, board>>

MarkRead(e, i) == up /\ Mark(e, Unread(e) \cap {i}, TRUE)

(* markBulkDbNotificationsAsRead                                           *)
OwnUnread(e, ids) == Unread(e) \cap ids

MarkBulk_ReadToo(e, ids) ==
  up /\ Mark(e, {i \in ids : db[i].recipient_emp_no = e}, TRUE)

MarkBulk_AnyRecipient(e, ids) ==
  up /\ Mark(e, {i \in ids : ~db[i].is_read}, TRUE)

MarkBulk(e, ids) == up /\ Mark(e, OwnUnread(e, ids), TRUE)

(* The controller passes req.user.emp_no, which no token has: the filter   *)
(* on the recipient is undefined, and Prisma leaves it out.  The date is   *)
(* not written.                                                            *)
AllUnread == {i \in Id : ~db[i].is_read}

MarkAll(e) == up /\ Mark(e, AllUnread, FALSE)

---------------------------------------------------------------------------
Dashboard ==
  \/ \E r \in Reader : List(r) \/ CountUnread(r)
  \/ \E e \in Emp : \/ \E i \in Id : MarkRead(e, i)
                    \/ \E ids \in SUBSET Id : ids # {} /\ MarkBulk(e, ids)
                    \/ MarkAll(e)

Serve(c) == Skip(c) \/ Notify(c)

MailSettles(i) == MailSent(i) \/ MailLost(i) \/ MailFails(i)

EntrySettles(i) == EntryWritten(i) \/ EntryLost(i)

Next ==
  \/ \E c \in Call : Receive(c) \/ Serve(c)
  \/ \E i \in Item : MailSettles(i) \/ EntrySettles(i)
  \/ Stop \/ Restart
  \/ Dashboard

Spec == Init /\ [][Next]_vars

(* The process runs its handlers.  That the user service answers, or its   *)
(* connection breaks, is an assumption about that service and the network: *)
(* the call of axios has no timeout.  Nothing is assumed of the mail       *)
(* server, of the database, or of anybody who might restart the process.   *)
FairSpec == Spec /\ \A c \in Call : WF_vars(Serve(c))

---------------------------------------------------------------------------
(* Every variable has its type.                                            *)
TypeOK ==
  /\ up \in BOOLEAN
  /\ call \in [Call -> {NoCall} \cup Received]
  /\ mail \in [Item -> MailState]
  /\ entry \in [Item -> EntryState]
  /\ db \in Seq(Row)
  /\ board \in [Reader -> {Closed} \cup Listing]

(* Items of a call handleWebhook has started something for.                *)
Started(c, state) == {i \in Item : i[1] = c /\ state[i] # "none"}

(* The number of the answer is the number of recipients an e-mail and a    *)
(* row were started for, whatever became of either, and also when an       *)
(* e-mail that fails cuts the call short.                                  *)
SummaryIsStarted ==
  \A c \in Call : LET n == IF call[c] = NoCall THEN 0 ELSE call[c].n
                  IN /\ Cardinality(Started(c, mail)) = n
                     /\ Started(c, entry) = Started(c, mail)

(* A row with the date it was read at was read by its recipient, although  *)
(* mark-all-read marks the rows of everyone.                               *)
DatedByRecipient ==
  \A i \in Id : db[i].read_at => db[i].read_by = db[i].recipient_emp_no

(* The list and the count of one answer are read one after the other, with *)
(* calls and mark requests in between: what is listed and still unread is  *)
(* counted.                                                                *)
ListedIsCounted ==
  \A r \in Reader : board[r].phase = "shown" =>
    Cardinality({i \in board[r].messages : ~db[i].is_read}) <= board[r].unreadCount

(* A row that is read is not written again: it keeps its reader and date.  *)
ReadOnce ==
  [][\A i \in Id : db'[i].recipient_emp_no = db[i].recipient_emp_no
                   /\ (db[i].is_read => db'[i] = db[i])]_vars

(* A call is answered, unless the process ends.                            *)
CallEnds ==
  \A c \in Call : call[c].phase = "serving" ~> call[c].phase \in {"answered", "cut"}

---------------------------------------------------------------------------
(* The inductive invariant behind these.                                   *)

(* What was started for a call, whatever became of it, was started for the *)
(* recipients before the one whose turn it is.                             *)
StartedInTurn ==
  \A i \in Item : mail[i] # "none" \/ entry[i] # "none" =>
    call[i[1]] # NoCall /\ i[2] < call[i[1]].k

TurnByTurn ==
  \A c \in Call : call[c] # NoCall =>
    /\ call[c].n < call[c].k /\ call[c].k <= Len(call[c].to) + 1
    /\ call[c].phase = "serving" => call[c].k <= Len(call[c].to)

(* A row is begun only for an event the column has a value for.            *)
BegunIsStored ==
  \A i \in Item : entry[i] \notin {"none", "refused"} => call[i[1]].event \in Stored

ListedAreOwn ==
  \A r \in Reader : board[r] # Closed =>
    board[r].messages \subseteq {i \in Id : db[i].recipient_emp_no = board[r].emp}

NotificationInv ==
  /\ TypeOK
  /\ SummaryIsStarted /\ DatedByRecipient /\ ListedIsCounted
  /\ StartedInTurn /\ TurnByTurn /\ BegunIsStored /\ ListedAreOwn

---------------------------------------------------------------------------
(* "Controller to mark all of the authenticated user's unread              *)
(* notifications as read": of the user's own.                              *)
ReadByRecipient ==
  \A i \in Id : db[i].is_read => db[i].read_by = db[i].recipient_emp_no

(* "n user(s) notified via Email and Dashboard".                           *)
NotifiedOnBoth ==
  (\A i \in Item : mail[i] # "pending" /\ entry[i] # "pending") =>
    \A c \in Call : call[c].phase = "answered" =>
      \A i \in Started(c, mail) : mail[i] = "sent" /\ entry[i] = "done"

(* "throw error; // Re-throw to be handled by the controller": an e-mail   *)
(* that fails is the controller's to handle, which goes on and "responds   *)
(* to the webhook caller with a summary", as it does for every other       *)
(* error.  The controller has not awaited the e-mail, though.              *)
CallIsAnswered ==
  \A c \in Call : call[c].phase = "serving" ~> call[c].phase = "answered"
============================================================================
