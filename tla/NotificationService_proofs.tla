-------------------- MODULE NotificationService_proofs ---------------------
(***************************************************************************)
(* NotificationService for any employees, calls, readers and faults: its   *)
(* types, its inductive invariant NotificationInv, and the properties that *)
(* follow.                                                                 *)
(***************************************************************************)
EXTENDS NotificationService, FiniteSetTheorems, SequenceTheorems, TLAPS

USE EmpAssumption, EventAssumption, MaxToAssumption, FaultAssumption

---------------------------------------------------------------------------
(* NotificationInv, sorted by what it is about: one call, one dashboard.   *)

Begun(i) == mail[i] # "none" \/ entry[i] # "none"

TurnOK(w) ==
  w # NoCall => /\ w.n < w.k /\ w.k <= Len(w.to) + 1
                /\ w.phase = "serving" => w.k <= Len(w.to)

ItemsOK(c, w) ==
  \A i \in Item : i[1] = c =>
    /\ Begun(i) => w # NoCall /\ i[2] < w.k
    /\ entry[i] \notin {"none", "refused"} => w.event \in Stored

CountOK(c, w) ==
  /\ Cardinality(Started(c, mail)) = IF w = NoCall THEN 0 ELSE w.n
  /\ Started(c, entry) = Started(c, mail)

CallOK(c, w) ==
  w \in {NoCall} \cup Received /\ TurnOK(w) /\ ItemsOK(c, w) /\ CountOK(c, w)

ItemTypes == mail \in [Item -> MailState] /\ entry \in [Item -> EntryState]

WebhookOK ==
  ItemTypes /\ call = [c \in Call |-> call[c]] /\ \A c \in Call : CallOK(c, call[c])

RowsOK == db \in Seq(Row) /\ DatedByRecipient

StillUnread(v) == {i \in v.messages : ~db[i].is_read}

ViewOK(v) ==
  /\ v \in {Closed} \cup Listing
  /\ v # Closed => v.messages \subseteq {i \in Id : db[i].recipient_emp_no = v.emp}
  /\ v.phase = "shown" => Cardinality(StillUnread(v)) <= v.unreadCount

BoardOK == board = [r \in Reader |-> board[r]] /\ \A r \in Reader : ViewOK(board[r])

LEMMA InvIsParts == NotificationInv <=> up \in BOOLEAN /\ WebhookOK /\ RowsOK /\ BoardOK
<1>1. ASSUME NotificationInv
      PROVE  up \in BOOLEAN /\ WebhookOK /\ RowsOK /\ BoardOK
  <2>1. WebhookOK
    <3>1. ASSUME NEW c \in Call
          PROVE  CallOK(c, call[c])
      <4>1. call[c] \in {NoCall} \cup Received /\ TurnOK(call[c])
        BY <1>1 DEF NotificationInv, TypeOK, TurnByTurn, TurnOK
      <4>2. ItemsOK(c, call[c])
        BY <1>1 DEF NotificationInv, StartedInTurn, BegunIsStored, ItemsOK, Begun
      <4>3. CountOK(c, call[c])
        BY <1>1 DEF NotificationInv, SummaryIsStarted, CountOK
      <4> QED BY <4>1, <4>2, <4>3 DEF CallOK
    <3> QED BY <1>1, <3>1 DEF WebhookOK, ItemTypes, NotificationInv, TypeOK
  <2>2. RowsOK
    BY <1>1 DEF RowsOK, NotificationInv, TypeOK
  <2>3. BoardOK
    <3>1. ASSUME NEW r \in Reader
          PROVE  ViewOK(board[r])
      BY <1>1 DEF ViewOK, StillUnread, NotificationInv, TypeOK, ListedAreOwn, ListedIsCounted
    <3> QED BY <1>1, <3>1 DEF BoardOK, NotificationInv, TypeOK
  <2> QED BY <1>1, <2>1, <2>2, <2>3 DEF NotificationInv, TypeOK
<1>2. ASSUME up \in BOOLEAN, WebhookOK, RowsOK, BoardOK
      PROVE  NotificationInv
  <2>1. TypeOK
    BY <1>2 DEF TypeOK, WebhookOK, ItemTypes, CallOK, RowsOK, BoardOK, ViewOK
  <2>2. SummaryIsStarted /\ TurnByTurn
    BY <1>2 DEF SummaryIsStarted, TurnByTurn, TurnOK, WebhookOK, CallOK, CountOK
  <2>3. StartedInTurn /\ BegunIsStored
    <3>1. ASSUME NEW i \in Item
          PROVE  i[1] \in Call
      BY DEF Item
    <3> QED BY <1>2, <3>1 DEF StartedInTurn, BegunIsStored, WebhookOK, CallOK, ItemsOK, Begun
  <2>4. DatedByRecipient
    BY <1>2 DEF RowsOK
  <2>5. ListedIsCounted /\ ListedAreOwn
    BY <1>2 DEF ListedIsCounted, ListedAreOwn, BoardOK, ViewOK, StillUnread
  <2> QED BY <2>1, <2>2, <2>3, <2>4, <2>5 DEF NotificationInv
<1> QED BY <1>1, <1>2

---------------------------------------------------------------------------
(* The webhook.                                                            *)

LEMMA Recipients ==
  ASSUME NEW to \in To
  PROVE  /\ to \in Seq(Emp) /\ Len(to) \in 0 .. MaxTo
         /\ to # <<>> => Len(to) >= 1
         /\ \A k \in 1 .. Len(to) : to[k] \in Emp
<1>1. PICK n \in 0 .. MaxTo : to \in [1 .. n -> Emp]
  BY DEF To
<1>2. to \in Seq(Emp) /\ Len(to) = n
  BY <1>1
<1>3. to # <<>> => Len(to) # 0
  BY <1>2, EmptySeq
<1> QED BY <1>1, <1>2, <1>3

LEMMA StartedFinite ==
  ASSUME NEW c \in Call, NEW state
  PROVE  IsFiniteSet(Started(c, state)) /\ Cardinality(Started(c, state)) \in Nat
<1>1. IsFiniteSet({c} \X (1 .. MaxTo))
  <2>1. IsFiniteSet({c}) /\ IsFiniteSet(1 .. MaxTo)
    <3>1. ASSUME NEW m \in Nat
          PROVE  IsFiniteSet(1 .. m)
      BY FS_Interval
    <3> QED BY <3>1, FS_Singleton
  <2> QED BY <2>1, FS_Product
<1>2. Started(c, state) \in SUBSET ({c} \X (1 .. MaxTo))
  BY DEF Started, Item
<1>3. IsFiniteSet(Started(c, state))
  BY <1>1, <1>2, FS_Subset
<1> QED BY <1>3, FS_CardinalityType

(* What was begun is settled, or not, and calls may be cut short.          *)
Settled ==
  \A i \in Item : /\ mail'[i] = "none" <=> mail[i] = "none"
                  /\ entry'[i] = "none" <=> entry[i] = "none"
                  /\ entry'[i] \notin {"none", "refused"} => entry[i] \notin {"none", "refused"}

LEMMA SettledCall ==
  ASSUME Settled, NEW c \in Call, NEW w, CallOK(c, w), NEW v,
         v = w \/ (w # NoCall /\ v = [w EXCEPT !.phase = "cut"])
  PROVE  CallOK(c, v)'
<1>1. v \in {NoCall} \cup Received /\ TurnOK(v) /\ (v = NoCall <=> w = NoCall)
  BY DEF CallOK, TurnOK, Received, NoCall
<1>2. v # NoCall => v.n = w.n /\ v.k = w.k /\ v.event = w.event
  BY <1>1 DEF CallOK, Received, NoCall
<1>3. Started(c, mail)' = Started(c, mail) /\ Started(c, entry)' = Started(c, entry)
  BY DEF Settled, Started
<1>4. CountOK(c, v)'
  BY <1>1, <1>2, <1>3 DEF CallOK, CountOK
<1>5. ASSUME NEW i \in Item, i[1] = c
      PROVE  /\ Begun(i)' => v # NoCall /\ i[2] < v.k
             /\ entry'[i] \notin {"none", "refused"} => v.event \in Stored
  BY <1>1, <1>2, <1>5 DEF CallOK, ItemsOK, Begun, Settled
<1>6. ItemsOK(c, v)'
  BY <1>5 DEF ItemsOK
<1> QED BY <1>1, <1>4, <1>6 DEF CallOK, TurnOK

LEMMA SettledOK ==
  ASSUME WebhookOK, ItemTypes', Settled,
         call' = [c \in Call |-> call'[c]],
         \A c \in Call : \/ call'[c] = call[c]
                         \/ /\ call[c] # NoCall
                            /\ call'[c] = [call[c] EXCEPT !.phase = "cut"]
  PROVE  WebhookOK'
<1>1. ASSUME NEW c \in Call
      PROVE  CallOK(c, call[c])'
  <2>1. ASSUME NEW v, v = call'[c]
        PROVE  CallOK(c, v)'
    BY <2>1, SettledCall DEF WebhookOK
  <2> QED BY <2>1 DEF CallOK, TurnOK, ItemsOK, CountOK
<1> QED BY <1>1 DEF WebhookOK

LEMMA MailSettlesOK ==
  ASSUME WebhookOK, NEW i \in Item, MailSent(i) \/ MailLost(i)
  PROVE  WebhookOK'
<1>1. ItemTypes' /\ Settled
  BY DEF WebhookOK, ItemTypes, MailState, Settled, MailSent, MailLost
<1> QED BY <1>1, SettledOK DEF WebhookOK, MailSent, MailLost

LEMMA EntrySettlesOK ==
  ASSUME WebhookOK, NEW i \in Item, EntryWritten(i) \/ EntryLost(i)
  PROVE  WebhookOK'
<1>1. ItemTypes' /\ Settled
  BY DEF WebhookOK, ItemTypes, EntryState, Settled, EntryWritten, EntryLost
<1> QED BY <1>1, SettledOK DEF WebhookOK, EntryWritten, EntryLost

LEMMA EndsOK ==
  ASSUME WebhookOK, NEW mails \in [Item -> MailState], Ends(mails),
         \A i \in Item : mails[i] = "none" <=> mail[i] = "none"
  PROVE  WebhookOK'
<1>1. ItemTypes' /\ Settled
  BY DEF WebhookOK, ItemTypes, MailState, EntryState, Settled, Ends, Adrift
<1>2. call' = [c \in Call |-> call'[c]]
  BY DEF Ends
<1>3. ASSUME NEW c \in Call
      PROVE  \/ call'[c] = call[c]
             \/ /\ call[c] # NoCall
                /\ call'[c] = [call[c] EXCEPT !.phase = "cut"]
  BY DEF Ends, NoCall
<1> QED BY <1>1, <1>2, <1>3, SettledOK

(* One call changes, and possibly what was begun for it.                   *)
LEMMA CallStepOK ==
  ASSUME WebhookOK, ItemTypes', NEW c \in Call, NEW w, CallOK(c, w)',
         call' = [call EXCEPT ![c] = w],
         \A i \in Item : i[1] # c => mail'[i] = mail[i] /\ entry'[i] = entry[i]
  PROVE  WebhookOK'
<1>1. call' = [b \in Call |-> call'[b]]
  BY DEF WebhookOK
<1>2. ASSUME NEW b \in Call
      PROVE  CallOK(b, call[b])'
  <2>1. CASE b = c
    <3>1. call'[b] = w
      BY <2>1 DEF WebhookOK
    <3> QED BY <2>1, <3>1 DEF CallOK, TurnOK, ItemsOK, CountOK
  <2>2. CASE b # c
    <3>1. call'[b] = call[b]
      BY <2>2 DEF WebhookOK
    <3>2. \A i \in Item : i[1] = b => mail'[i] = mail[i] /\ entry'[i] = entry[i]
      BY <2>2
    <3>3. Started(b, mail)' = Started(b, mail) /\ Started(b, entry)' = Started(b, entry)
      BY <3>2 DEF Started
    <3>4. CallOK(b, call[b])
      BY DEF WebhookOK
    <3> QED BY <3>1, <3>2, <3>3, <3>4 DEF CallOK, TurnOK, ItemsOK, CountOK, Begun
  <2> QED BY <2>1, <2>2
<1> QED BY <1>1, <1>2 DEF WebhookOK

LEMMA ReceiveOK ==
  ASSUME WebhookOK, NEW c \in Call, Receive(c)
  PROVE  WebhookOK'
<1>1. PICK e \in Event, to \in To :
        call' = [call EXCEPT ![c] =
                   [phase |-> IF to = <<>> THEN "answered" ELSE "serving",
                    event |-> e, to |-> to, k |-> 1, n |-> 0]]
  BY DEF Receive
<1> DEFINE w == [phase |-> IF to = <<>> THEN "answered" ELSE "serving",
                 event |-> e, to |-> to, k |-> 1, n |-> 0]
<1>2. w \in Received /\ w # NoCall /\ TurnOK(w)
  BY Recipients DEF Received, NoCall, TurnOK
<1>3. UNCHANGED <<mail, entry>> /\ call[c] = NoCall
  BY DEF Receive
<1>4. CallOK(c, NoCall)
  BY <1>3 DEF WebhookOK
<1>5. ItemsOK(c, w)'
  BY <1>3, <1>4 DEF CallOK, ItemsOK, Begun
<1>6. CountOK(c, w)'
  BY <1>2, <1>3, <1>4 DEF CallOK, CountOK, Started
<1>7. CallOK(c, w)'
  BY <1>2, <1>5, <1>6 DEF CallOK, TurnOK
<1>8. ItemTypes'
  BY <1>3 DEF WebhookOK, ItemTypes
<1> HIDE DEF w
<1>9. PICK v : v = w
  OBVIOUS
<1>10. CallOK(c, v)' /\ call' = [call EXCEPT ![c] = v]
  BY <1>1, <1>7, <1>9 DEF w
<1> QED BY <1>3, <1>8, <1>10, CallStepOK

(* The recipient whose turn it is.                                         *)
LEMMA ServingCall ==
  ASSUME WebhookOK, NEW c \in Call, call[c].phase = "serving"
  PROVE  /\ call[c] \in Received /\ CallOK(c, call[c])
         /\ call[c].k \in 1 .. Len(call[c].to) /\ Len(call[c].to) \in 0 .. MaxTo
         /\ call[c].n \in Nat /\ call[c].n < call[c].k
         /\ Current(c) \in Item /\ mail[Current(c)] = "none" /\ entry[Current(c)] = "none"
<1>1. call[c] \in Received /\ CallOK(c, call[c]) /\ call[c] # NoCall
  BY DEF WebhookOK, CallOK, NoCall
<1>2. call[c].to \in To /\ call[c].k \in 1 .. MaxTo + 1 /\ call[c].n \in Nat
  BY <1>1 DEF Received
<1>3. Len(call[c].to) \in 0 .. MaxTo
  BY <1>2, Recipients
<1>4. call[c].k \in 1 .. Len(call[c].to) /\ call[c].n < call[c].k
  BY <1>1, <1>2, <1>3 DEF CallOK, TurnOK
<1>5. Current(c) \in Item /\ Current(c)[1] = c /\ Current(c)[2] = call[c].k
  BY <1>3, <1>4 DEF Current, Item
<1>6. ~ Begun(Current(c))
  BY <1>1, <1>2, <1>5 DEF CallOK, ItemsOK
<1> QED BY <1>1, <1>2, <1>3, <1>4, <1>5, <1>6 DEF Begun

Served(w, counted) ==
  [w EXCEPT !.k = @ + 1, !.n = @ + counted,
            !.phase = IF w.k = Len(w.to) THEN "answered" ELSE "serving"]

LEMMA ServedCall ==
  ASSUME WebhookOK, NEW c \in Call, call[c].phase = "serving", NEW counted \in {0, 1}
  PROVE  LET w == Served(call[c], counted)
         IN /\ w \in Received /\ w # NoCall /\ TurnOK(w)
            /\ w.k = call[c].k + 1 /\ w.n = call[c].n + counted
            /\ w.event = call[c].event
<1> DEFINE w == Served(call[c], counted)
<1>1. /\ call[c] \in Received /\ call[c].k \in 1 .. Len(call[c].to)
      /\ Len(call[c].to) \in 0 .. MaxTo /\ call[c].n \in Nat /\ call[c].n < call[c].k
  BY ServingCall
<1>2. /\ w.k = call[c].k + 1 /\ w.n = call[c].n + counted
      /\ w.event = call[c].event /\ w.to = call[c].to
      /\ w.phase = IF call[c].k = Len(call[c].to) THEN "answered" ELSE "serving"
  BY <1>1 DEF Served, Received
<1>3. w \in Received
  <2>1. call[c].k + 1 \in 1 .. MaxTo + 1 /\ call[c].n + counted \in 0 .. MaxTo
    BY <1>1
  <2> QED BY <1>1, <2>1 DEF Served, Received
<1>4. TurnOK(w) /\ w # NoCall
  BY <1>1, <1>2 DEF TurnOK, NoCall
<1> QED BY <1>2, <1>3, <1>4

LEMMA SkipOK ==
  ASSUME WebhookOK, NEW c \in Call, Skip(c)
  PROVE  WebhookOK'
<1> PICK w : w = Served(call[c], 0)
  OBVIOUS
<1>0. call[c].phase = "serving" /\ UNCHANGED <<mail, entry>> /\ call' = [call EXCEPT ![c] = w]
  BY DEF Skip, Advance, Served, WebhookOK
<1>1. /\ call[c] \in Received /\ CallOK(c, call[c]) /\ call[c].n \in Nat
      /\ call[c].k \in 1 .. Len(call[c].to) /\ Len(call[c].to) \in 0 .. MaxTo
      /\ call[c] # NoCall
  BY <1>0, ServingCall DEF NoCall
<1>2. /\ w \in Received /\ w # NoCall /\ TurnOK(w)
      /\ w.k = call[c].k + 1 /\ w.n = call[c].n /\ w.event = call[c].event
  BY <1>0, <1>1, ServedCall
<1>3. ItemsOK(c, w)'
  <2>1. ASSUME NEW i \in Item, i[1] = c
        PROVE  /\ Begun(i)' => i[2] < w.k
               /\ entry'[i] \notin {"none", "refused"} => w.event \in Stored
    <3>1. i[2] \in 1 .. MaxTo
      BY DEF Item
    <3> QED BY <1>0, <1>1, <1>2, <2>1, <3>1 DEF CallOK, ItemsOK, Begun
  <2> QED BY <1>2, <2>1 DEF ItemsOK
<1>4. CountOK(c, w)'
  BY <1>0, <1>1, <1>2 DEF CallOK, CountOK, Started
<1>5. CallOK(c, w)'
  BY <1>2, <1>3, <1>4 DEF CallOK, TurnOK
<1>6. ItemTypes'
  BY <1>0 DEF WebhookOK, ItemTypes
<1> QED BY <1>0, <1>5, <1>6, CallStepOK

LEMMA NotifyOK ==
  ASSUME WebhookOK, NEW c \in Call, Notify(c)
  PROVE  WebhookOK'
<1> PICK w : w = Served(call[c], 1)
  OBVIOUS
<1>0. /\ call[c].phase = "serving" /\ call' = [call EXCEPT ![c] = w]
      /\ mail' = [mail EXCEPT ![Current(c)] = "pending"]
      /\ entry' = [entry EXCEPT ![Current(c)] =
                      IF call[c].event \in Stored THEN "pending" ELSE "refused"]
  BY DEF Notify, Advance, Served, WebhookOK
<1>1. /\ call[c] \in Received /\ CallOK(c, call[c]) /\ call[c].n \in Nat
      /\ call[c].k \in 1 .. Len(call[c].to) /\ Len(call[c].to) \in 0 .. MaxTo
      /\ call[c] # NoCall
      /\ Current(c) \in Item /\ mail[Current(c)] = "none" /\ entry[Current(c)] = "none"
  BY <1>0, ServingCall DEF NoCall
<1>2. /\ w \in Received /\ w # NoCall /\ TurnOK(w)
      /\ w.k = call[c].k + 1 /\ w.n = call[c].n + 1 /\ w.event = call[c].event
  BY <1>0, <1>1, ServedCall
<1>3. /\ Current(c)[1] = c /\ Current(c)[2] = call[c].k
      /\ \A i \in Item : i # Current(c) => mail'[i] = mail[i] /\ entry'[i] = entry[i]
      /\ mail'[Current(c)] = "pending" /\ entry'[Current(c)] \in {"pending", "refused"}
      /\ entry'[Current(c)] = "pending" => call[c].event \in Stored
  BY <1>0, <1>1 DEF Current, WebhookOK, ItemTypes
<1>4. ItemsOK(c, w)'
  <2>1. ASSUME NEW i \in Item, i[1] = c
        PROVE  /\ Begun(i)' => i[2] < w.k
               /\ entry'[i] \notin {"none", "refused"} => w.event \in Stored
    <3>1. i[2] \in 1 .. MaxTo
      BY DEF Item
    <3>2. CASE i = Current(c)
      BY <1>1, <1>2, <1>3, <3>1, <3>2
    <3>3. CASE i # Current(c)
      BY <1>1, <1>2, <1>3, <2>1, <3>1, <3>3 DEF CallOK, ItemsOK, Begun
    <3> QED BY <3>2, <3>3
  <2> QED BY <1>2, <2>1 DEF ItemsOK
<1>5. CountOK(c, w)'
  <2>1. Started(c, mail)' = Started(c, mail) \cup {Current(c)}
    BY <1>1, <1>3 DEF Started
  <2>2. Started(c, entry)' = Started(c, entry) \cup {Current(c)}
    BY <1>1, <1>3 DEF Started
  <2>3. Current(c) \notin Started(c, mail)
    BY <1>1 DEF Started
  <2>4. Cardinality(Started(c, mail) \cup {Current(c)}) = Cardinality(Started(c, mail)) + 1
    BY <2>3, StartedFinite, FS_AddElement
  <2> QED BY <1>1, <1>2, <2>1, <2>2, <2>4 DEF CallOK, CountOK
<1>6. CallOK(c, w)'
  BY <1>2, <1>4, <1>5 DEF CallOK, TurnOK
<1>7. ItemTypes'
  BY <1>0 DEF WebhookOK, ItemTypes, MailState, EntryState
<1> QED BY <1>0, <1>3, <1>6, <1>7, CallStepOK

---------------------------------------------------------------------------
(* The rows.                                                               *)

(* A row keeps its recipient, and once it is read it is not written again. *)
RowKept(old, new) ==
  new.recipient_emp_no = old.recipient_emp_no /\ (old.is_read => new = old)

RowsKept == \A i \in Id : i \in DOMAIN db' /\ RowKept(db[i], db'[i])

LEMMA RowAt ==
  ASSUME RowsOK
  PROVE  /\ Id = 1 .. Len(db) /\ Len(db) \in Nat /\ IsFiniteSet(Id)
         /\ \A i \in Id : i \in Nat \ {0} /\ db[i] \in Row
<1>1. Len(db) \in Nat /\ Id = 1 .. Len(db)
  BY DEF RowsOK, Id
<1>2. \A i \in Id : i \in Nat \ {0} /\ db[i] \in Row
  BY <1>1 DEF RowsOK
<1>3. IsFiniteSet(Id)
  <2>1. ASSUME NEW m \in Nat
        PROVE  IsFiniteSet(1 .. m)
    BY FS_Interval
  <2> QED BY <1>1, <2>1
<1> QED BY <1>1, <1>2, <1>3

LEMMA SameRows ==
  ASSUME RowsOK, UNCHANGED db
  PROVE  RowsOK' /\ RowsKept
BY DEF RowsOK, DatedByRecipient, RowsKept, RowKept, Id

LEMMA WrittenRows ==
  ASSUME WebhookOK, RowsOK, NEW i \in Item, EntryWritten(i)
  PROVE  RowsOK' /\ RowsKept
<1>1. PICK c \in Call, k \in 1 .. MaxTo : i = <<c, k>>
  BY DEF Item
<1>2. CallOK(c, call[c]) /\ Begun(i) /\ entry[i] \notin {"none", "refused"}
  BY DEF WebhookOK, EntryWritten, Begun
<1>3. call[c] \in Received /\ k < call[c].k /\ call[c].event \in Stored
  BY <1>1, <1>2 DEF CallOK, ItemsOK
<1>4. call[c] # NoCall
  BY <1>1, <1>2 DEF CallOK, ItemsOK
<1>5. call[c].to \in To /\ call[c].k \in 1 .. MaxTo + 1 /\ call[c].k <= Len(call[c].to) + 1
  BY <1>2, <1>3, <1>4 DEF CallOK, TurnOK, Received
<1>6. call[c].to[k] \in Emp
  BY <1>3, <1>5, Recipients
<1> DEFINE row == [recipient_emp_no |-> call[c].to[k], event_type |-> call[c].event,
                   is_read |-> FALSE, read_at |-> FALSE, read_by |-> NoEmp]
<1>7. row \in Row /\ ~row.read_at
  BY <1>3, <1>6 DEF Row
<1>8. db' = Append(db, row)
  BY <1>1 DEF EntryWritten
<1> HIDE DEF row
<1>9. /\ db' \in Seq(Row) /\ Len(db') = Len(db) + 1 /\ Len(db) \in Nat
      /\ \A j \in 1 .. Len(db) : db'[j] = db[j]
      /\ db'[Len(db) + 1] = row
  BY <1>7, <1>8 DEF RowsOK
<1>10. Id = 1 .. Len(db) /\ Id' = 1 .. Len(db) + 1 /\ DOMAIN db' = 1 .. Len(db) + 1
  BY <1>9 DEF Id, RowsOK
<1>11. DatedByRecipient'
  BY <1>7, <1>9, <1>10 DEF DatedByRecipient, RowsOK
<1> QED BY <1>9, <1>10, <1>11 DEF RowsOK, RowsKept, RowKept

LEMMA MarkedRows ==
  ASSUME RowsOK, NEW e \in Emp, NEW some \in SUBSET Id, NEW dated \in BOOLEAN,
         Mark(e, some, dated),
         \A i \in some : ~db[i].is_read /\ (dated => db[i].recipient_emp_no = e)
  PROVE  RowsOK' /\ RowsKept
<1>1. /\ DOMAIN db' = Id
      /\ \A i \in Id : db'[i] = IF i \in some
                                THEN [db[i] EXCEPT !.is_read = TRUE, !.read_at = dated, !.read_by = e]
                                ELSE db[i]
  BY DEF Mark
<1>2. ASSUME NEW i \in Id
      PROVE  db'[i] \in Row
  <2>1. db[i] \in Row
    BY RowAt
  <2>2. CASE i \in some
    BY <1>1, <2>1, <2>2 DEF Row
  <2>3. CASE i \notin some
    BY <1>1, <2>1, <2>3
  <2> QED BY <2>2, <2>3
<1>3. db' \in Seq(Row)
  <2>1. PICK n \in Nat : n = Len(db)
    BY RowAt
  <2>2. DOMAIN db' = 1 .. n /\ db' = [i \in 1 .. n |-> db'[i]]
    BY <1>1, <2>1, RowAt DEF Mark
  <2>3. db' \in [1 .. n -> Row]
    BY <1>1, <1>2, <2>2
  <2> QED BY <2>3
<1>4. ASSUME NEW i \in Id
      PROVE  /\ RowKept(db[i], db'[i])
             /\ db'[i].read_at => db'[i].read_by = db'[i].recipient_emp_no
  <2>1. db[i] \in Row
    BY RowAt
  <2>2. CASE i \in some
    BY <1>1, <2>1, <2>2 DEF Row, RowKept
  <2>3. CASE i \notin some
    BY <1>1, <2>3 DEF RowsOK, DatedByRecipient, RowKept
  <2> QED BY <2>2, <2>3
<1>5. Id' = Id /\ \A i \in Id : i \in DOMAIN db'
  BY <1>1 DEF Id
<1>6. DatedByRecipient'
  BY <1>4, <1>5 DEF DatedByRecipient
<1> QED BY <1>3, <1>4, <1>5, <1>6 DEF RowsOK, RowsKept

LEMMA MarkStep ==
  ASSUME RowsOK, NEW e \in Emp,
         \/ \E i \in Id : MarkRead(e, i)
         \/ \E ids \in SUBSET Id : MarkBulk(e, ids)
         \/ MarkAll(e)
  PROVE  RowsOK' /\ RowsKept /\ UNCHANGED <<up, webhook, board>>
<1>1. ASSUME NEW i \in Id, MarkRead(e, i)
      PROVE  RowsOK' /\ RowsKept /\ UNCHANGED <<up, webhook, board>>
  <2>1. PICK some : some = Unread(e) \cap {i}
    OBVIOUS
  <2>2. some \in SUBSET Id /\ \A j \in some : ~db[j].is_read /\ db[j].recipient_emp_no = e
    BY <2>1 DEF Unread
  <2>3. Mark(e, some, TRUE)
    BY <1>1, <2>1 DEF MarkRead
  <2> QED BY <2>2, <2>3, MarkedRows DEF Mark
<1>2. ASSUME NEW ids \in SUBSET Id, MarkBulk(e, ids)
      PROVE  RowsOK' /\ RowsKept /\ UNCHANGED <<up, webhook, board>>
  <2>1. PICK some : some = OwnUnread(e, ids)
    OBVIOUS
  <2>2. some \in SUBSET Id /\ \A j \in some : ~db[j].is_read /\ db[j].recipient_emp_no = e
    BY <2>1 DEF OwnUnread, Unread
  <2>3. Mark(e, some, TRUE)
    BY <1>2, <2>1 DEF MarkBulk
  <2> QED BY <2>2, <2>3, MarkedRows DEF Mark
<1>3. ASSUME MarkAll(e)
      PROVE  RowsOK' /\ RowsKept /\ UNCHANGED <<up, webhook, board>>
  <2>1. PICK some : some = AllUnread
    OBVIOUS
  <2>2. some \in SUBSET Id /\ \A j \in some : ~db[j].is_read
    BY <2>1 DEF AllUnread
  <2>3. Mark(e, some, FALSE)
    BY <1>3, <2>1 DEF MarkAll
  <2> QED BY <2>2, <2>3, MarkedRows DEF Mark
<1> QED BY <1>1, <1>2, <1>3

---------------------------------------------------------------------------
(* The dashboards.                                                         *)

(* What an answer lists and is still unread only gets smaller.             *)
LEMMA ViewKept ==
  ASSUME RowsOK, RowsOK', RowsKept, NEW v, ViewOK(v)
  PROVE  ViewOK(v)'
<1>1. CASE v = Closed
  BY <1>1 DEF ViewOK, Closed
<1>2. CASE v # Closed
  <2>1. v \in Listing /\ v.messages \subseteq {i \in Id : db[i].recipient_emp_no = v.emp}
    BY <1>2 DEF ViewOK
  <2>2. v.messages \subseteq {i \in Id' : db'[i].recipient_emp_no = v.emp}
    <3>1. ASSUME NEW i \in v.messages
          PROVE  i \in Id' /\ db'[i].recipient_emp_no = v.emp
      <4>1. i \in Id /\ db[i].recipient_emp_no = v.emp
        BY <2>1
      <4>2. i \in DOMAIN db' /\ db'[i].recipient_emp_no = db[i].recipient_emp_no
        BY <4>1 DEF RowsKept, RowKept
      <4> QED BY <4>1, <4>2 DEF Id
    <3> QED BY <3>1
  <2>3. StillUnread(v)' \subseteq StillUnread(v)
    <3>1. ASSUME NEW i \in v.messages, ~db'[i].is_read
          PROVE  ~db[i].is_read
      <4>1. i \in Id
        BY <2>1
      <4>2. RowKept(db[i], db'[i])
        BY <4>1 DEF RowsKept
      <4> QED BY <3>1, <4>2 DEF RowKept
    <3> QED BY <3>1 DEF StillUnread
  <2>4. StillUnread(v) \subseteq Id /\ IsFiniteSet(StillUnread(v))
    <3>1. StillUnread(v) \subseteq Id
      BY <2>1 DEF StillUnread
    <3> QED BY <3>1, RowAt, FS_Subset
  <2>5. /\ Cardinality(StillUnread(v)') <= Cardinality(StillUnread(v))
        /\ Cardinality(StillUnread(v)') \in Nat /\ Cardinality(StillUnread(v)) \in Nat
    BY <2>3, <2>4, FS_Subset, FS_CardinalityType
  <2>6. v.unreadCount \in Nat
    BY <2>1 DEF Listing
  <2>7. ASSUME v.phase = "shown"
        PROVE  Cardinality(StillUnread(v)') <= v.unreadCount
    BY <2>5, <2>6, <2>7 DEF ViewOK
  <2> QED BY <2>1, <2>2, <2>7 DEF ViewOK
<1> QED BY <1>1, <1>2

LEMMA SameBoard ==
  ASSUME RowsOK, RowsOK', RowsKept, BoardOK, UNCHANGED board
  PROVE  BoardOK'
<1>1. ASSUME NEW r \in Reader
      PROVE  ViewOK(board[r])'
  <2>1. PICK v : v = board[r]
    OBVIOUS
  <2>2. ViewOK(v)'
    BY <2>1, ViewKept DEF BoardOK
  <2>3. board'[r] = v
    BY <2>1
  <2> QED BY <2>2, <2>3 DEF ViewOK, StillUnread
<1> QED BY <1>1 DEF BoardOK

(* Readers open and close their dashboards while the rows stay.            *)
LEMMA BoardStep ==
  ASSUME RowsOK, UNCHANGED db, BoardOK, board' = [r \in Reader |-> board'[r]],
         \A r \in Reader : board'[r] = board[r] \/ ViewOK(board'[r])
  PROVE  BoardOK'
<1>1. ASSUME NEW r \in Reader
      PROVE  ViewOK(board[r])'
  BY DEF BoardOK, ViewOK, StillUnread, Id
<1> QED BY <1>1 DEF BoardOK

LEMMA ClosedIsOK == ViewOK(Closed)
BY DEF ViewOK, Closed

LEMMA EndsBoard ==
  ASSUME RowsOK, BoardOK, NEW mails, Ends(mails)
  PROVE  BoardOK' /\ UNCHANGED db
<1>1. \A r \in Reader : board'[r] = board[r] \/ board'[r] = Closed
  BY DEF Ends
<1>2. board' = [r \in Reader |-> board'[r]] /\ UNCHANGED db
  BY DEF Ends
<1> QED BY <1>1, <1>2, ClosedIsOK, BoardStep

LEMMA UnreadRows ==
  ASSUME RowsOK, NEW e
  PROVE  /\ Unread(e) \subseteq Id /\ Unread(e) \in SUBSET (Nat \ {0})
         /\ IsFiniteSet(Unread(e)) /\ Cardinality(Unread(e)) \in Nat
<1>1. Unread(e) \subseteq Id
  BY DEF Unread
<1>2. Unread(e) \in SUBSET (Nat \ {0}) /\ IsFiniteSet(Unread(e))
  BY <1>1, RowAt, FS_Subset
<1> QED BY <1>1, <1>2, FS_CardinalityType

LEMMA ListOK ==
  ASSUME RowsOK, BoardOK, NEW r \in Reader, List(r)
  PROVE  BoardOK'
<1>1. PICK e \in Emp : \E messages \in {Unread(e)} \cup {{}} :
        board' = [board EXCEPT ![r] = [phase |-> "listed", emp |-> e,
                                       messages |-> messages, unreadCount |-> 0]]
  BY DEF List
<1>2. PICK messages \in {Unread(e)} \cup {{}} :
        board' = [board EXCEPT ![r] = [phase |-> "listed", emp |-> e,
                                       messages |-> messages, unreadCount |-> 0]]
  BY <1>1
<1>3. messages \in SUBSET (Nat \ {0}) /\ messages \subseteq {i \in Id : db[i].recipient_emp_no = e}
  BY UnreadRows DEF Unread
<1>4. PICK v : v = [phase |-> "listed", emp |-> e, messages |-> messages, unreadCount |-> 0]
  OBVIOUS
<1>5. ViewOK(v)
  BY <1>3, <1>4 DEF ViewOK, Listing
<1>6. board' = [board EXCEPT ![r] = v] /\ UNCHANGED db
  BY <1>2, <1>4 DEF List
<1> QED BY <1>5, <1>6, BoardStep DEF BoardOK

LEMMA CountUnreadOK ==
  ASSUME RowsOK, BoardOK, NEW r \in Reader, CountUnread(r)
  PROVE  BoardOK'
<1>1. board[r] \in Listing /\ board[r].messages \subseteq {i \in Id : db[i].recipient_emp_no = board[r].emp}
  BY DEF BoardOK, ViewOK, CountUnread, Closed
<1>2. PICK n : n = Cardinality(Unread(board[r].emp))
  OBVIOUS
<1>3. PICK v : v = [board[r] EXCEPT !.phase = "shown", !.unreadCount = n]
  OBVIOUS
<1>4. n \in Nat
  BY <1>2, UnreadRows
<1>5. /\ v \in Listing /\ v.messages = board[r].messages /\ v.emp = board[r].emp
      /\ v.unreadCount = n
  BY <1>1, <1>3, <1>4 DEF Listing
<1>6. StillUnread(v) \subseteq Unread(v.emp)
  BY <1>1, <1>5 DEF StillUnread, Unread
<1>7. Cardinality(StillUnread(v)) <= n
  BY <1>2, <1>5, <1>6, UnreadRows, FS_Subset
<1>8. ViewOK(v)
  BY <1>1, <1>5, <1>7 DEF ViewOK
<1>9. board' = [board EXCEPT ![r] = v] /\ UNCHANGED db
  BY <1>2, <1>3 DEF CountUnread, BoardOK
<1> QED BY <1>8, <1>9, BoardStep DEF BoardOK
---------------------------------------------------------------------------
(* NotificationInv holds at the start, and every step keeps it.            *)

LEMMA InitOK == Init => NotificationInv
<1> SUFFICES ASSUME Init PROVE NotificationInv
  OBVIOUS
<1>1. WebhookOK
  <2>1. ItemTypes /\ call = [c \in Call |-> call[c]]
    BY DEF Init, ItemTypes, MailState, EntryState
  <2>2. ASSUME NEW c \in Call
        PROVE  CallOK(c, call[c])
    <3>1. call[c] = NoCall
      BY DEF Init
    <3>2. TurnOK(call[c])
      BY <3>1 DEF TurnOK
    <3>3. ItemsOK(c, call[c])
      BY DEF Init, ItemsOK, Begun
    <3>4. Started(c, mail) = {} /\ Started(c, entry) = {}
      BY DEF Init, Started
    <3>5. CountOK(c, call[c])
      BY <3>1, <3>4, FS_EmptySet DEF CountOK
    <3> QED BY <3>1, <3>2, <3>3, <3>5 DEF CallOK
  <2> QED BY <2>1, <2>2 DEF WebhookOK
<1>2. RowsOK
  <2>1. db = <<>> /\ db \in Seq(Row) /\ Id = {}
    BY DEF Init, Id
  <2> QED BY <2>1 DEF RowsOK, DatedByRecipient
<1>3. BoardOK
  BY ClosedIsOK DEF Init, BoardOK
<1>4. up \in BOOLEAN
  BY DEF Init
<1> QED BY <1>1, <1>2, <1>3, <1>4, InvIsParts

(* The same webhook, whatever becomes of the rest.                         *)
LEMMA SameWebhook ==
  ASSUME WebhookOK, UNCHANGED webhook
  PROVE  WebhookOK'
<1>1. ItemTypes' /\ Settled
  BY DEF webhook, WebhookOK, ItemTypes, Settled
<1> QED BY <1>1, SettledOK DEF webhook, WebhookOK

(* The process ends: mails are what they are by then.                      *)
LEMMA EndStep ==
  ASSUME WebhookOK, RowsOK, BoardOK,
         Stop \/ \E i \in Item : MailFails(i)
  PROVE  up' \in BOOLEAN /\ WebhookOK' /\ BoardOK' /\ UNCHANGED db
<1>1. PICK mails \in [Item -> MailState] :
        Ends(mails) /\ \A i \in Item : mails[i] = "none" <=> mail[i] = "none"
  <2>1. CASE Stop
    <3>1. PICK mails : mails = mail
      OBVIOUS
    <3> QED BY <2>1, <3>1 DEF Stop, WebhookOK, ItemTypes
  <2>2. ASSUME NEW i \in Item, MailFails(i)
        PROVE  \E mails \in [Item -> MailState] :
                 Ends(mails) /\ \A j \in Item : mails[j] = "none" <=> mail[j] = "none"
    <3>1. PICK mails : mails = [mail EXCEPT ![i] = "failed"]
      OBVIOUS
    <3>2. mails \in [Item -> MailState]
      BY <3>1 DEF WebhookOK, ItemTypes, MailState
    <3>3. \A j \in Item : mails[j] = "none" <=> mail[j] = "none"
      BY <2>2, <3>1 DEF MailFails, WebhookOK, ItemTypes
    <3>4. Ends(mails)
      BY <2>2, <3>1 DEF MailFails
    <3> QED BY <3>2, <3>3, <3>4
  <2> QED BY <2>1, <2>2
<1> QED BY <1>1, EndsOK, EndsBoard DEF Ends

LEMMA StepParts ==
  ASSUME up \in BOOLEAN, WebhookOK, RowsOK, BoardOK, [Next]_vars
  PROVE  up' \in BOOLEAN /\ WebhookOK' /\ RowsOK' /\ RowsKept /\ BoardOK'
<1>1. ASSUME NEW c \in Call, Receive(c) \/ Skip(c) \/ Notify(c)
      PROVE  up' \in BOOLEAN /\ WebhookOK' /\ RowsOK' /\ RowsKept /\ BoardOK'
  <2>1. WebhookOK'
    BY <1>1, ReceiveOK, SkipOK, NotifyOK
  <2>2. UNCHANGED <<up, db, board>>
    BY <1>1 DEF Receive, Skip, Notify
  <2> QED BY <2>1, <2>2, SameRows, SameBoard
<1>2. ASSUME NEW i \in Item, MailSent(i) \/ MailLost(i) \/ EntryLost(i)
      PROVE  up' \in BOOLEAN /\ WebhookOK' /\ RowsOK' /\ RowsKept /\ BoardOK'
  <2>1. WebhookOK'
    BY <1>2, MailSettlesOK, EntrySettlesOK
  <2>2. UNCHANGED <<up, db, board>>
    BY <1>2 DEF MailSent, MailLost, EntryLost
  <2> QED BY <2>1, <2>2, SameRows, SameBoard
<1>3. ASSUME NEW i \in Item, EntryWritten(i)
      PROVE  up' \in BOOLEAN /\ WebhookOK' /\ RowsOK' /\ RowsKept /\ BoardOK'
  <2>1. UNCHANGED <<up, board>>
    BY <1>3 DEF EntryWritten
  <2> QED BY <1>3, <2>1, EntrySettlesOK, WrittenRows, SameBoard
<1>4. ASSUME Stop \/ \E i \in Item : MailFails(i)
      PROVE  up' \in BOOLEAN /\ WebhookOK' /\ RowsOK' /\ RowsKept /\ BoardOK'
  BY <1>4, EndStep, SameRows
<1>5. ASSUME Restart
      PROVE  up' \in BOOLEAN /\ WebhookOK' /\ RowsOK' /\ RowsKept /\ BoardOK'
  BY <1>5, SameWebhook, SameRows, SameBoard DEF Restart
<1>6. ASSUME NEW r \in Reader, List(r) \/ CountUnread(r)
      PROVE  up' \in BOOLEAN /\ WebhookOK' /\ RowsOK' /\ RowsKept /\ BoardOK'
  <2>1. UNCHANGED <<up, webhook, db>>
    BY <1>6 DEF List, CountUnread
  <2> QED BY <1>6, <2>1, SameWebhook, SameRows, ListOK, CountUnreadOK
<1>7. ASSUME NEW e \in Emp,
             \/ \E i \in Id : MarkRead(e, i)
             \/ \E ids \in SUBSET Id : MarkBulk(e, ids)
             \/ MarkAll(e)
      PROVE  up' \in BOOLEAN /\ WebhookOK' /\ RowsOK' /\ RowsKept /\ BoardOK'
  <2>1. RowsOK' /\ RowsKept /\ UNCHANGED <<up, webhook, board>>
    BY <1>7, MarkStep
  <2> QED BY <2>1, SameWebhook, SameBoard
<1>8. ASSUME UNCHANGED vars
      PROVE  up' \in BOOLEAN /\ WebhookOK' /\ RowsOK' /\ RowsKept /\ BoardOK'
  BY <1>8, SameWebhook, SameRows, SameBoard DEF vars
<1> QED BY <1>1, <1>2, <1>3, <1>4, <1>5, <1>6, <1>7, <1>8
        DEF Next, Serve, MailSettles, EntrySettles, Dashboard

LEMMA StepOK == NotificationInv /\ [Next]_vars => NotificationInv' /\ RowsKept
<1> SUFFICES ASSUME NotificationInv, [Next]_vars PROVE NotificationInv' /\ RowsKept
  OBVIOUS
<1>1. up' \in BOOLEAN /\ WebhookOK' /\ RowsOK' /\ RowsKept /\ BoardOK'
  BY InvIsParts, StepParts
<1>2. (up \in BOOLEAN /\ WebhookOK /\ RowsOK /\ BoardOK => NotificationInv)'
  BY InvIsParts, PTL
<1> QED BY <1>1, <1>2

---------------------------------------------------------------------------
(* The inductive invariant holds in every state of the service.            *)
THEOREM Invariance == Spec => []NotificationInv
<1>1. NotificationInv /\ [Next]_vars => NotificationInv'
  BY StepOK
<1> QED BY InitOK, <1>1, PTL DEF Spec

(* Every variable keeps its type.                                          *)
THEOREM TypeCorrect == Spec => []TypeOK
<1>1. NotificationInv => TypeOK
  BY DEF NotificationInv
<1> QED BY Invariance, <1>1, PTL

(* The number a webhook call is answered with is the number of recipients  *)
(* both notifications were started for.                                    *)
THEOREM AnswersCount == Spec => []SummaryIsStarted
<1>1. NotificationInv => SummaryIsStarted
  BY DEF NotificationInv
<1> QED BY Invariance, <1>1, PTL

(* Only its recipient gives a row the date it was read at.                 *)
THEOREM DatesAreRecipients == Spec => []DatedByRecipient
<1>1. NotificationInv => DatedByRecipient
  BY DEF NotificationInv
<1> QED BY Invariance, <1>1, PTL

(* The count of an answer is no less than what it lists and is unread.     *)
THEOREM ListsAreCounted == Spec => []ListedIsCounted
<1>1. NotificationInv => ListedIsCounted
  BY DEF NotificationInv
<1> QED BY Invariance, <1>1, PTL

(* A row keeps its recipient, and once it is read it is not written again. *)
THEOREM RowsAreReadOnce == Spec => ReadOnce
<1>1. NotificationInv /\ [Next]_vars => [\A i \in Id : db'[i].recipient_emp_no = db[i].recipient_emp_no
                                         /\ (db[i].is_read => db'[i] = db[i])]_vars
  BY StepOK DEF RowsKept, RowKept
<1> QED BY Invariance, <1>1, PTL DEF Spec, ReadOnce
=============================================================================
