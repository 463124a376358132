---------------------- MODULE ExpiryScheduler_proofs ----------------------
(***************************************************************************)
(* ExpiryScheduler for every set of domains and intervals, all terms and   *)
(* every choice of faults: its types, the inductive invariant SchedulerInv *)
(* with the safety properties that follow from it, and TermInv, which says *)
(* what the runs owe to a domain in its first term.                        *)
(***************************************************************************)
EXTENDS ExpiryScheduler, TLAPS

USE IntervalsAssumption, TermAssumption, NullAssumption, FaultAssumption,
    DayAssumption

---------------------------------------------------------------------------
(* Rows a purchase or the run computes.                                    *)

LEMMA BoughtType ==
  ASSUME NEW r \in Row, NEW date \in Nat
  PROVE  /\ Bought(r, date) \in Row
         /\ Bought(r, date).active /\ Bought(r, date).expiry # Null
<1>1. Bought(r, date) \in Row
  BY DEF Bought, Row
<1>2. Bought(r, date).active
  BY DEF Bought, Row
<1>3. Bought(r, date).expiry = date /\ date # Null
  BY DEF Bought, Row
<1> QED BY <1>1, <1>2, <1>3

LEMMA PreparedType ==
  ASSUME NEW r \in Row, NEW i \in Intervals
  PROVE  /\ Prepared(r, i) \in Row
         /\ Prepared(r, i).expiry = r.expiry
         /\ i # 0 => Prepared(r, i).active = r.active
<1>1. Prepared(r, i) \in Row
  BY DEF Row, Prepared
<1>2. Prepared(r, i).expiry = r.expiry
  BY DEF Row, Prepared
<1>3. ASSUME i # 0
      PROVE  Prepared(r, i).active = r.active
  BY <1>3 DEF Row, Prepared
<1> QED BY <1>1, <1>2, <1>3

(* What the run holds after it is done with some intervals.                *)
LEMMA DoneTypes ==
  ASSUME TypeOK, NEW some, NEW leftOut, Done(some, leftOut)
  PROVE  /\ todo' \subseteq Intervals /\ phase' = "query" /\ failed' = FALSE
         /\ DOMAIN copies' = {} /\ pending' = {}
         /\ leftOut \subseteq Intervals => skipped' \subseteq (0 .. MaxDay) \X Intervals
<1>1. todo' \subseteq Intervals /\ phase' = "query" /\ failed' = FALSE
  BY DEF TypeOK, Done
<1>2. DOMAIN copies' = {}
  BY DEF Done
<1>3. pending' = {}
  BY DEF Done
<1>4. ASSUME leftOut \subseteq Intervals
      PROVE  skipped' \subseteq (0 .. MaxDay) \X Intervals
  BY <1>4 DEF TypeOK, Done
<1> QED BY <1>1, <1>2, <1>3, <1>4

LEMMA NoticesTypes ==
  ASSUME TypeOK, NEW i \in Intervals
  PROVE  Notices(i) \subseteq Notice
<1> SUFFICES ASSUME NEW d \in DOMAIN copies
             PROVE  <<d, i, copies[d].expiry>> \in Notice
  BY DEF Notices
<1>1. d \in Domain /\ copies[d] \in Row /\ copies[d].expiry # Null
  BY DEF TypeOK
<1>2. copies[d].expiry \in Nat
  BY <1>1 DEF Row
<1> QED BY <1>1, <1>2 DEF Notice

(* The intervals are dealt with one at a time, the largest first.          *)
LEMMA OneCurrent ==
  ASSUME TypeOK, NEW i \in Intervals, NEW j \in Intervals, Current(i), Current(j)
  PROVE  i = j
<1>1. i <= j /\ j <= i /\ i \in Nat /\ j \in Nat
  BY DEF Current, TypeOK
<1> QED BY <1>1

LEMMA InitType == Init => TypeOK
<1>1. NewRow \in Row
  BY DEF NewRow, Row
<1>2. DOMAIN <<>> = {}
  OBVIOUS
<1>3. Init => DOMAIN copies = {}
  BY <1>2 DEF Init
<1>4. Init => day \in 0 .. MaxDay /\ since \in [Domain -> 0 .. MaxDay]
  BY DEF Init
<1>5. Init => row \in [Domain -> Row] /\ buying \in [Domain -> Row \cup {Null}]
  BY <1>1 DEF Init
<1>6. Init => /\ purchases \in [Domain -> Nat] /\ todo = {} /\ phase = "query"
              /\ pending = {} /\ failed = FALSE /\ saved = {} /\ sent = {}
              /\ lost = {} /\ skipped = {}
  BY DEF Init
<1> QED BY <1>3, <1>4, <1>5, <1>6 DEF TypeOK, Running

---------------------------------------------------------------------------
(* Steps of the purchases.                                                 *)

(* The date a purchase on this day gives, for one of the terms.            *)
LEMMA BoughtToday ==
  ASSUME TypeOK, NEW d \in Domain, NEW t \in Terms
  PROVE  /\ Bought(row[d], day + t) \in Row
         /\ Bought(row[d], day + t).active
         /\ Bought(row[d], day + t).expiry # Null
<1>1. row[d] \in Row
  BY DEF TypeOK
<1>2. day \in 0 .. MaxDay
  BY DEF TypeOK
<1>3. t \in Nat
  BY TermAssumption
<1>4. day + t \in Nat
  BY <1>2, <1>3
<1> QED BY <1>1, <1>4, BoughtType

LEMMA PurchaseType ==
  ASSUME TypeOK, NEW d \in Domain, LoadPurchase(d) \/ CommitPurchase(d)
  PROVE  TypeOK'
<1>1. CASE LoadPurchase(d)
  <2>1. PICK t \in Terms : buying' = [buying EXCEPT ![d] = Bought(row[d], day + t)]
    BY <1>1 DEF LoadPurchase
  <2>2. Bought(row[d], day + t) \in Row
    BY BoughtToday
  <2> QED BY <1>1, <2>1, <2>2 DEF LoadPurchase, TypeOK, run, history, Running
<1>2. CASE CommitPurchase(d)
  <2>1. buying[d] \in Row
    BY <1>2 DEF CommitPurchase, TypeOK
  <2> QED BY <1>2, <2>1 DEF CommitPurchase, TypeOK, run, history, Running
<1> QED BY <1>1, <1>2

LEMMA QueryCopies ==
  ASSUME TypeOK, Query
  PROVE  \/ \E i \in Intervals : Done({i}, {})
         \/ \E i \in Intervals :
              /\ Current(i) /\ Due(i) \subseteq Domain
              /\ copies' = [d \in Due(i) |-> Prepared(row[d], i)]
              /\ \A d \in Due(i) : /\ Prepared(row[d], i) \in Row
                                   /\ row[d].expiry = day + i
                                   /\ Prepared(row[d], i).expiry = day + i
                                   /\ day + i \in Nat /\ day + i # Null
              /\ phase' = "prepared"
              /\ UNCHANGED <<todo, pending, failed, skipped>>
<1>1. PICK i \in Intervals :
        /\ Current(i)
        /\ \/ Done({i}, {})
           \/ /\ copies' = [d \in Due(i) |-> Prepared(row[d], i)]
              /\ phase' = "prepared"
              /\ UNCHANGED <<todo, pending, failed, skipped>>
  BY DEF Query
<1>2. ASSUME NEW d \in Due(i)
      PROVE  /\ Prepared(row[d], i) \in Row
             /\ row[d].expiry = day + i
             /\ Prepared(row[d], i).expiry = day + i
             /\ day + i \in Nat /\ day + i # Null
  <2>1. d \in Domain /\ row[d].expiry = day + i
    BY DEF Due
  <2>2. row[d] \in Row /\ day \in Nat /\ i \in Nat
    BY <2>1 DEF TypeOK
  <2>3. Prepared(row[d], i) \in Row /\ Prepared(row[d], i).expiry = row[d].expiry
    BY <2>2, PreparedType
  <2> QED BY <2>1, <2>2, <2>3
<1>3. Due(i) \subseteq Domain
  BY DEF Due
<1> QED BY <1>1, <1>2, <1>3

LEMMA RunType ==
  ASSUME TypeOK, Midnight \/ RunStep \/ Stop
  PROVE  TypeOK'
<1>1. CASE Midnight
  <2>1. /\ day' \in 0 .. MaxDay /\ day + 1 \in 0 .. MaxDay
        /\ todo' \subseteq Intervals
    BY <1>1 DEF Midnight, TypeOK
  <2>3. skipped' \subseteq (0 .. MaxDay) \X Intervals
    BY <1>1, <2>1 DEF Midnight, TypeOK
  <2>2. phase = "query"
    BY <1>1 DEF Midnight, TypeOK
  <2> QED BY <1>1, <2>1, <2>2, <2>3 DEF Midnight, TypeOK, rows, Running
<1>2. CASE Query
  <2>1. UNCHANGED <<day, rows, saved, sent, lost>>
    BY <1>2 DEF Query
  <2>2. CASE \E i \in Intervals : Done({i}, {})
    BY <2>1, <2>2, DoneTypes DEF TypeOK, rows, Running
  <2>3. CASE \E i \in Intervals :
              /\ Current(i) /\ Due(i) \subseteq Domain
              /\ copies' = [d \in Due(i) |-> Prepared(row[d], i)]
              /\ \A d \in Due(i) : /\ Prepared(row[d], i) \in Row
                                   /\ row[d].expiry = day + i
                                   /\ Prepared(row[d], i).expiry = day + i
                                   /\ day + i \in Nat /\ day + i # Null
              /\ phase' = "prepared"
              /\ UNCHANGED <<todo, pending, failed, skipped>>
    <3>1. PICK i \in Intervals :
              /\ Current(i) /\ Due(i) \subseteq Domain
              /\ copies' = [d \in Due(i) |-> Prepared(row[d], i)]
              /\ \A d \in Due(i) : /\ Prepared(row[d], i) \in Row
                                   /\ Prepared(row[d], i).expiry # Null
              /\ phase' = "prepared"
              /\ UNCHANGED <<todo, pending, failed, skipped>>
      BY <2>3
    <3>2. todo' # {} /\ pending = {}
      BY <1>2, <3>1 DEF Current, Query, TypeOK
    <3>3. \A d \in DOMAIN copies' : copies'[d] \in Row /\ copies'[d].expiry # Null
      BY <3>1
    <3>4. DOMAIN copies' \subseteq Domain
      BY <3>1
    <3> QED BY <2>1, <3>1, <3>2, <3>3, <3>4 DEF TypeOK, rows, Running
  <2> QED BY <1>2, <2>2, <2>3, QueryCopies
<1>3. CASE Save
  <2>1. row' \in [Domain -> Row]
    BY <1>3 DEF Save, TypeOK
  <2>2. saved' \subseteq Notice
    BY <1>3, NoticesTypes DEF Save, TypeOK
  <2> QED BY <1>3, <2>1, <2>2 DEF Save, TypeOK, Running
<1>4. CASE SaveFails
  <2>1. PICK some, leftOut : Done(some, leftOut) /\ leftOut \subseteq Intervals
    <3>1. PICK i \in Intervals : Done({i}, {i})
      BY <1>4 DEF SaveFails
    <3>2. {i} \subseteq Intervals
      OBVIOUS
    <3> QED BY <3>1, <3>2
  <2>2. UNCHANGED <<day, rows, saved, sent, lost>>
    BY <1>4 DEF SaveFails
  <2> QED BY <2>1, <2>2, DoneTypes DEF TypeOK, rows, Running
<1>5. CASE Dispatch
  <2>1. pending' \subseteq Notice
    BY <1>5, NoticesTypes DEF Dispatch
  <2> QED BY <1>5, <2>1 DEF Dispatch, TypeOK, rows, history, Running
<1>6. CASE Deliver
  BY <1>6 DEF Deliver, TypeOK, rows, Running
<1>7. CASE Join
  <2>1. PICK i \in Intervals : Done(todo, todo \ {i}) \/ Done({i}, {})
    BY <1>7 DEF Join
  <2>2. todo \ {i} \subseteq Intervals /\ {} \subseteq Intervals
    BY DEF TypeOK
  <2>3. /\ todo' \subseteq Intervals /\ phase' = "query" /\ failed' = FALSE
        /\ DOMAIN copies' = {} /\ pending' = {}
        /\ skipped' \subseteq (0 .. MaxDay) \X Intervals
    BY <2>1, <2>2, DoneTypes
  <2> QED BY <1>7, <2>3 DEF Join, TypeOK, rows, Running
<1>8. CASE Stop
  <2>1. Done(todo, todo) /\ todo \subseteq Intervals
    BY <1>8 DEF Stop, TypeOK
  <2> QED BY <1>8, <2>1, DoneTypes DEF Stop, TypeOK, Running
<1> QED BY <1>1, <1>2, <1>3, <1>4, <1>5, <1>6, <1>7, <1>8 DEF RunStep

(* Whatever the runs and the purchases do, and whatever fails, every       *)
(* variable keeps its type.                                                *)
THEOREM TypeCorrect == Spec => []TypeOK
<1>1. TypeOK /\ [Next]_vars => TypeOK'
  <2> SUFFICES ASSUME TypeOK, [Next]_vars PROVE TypeOK'
    OBVIOUS
  <2>1. CASE Next
    BY <2>1, PurchaseType, RunType DEF Next
  <2>2. CASE UNCHANGED vars
    BY <2>2 DEF vars, rows, run, history, TypeOK, Running
  <2> QED BY <2>1, <2>2
<1> QED BY <1>1, InitType, PTL DEF Spec

---------------------------------------------------------------------------
(* SchedulerInv is inductive.                                              *)

LEMMA InitInv == Init => SchedulerInv
<1>1. SUFFICES ASSUME Init PROVE SchedulerInv
  OBVIOUS
<1>2. DOMAIN copies = {}
  <2>1. DOMAIN <<>> = {}
    OBVIOUS
  <2> QED BY <1>1, <2>1 DEF Init
<1>3. \A d \in Domain : row[d].expiry = Null /\ buying[d] = Null /\ purchases[d] = 0
  BY <1>1 DEF Init, NewRow
<1>4. pending = {} /\ sent = {} /\ lost = {} /\ phase = "query"
  BY <1>1 DEF Init
<1>5. NotifiedIsSaved /\ HandedOutIsSaved
  BY <1>4 DEF NotifiedIsSaved, HandedOutIsSaved
<1>6. DatedWhenBought /\ BuyingActivates /\ CopiesOK /\ ActiveUntilExpiry
  BY <1>2, <1>3 DEF DatedWhenBought, BuyingActivates, CopiesOK, ActiveUntilExpiry,
                    FirstTerm
<1> QED BY <1>1, <1>5, <1>6, InitType DEF SchedulerInv

LEMMA LoadPurchaseInv ==
  ASSUME SchedulerInv, NEW d \in Domain, LoadPurchase(d)
  PROVE  SchedulerInv'
<1>1. TypeOK'
  BY PurchaseType DEF SchedulerInv
<1>2. /\ UNCHANGED <<day, row, purchases, since, todo, phase, copies, pending,
                     failed, history>>
      /\ UNCHANGED <<saved, sent, lost>>
      /\ \A e \in Domain : e # d => buying'[e] = buying[e]
  BY DEF LoadPurchase, SchedulerInv, TypeOK, run, history
<1>3. buying'[d].active /\ buying'[d].expiry # Null
  <2>1. PICK t \in Terms : buying' = [buying EXCEPT ![d] = Bought(row[d], day + t)]
    BY DEF LoadPurchase
  <2>2. buying'[d] = Bought(row[d], day + t)
    BY <2>1 DEF SchedulerInv, TypeOK
  <2> QED BY <2>2, BoughtToday DEF SchedulerInv
<1>4. BuyingActivates'
  BY <1>2, <1>3 DEF SchedulerInv, BuyingActivates
<1>5. DatedWhenBought' /\ CopiesOK' /\ NotifiedIsSaved' /\ HandedOutIsSaved' /\ ActiveUntilExpiry'
  BY <1>2 DEF SchedulerInv, DatedWhenBought, CopiesOK, NotifiedIsSaved, HandedOutIsSaved,
              ActiveUntilExpiry, FirstTerm, Current, Notices
<1> QED BY <1>1, <1>4, <1>5 DEF SchedulerInv

LEMMA CommitPurchaseInv ==
  ASSUME SchedulerInv, NEW d \in Domain, CommitPurchase(d)
  PROVE  SchedulerInv'
<1>1. TypeOK'
  BY PurchaseType DEF SchedulerInv
<1>2. /\ UNCHANGED <<day, todo, phase, copies, pending, failed, saved, sent, lost>>
      /\ \A e \in Domain \ {d} : /\ buying'[e] = buying[e] /\ row'[e] = row[e]
                                  /\ purchases'[e] = purchases[e]
      /\ buying'[d] = Null /\ row'[d] = buying[d]
      /\ purchases'[d] = purchases[d] + 1 /\ purchases[d] \in Nat
  BY DEF CommitPurchase, SchedulerInv, TypeOK, run, history
<1>3. buying[d].active /\ buying[d].expiry # Null
  BY DEF CommitPurchase, SchedulerInv, BuyingActivates
<1>4. purchases'[d] = 1 => d \notin DOMAIN copies
  <2>1. purchases'[d] = 1 => purchases[d] = 0
    BY <1>2
  <2>2. purchases[d] = 0 => d \notin DOMAIN copies
    BY DEF SchedulerInv, DatedWhenBought
  <2> QED BY <2>1, <2>2
<1>5. DatedWhenBought' /\ BuyingActivates'
  BY <1>2, <1>3 DEF SchedulerInv, DatedWhenBought, BuyingActivates
<1>6. CopiesOK' /\ ActiveUntilExpiry'
  BY <1>2, <1>3, <1>4 DEF SchedulerInv, CopiesOK, ActiveUntilExpiry, FirstTerm, Current
<1>7. NotifiedIsSaved' /\ HandedOutIsSaved'
  BY <1>2 DEF SchedulerInv, NotifiedIsSaved, HandedOutIsSaved, Current, Notices
<1> QED BY <1>1, <1>5, <1>6, <1>7 DEF SchedulerInv

LEMMA MidnightInv ==
  ASSUME SchedulerInv, Midnight
  PROVE  SchedulerInv'
<1>1. TypeOK'
  BY RunType DEF SchedulerInv
<1>2. /\ UNCHANGED <<row, buying, purchases, phase, copies, pending, saved, sent, lost>>
      /\ day \in Nat /\ day' = day + 1 /\ phase = "query" /\ ~Current(0)
  BY DEF Midnight, SchedulerInv, TypeOK, rows, Running, Current
<1>3. ASSUME NEW d \in Domain
      PROVE  /\ row[d].expiry \in Nat \cup {Null}
             /\ d \in DOMAIN copies => copies[d].expiry \in Nat
  BY DEF SchedulerInv, TypeOK, Row
<1>4. DatedWhenBought' /\ BuyingActivates' /\ NotifiedIsSaved' /\ HandedOutIsSaved'
  BY <1>2 DEF SchedulerInv, DatedWhenBought, BuyingActivates, NotifiedIsSaved, HandedOutIsSaved
<1>5. CopiesOK'
  BY <1>2, <1>3 DEF SchedulerInv, CopiesOK, FirstTerm
<1>6. ActiveUntilExpiry'
  <2> SUFFICES ASSUME NEW d \in Domain, purchases[d] = 1, ~row[d].active
               PROVE  /\ row[d].expiry <= day + 1
                      /\ <<d, 0, row[d].expiry>> \in saved
    BY <1>2 DEF ActiveUntilExpiry, FirstTerm
  <2>1. row[d].expiry \in Nat
    BY <1>3 DEF SchedulerInv, DatedWhenBought
  <2>2. row[d].expiry <= day /\ <<d, 0, row[d].expiry>> \in saved
    BY DEF SchedulerInv, ActiveUntilExpiry, FirstTerm
  <2> QED BY <1>2, <2>1, <2>2
<1> QED BY <1>1, <1>4, <1>5, <1>6 DEF SchedulerInv

(* A step at which the run is done with some intervals and saves nothing.  *)
LEMMA DoneInv ==
  ASSUME SchedulerInv, TypeOK', NEW some, NEW leftOut, Done(some, leftOut),
         UNCHANGED <<day, row, purchases, saved, sent, lost>>,
         \A d \in Domain : buying'[d] \in {buying[d], Null}
  PROVE  SchedulerInv'
<1>1. DOMAIN copies' = {} /\ pending' = {} /\ phase' = "query"
  BY DoneTypes DEF SchedulerInv
<1>2. BuyingActivates'
  BY DEF SchedulerInv, BuyingActivates
<1>3. DatedWhenBought' /\ CopiesOK'
  BY <1>1 DEF SchedulerInv, DatedWhenBought, CopiesOK
<1>4. NotifiedIsSaved' /\ HandedOutIsSaved' /\ ActiveUntilExpiry'
  BY <1>1 DEF SchedulerInv, NotifiedIsSaved, HandedOutIsSaved, ActiveUntilExpiry, FirstTerm
<1> QED BY <1>2, <1>3, <1>4 DEF SchedulerInv

LEMMA QueryInv ==
  ASSUME SchedulerInv, Query
  PROVE  SchedulerInv'
<1>1. TypeOK'
  BY RunType DEF SchedulerInv, RunStep
<1>2. UNCHANGED <<day, row, buying, purchases, saved, sent, lost>>
  BY DEF Query, rows
<1>3. CASE \E i \in Intervals : Done({i}, {})
  BY <1>1, <1>2, <1>3, DoneInv
<1>4. ASSUME NEW i \in Intervals, Current(i), Due(i) \subseteq Domain,
             copies' = [d \in Due(i) |-> Prepared(row[d], i)],
             \A d \in Due(i) : /\ row[d].expiry = day + i
                               /\ Prepared(row[d], i).expiry = day + i
                               /\ day + i \in Nat /\ day + i # Null,
             phase' = "prepared", UNCHANGED <<todo, pending, failed, skipped>>
      PROVE  SchedulerInv'
  <2>1. ASSUME NEW d \in Due(i), FirstTerm(d), ~copies'[d].active
        PROVE  /\ copies'[d].expiry <= day
               /\ <<d, 0, copies'[d].expiry>> \in saved \/ Current(0)
    <3>1. CASE i = 0
      BY <1>4, <2>1, <3>1 DEF SchedulerInv, TypeOK
    <3>2. CASE i # 0
      <4>1. row[d] \in Row /\ d \in Domain
        BY <1>4 DEF SchedulerInv, TypeOK
      <4>2. ~row[d].active
        BY <1>4, <2>1, <3>2, <4>1, PreparedType
      <4> QED BY <1>4, <2>1, <4>1, <4>2 DEF SchedulerInv, ActiveUntilExpiry
    <3> QED BY <3>1, <3>2
  <2>2. \A d \in Domain : purchases[d] = 0 => d \notin Due(i)
    BY <1>4 DEF SchedulerInv, DatedWhenBought
  <2>3. DOMAIN copies' = Due(i)
    BY <1>4
  <2>4. CopiesOK'
    BY <1>2, <1>4, <2>1, <2>3 DEF CopiesOK, FirstTerm, Current
  <2>5. DatedWhenBought' /\ BuyingActivates'
    BY <1>2, <2>2, <2>3 DEF SchedulerInv, DatedWhenBought, BuyingActivates
  <2>6. NotifiedIsSaved' /\ HandedOutIsSaved' /\ ActiveUntilExpiry'
    BY <1>2, <1>4 DEF SchedulerInv, NotifiedIsSaved, HandedOutIsSaved, ActiveUntilExpiry,
                      FirstTerm
  <2> QED BY <1>1, <2>4, <2>5, <2>6 DEF SchedulerInv
<1> QED BY <1>3, <1>4, QueryCopies DEF SchedulerInv

LEMMA SaveInv ==
  ASSUME SchedulerInv, Save
  PROVE  SchedulerInv'
<1>1. TypeOK'
  BY RunType DEF SchedulerInv, RunStep
<1>2. PICK i \in Intervals : Current(i) /\ saved' = saved \cup Notices(i)
  BY DEF Save
<1>3. /\ UNCHANGED <<day, buying, purchases, todo, copies, pending, sent, lost>>
      /\ \A d \in Domain : row'[d] = IF d \in DOMAIN copies THEN copies[d] ELSE row[d]
  BY DEF Save
<1>4. ASSUME NEW d \in DOMAIN copies
      PROVE  /\ copies[d].expiry # Null
             /\ Current(0) => <<d, 0, copies[d].expiry>> \in saved'
  <2>1. Current(0) => i = 0
    BY <1>2, OneCurrent DEF SchedulerInv
  <2>2. <<d, i, copies[d].expiry>> \in Notices(i)
    BY DEF Notices
  <2> QED BY <1>2, <2>1, <2>2 DEF SchedulerInv, TypeOK
<1>5. CopiesOK' /\ DatedWhenBought' /\ BuyingActivates'
  BY <1>2, <1>3, <1>4 DEF SchedulerInv, CopiesOK, DatedWhenBought, BuyingActivates,
                          FirstTerm, Current
<1>6. ActiveUntilExpiry'
  BY <1>2, <1>3, <1>4 DEF SchedulerInv, CopiesOK, ActiveUntilExpiry, FirstTerm
<1>7. HandedOutIsSaved'
  <2>1. \A j \in Intervals : Current(j)' => j = i
    BY <1>2, <1>3, OneCurrent DEF SchedulerInv, Current
  <2>2. Notices(i)' = Notices(i)
    BY <1>3 DEF Notices
  <2> QED BY <1>2, <1>3, <2>1, <2>2 DEF SchedulerInv, HandedOutIsSaved
<1>8. NotifiedIsSaved'
  BY <1>2, <1>3 DEF SchedulerInv, NotifiedIsSaved
<1> QED BY <1>1, <1>5, <1>6, <1>7, <1>8 DEF SchedulerInv

(* Dispatch and Deliver: the rows, the copies and what is saved stay.      *)
LEMMA NotifyInv ==
  ASSUME SchedulerInv, Dispatch \/ Deliver
  PROVE  SchedulerInv'
<1>1. TypeOK'
  BY RunType DEF SchedulerInv, RunStep
<1>2. UNCHANGED <<day, row, buying, purchases, todo, copies, saved>>
  BY DEF Dispatch, Deliver, rows, history
<1>3. CopiesOK' /\ DatedWhenBought' /\ BuyingActivates' /\ ActiveUntilExpiry'
  BY <1>2 DEF SchedulerInv, CopiesOK, DatedWhenBought, BuyingActivates, ActiveUntilExpiry,
              FirstTerm, Current
<1>4. NotifiedIsSaved' /\ HandedOutIsSaved'
  <2>1. CASE Dispatch
    BY <2>1 DEF Dispatch, history, SchedulerInv, NotifiedIsSaved, HandedOutIsSaved
  <2>2. CASE Deliver
    <3>1. phase = "joining" /\ phase' = phase
      BY <2>2 DEF Deliver, SchedulerInv, TypeOK
    <3>2. sent' \subseteq saved' /\ pending' \cup lost' \subseteq saved'
      BY <2>2 DEF Deliver, SchedulerInv, NotifiedIsSaved, HandedOutIsSaved
    <3> QED BY <3>1, <3>2 DEF NotifiedIsSaved, HandedOutIsSaved
  <2> QED BY <2>1, <2>2
<1> QED BY <1>1, <1>3, <1>4 DEF SchedulerInv

LEMMA EndInv ==
  ASSUME SchedulerInv, SaveFails \/ Join \/ Stop
  PROVE  SchedulerInv'
<1>1. TypeOK'
  BY RunType DEF SchedulerInv, RunStep
<1>2. PICK some, leftOut : Done(some, leftOut)
  BY DEF SaveFails, Join, Stop
<1>3. /\ UNCHANGED <<day, row, purchases, saved, sent, lost>>
      /\ \A d \in Domain : buying'[d] \in {buying[d], Null}
  BY DEF SaveFails, Join, Stop, rows
<1> QED BY <1>1, <1>2, <1>3, DoneInv

(* Whatever the runs and the purchases do, and whatever fails, the copies  *)
(* and notifications a run holds are right with respect to the saved rows. *)
THEOREM Invariance == Spec => []SchedulerInv
<1>1. SchedulerInv /\ [Next]_vars => SchedulerInv'
  <2> SUFFICES ASSUME SchedulerInv, [Next]_vars PROVE SchedulerInv'
    OBVIOUS
  <2>1. CASE Next
    BY <2>1, LoadPurchaseInv, CommitPurchaseInv, MidnightInv, QueryInv, SaveInv,
       NotifyInv, EndInv DEF Next, RunStep
  <2>2. CASE UNCHANGED vars
    <3>1. TypeOK'
      BY <2>2 DEF vars, rows, run, history, SchedulerInv, TypeOK, Running
    <3> QED BY <2>2, <3>1 DEF vars, rows, run, history, SchedulerInv, NotifiedIsSaved,
               HandedOutIsSaved, DatedWhenBought, BuyingActivates, CopiesOK,
               ActiveUntilExpiry, FirstTerm, Current, Notices
  <2> QED BY <2>1, <2>2
<1> QED BY <1>1, InitInv, PTL DEF Spec

(* Nobody is notified of an expiry that was not saved first, whatever      *)
(* fails between the transaction and the last future (checkAndNotify).     *)
THEOREM NotificationsAreSaved == Spec => []NotifiedIsSaved
<1>1. SchedulerInv => NotifiedIsSaved
  BY DEF SchedulerInv
<1> QED BY <1>1, Invariance, PTL

(* No run deactivates a domain in its first term before its expiry date.   *)
THEOREM NoEarlyDeactivation == Spec => []ActiveUntilExpiry
<1>1. SchedulerInv => ActiveUntilExpiry
  BY DEF SchedulerInv
<1> QED BY <1>1, Invariance, PTL

---------------------------------------------------------------------------
(* TermInv is inductive, whatever fails.                                   *)

LEMMA InTerm ==
  ASSUME SchedulerInv, NEW d \in Domain, FirstTerm(d)
  PROVE  /\ row[d] \in Row /\ row[d].expiry \in Nat
         /\ row[d].last \in Intervals \cup {Null}
         /\ day \in Nat /\ since[d] \in Nat
<1>1. row[d] \in Row /\ day \in Nat /\ since[d] \in Nat
  BY DEF SchedulerInv, TypeOK
<1>2. row[d].expiry # Null
  BY DEF SchedulerInv, DatedWhenBought, FirstTerm
<1> QED BY <1>1, <1>2 DEF Row

LEMMA TermOf ==
  ASSUME TermInv, NEW d \in Domain, FirstTerm(d)
  PROVE  /\ LastIsPast(d) /\ CopyIsRow(d) /\ DueIsSent(d)
         /\ <<d, 0, row[d].expiry>> \in saved => ~row[d].active
  BY DEF TermInv

LEMMA CurrentIs ==
  ASSUME SchedulerInv, NEW i \in Intervals, Current(i)
  PROVE  \A j \in Intervals : Current(j) => j = i
  BY OneCurrent DEF SchedulerInv

(* A domain that is due at the interval the run turns to was not handled   *)
(* at it before, and is loaded.                                            *)
LEMMA DueIsFound ==
  ASSUME SchedulerInv, TermInv, phase = "query", NEW d \in Domain, FirstTerm(d),
         NEW i \in Intervals, Current(i), DueToday(d, i)
  PROVE  d \in Due(i)
<1>1. /\ row[d].expiry \in Nat /\ day \in Nat /\ row[d].last \in Intervals \cup {Null}
      /\ i \in Nat /\ i \in todo
  BY InTerm DEF Current
<1>2. CASE row[d].last = Null
  BY <1>2 DEF Due, DueToday
<1>3. CASE row[d].last # Null
  <2>1. PICK l \in Nat, x \in Nat : l = row[d].last /\ x = row[d].expiry /\ l \in Intervals
    BY <1>1, <1>3
  <2>2. \/ x < day + l
        \/ x = day + l /\ l \notin todo
    BY <1>3, <2>1, TermOf DEF LastIsPast
  <2>3. x = day + i
    BY <2>1 DEF DueToday
  <2>4. l > i
    BY <1>1, <2>1, <2>2, <2>3
  <2> QED BY <2>1, <2>4 DEF Due, DueToday
<1> QED BY <1>2, <1>3

LEMMA LoadPurchaseTerm ==
  ASSUME SchedulerInv, TermInv, NEW e \in Domain, LoadPurchase(e)
  PROVE  TermInv'
<1>1. /\ UNCHANGED <<day, row, purchases, since, todo, phase, copies, pending,
                     failed, saved, sent, lost, skipped>>
      /\ \A d \in Domain : d # e => buying'[d] = buying[d]
  BY DEF LoadPurchase, SchedulerInv, TypeOK, run, history
<1>2. purchases[e] = 0 => buying'[e].last = Null
  <2>1. PICK t \in Terms : buying' = [buying EXCEPT ![e] = Bought(row[e], day + t)]
    BY DEF LoadPurchase
  <2>2. buying'[e] = Bought(row[e], day + t) /\ row[e] \in Row
    BY <2>1 DEF SchedulerInv, TypeOK
  <2>3. buying'[e].last = row[e].last
    BY <2>2 DEF Bought, Row
  <2> QED BY <2>3 DEF TermInv, NewUntilBought, NewRow
<1>3. NewUntilBought'
  BY <1>1, <1>2 DEF TermInv, NewUntilBought
<1> QED BY <1>1, <1>3 DEF TermInv, FirstTerm, LastIsPast, CopyIsRow, DueIsSent, WasDue,
                         DueToday, Current

(* A first term begins: nothing of it was due before today.                *)
LEMMA CommitPurchaseTerm ==
  ASSUME SchedulerInv, TermInv, NEW e \in Domain, CommitPurchase(e)
  PROVE  TermInv'
<1>1. /\ UNCHANGED <<day, todo, phase, copies, pending, failed, saved, sent, lost,
                     skipped>>
      /\ \A d \in Domain : d # e => /\ row'[d] = row[d] /\ purchases'[d] = purchases[d]
                                    /\ since'[d] = since[d] /\ buying'[d] = buying[d]
      /\ row'[e] = buying[e] /\ since'[e] = day
      /\ purchases'[e] = purchases[e] + 1 /\ purchases[e] \in Nat
  BY DEF CommitPurchase, SchedulerInv, TypeOK, run, history
<1>2. NewUntilBought'
  BY <1>1 DEF TermInv, NewUntilBought
<1>3. ASSUME NEW d \in Domain, d # e, FirstTerm(d)'
      PROVE  /\ LastIsPast(d)' /\ CopyIsRow(d)' /\ DueIsSent(d)'
             /\ <<d, 0, row'[d].expiry>> \in saved' => ~row'[d].active
  <2>1. FirstTerm(d)
    BY <1>1, <1>3 DEF FirstTerm
  <2>2. LastIsPast(d)'
    BY <1>1, <1>3, <2>1, TermOf DEF LastIsPast, Current
  <2>3. CopyIsRow(d)'
    <3>1. \A i : DueToday(d, i)' = DueToday(d, i) /\ Current(i)' = Current(i)
      BY <1>1, <1>3 DEF Current, DueToday
    <3>2. CopyIsRow(d)
      BY <2>1, TermOf
    <3> QED BY <1>1, <1>3, <3>1, <3>2 DEF CopyIsRow
  <2>4. DueIsSent(d)'
    BY <1>1, <1>3, <2>1 DEF TermInv, DueIsSent, WasDue, DueToday
  <2> QED BY <1>1, <1>3, <2>1, <2>2, <2>3, <2>4 DEF TermInv
<1>4. ASSUME FirstTerm(e)'
      PROVE  /\ LastIsPast(e)' /\ CopyIsRow(e)' /\ DueIsSent(e)'
             /\ <<e, 0, row'[e].expiry>> \in saved' => ~row'[e].active
  <2>1. purchases[e] = 0
    BY <1>1, <1>4 DEF FirstTerm
  <2>2. /\ row'[e].last = Null /\ e \notin DOMAIN copies /\ \A n \in saved : n[1] # e
        /\ day \in Nat /\ row'[e].expiry \in Nat
    <3>1. buying[e] # Null /\ buying[e] \in Row
      BY DEF CommitPurchase, SchedulerInv, TypeOK
    <3>2. buying[e].expiry \in Nat
      BY <3>1 DEF SchedulerInv, BuyingActivates, Row
    <3> QED BY <1>1, <2>1, <3>1, <3>2
        DEF TermInv, NewUntilBought, SchedulerInv, DatedWhenBought, TypeOK
  <2>3. <<e, 0, row'[e].expiry>> \notin saved'
    BY <1>1, <2>2
  <2>4. LastIsPast(e)'
    BY <2>2 DEF LastIsPast
  <2>5. CopyIsRow(e)'
    BY <1>1, <2>2 DEF CopyIsRow, DueToday
  <2>6. DueIsSent(e)'
    <3>1. ASSUME NEW i \in Intervals
          PROVE  ~WasDue(e, i)'
      BY <1>1, <2>2 DEF WasDue
    <3> QED BY <3>1 DEF DueIsSent
  <2> QED BY <2>3, <2>4, <2>5, <2>6
<1> QED BY <1>1, <1>2, <1>3, <1>4 DEF TermInv

(* A new day: what is due on it is still to be dealt with, or is left out. *)
LEMMA MidnightTerm ==
  ASSUME SchedulerInv, TermInv, Midnight
  PROVE  TermInv'
<1>1. /\ UNCHANGED <<row, buying, purchases, since, phase, copies, pending, failed,
                     saved, sent, lost>>
      /\ day \in Nat /\ day' = day + 1 /\ phase = "query" /\ todo = {}
      /\ \/ todo' = Intervals /\ skipped' = skipped
         \/ skipped' = skipped \cup ({day + 1} \X Intervals)
  BY DEF Midnight, SchedulerInv, TypeOK, rows, Running
<1>2. NewUntilBought'
  BY <1>1 DEF TermInv, NewUntilBought
<1>3. ASSUME NEW d \in Domain, FirstTerm(d)'
      PROVE  LastIsPast(d)' /\ CopyIsRow(d)' /\ DueIsSent(d)'
  <2>1. FirstTerm(d)
    BY <1>1, <1>3 DEF FirstTerm
  <2>2. row[d].expiry \in Nat /\ row[d].last \in Intervals \cup {Null} /\ since[d] \in Nat
    BY <2>1, InTerm
  <2>3. LastIsPast(d)'
    <3>1. ASSUME row[d].last # Null
          PROVE  row[d].expiry < day' + row[d].last
      <4>1. PICK l \in Nat, x \in Nat : l = row[d].last /\ x = row[d].expiry
        BY <2>2, <3>1
      <4>2. x < day + l \/ x = day + l
        BY <2>1, <3>1, <4>1, TermOf DEF LastIsPast
      <4>3. x < day + 1 + l
        BY <1>1, <4>2
      <4> QED BY <1>1, <4>1, <4>3
    <3> QED BY <1>1, <3>1 DEF LastIsPast
  <2>4. CopyIsRow(d)'
    BY <1>1 DEF CopyIsRow
  <2>5. DueIsSent(d)'
    <3>1. ASSUME NEW i \in Intervals, WasDue(d, i)', ~(DueToday(d, i) /\ i \in todo)',
                 <<row[d].expiry - i, i>> \notin skipped'
          PROVE  <<d, i, row[d].expiry>> \in sent \cup lost
      <4>1. row[d].expiry - i # day + 1
        <5>1. CASE todo' = Intervals
          BY <1>1, <2>2, <3>1, <5>1 DEF WasDue, DueToday
        <5>2. CASE skipped' = skipped \cup ({day + 1} \X Intervals)
          BY <3>1, <5>2
        <5> QED BY <1>1, <5>1, <5>2
      <4>2. WasDue(d, i)
        <5>1. /\ row[d].expiry # Null /\ since[d] < row[d].expiry - i
              /\ row[d].expiry - i <= day + 1
          BY <1>1, <3>1 DEF WasDue
        <5>2. row[d].expiry - i <= day
          <6>1. PICK y \in Int : y = row[d].expiry - i
            BY <2>2
          <6>2. day \in Nat /\ y # day + 1 /\ y <= day + 1
            BY <1>1, <4>1, <5>1, <6>1
          <6>3. y <= day
            BY <6>2
          <6> QED BY <6>1, <6>3
        <5> QED BY <5>1, <5>2 DEF WasDue
      <4>3. <<row[d].expiry - i, i>> \notin skipped
        BY <1>1, <3>1
      <4> QED BY <1>1, <2>1, <4>2, <4>3, TermOf DEF DueIsSent
    <3> QED BY <1>1, <3>1 DEF DueIsSent
  <2> QED BY <2>3, <2>4, <2>5
<1> QED BY <1>1, <1>2, <1>3 DEF TermInv, FirstTerm

(* The run is done with some intervals, the one it works on among them, at *)
(* each of which everything due was told of or lost, or which it leaves    *)
(* out.                                                                    *)
LEMMA DoneTerm ==
  ASSUME SchedulerInv, TermInv, NEW some, NEW leftOut, Done(some, leftOut),
         UNCHANGED <<day, row, purchases, since, saved, sent, lost>>,
         \A d \in Domain : buying'[d] \in {buying[d], Null},
         \A i \in Intervals : Current(i) => i \in some,
         \A d \in Domain, i \in Intervals :
           FirstTerm(d) /\ DueToday(d, i) /\ i \in some =>
             i \in leftOut \/ <<d, i, day + i>> \in sent \cup lost
  PROVE  TermInv'
<1>1. /\ todo' = todo \ some /\ phase' = "query"
      /\ skipped' = skipped \cup ({day} \X leftOut)
  BY DEF Done
<1>2. NewUntilBought'
  BY DEF TermInv, NewUntilBought
<1>3. ASSUME NEW d \in Domain, FirstTerm(d)'
      PROVE  LastIsPast(d)' /\ CopyIsRow(d)' /\ DueIsSent(d)'
  <2>1. FirstTerm(d)
    BY <1>3 DEF FirstTerm
  <2>2. row[d].expiry \in Nat /\ row[d].last \in Intervals \cup {Null} /\ day \in Nat
    BY <2>1, InTerm
  <2>3. LastIsPast(d)'
    <3>1. row[d].last # Null /\ row[d].last \in todo' =>
            row[d].last \in todo /\ ~Current(row[d].last)
      BY <1>1, <2>2
    <3> QED BY <2>1, <3>1, TermOf DEF LastIsPast
  <2>4. CopyIsRow(d)'
    BY <1>1 DEF CopyIsRow
  <2>5. ASSUME NEW j \in Intervals, WasDue(d, j)', ~(DueToday(d, j) /\ j \in todo)',
               <<row[d].expiry - j, j>> \notin skipped'
        PROVE  <<d, j, row[d].expiry>> \in sent \cup lost
    <3>1. WasDue(d, j) /\ <<row[d].expiry - j, j>> \notin skipped /\ j \in Nat
      BY <1>1, <2>5 DEF WasDue
    <3>2. CASE DueToday(d, j) /\ j \in todo
      <4>1. j \in some
        BY <1>1, <2>5, <3>2 DEF DueToday
      <4>2. row[d].expiry = day + j /\ row[d].expiry - j = day
        BY <2>2, <3>1, <3>2 DEF DueToday
      <4>3. j \notin leftOut
        BY <1>1, <2>5, <4>2
      <4> QED BY <2>1, <3>2, <4>1, <4>2, <4>3
    <3>3. CASE ~(DueToday(d, j) /\ j \in todo)
      BY <2>1, <3>1, <3>3, TermOf DEF DueIsSent
    <3> QED BY <3>2, <3>3
  <2>6. DueIsSent(d)'
    BY <2>5 DEF DueIsSent
  <2> QED BY <2>3, <2>4, <2>6
<1> QED BY <1>1, <1>2, <1>3 DEF TermInv, FirstTerm

LEMMA QueryTerm ==
  ASSUME SchedulerInv, TermInv, Query
  PROVE  TermInv'
<1>1. /\ UNCHANGED <<day, row, buying, purchases, since, saved, sent, lost>>
      /\ phase = "query"
  BY DEF Query, rows
<1>2. PICK i \in Intervals :
        /\ Current(i)
        /\ \/ Due(i) = {} /\ Done({i}, {})
           \/ /\ copies' = [d \in Due(i) |-> Prepared(row[d], i)]
              /\ phase' = "prepared"
              /\ UNCHANGED <<todo, pending, failed, skipped>>
  BY DEF Query
<1>3. \A d \in Domain : FirstTerm(d) /\ DueToday(d, i) => d \in Due(i)
  BY <1>1, <1>2, DueIsFound
<1>4. CASE Due(i) = {} /\ Done({i}, {})
  <2>1. \A j \in Intervals : Current(j) => j \in {i}
    BY <1>2, CurrentIs
  <2>2. \A d \in Domain, j \in Intervals :
          FirstTerm(d) /\ DueToday(d, j) => j \notin {i}
    BY <1>3, <1>4
  <2> QED BY <1>1, <1>4, <2>1, <2>2, DoneTerm
<1>5. CASE /\ copies' = [d \in Due(i) |-> Prepared(row[d], i)]
           /\ phase' = "prepared"
           /\ UNCHANGED <<todo, pending, failed, skipped>>
  <2>1. NewUntilBought'
    BY <1>1, <1>5 DEF TermInv, NewUntilBought
  <2>2. ASSUME NEW d \in Domain, FirstTerm(d)'
        PROVE  /\ LastIsPast(d)' /\ CopyIsRow(d)' /\ DueIsSent(d)'
               /\ <<d, 0, row'[d].expiry>> \in saved' => ~row'[d].active
    <3>1. FirstTerm(d)
      BY <1>1, <2>2 DEF FirstTerm
    <3>2. LastIsPast(d)'
      BY <1>1, <1>5, <3>1, TermOf DEF LastIsPast
    <3>3. DueIsSent(d)'
      BY <1>1, <1>5, <3>1, TermOf DEF DueIsSent, WasDue, DueToday
    <3>4. ASSUME NEW j \in Intervals, Current(j)'
          PROVE  /\ DueToday(d, j)' => d \in DOMAIN copies'
                 /\ d \in DOMAIN copies' =>
                      /\ row'[d].expiry = day' + j /\ copies'[d].expiry = day' + j
                      /\ copies'[d] = Prepared(row'[d], j)
      <4>1. j = i
        BY <1>2, <1>5, <3>4, CurrentIs DEF Current
      <4>2. row[d] \in Row
        BY <3>1, InTerm
      <4>3. DueToday(d, j)' => d \in DOMAIN copies'
        BY <1>1, <1>3, <1>5, <3>1, <4>1 DEF DueToday
      <4>4. ASSUME d \in DOMAIN copies'
            PROVE  /\ row[d].expiry = day + i /\ copies'[d] = Prepared(row[d], i)
                   /\ copies'[d].expiry = day + i
        <5>1. d \in Due(i) /\ copies'[d] = Prepared(row[d], i)
          BY <1>5, <4>4
        <5>2. row[d].expiry = day + i
          BY <5>1 DEF Due
        <5> QED BY <4>2, <5>1, <5>2, PreparedType
      <4> QED BY <1>1, <4>1, <4>3, <4>4
    <3>5. CopyIsRow(d)'
      BY <1>5, <3>4 DEF CopyIsRow
    <3> QED BY <1>1, <3>1, <3>2, <3>3, <3>5, TermOf
  <2> QED BY <2>1, <2>2 DEF TermInv
<1> QED BY <1>2, <1>4, <1>5

LEMMA SaveTerm ==
  ASSUME SchedulerInv, TermInv, Save
  PROVE  TermInv'
<1>1. PICK i \in Intervals : Current(i) /\ saved' = saved \cup Notices(i)
  BY DEF Save
<1>2. /\ UNCHANGED <<day, buying, purchases, since, todo, copies, pending, failed, sent,
                     lost, skipped>>
      /\ phase = "prepared" /\ phase' = "saved" /\ i \in Nat
      /\ \A d \in Domain : row'[d] = IF d \in DOMAIN copies THEN copies[d] ELSE row[d]
  BY DEF Save
<1>3. \A d \in Domain : (\E x : x \in Notices(i) /\ x[1] = d) => d \in DOMAIN copies
  BY DEF Notices
<1>4. NewUntilBought'
  <2>1. ASSUME NEW d \in Domain, purchases[d] = 0
        PROVE  d \notin DOMAIN copies
    BY <2>1 DEF SchedulerInv, DatedWhenBought
  <2> QED BY <1>1, <1>2, <1>3, <2>1 DEF TermInv, NewUntilBought
<1>5. ASSUME NEW d \in Domain, FirstTerm(d)'
      PROVE  /\ LastIsPast(d)' /\ CopyIsRow(d)' /\ DueIsSent(d)'
             /\ <<d, 0, row'[d].expiry>> \in saved' => ~row'[d].active
  <2>1. FirstTerm(d)
    BY <1>2, <1>5 DEF FirstTerm
  <2>2. row[d] \in Row /\ row[d].expiry \in Nat /\ day \in Nat
    BY <2>1, InTerm
  <2>3. CASE d \in DOMAIN copies
    <3>1. /\ row[d].expiry = day + i /\ copies[d].expiry = day + i
          /\ row'[d] = Prepared(row[d], i)
      BY <1>1, <1>2, <2>1, <2>3, TermOf DEF CopyIsRow
    <3>2. /\ row'[d].expiry = row[d].expiry /\ row'[d].last = i
          /\ ~row[d].active \/ i = 0 => ~row'[d].active
      BY <2>2, <3>1 DEF Prepared, Row
    <3>3. LastIsPast(d)'
      <4>1. Current(i)'
        BY <1>1, <1>2 DEF Current
      <4> QED BY <1>2, <3>1, <3>2, <4>1 DEF LastIsPast
    <3>4. CopyIsRow(d)'
      <4>1. ASSUME NEW j \in Intervals, Current(j)'
            PROVE  j = i
        BY <1>1, <1>2, <4>1, CurrentIs DEF Current
      <4> QED BY <1>2, <2>3, <3>1, <3>2, <4>1 DEF CopyIsRow
    <3>5. DueIsSent(d)'
      BY <1>2, <2>1, <3>2, TermOf DEF DueIsSent, WasDue, DueToday
    <3>6. ASSUME <<d, 0, row'[d].expiry>> \in saved'
          PROVE  ~row'[d].active
      <4>1. CASE <<d, 0, row[d].expiry>> \in saved
        BY <2>1, <3>2, <4>1, TermOf
      <4>2. CASE <<d, 0, row[d].expiry>> \in Notices(i)
        <5>1. i = 0
          BY <4>2 DEF Notices
        <5> QED BY <3>2, <5>1
      <4> QED BY <1>1, <3>2, <3>6, <4>1, <4>2
    <3> QED BY <3>3, <3>4, <3>5, <3>6
  <2>4. CASE d \notin DOMAIN copies
    <3>1. row'[d] = row[d]
      BY <1>2, <2>4
    <3>2. LastIsPast(d)'
      BY <1>2, <2>1, <3>1, TermOf DEF LastIsPast
    <3>3. CopyIsRow(d)'
      BY <1>2, <2>1, <2>4, <3>1, TermOf DEF CopyIsRow, Current, DueToday
    <3>4. DueIsSent(d)'
      BY <1>2, <2>1, <3>1, TermOf DEF DueIsSent, WasDue, DueToday
    <3>5. <<d, 0, row[d].expiry>> \notin Notices(i)
      BY <2>4 DEF Notices
    <3> QED BY <1>1, <2>1, <3>1, <3>2, <3>3, <3>4, <3>5, TermOf
  <2> QED BY <2>3, <2>4
<1> QED BY <1>2, <1>4, <1>5 DEF TermInv

LEMMA DispatchTerm ==
  ASSUME SchedulerInv, TermInv, Dispatch
  PROVE  TermInv'
<1>1. PICK i \in Intervals : Current(i) /\ pending' = Notices(i)
  BY DEF Dispatch
<1>2. /\ UNCHANGED <<day, row, buying, purchases, since, todo, copies, saved, sent, lost,
                     skipped>>
      /\ phase = "saved" /\ phase' = "joining"
  BY DEF Dispatch, rows, history
<1>3. ASSUME NEW d \in Domain, FirstTerm(d)'
      PROVE  /\ LastIsPast(d)' /\ CopyIsRow(d)' /\ DueIsSent(d)'
  <2>1. FirstTerm(d)
    BY <1>2, <1>3 DEF FirstTerm
  <2>2. LastIsPast(d)'
    BY <1>2, <2>1, TermOf DEF LastIsPast, Current
  <2>3. ASSUME NEW j \in Intervals, Current(j)', d \in DOMAIN copies
        PROVE  /\ row[d].expiry = day + j /\ copies[d].expiry = day + j
               /\ <<d, j, day + j>> \in pending'
    <3>1. j = i
      BY <1>1, <1>2, <2>3, CurrentIs DEF Current
    <3>2. row[d].expiry = day + i /\ copies[d].expiry = day + i
      BY <1>1, <1>2, <2>1, <2>3, TermOf DEF CopyIsRow
    <3>3. <<d, i, copies[d].expiry>> \in pending'
      BY <1>1, <2>3 DEF Notices
    <3> QED BY <3>1, <3>2, <3>3
  <2>4. \A j \in Intervals : Current(j)' /\ DueToday(d, j)' => d \in DOMAIN copies
    BY <1>2, <2>1, TermOf DEF CopyIsRow, Current, DueToday
  <2>5. CopyIsRow(d)'
    BY <1>2, <2>3, <2>4 DEF CopyIsRow
  <2>6. DueIsSent(d)'
    BY <1>2, <2>1, TermOf DEF DueIsSent, WasDue, DueToday
  <2> QED BY <2>2, <2>5, <2>6
<1> QED BY <1>2, <1>3 DEF TermInv, NewUntilBought, FirstTerm

(* What leaves pending is sent or lost.                                    *)
LEMMA DeliverTerm ==
  ASSUME SchedulerInv, TermInv, Deliver
  PROVE  TermInv'
<1>1. /\ UNCHANGED <<day, row, buying, purchases, since, todo, phase, copies, saved,
                     skipped>>
      /\ pending \cup sent \cup lost \subseteq pending' \cup sent' \cup lost'
      /\ sent \cup lost \subseteq sent' \cup lost'
  BY DEF Deliver, rows
<1>2. ASSUME NEW d \in Domain, FirstTerm(d)'
      PROVE  /\ LastIsPast(d)' /\ CopyIsRow(d)' /\ DueIsSent(d)'
  <2>1. FirstTerm(d)
    BY <1>1, <1>2 DEF FirstTerm
  <2>2. LastIsPast(d)'
    BY <1>1, <2>1, TermOf DEF LastIsPast, Current
  <2>3. CopyIsRow(d)'
    <3>1. \A i : DueToday(d, i)' = DueToday(d, i) /\ Current(i)' = Current(i)
      BY <1>1 DEF Current, DueToday
    <3>2. CopyIsRow(d)
      BY <2>1, TermOf
    <3> QED BY <1>1, <3>1, <3>2 DEF CopyIsRow
  <2>4. DueIsSent(d)'
    BY <1>1, <2>1, TermOf DEF DueIsSent, WasDue, DueToday
  <2> QED BY <2>2, <2>3, <2>4
<1> QED BY <1>1, <1>2 DEF TermInv, NewUntilBought, FirstTerm

LEMMA EndTerm ==
  ASSUME SchedulerInv, TermInv, SaveFails \/ Join \/ Stop
  PROVE  TermInv'
<1>1. /\ UNCHANGED <<day, row, purchases, since, saved, sent, lost>>
      /\ \A d \in Domain : buying'[d] \in {buying[d], Null}
  BY DEF SaveFails, Join, Stop, rows
<1>2. CASE SaveFails
  <2>1. PICK i \in Intervals : Current(i) /\ Done({i}, {i})
    BY <1>2 DEF SaveFails
  <2>2. \A j \in Intervals : Current(j) => j \in {i}
    BY <2>1, CurrentIs
  <2> QED BY <1>1, <2>1, <2>2, DoneTerm
<1>3. CASE Join
  <2>1. PICK i \in Intervals :
          /\ Current(i)
          /\ \/ failed /\ Done(todo, todo \ {i})
             \/ Done({i}, {})
    BY <1>3 DEF Join
  <2>2. phase = "joining" /\ pending = {}
    BY <1>3 DEF Join
  <2>3. ASSUME NEW d \in Domain, FirstTerm(d), DueToday(d, i)
        PROVE  <<d, i, day + i>> \in sent \cup lost
    BY <2>1, <2>2, <2>3, TermOf DEF CopyIsRow
  <2>4. CASE Done(todo, todo \ {i})
    <3>1. \A j \in Intervals : Current(j) => j \in todo
      BY DEF Current
    <3>2. \A d \in Domain, j \in Intervals :
            FirstTerm(d) /\ DueToday(d, j) /\ j \in todo =>
              j \in todo \ {i} \/ <<d, j, day + j>> \in sent \cup lost
      BY <2>3
    <3> QED BY <1>1, <2>4, <3>1, <3>2, DoneTerm
  <2>5. CASE Done({i}, {})
    <3>1. \A j \in Intervals : Current(j) => j \in {i}
      BY <2>1, CurrentIs
    <3>2. \A d \in Domain, j \in Intervals :
            FirstTerm(d) /\ DueToday(d, j) /\ j \in {i} => <<d, j, day + j>> \in sent \cup lost
      BY <2>3
    <3> QED BY <1>1, <2>5, <3>1, <3>2, DoneTerm
  <2> QED BY <2>1, <2>4, <2>5
<1>4. CASE Stop
  <2>1. Done(todo, todo)
    BY <1>4 DEF Stop
  <2>2. \A j \in Intervals : Current(j) => j \in todo
    BY DEF Current
  <2> QED BY <1>1, <2>1, <2>2, DoneTerm
<1> QED BY <1>2, <1>3, <1>4

LEMMA NextTerm ==
  ASSUME SchedulerInv, TermInv, [Next]_vars
  PROVE  TermInv'
<1>1. CASE UNCHANGED vars
  BY <1>1 DEF vars, rows, run, history, TermInv, NewUntilBought, FirstTerm, LastIsPast,
              CopyIsRow, DueIsSent, WasDue, DueToday, Current
<1>2. CASE Next
  BY <1>2, LoadPurchaseTerm, CommitPurchaseTerm, MidnightTerm, QueryTerm, SaveTerm,
     DispatchTerm, DeliverTerm, EndTerm
  DEF Next, RunStep
<1> QED BY <1>1, <1>2

LEMMA InitTerm == Init => TermInv
  BY DEF Init, TermInv, NewUntilBought, FirstTerm

(* However purchases and runs interleave and whatever fails, a domain in   *)
(* its first term gets the notice of every interval on its day, unless     *)
(* that notice fails or no run deals with that interval on that day, and   *)
(* is inactive once its expiry date's run has ended: no run overlooks it   *)
(* because of an interval its row records wrongly, no stale copy undoes    *)
(* what a run has saved, and a failure on one day leaves the others alone. *)
THEOREM FirstTermIsHandled == Spec => []FirstTermHandled
<1>1. ASSUME SchedulerInv, TermInv
      PROVE  FirstTermHandled
  <2>1. ASSUME NEW d \in Domain, FirstTerm(d), ~Running, NEW i \in Intervals, WasDue(d, i),
               <<row[d].expiry - i, i>> \notin skipped
        PROVE  <<d, i, row[d].expiry>> \in sent \cup lost
    BY <1>1, <2>1, TermOf DEF DueIsSent, Running
  <2>2. ASSUME NEW d \in Domain, FirstTerm(d), ~Running, WasDue(d, 0),
               <<row[d].expiry - 0, 0>> \notin skipped
        PROVE  ~row[d].active
    <3>1. <<d, 0, row[d].expiry>> \in saved
      BY <1>1, <2>1, <2>2, IntervalsAssumption
      DEF SchedulerInv, NotifiedIsSaved, HandedOutIsSaved
    <3> QED BY <1>1, <2>2, <3>1, TermOf
  <2> QED BY <2>1, <2>2 DEF FirstTermHandled
<1> QED BY <1>1, Invariance, InitTerm, NextTerm, PTL DEF Spec
===========================================================================
