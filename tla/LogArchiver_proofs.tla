------------------------ MODULE LogArchiver_proofs ------------------------
(***************************************************************************)
(* LogArchiver for days of any length, any number of entries, runs and     *)
(* queries, and a cursor that fetches any number of entries at a time: its *)
(* types, its inductive invariant ArchiveInv, and the properties that      *)
(* follow.                                                                 *)
(***************************************************************************)
EXTENDS LogArchiver, FiniteSetTheorems, SequenceTheorems, TLAPS

---------------------------------------------------------------------------
(* Sorting.  The collection is a parameter, so that the lemmas speak of it *)
(* before and after a step.                                                *)

InFront(tab, i, j) == \/ tab[i].timestamp < tab[j].timestamp
                      \/ tab[i].timestamp = tab[j].timestamp /\ i < j

Ahead(tab, some, i) == {j \in some : InFront(tab, j, i)}

Arranged(tab, some) ==
  [k \in 1 .. Cardinality(some) |->
     CHOOSE i \in some : Cardinality(Ahead(tab, some, i)) = k - 1]

Ascends(tab, s) == \A k, l \in DOMAIN s : k < l => InFront(tab, s[k], s[l])

LEMMA SortedArranged ==
  /\ \A some : Sorted(some) = Arranged(logs, some)
  /\ \A i, j : Before(i, j) = InFront(logs, i, j)
BY DEF Sorted, Before, Arranged, Ahead, InFront

(* The order is strict and total.                                          *)
LEMMA FrontOrder ==
  ASSUME NEW tab \in Seq(Log)
  PROVE  /\ \A i \in DOMAIN tab : ~InFront(tab, i, i)
         /\ \A i, j \in DOMAIN tab : i = j \/ InFront(tab, i, j) \/ InFront(tab, j, i)
         /\ \A i, j, k \in DOMAIN tab :
              InFront(tab, i, j) /\ InFront(tab, j, k) => InFront(tab, i, k)
<1>1. \A i \in DOMAIN tab : i \in Nat /\ tab[i] \in Log
  BY LenProperties
<1>2. \A e \in Log : e.timestamp \in Nat
  BY DEF Log, Time
<1>3. \A i \in DOMAIN tab : i \in Nat /\ tab[i].timestamp \in Nat
  BY <1>1, <1>2
<1> QED BY <1>3 DEF InFront

LEMMA SomeFinite ==
  ASSUME NEW tab \in Seq(Log), NEW some \in SUBSET DOMAIN tab
  PROVE  IsFiniteSet(some) /\ Cardinality(some) \in Nat
<1>1. IsFiniteSet(DOMAIN tab)
  BY LenProperties, FS_Interval
<1> QED BY <1>1, FS_Subset, FS_CardinalityType

LEMMA AheadLess ==
  ASSUME NEW tab \in Seq(Log), NEW some \in SUBSET DOMAIN tab, NEW i \in some
  PROVE  /\ Cardinality(Ahead(tab, some, i)) \in 0 .. Cardinality(some) - 1
         /\ \A j \in some : InFront(tab, i, j) =>
              Cardinality(Ahead(tab, some, i)) < Cardinality(Ahead(tab, some, j))
<1>1. ASSUME NEW a \in SUBSET some, NEW b \in SUBSET some, a \subseteq b, i \in b \ a
      PROVE  Cardinality(a) < Cardinality(b) /\ Cardinality(a) \in Nat /\ Cardinality(b) \in Nat
  <2>1. IsFiniteSet(b) /\ IsFiniteSet(a)
    BY SomeFinite, FS_Subset
  <2>2. Cardinality(a) <= Cardinality(b) /\ (Cardinality(a) = Cardinality(b) => a = b)
    BY <2>1, <1>1, FS_Subset
  <2> QED BY <2>1, <2>2, <1>1, FS_CardinalityType
<1>2. Ahead(tab, some, i) \subseteq some /\ i \notin Ahead(tab, some, i)
  BY FrontOrder DEF Ahead
<1>3. ASSUME NEW j \in some, InFront(tab, i, j)
      PROVE  Cardinality(Ahead(tab, some, i)) < Cardinality(Ahead(tab, some, j))
  <2>1. Ahead(tab, some, i) \subseteq Ahead(tab, some, j) /\ i \in Ahead(tab, some, j)
    BY <1>3, FrontOrder DEF Ahead
  <2>2. Ahead(tab, some, j) \subseteq some
    BY DEF Ahead
  <2> QED BY <1>1, <1>2, <2>1, <2>2
<1>4. Cardinality(Ahead(tab, some, i)) < Cardinality(some) /\ Cardinality(Ahead(tab, some, i)) \in Nat
  BY <1>1, <1>2
<1> QED BY <1>3, <1>4, SomeFinite

(* So each rank is somebody's.                                             *)
LEMMA RankTaken ==
  ASSUME NEW tab \in Seq(Log), NEW some \in SUBSET DOMAIN tab,
         NEW k \in 0 .. Cardinality(some) - 1
  PROVE  \E i \in some : Cardinality(Ahead(tab, some, i)) = k
<1> DEFINE n == Cardinality(some)
           f == [i \in some |-> Cardinality(Ahead(tab, some, i))]
<1>1. n \in Nat /\ IsFiniteSet(some)
  BY SomeFinite
<1>2. f \in Injection(some, 0 .. n - 1)
  <2>1. f \in [some -> 0 .. n - 1]
    BY AheadLess
  <2>2. ASSUME NEW i \in some, NEW j \in some, i # j
        PROVE  f[i] # f[j]
    <3>1. InFront(tab, i, j) \/ InFront(tab, j, i)
      BY <2>2, FrontOrder
    <3>2. f[i] \in Nat /\ f[j] \in Nat /\ (f[i] < f[j] \/ f[j] < f[i])
      BY <3>1, AheadLess
    <3> QED BY <3>2
  <2> HIDE DEF f, n
  <2> QED BY <2>1, <2>2 DEF Injection, IsInjective
<1>3. IsFiniteSet(0 .. n - 1) /\ Cardinality(0 .. n - 1) = n
  BY <1>1, FS_Interval
<1>4. f \in Surjection(some, 0 .. n - 1)
  <2> HIDE DEF f
  <2> QED BY <1>1, <1>2, <1>3, FS_Injection
<1>5. \E i \in some : f[i] = k
  <2> HIDE DEF f, n
  <2>1. k \in 0 .. n - 1
    BY DEF n
  <2> QED BY <1>4, <2>1 DEF Surjection
<1> QED BY <1>5

(* A sorted set is the set, ascending.                                     *)
LEMMA ArrangedIs ==
  ASSUME NEW tab \in Seq(Log), NEW some \in SUBSET DOMAIN tab
  PROVE  LET s == Arranged(tab, some)
         IN  /\ s \in Seq(some) /\ Len(s) = Cardinality(some)
             /\ DOMAIN s = 1 .. Cardinality(some)
             /\ ToSet(s) = some /\ Ascends(tab, s)
<1> DEFINE s == Arranged(tab, some)
           n == Cardinality(some)
<1>1. n \in Nat
  BY SomeFinite
<1>2. \A k \in 1 .. n : s[k] \in some /\ Cardinality(Ahead(tab, some, s[k])) = k - 1
  <2> SUFFICES ASSUME NEW k \in 1 .. n
               PROVE  s[k] \in some /\ Cardinality(Ahead(tab, some, s[k])) = k - 1
    OBVIOUS
  <2>1. k - 1 \in 0 .. n - 1
    BY <1>1
  <2>2. PICK i \in some : Cardinality(Ahead(tab, some, i)) = k - 1
    BY <2>1, RankTaken
  <2>3. s[k] = CHOOSE j \in some : Cardinality(Ahead(tab, some, j)) = k - 1
    BY DEF Arranged
  <2> QED BY <2>2, <2>3
<1>3. s \in [1 .. n -> some]
  <2>1. DOMAIN s = 1 .. n /\ s = [k \in 1 .. n |-> s[k]]
    BY DEF Arranged
  <2> HIDE DEF s, n
  <2> QED BY <1>2, <2>1
<1>4. s \in Seq(some) /\ Len(s) = n /\ DOMAIN s = 1 .. n
  <2> HIDE DEF s, n
  <2> QED BY <1>1, <1>3, SeqDef
<1>5. some \subseteq ToSet(s)
  <2> SUFFICES ASSUME NEW i \in some PROVE i \in ToSet(s)
    OBVIOUS
  <2>1. Cardinality(Ahead(tab, some, i)) \in 0 .. n - 1
    BY AheadLess
  <2>2. PICK k \in 1 .. n : k - 1 = Cardinality(Ahead(tab, some, i))
    <3> HIDE DEF n
    <3>1. Cardinality(Ahead(tab, some, i)) + 1 \in 1 .. n
      BY <1>1, <2>1
    <3> QED BY <3>1, <2>1, <1>1
  <2>3. s[k] \in some /\ Cardinality(Ahead(tab, some, s[k])) = Cardinality(Ahead(tab, some, i))
    BY <1>2, <2>2
  <2>4. s[k] = i
    <3> HIDE DEF s
    <3>1. \A j \in some : Cardinality(Ahead(tab, some, j)) \in Nat
      BY AheadLess
    <3>2. ~InFront(tab, s[k], i) /\ ~InFront(tab, i, s[k])
      BY <2>3, <3>1, AheadLess
    <3> QED BY <2>3, <3>2, FrontOrder
  <2> HIDE DEF s
  <2> QED BY <2>4, <1>4 DEF ToSet
<1>6. Ascends(tab, s)
  <2> SUFFICES ASSUME NEW k \in 1 .. n, NEW l \in 1 .. n, k < l
               PROVE  InFront(tab, s[k], s[l])
    BY <1>4 DEF Ascends
  <2>1. /\ s[k] \in some /\ Cardinality(Ahead(tab, some, s[k])) = k - 1
        /\ s[l] \in some /\ Cardinality(Ahead(tab, some, s[l])) = l - 1
    BY <1>2
  <2> HIDE DEF s
  <2>2. s[k] # s[l]
    BY <2>1
  <2>3. ~InFront(tab, s[l], s[k])
    BY <2>1, AheadLess
  <2> QED BY <2>1, <2>2, <2>3, FrontOrder
<1>7. ToSet(s) \subseteq some
  <2> HIDE DEF s
  <2> QED BY <1>4, LenProperties DEF ToSet
<1> QED BY <1>4, <1>5, <1>6, <1>7

LEMMA AscendingInjective ==
  ASSUME NEW tab \in Seq(Log), NEW some \in SUBSET DOMAIN tab,
         NEW s \in Seq(some), Ascends(tab, s), NEW m \in 0 .. Len(s)
  PROVE  /\ IsFiniteSet({s[j] : j \in 1 .. m})
         /\ Cardinality({s[j] : j \in 1 .. m}) = m
<1> DEFINE part == {s[j] : j \in 1 .. m}
           f == [j \in 1 .. m |-> s[j]]
<1>1. s \in [1 .. Len(s) -> some] /\ Len(s) \in Nat /\ DOMAIN s = 1 .. Len(s)
  BY LenProperties
<1>2. f \in [1 .. m -> part]
  OBVIOUS
<1>3. \A j, k \in 1 .. m : j # k => f[j] # f[k]
  <2> SUFFICES ASSUME NEW j \in 1 .. m, NEW k \in 1 .. m, j < k
               PROVE  s[j] # s[k]
    BY <1>1
  <2>0. j \in DOMAIN s /\ k \in DOMAIN s
    BY <1>1
  <2>1. s[j] \in DOMAIN tab /\ s[k] \in DOMAIN tab
    BY <2>0, <1>1
  <2>2. InFront(tab, s[j], s[k])
    BY <2>0 DEF Ascends
  <2> QED BY <2>1, <2>2, FrontOrder
<1>4. \A i \in part : \E j \in 1 .. m : f[j] = i
  OBVIOUS
<1>5. ExistsBijection(1 .. m, part)
  <2> HIDE DEF f, part
  <2> QED BY <1>2, <1>3, <1>4
      DEF ExistsBijection, Bijection, Injection, Surjection, IsInjective
<1>6. IsFiniteSet(1 .. m) /\ Cardinality(1 .. m) = m
  BY <1>1, FS_Interval
<1>7. IsFiniteSet(part) /\ Cardinality(part) = m
  <2> HIDE DEF part
  <2> QED BY <1>5, <1>6, FS_Bijection
<1> QED BY <1>7

(* In an ascending sequence of a set each element has its rank.            *)
LEMMA AscendingRank ==
  ASSUME NEW tab \in Seq(Log), NEW some \in SUBSET DOMAIN tab,
         NEW s \in Seq(some), ToSet(s) = some, Ascends(tab, s), NEW k \in 1 .. Len(s)
  PROVE  Cardinality(Ahead(tab, some, s[k])) = k - 1
<1>1. s \in [1 .. Len(s) -> some] /\ Len(s) \in Nat /\ DOMAIN s = 1 .. Len(s)
  BY LenProperties
<1>2. k - 1 \in 0 .. Len(s)
  BY <1>1
<1>3. Ahead(tab, some, s[k]) = {s[j] : j \in 1 .. k - 1}
  <2>1. ASSUME NEW i \in some, InFront(tab, i, s[k])
        PROVE  i \in {s[j] : j \in 1 .. k - 1}
    <3>1. PICK j \in 1 .. Len(s) : s[j] = i
      BY <1>1 DEF ToSet
    <3>2. s[j] \in DOMAIN tab /\ s[k] \in DOMAIN tab
      BY <1>1
    <3>3. ~InFront(tab, s[k], s[j]) /\ s[j] # s[k]
      BY <2>1, <3>1, <3>2, FrontOrder
    <3>4. ~(k < j) /\ k # j
      BY <3>3, <1>1 DEF Ascends
    <3>5. j \in 1 .. k - 1
      BY <3>4, <1>1
    <3> QED BY <3>1, <3>5
  <2>2. ASSUME NEW j \in 1 .. k - 1
        PROVE  s[j] \in some /\ InFront(tab, s[j], s[k])
    BY <1>1, <1>2 DEF Ascends
  <2> QED BY <2>1, <2>2 DEF Ahead
<1>4. Cardinality({s[j] : j \in 1 .. k - 1}) = k - 1
  BY <1>2, AscendingInjective, Zenon
<1> QED BY <1>3, <1>4

(* There is one ascending sequence of a set.                               *)
LEMMA ArrangedUnique ==
  ASSUME NEW tab \in Seq(Log), NEW some \in SUBSET DOMAIN tab,
         NEW s \in Seq(some), ToSet(s) = some, Ascends(tab, s)
  PROVE  s = Arranged(tab, some)
<1> DEFINE t == Arranged(tab, some)
<1>1. /\ t \in Seq(some) /\ Len(t) = Cardinality(some) /\ ToSet(t) = some /\ Ascends(tab, t)
  BY ArrangedIs
<1> HIDE DEF t
<1>2. Len(s) \in Nat /\ DOMAIN s = 1 .. Len(s)
  BY LenProperties
<1>3. Len(s) = Cardinality(some)
  <2>1. {s[j] : j \in 1 .. Len(s)} = some
    BY <1>2 DEF ToSet
  <2>2. Len(s) \in 0 .. Len(s)
    BY <1>2
  <2>3. Cardinality({s[j] : j \in 1 .. Len(s)}) = Len(s)
    BY <2>2, AscendingInjective, Zenon
  <2> QED BY <2>1, <2>3
<1>4. ASSUME NEW k \in 1 .. Len(s)
      PROVE  s[k] = t[k]
  <2>1. Cardinality(Ahead(tab, some, s[k])) = k - 1
    BY AscendingRank
  <2>2. Cardinality(Ahead(tab, some, t[k])) = k - 1
    BY <1>1, <1>3, AscendingRank
  <2>3. s[k] \in some /\ t[k] \in some
    BY <1>1, <1>3, ElementOfSeq
  <2>4. ~InFront(tab, s[k], t[k]) /\ ~InFront(tab, t[k], s[k])
    <3>1. \A i, j \in some : InFront(tab, i, j) =>
            Cardinality(Ahead(tab, some, i)) < Cardinality(Ahead(tab, some, j))
      BY AheadLess
    <3> QED BY <2>1, <2>2, <2>3, <3>1
  <2> QED BY <2>3, <2>4, FrontOrder
<1> QED BY <1>1, <1>3, <1>4, SeqEqual DEF t

(* What is added behind is added last, and the rest behind an element is   *)
(* what follows it.                                                        *)
LEMMA ArrangedAppend ==
  ASSUME NEW tab \in Seq(Log), NEW some \in SUBSET DOMAIN tab, NEW e \in Log
  PROVE  LET more == Append(tab, e)
             new == Len(tab) + 1
         IN  /\ \A i, j \in DOMAIN tab : InFront(more, i, j) = InFront(tab, i, j)
             /\ Arranged(more, some) = Arranged(tab, some)
             /\ (\A i \in some : tab[i].timestamp <= e.timestamp) =>
                  Arranged(more, some \cup {new}) = Append(Arranged(tab, some), new)
<1> DEFINE more == Append(tab, e)
           new == Len(tab) + 1
           s == Arranged(tab, some)
<1>1. /\ s \in Seq(some) /\ ToSet(s) = some /\ Ascends(tab, s)
      /\ DOMAIN s = 1 .. Len(s) /\ Len(s) \in Nat
  BY ArrangedIs, LenProperties
<1>2. /\ more \in Seq(Log) /\ DOMAIN tab = 1 .. Len(tab) /\ Len(tab) \in Nat
      /\ DOMAIN more = 1 .. new /\ \A i \in DOMAIN tab : more[i] = tab[i]
      /\ more[new] = e
  BY AppendProperties, LenProperties
<1> HIDE DEF more, s
<1>3. \A i, j \in DOMAIN tab : InFront(more, i, j) = InFront(tab, i, j)
  BY <1>2 DEF InFront
<1>4. \A k \in DOMAIN s : s[k] \in some /\ s[k] \in DOMAIN tab
  BY <1>1, ElementOfSeq
<1>5. Arranged(more, some) = s
  <2>1. Ascends(more, s)
    BY <1>1, <1>3, <1>4 DEF Ascends
  <2>2. some \in SUBSET DOMAIN more
    BY <1>2
  <2> QED BY <1>1, <1>2, <2>1, <2>2, ArrangedUnique
<1>6. ASSUME \A i \in some : tab[i].timestamp <= e.timestamp
      PROVE  Arranged(more, some \cup {new}) = Append(s, new)
  <2> DEFINE both == some \cup {new}
             t == Append(s, new)
  <2>1. /\ t \in Seq(both) /\ Len(t) = Len(s) + 1 /\ DOMAIN t = 1 .. Len(s) + 1
        /\ \A k \in 1 .. Len(s) : t[k] = s[k]
        /\ t[Len(s) + 1] = new
    <3>1. s \in Seq(both)
      BY <1>1, SeqMonotonic
    <3> QED BY <1>1, <3>1, AppendProperties, LenProperties
  <2> HIDE DEF t
  <2>2. \A i \in some : InFront(more, i, new)
    <3> SUFFICES ASSUME NEW i \in some PROVE InFront(more, i, new)
      OBVIOUS
    <3>1. i \in Nat /\ i < new /\ more[i] = tab[i]
      BY <1>2
    <3>2. tab[i].timestamp \in Nat /\ e.timestamp \in Nat
      <4>1. tab[i] \in Log
        BY <1>2, ElementOfSeq
      <4> QED BY <4>1 DEF Log, Time
    <3> QED BY <1>2, <1>6, <3>1, <3>2 DEF InFront
  <2>3. Ascends(more, t)
    <3> SUFFICES ASSUME NEW k \in 1 .. Len(s) + 1, NEW l \in 1 .. Len(s) + 1, k < l
                 PROVE  InFront(more, t[k], t[l])
      BY <2>1 DEF Ascends
    <3>1. k \in 1 .. Len(s) /\ (l \in 1 .. Len(s) \/ l = Len(s) + 1)
      BY <1>1
    <3>2. CASE l \in 1 .. Len(s)
      BY <3>1, <3>2, <2>1, <1>1, <1>3, <1>4 DEF Ascends
    <3>3. CASE l = Len(s) + 1
      BY <3>1, <3>3, <2>1, <2>2, <1>1, <1>4
    <3> QED BY <3>1, <3>2, <3>3
  <2>4. ToSet(t) = both
    <3>1. \A k \in 1 .. Len(s) + 1 : t[k] \in both
      BY <2>1, ElementOfSeq
    <3>2. \A i \in some : \E k \in 1 .. Len(s) : s[k] = i
      BY <1>1 DEF ToSet
    <3>3. \A i \in some : \E k \in 1 .. Len(s) + 1 : t[k] = i
      BY <3>2, <2>1, <1>1
    <3>4. Len(s) + 1 \in 1 .. Len(s) + 1
      BY <1>1
    <3>5. ToSet(t) \subseteq both
      BY <3>1, <2>1 DEF ToSet
    <3>6. both \subseteq ToSet(t)
      BY <3>3, <3>4, <2>1 DEF ToSet
    <3> QED BY <3>5, <3>6
  <2>5. both \in SUBSET DOMAIN more
    BY <1>2
  <2> QED BY <2>1, <2>3, <2>4, <2>5, <1>2, ArrangedUnique DEF t
<1> QED BY <1>3, <1>5, <1>6 DEF more, s

LEMMA ArrangedRest ==
  ASSUME NEW tab \in Seq(Log), NEW some \in SUBSET DOMAIN tab,
         NEW f \in 0 .. Len(Arranged(tab, some))
  PROVE  LET all == Arranged(tab, some)
         IN  Arranged(tab, {i \in some : f = 0 \/ InFront(tab, all[f], i)}) =
               SubSeq(all, f + 1, Len(all))
<1> DEFINE all == Arranged(tab, some)
           rest == {i \in some : f = 0 \/ InFront(tab, all[f], i)}
           s == SubSeq(all, f + 1, Len(all))
<1>1. /\ all \in Seq(some) /\ ToSet(all) = some /\ Ascends(tab, all)
      /\ DOMAIN all = 1 .. Len(all) /\ Len(all) \in Nat /\ f \in Nat /\ f <= Len(all)
  BY ArrangedIs, LenProperties
<1> HIDE DEF all
<1>2. \A k \in 1 .. Len(all) : all[k] \in some /\ all[k] \in DOMAIN tab
  BY <1>1, ElementOfSeq
<1>3. \A k \in 1 .. Len(all) : all[k] \in rest <=> k \in f + 1 .. Len(all)
  <2> SUFFICES ASSUME NEW k \in 1 .. Len(all)
               PROVE  (f = 0 \/ InFront(tab, all[f], all[k])) <=> f < k
    BY <1>1, <1>2
  <2>1. CASE f = 0
    BY <2>1
  <2>2. CASE f # 0
    <3>1. f \in 1 .. Len(all)
      BY <1>1, <2>2
    <3>2. f < k => InFront(tab, all[f], all[k])
      BY <1>1, <3>1 DEF Ascends
    <3>3. k < f => InFront(tab, all[k], all[f])
      BY <1>1, <3>1 DEF Ascends
    <3>4. all[f] \in DOMAIN tab /\ all[k] \in DOMAIN tab
      BY <1>2, <3>1
    <3>5. k <= f => ~InFront(tab, all[f], all[k])
      BY <3>1, <3>3, <3>4, FrontOrder
    <3> QED BY <2>2, <3>1, <3>2, <3>5
  <2> QED BY <2>1, <2>2
<1>4. /\ s \in Seq(rest) /\ Len(s) = Len(all) - f /\ DOMAIN s = 1 .. Len(all) - f
      /\ \A k \in 1 .. Len(all) - f : s[k] = all[f + k]
  <2>0. f + 1 \in Int /\ Len(all) \in Int
    BY <1>1
  <2>1. \A k \in f + 1 .. Len(all) : all[k] \in rest
    <3> HIDE DEF rest
    <3> QED BY <1>1, <1>3
  <2> HIDE DEF rest
  <2>2. /\ s \in Seq(rest) /\ Len(s) = IF f + 1 <= Len(all) THEN Len(all) - (f + 1) + 1 ELSE 0
        /\ \A k \in 1 .. Len(all) - (f + 1) + 1 : s[k] = all[f + 1 + k - 1]
    BY <2>0, <2>1, SubSeqProperties
  <2>3. DOMAIN s = 1 .. Len(s)
    BY <2>2, LenProperties
  <2> HIDE DEF s
  <2>4. Len(s) = Len(all) - f
    <3>1. Len(all) \in Nat /\ f \in Nat /\ f <= Len(all)
      BY <1>1
    <3>2. Len(s) = IF f + 1 <= Len(all) THEN Len(all) - (f + 1) + 1 ELSE 0
      BY <2>2
    <3> QED BY <3>1, <3>2
  <2>5. \A k \in 1 .. Len(all) - f : s[k] = all[f + k]
    <3>1. \A k \in 1 .. Len(all) - f : f + 1 + k - 1 = f + k /\ k \in 1 .. Len(all) - (f + 1) + 1
      BY <1>1
    <3> QED BY <2>2, <3>1
  <2> QED BY <2>2, <2>3, <2>4, <2>5
<1> HIDE DEF s
<1>5. Ascends(tab, s)
  <2>1. \A k, l \in 1 .. Len(all) - f : k < l => f + k \in 1 .. Len(all) /\ f + l \in 1 .. Len(all) /\ f + k < f + l
    BY <1>1
  <2> QED BY <1>1, <1>4, <2>1 DEF Ascends
<1>6. ToSet(s) = rest
  <2>1. \A k \in 1 .. Len(all) - f : s[k] \in rest
    <3> HIDE DEF rest
    <3> QED BY <1>4, ElementOfSeq
  <2>2. ASSUME NEW i \in rest
        PROVE  \E k \in 1 .. Len(all) - f : s[k] = i
    <3>1. PICK k \in 1 .. Len(all) : all[k] = i
      BY <1>1 DEF ToSet
    <3>2. k - f \in 1 .. Len(all) - f /\ f + (k - f) = k
      BY <3>1, <1>1, <1>3
    <3> QED BY <3>1, <3>2, <1>4
  <2> HIDE DEF rest
  <2> QED BY <2>1, <2>2, <1>4 DEF ToSet
<1>7. rest \in SUBSET DOMAIN tab
  OBVIOUS
<1>8. s = Arranged(tab, rest)
  <2> HIDE DEF rest
  <2> QED BY <1>4, <1>5, <1>6, <1>7, ArrangedUnique
<1> QED BY <1>8 DEF s, all

LEMMA FirstIs ==
  ASSUME NEW S, NEW s \in Seq(S), NEW n \in Nat
  PROVE  /\ First(s, n) \in Seq(S)
         /\ Len(First(s, n)) = IF n < Len(s) THEN n ELSE Len(s)
         /\ \A k \in 1 .. Len(First(s, n)) : k \in 1 .. Len(s) /\ First(s, n)[k] = s[k]
<1> DEFINE m == IF n < Len(s) THEN n ELSE Len(s)
<1>1. m \in 0 .. Len(s) /\ Len(s) \in Nat /\ 1 \in Int
  BY LenProperties
<1>2. First(s, n) = SubSeq(s, 1, m)
  BY DEF First
<1> HIDE DEF m
<1>3. m \in Int /\ \A i \in 1 .. m : s[i] \in S
  BY <1>1, ElementOfSeq
<1>4. /\ SubSeq(s, 1, m) \in Seq(S)
      /\ Len(SubSeq(s, 1, m)) = IF 1 <= m THEN m - 1 + 1 ELSE 0
      /\ \A i \in 1 .. m - 1 + 1 : SubSeq(s, 1, m)[i] = s[1 + i - 1]
  BY <1>1, <1>3, SubSeqProperties
<1> DEFINE t == SubSeq(s, 1, m)
<1>5. t \in Seq(S) /\ Len(t) = m /\ \A k \in 1 .. m : k \in 1 .. Len(s) /\ t[k] = s[k]
  <2> HIDE DEF t
  <2>1. m - 1 + 1 = m /\ \A i \in 1 .. m : 1 + i - 1 = i /\ i \in 1 .. Len(s)
    BY <1>1
  <2>2. Len(t) = m
    BY <1>1, <1>4 DEF t
  <2> QED BY <1>4, <2>1, <2>2 DEF t
<1> QED BY <1>2, <1>5 DEF m

---------------------------------------------------------------------------
(* What a run may still write, by itself: w is what the run holds, file    *)
(* the lines of its file, own the day's entries and due those of them that *)
(* are to be in the file in the end.                                       *)

Emits(w, file) == (IF w.opened THEN file ELSE <<>>) \o w.lines

AloneOK(tab, own, w, file, due) ==
  LET s == Emits(w, file)
  IN  /\ w.opened => w.pos = Len(file)
      /\ ToSet(s) \subseteq own /\ Ascends(tab, s)
      /\ w.last = IF s = <<>> THEN 0 ELSE s[Len(s)]
      /\ \A i \in due \ ToSet(s) :
           w.phase = "fetching" /\ (w.last = 0 \/ InFront(tab, w.last, i))

LEMMA EmitsType ==
  ASSUME NEW w \in Archiving, NEW file \in Seq(Nat)
  PROVE  Emits(w, file) \in Seq(Nat)
<1>1. w.lines \in Seq(Nat) /\ w.opened \in BOOLEAN
  <2>1. w.lines \in Seq(Nat \ {0}) /\ w.opened \in BOOLEAN
    BY DEF Archiving
  <2> QED BY <2>1, SeqMonotonic
<1>2. (IF w.opened THEN file ELSE <<>>) \in Seq(Nat)
  BY EmptySeq
<1> QED BY <1>1, <1>2, ConcatProperties DEF Emits

(* Whatever keeps what is emitted and the cursor keeps the rest.           *)
LEMMA AloneSame ==
  ASSUME NEW tab, NEW own, NEW w, NEW v, NEW file, NEW other, NEW due,
         AloneOK(tab, own, w, file, due), Emits(v, other) = Emits(w, file),
         v.last = w.last, v.phase = w.phase, v.opened => v.pos = Len(other)
  PROVE  AloneOK(tab, own, v, other, due)
BY DEF AloneOK

LEMMA AloneFresh ==
  ASSUME NEW tab, NEW own, NEW w, NEW file, NEW due,
         ~w.opened, w.lines = <<>>, w.last = 0, w.phase = "fetching"
  PROVE  AloneOK(tab, own, w, file, due)
<1>1. Emits(w, file) = <<>>
  BY EmptySeq, ConcatEmptySeq DEF Emits
<1>2. ToSet(<<>>) = {} /\ DOMAIN <<>> = {}
  <2>1. <<>> \in Seq(Nat)
    BY EmptySeq
  <2>2. DOMAIN <<>> = 1 .. 0
    BY <2>1, EmptySeq, LenProperties
  <2> QED BY <2>2 DEF ToSet
<1> QED BY <1>1, <1>2 DEF AloneOK, Ascends

LEMMA WrittenNext ==
  ASSUME NEW file \in Seq(Nat), NEW i \in Nat
  PROVE  WrittenAt(file, Len(file) + 1, i) = Append(file, i)
<1> DEFINE t == WrittenAt(file, Len(file) + 1, i)
           n == Len(file) + 1
<1>1. Len(file) \in Nat /\ \A k \in 1 .. Len(file) : file[k] \in Nat
  BY LenProperties
<1>2. t = [k \in 1 .. n |-> IF k = n THEN i ELSE IF k <= Len(file) THEN file[k] ELSE Hole]
  BY <1>1 DEF WrittenAt
<1>3. t \in [1 .. n -> Nat] /\ t[n] = i /\ \A k \in 1 .. Len(file) : t[k] = file[k]
  BY <1>1, <1>2 DEF Hole
<1>4. t \in Seq(Nat) /\ Len(t) = n
  <2> HIDE DEF t
  <2> QED BY <1>1, <1>3, SeqDef
<1>5. /\ Append(file, i) \in Seq(Nat) /\ Len(Append(file, i)) = n
      /\ \A k \in 1 .. n : Append(file, i)[k] = t[k]
  <2> HIDE DEF t
  <2> QED BY <1>1, <1>3, AppendProperties
<1> HIDE DEF t
<1>6. t = Append(file, i)
  BY <1>4, <1>5, SeqEqual
<1> QED BY <1>6 DEF t

LEMMA WrittenAtIs ==
  ASSUME NEW file \in Seq(Nat), NEW i \in Nat, NEW p \in Nat \ {0}
  PROVE  LET t == WrittenAt(file, p, i)
         IN  /\ t \in Seq(Nat) /\ t[p] = i
             /\ Len(t) = IF p > Len(file) THEN p ELSE Len(file)
             /\ p \in DOMAIN t /\ DOMAIN file \subseteq DOMAIN t
             /\ \A k \in DOMAIN t \ {p} : t[k] = IF k \in DOMAIN file THEN file[k] ELSE Hole
<1> DEFINE t == WrittenAt(file, p, i)
           n == IF p > Len(file) THEN p ELSE Len(file)
<1>1. Len(file) \in Nat /\ DOMAIN file = 1 .. Len(file) /\ \A k \in 1 .. Len(file) : file[k] \in Nat
  BY LenProperties
<1>2. n \in Nat /\ p \in 1 .. n /\ DOMAIN file \subseteq 1 .. n
  BY <1>1
<1>3. t = [k \in 1 .. n |-> IF k = p THEN i ELSE IF k <= Len(file) THEN file[k] ELSE Hole]
  BY DEF WrittenAt
<1> HIDE DEF n
<1>4. t \in [1 .. n -> Nat] /\ t[p] = i /\ DOMAIN t = 1 .. n
  BY <1>1, <1>2, <1>3 DEF Hole
<1>5. \A k \in 1 .. n \ {p} : t[k] = IF k \in DOMAIN file THEN file[k] ELSE Hole
  BY <1>1, <1>2, <1>3
<1>6. t \in Seq(Nat) /\ Len(t) = n
  <2> HIDE DEF t
  <2> QED BY <1>2, <1>4, SeqDef
<1> QED BY <1>1, <1>2, <1>4, <1>5, <1>6 DEF n

(* What is ahead of a cursor.                                              *)
Onward(tab, own, last) == {i \in own : last = 0 \/ InFront(tab, last, i)}

(* One fetch: the batch, if there is one, follows the cursor in order, and *)
(* what it leaves out is ahead of it.                                      *)
LEMMA BatchIs ==
  ASSUME NEW tab \in Seq(Log), NEW own \in SUBSET DOMAIN tab, NEW last,
         NEW rest, rest = Onward(tab, own, last),
         NEW batch, batch = First(Arranged(tab, rest), Batch)
  PROVE  /\ batch \in Seq(own) /\ Ascends(tab, batch)
         /\ ToSet(batch) \subseteq rest
         /\ batch = <<>> => rest = {}
         /\ batch # <<>> => \A i \in rest \ ToSet(batch) : InFront(tab, batch[Len(batch)], i)
<1> DEFINE all == Arranged(tab, rest)
<1>1. rest \in SUBSET DOMAIN tab /\ rest \subseteq own
  BY DEF Onward
<1>2. /\ all \in Seq(rest) /\ ToSet(all) = rest /\ Ascends(tab, all)
      /\ DOMAIN all = 1 .. Len(all) /\ Len(all) \in Nat
  BY <1>1, ArrangedIs, LenProperties
<1>3. batch = First(all, Batch)
  OBVIOUS
<1> HIDE DEF all
<1>4. /\ batch \in Seq(rest) /\ Len(batch) = (IF Batch < Len(all) THEN Batch ELSE Len(all))
      /\ \A k \in 1 .. Len(batch) : k \in 1 .. Len(all) /\ batch[k] = all[k]
  <2>1. Batch \in Nat /\ all \in Seq(rest)
    BY <1>2, BatchAssumption
  <2>2. /\ First(all, Batch) \in Seq(rest)
        /\ Len(First(all, Batch)) = (IF Batch < Len(all) THEN Batch ELSE Len(all))
        /\ \A k \in 1 .. Len(First(all, Batch)) :
             k \in 1 .. Len(all) /\ First(all, Batch)[k] = all[k]
    BY <2>1, FirstIs
  <2> QED BY <2>2, <1>3
<1>5. DOMAIN batch = 1 .. Len(batch) /\ Len(batch) \in Nat
  BY <1>4, LenProperties
<1>6. batch \in Seq(own)
  BY <1>1, <1>4, SeqMonotonic
<1>7. Ascends(tab, batch)
  BY <1>2, <1>4, <1>5 DEF Ascends
<1>8. ToSet(batch) \subseteq rest
  <2>1. \A k \in 1 .. Len(batch) : batch[k] \in rest
    BY <1>4, ElementOfSeq
  <2> QED BY <2>1, <1>5 DEF ToSet
<1>9. ASSUME batch = <<>>
      PROVE  rest = {}
  <2>1. Len(batch) = 0
    BY <1>9, EmptySeq
  <2>2. Len(all) = 0
    BY <2>1, <1>2, <1>4, BatchAssumption
  <2>3. DOMAIN all = {}
    BY <2>2, <1>2
  <2> QED BY <2>3, <1>2 DEF ToSet
<1>10. ASSUME batch # <<>>, NEW i \in rest \ ToSet(batch)
       PROVE  InFront(tab, batch[Len(batch)], i)
  <2>1. PICK m \in 1 .. Len(all) : all[m] = i
    BY <1>2 DEF ToSet
  <2>2. Len(batch) \in Nat \ {0}
    BY <1>4, <1>10, EmptySeq
  <2>3. ~(m \in 1 .. Len(batch))
    BY <2>1, <1>4, <1>5, <1>10 DEF ToSet
  <2>4. Len(batch) < m /\ Len(batch) \in 1 .. Len(batch)
    BY <2>2, <2>3
  <2>5. Len(batch) \in 1 .. Len(all) /\ batch[Len(batch)] = all[Len(batch)]
    BY <2>4, <1>4
  <2> QED BY <2>1, <2>4, <2>5, <1>2 DEF Ascends
<1> QED BY <1>6, <1>7, <1>8, <1>9, <1>10

LEMMA Joined == \A f, l, b \in Seq(Nat) : (f \o l) \o b = f \o (l \o b)
<1> SUFFICES ASSUME NEW f \in Seq(Nat), NEW l \in Seq(Nat), NEW b \in Seq(Nat)
             PROVE  (f \o l) \o b = f \o (l \o b)
  OBVIOUS
<1> QED BY ConcatAssociative

LEMMA AloneFetch ==
  ASSUME NEW tab \in Seq(Log), NEW own \in SUBSET DOMAIN tab, NEW w \in Archiving,
         NEW file \in Seq(Nat), NEW due \in SUBSET own, AloneOK(tab, own, w, file, due),
         NEW rest, rest = Onward(tab, own, w.last),
         NEW batch \in Seq(own), Ascends(tab, batch), ToSet(batch) \subseteq rest,
         batch = <<>> => rest = {},
         batch # <<>> => \A i \in rest \ ToSet(batch) : InFront(tab, batch[Len(batch)], i),
         NEW v \in Archiving, v.opened = w.opened, v.pos = w.pos,
         IF batch = <<>> THEN v.lines = w.lines /\ v.last = w.last
         ELSE v.lines = w.lines \o batch /\ v.last = batch[Len(batch)] /\ v.phase = "fetching"
  PROVE  AloneOK(tab, own, v, file, due)
<1> DEFINE s == Emits(w, file)
<1>1. \A k \in DOMAIN batch : w.last = 0 \/ InFront(tab, w.last, batch[k])
  BY DEF ToSet, Onward
<1>2. \A i \in due \ ToSet(s) : i \in rest
  BY DEF AloneOK, Onward
<1>3. CASE batch = <<>>
  <2>1. Emits(v, file) = s /\ due \ ToSet(s) = {}
    BY <1>1, <1>2, <1>3 DEF Emits
  <2> QED BY <2>1, <1>3 DEF AloneOK
<1>4. CASE batch # <<>>
  <2> DEFINE t == s \o batch
  <2>1. s \in Seq(Nat) /\ ToSet(s) \subseteq own /\ Ascends(tab, s)
    BY EmitsType DEF AloneOK
  <2>2. /\ w.last = IF s = <<>> THEN 0 ELSE s[Len(s)]
        /\ w.opened => w.pos = Len(file)
    BY DEF AloneOK
  <2>3. Emits(v, file) = t
    <3>1. /\ w.lines \in Seq(Nat) /\ batch \in Seq(Nat)
          /\ (IF w.opened THEN file ELSE <<>>) \in Seq(Nat)
      <4>1. w.lines \in Seq(Nat \ {0}) /\ own \subseteq Nat
        BY LenProperties DEF Archiving
      <4> QED BY <4>1, SeqMonotonic, EmptySeq
    <3>2. Emits(v, file) = (IF w.opened THEN file ELSE <<>>) \o (w.lines \o batch)
      BY <1>4 DEF Emits
    <3> DEFINE a == IF w.opened THEN file ELSE <<>>
    <3>3. s = a \o w.lines
      BY DEF Emits
    <3> HIDE DEF a, s
    <3>4. a \in Seq(Nat) /\ w.lines \in Seq(Nat) /\ batch \in Seq(Nat)
      BY <3>1 DEF a
    <3>5. (a \o w.lines) \o batch = a \o (w.lines \o batch)
      BY <3>4, Joined
    <3>6. Emits(v, file) = a \o (w.lines \o batch)
      BY <3>2 DEF a
    <3> QED BY <3>3, <3>5, <3>6
  <2> HIDE DEF s
  <2>4. /\ Len(s) \in Nat /\ DOMAIN s = 1 .. Len(s)
        /\ \A k \in 1 .. Len(s) : s[k] \in own
    BY <2>1, LenProperties DEF ToSet
  <2>5. /\ Len(batch) \in Nat \ {0} /\ DOMAIN batch = 1 .. Len(batch)
        /\ \A k \in 1 .. Len(batch) : batch[k] \in own
    BY <1>4, EmptySeq, LenProperties
  <2>6. /\ t \in Seq(own) /\ Len(t) = Len(s) + Len(batch) /\ DOMAIN t = 1 .. Len(t)
        /\ \A k \in 1 .. Len(s) : t[k] = s[k]
        /\ \A k \in 1 .. Len(batch) : t[Len(s) + k] = batch[k]
    <3>1. s \in Seq(own)
      <4>1. s \in [1 .. Len(s) -> own]
        BY <2>1, <2>4, LenProperties
      <4> QED BY <2>4, <4>1, SeqDef
    <3>2. /\ t \in Seq(own) /\ Len(t) = Len(s) + Len(batch)
          /\ \A k \in 1 .. Len(s) + Len(batch) :
               t[k] = IF k <= Len(s) THEN s[k] ELSE batch[k - Len(s)]
      BY <1>1, <3>1, ConcatProperties
    <3>3. DOMAIN t = 1 .. Len(t)
      BY <3>2, LenProperties
    <3> HIDE DEF t
    <3>4. \A k \in 1 .. Len(s) : t[k] = s[k]
      BY <3>2, <2>4, <2>5
    <3>5. \A k \in 1 .. Len(batch) : /\ Len(s) + k \in 1 .. Len(s) + Len(batch)
                                    /\ ~(Len(s) + k <= Len(s)) /\ Len(s) + k - Len(s) = k
      BY <2>4, <2>5
    <3>6. \A k \in 1 .. Len(batch) : t[Len(s) + k] = batch[k]
      <4> TAKE k \in 1 .. Len(batch)
      <4>1. PICK m \in 1 .. Len(s) + Len(batch) : m = Len(s) + k
        BY <3>5
      <4>2. t[m] = batch[m - Len(s)]
        BY <3>2, <3>5, <4>1
      <4> QED BY <3>5, <4>1, <4>2
    <3> QED BY <3>2, <3>3, <3>4, <3>6
  <2> HIDE DEF t
  <2>7. t # <<>> /\ t[Len(t)] = batch[Len(batch)]
    <3>1. Len(t) # 0
      BY <2>4, <2>5, <2>6
    <3>2. t # <<>>
      BY <3>1, EmptySeq
    <3>3. Len(batch) \in 1 .. Len(batch)
      BY <2>5
    <3> QED BY <3>2, <3>3, <2>6
  <2>8. \A k \in 1 .. Len(s), l \in 1 .. Len(batch) : InFront(tab, s[k], batch[l])
    <3> SUFFICES ASSUME NEW k \in 1 .. Len(s), NEW l \in 1 .. Len(batch)
                 PROVE  InFront(tab, s[k], batch[l])
      OBVIOUS
    <3>1. s # <<>> /\ Len(s) \in 1 .. Len(s)
      BY <2>4, EmptySeq
    <3>2. w.last = s[Len(s)] /\ w.last \in own /\ w.last # 0
      <4>1. \A i \in own : i # 0
        BY LenProperties
      <4> QED BY <3>1, <2>2, <2>4, <4>1
    <3>3. InFront(tab, w.last, batch[l])
      BY <1>1, <2>5, <3>2
    <3>4. k = Len(s) \/ InFront(tab, s[k], w.last)
      <4>1. k = Len(s) \/ k < Len(s)
        <5>1. Len(s) \in Nat /\ k \in 1 .. Len(s)
          BY <2>4
        <5> QED BY <5>1
      <4>2. k < Len(s) => InFront(tab, s[k], s[Len(s)])
        BY <2>1, <2>4, <3>1 DEF Ascends
      <4> QED BY <3>2, <4>1, <4>2
    <3>5. s[k] \in DOMAIN tab /\ w.last \in DOMAIN tab /\ batch[l] \in DOMAIN tab
      BY <2>4, <2>5, <3>2
    <3> QED BY <3>2, <3>3, <3>4, <3>5, FrontOrder
  <2>9. Ascends(tab, t)
    <3> SUFFICES ASSUME NEW k \in 1 .. Len(t), NEW l \in 1 .. Len(t), k < l
                 PROVE  InFront(tab, t[k], t[l])
      BY <2>6 DEF Ascends
    <3>1. \A m \in 1 .. Len(t) : m \in 1 .. Len(s) \/ \E n \in 1 .. Len(batch) : m = Len(s) + n
      <4> SUFFICES ASSUME NEW m \in 1 .. Len(t), ~(m \in 1 .. Len(s))
                   PROVE  \E n \in 1 .. Len(batch) : m = Len(s) + n
        OBVIOUS
      <4>1. m - Len(s) \in 1 .. Len(batch) /\ m = Len(s) + (m - Len(s))
        BY <2>4, <2>5, <2>6
      <4> QED BY <4>1
    <3>2. CASE k \in 1 .. Len(s) /\ l \in 1 .. Len(s)
      BY <3>2, <2>1, <2>4, <2>6 DEF Ascends
    <3>3. ASSUME k \in 1 .. Len(s), NEW n \in 1 .. Len(batch), l = Len(s) + n
          PROVE  InFront(tab, t[k], t[l])
      BY <3>3, <2>6, <2>8
    <3>4. ASSUME NEW m \in 1 .. Len(batch), k = Len(s) + m,
                 NEW n \in 1 .. Len(batch), l = Len(s) + n
          PROVE  InFront(tab, t[k], t[l])
      <4>1. m < n
        BY <3>4, <2>4
      <4>2. InFront(tab, batch[m], batch[n])
        BY <4>1, <1>1, <2>5 DEF Ascends
      <4> QED BY <3>4, <4>2, <2>6
    <3>5. k \in 1 .. Len(s) \/ ~(l \in 1 .. Len(s))
      BY <2>4
    <3> QED BY <3>1, <3>2, <3>3, <3>4, <3>5
  <2>10. ToSet(t) = ToSet(s) \cup ToSet(batch)
    <3>1. \A k \in 1 .. Len(t) : t[k] \in ToSet(s) \cup ToSet(batch)
      <4> SUFFICES ASSUME NEW k \in 1 .. Len(t) PROVE t[k] \in ToSet(s) \cup ToSet(batch)
        OBVIOUS
      <4>1. CASE k \in 1 .. Len(s)
        BY <4>1, <2>4, <2>6 DEF ToSet
      <4>2. CASE ~(k \in 1 .. Len(s))
        <5>1. k - Len(s) \in 1 .. Len(batch) /\ k = Len(s) + (k - Len(s))
          BY <4>2, <2>4, <2>5, <2>6
        <5> QED BY <5>1, <2>5, <2>6 DEF ToSet
      <4> QED BY <4>1, <4>2
    <3>2. \A k \in 1 .. Len(s) : k \in 1 .. Len(t)
      BY <2>4, <2>5, <2>6
    <3>3. \A k \in 1 .. Len(batch) : Len(s) + k \in 1 .. Len(t)
      BY <2>4, <2>5, <2>6
    <3>4. \A k \in 1 .. Len(s) : s[k] \in ToSet(t)
      BY <3>2, <2>6 DEF ToSet
    <3>5. \A k \in 1 .. Len(batch) : batch[k] \in ToSet(t)
      BY <3>3, <2>6 DEF ToSet
    <3>6. ToSet(t) \subseteq ToSet(s) \cup ToSet(batch)
      <4>1. \A i \in ToSet(t) : \E k \in 1 .. Len(t) : t[k] = i
        BY <2>6 DEF ToSet
      <4> QED BY <4>1, <3>1
    <3>7. ToSet(s) \subseteq ToSet(t) /\ ToSet(batch) \subseteq ToSet(t)
      <4>1. \A i \in ToSet(s) : \E k \in 1 .. Len(s) : s[k] = i
        BY <2>4 DEF ToSet
      <4>2. \A i \in ToSet(batch) : \E k \in 1 .. Len(batch) : batch[k] = i
        BY <2>5 DEF ToSet
      <4>3. ToSet(s) \subseteq ToSet(t)
        BY <4>1, <3>4
      <4> QED BY <4>2, <4>3, <3>5
    <3> QED BY <3>6, <3>7
  <2>11. ToSet(t) \subseteq own
    <3>1. \A k \in 1 .. Len(t) : t[k] \in own
      BY <2>6, ElementOfSeq
    <3> QED BY <3>1, <2>6 DEF ToSet
  <2>12. \A i \in due \ ToSet(t) : InFront(tab, batch[Len(batch)], i)
    BY <1>1, <1>2, <1>4, <2>10 DEF s
  <2> QED BY <1>4, <2>2, <2>3, <2>7, <2>9, <2>11, <2>12 DEF AloneOK
<1> QED BY <1>3, <1>4

LEMMA Shifted ==
  ASSUME NEW file \in Seq(Nat), NEW lines \in Seq(Nat), lines # <<>>
  PROVE  Append(file, Head(lines)) \o Tail(lines) = file \o lines
<1> DEFINE f == Append(file, Head(lines))
           t == Tail(lines)
           n == Len(file)
           m == Len(lines)
<1>1. n \in Nat /\ m \in Nat /\ m # 0
  BY LenProperties, EmptySeq
<1>2. /\ Head(lines) = lines[1] /\ lines[1] \in Nat
      /\ t \in Seq(Nat) /\ Len(t) = m - 1 /\ \A i \in 1 .. m - 1 : t[i] = lines[i + 1]
  <2>1. 1 \in 1 .. m
    BY <1>1
  <2> QED BY <2>1, HeadTailProperties, ElementOfSeq
<1>3. /\ f \in Seq(Nat) /\ Len(f) = n + 1
      /\ \A i \in 1 .. n : f[i] = file[i]
      /\ f[n + 1] = lines[1]
  BY <1>2, AppendProperties
<1> HIDE DEF f, t
<1>4. /\ f \o t \in Seq(Nat) /\ Len(f \o t) = Len(f) + Len(t)
      /\ \A i \in 1 .. Len(f) + Len(t) : (f \o t)[i] = (IF i <= Len(f) THEN f[i] ELSE t[i - Len(f)])
  BY <1>2, <1>3, ConcatProperties
<1>5. /\ file \o lines \in Seq(Nat) /\ Len(file \o lines) = n + m
      /\ \A i \in 1 .. n + m : (file \o lines)[i] = (IF i <= n THEN file[i] ELSE lines[i - n])
  BY ConcatProperties
<1> HIDE DEF n, m
<1>6. Len(f) + Len(t) = n + m
  BY <1>1, <1>2, <1>3
<1>7. ASSUME NEW i \in 1 .. n + m
      PROVE  (f \o t)[i] = (file \o lines)[i]
  <2>1. CASE i <= n
    <3>1. i <= Len(f) /\ i \in 1 .. n
      BY <2>1, <1>1, <1>3
    <3> QED BY <2>1, <3>1, <1>3, <1>4, <1>5, <1>6
  <2>2. CASE i = n + 1
    <3>1. i <= Len(f) /\ ~(i <= n) /\ i - n = 1
      BY <2>2, <1>1, <1>3
    <3> QED BY <2>2, <3>1, <1>3, <1>4, <1>5, <1>6
  <2>3. CASE i > n + 1
    <3>1. ~(i <= Len(f)) /\ ~(i <= n) /\ i - Len(f) \in 1 .. m - 1 /\ i - Len(f) + 1 = i - n
      BY <2>3, <1>1, <1>3
    <3>2. (f \o t)[i] = t[i - Len(f)] /\ (file \o lines)[i] = lines[i - n]
      BY <3>1, <1>4, <1>5, <1>6
    <3>3. PICK j \in 1 .. m - 1 : j = i - Len(f) /\ j + 1 = i - n
      BY <3>1
    <3>4. t[j] = lines[j + 1]
      BY <1>2
    <3>5. t[i - Len(f)] = t[j] /\ lines[i - n] = lines[j + 1]
      BY <3>3
    <3> QED BY <3>2, <3>4, <3>5
  <2>4. i <= n \/ i = n + 1 \/ i > n + 1
    BY <1>1
  <2> QED BY <2>1, <2>2, <2>3, <2>4
<1> QED BY <1>4, <1>5, <1>6, <1>7, SeqEqual DEF f, t

LEMMA AloneOpen ==
  ASSUME NEW tab, NEW own, NEW due, NEW file, NEW w \in Archiving, NEW v,
         AloneOK(tab, own, w, file, due), ~w.opened, w.pos = 0,
         v = [w EXCEPT !.opened = TRUE]
  PROVE  AloneOK(tab, own, v, <<>>, due)
<1>1. /\ v.opened /\ v.pos = 0 /\ v.lines = w.lines /\ v.last = w.last /\ v.phase = w.phase
  BY DEF Archiving
<1>2. Emits(v, <<>>) = Emits(w, file) /\ Len(<<>>) = 0
  BY <1>1, EmptySeq DEF Emits
<1> QED BY <1>1, <1>2, AloneSame

LEMMA AloneWrite ==
  ASSUME NEW tab, NEW own, NEW due, NEW file \in Seq(Nat), NEW w \in Archiving, NEW v,
         AloneOK(tab, own, w, file, due), w.opened, w.lines # <<>>,
         v = [w EXCEPT !.lines = Tail(@), !.pos = @ + 1]
  PROVE  AloneOK(tab, own, v, WrittenAt(file, w.pos + 1, Head(w.lines)), due)
<1>1. /\ v.opened /\ v.pos = w.pos + 1 /\ v.lines = Tail(w.lines) /\ v.last = w.last
      /\ v.phase = w.phase /\ w.lines \in Seq(Nat \ {0})
  BY DEF Archiving
<1>2. w.lines \in Seq(Nat) /\ Head(w.lines) \in Nat /\ Len(file) \in Nat
  BY <1>1, SeqMonotonic, HeadTailProperties, LenProperties
<1>3. w.pos = Len(file)
  BY DEF AloneOK
<1>4. WrittenAt(file, w.pos + 1, Head(w.lines)) = Append(file, Head(w.lines))
  BY <1>2, <1>3, WrittenNext
<1>5. Len(Append(file, Head(w.lines))) = Len(file) + 1
  BY <1>2, AppendProperties
<1>6. Append(file, Head(w.lines)) \o Tail(w.lines) = file \o w.lines
  BY <1>2, Shifted
<1>7. Emits(v, Append(file, Head(w.lines))) = Emits(w, file)
  BY <1>1, <1>6 DEF Emits
<1>8. PICK other : other = Append(file, Head(w.lines))
  OBVIOUS
<1>9. v.pos = Len(other) /\ Emits(v, other) = Emits(w, file)
  BY <1>1, <1>3, <1>5, <1>7, <1>8
<1>10. AloneOK(tab, own, v, other, due)
  BY <1>1, <1>9, AloneSame
<1> QED BY <1>4, <1>8, <1>10

(* An entry that is added disturbs nothing, wherever it belongs.           *)
LEMMA AloneAdded ==
  ASSUME NEW tab \in Seq(Log), NEW own \in SUBSET DOMAIN tab, NEW w, NEW file,
         NEW due \in SUBSET own, AloneOK(tab, own, w, file, due),
         w.last = 0 \/ w.last \in own, NEW e \in Log, NEW wider, own \subseteq wider
  PROVE  AloneOK(Append(tab, e), wider, w, file, due)
<1> DEFINE s == Emits(w, file)
           more == Append(tab, e)
<1>1. \A i, j \in DOMAIN tab : InFront(more, i, j) = InFront(tab, i, j)
  BY ArrangedAppend
<1> HIDE DEF more
<1>2. /\ w.opened => w.pos = Len(file)
      /\ ToSet(s) \subseteq own /\ Ascends(tab, s)
      /\ w.last = IF s = <<>> THEN 0 ELSE s[Len(s)]
      /\ \A i \in due \ ToSet(s) :
           w.phase = "fetching" /\ (w.last = 0 \/ InFront(tab, w.last, i))
  BY DEF AloneOK
<1> HIDE DEF s
<1>3. Ascends(more, s)
  BY <1>1, <1>2 DEF Ascends, ToSet
<1>4. \A i \in due \ ToSet(s) :
        w.phase = "fetching" /\ (w.last = 0 \/ InFront(more, w.last, i))
  BY <1>1, <1>2
<1> QED BY <1>2, <1>3, <1>4 DEF AloneOK, s, more

---------------------------------------------------------------------------
(* What runs that overlap write: all is the day's entries in order.        *)

Reaches(w) == w.pos + Len(w.lines)

FollowsOK(all, w) ==
  /\ Reaches(w) <= Len(all)
  /\ \A k \in DOMAIN w.lines : w.lines[k] = all[w.pos + k]
  /\ w.last = IF Reaches(w) = 0 THEN 0 ELSE all[Reaches(w)]

LEMMA ReachType ==
  ASSUME NEW w \in Archiving
  PROVE  /\ w.pos \in Nat /\ w.lines \in Seq(Nat \ {0}) /\ w.lines \in Seq(Nat)
         /\ Len(w.lines) \in Nat /\ DOMAIN w.lines = 1 .. Len(w.lines) /\ Reaches(w) \in Nat
<1>1. w.pos \in Nat /\ w.lines \in Seq(Nat \ {0})
  BY DEF Archiving
<1>2. Len(w.lines) \in Nat /\ DOMAIN w.lines = 1 .. Len(w.lines)
  BY <1>1, LenProperties
<1>3. w.lines \in Seq(Nat)
  BY <1>1, SeqMonotonic
<1>4. Reaches(w) \in Nat
  BY <1>1, <1>2 DEF Reaches
<1> QED BY <1>1, <1>2, <1>3, <1>4

LEMMA RestBehind ==
  ASSUME NEW tab \in Seq(Log), NEW own \in SUBSET DOMAIN tab,
         NEW all, all = Arranged(tab, own), NEW f \in 0 .. Len(all),
         NEW last, last = IF f = 0 THEN 0 ELSE all[f],
         NEW rest, rest = Onward(tab, own, last),
         NEW batch, batch = First(Arranged(tab, rest), Batch)
  PROVE  /\ Len(batch) \in Nat /\ Len(batch) <= Len(all) - f
         /\ \A k \in 1 .. Len(batch) : batch[k] = all[f + k]
         /\ batch = <<>> => f = Len(all)
<1> DEFINE tl == SubSeq(all, f + 1, Len(all))
<1>1. all \in Seq(own) /\ Len(all) \in Nat /\ f \in Nat /\ \A k \in 1 .. Len(all) : all[k] # 0
  <2>1. all \in Seq(own) /\ Len(all) \in Nat
    BY ArrangedIs, LenProperties
  <2>2. \A i \in DOMAIN tab : i # 0
    BY LenProperties
  <2>3. \A k \in 1 .. Len(all) : all[k] \in own
    BY <2>1, ElementOfSeq
  <2> QED BY <2>1, <2>2, <2>3
<1>2. rest = {i \in own : f = 0 \/ InFront(tab, all[f], i)}
  <2>1. CASE f = 0
    BY <2>1 DEF Onward
  <2>2. CASE f # 0
    <3>1. last = all[f] /\ last # 0
      BY <2>2, <1>1
    <3> QED BY <2>2, <3>1 DEF Onward
  <2> QED BY <2>1, <2>2
<1>3. Arranged(tab, rest) = tl
  <2>1. f \in 0 .. Len(Arranged(tab, own))
    OBVIOUS
  <2>2. Arranged(tab, {i \in own : f = 0 \/ InFront(tab, Arranged(tab, own)[f], i)}) =
          SubSeq(Arranged(tab, own), f + 1, Len(Arranged(tab, own)))
    BY <2>1, ArrangedRest
  <2> QED BY <1>2, <2>2
<1>4. /\ tl \in Seq(own) /\ Len(tl) = Len(all) - f
      /\ \A k \in 1 .. Len(all) - f : tl[k] = all[f + k]
  <2>0. f + 1 \in Int /\ Len(all) \in Int /\ \A k \in f + 1 .. Len(all) : all[k] \in own
    <3>1. \A k \in f + 1 .. Len(all) : k \in 1 .. Len(all)
      BY <1>1
    <3> QED BY <1>1, <3>1, ElementOfSeq
  <2>1. /\ tl \in Seq(own) /\ Len(tl) = IF f + 1 <= Len(all) THEN Len(all) - (f + 1) + 1 ELSE 0
        /\ \A k \in 1 .. Len(all) - (f + 1) + 1 : tl[k] = all[f + 1 + k - 1]
    BY <2>0, SubSeqProperties
  <2> HIDE DEF tl
  <2>2. Len(tl) = Len(all) - f
    <3>1. Len(all) \in Nat /\ f \in Nat /\ f <= Len(all)
      BY <1>1
    <3>2. Len(tl) = IF f + 1 <= Len(all) THEN Len(all) - (f + 1) + 1 ELSE 0
      BY <2>1
    <3> QED BY <3>1, <3>2
  <2>3. \A k \in 1 .. Len(all) - f : f + 1 + k - 1 = f + k /\ k \in 1 .. Len(all) - (f + 1) + 1
    BY <1>1
  <2> QED BY <2>1, <2>2, <2>3
<1> HIDE DEF tl
<1>5. batch = First(tl, Batch) /\ Batch \in Nat /\ Batch # 0
  BY <1>3, BatchAssumption
<1>6. /\ batch \in Seq(own)
      /\ Len(batch) = (IF Batch < Len(tl) THEN Batch ELSE Len(tl))
      /\ \A k \in 1 .. Len(batch) : k \in 1 .. Len(tl) /\ batch[k] = tl[k]
  <2>1. /\ First(tl, Batch) \in Seq(own)
        /\ Len(First(tl, Batch)) = (IF Batch < Len(tl) THEN Batch ELSE Len(tl))
        /\ \A k \in 1 .. Len(First(tl, Batch)) : k \in 1 .. Len(tl) /\ First(tl, Batch)[k] = tl[k]
    BY <1>4, <1>5, FirstIs
  <2> QED BY <1>5, <2>1
<1>7. Len(batch) \in Nat /\ Len(batch) <= Len(all) - f
  <2>1. Len(tl) \in Nat /\ Len(tl) = Len(all) - f /\ Len(all) \in Nat /\ f \in Nat
    BY <1>1, <1>4
  <2> QED BY <2>1, <1>5, <1>6
<1>8. \A k \in 1 .. Len(batch) : batch[k] = all[f + k]
  BY <1>4, <1>6
<1>9. batch = <<>> => f = Len(all)
  <2>1. batch = <<>> => Len(batch) = 0
    BY EmptySeq
  <2>2. /\ Len(tl) \in Nat /\ Len(tl) = Len(all) - f /\ Len(all) \in Nat /\ f \in Nat
        /\ f <= Len(all)
    BY <1>1, <1>4
  <2>3. Len(batch) = (IF Batch < Len(tl) THEN Batch ELSE Len(tl))
    BY <1>6
  <2>4. Batch \in Nat /\ Batch # 0
    BY <1>5
  <2>5. Len(batch) = 0 => Len(tl) = 0
    BY <2>3, <2>4
  <2>6. Len(tl) = 0 => f = Len(all)
    BY <2>2
  <2> QED BY <2>1, <2>5, <2>6
<1> QED BY <1>7, <1>8, <1>9

LEMMA FollowsFetch ==
  ASSUME NEW w \in Archiving, NEW all, Len(all) \in Nat, FollowsOK(all, w),
         NEW batch \in Seq(Nat), Len(batch) <= Len(all) - Reaches(w),
         \A k \in 1 .. Len(batch) : batch[k] = all[Reaches(w) + k],
         NEW v, v.pos = w.pos, v.lines = w.lines \o batch,
         v.last = IF batch = <<>> THEN w.last ELSE batch[Len(batch)]
  PROVE  FollowsOK(all, v) /\ Reaches(v) = Reaches(w) + Len(batch)
<1>1. /\ w.pos \in Nat /\ w.lines \in Seq(Nat) /\ Len(w.lines) \in Nat
      /\ DOMAIN w.lines = 1 .. Len(w.lines) /\ Reaches(w) = w.pos + Len(w.lines)
      /\ Len(batch) \in Nat
  BY ReachType, LenProperties DEF Reaches
<1>2. /\ v.lines \in Seq(Nat) /\ Len(v.lines) = Len(w.lines) + Len(batch)
      /\ \A k \in 1 .. Len(w.lines) + Len(batch) :
           v.lines[k] = (IF k <= Len(w.lines) THEN w.lines[k] ELSE batch[k - Len(w.lines)])
  BY <1>1, ConcatProperties
<1>3. DOMAIN v.lines = 1 .. Len(w.lines) + Len(batch)
  BY <1>2, LenProperties
<1>4. Reaches(v) = Reaches(w) + Len(batch)
  BY <1>1, <1>2 DEF Reaches
<1>5. /\ Reaches(w) <= Len(all) /\ \A k \in 1 .. Len(w.lines) : w.lines[k] = all[w.pos + k]
      /\ w.last = IF Reaches(w) = 0 THEN 0 ELSE all[Reaches(w)]
  BY <1>1 DEF FollowsOK
<1>6. ASSUME NEW k \in 1 .. Len(w.lines) + Len(batch)
      PROVE  v.lines[k] = all[w.pos + k]
  <2>1. CASE k <= Len(w.lines)
    <3>1. k \in 1 .. Len(w.lines)
      BY <2>1, <1>1
    <3> QED BY <2>1, <3>1, <1>2, <1>5
  <2>2. CASE ~(k <= Len(w.lines))
    <3>1. PICK j \in 1 .. Len(batch) : j = k - Len(w.lines) /\ Reaches(w) + j = w.pos + k
      <4>1. k - Len(w.lines) \in 1 .. Len(batch)
        BY <2>2, <1>1
      <4>2. Reaches(w) + (k - Len(w.lines)) = w.pos + k
        BY <1>1
      <4> QED BY <4>1, <4>2
    <3>2. v.lines[k] = batch[k - Len(w.lines)]
      BY <2>2, <1>2
    <3>3. batch[k - Len(w.lines)] = batch[j] /\ all[Reaches(w) + j] = all[w.pos + k]
      BY <3>1
    <3> QED BY <3>2, <3>3
  <2> QED BY <2>1, <2>2
<1>7. v.last = IF Reaches(v) = 0 THEN 0 ELSE all[Reaches(v)]
  <2>1. CASE batch = <<>>
    <3>1. Len(batch) = 0
      BY <2>1, EmptySeq
    <3>2. Reaches(w) \in Nat
      BY <1>1
    <3>3. Reaches(v) = Reaches(w)
      BY <3>1, <3>2, <1>4
    <3> QED BY <2>1, <3>3, <1>5
  <2>2. CASE batch # <<>>
    <3>1. Len(batch) \in 1 .. Len(batch)
      BY <2>2, <1>1, EmptySeq
    <3>2. Reaches(v) # 0
      BY <3>1, <1>1, <1>4
    <3>3. batch[Len(batch)] = all[Reaches(w) + Len(batch)]
      BY <3>1
    <3> QED BY <2>2, <3>2, <3>3, <1>4
  <2> QED BY <2>1, <2>2
<1>8. Reaches(v) <= Len(all)
  BY <1>1, <1>4, <1>5
<1> QED BY <1>3, <1>4, <1>6, <1>7, <1>8 DEF FollowsOK

LEMMA FollowsWrite ==
  ASSUME NEW w \in Archiving, NEW all, Len(all) \in Nat, FollowsOK(all, w), w.lines # <<>>,
         NEW v, v = [w EXCEPT !.lines = Tail(@), !.pos = @ + 1]
  PROVE  /\ FollowsOK(all, v) /\ Reaches(v) = Reaches(w)
         /\ w.pos + 1 \in 1 .. Len(all) /\ Head(w.lines) = all[w.pos + 1]
<1>1. /\ w.pos \in Nat /\ w.lines \in Seq(Nat) /\ Len(w.lines) \in Nat
      /\ DOMAIN w.lines = 1 .. Len(w.lines) /\ Reaches(w) = w.pos + Len(w.lines)
  BY ReachType DEF Reaches
<1>2. v.pos = w.pos + 1 /\ v.lines = Tail(w.lines) /\ v.last = w.last
  BY DEF Archiving
<1>3. Len(w.lines) # 0
  BY <1>1, EmptySeq
<1>4. /\ Reaches(w) <= Len(all) /\ \A k \in 1 .. Len(w.lines) : w.lines[k] = all[w.pos + k]
      /\ w.last = IF Reaches(w) = 0 THEN 0 ELSE all[Reaches(w)]
  BY <1>1 DEF FollowsOK
<1>5. /\ Tail(w.lines) \in Seq(Nat) /\ Len(Tail(w.lines)) = Len(w.lines) - 1
      /\ \A k \in 1 .. Len(Tail(w.lines)) : Tail(w.lines)[k] = w.lines[k + 1]
      /\ Head(w.lines) = w.lines[1]
  BY <1>1, HeadTailProperties
<1>6. DOMAIN v.lines = 1 .. Len(w.lines) - 1
  BY <1>2, <1>5, LenProperties
<1>7. Reaches(v) = Reaches(w)
  BY <1>1, <1>2, <1>3, <1>5 DEF Reaches
<1>8. ASSUME NEW k \in 1 .. Len(w.lines) - 1
      PROVE  v.lines[k] = all[v.pos + k]
  <2>1. k + 1 \in 1 .. Len(w.lines) /\ w.pos + (k + 1) = w.pos + 1 + k
    <3>1. PICK n, p \in Nat : n = Len(w.lines) /\ p = w.pos
      BY <1>1
    <3>2. k + 1 \in 1 .. n /\ p + (k + 1) = p + 1 + k
      BY <3>1
    <3> QED BY <3>1, <3>2
  <2>2. w.lines[k + 1] = all[w.pos + (k + 1)]
    BY <1>4, <2>1
  <2>3. v.lines[k] = w.lines[k + 1]
    BY <1>2, <1>5
  <2> QED BY <1>2, <2>1, <2>2, <2>3
<1>9. w.pos + 1 \in 1 .. Len(all) /\ 1 \in 1 .. Len(w.lines)
  BY <1>1, <1>3, <1>4
<1>10. Head(w.lines) = all[w.pos + 1]
  BY <1>4, <1>5, <1>9
<1> QED BY <1>2, <1>4, <1>6, <1>7, <1>8, <1>9, <1>10 DEF FollowsOK

LEMMA PlaceWrite ==
  ASSUME NEW file \in Seq(Nat), NEW all, Len(all) \in Nat, InPlace(file, all),
         NEW p \in 1 .. Len(all), all[p] \in Nat
  PROVE  LET t == WrittenAt(file, p, all[p])
         IN  /\ InPlace(t, all) /\ p \in DOMAIN t /\ t[p] = all[p]
             /\ \A k \in DOMAIN file : file[k] = all[k] => k \in DOMAIN t /\ t[k] = all[k]
<1> DEFINE t == WrittenAt(file, p, all[p])
<1>1. p \in Nat \ {0}
  OBVIOUS
<1>2. /\ t \in Seq(Nat) /\ t[p] = all[p]
      /\ Len(t) = IF p > Len(file) THEN p ELSE Len(file)
      /\ p \in DOMAIN t /\ DOMAIN file \subseteq DOMAIN t
      /\ \A k \in DOMAIN t \ {p} : t[k] = IF k \in DOMAIN file THEN file[k] ELSE Hole
  BY <1>1, WrittenAtIs
<1> HIDE DEF t
<1>3. InPlace(t, all)
  BY <1>2 DEF InPlace
<1> QED BY <1>2, <1>3 DEF t

LEMMA FollowsAdded ==
  ASSUME NEW all \in Seq(Nat), NEW new \in Nat
  PROVE  /\ \A w \in Archiving : FollowsOK(all, w) => FollowsOK(Append(all, new), w)
         /\ \A file \in Seq(Nat) : InPlace(file, all) => InPlace(file, Append(all, new))
         /\ \A k \in 1 .. Len(all) : Append(all, new)[k] = all[k]
<1> DEFINE more == Append(all, new)
<1>1. /\ Len(all) \in Nat /\ Len(more) = Len(all) + 1
      /\ \A k \in 1 .. Len(all) : more[k] = all[k]
  BY AppendProperties, LenProperties
<1> HIDE DEF more
<1>2. ASSUME NEW w \in Archiving, FollowsOK(all, w)
      PROVE  FollowsOK(more, w)
  <2>1. /\ w.pos \in Nat /\ Len(w.lines) \in Nat /\ Reaches(w) \in Nat
        /\ DOMAIN w.lines = 1 .. Len(w.lines) /\ Reaches(w) = w.pos + Len(w.lines)
    BY ReachType DEF Reaches
  <2>2. /\ Reaches(w) <= Len(all) /\ \A k \in 1 .. Len(w.lines) : w.lines[k] = all[w.pos + k]
        /\ w.last = IF Reaches(w) = 0 THEN 0 ELSE all[Reaches(w)]
    BY <1>2, <2>1 DEF FollowsOK
  <2>3. \A k \in 1 .. Len(w.lines) : w.pos + k \in 1 .. Len(all)
    BY <1>1, <2>1, <2>2
  <2>4. Reaches(w) # 0 => Reaches(w) \in 1 .. Len(all)
    BY <1>1, <2>1, <2>2
  <2>5. \A k \in 1 .. Len(w.lines) : w.lines[k] = more[w.pos + k]
    BY <1>1, <2>2, <2>3
  <2>6. w.last = IF Reaches(w) = 0 THEN 0 ELSE more[Reaches(w)]
    BY <1>1, <2>2, <2>4
  <2>7. Reaches(w) <= Len(more)
    BY <1>1, <2>1, <2>2
  <2> QED BY <2>1, <2>5, <2>6, <2>7 DEF FollowsOK
<1>3. ASSUME NEW file \in Seq(Nat), InPlace(file, all)
      PROVE  InPlace(file, more)
  <2>1. DOMAIN file = 1 .. Len(file) /\ Len(file) \in Nat
    BY LenProperties
  <2>2. DOMAIN file \subseteq 1 .. Len(all)
    BY <1>1, <1>3, <2>1 DEF InPlace
  <2> QED BY <1>1, <1>3, <2>1, <2>2 DEF InPlace
<1> QED BY <1>1, <1>2, <1>3 DEF more
---------------------------------------------------------------------------
(* The minutes of a day, and a day's last.                                 *)
LEMMA Minutes ==
  /\ 0 \in Day /\ \A d \in Day : d \in Nat /\ LastMinute(d) \in Nat /\ DayOf(LastMinute(d)) = d
  /\ \A t \in Time : t \in Nat /\ DayOf(t) \in Day
  /\ \A t \in Time, d \in Day : DayOf(t) > d => t >= LastMinute(d)
<1>1. DayLength \in Nat \ {0} /\ Until \in Nat
  BY DayAssumption
<1>2. \A t \in Nat : t \div DayLength \in Nat
  BY <1>1
<1>3. \A t, u \in Nat : t <= u => t \div DayLength <= u \div DayLength
  BY <1>1
<1>4. \A t, d \in Nat : t \div DayLength > d => t >= d * DayLength + DayLength - 1
  BY <1>1
<1>5. \A d \in Nat : (d * DayLength + DayLength - 1) \div DayLength = d
  BY <1>1
<1>6. \A d \in Nat : d * DayLength + DayLength - 1 \in Nat
  <2>1. \A d \in Nat : d * DayLength \in Nat
    BY <1>1
  <2> QED BY <1>1, <2>1
<1>7. \A t \in Time : t \in Nat /\ t <= Until
  BY <1>1 DEF Time
<1>8. DayOf(Until) \in Nat /\ \A t \in Time : DayOf(t) \in Nat /\ DayOf(t) <= DayOf(Until)
  BY <1>1, <1>2, <1>3, <1>7 DEF DayOf
<1> QED
  BY <1>4, <1>5, <1>6, <1>7, <1>8 DEF Day, DayOf, LastMinute

(* A run that is not idle, and one that has a phase.                       *)
LEMMA RunIs ==
  ASSUME TypeOK, NEW r \in Run
  PROVE  /\ run[r] # Idle => run[r] \in Archiving
         /\ run[r].phase \in {"fetching", "fetched"} <=> run[r] # Idle
         /\ run[r] = Idle \/ run[r] \in Archiving
BY DEF TypeOK, Idle, Archiving

LEMMA QueryIs ==
  ASSUME TypeOK, NEW q \in Query
  PROVE  /\ query[q] # Idle => query[q] \in Asked
         /\ query[q].phase \in {"found", "answered"} <=> query[q] # Idle
BY DEF TypeOK, Idle, Asked

(* What is kept of a day's entries.                                        *)
LEMMA OfDayIs ==
  ASSUME logs \in Seq(Log)
  PROVE  /\ \A d : OfDay(d) \in SUBSET DOMAIN logs /\ OfDay(d) \subseteq Nat \ {0}
         /\ \A d : Due(d) \subseteq OfDay(d) /\ Needed(d) \subseteq OfDay(d)
         /\ \A asked : Matching(asked) \in SUBSET DOMAIN logs
         /\ \A some \in SUBSET DOMAIN logs : some \subseteq Nat \ {0}
BY LenProperties DEF OfDay, Id, Due, Needed, Matching

(* A page is part of the matching entries, and lies within their number.   *)
LEMMA SkipIs ==
  ASSUME NEW asked \in Questions
  PROVE  Skip(asked) \in Int
<1>1. \A a, b \in Int : a * b \in Int
  OBVIOUS
<1>2. asked.page - 1 \in Int /\ asked.limit \in Int
  BY QuestionsAssumption
<1> QED BY <1>1, <1>2 DEF Skip

(* A page lies within what matches.                                        *)
LEMMA PageIs ==
  ASSUME logs \in Seq(Log), NEW asked \in Questions, Skip(asked) >= 0
  PROVE  /\ Page(asked) \in Seq(Nat \ {0})
         /\ Page(asked) # <<>> =>
              Skip(asked) + Len(Page(asked)) <= Cardinality(Matching(asked))
<1> DEFINE some == Matching(asked)
           n == Cardinality(some)
           sorted == Reverse(Sorted(some))
           skip == Skip(asked)
           from == SubSeq(sorted, skip + 1, Len(sorted))
           page == IF asked.limit = 0 THEN from ELSE First(from, asked.limit)
<1>1. asked.limit \in Nat
  BY QuestionsAssumption
<1>2. skip \in Nat
  BY SkipIs
<1>3. some \in SUBSET DOMAIN logs /\ some \subseteq Nat \ {0}
  BY OfDayIs
<1>4. Sorted(some) \in Seq(some) /\ Len(Sorted(some)) = n
  <2> HIDE DEF some
  <2> QED BY <1>3, SortedArranged, ArrangedIs
<1>5. sorted \in Seq(Nat \ {0}) /\ Len(sorted) = n
  <2> HIDE DEF some
  <2>1. Sorted(some) \in Seq(Nat \ {0})
    BY <1>3, <1>4, SeqMonotonic
  <2>2. \A s \in Seq(Nat \ {0}) : Reverse(s) \in Seq(Nat \ {0}) /\ Len(Reverse(s)) = Len(s)
    BY DEF Reverse
  <2> QED BY <1>4, <2>1, <2>2
<1>6. n \in Nat
  <2> HIDE DEF some
  <2> QED BY <1>3, SomeFinite
<1> HIDE DEF sorted, skip, n
<1>7. from \in Seq(Nat \ {0}) /\ Len(from) = IF skip + 1 <= n THEN n - skip ELSE 0
  BY <1>2, <1>5, <1>6, SubSeqProperties
<1> HIDE DEF from
<1>8. page \in Seq(Nat \ {0}) /\ Len(page) <= Len(from)
  <2>1. asked.limit \in Nat /\ Len(from) \in Nat
    BY <1>1, <1>7, LenProperties
  <2>2. /\ First(from, asked.limit) \in Seq(Nat \ {0})
        /\ Len(First(from, asked.limit)) = IF asked.limit < Len(from) THEN asked.limit ELSE Len(from)
    BY <2>1, <1>7, FirstIs
  <2> QED BY <2>1, <2>2, <1>7
<1>9. ASSUME page # <<>> PROVE skip + Len(page) <= n
  <2>1. Len(page) # 0 /\ Len(page) \in Nat
    BY <1>8, <1>9, EmptySeq, LenProperties
  <2> HIDE DEF page
  <2> QED BY <2>1, <1>2, <1>6, <1>7, <1>8
<1>10. Page(asked) = page
  BY DEF Page, page, from, sorted, skip, some
<1> QED BY <1>8, <1>9, <1>10 DEF skip, n
---------------------------------------------------------------------------
(* Types.                                                                  *)
LEMMA TypeInit == Init => TypeOK
BY EmptySeq, Minutes, DayAssumption DEF Init, TypeOK, Time, Idle

LEMMA BatchType ==
  ASSUME TypeOK, NEW r \in Run, run[r] # Idle
  PROVE  /\ First(Rest(r), Batch) \in Seq(OfDay(run[r].day))
         /\ First(Rest(r), Batch) \in Seq(Nat \ {0})
         /\ First(Rest(r), Batch) # <<>> =>
              Last(First(Rest(r), Batch)) \in OfDay(run[r].day)
<1> DEFINE batch == First(Rest(r), Batch)
<1>0. PICK own, last, rest : /\ own = OfDay(run[r].day) /\ last = run[r].last
                             /\ rest = Onward(logs, own, last)
  OBVIOUS
<1>1. logs \in Seq(Log)
  BY DEF TypeOK
<1>2. own \in SUBSET DOMAIN logs /\ own \subseteq Nat \ {0}
  BY <1>0, <1>1, OfDayIs
<1>3. batch = First(Arranged(logs, rest), Batch)
  BY <1>0, SortedArranged DEF Rest, Onward
<1> HIDE DEF batch
<1>4. batch \in Seq(own)
  <2>1. rest = Onward(logs, own, last)
    BY <1>0
  <2> QED BY <1>1, <1>2, <1>3, <2>1, BatchIs
<1>5. batch \in Seq(Nat \ {0})
  <2> QED BY <1>2, <1>4, SeqMonotonic
<1>6. ASSUME batch # <<>> PROVE batch[Len(batch)] \in own
  <2>1. Len(batch) # 0 /\ Len(batch) \in Nat
    BY <1>4, <1>6, EmptySeq, LenProperties
  <2>2. Len(batch) \in 1 .. Len(batch)
    BY <2>1
  <2> QED BY <1>4, <2>2, ElementOfSeq
<1> QED BY <1>0, <1>4, <1>5, <1>6 DEF Last, batch

LEMMA TypeStep == TypeOK /\ [Next]_vars => TypeOK'
<1> SUFFICES ASSUME TypeOK, [Next]_vars PROVE TypeOK'
  OBVIOUS
<1> USE DEF TypeOK
<1>1. CASE Create
  <2>1. PICK t \in Stamp : /\ logs' = Append(logs, [timestamp |-> t, receivedAt |-> now])
                           /\ past' = IF OutOfOrder(t) /\ Runs(DayOf(t)) # {}
                                        THEN [past EXCEPT ![DayOf(t)] = @ \cup {"disturbed"}] ELSE past
    BY <1>1 DEF Create
  <2>2. [timestamp |-> t, receivedAt |-> now] \in Log
    BY MaxLogsAssumption DEF Log, Time
  <2>3. logs' \in Seq(Log)
    BY <2>1, <2>2, AppendProperties
  <2>4. past' \in [Day -> SUBSET {"shared", "disturbed", "late", "broken"}]
    BY <2>1
  <2> QED BY <1>1, <2>3, <2>4 DEF Create
<1>2. ASSUME NEW r \in Run, NEW d \in Day, Start(r, d)
      PROVE  /\ run' \in [Run -> {Idle} \cup Archiving]
             /\ past' \in [Day -> SUBSET {"shared", "disturbed", "late", "broken"}]
  <2>1. [phase |-> "fetching", day |-> d, opened |-> FALSE,
         last |-> 0, lines |-> <<>>, pos |-> 0] \in Archiving
    BY EmptySeq DEF Archiving
  <2>2. run' \in [Run -> {Idle} \cup Archiving]
    BY <1>2, <2>1 DEF Start
  <2>3. past' \in [Day -> SUBSET {"shared", "disturbed", "late", "broken"}]
    BY <1>2 DEF Start
  <2> QED BY <2>2, <2>3
<1>3. ASSUME NEW r \in Run, Fire(r) PROVE TypeOK'
  <2>1. now + 1 \in Time /\ DayOf(now + 1) \in Day /\ Start(r, DayOf(now + 1))
    BY <1>3, Minutes DEF Fire
  <2> QED BY <1>2, <1>3, <2>1 DEF Fire
<1>4. ASSUME NEW r \in Run, StartupFires(r) PROVE TypeOK'
  <2>1. 0 \in Day /\ Start(r, 0)
    BY <1>4, Minutes DEF StartupFires
  <2> QED BY <1>2, <1>4, <2>1 DEF StartupFires
<1>5. ASSUME NEW r \in Run, Open(r) PROVE TypeOK'
  <2>1. run[r] \in Archiving
    BY <1>5, RunIs DEF Open
  <2>2. [run[r] EXCEPT !.opened = TRUE] \in Archiving
    BY <2>1 DEF Archiving
  <2>3. files' \in [Day -> Seq(Nat)]
    BY <1>5, EmptySeq DEF Open
  <2> QED BY <1>5, <2>2, <2>3 DEF Open
<1>6. ASSUME NEW r \in Run, Fetch(r) PROVE TypeOK'
  <2>1. run[r] \in Archiving /\ run[r] # Idle
    BY <1>6, RunIs DEF Fetch
  <2> DEFINE batch == First(Rest(r), Batch)
  <2>2. batch \in Seq(Nat \ {0}) /\ (batch # <<>> => Last(batch) \in OfDay(run[r].day))
    BY <2>1, BatchType
  <2>3. run[r].lines \in Seq(Nat \ {0}) /\ OfDay(run[r].day) \subseteq Nat
    BY <2>1, OfDayIs DEF Archiving
  <2>4. run[r].lines \o batch \in Seq(Nat \ {0})
    BY <2>2, <2>3, ConcatProperties
  <2>5. run' = IF batch = <<>>
                 THEN [run EXCEPT ![r].phase = "fetched"]
                 ELSE [run EXCEPT ![r].lines = @ \o batch, ![r].last = Last(batch)]
    BY <1>6 DEF Fetch
  <2> HIDE DEF batch
  <2>6. run' \in [Run -> {Idle} \cup Archiving]
    <3>1. [run[r] EXCEPT !.phase = "fetched"] \in Archiving
      BY <2>1 DEF Archiving
    <3>2. ASSUME batch # <<>>
          PROVE  [run[r] EXCEPT !.lines = @ \o batch, !.last = Last(batch)] \in Archiving
      <4>1. PICK lines \in Seq(Nat \ {0}), last \in Nat :
              lines = run[r].lines \o batch /\ last = Last(batch)
        BY <2>2, <2>3, <2>4, <3>2
      <4>2. [run[r] EXCEPT !.lines = lines, !.last = last] \in Archiving
        BY <2>1 DEF Archiving
      <4> QED BY <4>1, <4>2
    <3> QED BY <2>5, <3>1, <3>2
  <2> QED BY <1>6, <2>6 DEF Fetch
<1>7. ASSUME NEW r \in Run, Write(r) PROVE TypeOK'
  <2>1. run[r] \in Archiving /\ run[r].lines # <<>>
    BY <1>7, RunIs DEF Write
  <2>2. /\ run[r].lines \in Seq(Nat \ {0}) /\ run[r].pos \in Nat /\ run[r].day \in Day
    BY <2>1 DEF Archiving
  <2>3. Head(run[r].lines) \in Nat \ {0} /\ Tail(run[r].lines) \in Seq(Nat \ {0})
    BY <2>1, <2>2, HeadTailProperties
  <2>4. [run[r] EXCEPT !.lines = Tail(@), !.pos = @ + 1] \in Archiving
    <3>0. run[r].pos + 1 \in Nat
      BY <2>2
    <3>1. PICK lines \in Seq(Nat \ {0}), pos \in Nat :
            lines = Tail(run[r].lines) /\ pos = run[r].pos + 1
      BY <2>3, <3>0, Zenon
    <3>2. [run[r] EXCEPT !.lines = lines, !.pos = pos] \in Archiving
      BY <2>1 DEF Archiving
    <3>3. [run[r] EXCEPT !.lines = Tail(@), !.pos = @ + 1] = [run[r] EXCEPT !.lines = lines, !.pos = pos]
      BY <3>1, Zenon
    <3> QED BY <3>2, <3>3
  <2>5. WrittenAt(files[run[r].day], run[r].pos + 1, Head(run[r].lines)) \in Seq(Nat)
    <3>1. files[run[r].day] \in Seq(Nat) /\ run[r].pos + 1 \in Nat \ {0}
          /\ Head(run[r].lines) \in Nat
      BY <2>2, <2>3
    <3> QED BY <3>1, WrittenAtIs
  <2>6. files' \in [Day -> Seq(Nat)]
    BY <1>7, <2>5 DEF Write
  <2> QED BY <1>7, <2>4, <2>6 DEF Write
<1>8. ASSUME NEW r \in Run, End(r) PROVE TypeOK'
  BY <1>8 DEF End
<1>9. ASSUME NEW r \in Run, CursorFails(r) PROVE TypeOK'
  <2>1. run[r] \in Archiving
    BY <1>9, RunIs DEF CursorFails
  <2>2. [run[r] EXCEPT !.phase = "fetched"] \in Archiving
    BY <2>1 DEF Archiving
  <2> QED BY <1>9, <2>2 DEF CursorFails
<1>10. ASSUME NEW q \in Query, Find(q) PROVE TypeOK'
  <2>1. PICK asked \in Questions :
          /\ Skip(asked) >= 0
          /\ query' = [query EXCEPT ![q] = [phase |-> "found", asked |-> asked,
                                            data |-> Page(asked), totalDocuments |-> 0]]
    BY <1>10 DEF Find
  <2>2. [phase |-> "found", asked |-> asked, data |-> Page(asked), totalDocuments |-> 0] \in Asked
    BY <2>1, PageIs DEF Asked
  <2> QED BY <1>10, <2>1, <2>2 DEF Find, store
<1>11. ASSUME NEW q \in Query, CountDocuments(q) PROVE TypeOK'
  <2>1. query[q] \in Asked
    BY <1>11, QueryIs DEF CountDocuments
  <2>2. Cardinality(Matching(query[q].asked)) \in Nat
    BY SomeFinite, OfDayIs
  <2>3. [query[q] EXCEPT !.phase = "answered",
                         !.totalDocuments = Cardinality(Matching(query[q].asked))] \in Asked
    BY <2>1, <2>2 DEF Asked
  <2> QED BY <1>11, <2>3 DEF CountDocuments, store
<1>12. ASSUME NEW q \in Query, Answer(q) PROVE TypeOK'
  BY <1>12 DEF Answer, store
<1>13. CASE UNCHANGED vars
  BY <1>13 DEF vars, store
<1> QED
  BY <1>1, <1>3, <1>4, <1>5, <1>6, <1>7, <1>8, <1>9, <1>10, <1>11, <1>12, <1>13
  DEF Next, Archive

(* Every variable keeps to its type.                                       *)
THEOREM TypeCorrect == Spec => []TypeOK
<1> QED BY TypeInit, TypeStep, PTL DEF Spec
---------------------------------------------------------------------------
(* Whose lines.                                                            *)
LEMMA Members ==
  ASSUME NEW s \in Seq(Nat)
  PROVE  /\ \A t \in Seq(Nat) : ToSet(s \o t) = ToSet(s) \cup ToSet(t)
         /\ s # <<>> => ToSet(Tail(s)) \subseteq ToSet(s) /\ Head(s) \in ToSet(s)
         /\ \A p \in Nat \ {0}, i \in Nat :
              ToSet(WrittenAt(s, p, i)) \subseteq ToSet(s) \cup {i, Hole}
         /\ ToSet(<<>>) = {}
<1>1. DOMAIN s = 1 .. Len(s) /\ Len(s) \in Nat
  BY LenProperties
<1>2. ASSUME NEW t \in Seq(Nat) PROVE ToSet(s \o t) = ToSet(s) \cup ToSet(t)
  <2> DEFINE u == s \o t
  <2>1. DOMAIN t = 1 .. Len(t) /\ Len(t) \in Nat
    BY LenProperties
  <2>2. /\ u \in Seq(Nat) /\ Len(u) = Len(s) + Len(t)
        /\ \A k \in 1 .. Len(s) + Len(t) : u[k] = IF k <= Len(s) THEN s[k] ELSE t[k - Len(s)]
    BY ConcatProperties
  <2>3. DOMAIN u = 1 .. Len(s) + Len(t)
    BY <2>2, LenProperties
  <2> HIDE DEF u
  <2>4. ASSUME NEW k \in 1 .. Len(u) PROVE u[k] \in ToSet(s) \cup ToSet(t)
    <3>1. CASE k <= Len(s)
      <4>1. k \in 1 .. Len(s) /\ u[k] = s[k]
        BY <3>1, <2>2, <1>1, <2>1
      <4> QED BY <4>1, <1>1 DEF ToSet
    <3>2. CASE ~(k <= Len(s))
      <4>1. k - Len(s) \in 1 .. Len(t) /\ u[k] = t[k - Len(s)]
        BY <3>2, <2>2, <1>1, <2>1
      <4> QED BY <4>1, <2>1 DEF ToSet
    <3> QED BY <3>1, <3>2
  <2>5. ASSUME NEW k \in 1 .. Len(s) PROVE s[k] \in ToSet(u)
    <3>1. k \in DOMAIN u /\ u[k] = s[k]
      BY <1>1, <2>1, <2>2, <2>3
    <3> QED BY <3>1 DEF ToSet
  <2>6. ASSUME NEW k \in 1 .. Len(t) PROVE t[k] \in ToSet(u)
    <3>0. PICK m \in 1 .. Len(s) + Len(t) : m = Len(s) + k
      BY <1>1, <2>1
    <3>1. m \in DOMAIN u /\ ~(m <= Len(s)) /\ m - Len(s) = k
      BY <3>0, <1>1, <2>1, <2>3
    <3>2. u[m] = t[k]
      BY <3>1, <2>2
    <3> QED BY <3>1, <3>2 DEF ToSet
  <2>7. ToSet(u) \subseteq ToSet(s) \cup ToSet(t)
    BY <2>2, <2>3, <2>4 DEF ToSet
  <2>8. ToSet(s) \subseteq ToSet(u) /\ ToSet(t) \subseteq ToSet(u)
    BY <1>1, <2>1, <2>5, <2>6 DEF ToSet
  <2> QED BY <2>7, <2>8 DEF u
<1>3. ASSUME s # <<>> PROVE ToSet(Tail(s)) \subseteq ToSet(s) /\ Head(s) \in ToSet(s)
  <2>1. /\ Head(s) = s[1] /\ Tail(s) \in Seq(Nat) /\ Len(Tail(s)) = Len(s) - 1
        /\ \A k \in 1 .. Len(Tail(s)) : Tail(s)[k] = s[k + 1]
    BY <1>3, HeadTailProperties
  <2>2. DOMAIN Tail(s) = 1 .. Len(Tail(s)) /\ Len(s) # 0
    BY <2>1, <1>3, LenProperties, EmptySeq
  <2>3. \A k \in 1 .. Len(Tail(s)) : k + 1 \in DOMAIN s
    BY <2>1, <1>1
  <2>4. 1 \in DOMAIN s
    BY <2>2, <1>1
  <2> QED BY <2>1, <2>2, <2>3, <2>4 DEF ToSet
<1>4. ASSUME NEW p \in Nat \ {0}, NEW i \in Nat
      PROVE  ToSet(WrittenAt(s, p, i)) \subseteq ToSet(s) \cup {i, Hole}
  <2> DEFINE t == WrittenAt(s, p, i)
  <2>1. t[p] = i /\ \A k \in DOMAIN t \ {p} : t[k] = IF k \in DOMAIN s THEN s[k] ELSE Hole
    BY WrittenAtIs
  <2> HIDE DEF t
  <2>2. \A k \in DOMAIN t : t[k] \in ToSet(s) \cup {i, Hole}
    BY <2>1 DEF ToSet
  <2>3. ToSet(t) \subseteq ToSet(s) \cup {i, Hole}
    BY <2>2 DEF ToSet
  <2> QED BY <2>3 DEF t
<1>5. ToSet(<<>>) = {}
  BY DEF ToSet
<1> QED BY <1>2, <1>3, <1>4, <1>5

(* An entry that is added is its day's.                                    *)
LEMMA Added ==
  ASSUME logs \in Seq(Log), NEW e \in Log, logs' = Append(logs, e)
  PROVE  /\ logs' \in Seq(Log) /\ DOMAIN logs' = DOMAIN logs \cup {Len(logs) + 1}
         /\ Len(logs) + 1 \notin DOMAIN logs /\ logs'[Len(logs) + 1] = e
         /\ \A i \in DOMAIN logs : logs'[i] = logs[i]
         /\ \A d : OfDay(d)' = IF DayOf(e.timestamp) = d THEN OfDay(d) \cup {Len(logs) + 1}
                               ELSE OfDay(d)
<1>1. DOMAIN logs = 1 .. Len(logs) /\ Len(logs) \in Nat
  BY LenProperties
<1>2. /\ logs' \in Seq(Log) /\ DOMAIN logs' = 1 .. Len(logs) + 1
      /\ \A i \in DOMAIN logs : logs'[i] = logs[i]
      /\ logs'[Len(logs) + 1] = e
  BY AppendProperties, LenProperties
<1>3. DOMAIN logs' = DOMAIN logs \cup {Len(logs) + 1} /\ Len(logs) + 1 \notin DOMAIN logs
  BY <1>1, <1>2
<1>4. \A d : OfDay(d)' = IF DayOf(e.timestamp) = d THEN OfDay(d) \cup {Len(logs) + 1}
                         ELSE OfDay(d)
  <2>1. \A d : OfDay(d)' = {i \in DOMAIN logs' : DayOf(logs'[i].timestamp) = d}
    BY DEF OfDay, Id, DayOf
  <2>2. \A d : OfDay(d) = {i \in DOMAIN logs : DayOf(logs[i].timestamp) = d}
    BY DEF OfDay, Id
  <2> QED BY <1>2, <1>3, <2>1, <2>2
<1> QED BY <1>2, <1>3, <1>4

LEMMA Creates ==
  ASSUME TypeOK, Create
  PROVE  \E t \in Stamp :
           LET e == [timestamp |-> t, receivedAt |-> now]
           IN  /\ t \in Time /\ e \in Log /\ logs' = Append(logs, e)
               /\ past' = IF OutOfOrder(t) /\ Runs(DayOf(t)) # {}
                            THEN [past EXCEPT ![DayOf(t)] = @ \cup {"disturbed"}] ELSE past
               /\ now' = now /\ files' = files /\ run' = run /\ query' = query
<1>1. \A t \in Stamp : t \in Time /\ [timestamp |-> t, receivedAt |-> now] \in Log
  BY MaxLogsAssumption DEF TypeOK, Log, Time
<1> QED BY <1>1 DEF Create

OwnRun(w) == /\ ToSet(w.lines) \subseteq OfDay(w.day)
             /\ w.last = 0 \/ w.last \in OfDay(w.day)
             /\ w.opened \/ w.pos = 0

LEMMA OwnStep == TypeOK /\ OwnLinesOnly /\ [Next]_vars => OwnLinesOnly'
<1> SUFFICES ASSUME TypeOK, OwnLinesOnly, [Next]_vars PROVE OwnLinesOnly'
  OBVIOUS
<1>1. logs \in Seq(Log) /\ files \in [Day -> Seq(Nat)] /\ run \in [Run -> {Idle} \cup Archiving]
  BY DEF TypeOK
<1>2. /\ \A d \in Day : ToSet(files[d]) \subseteq OfDay(d) \cup {Hole}
      /\ \A r \in Run : run[r] # Idle => OwnRun(run[r])
  BY DEF OwnLinesOnly, OwnRun
<1>3. ASSUME logs' = logs,
             \A d \in Day : ToSet(files'[d]) \subseteq OfDay(d) \cup {Hole},
             \A r \in Run : run'[r] # Idle => OwnRun(run'[r])
      PROVE  OwnLinesOnly'
  <2>1. \A d : OfDay(d)' = OfDay(d)
    BY <1>3 DEF OfDay, Id
  <2> QED BY <1>3, <2>1 DEF OwnLinesOnly, OwnRun
<1>4. CASE Create
  <2>1. PICK e \in Log : logs' = Append(logs, e) /\ files' = files /\ run' = run
    BY <1>4, Creates
  <2>2. \A d : OfDay(d) \subseteq OfDay(d)'
    BY <2>1, <1>1, Added
  <2> QED BY <2>1, <2>2, <1>2 DEF OwnLinesOnly, OwnRun
<1>5. ASSUME NEW r \in Run, NEW d \in Day, Start(r, d), logs' = logs, files' = files
      PROVE  OwnLinesOnly'
  <2>1. run' = [run EXCEPT ![r] = [phase |-> "fetching", day |-> d, opened |-> FALSE,
                                   last |-> 0, lines |-> <<>>, pos |-> 0]]
    BY <1>5 DEF Start
  <2>2. OwnRun(run'[r])
    BY <2>1, <1>1 DEF OwnRun, ToSet
  <2> QED BY <1>1, <1>2, <1>3, <1>5, <2>1, <2>2
<1>6. ASSUME NEW r \in Run, Fire(r) PROVE OwnLinesOnly'
  BY <1>5, <1>6, Minutes DEF Fire
<1>7. ASSUME NEW r \in Run, StartupFires(r) PROVE OwnLinesOnly'
  BY <1>5, <1>7, Minutes DEF StartupFires
<1>8. ASSUME NEW r \in Run, Open(r) PROVE OwnLinesOnly'
  <2>1. /\ run[r] \in Archiving /\ run[r] # Idle /\ OwnRun(run[r])
        /\ run' = [run EXCEPT ![r].opened = TRUE]
        /\ files' = [files EXCEPT ![run[r].day] = <<>>] /\ logs' = logs
    BY <1>2, <1>8, RunIs DEF Open
  <2>2. OwnRun(run'[r])
    BY <2>1, <1>1 DEF OwnRun, Archiving
  <2>3. ToSet(<<>>) = {}
    BY DEF ToSet
  <2> QED BY <1>1, <1>2, <1>3, <2>1, <2>2, <2>3
<1>9. ASSUME NEW r \in Run, Fetch(r) PROVE OwnLinesOnly'
  <2>0. /\ run[r] \in Archiving /\ run[r] # Idle /\ OwnRun(run[r])
        /\ files' = files /\ logs' = logs
    BY <1>2, <1>9, RunIs DEF Fetch
  <2>1. PICK batch : batch = First(Rest(r), Batch)
    OBVIOUS
  <2>2. /\ batch \in Seq(OfDay(run[r].day)) /\ batch \in Seq(Nat \ {0})
        /\ batch # <<>> => Last(batch) \in OfDay(run[r].day)
    BY <2>0, <2>1, BatchType
  <2>3. run' = IF batch = <<>>
                 THEN [run EXCEPT ![r].phase = "fetched"]
                 ELSE [run EXCEPT ![r].lines = @ \o batch, ![r].last = Last(batch)]
    BY <1>9, <2>1 DEF Fetch
  <2>4. ToSet(run[r].lines \o batch) \subseteq OfDay(run[r].day)
    <3>1. run[r].lines \in Seq(Nat) /\ batch \in Seq(Nat)
      BY <2>0, <2>2, SeqMonotonic DEF Archiving
    <3>2. ToSet(run[r].lines \o batch) = ToSet(run[r].lines) \cup ToSet(batch)
      BY <3>1, Members
    <3>3. ToSet(batch) \subseteq OfDay(run[r].day)
      BY <2>2, LenProperties, ElementOfSeq DEF ToSet
    <3> QED BY <3>2, <3>3, <2>0 DEF OwnRun
  <2>5. OwnRun(run'[r])
    <3>1. CASE batch = <<>>
      BY <3>1, <2>3, <2>0, <1>1 DEF OwnRun, Archiving
    <3>2. CASE batch # <<>>
      <4>1. PICK lines, last : lines = run[r].lines \o batch /\ last = Last(batch)
        OBVIOUS
      <4>2. run' = [run EXCEPT ![r].lines = lines, ![r].last = last]
        BY <3>2, <2>3, <4>1, Zenon
      <4>3. run'[r] = [run[r] EXCEPT !.lines = lines, !.last = last]
        BY <4>2, <1>1
      <4>4. ToSet(lines) \subseteq OfDay(run[r].day) /\ last \in OfDay(run[r].day)
        BY <2>2, <2>4, <3>2, <4>1
      <4> QED BY <4>3, <4>4, <2>0 DEF OwnRun, Archiving
    <3> QED BY <3>1, <3>2
  <2>6. \A o \in Run \ {r} : run'[o] = run[o]
    BY <2>3, <1>1
  <2> QED BY <1>2, <1>3, <2>0, <2>5, <2>6
<1>10. ASSUME NEW r \in Run, Write(r) PROVE OwnLinesOnly'
  <2>1. /\ run[r] \in Archiving /\ run[r] # Idle /\ OwnRun(run[r]) /\ run[r].lines # <<>>
        /\ run[r].opened /\ logs' = logs
        /\ files' = [files EXCEPT ![run[r].day] =
                       WrittenAt(@, run[r].pos + 1, Head(run[r].lines))]
        /\ run' = [run EXCEPT ![r].lines = Tail(@), ![r].pos = @ + 1]
    BY <1>2, <1>10, RunIs DEF Write
  <2>2. PICK d, lines, p, i : /\ d = run[r].day /\ lines = run[r].lines
                              /\ p = run[r].pos + 1 /\ i = Head(run[r].lines)
    OBVIOUS
  <2>3. /\ lines \in Seq(Nat) /\ lines \in Seq(Nat \ {0}) /\ d \in Day /\ p \in Nat \ {0}
    <3>1. lines \in Seq(Nat \ {0}) /\ d \in Day /\ run[r].pos \in Nat
      BY <2>1, <2>2 DEF Archiving
    <3> QED BY <3>1, <2>2, SeqMonotonic
  <2>4. ToSet(Tail(lines)) \subseteq OfDay(d) /\ i \in OfDay(d)
    <3>1. ToSet(Tail(lines)) \subseteq ToSet(lines) /\ i \in ToSet(lines)
      BY <2>1, <2>2, <2>3, Members
    <3> QED BY <3>1, <2>1, <2>2 DEF OwnRun
  <2>5. files[d] \in Seq(Nat) /\ i \in Nat
    BY <2>3, <2>4, <1>1, OfDayIs
  <2>6. ToSet(WrittenAt(files[d], p, i)) \subseteq ToSet(files[d]) \cup {i, Hole}
    BY <2>3, <2>5, Members
  <2>7. files' = [files EXCEPT ![d] = WrittenAt(files[d], p, i)]
    BY <2>1, <2>2, Zenon
  <2>8. \A c \in Day : ToSet(files'[c]) \subseteq OfDay(c) \cup {Hole}
    BY <2>4, <2>6, <2>7, <1>1, <1>2
  <2>9. OwnRun(run'[r]) /\ \A o \in Run \ {r} : run'[o] = run[o]
    <3>1. PICK rest, q : rest = Tail(lines) /\ q = run[r].pos + 1
      OBVIOUS
    <3>2. run' = [run EXCEPT ![r].lines = rest, ![r].pos = q]
      BY <2>1, <2>2, <3>1, Zenon
    <3>3. run'[r] = [run[r] EXCEPT !.lines = rest, !.pos = q] /\ \A o \in Run \ {r} : run'[o] = run[o]
      BY <3>2, <1>1
    <3>4. ToSet(rest) \subseteq OfDay(run[r].day)
      BY <2>2, <2>4, <3>1
    <3>5. /\ run'[r].lines = rest /\ run'[r].day = run[r].day
          /\ run'[r].last = run[r].last /\ run'[r].opened = run[r].opened
      <4>1. run'[r] = [run[r] EXCEPT !.lines = rest, !.pos = q]
        BY <3>3
      <4>2. run[r] \in Archiving
        BY <2>1
      <4> QED BY <4>1, <4>2 DEF Archiving
    <3>6. OwnRun(run'[r])
      BY <3>4, <3>5, <2>1 DEF OwnRun
    <3> QED BY <3>3, <3>6
  <2> QED BY <1>2, <1>3, <2>1, <2>8, <2>9
<1>11. ASSUME NEW r \in Run, End(r) PROVE OwnLinesOnly'
  BY <1>1, <1>2, <1>3, <1>11 DEF End
<1>12. ASSUME NEW r \in Run, CursorFails(r) PROVE OwnLinesOnly'
  <2>1. /\ run[r] \in Archiving /\ run[r] # Idle /\ OwnRun(run[r])
        /\ run' = [run EXCEPT ![r].phase = "fetched"] /\ files' = files /\ logs' = logs
    BY <1>2, <1>12, RunIs DEF CursorFails
  <2>2. OwnRun(run'[r])
    BY <2>1, <1>1 DEF OwnRun, Archiving
  <2> QED BY <1>1, <1>2, <1>3, <2>1, <2>2
<1>13. ASSUME NEW q \in Query, Find(q) \/ CountDocuments(q) \/ Answer(q) PROVE OwnLinesOnly'
  BY <1>2, <1>3, <1>13 DEF Find, CountDocuments, Answer, store
<1>14. CASE UNCHANGED vars
  BY <1>2, <1>3, <1>14 DEF vars, store
<1> QED
  BY <1>4, <1>6, <1>7, <1>8, <1>9, <1>10, <1>11, <1>12, <1>13, <1>14 DEF Next, Archive

(* A day's file has none but the day's entries.                            *)
LEMMA OwnIs == OwnLinesOnly => OwnDayOnly
BY DEF OwnLinesOnly, OwnDayOnly, OfDay

LEMMA OwnInit == Init => OwnLinesOnly
BY DEF Init, OwnLinesOnly, ToSet, Idle
---------------------------------------------------------------------------
(* Pages.                                                                  *)
LEMMA MatchingGrows ==
  ASSUME logs \in Seq(Log), NEW e \in Log, logs' = Append(logs, e), NEW asked
  PROVE  /\ Cardinality(Matching(asked)) \in Nat /\ Cardinality(Matching(asked))' \in Nat
         /\ Cardinality(Matching(asked)) <= Cardinality(Matching(asked))'
<1>1. /\ logs' \in Seq(Log) /\ DOMAIN logs \subseteq DOMAIN logs'
      /\ \A i \in DOMAIN logs : logs'[i] = logs[i]
  BY Added
<1>2. Matching(asked) \subseteq Matching(asked)' /\ Matching(asked)' \subseteq DOMAIN logs'
  BY <1>1 DEF Matching, Id
<1>3. IsFiniteSet(Matching(asked)')
  BY <1>1, <1>2, SomeFinite
<1> QED BY <1>2, <1>3, FS_Subset, FS_CardinalityType

Within(q, n) == Skip(query[q].asked) + Len(query[q].data) <= n

LEMMA WithinMore ==
  ASSUME TypeOK, NEW q \in Query, query[q] # Idle, NEW n \in Nat, NEW m \in Nat, n <= m,
         Within(q, n)
  PROVE  Within(q, m)
<1>1. query[q] \in Asked
  BY QueryIs
<1>2. query[q].asked \in Questions /\ query[q].data \in Seq(Nat \ {0})
  BY <1>1 DEF Asked
<1>3. PICK a \in Int : a = Skip(query[q].asked)
  BY <1>2, SkipIs
<1>4. Len(query[q].data) \in Nat
  BY <1>2, LenProperties
<1> QED BY <1>3, <1>4 DEF Within

PagesKept == PageIsThere /\ PageIsCounted

LEMMA PagesStep == TypeOK /\ PagesKept /\ [Next]_vars => PagesKept'
<1> SUFFICES ASSUME TypeOK, PagesKept, [Next]_vars PROVE PagesKept'
  OBVIOUS
<1>1. \A q \in Query :
        /\ query[q].phase = "found" /\ query[q].data # <<>> =>
             Within(q, Cardinality(Matching(query[q].asked)))
        /\ query[q].phase = "answered" /\ query[q].data # <<>> =>
             Within(q, query[q].totalDocuments)
  BY DEF PagesKept, PageIsThere, PageIsCounted, Within
<1>2. logs \in Seq(Log) /\ query \in [Query -> {Idle} \cup Asked]
  BY DEF TypeOK
<1>3. ASSUME NEW q \in Query, query'[q] = query[q], logs' = logs
      PROVE  /\ query'[q].phase = "found" /\ query'[q].data # <<>> =>
                  Within(q, Cardinality(Matching(query[q].asked)))'
             /\ query'[q].phase = "answered" /\ query'[q].data # <<>> =>
                  Within(q, query[q].totalDocuments)'
  <2>1. Matching(query[q].asked)' = Matching(query[q].asked)
    BY <1>3 DEF Matching, Id
  <2> QED BY <1>1, <1>3, <2>1 DEF Within
<1>4. ASSUME \A q \in Query :
               /\ query'[q].phase = "found" /\ query'[q].data # <<>> =>
                    Within(q, Cardinality(Matching(query[q].asked)))'
               /\ query'[q].phase = "answered" /\ query'[q].data # <<>> =>
                    Within(q, query[q].totalDocuments)'
      PROVE  PagesKept'
  BY <1>4 DEF PagesKept, PageIsThere, PageIsCounted, Within
<1>5. CASE Create
  <2>1. PICK e \in Log : logs' = Append(logs, e) /\ query' = query
    BY <1>5, Creates
  <2>2. ASSUME NEW q \in Query, query[q].phase = "found", query[q].data # <<>>
        PROVE  Within(q, Cardinality(Matching(query[q].asked)))'
    <3>1. PICK asked, n, m : /\ asked = query[q].asked /\ n = Cardinality(Matching(asked))
                             /\ m = Cardinality(Matching(asked))'
      OBVIOUS
    <3>2. n \in Nat /\ m \in Nat /\ n <= m
      BY <1>2, <2>1, <3>1, MatchingGrows
    <3>3. Within(q, n) /\ query[q] # Idle
      BY <1>1, <2>2, <3>1, QueryIs
    <3>4. Within(q, m)
      BY <3>2, <3>3, WithinMore
    <3>5. Cardinality(Matching(query[q].asked))' = m
      BY <2>1, <3>1 DEF Matching, Id
    <3> QED BY <2>1, <3>4, <3>5 DEF Within
  <2>3. ASSUME NEW q \in Query, query[q].phase = "answered", query[q].data # <<>>
        PROVE  Within(q, query[q].totalDocuments)'
    BY <1>1, <2>1, <2>3 DEF Within
  <2> QED BY <1>4, <2>1, <2>2, <2>3
<1>6. ASSUME NEW q \in Query, Find(q) PROVE PagesKept'
  <2>1. PICK asked \in Questions :
          /\ logs' = logs /\ Skip(asked) >= 0
          /\ query' = [query EXCEPT ![q] = [phase |-> "found", asked |-> asked,
                                            data |-> Page(asked), totalDocuments |-> 0]]
    BY <1>6 DEF Find
  <2>2. PICK page : page = Page(asked)
    OBVIOUS
  <2>3. query'[q] = [phase |-> "found", asked |-> asked, data |-> page, totalDocuments |-> 0]
    BY <1>2, <2>1, <2>2
  <2>4. page # <<>> =>
          Skip(asked) + Len(page) <= Cardinality(Matching(asked))
    BY <1>2, <2>1, <2>2, PageIs
  <2>5. Matching(asked)' = Matching(asked)
    BY <2>1 DEF Matching, Id
  <2>6. query'[q].data # <<>> => Within(q, Cardinality(Matching(query[q].asked)))'
    <3>1. query'[q].data = page /\ query'[q].asked = asked
      BY <2>3
    <3>2. Cardinality(Matching(query[q].asked))' = Cardinality(Matching(asked))
      BY <2>1, <3>1 DEF Matching, Id
    <3> QED BY <2>4, <3>1, <3>2 DEF Within
  <2>7. query'[q].phase # "answered"
    BY <2>3
  <2>8. \A p \in Query \ {q} : query'[p] = query[p]
    BY <1>2, <2>1
  <2>9. /\ query'[q].phase = "found" /\ query'[q].data # <<>> =>
             Within(q, Cardinality(Matching(query[q].asked)))'
        /\ query'[q].phase = "answered" /\ query'[q].data # <<>> =>
             Within(q, query[q].totalDocuments)'
    BY <2>6, <2>7
  <2> QED BY <1>3, <1>4, <2>1, <2>8, <2>9
<1>7. ASSUME NEW q \in Query, CountDocuments(q) PROVE PagesKept'
  <2>1. PICK n : n = Cardinality(Matching(query[q].asked))
    OBVIOUS
  <2>2. /\ query[q].phase = "found" /\ query[q] \in Asked /\ logs' = logs
        /\ query' = [query EXCEPT ![q].phase = "answered", ![q].totalDocuments = n]
    BY <1>7, <2>1, QueryIs DEF CountDocuments
  <2>3. query'[q] = [query[q] EXCEPT !.phase = "answered", !.totalDocuments = n]
    BY <1>2, <2>2
  <2>4. /\ query'[q].asked = query[q].asked /\ query'[q].data = query[q].data
        /\ query'[q].phase = "answered" /\ query'[q].totalDocuments = n
    BY <2>2, <2>3 DEF Asked
  <2>5. query'[q].data # <<>> => Within(q, query[q].totalDocuments)'
    BY <1>1, <2>1, <2>2, <2>4 DEF Within
  <2>6. \A p \in Query \ {q} : query'[p] = query[p]
    BY <1>2, <2>2
  <2>7. /\ query'[q].phase = "found" /\ query'[q].data # <<>> =>
             Within(q, Cardinality(Matching(query[q].asked)))'
        /\ query'[q].phase = "answered" /\ query'[q].data # <<>> =>
             Within(q, query[q].totalDocuments)'
    BY <2>4, <2>5
  <2> QED BY <1>3, <1>4, <2>2, <2>6, <2>7
<1>8. ASSUME NEW q \in Query, Answer(q) PROVE PagesKept'
  <2>1. /\ \A p \in Query \ {q} : query'[p] = query[p]
        /\ query'[q].phase = "idle" /\ logs' = logs
    BY <1>2, <1>8 DEF Answer, Idle
  <2>2. /\ query'[q].phase = "found" /\ query'[q].data # <<>> =>
             Within(q, Cardinality(Matching(query[q].asked)))'
        /\ query'[q].phase = "answered" /\ query'[q].data # <<>> =>
             Within(q, query[q].totalDocuments)'
    BY <2>1
  <2> QED BY <1>3, <1>4, <2>1, <2>2
<1>9. ASSUME query' = query, logs' = logs PROVE PagesKept'
  BY <1>3, <1>4, <1>9
<1>10. ASSUME NEW r \in Run, Fire(r) \/ StartupFires(r) \/ Archive(r) \/ CursorFails(r)
       PROVE  query' = query /\ logs' = logs
  BY <1>10 DEF Fire, StartupFires, Archive, Open, Fetch, Write, End, CursorFails
<1> QED
  BY <1>5, <1>6, <1>7, <1>8, <1>9, <1>10 DEF Next, vars, store

LEMMA PagesInit == Init => PagesKept
BY DEF Init, PagesKept, PageIsThere, PageIsCounted, Idle

---------------------------------------------------------------------------
(* What holds of the lines and of the pages already.                       *)
LEMMA KeptStep == TypeOK /\ OwnLinesOnly /\ PagesKept /\ [Next]_vars =>
                    (TypeOK /\ OwnLinesOnly /\ PagesKept)'
BY TypeStep, OwnStep, PagesStep

(* A day's file has the entries of that day only, however the runs write   *)
(* over one another.                                                       *)
THEOREM OwnEntries == Spec => []OwnDayOnly
<1>1. Init => TypeOK /\ OwnLinesOnly /\ PagesKept
  BY TypeInit, OwnInit, PagesInit
<1> QED BY <1>1, KeptStep, OwnIs, PTL DEF Spec

(* No page is shown that the count of the same answer does not reach to,   *)
(* whatever is stored between the two.                                     *)
THEOREM PagesAreCounted == Spec => []PageIsCounted
<1>1. Init => TypeOK /\ OwnLinesOnly /\ PagesKept
  BY TypeInit, OwnInit, PagesInit
<1>2. PagesKept => PageIsCounted
  BY DEF PagesKept
<1> QED BY <1>1, <1>2, KeptStep, PTL DEF Spec
---------------------------------------------------------------------------
(* One day: rs are its runs, tbl what runs hold, file its file, own its    *)
(* entries, due those its last run is to leave behind, need those known    *)
(* already, and ps what happened to its runs.                              *)

AllOpen(rs, tbl) == \A r \in rs : tbl[r].opened

LeadsOK(r, rs, tbl, file, all, need) ==
  /\ \A o \in rs : o = r \/ tbl[o].opened
  /\ \A k \in 1 .. tbl[r].pos : k \in DOMAIN file /\ file[k] = all[k]
  /\ tbl[r].phase = "fetched" => need \subseteq {all[k] : k \in 1 .. Reaches(tbl[r])}

AloneDay(tab, own, rs, tbl, file, need, ps) ==
  {"shared", "broken"} \cap ps = {} =>
    \A r \in rs : rs = {r} /\ AloneOK(tab, own, tbl[r], file, need)

TogetherOK(rs, tbl, file, all, need) ==
  /\ \A r \in rs : FollowsOK(all, tbl[r])
  /\ AllOpen(rs, tbl) => InPlace(file, all)
  /\ \/ \E r \in rs : LeadsOK(r, rs, tbl, file, all, need)
     \/ AllOpen(rs, tbl) /\ need \subseteq ToSet(file)

TogetherDay(tab, own, rs, tbl, file, need, ps) ==
  rs # {} /\ {"disturbed", "late", "broken"} \cap ps = {} =>
    TogetherOK(rs, tbl, file, Arranged(tab, own), need)

CompleteOK(tab, file, due, ps) ==
  /\ due \subseteq ToSet(file)
  /\ \A k, l \in DOMAIN file :
       k < l /\ {file[k], file[l]} \subseteq due => InFront(tab, file[k], file[l])
  /\ "shared" \in ps \/ (Hole \notin ToSet(file) /\ Ascends(tab, file))

EndedDay(over, tab, rs, file, due, ps) ==
  (over /\ rs = {} /\ {"broken", "late"} \cap ps = {} /\ ~ {"shared", "disturbed"} \subseteq ps) =>
    CompleteOK(tab, file, due, ps)

(* A run is begun.                                                         *)
LEMMA TogetherStart ==
  ASSUME NEW rs, NEW tbl, NEW file, NEW all \in Seq(Nat), NEW need, NEW r, r \notin rs,
         NEW new, \A o \in rs : new[o] = tbl[o], NEW need2,
         new[r].phase = "fetching", ~new[r].opened, new[r].last = 0,
         new[r].lines = <<>>, new[r].pos = 0,
         rs # {} => AllOpen(rs, tbl) /\ TogetherOK(rs, tbl, file, all, need)
  PROVE  TogetherOK(rs \cup {r}, new, file, all, need2)
<1>1. Len(<<>>) = 0 /\ DOMAIN <<>> = {} /\ Len(all) \in Nat
  BY EmptySeq, LenProperties
<1>2. Reaches(new[r]) = 0
  BY <1>1 DEF Reaches
<1>3. FollowsOK(all, new[r])
  BY <1>1, <1>2 DEF FollowsOK
<1>4. \A o \in rs : FollowsOK(all, new[o])
  BY DEF TogetherOK
<1>5. ~AllOpen(rs \cup {r}, new)
  BY DEF AllOpen
<1>6. LeadsOK(r, rs \cup {r}, new, file, all, need2)
  <2>1. \A o \in rs : new[o].opened
    BY DEF AllOpen
  <2>2. \A k \in 1 .. new[r].pos : FALSE
    OBVIOUS
  <2> QED BY <2>1, <2>2 DEF LeadsOK
<1> QED BY <1>3, <1>4, <1>5, <1>6 DEF TogetherOK

(* A run's file is open: it is the run begun last.                         *)
LEMMA TogetherOpen ==
  ASSUME NEW rs, NEW tbl, NEW file, NEW all \in Seq(Nat), NEW need, NEW r \in rs,
         TogetherOK(rs, tbl, file, all, need), ~tbl[r].opened, tbl[r].pos = 0,
         NEW new, \A o \in rs \ {r} : new[o] = tbl[o],
         new[r].phase = tbl[r].phase, new[r].last = tbl[r].last, new[r].opened,
         new[r].lines = tbl[r].lines, new[r].pos = tbl[r].pos
  PROVE  TogetherOK(rs, new, <<>>, all, need)
<1>1. Reaches(new[r]) = Reaches(tbl[r])
  BY DEF Reaches
<1>2. FollowsOK(all, new[r])
  BY <1>1 DEF FollowsOK, TogetherOK
<1>3. \A o \in rs \ {r} : FollowsOK(all, new[o])
  BY DEF TogetherOK
<1>4. LeadsOK(r, rs, tbl, file, all, need)
  BY DEF TogetherOK, AllOpen, LeadsOK
<1>5. LeadsOK(r, rs, new, <<>>, all, need)
  <2>1. \A k \in 1 .. new[r].pos : FALSE
    OBVIOUS
  <2>2. \A o \in rs \ {r} : new[o].opened
    BY <1>4 DEF LeadsOK
  <2>3. new[r].phase = "fetched" => need \subseteq {all[k] : k \in 1 .. Reaches(new[r])}
    BY <1>1, <1>4 DEF LeadsOK
  <2> QED BY <2>1, <2>2, <2>3 DEF LeadsOK
<1>6. InPlace(<<>>, all)
  <2>1. Len(<<>>) = 0 /\ DOMAIN <<>> = {} /\ Len(all) \in Nat
    BY EmptySeq, LenProperties
  <2> QED BY <2>1 DEF InPlace
<1> QED BY <1>2, <1>3, <1>5, <1>6 DEF TogetherOK

(* The cursor goes on, or is at the end.                                   *)
LEMMA TogetherFetch ==
  ASSUME NEW rs, NEW tbl, NEW file, NEW all \in Seq(Nat), NEW need, NEW r \in rs,
         TogetherOK(rs, tbl, file, all, need), need \subseteq ToSet(all),
         NEW new, \A o \in rs \ {r} : new[o] = tbl[o], tbl[r].phase = "fetching",
         FollowsOK(all, new[r]), new[r].opened = tbl[r].opened, new[r].pos = tbl[r].pos,
         new[r].phase = "fetched" => Reaches(new[r]) = Len(all)
  PROVE  TogetherOK(rs, new, file, all, need)
<1>1. \A o \in rs : FollowsOK(all, new[o])
  BY DEF TogetherOK
<1>2. AllOpen(rs, new) = AllOpen(rs, tbl)
  BY DEF AllOpen
<1>3. \A o \in rs : new[o].opened = tbl[o].opened /\ new[o].pos = tbl[o].pos
  OBVIOUS
<1>4. ASSUME NEW l \in rs, LeadsOK(l, rs, tbl, file, all, need)
      PROVE  LeadsOK(l, rs, new, file, all, need)
  <2>1. /\ \A o \in rs : o = l \/ new[o].opened
        /\ \A k \in 1 .. new[l].pos : k \in DOMAIN file /\ file[k] = all[k]
    BY <1>3, <1>4 DEF LeadsOK
  <2>2. ASSUME new[l].phase = "fetched"
        PROVE  need \subseteq {all[k] : k \in 1 .. Reaches(new[l])}
    <3>1. CASE l = r
      <4>1. DOMAIN all = 1 .. Len(all) /\ Reaches(new[l]) = Len(all)
        BY <2>2, <3>1, LenProperties
      <4> QED BY <4>1 DEF ToSet
    <3>2. CASE l # r
      <4>1. new[l] = tbl[l]
        BY <3>2
      <4> QED BY <4>1, <2>2, <1>4 DEF LeadsOK
    <3> QED BY <3>1, <3>2
  <2> QED BY <2>1, <2>2 DEF LeadsOK
<1> QED BY <1>1, <1>2, <1>4 DEF TogetherOK

(* A line is written where it belongs.                                     *)
LEMMA TogetherWrite ==
  ASSUME NEW rs, NEW tbl, NEW file \in Seq(Nat), NEW all \in Seq(Nat), NEW need,
         \A i \in need : i # Hole, NEW r \in rs,
         TogetherOK(rs, tbl, file, all, need), tbl[r].opened,
         \A o \in rs : tbl[o].opened \/ tbl[o].pos = 0, tbl[r].pos \in Nat,
         NEW new, \A o \in rs \ {r} : new[o] = tbl[o],
         FollowsOK(all, new[r]), Reaches(new[r]) = Reaches(tbl[r]),
         new[r].phase = tbl[r].phase, new[r].opened, new[r].pos = tbl[r].pos + 1,
         tbl[r].pos + 1 \in 1 .. Len(all), NEW t,
         t = WrittenAt(file, tbl[r].pos + 1, all[tbl[r].pos + 1])
  PROVE  TogetherOK(rs, new, t, all, need)
<1>1. \A o \in rs : FollowsOK(all, new[o])
  BY DEF TogetherOK
<1>2. AllOpen(rs, new) = AllOpen(rs, tbl)
  BY DEF AllOpen
<1>3. PICK p \in 1 .. Len(all) : p = tbl[r].pos + 1
  OBVIOUS
<1>4. ASSUME AllOpen(rs, tbl)
      PROVE  /\ InPlace(file, all) /\ InPlace(t, all) /\ p \in DOMAIN t /\ t[p] = all[p]
             /\ \A k \in DOMAIN file : file[k] = all[k] => k \in DOMAIN t /\ t[k] = all[k]
  <2>1. InPlace(file, all)
    BY <1>4 DEF TogetherOK
  <2>2. Len(all) \in Nat /\ all[p] \in Nat
    BY LenProperties, ElementOfSeq
  <2>3. t = WrittenAt(file, p, all[p])
    BY <1>3
  <2> QED BY <2>1, <2>2, <2>3, PlaceWrite
<1>5. ASSUME NEW l \in rs, LeadsOK(l, rs, tbl, file, all, need)
      PROVE  LeadsOK(l, rs, new, t, all, need)
  <2>1. \A o \in rs : o = l \/ new[o].opened
    BY <1>5 DEF LeadsOK
  <2>2. Reaches(new[l]) = Reaches(tbl[l]) /\ new[l].phase = tbl[l].phase
    OBVIOUS
  <2>3. \A k \in 1 .. new[l].pos : k \in DOMAIN t /\ t[k] = all[k]
    <3>1. CASE ~tbl[l].opened
      <4>1. l # r /\ new[l].pos = 0
        BY <3>1
      <4>2. \A k \in 1 .. new[l].pos : FALSE
        BY <4>1
      <4> QED BY <4>2
    <3>2. CASE tbl[l].opened
      <4>1. AllOpen(rs, tbl)
        BY <3>2, <1>5 DEF AllOpen, LeadsOK
      <4>2. \A k \in 1 .. tbl[l].pos : k \in DOMAIN t /\ t[k] = all[k]
        BY <4>1, <1>4, <1>5 DEF LeadsOK
      <4>3. CASE l = r
        <5>1. \A k \in 1 .. new[l].pos : k \in 1 .. tbl[l].pos \/ k = p
          BY <4>3, <1>3
        <5> QED BY <5>1, <4>1, <4>2, <1>4
      <4>4. CASE l # r
        BY <4>2, <4>4
      <4> QED BY <4>3, <4>4
    <3> QED BY <3>1, <3>2
  <2>4. new[l].phase = "fetched" => need \subseteq {all[k] : k \in 1 .. Reaches(new[l])}
    BY <2>2, <1>5 DEF LeadsOK
  <2> QED BY <2>1, <2>3, <2>4 DEF LeadsOK
<1>6. ASSUME AllOpen(rs, tbl), need \subseteq ToSet(file)
      PROVE  need \subseteq ToSet(t)
  <2> SUFFICES ASSUME NEW i \in need PROVE i \in ToSet(t)
    OBVIOUS
  <2>1. PICK k \in DOMAIN file : file[k] = i
    BY <1>6 DEF ToSet
  <2>2. file[k] = all[k]
    BY <2>1, <1>4, <1>6 DEF InPlace
  <2> QED BY <2>1, <2>2, <1>4, <1>6 DEF ToSet
<1> QED BY <1>1, <1>2, <1>4, <1>5, <1>6 DEF TogetherOK

(* A run ends.                                                             *)
LEMMA TogetherEnd ==
  ASSUME NEW rs, NEW tbl, NEW file \in Seq(Nat), NEW all \in Seq(Nat), NEW need, NEW r \in rs,
         TogetherOK(rs, tbl, file, all, need), tbl[r].opened, tbl[r].phase = "fetched",
         tbl[r].lines = <<>>, tbl[r].pos \in Nat,
         NEW new, \A o \in rs \ {r} : new[o] = tbl[o]
  PROVE  /\ TogetherOK(rs \ {r}, new, file, all, need)
         /\ rs = {r} => InPlace(file, all) /\ need \subseteq ToSet(file)
<1>1. \A o \in rs \ {r} : FollowsOK(all, new[o])
  BY DEF TogetherOK
<1>2. AllOpen(rs \ {r}, new) = AllOpen(rs, tbl)
  BY DEF AllOpen
<1>3. ASSUME LeadsOK(r, rs, tbl, file, all, need)
      PROVE  AllOpen(rs, tbl) /\ need \subseteq ToSet(file)
  <2>1. AllOpen(rs, tbl)
    BY <1>3 DEF AllOpen, LeadsOK
  <2>2. Reaches(tbl[r]) = tbl[r].pos
    BY EmptySeq, LenProperties DEF Reaches
  <2>3. /\ \A k \in 1 .. tbl[r].pos : k \in DOMAIN file /\ file[k] = all[k]
        /\ need \subseteq {all[k] : k \in 1 .. tbl[r].pos}
    BY <1>3, <2>2 DEF LeadsOK
  <2> QED BY <2>1, <2>3 DEF ToSet
<1>4. ASSUME NEW l \in rs \ {r}, LeadsOK(l, rs, tbl, file, all, need)
      PROVE  LeadsOK(l, rs \ {r}, new, file, all, need)
  BY <1>4 DEF LeadsOK
<1>5. \/ \E l \in rs \ {r} : LeadsOK(l, rs, tbl, file, all, need)
      \/ AllOpen(rs, tbl) /\ need \subseteq ToSet(file)
  BY <1>3 DEF TogetherOK
<1>6. TogetherOK(rs \ {r}, new, file, all, need)
  BY <1>1, <1>2, <1>4, <1>5 DEF TogetherOK
<1>7. ASSUME rs = {r} PROVE InPlace(file, all) /\ need \subseteq ToSet(file)
  BY <1>5, <1>7 DEF TogetherOK, AllOpen
<1> QED BY <1>6, <1>7

(* An entry is added at the end.                                           *)
LEMMA TogetherAdded ==
  ASSUME NEW rs, NEW tbl, \A o \in rs : tbl[o] \in Archiving, NEW file \in Seq(Nat),
         NEW all \in Seq(Nat), NEW need, TogetherOK(rs, tbl, file, all, need), NEW i \in Nat
  PROVE  TogetherOK(rs, tbl, file, Append(all, i), need)
<1> DEFINE more == Append(all, i)
<1>1. /\ \A w \in Archiving : FollowsOK(all, w) => FollowsOK(more, w)
      /\ InPlace(file, all) => InPlace(file, more)
      /\ \A k \in 1 .. Len(all) : more[k] = all[k]
  BY FollowsAdded
<1> HIDE DEF more
<1>2. \A o \in rs : FollowsOK(more, tbl[o])
  BY <1>1 DEF TogetherOK
<1>3. ASSUME NEW l \in rs, LeadsOK(l, rs, tbl, file, all, need)
      PROVE  LeadsOK(l, rs, tbl, file, more, need)
  <2>1. /\ tbl[l].pos \in Nat /\ Len(tbl[l].lines) \in Nat /\ Len(all) \in Nat
        /\ tbl[l].pos + Len(tbl[l].lines) <= Len(all)
    <3>1. FollowsOK(all, tbl[l]) /\ tbl[l] \in Archiving
      BY DEF TogetherOK
    <3>2. Reaches(tbl[l]) <= Len(all)
      BY <3>1 DEF FollowsOK
    <3> QED BY <3>1, <3>2, ReachType, LenProperties DEF Reaches
  <2>2. \A k \in 1 .. Reaches(tbl[l]) : k \in 1 .. Len(all)
    BY <2>1 DEF Reaches
  <2>3. \A k \in 1 .. tbl[l].pos : k \in 1 .. Len(all)
    BY <2>1
  <2>4. \A k \in 1 .. tbl[l].pos : k \in DOMAIN file /\ file[k] = more[k]
    BY <2>3, <1>1, <1>3 DEF LeadsOK
  <2>5. {more[k] : k \in 1 .. Reaches(tbl[l])} = {all[k] : k \in 1 .. Reaches(tbl[l])}
    BY <2>2, <1>1
  <2> QED BY <2>4, <2>5, <1>3 DEF LeadsOK
<1>4. TogetherOK(rs, tbl, file, more, need)
  BY <1>1, <1>2, <1>3 DEF TogetherOK
<1> QED BY <1>4 DEF more
---------------------------------------------------------------------------
(* The days of a state, and the days a step does not concern.              *)
DayAt(d) ==
  /\ AloneDay(logs, OfDay(d), Runs(d), run, files[d], Needed(d), past[d])
  /\ TogetherDay(logs, OfDay(d), Runs(d), run, files[d], Needed(d), past[d])
  /\ EndedDay(now >= LastMinute(d), logs, Runs(d), files[d], Due(d), past[d])

LEMMA AloneIs ==
  \A d : AloneDay(logs, OfDay(d), Runs(d), run, files[d], Needed(d), past[d]) <=>
           ({"shared", "broken"} \cap past[d] = {} =>
              \A r \in Runs(d) : Runs(d) = {r} /\ Alone(r, d))
<1>1. ASSUME NEW d, NEW r
      PROVE  AloneOK(logs, OfDay(d), run[r], files[d], Needed(d)) <=> Alone(r, d)
  <2>1. Emitted(r, d) = Emits(run[r], files[d])
    BY DEF Emitted, Emits
  <2>2. Ascending(Emitted(r, d)) <=> Ascends(logs, Emits(run[r], files[d]))
    BY <2>1, SortedArranged DEF Ascending, Ascends
  <2>3. \A i : Before(run[r].last, i) <=> InFront(logs, run[r].last, i)
    BY SortedArranged
  <2> QED BY <2>1, <2>2, <2>3 DEF Alone, AloneOK, Last
<1> QED BY <1>1 DEF AloneDay

LEMMA TogetherIs ==
  \A d : TogetherDay(logs, OfDay(d), Runs(d), run, files[d], Needed(d), past[d]) <=>
           (Runs(d) # {} /\ {"disturbed", "late", "broken"} \cap past[d] = {} =>
              LET all == Sorted(OfDay(d))
              IN  /\ \A r \in Runs(d) : Follows(r, all)
                  /\ AllOpened(d) => InPlace(files[d], all)
                  /\ \/ \E r \in Runs(d) : Leads(r, d, all)
                     \/ AllOpened(d) /\ Needed(d) \subseteq ToSet(files[d]))
<1> SUFFICES ASSUME NEW d
             PROVE  TogetherDay(logs, OfDay(d), Runs(d), run, files[d], Needed(d), past[d]) <=>
                    (Runs(d) # {} /\ {"disturbed", "late", "broken"} \cap past[d] = {} =>
                       LET all == Sorted(OfDay(d))
                       IN  /\ \A r \in Runs(d) : Follows(r, all)
                           /\ AllOpened(d) => InPlace(files[d], all)
                           /\ \/ \E r \in Runs(d) : Leads(r, d, all)
                              \/ AllOpened(d) /\ Needed(d) \subseteq ToSet(files[d]))
  OBVIOUS
<1>1. PICK all : all = Sorted(OfDay(d)) /\ all = Arranged(logs, OfDay(d))
  BY SortedArranged
<1>2. \A r : Follows(r, all) <=> FollowsOK(all, run[r])
  BY DEF Follows, FollowsOK, Fetched, Reaches
<1>3. \A r : Leads(r, d, all) <=> LeadsOK(r, Runs(d), run, files[d], all, Needed(d))
  BY DEF Leads, LeadsOK, Fetched, Reaches
<1>4. AllOpened(d) <=> AllOpen(Runs(d), run)
  BY DEF AllOpened, AllOpen
<1> QED BY <1>1, <1>2, <1>3, <1>4 DEF TogetherDay, TogetherOK

LEMMA EndedIs ==
  \A d : EndedDay(now >= LastMinute(d), logs, Runs(d), files[d], Due(d), past[d]) <=>
           ((now >= LastMinute(d) /\ Runs(d) = {} /\ Intact(d)) => Complete(d))
<1>1. \A d : CompleteOK(logs, files[d], Due(d), past[d]) <=> Complete(d)
  <2> SUFFICES ASSUME NEW d
               PROVE  CompleteOK(logs, files[d], Due(d), past[d]) <=> Complete(d)
    OBVIOUS
  <2>1. \A i, j : Before(i, j) <=> InFront(logs, i, j)
    BY SortedArranged
  <2> QED BY <2>1 DEF CompleteOK, Complete, InOrder, Ascends, Ascending
<1> QED BY <1>1 DEF EndedDay, Intact

DaysKept == RunsAlone /\ RunsTogether /\ EndedComplete

LEMMA DaysAre == DaysKept <=> \A d \in Day : DayAt(d)
BY AloneIs, TogetherIs, EndedIs DEF DayAt, DaysKept, RunsAlone, RunsTogether, EndedComplete

LEMMA TableSame ==
  ASSUME NEW rs, NEW tbl, NEW new, \A r \in rs : new[r] = tbl[r],
         NEW tab, NEW own, NEW file, NEW need, NEW ps
  PROVE  /\ AloneDay(tab, own, rs, tbl, file, need, ps) =>
              AloneDay(tab, own, rs, new, file, need, ps)
         /\ TogetherDay(tab, own, rs, tbl, file, need, ps) =>
              TogetherDay(tab, own, rs, new, file, need, ps)
<1>1. AloneDay(tab, own, rs, tbl, file, need, ps) => AloneDay(tab, own, rs, new, file, need, ps)
  BY DEF AloneDay
<1>2. AllOpen(rs, new) = AllOpen(rs, tbl)
  BY DEF AllOpen
<1>3. \A all : \A r \in rs : LeadsOK(r, rs, tbl, file, all, need) => LeadsOK(r, rs, new, file, all, need)
  BY DEF LeadsOK
<1>4. TogetherDay(tab, own, rs, tbl, file, need, ps) => TogetherDay(tab, own, rs, new, file, need, ps)
  BY <1>2, <1>3 DEF TogetherDay, TogetherOK
<1> QED BY <1>1, <1>4

LEMMA SameEntries ==
  ASSUME logs' = logs, NEW d, (now' >= LastMinute(d)) = (now >= LastMinute(d))
  PROVE  OfDay(d)' = OfDay(d) /\ Due(d)' = Due(d) /\ Needed(d)' = Needed(d)
<1>1. OfDay(d)' = OfDay(d)
  BY DEF OfDay, Id
<1>2. Due(d)' = Due(d)
  BY <1>1 DEF Due
<1> QED BY <1>1, <1>2 DEF Needed

LEMMA DaySame ==
  ASSUME NEW d, DayAt(d), logs' = logs, files'[d] = files[d], past'[d] = past[d],
         (now' >= LastMinute(d)) = (now >= LastMinute(d)),
         Runs(d)' = Runs(d), \A r \in Runs(d) : run'[r] = run[r]
  PROVE  DayAt(d)'
<1>1. PICK own, need, due, rs, tbl, new, file, ps, tab, over :
        /\ own = OfDay(d) /\ need = Needed(d) /\ due = Due(d) /\ rs = Runs(d) /\ tbl = run
        /\ new = run' /\ file = files[d] /\ ps = past[d] /\ tab = logs
        /\ over = (now >= LastMinute(d))
  OBVIOUS
<1>2. /\ AloneDay(tab, own, rs, tbl, file, need, ps) /\ TogetherDay(tab, own, rs, tbl, file, need, ps)
      /\ EndedDay(over, tab, rs, file, due, ps)
  BY <1>1 DEF DayAt
<1>3. \A r \in rs : new[r] = tbl[r]
  BY <1>1
<1>4. AloneDay(tab, own, rs, new, file, need, ps) /\ TogetherDay(tab, own, rs, new, file, need, ps)
  BY <1>2, <1>3, TableSame
<1>5. OfDay(d)' = own /\ Due(d)' = due /\ Needed(d)' = need
  BY <1>1, SameEntries
<1> QED BY <1>1, <1>2, <1>4, <1>5 DEF DayAt

LEMMA RunsChange ==
  ASSUME TypeOK, NEW r \in Run, NEW v, run' = [run EXCEPT ![r] = v]
  PROVE  /\ run'[r] = v /\ \A o \in Run \ {r} : run'[o] = run[o]
         /\ \A c : Runs(c)' = IF v # Idle /\ v.day = c THEN Runs(c) \cup {r} ELSE Runs(c) \ {r}
<1>1. run'[r] = v /\ \A o \in Run \ {r} : run'[o] = run[o]
  BY DEF TypeOK
<1>2. \A c : Runs(c)' = {o \in Run : run'[o] # Idle /\ run'[o].day = c}
  BY DEF Runs, Idle
<1>3. \A c : Runs(c) = {o \in Run : run[o] # Idle /\ run[o].day = c}
  BY DEF Runs
<1> QED BY <1>1, <1>2, <1>3

LEMMA OtherDays ==
  ASSUME TypeOK, NEW r \in Run, NEW d \in Day, run[r] = Idle \/ run[r].day = d,
         NEW v, v = Idle \/ v.day = d, run' = [run EXCEPT ![r] = v], logs' = logs,
         \A c \in Day \ {d} : /\ files'[c] = files[c] /\ past'[c] = past[c]
                              /\ (now' >= LastMinute(c)) = (now >= LastMinute(c)),
         \A c \in Day : DayAt(c)
  PROVE  \A c \in Day \ {d} : DayAt(c)'
<1> SUFFICES ASSUME NEW c \in Day \ {d} PROVE DayAt(c)'
  OBVIOUS
<1>1. r \notin Runs(c)
  BY DEF Runs
<1>2. Runs(c)' = Runs(c) /\ \A o \in Runs(c) : run'[o] = run[o]
  BY <1>1, RunsChange DEF Runs
<1> QED BY <1>2, DaySame

(* What is known of a day.                                                 *)
LEMMA DayFacts ==
  ASSUME TypeOK, OwnLinesOnly, NEW d \in Day
  PROVE  /\ OfDay(d) \in SUBSET DOMAIN logs /\ OfDay(d) \subseteq Nat \ {0}
         /\ files[d] \in Seq(Nat) /\ ToSet(files[d]) \subseteq OfDay(d) \cup {Hole}
         /\ Due(d) \subseteq OfDay(d) /\ Needed(d) \subseteq OfDay(d)
         /\ now >= LastMinute(d) => Needed(d) = Due(d)
         /\ Arranged(logs, OfDay(d)) \in Seq(Nat)
         /\ ToSet(Arranged(logs, OfDay(d))) = OfDay(d)
         /\ Ascends(logs, Arranged(logs, OfDay(d)))
         /\ \A r \in Runs(d) : /\ r \in Run /\ run[r] \in Archiving /\ run[r] # Idle /\ run[r].day = d
                               /\ run[r].opened \/ run[r].pos = 0
                               /\ run[r].last = 0 \/ run[r].last \in OfDay(d)
<1>1. logs \in Seq(Log) /\ files[d] \in Seq(Nat)
  BY DEF TypeOK
<1>2. /\ OfDay(d) \in SUBSET DOMAIN logs /\ OfDay(d) \subseteq Nat \ {0}
      /\ Due(d) \subseteq OfDay(d) /\ Needed(d) \subseteq OfDay(d)
      /\ now >= LastMinute(d) => Needed(d) = Due(d)
  BY <1>1, OfDayIs DEF Needed
<1>3. ToSet(files[d]) \subseteq OfDay(d) \cup {Hole}
  BY DEF OwnLinesOnly
<1>4. PICK own : own = OfDay(d)
  OBVIOUS
<1>5. /\ Arranged(logs, own) \in Seq(own) /\ ToSet(Arranged(logs, own)) = own
      /\ Ascends(logs, Arranged(logs, own))
  BY <1>1, <1>2, <1>4, ArrangedIs
<1>6. Arranged(logs, own) \in Seq(Nat)
  BY <1>2, <1>4, <1>5, SeqMonotonic
<1>7. \A r \in Runs(d) : /\ r \in Run /\ run[r] # Idle /\ run[r].day = d
  BY DEF Runs
<1>8. \A r \in Runs(d) : run[r] \in Archiving
  BY <1>7, RunIs
<1>9. \A r \in Runs(d) : /\ run[r].opened \/ run[r].pos = 0
                         /\ run[r].last = 0 \/ run[r].last \in OfDay(d)
  BY <1>7 DEF OwnLinesOnly
<1> QED BY <1>1, <1>2, <1>3, <1>4, <1>5, <1>6, <1>7, <1>8, <1>9
---------------------------------------------------------------------------
(* The steps of a run, on its day.                                         *)
LEMMA DayStart ==
  ASSUME TypeOK, OwnLinesOnly, NEW r \in Run, NEW d \in Day, DayAt(d), Start(r, d),
         logs' = logs, files' = files
  PROVE  DayAt(d)'
<1>1. PICK own, need, rs, tbl, file, ps, tab, all :
        /\ own = OfDay(d) /\ need = Needed(d) /\ rs = Runs(d) /\ tbl = run
        /\ file = files[d] /\ ps = past[d] /\ tab = logs /\ all = Arranged(tab, own)
  OBVIOUS
<1>2. PICK v : v = [phase |-> "fetching", day |-> d, opened |-> FALSE,
                    last |-> 0, lines |-> <<>>, pos |-> 0]
  OBVIOUS
<1>3. run' = [run EXCEPT ![r] = v] /\ run[r] = Idle
  BY <1>2 DEF Start
<1>4. v # Idle /\ v.day = d
  BY <1>2 DEF Idle
<1>5. PICK new, rs2, ps2, need2, over2, due2 :
        /\ new = run' /\ rs2 = Runs(d)' /\ ps2 = past'[d] /\ need2 = Needed(d)'
        /\ over2 = (now' >= LastMinute(d)) /\ due2 = Due(d)'
  OBVIOUS
<1>6. /\ new[r] = v /\ rs2 = rs \cup {r} /\ r \notin rs
      /\ \A o \in rs : new[o] = tbl[o]
  <2>1. r \notin rs
    BY <1>1, <1>3 DEF Runs
  <2>2. rs2 = rs \cup {r}
    BY <1>1, <1>3, <1>4, <1>5, RunsChange
  <2>3. new[r] = v /\ \A o \in Run \ {r} : new[o] = tbl[o]
    BY <1>1, <1>3, <1>5, RunsChange
  <2>4. rs \subseteq Run
    BY <1>1 DEF Runs
  <2> QED BY <2>1, <2>2, <2>3, <2>4
<1>7. ps2 = IF rs = {} THEN {}
            ELSE ps \cup {"shared"} \cup {"late" : o \in {o \in rs : ~tbl[o].opened}}
  BY <1>1, <1>5 DEF Start, TypeOK
<1>8. ~new[r].opened /\ new[r].lines = <<>> /\ new[r].last = 0 /\ new[r].phase = "fetching"
      /\ new[r].pos = 0
  BY <1>2, <1>6
<1>9. AloneDay(tab, own, rs2, new, file, need2, ps2)
  <2>1. CASE rs = {}
    <3>1. AloneOK(tab, own, new[r], file, need2)
      BY <1>8, AloneFresh
    <3> QED BY <2>1, <3>1, <1>6 DEF AloneDay
  <2>2. CASE rs # {}
    BY <2>2, <1>7 DEF AloneDay
  <2> QED BY <2>1, <2>2
<1>10. TogetherDay(tab, own, rs2, new, file, need2, ps2)
  <2> SUFFICES ASSUME {"disturbed", "late", "broken"} \cap ps2 = {}
               PROVE  TogetherOK(rs2, new, file, all, need2)
    BY <1>1 DEF TogetherDay
  <2>1. ASSUME rs # {} PROVE AllOpen(rs, tbl) /\ TogetherOK(rs, tbl, file, all, need)
    <3>1. {"disturbed", "late", "broken"} \cap ps = {}
      BY <2>1, <1>7
    <3>2. ASSUME NEW o \in rs, ~tbl[o].opened PROVE FALSE
      <4>1. "late" \in {"late" : u \in {u \in rs : ~tbl[u].opened}}
        BY <3>2
      <4>2. "late" \in ps2
        BY <4>1, <2>1, <1>7
      <4> QED BY <4>2
    <3>3. TogetherOK(rs, tbl, file, all, need)
      BY <2>1, <3>1, <1>1 DEF DayAt, TogetherDay
    <3> QED BY <3>2, <3>3 DEF AllOpen
  <2>2. all \in Seq(Nat)
    BY <1>1, DayFacts
  <2>3. TogetherOK(rs \cup {r}, new, file, all, need2)
    BY <2>1, <2>2, <1>6, <1>8, TogetherStart
  <2> QED BY <2>3, <1>6
<1>11. EndedDay(over2, tab, rs2, file, due2, ps2)
  BY <1>6 DEF EndedDay
<1>12. OfDay(d)' = own
  BY <1>1 DEF OfDay, Id
<1> QED BY <1>1, <1>5, <1>9, <1>10, <1>11, <1>12 DEF DayAt

(* A step of a run that stays: the run before and after it.                *)
LEMMA DayStays ==
  ASSUME TypeOK, NEW r \in Run, NEW d \in Day, run[r] # Idle, run[r].day = d,
         NEW v \in Archiving, v.day = d, run' = [run EXCEPT ![r] = v],
         logs' = logs, now' = now,
         AloneDay(logs, OfDay(d), Runs(d), run', files'[d], Needed(d), past'[d]),
         TogetherDay(logs, OfDay(d), Runs(d), run', files'[d], Needed(d), past'[d])
  PROVE  DayAt(d)'
<1>1. r \in Runs(d)
  BY DEF Runs
<1>2. v # Idle
  BY DEF Archiving, Idle
<1>3. Runs(d)' = Runs(d)
  <2>1. PICK rs, rs2 : rs = Runs(d) /\ rs2 = Runs(d)'
    OBVIOUS
  <2>2. rs2 = IF v # Idle /\ v.day = d THEN rs \cup {r} ELSE rs \ {r}
    BY <2>1, RunsChange
  <2>3. rs2 = rs \cup {r} /\ r \in rs
    BY <1>1, <1>2, <2>1, <2>2
  <2> QED BY <2>1, <2>3
<1>4. OfDay(d)' = OfDay(d) /\ Due(d)' = Due(d) /\ Needed(d)' = Needed(d)
  <2>1. (now' >= LastMinute(d)) = (now >= LastMinute(d))
    OBVIOUS
  <2> QED BY <2>1, SameEntries
<1>5. EndedDay(now' >= LastMinute(d), logs', Runs(d)', files'[d], Due(d)', past'[d])
  BY <1>1, <1>3 DEF EndedDay
<1> QED BY <1>3, <1>4, <1>5 DEF DayAt

LEMMA DayOpen ==
  ASSUME TypeOK, OwnLinesOnly, NEW r \in Run, run[r] # Idle, NEW d \in Day, run[r].day = d,
         DayAt(d), Open(r)
  PROVE  DayAt(d)'
<1>1. PICK own, need, rs, tbl, file, ps, tab, all, w, v, new :
        /\ own = OfDay(d) /\ need = Needed(d) /\ rs = Runs(d) /\ tbl = run
        /\ file = files[d] /\ ps = past[d] /\ tab = logs /\ all = Arranged(tab, own)
        /\ w = run[r] /\ v = [w EXCEPT !.opened = TRUE] /\ new = run'
  OBVIOUS
<1>2. /\ w \in Archiving /\ ~w.opened /\ d \in Day /\ w.day = d /\ tbl[r] = w /\ r \in rs
      /\ w.pos = 0
  <2>1. w \in Archiving /\ ~w.opened
    BY <1>1, RunIs DEF Open
  <2>2. w.pos = 0
    BY <1>1, <2>1 DEF OwnLinesOnly
  <2> QED BY <1>1, <2>1, <2>2 DEF Archiving, Runs
<1>3. v \in Archiving /\ v.day = d
  BY <1>1, <1>2 DEF Archiving
<1>4. /\ run' = [run EXCEPT ![r] = v] /\ files'[d] = <<>> /\ logs' = logs /\ now' = now
      /\ past' = past
  <2>1. files' = [files EXCEPT ![d] = <<>>]
    BY <1>1 DEF Open
  <2>2. files'[d] = <<>>
    BY <2>1, <1>2 DEF TypeOK
  <2> QED BY <1>1, <2>2 DEF Open
<1>5. new[r] = v /\ \A o \in rs \ {r} : new[o] = tbl[o]
  BY <1>1, <1>4, RunsChange DEF Runs
<1>6. AloneDay(tab, own, rs, new, <<>>, need, ps)
  <2> SUFFICES ASSUME {"shared", "broken"} \cap ps = {}
               PROVE  rs = {r} /\ AloneOK(tab, own, v, <<>>, need)
    BY <1>5 DEF AloneDay
  <2>1. rs = {r} /\ AloneOK(tab, own, w, file, need)
    BY <1>1, <1>2 DEF DayAt, AloneDay
  <2>2. v = [w EXCEPT !.opened = TRUE]
    BY <1>1
  <2> QED BY <2>1, <2>2, <1>2, AloneOpen
<1>7. TogetherDay(tab, own, rs, new, <<>>, need, ps)
  <2> SUFFICES ASSUME {"disturbed", "late", "broken"} \cap ps = {}
               PROVE  TogetherOK(rs, new, <<>>, all, need)
    BY <1>1 DEF TogetherDay
  <2>1. TogetherOK(rs, tbl, file, all, need) /\ all \in Seq(Nat)
    BY <1>1, <1>2, DayFacts DEF DayAt, TogetherDay
  <2>2. /\ v.phase = w.phase /\ v.last = w.last /\ v.opened /\ v.lines = w.lines /\ v.pos = w.pos
    BY <1>1, <1>2 DEF Archiving
  <2> QED BY <2>1, <2>2, <1>2, <1>5, TogetherOpen
<1>8. /\ AloneDay(logs, OfDay(d), Runs(d), run', files'[d], Needed(d), past'[d])
      /\ TogetherDay(logs, OfDay(d), Runs(d), run', files'[d], Needed(d), past'[d])
  BY <1>1, <1>4, <1>6, <1>7
<1> QED BY <1>1, <1>2, <1>3, <1>4, <1>8, DayStays

LEMMA DayFails ==
  ASSUME TypeOK, NEW r \in Run, run[r] # Idle, NEW d \in Day, run[r].day = d, CursorFails(r)
  PROVE  DayAt(d)'
<1>1. PICK v : v = [run[r] EXCEPT !.phase = "fetched"]
  OBVIOUS
<1>2. run[r] \in Archiving
  BY <1>1, RunIs DEF Archiving
<1>3. v \in Archiving /\ v.day = d
  BY <1>1, <1>2 DEF Archiving
<1>4. run' = [run EXCEPT ![r] = v] /\ logs' = logs /\ now' = now /\ "broken" \in past'[d]
  BY <1>1, <1>2 DEF CursorFails, TypeOK
<1>5. /\ AloneDay(logs, OfDay(d), Runs(d), run', files'[d], Needed(d), past'[d])
      /\ TogetherDay(logs, OfDay(d), Runs(d), run', files'[d], Needed(d), past'[d])
  BY <1>4 DEF AloneDay, TogetherDay
<1> QED BY <1>1, <1>2, <1>3, <1>4, <1>5, DayStays

LEMMA DayFetch ==
  ASSUME TypeOK, OwnLinesOnly, NEW r \in Run, run[r] # Idle, NEW d \in Day, run[r].day = d,
         DayAt(d), Fetch(r)
  PROVE  DayAt(d)'
<1>1. PICK own, need, rs, tbl, file, ps, tab, all, w, new, last, rest, batch :
        /\ own = OfDay(d) /\ need = Needed(d) /\ rs = Runs(d) /\ tbl = run
        /\ file = files[d] /\ ps = past[d] /\ tab = logs /\ all = Arranged(tab, own)
        /\ w = run[r] /\ new = run' /\ last = w.last /\ rest = Onward(tab, own, last)
        /\ batch = First(Arranged(tab, rest), Batch)
  OBVIOUS
<1>2. /\ w \in Archiving /\ w.phase = "fetching" /\ w.day = d /\ tbl[r] = w /\ r \in rs
      /\ tab \in Seq(Log) /\ own \in SUBSET DOMAIN tab /\ file \in Seq(Nat)
      /\ need \in SUBSET own /\ own \subseteq Nat \ {0}
      /\ all \in Seq(Nat) /\ ToSet(all) = own
  <2>1. w \in Archiving /\ w.phase = "fetching"
    BY <1>1, RunIs DEF Fetch
  <2>2. r \in rs /\ tab \in Seq(Log)
    BY <1>1 DEF Runs, TypeOK
  <2>3. /\ own \in SUBSET DOMAIN tab /\ file \in Seq(Nat)
        /\ need \in SUBSET own /\ own \subseteq Nat \ {0}
        /\ all \in Seq(Nat) /\ ToSet(all) = own
    BY <1>1, DayFacts
  <2> QED BY <1>1, <2>1, <2>2, <2>3
<1>3. batch = First(Rest(r), Batch)
  <2>1. Rest(r) = Arranged(tab, rest)
    BY <1>1, SortedArranged DEF Rest, Onward
  <2> QED BY <1>1, <2>1
<1>4. /\ batch \in Seq(own) /\ Ascends(tab, batch) /\ ToSet(batch) \subseteq rest
      /\ batch = <<>> => rest = {}
      /\ batch # <<>> => \A i \in rest \ ToSet(batch) : InFront(tab, batch[Len(batch)], i)
  <2>1. rest = Onward(tab, own, last) /\ batch = First(Arranged(tab, rest), Batch)
    BY <1>1
  <2>2. tab \in Seq(Log) /\ own \in SUBSET DOMAIN tab
    BY <1>2
  <2>3. batch \in Seq(own) /\ Ascends(tab, batch) /\ ToSet(batch) \subseteq rest
    BY <2>1, <2>2, BatchIs
  <2>4. batch = <<>> => rest = {}
    BY <2>1, <2>2, BatchIs
  <2>5. ASSUME batch # <<>>, NEW i \in rest \ ToSet(batch) PROVE InFront(tab, batch[Len(batch)], i)
    BY <2>5, <2>1, <2>2, BatchIs
  <2> QED BY <2>3, <2>4, <2>5
<1>5. batch \in Seq(Nat) /\ batch \in Seq(Nat \ {0}) /\ w.lines \in Seq(Nat \ {0}) /\ w.lines \in Seq(Nat)
  BY <1>2, <1>4, SeqMonotonic DEF Archiving
<1>6. PICK lines, end : lines = w.lines \o batch /\ end = batch[Len(batch)]
  OBVIOUS
<1>7. lines \in Seq(Nat \ {0}) /\ (batch # <<>> => end \in own)
  <2>1. lines \in Seq(Nat \ {0})
    BY <1>5, <1>6, ConcatProperties
  <2>2. ASSUME batch # <<>> PROVE end \in own
    <3>1. Len(batch) # 0 /\ Len(batch) \in Nat
      BY <1>4, <2>2, EmptySeq, LenProperties
    <3>2. Len(batch) \in 1 .. Len(batch)
      BY <3>1
    <3> QED BY <1>4, <1>6, <3>2, ElementOfSeq
  <2> QED BY <2>1, <2>2
<1>8. PICK v : v = IF batch = <<>> THEN [w EXCEPT !.phase = "fetched"]
                   ELSE [w EXCEPT !.lines = lines, !.last = end]
  OBVIOUS
<1>9. run' = [run EXCEPT ![r] = v]
  <2>1. run' = IF batch = <<>>
                 THEN [run EXCEPT ![r].phase = "fetched"]
                 ELSE [run EXCEPT ![r].lines = @ \o batch, ![r].last = Last(batch)]
    BY <1>3 DEF Fetch
  <2>2. CASE batch = <<>>
    BY <1>1, <1>8, <2>1, <2>2
  <2>3. CASE batch # <<>>
    <3>1. run' = [run EXCEPT ![r].lines = run[r].lines \o batch, ![r].last = batch[Len(batch)]]
      BY <2>1, <2>3, Zenon DEF Last
    <3>2. run' = [run EXCEPT ![r].lines = lines, ![r].last = end]
      BY <1>1, <1>6, <3>1, Zenon
    <3> QED BY <1>1, <1>8, <2>3, <3>2
  <2> QED BY <2>2, <2>3
<1>10. /\ v \in Archiving /\ v.day = d /\ v.opened = w.opened /\ v.pos = w.pos
       /\ batch = <<>> => v.lines = w.lines /\ v.last = w.last /\ v.phase = "fetched"
       /\ batch # <<>> => v.lines = lines /\ v.last = end /\ v.phase = "fetching"
  <2>1. CASE batch = <<>>
    BY <1>2, <1>8, <2>1 DEF Archiving
  <2>2. CASE batch # <<>>
    <3>1. end \in Nat /\ lines \in Seq(Nat \ {0})
      BY <1>2, <1>7, <2>2
    <3>2. v = [w EXCEPT !.lines = lines, !.last = end]
      BY <1>8, <2>2
    <3> QED BY <1>2, <2>2, <3>1, <3>2 DEF Archiving
  <2> QED BY <2>1, <2>2
<1>11. new[r] = v /\ \A o \in rs \ {r} : new[o] = tbl[o]
  BY <1>1, <1>9, RunsChange DEF Runs
<1>12. AloneDay(tab, own, rs, new, file, need, ps)
  <2> SUFFICES ASSUME {"shared", "broken"} \cap ps = {}
               PROVE  rs = {r} /\ AloneOK(tab, own, v, file, need)
    BY <1>11 DEF AloneDay
  <2>1. rs = {r} /\ AloneOK(tab, own, w, file, need)
    BY <1>1, <1>2 DEF DayAt, AloneDay
  <2>2. IF batch = <<>> THEN v.lines = w.lines /\ v.last = w.last
        ELSE v.lines = w.lines \o batch /\ v.last = batch[Len(batch)] /\ v.phase = "fetching"
    BY <1>6, <1>10
  <2>3. rest = Onward(tab, own, w.last)
    BY <1>1
  <2> QED BY <2>1, <2>2, <2>3, <1>2, <1>4, <1>10, AloneFetch
<1>13. TogetherDay(tab, own, rs, new, file, need, ps)
  <2> SUFFICES ASSUME {"disturbed", "late", "broken"} \cap ps = {}
               PROVE  TogetherOK(rs, new, file, all, need)
    BY <1>1 DEF TogetherDay
  <2>1. TogetherOK(rs, tbl, file, all, need)
    BY <1>1, <1>2 DEF DayAt, TogetherDay
  <2>2. FollowsOK(all, w) /\ Reaches(w) \in 0 .. Len(all) /\ Len(all) \in Nat
    <3>1. FollowsOK(all, w) /\ Reaches(w) \in Nat /\ Len(all) \in Nat
      BY <1>2, <2>1, ReachType, LenProperties DEF TogetherOK
    <3>2. Reaches(w) <= Len(all)
      BY <3>1 DEF FollowsOK
    <3> QED BY <3>1, <3>2
  <2>3. PICK f \in 0 .. Len(all) : f = Reaches(w)
    BY <2>2
  <2>4. last = IF f = 0 THEN 0 ELSE all[f]
    BY <1>1, <2>2, <2>3 DEF FollowsOK
  <2>5. /\ Len(batch) \in Nat /\ Len(batch) <= Len(all) - f
        /\ \A k \in 1 .. Len(batch) : batch[k] = all[f + k]
        /\ batch = <<>> => f = Len(all)
    <3>1. /\ all = Arranged(tab, own) /\ rest = Onward(tab, own, last)
          /\ batch = First(Arranged(tab, rest), Batch)
      BY <1>1
    <3>2. tab \in Seq(Log) /\ own \in SUBSET DOMAIN tab
      BY <1>2
    <3> QED BY <2>4, <3>1, <3>2, RestBehind
  <2>6. v.lines = w.lines \o batch /\ v.last = IF batch = <<>> THEN w.last ELSE batch[Len(batch)]
    <3>1. batch = <<>> => w.lines \o batch = w.lines
      BY <1>5, ConcatEmptySeq
    <3> QED BY <3>1, <1>6, <1>10
  <2>7. FollowsOK(all, v) /\ Reaches(v) = Reaches(w) + Len(batch)
    <3>1. w \in Archiving /\ v.pos = w.pos /\ batch \in Seq(Nat)
      BY <1>2, <1>5, <1>10
    <3>2. /\ Len(batch) <= Len(all) - Reaches(w)
          /\ \A k \in 1 .. Len(batch) : batch[k] = all[Reaches(w) + k]
      BY <2>3, <2>5
    <3> QED BY <3>1, <3>2, <2>2, <2>6, FollowsFetch
  <2>8. v.phase = "fetched" => Reaches(v) = Len(all)
    <3>1. v.phase = "fetched" => batch = <<>>
      BY <1>10
    <3>2. batch = <<>> => Len(batch) = 0
      BY EmptySeq
    <3> QED BY <2>2, <2>3, <2>5, <2>7, <3>1, <3>2
  <2>9. need \subseteq ToSet(all)
    BY <1>2
  <2> QED BY <1>2, <1>10, <1>11, <2>1, <2>7, <2>8, <2>9, TogetherFetch
<1>14. logs' = logs /\ now' = now /\ files' = files /\ past' = past
  BY DEF Fetch
<1>15. /\ AloneDay(logs, OfDay(d), Runs(d), run', files'[d], Needed(d), past'[d])
       /\ TogetherDay(logs, OfDay(d), Runs(d), run', files'[d], Needed(d), past'[d])
  BY <1>1, <1>12, <1>13, <1>14
<1> QED BY <1>9, <1>10, <1>14, <1>15, DayStays

LEMMA DayWrite ==
  ASSUME TypeOK, OwnLinesOnly, NEW r \in Run, run[r] # Idle, NEW d \in Day, run[r].day = d,
         DayAt(d), Write(r)
  PROVE  DayAt(d)'
<1>1. PICK own, need, rs, tbl, file, ps, tab, all, w, new, t, v :
        /\ own = OfDay(d) /\ need = Needed(d) /\ rs = Runs(d) /\ tbl = run
        /\ file = files[d] /\ ps = past[d] /\ tab = logs /\ all = Arranged(tab, own)
        /\ w = run[r] /\ new = run' /\ t = WrittenAt(file, w.pos + 1, Head(w.lines))
        /\ v = [w EXCEPT !.lines = Tail(@), !.pos = @ + 1]
  OBVIOUS
<1>2. /\ w \in Archiving /\ w.opened /\ w.lines # <<>> /\ w.day = d /\ tbl[r] = w /\ r \in rs
      /\ file \in Seq(Nat) /\ need \subseteq own /\ own \subseteq Nat \ {0} /\ all \in Seq(Nat)
      /\ \A o \in rs : tbl[o].opened \/ tbl[o].pos = 0
  <2>1. w \in Archiving /\ w.opened /\ w.lines # <<>>
    BY <1>1, RunIs DEF Write
  <2>2. r \in rs
    BY <1>1 DEF Runs
  <2>3. /\ file \in Seq(Nat) /\ need \subseteq own /\ own \subseteq Nat \ {0} /\ all \in Seq(Nat)
        /\ \A o \in rs : tbl[o].opened \/ tbl[o].pos = 0
    BY <1>1, DayFacts
  <2> QED BY <1>1, <2>1, <2>2, <2>3
<1>3. PICK lines \in Seq(Nat \ {0}), pos \in Nat \ {0} : lines = Tail(w.lines) /\ pos = w.pos + 1
  <2>1. w.lines \in Seq(Nat \ {0}) /\ w.pos \in Nat
    BY <1>2 DEF Archiving
  <2>2. Tail(w.lines) \in Seq(Nat \ {0})
    BY <1>2, <2>1, HeadTailProperties
  <2>3. w.pos + 1 \in Nat \ {0}
    BY <2>1
  <2> QED BY <2>2, <2>3, Zenon
<1>4. v = [w EXCEPT !.lines = lines, !.pos = pos]
  BY <1>1, <1>3, Zenon
<1>5. /\ v \in Archiving /\ v.day = d /\ v.phase = w.phase /\ v.opened /\ v.pos = pos
  BY <1>2, <1>4 DEF Archiving
<1>6. /\ run' = [run EXCEPT ![r] = v] /\ files'[d] = t
      /\ logs' = logs /\ now' = now /\ past' = past
  <2>1. run' = [run EXCEPT ![r].lines = Tail(run[r].lines), ![r].pos = run[r].pos + 1]
    BY DEF Write
  <2>2. run' = [run EXCEPT ![r].lines = lines, ![r].pos = pos]
    BY <1>1, <1>3, <2>1, Zenon
  <2>3. run' = [run EXCEPT ![r] = v]
    BY <1>1, <1>4, <2>2
  <2>4. files' = [files EXCEPT ![d] = WrittenAt(files[d], run[r].pos + 1, Head(run[r].lines))]
    BY DEF Write
  <2>5. files' = [files EXCEPT ![d] = t]
    BY <1>1, <2>4, Zenon
  <2>6. files'[d] = t
    BY <2>5 DEF TypeOK
  <2> QED BY <2>3, <2>6 DEF Write
<1>7. new[r] = v /\ \A o \in rs \ {r} : new[o] = tbl[o]
  <2>1. run'[r] = v /\ \A o \in Run \ {r} : run'[o] = run[o]
    BY <1>6, RunsChange
  <2>2. rs \subseteq Run
    BY <1>1 DEF Runs
  <2> QED BY <1>1, <2>1, <2>2
<1>8. AloneDay(tab, own, rs, new, t, need, ps)
  <2> SUFFICES ASSUME {"shared", "broken"} \cap ps = {}
               PROVE  rs = {r} /\ AloneOK(tab, own, v, t, need)
    BY <1>7 DEF AloneDay
  <2>1. rs = {r} /\ AloneOK(tab, own, w, file, need)
    BY <1>1, <1>2 DEF DayAt, AloneDay
  <2>2. /\ v = [w EXCEPT !.lines = Tail(@), !.pos = @ + 1]
        /\ t = WrittenAt(file, w.pos + 1, Head(w.lines))
    BY <1>1
  <2> QED BY <2>1, <2>2, <1>2, AloneWrite
<1>9. TogetherDay(tab, own, rs, new, t, need, ps)
  <2> SUFFICES ASSUME {"disturbed", "late", "broken"} \cap ps = {}
               PROVE  TogetherOK(rs, new, t, all, need)
    BY <1>1 DEF TogetherDay
  <2>1. TogetherOK(rs, tbl, file, all, need)
    BY <1>1, <1>2 DEF DayAt, TogetherDay
  <2>2. FollowsOK(all, w) /\ Len(all) \in Nat
    BY <1>2, <2>1, LenProperties DEF TogetherOK
  <2>3. /\ FollowsOK(all, v) /\ Reaches(v) = Reaches(w)
        /\ w.pos + 1 \in 1 .. Len(all) /\ Head(w.lines) = all[w.pos + 1]
    <3>1. v = [w EXCEPT !.lines = Tail(@), !.pos = @ + 1]
      BY <1>1
    <3> QED BY <1>2, <2>2, <3>1, FollowsWrite
  <2>4. t = WrittenAt(file, w.pos + 1, all[w.pos + 1])
    BY <1>1, <2>3
  <2>5. w.pos \in Nat /\ v.pos = w.pos + 1 /\ \A i \in need : i # Hole
    BY <1>2, <1>3, <1>5 DEF Archiving, Hole
  <2> QED BY <1>2, <1>5, <1>7, <2>1, <2>3, <2>4, <2>5, TogetherWrite
<1>10. /\ AloneDay(logs, OfDay(d), Runs(d), run', files'[d], Needed(d), past'[d])
       /\ TogetherDay(logs, OfDay(d), Runs(d), run', files'[d], Needed(d), past'[d])
  BY <1>1, <1>6, <1>8, <1>9
<1> QED BY <1>5, <1>6, <1>10, DayStays

LEMMA DayEnd ==
  ASSUME TypeOK, OwnLinesOnly, NEW r \in Run, run[r] # Idle, NEW d \in Day, run[r].day = d,
         DayAt(d), End(r)
  PROVE  DayAt(d)'
<1>1. PICK own, need, due, over, rs, tbl, file, ps, tab, all, w, new :
        /\ own = OfDay(d) /\ need = Needed(d) /\ due = Due(d) /\ over = (now >= LastMinute(d))
        /\ rs = Runs(d) /\ tbl = run
        /\ file = files[d] /\ ps = past[d] /\ tab = logs /\ all = Arranged(tab, own)
        /\ w = run[r] /\ new = run'
  OBVIOUS
<1>2. /\ w \in Archiving /\ w.phase = "fetched" /\ w.opened /\ w.lines = <<>> /\ w.pos \in Nat
      /\ tbl[r] = w /\ r \in rs
  <2>1. w \in Archiving /\ w.phase = "fetched" /\ w.opened /\ w.lines = <<>>
    BY <1>1, RunIs DEF End
  <2>2. r \in rs
    BY <1>1 DEF Runs
  <2> QED BY <1>1, <2>1, <2>2 DEF Archiving
<1>3. /\ file \in Seq(Nat) /\ due \subseteq own /\ own \subseteq Nat \ {0} /\ all \in Seq(Nat)
      /\ Ascends(tab, all) /\ (over => need = due)
  BY <1>1, DayFacts
<1>4. /\ run' = [run EXCEPT ![r] = Idle]
      /\ logs' = logs /\ now' = now /\ past' = past /\ files' = files
  BY DEF End
<1>5. Runs(d)' = rs \ {r} /\ \A o \in rs \ {r} : new[o] = tbl[o]
  <2>1. Runs(d)' = Runs(d) \ {r} /\ \A o \in Run \ {r} : run'[o] = run[o]
    BY <1>4, RunsChange
  <2>2. rs \subseteq Run
    BY <1>1 DEF Runs
  <2> QED BY <1>1, <2>1, <2>2
<1>6. OfDay(d)' = own /\ Due(d)' = due /\ Needed(d)' = need
  <2>1. (now' >= LastMinute(d)) = (now >= LastMinute(d))
    BY <1>4
  <2> QED BY <1>1, <1>4, <2>1, SameEntries
<1>7. ASSUME {"shared", "broken"} \cap ps = {}
      PROVE  rs = {r} /\ AloneOK(tab, own, w, file, need)
  BY <1>1, <1>2, <1>7 DEF DayAt, AloneDay
<1>8. ASSUME {"disturbed", "late", "broken"} \cap ps = {}
      PROVE  TogetherOK(rs, tbl, file, all, need)
  BY <1>1, <1>2, <1>8 DEF DayAt, TogetherDay
<1>9. AloneDay(tab, own, rs \ {r}, new, file, need, ps)
  BY <1>7 DEF AloneDay
<1>10. TogetherDay(tab, own, rs \ {r}, new, file, need, ps)
  <2> SUFFICES ASSUME {"disturbed", "late", "broken"} \cap ps = {}
               PROVE  TogetherOK(rs \ {r}, new, file, all, need)
    BY <1>1 DEF TogetherDay
  <2> QED BY <1>2, <1>3, <1>5, <1>8, TogetherEnd
<1>11. EndedDay(over, tab, rs \ {r}, file, due, ps)
  <2> SUFFICES ASSUME over, rs = {r}, {"broken", "late"} \cap ps = {},
                      ~ {"shared", "disturbed"} \subseteq ps
               PROVE  CompleteOK(tab, file, due, ps)
    BY <1>2 DEF EndedDay
  <2>1. CASE "shared" \notin ps
    <3>1. AloneOK(tab, own, w, file, due)
      BY <2>1, <1>3, <1>7
    <3>2. Emits(w, file) = file
      BY <1>2, <1>3, ConcatEmptySeq DEF Emits
    <3>3. ToSet(file) \subseteq own /\ Ascends(tab, file) /\ due \subseteq ToSet(file)
      BY <3>1, <3>2, <1>2 DEF AloneOK
    <3>4. Hole \notin ToSet(file)
      BY <3>3, <1>3 DEF Hole
    <3> QED BY <3>3, <3>4 DEF CompleteOK, Ascends
  <2>2. CASE "shared" \in ps
    <3>1. InPlace(file, all) /\ due \subseteq ToSet(file)
      <4>1. TogetherOK(rs, tbl, file, all, due)
        BY <2>2, <1>3, <1>8
      <4> QED BY <4>1, <1>2, <1>3, TogetherEnd
    <3>2. ASSUME NEW k \in DOMAIN file, NEW l \in DOMAIN file, k < l,
                 {file[k], file[l]} \subseteq due
          PROVE  InFront(tab, file[k], file[l])
      <4>1. file[k] = all[k] /\ file[l] = all[l]
        BY <3>1, <3>2, <1>3 DEF InPlace, Hole
      <4>2. k \in DOMAIN all /\ l \in DOMAIN all
        <5>1. DOMAIN file = 1 .. Len(file) /\ DOMAIN all = 1 .. Len(all)
              /\ Len(file) \in Nat /\ Len(all) \in Nat
          BY <1>3, LenProperties
        <5>2. Len(file) <= Len(all)
          BY <3>1 DEF InPlace
        <5> QED BY <5>1, <5>2
      <4> QED BY <4>1, <4>2, <3>2, <1>3 DEF Ascends
    <3> QED BY <3>1, <3>2, <2>2 DEF CompleteOK
  <2> QED BY <2>1, <2>2
<1>12. /\ (now' >= LastMinute(d)) = over /\ files'[d] = file /\ past'[d] = ps /\ logs' = tab
       /\ run' = new
  BY <1>1, <1>4
<1> QED BY <1>5, <1>6, <1>9, <1>10, <1>11, <1>12 DEF DayAt

(* What is stored does a day no harm: what is needed of it is known, or    *)
(* nothing of it yet.                                                      *)
LEMMA StillNeeded ==
  ASSUME TypeOK, NEW e \in Log, e.receivedAt = now, logs' = Append(logs, e), now' = now,
         NEW d \in Day
  PROVE  Needed(d)' = Needed(d) /\ (now >= LastMinute(d) => Due(d)' = Due(d))
<1>1. now \in Nat /\ LastMinute(d) \in Nat
  BY Minutes DEF TypeOK
<1>2. PICK new : new = Len(logs) + 1
  OBVIOUS
<1>3. /\ logs'[new] = e /\ new \notin DOMAIN logs
      /\ \A i \in DOMAIN logs : logs'[i] = logs[i]
      /\ OfDay(d)' = OfDay(d) \/ OfDay(d)' = OfDay(d) \cup {new}
      /\ OfDay(d) \subseteq DOMAIN logs
  BY <1>2, Added, OfDayIs DEF TypeOK
<1>4. ASSUME now >= LastMinute(d) PROVE Due(d)' = Due(d)
  <2>1. Due(d)' = {i \in OfDay(d)' : logs'[i].receivedAt < LastMinute(d)}
    BY DEF Due, LastMinute
  <2>2. ~(logs'[new].receivedAt < LastMinute(d))
    BY <1>1, <1>3, <1>4
  <2> QED BY <1>3, <2>1, <2>2 DEF Due
<1>5. (now' >= LastMinute(d)) = (now >= LastMinute(d))
  OBVIOUS
<1> QED BY <1>4, <1>5 DEF Needed

LEMMA DayCreate ==
  ASSUME TypeOK, OwnLinesOnly, NEW d \in Day, DayAt(d), NEW t \in Time, NEW e \in Log,
         e = [timestamp |-> t, receivedAt |-> now], logs' = Append(logs, e),
         past' = IF OutOfOrder(t) /\ Runs(DayOf(t)) # {}
                   THEN [past EXCEPT ![DayOf(t)] = @ \cup {"disturbed"}] ELSE past,
         now' = now, files' = files, run' = run
  PROVE  DayAt(d)'
<1>1. PICK own, need, due, over, rs, file, ps, tab, all, new, more, own2, ps2, due2 :
        /\ own = OfDay(d) /\ need = Needed(d) /\ due = Due(d) /\ over = (now >= LastMinute(d))
        /\ rs = Runs(d) /\ file = files[d] /\ ps = past[d] /\ tab = logs
        /\ all = Arranged(tab, own) /\ new = Len(tab) + 1 /\ more = logs'
        /\ own2 = OfDay(d)' /\ ps2 = past'[d] /\ due2 = Due(d)'
  OBVIOUS
<1>2. /\ tab \in Seq(Log) /\ own \in SUBSET DOMAIN tab /\ own \subseteq Nat \ {0}
      /\ file \in Seq(Nat) /\ ToSet(file) \subseteq own \cup {Hole}
      /\ due \subseteq own /\ need \in SUBSET own /\ all \in Seq(Nat)
      /\ \A r \in rs : run[r] \in Archiving /\ (run[r].last = 0 \/ run[r].last \in own)
  BY <1>1, DayFacts DEF TypeOK
<1>3. more = Append(tab, e)
  BY <1>1
<1>4. own2 = own \/ (own2 = own \cup {new} /\ DayOf(t) = d)
  BY <1>1, Added DEF TypeOK
<1>5. Needed(d)' = need /\ (over => due2 = due) /\ (now' >= LastMinute(d)) = over
  <2>1. e.receivedAt = now
    OBVIOUS
  <2> QED BY <1>1, <2>1, StillNeeded
<1>6. Runs(d)' = rs
  BY <1>1 DEF Runs, Idle
<1>7. /\ ps \subseteq ps2
      /\ (own2 # own /\ rs # {} /\ "disturbed" \notin ps2) => ~OutOfOrder(t)
      /\ rs = {} => ps2 = ps
  <2>1. ASSUME own2 # own, rs # {}, OutOfOrder(t) PROVE "disturbed" \in ps2
    BY <2>1, <1>1, <1>4 DEF TypeOK
  <2>2. ps \subseteq ps2
    BY <1>1 DEF TypeOK
  <2>3. ASSUME rs = {} PROVE ps2 = ps
    <3>1. CASE DayOf(t) = d
      BY <3>1, <2>3, <1>1
    <3>2. CASE DayOf(t) # d
      BY <3>2, <1>1 DEF TypeOK
    <3> QED BY <3>1, <3>2
  <2> QED BY <2>1, <2>2, <2>3
<1>0. /\ \A i, j \in DOMAIN tab : InFront(Append(tab, e), i, j) = InFront(tab, i, j)
      /\ Arranged(Append(tab, e), own) = Arranged(tab, own)
      /\ (\A i \in own : tab[i].timestamp <= e.timestamp) =>
           Arranged(Append(tab, e), own \cup {Len(tab) + 1}) = Append(Arranged(tab, own), Len(tab) + 1)
  <2>1. tab \in Seq(Log) /\ own \in SUBSET DOMAIN tab
    BY <1>2
  <2> QED BY <2>1, ArrangedAppend
<1>8. \A i, j \in DOMAIN tab : InFront(more, i, j) = InFront(tab, i, j)
  BY <1>0, <1>3
<1>9. AloneDay(more, own2, rs, run, file, need, ps2)
  <2> SUFFICES ASSUME {"shared", "broken"} \cap ps2 = {}, NEW r \in rs
               PROVE  rs = {r} /\ AloneOK(more, own2, run[r], file, need)
    BY DEF AloneDay
  <2>1. rs = {r} /\ AloneOK(tab, own, run[r], file, need)
    BY <1>1, <1>7 DEF DayAt, AloneDay
  <2>2. own \subseteq own2
    BY <1>4
  <2>3. AloneOK(Append(tab, e), own2, run[r], file, need)
    BY <1>2, <2>1, <2>2, AloneAdded
  <2> QED BY <2>1, <2>3, <1>3
<1>10. TogetherDay(more, own2, rs, run, file, need, ps2)
  <2> SUFFICES ASSUME rs # {}, {"disturbed", "late", "broken"} \cap ps2 = {}
               PROVE  TogetherOK(rs, run, file, Arranged(more, own2), need)
    BY DEF TogetherDay
  <2>1. TogetherOK(rs, run, file, all, need)
    BY <1>1, <1>7 DEF DayAt, TogetherDay
  <2>2. CASE own2 = own
    <3>1. Arranged(more, own2) = all
      BY <2>2, <1>0, <1>1, <1>3
    <3> QED BY <2>1, <3>1
  <2>3. CASE own2 # own
    <3>1. own2 = own \cup {new} /\ DayOf(t) = d /\ ~OutOfOrder(t)
      BY <2>3, <1>4, <1>7
    <3>2. \A i \in own : tab[i].timestamp <= e.timestamp
      <4>1. \A i \in own : ~(tab[i].timestamp > t)
        BY <3>1, <1>1 DEF OutOfOrder
      <4>2. \A i \in own : tab[i].timestamp \in Nat
        <5>1. \A i \in DOMAIN tab : tab[i] \in Log
          BY <1>2, ElementOfSeq, LenProperties
        <5>2. \A x \in Log : x.timestamp \in Nat
          BY DEF Log, Time
        <5> QED BY <1>2, <5>1, <5>2
      <4>3. e.timestamp = t /\ t \in Nat
        BY Minutes
      <4> QED BY <4>1, <4>2, <4>3
    <3>3. Arranged(Append(tab, e), own \cup {Len(tab) + 1}) = Append(Arranged(tab, own), Len(tab) + 1)
      BY <1>0, <3>2
    <3>4. Arranged(more, own2) = Append(all, new)
      BY <3>1, <3>3, <1>1, <1>3
    <3>5. new \in Nat
      BY <1>1, <1>2, LenProperties
    <3>6. TogetherOK(rs, run, file, Append(all, new), need)
      <4>1. /\ \A o \in rs : run[o] \in Archiving
            /\ file \in Seq(Nat) /\ all \in Seq(Nat)
        BY <1>2
      <4> QED BY <2>1, <3>5, <4>1, TogetherAdded
    <3> QED BY <3>4, <3>6
  <2> QED BY <2>2, <2>3
<1>11. EndedDay(over, more, rs, file, due2, ps2)
  <2> SUFFICES ASSUME over, rs = {}, {"broken", "late"} \cap ps = {},
                      ~ {"shared", "disturbed"} \subseteq ps
               PROVE  CompleteOK(more, file, due, ps)
    BY <1>5, <1>7 DEF EndedDay
  <2>1. CompleteOK(tab, file, due, ps)
    BY <1>1 DEF DayAt, EndedDay
  <2>2. \A k \in DOMAIN file : file[k] \in own \cup {Hole}
    BY <1>2 DEF ToSet
  <2>3. \A k, l \in DOMAIN file :
          k < l /\ {file[k], file[l]} \subseteq due => InFront(more, file[k], file[l])
    BY <2>1, <1>2, <1>8 DEF CompleteOK
  <2>4. ASSUME Hole \notin ToSet(file), Ascends(tab, file) PROVE Ascends(more, file)
    <3>1. \A k \in DOMAIN file : file[k] \in DOMAIN tab
      BY <2>2, <2>4, <1>2 DEF ToSet
    <3> QED BY <2>4, <3>1, <1>8 DEF Ascends
  <2> QED BY <2>1, <2>3, <2>4 DEF CompleteOK
<1> QED BY <1>1, <1>5, <1>6, <1>9, <1>10, <1>11 DEF DayAt

---------------------------------------------------------------------------
(* All the days.                                                           *)
LEMMA OverSame ==
  ASSUME TypeOK, now' = now \/ (now' = now + 1 /\ now + 1 \in Time), NEW d \in Day,
         now' = now \/ DayOf(now + 1) # d
  PROVE  (now' >= LastMinute(d)) = (now >= LastMinute(d))
<1>1. now \in Nat /\ LastMinute(d) \in Nat /\ DayOf(LastMinute(d)) = d
  BY Minutes DEF TypeOK
<1>2. ASSUME now' = now + 1, DayOf(now + 1) # d PROVE now + 1 # LastMinute(d)
  BY <1>1, <1>2
<1>3. PICK m \in Nat : m = LastMinute(d)
  BY <1>1
<1>4. CASE now' = now
  BY <1>4
<1>5. CASE now' # now
  <2>1. now' = now + 1 /\ now + 1 # m
    BY <1>2, <1>3, <1>5
  <2>2. now' >= m <=> now >= m
    BY <1>1, <2>1
  <2> QED BY <1>3, <2>2
<1> QED BY <1>4, <1>5

LEMMA StartStep ==
  ASSUME TypeOK, OwnLinesOnly, \A c \in Day : DayAt(c), NEW r \in Run, NEW d \in Day,
         Start(r, d), logs' = logs, files' = files,
         \A c \in Day \ {d} : (now' >= LastMinute(c)) = (now >= LastMinute(c))
  PROVE  \A c \in Day : DayAt(c)'
<1>1. DayAt(d)'
  BY DayStart
<1>2. PICK v : v = [phase |-> "fetching", day |-> d, opened |-> FALSE,
                    last |-> 0, lines |-> <<>>, pos |-> 0]
  OBVIOUS
<1>3. /\ run[r] = Idle /\ v.day = d /\ run' = [run EXCEPT ![r] = v]
      /\ \A c \in Day \ {d} : past'[c] = past[c]
  BY <1>2 DEF Start, TypeOK
<1>4. \A c \in Day \ {d} : DayAt(c)'
  BY <1>3, OtherDays
<1> QED BY <1>1, <1>4

LEMMA RunStep ==
  ASSUME TypeOK, OwnLinesOnly, \A c \in Day : DayAt(c), NEW r \in Run,
         Archive(r) \/ CursorFails(r)
  PROVE  \A c \in Day : DayAt(c)'
<1>1. run[r] # Idle /\ run[r] \in Archiving /\ logs' = logs /\ now' = now
  BY RunIs DEF Archive, Open, Fetch, Write, End, CursorFails
<1>2. PICK d \in Day : run[r].day = d
  BY <1>1 DEF Archiving
<1>3. DayAt(d)'
  BY <1>1, <1>2, DayOpen, DayFetch, DayWrite, DayEnd, DayFails DEF Archive
<1>4. \A c \in Day \ {d} : files'[c] = files[c] /\ past'[c] = past[c]
  BY <1>2 DEF Archive, Open, Fetch, Write, End, CursorFails, TypeOK
<1>5. \E v : run' = [run EXCEPT ![r] = v] /\ (v = Idle \/ v.day = d)
  <2>1. CASE End(r)
    BY <2>1 DEF End
  <2>2. CASE Open(r)
    <3>1. [run[r] EXCEPT !.opened = TRUE].day = d
      BY <1>1, <1>2 DEF Archiving
    <3> QED BY <2>2, <3>1 DEF Open
  <2>3. CASE CursorFails(r)
    <3>1. [run[r] EXCEPT !.phase = "fetched"].day = d
      BY <1>1, <1>2 DEF Archiving
    <3> QED BY <2>3, <3>1 DEF CursorFails
  <2>4. CASE Fetch(r)
    <3>1. PICK batch, lines, last : /\ batch = First(Rest(r), Batch)
                                    /\ lines = run[r].lines \o batch /\ last = Last(batch)
      OBVIOUS
    <3>2. run' = IF batch = <<>>
                   THEN [run EXCEPT ![r].phase = "fetched"]
                   ELSE [run EXCEPT ![r].lines = @ \o batch, ![r].last = Last(batch)]
      BY <2>4, <3>1 DEF Fetch
    <3>3. CASE batch = <<>>
      <4>1. [run[r] EXCEPT !.phase = "fetched"].day = d
        BY <1>1, <1>2 DEF Archiving
      <4> QED BY <3>2, <3>3, <4>1
    <3>4. CASE batch # <<>>
      <4>1. run' = [run EXCEPT ![r].lines = lines, ![r].last = last]
        BY <3>1, <3>2, <3>4, Zenon
      <4>2. PICK v : v = [run[r] EXCEPT !.lines = lines, !.last = last]
        OBVIOUS
      <4>3. v.day = d
        BY <1>1, <1>2, <4>2 DEF Archiving
      <4>4. run' = [run EXCEPT ![r] = v]
        BY <4>1, <4>2
      <4> QED BY <4>3, <4>4
    <3> QED BY <3>3, <3>4
  <2>5. CASE Write(r)
    <3>1. PICK lines, pos : lines = Tail(run[r].lines) /\ pos = run[r].pos + 1
      OBVIOUS
    <3>2. run' = [run EXCEPT ![r].lines = lines, ![r].pos = pos]
      <4>1. run' = [run EXCEPT ![r].lines = Tail(run[r].lines), ![r].pos = run[r].pos + 1]
        BY <2>5 DEF Write
      <4> QED BY <3>1, <4>1, Zenon
    <3>3. PICK v : v = [run[r] EXCEPT !.lines = lines, !.pos = pos]
      OBVIOUS
    <3>4. v.day = d
      BY <1>1, <1>2, <3>3 DEF Archiving
    <3>5. run' = [run EXCEPT ![r] = v]
      BY <3>2, <3>3
    <3> QED BY <3>4, <3>5
  <2> QED BY <2>1, <2>2, <2>3, <2>4, <2>5 DEF Archive
<1>6. PICK v : run' = [run EXCEPT ![r] = v] /\ (v = Idle \/ v.day = d)
  BY <1>5
<1>7. \A c \in Day \ {d} : DayAt(c)'
  <2>1. \A c \in Day \ {d} : (now' >= LastMinute(c)) = (now >= LastMinute(c))
    BY <1>1
  <2> QED BY <1>1, <1>2, <1>4, <1>6, <2>1, OtherDays
<1> QED BY <1>3, <1>7

LEMMA DaysAfter == DaysKept' <=> \A c \in Day : DayAt(c)'
<1> DEFINE Each == \A c \in Day : DayAt(c)
<1>1. DaysKept <=> Each
  BY DaysAre
<1> HIDE DEF Each
<1>2. DaysKept' <=> Each'
  BY <1>1, PTL
<1>3. Each' <=> \A c \in Day : DayAt(c)'
  BY DEF Each
<1> QED BY <1>2, <1>3

LEMMA DaysStep == TypeOK /\ OwnLinesOnly /\ DaysKept /\ [Next]_vars => DaysKept'
<1> SUFFICES ASSUME TypeOK, OwnLinesOnly, \A c \in Day : DayAt(c), [Next]_vars
             PROVE  \A c \in Day : DayAt(c)'
  <2>1. DaysKept' <=> \A c \in Day : DayAt(c)'
    BY DaysAfter
  <2> QED BY <2>1, DaysAre
<1>1. CASE Create
  <2>1. PICK t \in Time, e \in Log :
          /\ e = [timestamp |-> t, receivedAt |-> now] /\ logs' = Append(logs, e)
          /\ past' = IF OutOfOrder(t) /\ Runs(DayOf(t)) # {}
                       THEN [past EXCEPT ![DayOf(t)] = @ \cup {"disturbed"}] ELSE past
          /\ now' = now /\ files' = files /\ run' = run
    BY <1>1, Creates
  <2> QED BY <2>1, DayCreate
<1>2. ASSUME NEW r \in Run, Fire(r) PROVE \A c \in Day : DayAt(c)'
  <2>1. PICK d \in Day : d = DayOf(now + 1)
    BY <1>2, Minutes DEF Fire
  <2>2. /\ Start(r, d) /\ now' = now + 1 /\ now + 1 \in Time /\ logs' = logs /\ files' = files
    BY <1>2, <2>1 DEF Fire
  <2>3. \A c \in Day \ {d} : (now' >= LastMinute(c)) = (now >= LastMinute(c))
    BY <2>1, <2>2, OverSame
  <2> QED BY <2>2, <2>3, StartStep
<1>3. ASSUME NEW r \in Run, StartupFires(r) PROVE \A c \in Day : DayAt(c)'
  <2>1. PICK d \in Day : d = 0
    BY Minutes
  <2>2. /\ Start(r, d) /\ now' = now /\ logs' = logs /\ files' = files
    BY <1>3, <2>1 DEF StartupFires
  <2>3. \A c \in Day \ {d} : (now' >= LastMinute(c)) = (now >= LastMinute(c))
    BY <2>2
  <2> QED BY <2>2, <2>3, StartStep
<1>4. ASSUME NEW r \in Run, Archive(r) \/ CursorFails(r) PROVE \A c \in Day : DayAt(c)'
  BY <1>4, RunStep
<1>5. ASSUME UNCHANGED <<store, logs>> PROVE \A c \in Day : DayAt(c)'
  <2> SUFFICES ASSUME NEW c \in Day PROVE DayAt(c)'
    OBVIOUS
  <2>1. logs' = logs /\ files' = files /\ past' = past /\ now' = now /\ run' = run
    BY <1>5 DEF store
  <2>2. Runs(c)' = Runs(c)
    BY <2>1 DEF Runs, Idle
  <2>3. (now' >= LastMinute(c)) = (now >= LastMinute(c))
    BY <2>1
  <2> QED BY <2>1, <2>2, <2>3, DaySame
<1>6. ASSUME NEW q \in Query, Find(q) \/ CountDocuments(q) \/ Answer(q)
      PROVE  UNCHANGED <<store, logs>>
  BY <1>6 DEF Find, CountDocuments, Answer
<1>7. CASE UNCHANGED vars
  BY <1>5, <1>7 DEF vars
<1> QED BY <1>1, <1>2, <1>3, <1>4, <1>5, <1>6, <1>7 DEF Next

LEMMA DaysInit == Init => DaysKept
<1> SUFFICES ASSUME Init PROVE DaysKept
  OBVIOUS
<1>1. \A d : Runs(d) = {}
  BY DEF Init, Runs
<1>2. \A d : Due(d) = {}
  <2>1. DOMAIN logs = {}
    BY EmptySeq, LenProperties DEF Init
  <2> QED BY <2>1 DEF Due, OfDay, Id
<1>3. \A d \in Day : ToSet(files[d]) = {} /\ DOMAIN files[d] = {}
  <2>1. DOMAIN <<>> = {}
    BY EmptySeq, LenProperties
  <2> QED BY <2>1 DEF Init, ToSet
<1>4. \A d \in Day : Complete(d)
  BY <1>2, <1>3 DEF Complete, InOrder, Ascending
<1> QED BY <1>1, <1>4 DEF DaysKept, RunsAlone, RunsTogether, EndedComplete

(* What holds of every state: of the lines, the pages and the days.        *)
THEOREM Invariance == Spec => []ArchiveInv
<1>1. Init => TypeOK /\ OwnLinesOnly /\ PagesKept /\ DaysKept
  BY TypeInit, OwnInit, PagesInit, DaysInit
<1>2. TypeOK /\ OwnLinesOnly /\ PagesKept /\ DaysKept /\ [Next]_vars =>
        (TypeOK /\ OwnLinesOnly /\ PagesKept /\ DaysKept)'
  BY KeptStep, DaysStep
<1>3. TypeOK /\ OwnLinesOnly /\ PagesKept /\ DaysKept => ArchiveInv
  BY OwnIs DEF PagesKept, DaysKept, ArchiveInv
<1> QED BY <1>1, <1>2, <1>3, PTL DEF Spec

(* A day that is over, whose runs have ended, is archived in full: runs    *)
(* that overlap lose nothing if entries come in order, entries out of      *)
(* order do no harm if runs do not overlap, and what a run left broken the *)
(* next mends.                                                             *)
THEOREM ArchivedWhenIntact == Spec => []ArchivedInFull
<1>1. ArchiveInv => ArchivedInFull
  <2>1. ASSUME TypeOK PROVE \A d \in Day : DayOf(now) > d => now >= LastMinute(d)
    BY <2>1, Minutes DEF TypeOK
  <2> QED BY <2>1 DEF ArchiveInv, EndedComplete, ArchivedInFull
<1> QED BY <1>1, Invariance, PTL
===========================================================================
