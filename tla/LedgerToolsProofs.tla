-------------------------- MODULE LedgerToolsProofs --------------------------
(***************************************************************************)
(* For every plan, ledger and sequence of calls and changes:               *)
(*                                                                         *)
(* The updates of an analysis keep the copy of a client equal to what the  *)
(* server has. The argument needs no figure: a list of anomalies has one   *)
(* entry for a category, so an entry of the old list is in the new one, or *)
(* removed, or replaced by the one that is compared with it.               *)
(*                                                                         *)
(* A walk through pages delivers what it should. Every page is cut from    *)
(* the one list of what belongs to the walk at that time, in an order of   *)
(* all that may ever belong to it, which the ledger does not change: the   *)
(* place of an item in the list moves back only by what comes and forward  *)
(* only by what leaves.                                                    *)
(*                                                                         *)
(* The variables keep their types.                                         *)
(*                                                                         *)
(* The history of the net worth tells what was booked up to the end of     *)
(* every month: a sum is a function of the set that is summed, whatever    *)
(* the order, so what was read, what is booked now and what is taken out   *)
(* for later months add up, account by account.                            *)
(*                                                                         *)
(* The flows add up: the months of a plan follow one another, so a row     *)
(* that was booked within a range was booked in one month of it, and what  *)
(* is summed by month, category, group or payee is summed once; a change   *)
(* is the sum of what each row adds to it, so a driver that is not shown   *)
(* adds nothing.                                                           *)
(*                                                                         *)
(* The figures agree: what one tool counts and another leaves out adds     *)
(* nothing, since closed accounts are empty and only goals are             *)
(* underfunded, and the rounding of a day's share is too small to call     *)
(* urgent what is solid. Two reads of a month under two keys differ by the *)
(* sums of what one has and the other lacks, and by no category without    *)
(* such a booking.                                                         *)
(*                                                                         *)
(* The schedules agree: a due date is a number of steps from the first     *)
(* date, so where every month has the day, dates that are counted on from  *)
(* a later date are dates of the same schedule, and what the owner did not *)
(* edit is shown by the cache as by the plan. At the end of months dates   *)
(* that are counted on run over into the next by three days at most, and   *)
(* so do those of twice a month while the cached date is not over.         *)
(***************************************************************************)
EXTENDS LedgerTools, FiniteSetTheorems, SequenceTheorems, WellFoundedInduction, TLAPS

\* No two entries of a list have one id.
OnePerId(list) == \A d, e \in list : d.id = e.id => d = e

\* An entry is what its id and the three figures make it.
IsAnomaly(e) ==
  e = [id |-> e.id, spent |-> e.spent, baseline |-> e.baseline, percent |-> e.percent]

\* A list of anomalies as the tools make it.
WellFormed(list) == OnePerId(list) /\ \A e \in list : IsAnomaly(e)

\* The copy is the list of the server, which is well formed.
DeltaInv ==
  /\ copy = session
  /\ session # None => WellFormed(session)

-----------------------------------------------------------------------------
\* What is found of categories with different ids is well formed.
LEMMA FoundIsWellFormed ==
  ASSUME NEW latest, NEW lookups, NEW threshold, NEW minimum, NEW topN, OnePerId(latest)
  PROVE  WellFormed(SpendingAnomalies(latest, lookups, threshold, minimum, topN))
PROOF
<1> DEFINE n         == Len(lookups)
           before(c) == SpentBefore(lookups, c.id)
           excess(c) == n * Spent(c.activity) - before(c)
           flagged   == {c \in latest :
                           /\ n > 0
                           /\ before(c) > 0
                           /\ threshold[2] * n * Spent(c.activity) >= threshold[1] * before(c)
                           /\ excess(c) >= n * minimum}
           ahead(c)  == {d \in flagged :
                           excess(d) > excess(c) \/ (excess(d) = excess(c) /\ d.id < c.id)}
           shown     == {c \in flagged : Cardinality(ahead(c)) < topN}
           entry(c)  == [id |-> c.id, spent |-> Spent(c.activity),
                         baseline |-> Round(before(c), n),
                         percent |-> Round(10000 * excess(c), before(c))]
           found     == SpendingAnomalies(latest, lookups, threshold, minimum, topN)
<1>1. \A e \in found : \E c \in latest : e = entry(c)
  <2>1. found = {entry(c) : c \in shown}
    BY DEF SpendingAnomalies
  <2>2. shown \subseteq latest
    <3> HIDE DEF n, before, excess, ahead
    <3> QED
      OBVIOUS
  <2> HIDE DEF found, shown, entry
  <2> QED
    BY <2>1, <2>2
<1> HIDE DEF found
<1>2. \A e \in found : IsAnomaly(e)
  BY <1>1 DEF IsAnomaly
<1>3. \A c : entry(c).id = c.id
  OBVIOUS
<1>4. OnePerId(found)
  <2> SUFFICES ASSUME NEW d \in found, NEW e \in found, d.id = e.id
               PROVE  d = e
    BY DEF OnePerId
  <2>1. PICK b \in latest : d = entry(b)
    BY <1>1
  <2>2. PICK c \in latest : e = entry(c)
    BY <1>1
  <2> HIDE DEF entry
  <2>3. b = c
    BY <1>3, <2>1, <2>2 DEF OnePerId
  <2> QED
    BY <2>1, <2>2, <2>3
<1> QED
  BY <1>2, <1>4 DEF WellFormed, found

\* The categories of a month have different ids, of whatever plan they are.
LEMMA CategoriesHaveIds ==
  ASSUME NEW a, NEW month
  PROVE  OnePerId(Watched(CategoriesRead(a, month)))
PROOF
<1>1. Watched(CategoriesRead(a, month)) \subseteq CategoriesRead(a, month)
  BY DEF Watched, Visible
<1>2. OnePerId(OtherCategories(month))
  <2> SUFFICES ASSUME NEW d \in OtherCategories(month), NEW e \in OtherCategories(month),
                      d.id = e.id
               PROVE  d = e
    BY DEF OnePerId
  <2> DEFINE shown(c) == [id |-> c, activity |-> -OtherSpent[c][month], card |-> FALSE,
                          hidden |-> FALSE, deleted |-> FALSE]
  <2>1. PICK b \in DOMAIN OtherSpent : d = shown(b)
    BY DEF OtherCategories
  <2>2. PICK c \in DOMAIN OtherSpent : e = shown(c)
    BY DEF OtherCategories
  <2>3. d.id = b /\ e.id = c
    BY <2>1, <2>2
  <2> QED
    BY <2>1, <2>2, <2>3
<1>3. ASSUME NEW live
      PROVE  OnePerId(CategoriesAt(live, month))
  <2> SUFFICES ASSUME NEW d \in CategoriesAt(live, month), NEW e \in CategoriesAt(live, month),
                      d.id = e.id
               PROVE  d = e
    BY DEF OnePerId
  <2> DEFINE shown(c) == [id |-> c.id, group |-> c.group, card |-> c.card, hidden |-> c.hidden,
               deleted |-> c.deleted, budgeted |-> c.budgeted, goal |-> c.goal,
               underfunded |-> c.underfunded, activity |-> Activity(live, c.id, month),
               balance |-> c.budgeted + Activity(live, c.id, month)]
  <2>1. PICK b \in Categories : d = shown(b)
    BY DEF CategoriesAt
  <2>2. PICK c \in Categories : e = shown(c)
    BY DEF CategoriesAt
  <2>3. d.id = b.id /\ e.id = c.id
    BY <2>1, <2>2
  <2>4. b = c
    BY <2>3, CategoryIds
  <2> QED
    BY <2>1, <2>2, <2>4
<1> QED
  BY <1>1, <1>2, <1>3 DEF CategoriesRead, OnePerId

\* What an analysis finds is well formed.
LEMMA AnomaliesAreWellFormed ==
  ASSUME NEW a
  PROVE  WellFormed(Anomalies(a))
BY FoundIsWellFormed, CategoriesHaveIds DEF Anomalies

\* An update turns any list into the current one.
LEMMA PatchRestores ==
  ASSUME NEW current, NEW previous, WellFormed(current), WellFormed(previous)
  PROVE  Patched(previous, UpdatedAnomalies(current, previous)) = current
PROOF
<1> DEFINE update == UpdatedAnomalies(current, previous)
<1>1. update.removed = AnomalyIds(previous) \ AnomalyIds(current)
  BY DEF UpdatedAnomalies
<1>2. update.added = {e \in current : e.id \notin AnomalyIds(previous)}
  BY DEF UpdatedAnomalies
<1>3. update.changed = ChangedAnomalies(current, previous)
  BY DEF UpdatedAnomalies
<1> HIDE DEF update
\* What stays of the old list is in the new one.
<1>4. ASSUME NEW e \in previous, e.id \notin update.removed,
             e.id \notin AnomalyIds(update.changed)
      PROVE  e \in current
  <2>1. PICK f \in current : f.id = e.id
    BY <1>1, <1>4 DEF AnomalyIds
  <2>2. f \notin update.changed
    BY <1>4, <2>1 DEF AnomalyIds
  <2>3. e.spent = f.spent /\ e.baseline = f.baseline /\ e.percent = f.percent
    BY <1>3, <2>1, <2>2 DEF ChangedAnomalies
  <2>4. e = f
    BY <2>1, <2>3 DEF WellFormed, IsAnomaly
  <2> QED
    BY <2>4
\* What is new, or changed, or as it was, is all there is.
<1>5. ASSUME NEW e \in current, e \notin update.added, e \notin update.changed
      PROVE  /\ e \in previous
             /\ e.id \notin update.removed
             /\ e.id \notin AnomalyIds(update.changed)
  <2>1. PICK p \in previous : p.id = e.id
    BY <1>2, <1>5 DEF AnomalyIds
  <2>2. e.spent = p.spent /\ e.baseline = p.baseline /\ e.percent = p.percent
    BY <1>3, <1>5, <2>1 DEF ChangedAnomalies
  <2>3. e = p
    BY <2>1, <2>2 DEF WellFormed, IsAnomaly
  <2>4. e.id \notin update.removed
    BY <1>1 DEF AnomalyIds
  <2>5. e.id \notin AnomalyIds(update.changed)
    BY <1>3, <1>5 DEF AnomalyIds, ChangedAnomalies, WellFormed, OnePerId
  <2> QED
    BY <2>3, <2>4, <2>5
<1>6. update.added \subseteq current /\ update.changed \subseteq current
  BY <1>2, <1>3 DEF ChangedAnomalies
<1> QED
  BY <1>4, <1>5, <1>6 DEF Patched, update

-----------------------------------------------------------------------------
\* DeltaInv is inductive.
LEMMA StepKeepsDelta ==
  ASSUME DeltaInv, [Next]_vars
  PROVE  DeltaInv'
PROOF
<1>1. ASSUME NEW a, Analyse(a)
      PROVE  DeltaInv'
  BY <1>1, AnomaliesAreWellFormed DEF Analyse, DeltaInv
<1>2. ASSUME NEW a, Update(a)
      PROVE  DeltaInv'
  <2>1. copy' = Anomalies(a)
    BY <1>2, AnomaliesAreWellFormed, PatchRestores DEF Update, DeltaInv
  <2> QED
    BY <1>2, <2>1, AnomaliesAreWellFormed DEF Update, DeltaInv
<1>3. ASSUME UNCHANGED <<session, copy>>
      PROVE  DeltaInv'
  BY <1>3 DEF DeltaInv
<1>4. ASSUME NEW order \in {"up", "down"}, (\E w \in Walks : StartWalk(w, order)) \/ NextPage(order)
      PROVE  UNCHANGED <<session, copy>>
  BY <1>4 DEF StartWalk, NextPage
<1>5. ASSUME NEW t, NEW status, Change(t, status)
      PROVE  UNCHANGED <<session, copy>>
  BY <1>5 DEF Change
<1>6. ASSUME NEW withMonths, Report(withMonths)
      PROVE  UNCHANGED <<session, copy>>
  BY <1>6 DEF Report
<1>7. ASSUME Pass \/ MonthTurns \/ ReadSchedule \/ Reschedule \/ \E key : MonthReport(key)
      PROVE  UNCHANGED <<session, copy>>
  BY <1>7 DEF Pass, MonthTurns, PassTo, ReadSchedule, Reschedule, MonthReport
<1>8. CASE UNCHANGED vars
  BY <1>3, <1>8 DEF vars
<1> QED
  BY <1>1, <1>2, <1>3, <1>4, <1>5, <1>6, <1>7, <1>8 DEF Next

\* A client that patches its list with every update has the list the server has,
\* whatever was booked, whichever months were cached when, and however months,
\* thresholds and plans change between two calls (GetUpdatedAnomaliesTool.ts 59-137).
THEOREM UpdatesRestoreTheList == Spec => []DeltaRestoresCurrent
PROOF
<1>1. Init => DeltaInv
  BY DEF Init, DeltaInv
<1>2. DeltaInv /\ [Next]_vars => DeltaInv'
  BY StepKeepsDelta
<1>3. DeltaInv => DeltaRestoresCurrent
  BY DEF DeltaInv, DeltaRestoresCurrent
<1> QED
  BY <1>1, <1>2, <1>3, PTL DEF Spec

-----------------------------------------------------------------------------
\* Places in an order.

\* R orders the elements of S one after the other.
Orders(R, S) ==
  /\ \A x \in S : <<x, x>> \notin R
  /\ \A x, y, z \in S : <<x, y>> \in R /\ <<y, z>> \in R => <<x, z>> \in R
  /\ \A x, y \in S : x # y => <<x, y>> \in R \/ <<y, x>> \in R

\* What comes before x.
InFront(R, S, x) == {y \in S : <<y, x>> \in R}

Place(R, S, x) == Cardinality(InFront(R, S, x)) + 1

\* A list of the elements of S as R orders them.
Lists(L, R, S) ==
  /\ L \in [1 .. Cardinality(S) -> S]
  /\ \A k \in 1 .. Cardinality(S) : Place(R, S, L[k]) = k

\* An order of a set is one of its subsets.
LEMMA OrdersSubset ==
  ASSUME NEW R, NEW S, NEW T \in SUBSET S, Orders(R, S)
  PROVE  Orders(R, T)
BY DEF Orders

\* Places go from the first to the last, and follow the order.
LEMMA PlacesFollow ==
  ASSUME NEW R, NEW S, IsFiniteSet(S), Orders(R, S), NEW x \in S
  PROVE  /\ Place(R, S, x) \in 1 .. Cardinality(S)
         /\ \A y \in S : <<x, y>> \in R => Place(R, S, x) < Place(R, S, y)
PROOF
<1>1. \A z \in S : /\ IsFiniteSet(InFront(R, S, z))
                   /\ Cardinality(InFront(R, S, z)) \in Nat
  <2> SUFFICES ASSUME NEW z \in S
               PROVE  /\ IsFiniteSet(InFront(R, S, z))
                      /\ Cardinality(InFront(R, S, z)) \in Nat
    OBVIOUS
  <2>1. InFront(R, S, z) \in SUBSET S
    BY DEF InFront
  <2>2. IsFiniteSet(InFront(R, S, z))
    BY <2>1, FS_Subset
  <2> QED
    BY <2>2, FS_CardinalityType
<1>2. Cardinality(S) \in Nat
  BY FS_CardinalityType
<1>3. Cardinality(InFront(R, S, x)) < Cardinality(S)
  <2>1. InFront(R, S, x) \in SUBSET S /\ InFront(R, S, x) # S
    BY DEF InFront, Orders
  <2>2. /\ Cardinality(InFront(R, S, x)) <= Cardinality(S)
        /\ Cardinality(S) = Cardinality(InFront(R, S, x)) => S = InFront(R, S, x)
    BY <2>1, FS_Subset
  <2> QED
    BY <1>1, <1>2, <2>1, <2>2
<1>4. ASSUME NEW y \in S, <<x, y>> \in R
      PROVE  Cardinality(InFront(R, S, x)) < Cardinality(InFront(R, S, y))
  <2>1. InFront(R, S, x) \in SUBSET InFront(R, S, y)
    BY <1>4 DEF InFront, Orders
  <2>2. InFront(R, S, x) # InFront(R, S, y)
    BY <1>4 DEF InFront, Orders
  <2>3. /\ Cardinality(InFront(R, S, x)) <= Cardinality(InFront(R, S, y))
        /\ Cardinality(InFront(R, S, y)) = Cardinality(InFront(R, S, x))
             => InFront(R, S, y) = InFront(R, S, x)
    BY <1>1, <2>1, FS_Subset
  <2> QED
    BY <1>1, <2>2, <2>3
<1> QED
  BY <1>1, <1>2, <1>3, <1>4 DEF Place

\* Every place has one element.
LEMMA PlacesDiffer ==
  ASSUME NEW R, NEW S, IsFiniteSet(S), Orders(R, S), NEW x \in S, NEW y \in S,
         Place(R, S, x) = Place(R, S, y)
  PROVE  x = y
PROOF
<1>1. /\ Place(R, S, x) \in 1 .. Cardinality(S)
      /\ \A z \in S : <<x, z>> \in R => Place(R, S, x) < Place(R, S, z)
  BY PlacesFollow
<1>2. /\ Place(R, S, y) \in 1 .. Cardinality(S)
      /\ \A z \in S : <<y, z>> \in R => Place(R, S, y) < Place(R, S, z)
  BY PlacesFollow
<1>3. Cardinality(S) \in Nat
  BY FS_CardinalityType
<1>4. <<x, y>> \notin R /\ <<y, x>> \notin R
  <2> DEFINE px == Place(R, S, x)
             py == Place(R, S, y)
  <2>1. px \in Nat /\ py \in Nat /\ px = py
    BY <1>1, <1>2, <1>3
  <2> HIDE DEF px, py
  <2>2. (<<x, y>> \in R => px < py) /\ (<<y, x>> \in R => py < px)
    BY <1>1, <1>2 DEF px, py
  <2> QED
    BY <2>1, <2>2
<1> QED
  BY <1>4 DEF Orders

LEMMA PlacesAreTaken ==
  ASSUME NEW R, NEW S, IsFiniteSet(S), Orders(R, S), NEW k \in 1 .. Cardinality(S)
  PROVE  \E x \in S : Place(R, S, x) = k
PROOF
<1> DEFINE n     == Cardinality(S)
           place == [x \in S |-> Place(R, S, x)]
<1>1. n \in Nat
  BY FS_CardinalityType
<1>2. IsFiniteSet(1 .. n) /\ Cardinality(1 .. n) = n
  BY <1>1, FS_Interval
<1>3. place \in Injection(S, 1 .. n)
  <2>1. place \in [S -> 1 .. n]
    BY PlacesFollow
  <2>2. \A x, y \in S : place[x] = place[y] => x = y
    BY PlacesDiffer
  <2> HIDE DEF place
  <2> QED
    BY <2>1, <2>2 DEF Injection, IsInjective
<1>4. place \in Surjection(S, 1 .. n)
  <2> HIDE DEF place
  <2> QED
    BY <1>2, <1>3, FS_Injection
<1>5. \A j \in 1 .. n : \E x \in S : place[x] = j
  BY <1>4 DEF Surjection
<1> QED
  BY <1>5

\* With more in front an element has a place further behind.
LEMMA PlacesGrow ==
  ASSUME NEW R, NEW S, NEW T \in SUBSET S, IsFiniteSet(S), Orders(R, S), NEW x \in T
  PROVE  Place(R, T, x) <= Place(R, S, x)
PROOF
<1>1. InFront(R, S, x) \in SUBSET S /\ InFront(R, T, x) \in SUBSET InFront(R, S, x)
  BY DEF InFront
<1>2. IsFiniteSet(InFront(R, S, x))
  BY <1>1, FS_Subset
<1>3. /\ IsFiniteSet(InFront(R, T, x))
      /\ Cardinality(InFront(R, T, x)) <= Cardinality(InFront(R, S, x))
  BY <1>1, <1>2, FS_Subset
<1>4. Cardinality(InFront(R, T, x)) \in Nat /\ Cardinality(InFront(R, S, x)) \in Nat
  BY <1>2, <1>3, FS_CardinalityType
<1> QED
  BY <1>3, <1>4 DEF Place

\* Rows in the order of their places are listed by id, if the ids are in that order.
LEMMA InOrderLists ==
  ASSUME NEW rows, NEW ahead, NEW R,
         IsFiniteSet(DOMAIN rows),
         \A i, j \in DOMAIN rows : rows[i].id = rows[j].id => i = j,
         \A i, j \in DOMAIN rows : <<i, j>> \in ahead <=> <<rows[i].id, rows[j].id>> \in R,
         Orders(R, {rows[i].id : i \in DOMAIN rows})
  PROVE  /\ IsFiniteSet({rows[i].id : i \in DOMAIN rows})
         /\ Lists(Ids(InOrder(rows, ahead)), R, {rows[i].id : i \in DOMAIN rows})
PROOF
<1> DEFINE D == DOMAIN rows
           S == {rows[i].id : i \in D}
           n == Cardinality(D)
           at(k) == CHOOSE i \in D : Cardinality({j \in D : <<j, i>> \in ahead}) = k - 1
           L == Ids(InOrder(rows, ahead))
<1>1. Orders(ahead, D)
  <2>1. \A i \in D : rows[i].id \in S
    OBVIOUS
  <2> HIDE DEF S
  <2>2. Orders(R, S)
    BY DEF S
  <2>3. \A i \in D : <<i, i>> \notin ahead
    BY <2>1, <2>2 DEF Orders
  <2>4. \A i, j \in D : i # j => <<i, j>> \in ahead \/ <<j, i>> \in ahead
    BY <2>1, <2>2 DEF Orders
  <2>5. ASSUME NEW i \in D, NEW j \in D, NEW k \in D, <<i, j>> \in ahead, <<j, k>> \in ahead
        PROVE  <<i, k>> \in ahead
    <3>1. <<rows[i].id, rows[j].id>> \in R /\ <<rows[j].id, rows[k].id>> \in R
      BY <2>5
    <3>2. <<rows[i].id, rows[k].id>> \in R
      BY <2>1, <2>2, <3>1 DEF Orders
    <3> QED
      BY <3>2
  <2> QED
    BY <2>3, <2>4, <2>5 DEF Orders
<1>2. IsFiniteSet(S) /\ Cardinality(S) = n
  <2> DEFINE id == [i \in D |-> rows[i].id]
  <2>1. id \in [D -> S] /\ \A i, j \in D : id[i] = id[j] => i = j
    OBVIOUS
  <2>2. \A s \in S : \E i \in D : id[i] = s
    OBVIOUS
  <2> HIDE DEF id
  <2>3. id \in Surjection(D, S) /\ id \in Injection(D, S)
    BY <2>1, <2>2 DEF Surjection, Injection, IsInjective
  <2> HIDE DEF S
  <2>4. IsFiniteSet(S)
    BY <2>3, FS_Surjection
  <2> QED
    BY <2>3, <2>4, FS_Injection
<1>3. n \in Nat
  BY FS_CardinalityType
<1>4. \A k \in 1 .. n : at(k) \in D /\ Place(ahead, D, at(k)) = k
  <2> SUFFICES ASSUME NEW k \in 1 .. n
               PROVE  at(k) \in D /\ Place(ahead, D, at(k)) = k
    OBVIOUS
  <2>1. PICK i \in D : Place(ahead, D, i) = k
    BY <1>1, PlacesAreTaken
  <2>2. \A j \in D : Cardinality(InFront(ahead, D, j)) \in Nat
    <3> SUFFICES ASSUME NEW j \in D
                 PROVE  Cardinality(InFront(ahead, D, j)) \in Nat
      OBVIOUS
    <3>1. InFront(ahead, D, j) \in SUBSET D
      BY DEF InFront
    <3> QED
      BY <3>1, FS_Subset, FS_CardinalityType
  <2>3. \A j \in D : Place(ahead, D, j) = k
                       <=> Cardinality({m \in D : <<m, j>> \in ahead}) = k - 1
    <3> SUFFICES ASSUME NEW j \in D
                 PROVE  Place(ahead, D, j) = k
                          <=> Cardinality({m \in D : <<m, j>> \in ahead}) = k - 1
      OBVIOUS
    <3> DEFINE c == Cardinality(InFront(ahead, D, j))
    <3>1. Cardinality({m \in D : <<m, j>> \in ahead}) = c
      BY DEF InFront
    <3>2. c \in Nat /\ k \in Nat
      BY <1>3, <2>2
    <3>3. Place(ahead, D, j) = c + 1
      BY DEF Place
    <3> HIDE DEF c, D
    <3>4. c + 1 = k <=> c = k - 1
      BY <3>2
    <3> QED
      BY <3>1, <3>3, <3>4
  <2>4. \E j \in D : Cardinality({m \in D : <<m, j>> \in ahead}) = k - 1
    BY <2>1, <2>3
  <2>5. at(k) \in D /\ Cardinality({m \in D : <<m, at(k)>> \in ahead}) = k - 1
    BY <2>4
  <2> HIDE DEF at
  <2> QED
    BY <2>3, <2>5
<1>5. L = [k \in 1 .. n |-> rows[at(k)].id]
  <2>1. InOrder(rows, ahead) = [k \in 1 .. n |-> rows[at(k)]]
    BY DEF InOrder
  <2> HIDE DEF at
  <2> QED
    BY <2>1 DEF Ids
<1>6. \A i \in D : Place(R, S, rows[i].id) = Place(ahead, D, i)
  <2> SUFFICES ASSUME NEW i \in D
               PROVE  Cardinality(InFront(R, S, rows[i].id)) = Cardinality(InFront(ahead, D, i))
    BY DEF Place
  <2> DEFINE F == InFront(ahead, D, i)
             G == InFront(R, S, rows[i].id)
             f == [j \in F |-> rows[j].id]
  <2>1. IsFiniteSet(F)
    <3>1. F \in SUBSET D
      BY DEF InFront
    <3> QED
      BY <3>1, FS_Subset
  <2>2. f \in [F -> G] /\ \A j, k \in F : f[j] = f[k] => j = k
    BY DEF InFront
  <2>3. \A g \in G : \E j \in F : f[j] = g
    BY DEF InFront
  <2>4. f \in Surjection(F, G) /\ f \in Injection(F, G)
    <3> HIDE DEF f, F, G
    <3> QED
      BY <2>2, <2>3 DEF Surjection, Injection, IsInjective
  <2> HIDE DEF f, F, G
  <2>5. IsFiniteSet(G)
    BY <2>1, <2>4, FS_Surjection
  <2> QED
    BY <2>1, <2>4, <2>5, FS_Injection DEF F, G
<1> HIDE DEF at, L
<1>7. L \in [1 .. n -> S] /\ \A k \in 1 .. n : Place(R, S, L[k]) = k
  BY <1>4, <1>5, <1>6
<1> QED
  BY <1>2, <1>7 DEF Lists, L

-----------------------------------------------------------------------------
\* Every page of a walk is cut out of one list.

\* The ids that a walk can be through, whatever is booked, and their order.
Items(w) ==
  CASE w.tool \in {"search", "list"} -> Transactions
    [] w.tool = "accounts"  -> {AccountList[k] : k \in DOMAIN AccountList}
    [] w.tool = "months"    -> Months
    [] w.tool = "scheduled" -> {s.id : s \in AlsoScheduled}
    [] w.tool = "groups"    -> {c.group : c \in Categories}
    [] w.tool = "payees"    -> {Tx[t].payee : t \in Transactions}

Ascending  == {p \in Int \X Int : p[1] < p[2]}
Descending == {p \in Int \X Int : p[2] < p[1]}

ByRow(sort) ==
  {p \in Transactions \X Transactions :
     Before(Row(p[1], "approved"), Row(p[2], "approved"), sort)}

AsListed ==
  {p \in Items([tool |-> "accounts"]) \X Items([tool |-> "accounts"]) :
     \E j, k \in DOMAIN AccountList : j < k /\ p = <<AccountList[j], AccountList[k]>>}

Order(w) ==
  CASE w.tool \in {"search", "list"} -> ByRow(w.sort)
    [] w.tool = "accounts" -> AsListed
    [] w.tool = "months"   -> Descending
    [] w.tool \in {"scheduled", "groups", "payees"} -> Ascending

\* Transactions have one order for each way of sorting: no two tie, and it does not
\* depend on what is deleted or approved.
LEMMA BeforeOrders ==
  ASSUME NEW sort \in Sorts
  PROVE  /\ Orders(ByRow(sort), Transactions)
         /\ \A t, u \in Transactions : \A s, v :
              <<t, u>> \in ByRow(sort) <=> Before(Row(t, s), Row(u, v), sort)
PROOF
<1> DEFINE first(t, u) ==
      CASE sort = "date_asc" ->
             Tx[t].date < Tx[u].date \/ (Tx[t].date = Tx[u].date /\ t < u)
        [] sort = "date_desc" ->
             Tx[u].date < Tx[t].date \/ (Tx[u].date = Tx[t].date /\ t < u)
        [] sort = "amount_asc" ->
             \/ Tx[t].amount < Tx[u].amount
             \/ /\ Tx[t].amount = Tx[u].amount
                /\ Tx[u].date < Tx[t].date \/ (Tx[u].date = Tx[t].date /\ t < u)
        [] sort = "amount_desc" ->
             \/ Tx[u].amount < Tx[t].amount
             \/ /\ Tx[t].amount = Tx[u].amount
                /\ Tx[u].date < Tx[t].date \/ (Tx[u].date = Tx[t].date /\ t < u)
<1>1. \A t, u \in Transactions : \A s, v :
        Before(Row(t, s), Row(u, v), sort) <=> first(t, u)
  <2> SUFFICES ASSUME NEW t \in Transactions, NEW u \in Transactions, NEW s, NEW v
               PROVE  Before(Row(t, s), Row(u, v), sort) <=> first(t, u)
    OBVIOUS
  <2>1. /\ Row(t, s).id = t /\ Row(t, s).date = Tx[t].date /\ Row(t, s).amount = Tx[t].amount
        /\ Row(u, v).id = u /\ Row(u, v).date = Tx[u].date /\ Row(u, v).amount = Tx[u].amount
    BY DEF Row
  <2> QED
    BY <2>1, TransactionsAssumption DEF Before, NewestFirst, ById, Sorts
<1>2. \A t, u : <<t, u>> \in ByRow(sort)
                  <=> t \in Transactions /\ u \in Transactions /\ first(t, u)
  <2> HIDE DEF first
  <2> QED
    BY <1>1 DEF ByRow
<1>3. ASSUME NEW t \in Transactions
      PROVE  ~first(t, t)
  <2>1. t \in Int /\ Tx[t].date \in Int /\ Tx[t].amount \in Int
    BY TransactionsAssumption
  <2>2. CASE sort = "date_asc"
    BY <2>1, <2>2
  <2>3. CASE sort = "date_desc"
    BY <2>1, <2>3
  <2>4. CASE sort = "amount_asc"
    BY <2>1, <2>4
  <2>5. CASE sort = "amount_desc"
    BY <2>1, <2>5
  <2> QED
    BY <2>2, <2>3, <2>4, <2>5 DEF Sorts
<1>4. ASSUME NEW t \in Transactions, NEW u \in Transactions, NEW x \in Transactions,
             first(t, u), first(u, x)
      PROVE  first(t, x)
  <2>1. /\ t \in Int /\ u \in Int /\ x \in Int
        /\ Tx[t].date \in Int /\ Tx[u].date \in Int /\ Tx[x].date \in Int
        /\ Tx[t].amount \in Int /\ Tx[u].amount \in Int /\ Tx[x].amount \in Int
    BY TransactionsAssumption
  <2>2. CASE sort = "date_asc"
    BY <1>4, <2>1, <2>2
  <2>3. CASE sort = "date_desc"
    BY <1>4, <2>1, <2>3
  <2>4. CASE sort = "amount_asc"
    BY <1>4, <2>1, <2>4
  <2>5. CASE sort = "amount_desc"
    BY <1>4, <2>1, <2>5
  <2> QED
    BY <2>2, <2>3, <2>4, <2>5 DEF Sorts
<1>5. ASSUME NEW t \in Transactions, NEW u \in Transactions, t # u
      PROVE  first(t, u) \/ first(u, t)
  <2>1. /\ t \in Int /\ u \in Int
        /\ Tx[t].date \in Int /\ Tx[u].date \in Int
        /\ Tx[t].amount \in Int /\ Tx[u].amount \in Int
    BY TransactionsAssumption
  <2>2. CASE sort = "date_asc"
    BY <1>5, <2>1, <2>2
  <2>3. CASE sort = "date_desc"
    BY <1>5, <2>1, <2>3
  <2>4. CASE sort = "amount_asc"
    BY <1>5, <2>1, <2>4
  <2>5. CASE sort = "amount_desc"
    BY <1>5, <2>1, <2>5
  <2> QED
    BY <2>2, <2>3, <2>4, <2>5 DEF Sorts
<1> HIDE DEF first
<1>6. Orders(ByRow(sort), Transactions)
  BY <1>2, <1>3, <1>4, <1>5 DEF Orders
<1> QED
  BY <1>1, <1>2, <1>6

\* An image of a finite set under a function is finite.
LEMMA ImagesAreFinite ==
  ASSUME NEW f, IsFiniteSet(DOMAIN f)
  PROVE  IsFiniteSet({f[x] : x \in DOMAIN f})
PROOF
<1> DEFINE T == {f[x] : x \in DOMAIN f}
           g == [x \in DOMAIN f |-> f[x]]
<1>1. g \in Surjection(DOMAIN f, T)
  BY DEF Surjection
<1> HIDE DEF T, g
<1>2. IsFiniteSet(T)
  BY <1>1, FS_Surjection
<1> QED
  BY <1>2 DEF T

LEMMA IntegersAreOrdered ==
  ASSUME NEW S \in SUBSET Int
  PROVE  Orders(Ascending, S) /\ Orders(Descending, S)
BY DEF Orders, Ascending, Descending

LEMMA ItemsAreOrdered ==
  ASSUME NEW w \in Walks
  PROVE  IsFiniteSet(Items(w)) /\ Orders(Order(w), Items(w))
PROOF
<1>1. CASE w.tool \in {"search", "list"}
  BY <1>1, BeforeOrders, TransactionsAssumption, WalksAssumption DEF Items, Order
<1>2. CASE w.tool = "accounts"
  <2> DEFINE n == Len(AccountList)
  <2>1. n \in Nat /\ DOMAIN AccountList = 1 .. n
    BY ListsAssumption
  <2>2. Items(w) = {AccountList[k] : k \in DOMAIN AccountList} /\ Order(w) = AsListed
    BY <1>2 DEF Items, Order
  <2>3. IsFiniteSet(Items(w))
    <3>1. IsFiniteSet(DOMAIN AccountList)
      BY <2>1, FS_Interval
    <3> QED
      BY <2>2, <3>1, ImagesAreFinite
  <2>4. \A j, k \in 1 .. n : <<AccountList[j], AccountList[k]>> \in AsListed <=> j < k
    BY <2>1, ListsAssumption DEF AsListed, Items
  <2>5. \A x \in Items(w) : \E k \in 1 .. n : x = AccountList[k]
    BY <2>1, <2>2
  <2>6. Orders(AsListed, Items(w))
    <3> HIDE DEF n
    <3>1. \A x \in Items(w) : <<x, x>> \notin AsListed
      BY <2>1, <2>4, <2>5
    <3>2. \A x, y \in Items(w) : x # y => <<x, y>> \in AsListed \/ <<y, x>> \in AsListed
      BY <2>1, <2>4, <2>5
    <3>3. ASSUME NEW x \in Items(w), NEW y \in Items(w), NEW z \in Items(w),
                 <<x, y>> \in AsListed, <<y, z>> \in AsListed
          PROVE  <<x, z>> \in AsListed
      <4>1. PICK i, j, k \in 1 .. n : x = AccountList[i] /\ y = AccountList[j] /\ z = AccountList[k]
        BY <2>5
      <4>2. i < j /\ j < k
        BY <2>4, <3>3, <4>1
      <4> QED
        BY <2>1, <2>4, <4>1, <4>2
    <3> QED
      BY <3>1, <3>2, <3>3 DEF Orders
  <2> QED
    BY <2>2, <2>3, <2>6
<1>3. CASE w.tool = "months"
  BY <1>3, IntegersAreOrdered, ListsAssumption DEF Items, Order
<1>4. CASE w.tool = "scheduled"
  <2> DEFINE f == [s \in AlsoScheduled |-> s.id]
  <2>1. Items(w) = {f[s] : s \in DOMAIN f} /\ DOMAIN f = AlsoScheduled
    BY <1>4 DEF Items
  <2>2. Items(w) \subseteq Int /\ Order(w) = Ascending
    BY <1>4, ListsAssumption DEF Items, Order
  <2> HIDE DEF f
  <2> QED
    BY <2>1, <2>2, IntegersAreOrdered, ImagesAreFinite, ListsAssumption
<1>5. CASE w.tool = "groups"
  <2> DEFINE f == [c \in Categories |-> c.group]
  <2>1. Items(w) = {f[c] : c \in DOMAIN f} /\ DOMAIN f = Categories
    BY <1>5 DEF Items
  <2>2. Items(w) \subseteq Int /\ Order(w) = Ascending
    BY <1>5, ListsAssumption DEF Items, Order
  <2> HIDE DEF f
  <2> QED
    BY <2>1, <2>2, IntegersAreOrdered, ImagesAreFinite, ListsAssumption
<1>6. CASE w.tool = "payees"
  <2> DEFINE f == [t \in Transactions |-> Tx[t].payee]
  <2>1. Items(w) = {f[t] : t \in DOMAIN f} /\ DOMAIN f = Transactions
    BY <1>6 DEF Items
  <2>2. Items(w) \subseteq Int /\ Order(w) = Ascending
    BY <1>6, TransactionsAssumption DEF Items, Order
  <2> HIDE DEF f
  <2> QED
    BY <2>1, <2>2, IntegersAreOrdered, ImagesAreFinite, TransactionsAssumption
<1> QED
  BY <1>1, <1>2, <1>3, <1>4, <1>5, <1>6, WalksAssumption

\* The rows that are sent, in whatever order, are one for every transaction.
Sent(w) ==
  {t \in Transactions : /\ ledger[t] # "absent"
                        /\ w.tool = "list" => Tx[t].payee = w.filter.payee}

LEMMA OneRowEach ==
  ASSUME NEW w, NEW order, NEW rows, rows = WalkRows(w, ledger, order)
  PROVE  /\ IsFiniteSet(DOMAIN rows) /\ DOMAIN rows \subseteq Int
         /\ \A i \in DOMAIN rows : /\ rows[i].id \in Sent(w)
                                   /\ rows[i] = Row(rows[i].id, ledger[rows[i].id])
         /\ \A t \in Sent(w) : \E i \in DOMAIN rows : rows[i].id = t
         /\ \A i, j \in DOMAIN rows : rows[i].id = rows[j].id => i = j
PROOF
<1>1. Sent(w) \subseteq Int /\ IsFiniteSet(Sent(w))
  <2>1. Sent(w) \in SUBSET Transactions
    BY DEF Sent
  <2> QED
    BY <2>1, TransactionsAssumption, FS_Subset
<1>2. \A t : Row(t, ledger[t]).id = t
  BY DEF Row
<1>3. CASE order = "up"
  <2>1. rows = [t \in Sent(w) |-> Row(t, ledger[t])]
    BY <1>3 DEF WalkRows, Sent
  <2> QED
    BY <1>1, <1>2, <2>1
<1>4. CASE order # "up"
  <2> DEFINE minus == [t \in Sent(w) |-> -t]
             D     == {-t : t \in Sent(w)}
  <2>1. rows = [p \in D |-> Row(-p, ledger[-p])]
    BY <1>4 DEF WalkRows, Sent
  <2>2. D = {minus[t] : t \in DOMAIN minus} /\ DOMAIN minus = Sent(w)
    OBVIOUS
  <2>3. IsFiniteSet(D)
    <3> HIDE DEF minus, D
    <3> QED
      BY <1>1, <2>2, ImagesAreFinite
  <2>4. D \subseteq Int /\ (\A p \in D : -p \in Sent(w)) /\ \A t \in Sent(w) : -t \in D /\ -(-t) = t
    BY <1>1
  <2>5. \A p, q \in D : -p = -q => p = q
    BY <2>4
  <2> HIDE DEF D
  <2>6. DOMAIN rows = D /\ \A p \in D : rows[p] = Row(-p, ledger[-p]) /\ rows[p].id = -p
    BY <1>2, <2>1
  <2>7. \A i \in D : /\ rows[i].id \in Sent(w)
                      /\ rows[i] = Row(rows[i].id, ledger[rows[i].id])
    BY <2>4, <2>6
  <2>8. \A t \in Sent(w) : \E i \in D : rows[i].id = t
    <3> SUFFICES ASSUME NEW t \in Sent(w)
                 PROVE  \E i \in D : rows[i].id = t
      OBVIOUS
    <3>1. -t \in D /\ -(-t) = t
      BY <2>4
    <3>2. rows[-t].id = -(-t)
      BY <2>6, <3>1
    <3> QED
      BY <3>1, <3>2
  <2>9. \A i, j \in D : rows[i].id = rows[j].id => i = j
    BY <2>5, <2>6
  <2> QED
    BY <2>3, <2>4, <2>6, <2>7, <2>8, <2>9
<1> QED
  BY <1>3, <1>4

\* Rows of the ledger are sorted into one list of their transactions.
LEMMA SortLists ==
  ASSUME NEW rows, NEW sort \in Sorts,
         IsFiniteSet(DOMAIN rows), DOMAIN rows \subseteq Int,
         \A i \in DOMAIN rows : /\ rows[i].id \in Transactions
                                /\ rows[i] = Row(rows[i].id, ledger[rows[i].id]),
         \A i, j \in DOMAIN rows : rows[i].id = rows[j].id => i = j
  PROVE  Lists(Ids(SortRows(rows, sort)), ByRow(sort), {rows[i].id : i \in DOMAIN rows})
PROOF
<1> DEFINE D == DOMAIN rows
           S == {rows[i].id : i \in D}
           ahead == {p \in D \X D : \/ Before(rows[p[1]], rows[p[2]], sort)
                                    \/ p[1] < p[2] /\ ~Before(rows[p[2]], rows[p[1]], sort)}
<1>1. Orders(ByRow(sort), Transactions) /\ S \in SUBSET Transactions
  BY BeforeOrders
<1>2. Orders(ByRow(sort), S)
  <2> HIDE DEF S
  <2> QED
    BY <1>1, OrdersSubset
<1>3. \A i, j \in D : <<rows[i].id, rows[j].id>> \in ByRow(sort) <=> Before(rows[i], rows[j], sort)
  <2> SUFFICES ASSUME NEW i \in D, NEW j \in D
               PROVE  <<rows[i].id, rows[j].id>> \in ByRow(sort)
                        <=> Before(rows[i], rows[j], sort)
    OBVIOUS
  <2> DEFINE t == rows[i].id
             u == rows[j].id
  <2>1. t \in Transactions /\ u \in Transactions
    OBVIOUS
  <2>2. rows[i] = Row(t, ledger[t]) /\ rows[j] = Row(u, ledger[u])
    OBVIOUS
  <2> HIDE DEF t, u
  <2>3. <<t, u>> \in ByRow(sort) <=> Before(Row(t, ledger[t]), Row(u, ledger[u]), sort)
    BY <2>1, BeforeOrders
  <2>4. <<t, u>> \in ByRow(sort) <=> Before(rows[i], rows[j], sort)
    BY <2>2, <2>3
  <2> QED
    BY <2>4 DEF t, u
<1>4. \A i, j \in D : <<i, j>> \in ahead <=> <<rows[i].id, rows[j].id>> \in ByRow(sort)
  <2> SUFFICES ASSUME NEW i \in D, NEW j \in D
               PROVE  <<i, j>> \in ahead <=> <<rows[i].id, rows[j].id>> \in ByRow(sort)
    OBVIOUS
  <2>1. <<i, j>> \in ahead <=> \/ Before(rows[i], rows[j], sort)
                               \/ i < j /\ ~Before(rows[j], rows[i], sort)
    OBVIOUS
  <2>2. i # j => Before(rows[i], rows[j], sort) \/ Before(rows[j], rows[i], sort)
    BY <1>1, <1>3 DEF Orders
  <2>3. i \in Int /\ (i = j => ~(i < j))
    OBVIOUS
  <2> HIDE DEF ahead
  <2> QED
    BY <1>3, <2>1, <2>2, <2>3
<1>5. SortRows(rows, sort) = InOrder(rows, ahead)
  BY DEF SortRows
<1> HIDE DEF ahead
<1>6. Lists(Ids(InOrder(rows, ahead)), ByRow(sort), S)
  BY <1>2, <1>4, InOrderLists
<1> QED
  BY <1>5, <1>6

\* What is not deleted of a list stays in the order of the API.
LEMMA VisibleLists ==
  ASSUME NEW entries, NEW R,
         IsFiniteSet(DOMAIN entries), DOMAIN entries \subseteq Int,
         \A i, j \in DOMAIN entries : entries[i].id = entries[j].id => i = j,
         \A i, j \in DOMAIN entries : i < j <=> <<entries[i].id, entries[j].id>> \in R,
         Orders(R, {entries[i].id : i \in {j \in DOMAIN entries : ~entries[j].deleted}})
  PROVE  \E L : /\ Lists(L, R, {entries[i].id : i \in {j \in DOMAIN entries : ~entries[j].deleted}})
                /\ \A limit, offset :
                     ListPage(entries, limit, offset) = CollectionResult(L, limit, offset)
PROOF
<1> DEFINE D     == {j \in DOMAIN entries : ~entries[j].deleted}
           S     == {entries[i].id : i \in D}
           shown == [i \in D |-> entries[i]]
           ahead == {p \in D \X D : p[1] < p[2]}
<1>1. D \in SUBSET (DOMAIN entries) /\ DOMAIN shown = D /\ {shown[i].id : i \in DOMAIN shown} = S
  OBVIOUS
<1>2. IsFiniteSet(DOMAIN shown)
  <2> HIDE DEF D, shown
  <2> QED
    BY <1>1, FS_Subset
<1>3. \A i, j \in DOMAIN shown : shown[i].id = shown[j].id => i = j
  OBVIOUS
<1>4. \A i, j \in DOMAIN shown : <<i, j>> \in ahead <=> <<shown[i].id, shown[j].id>> \in R
  OBVIOUS
<1>5. \A limit, offset :
        ListPage(entries, limit, offset)
          = CollectionResult(Ids(InOrder(shown, ahead)), limit, offset)
  BY DEF ListPage, AsSent, RestrictValues, Restrict
<1>6. Orders(R, {shown[i].id : i \in DOMAIN shown})
  BY <1>1
<1> HIDE DEF shown, ahead, D
<1>7. Lists(Ids(InOrder(shown, ahead)), R, {shown[i].id : i \in DOMAIN shown})
  BY <1>2, <1>3, <1>4, <1>6, InOrderLists
<1> QED
  BY <1>1, <1>5, <1>7 DEF D

\* A page of a walk is cut out of the list of what belongs to it, in an order that
\* neither the ledger nor the API changes.
OneList(w, order) ==
  /\ Wanted(w, ledger) \subseteq Items(w)
  /\ \E L : /\ Lists(L, Order(w), Wanted(w, ledger))
            /\ \A offset : \E limit \in Int \cup {Absent} :
                 Page(w, order, offset) = CollectionResult(L, limit, offset)

LEMMA TransactionsHaveOneList ==
  ASSUME NEW w \in Walks, NEW order, w.tool \in {"search", "list"},
         ledger \in [Transactions -> Statuses]
  PROVE  OneList(w, order)
PROOF
<1> DEFINE rows    == WalkRows(w, ledger, order)
           chosen  == {i \in DOMAIN rows :
                         /\ ~rows[i].deleted
                         /\ w.tool = "search" => Matches(rows[i], w.filter)}
           visible == [i \in chosen |-> rows[i]]
           L       == Ids(SortRows(visible, w.sort))
<1>1. w.sort \in Sorts /\ (w.tool = "list" => w.sort = "date_desc")
        /\ w.limit \in Int \cup {Absent}
  BY WalksAssumption
<1>2. /\ IsFiniteSet(DOMAIN rows) /\ DOMAIN rows \subseteq Int
      /\ \A i \in DOMAIN rows : /\ rows[i].id \in Sent(w)
                                /\ rows[i] = Row(rows[i].id, ledger[rows[i].id])
      /\ \A t \in Sent(w) : \E i \in DOMAIN rows : rows[i].id = t
      /\ \A i, j \in DOMAIN rows : rows[i].id = rows[j].id => i = j
  BY OneRowEach
<1>3. \A offset : Page(w, order, offset) =
          IF w.tool = "search" THEN SearchPage(rows, w.filter, w.sort, w.limit, offset)
          ELSE TransactionsPage(rows, w.limit, offset)
  BY DEF Page
<1>4. \A offset : \E limit \in Int \cup {Absent} :
        Page(w, order, offset) = CollectionResult(L, limit, offset)
  <2>1. CASE w.tool = "search"
    <3>1. chosen = {i \in DOMAIN rows : ~rows[i].deleted /\ Matches(rows[i], w.filter)}
      BY <2>1
    <3>2. \A offset : Page(w, order, offset) = CollectionResult(L, w.limit, offset)
      <4> HIDE DEF rows
      <4> QED
        BY <1>3, <2>1, <3>1 DEF SearchPage, RestrictValues, Restrict
    <3> QED
      BY <1>1, <3>2
  <2>2. CASE w.tool = "list"
    <3>1. chosen = {i \in DOMAIN rows : ~rows[i].deleted}
      BY <2>2
    <3>2. Normalized(w.limit, DefaultTransactionLimit, 1) \in Int
      BY <1>1 DEF Normalized, DefaultTransactionLimit
    <3>3. \A offset : Page(w, order, offset) =
            CollectionResult(L, Normalized(w.limit, DefaultTransactionLimit, 1), offset)
      <4> HIDE DEF rows
      <4> QED
        BY <1>1, <1>3, <2>2, <3>1 DEF TransactionsPage, RestrictValues, Restrict
    <3> QED
      BY <3>2, <3>3
  <2> QED
    BY <2>1, <2>2
<1> HIDE DEF rows
<1>5. chosen \in SUBSET (DOMAIN rows) /\ DOMAIN visible = chosen
        /\ \A i \in chosen : visible[i] = rows[i]
  OBVIOUS
<1>6. {visible[i].id : i \in DOMAIN visible} = Wanted(w, ledger)
  <2>1. \A t \in Transactions : /\ Row(t, ledger[t]).deleted <=> ledger[t] = "deleted"
                                /\ Row(t, ledger[t]).id = t
    BY DEF Row
  <2>2. \A t : t \in Wanted(w, ledger)
                 <=> /\ t \in Sent(w)
                     /\ ~Row(t, ledger[t]).deleted
                     /\ w.tool = "search" => Matches(Row(t, ledger[t]), w.filter)
    <3>1. \A t \in Transactions : ledger[t] \in {"unapproved", "approved"}
            <=> ledger[t] # "absent" /\ ~Row(t, ledger[t]).deleted
      BY <2>1 DEF Statuses
    <3>2. LedgerLive(ledger) = {t \in Transactions : ledger[t] \in {"unapproved", "approved"}}
      BY DEF LedgerLive, Transactions
    <3>3. Wanted(w, ledger) =
            IF w.tool = "search"
            THEN {t \in LedgerLive(ledger) : Matches(Row(t, ledger[t]), w.filter)}
            ELSE {t \in LedgerLive(ledger) : Tx[t].payee = w.filter.payee}
      BY DEF Wanted
    <3> QED
      BY <3>1, <3>2, <3>3 DEF Sent
  <2>3. ASSUME NEW t \in Wanted(w, ledger)
        PROVE  \E i \in chosen : visible[i].id = t
    <3>1. PICK i \in DOMAIN rows : rows[i].id = t
      BY <1>2, <2>2, <2>3
    <3>2. rows[i] = Row(t, ledger[t])
      BY <1>2, <3>1
    <3>3. i \in chosen
      BY <2>2, <2>3, <3>2
    <3> QED
      BY <1>5, <3>1, <3>3
  <2>4. ASSUME NEW i \in chosen
        PROVE  visible[i].id \in Wanted(w, ledger)
    <3>1. rows[i] = Row(rows[i].id, ledger[rows[i].id]) /\ rows[i].id \in Sent(w)
      BY <1>2
    <3>2. ~rows[i].deleted /\ (w.tool = "search" => Matches(rows[i], w.filter))
      OBVIOUS
    <3> HIDE DEF chosen, visible
    <3> QED
      BY <1>5, <2>2, <3>1, <3>2
  <2> HIDE DEF chosen, visible
  <2> QED
    BY <1>5, <2>3, <2>4
<1> HIDE DEF chosen, visible
<1>7. Lists(L, ByRow(w.sort), {visible[i].id : i \in DOMAIN visible})
  <2>1. IsFiniteSet(DOMAIN visible)
    BY <1>2, <1>5, FS_Subset
  <2>2. DOMAIN visible \subseteq Int
    BY <1>2, <1>5
  <2>3. \A i \in DOMAIN visible : /\ visible[i].id \in Transactions
                                  /\ visible[i] = Row(visible[i].id, ledger[visible[i].id])
    BY <1>2, <1>5 DEF Sent
  <2>4. \A i, j \in DOMAIN visible : visible[i].id = visible[j].id => i = j
    BY <1>2, <1>5
  <2> QED
    BY <1>1, <2>1, <2>2, <2>3, <2>4, SortLists
<1> HIDE DEF L
<1>8. Order(w) = ByRow(w.sort) /\ Items(w) = Transactions
  BY DEF Order, Items
<1>9. Wanted(w, ledger) \subseteq Transactions
  BY DEF Wanted, LedgerLive, Transactions
<1> QED
  BY <1>4, <1>6, <1>7, <1>8, <1>9 DEF OneList

LEMMA EntriesHaveOneList ==
  ASSUME NEW w \in Walks, NEW order, NEW entries, NEW P,
         DOMAIN entries = P, IsFiniteSet(P), P \subseteq Int,
         \A i, j \in P : entries[i].id = entries[j].id => i = j,
         \A i, j \in P : i < j <=> <<entries[i].id, entries[j].id>> \in Order(w),
         Wanted(w, ledger) = {entries[i].id : i \in {j \in P : ~entries[j].deleted}},
         Wanted(w, ledger) \subseteq Items(w),
         \A offset : Page(w, order, offset) = ListPage(entries, w.limit, offset)
  PROVE  OneList(w, order)
PROOF
<1>1. Orders(Order(w), Wanted(w, ledger))
  BY ItemsAreOrdered, OrdersSubset
<1>2. w.limit \in Int \cup {Absent}
  BY WalksAssumption
<1>3. PICK L : /\ Lists(L, Order(w), Wanted(w, ledger))
               /\ \A limit, offset :
                    ListPage(entries, limit, offset) = CollectionResult(L, limit, offset)
  <2> DEFINE shown == {entries[i].id : i \in {j \in DOMAIN entries : ~entries[j].deleted}}
  <2>1. Orders(Order(w), shown)
    BY <1>1
  <2>2. \E L : /\ Lists(L, Order(w), shown)
               /\ \A limit, offset :
                    ListPage(entries, limit, offset) = CollectionResult(L, limit, offset)
    BY <2>1, VisibleLists
  <2> QED
    BY <2>2
<1> QED
  BY <1>2, <1>3 DEF OneList

LEMMA AccountsHaveOneList ==
  ASSUME NEW w \in Walks, NEW order, w.tool = "accounts"
  PROVE  OneList(w, order)
PROOF
<1> DEFINE n == Len(AccountList)
           E == AccountEntries
<1>1. n \in Nat /\ DOMAIN AccountList = 1 .. n /\ IsFiniteSet(1 .. n)
  <2>1. n \in Nat /\ DOMAIN AccountList = 1 .. n
    BY ListsAssumption
  <2> QED
    BY <2>1, FS_Interval
<1>2. \A k \in 1 .. n : E[k] \in Accounts /\ E[k].id = AccountList[k]
  <2>1. \A k \in 1 .. n : \E a \in Accounts : a.id = AccountList[k]
    BY <1>1, ListsAssumption
  <2> QED
    BY <1>1, <2>1 DEF AccountEntries
<1>3. DOMAIN E = 1 .. n
  BY <1>1 DEF AccountEntries
<1>4. \A a \in Accounts : \E k \in 1 .. n : E[k] = a
  <2> SUFFICES ASSUME NEW a \in Accounts
               PROVE  \E k \in 1 .. n : E[k] = a
    OBVIOUS
  <2>1. PICK k \in 1 .. n : AccountList[k] = a.id
    BY <1>1, ListsAssumption
  <2>2. E[k] = a
    BY <1>2, <2>1, ListsAssumption
  <2> QED
    BY <2>2
<1> HIDE DEF E, n
<1>5. Order(w) = AsListed /\ Items(w) = {AccountList[k] : k \in 1 .. n}
  BY <1>1 DEF Order, Items
<1>6. \A i, j \in 1 .. n : i < j <=> <<E[i].id, E[j].id>> \in AsListed
  <2>1. \A i, j \in 1 .. n : <<AccountList[i], AccountList[j]>> \in AsListed <=> i < j
    BY <1>1, ListsAssumption DEF AsListed, Items
  <2> QED
    BY <1>2, <2>1
<1>7. \A i, j \in 1 .. n : E[i].id = E[j].id => i = j
  BY <1>1, <1>2, ListsAssumption
<1>8. Wanted(w, ledger) = {a.id : a \in {b \in Accounts : ~b.deleted}}
  BY DEF Wanted
<1>9. Wanted(w, ledger) = {E[i].id : i \in {j \in 1 .. n : ~E[j].deleted}}
  BY <1>2, <1>4, <1>8
<1>10. Wanted(w, ledger) \subseteq Items(w)
  BY <1>2, <1>5, <1>9
<1>11. \A offset : Page(w, order, offset) = ListPage(E, w.limit, offset)
  BY DEF Page, ListAccounts, E
<1>12. 1 .. n \subseteq Int
  BY <1>1
<1> QED
  BY <1>1, <1>3, <1>5, <1>6, <1>7, <1>9, <1>10, <1>11, <1>12, EntriesHaveOneList

LEMMA MonthsHaveOneList ==
  ASSUME NEW w \in Walks, NEW order, w.tool = "months"
  PROVE  OneList(w, order)
PROOF
<1> DEFINE live   == OrLive(seen.list)
           listed == {m \in Months : \E t \in live : Tx[t].date >= m}
           P      == {-m : m \in listed}
           E      == MonthEntries
<1>1. {entry.month : entry \in MonthList(live)} = listed
  <2>1. \A m : MonthEntry(live, m).month = m
    BY DEF MonthEntry
  <2>2. MonthList(live) = {MonthEntry(live, m) : m \in listed}
    BY DEF MonthList
  <2> HIDE DEF live, listed
  <2> QED
    BY <2>1, <2>2
<1>2. E = [p \in P |-> [id |-> -p, deleted |-> FALSE]]
  <2>1. P = {-entry.month : entry \in MonthList(live)}
    <3> HIDE DEF live, listed
    <3> QED
      BY <1>1
  <2> QED
    BY <2>1 DEF MonthEntries
<1>3. listed \in SUBSET Months /\ IsFiniteSet(Months) /\ Months \subseteq Int
  BY ListsAssumption
<1> HIDE DEF listed, live
<1>4. IsFiniteSet(P) /\ P \subseteq Int
  <2> DEFINE f == [m \in listed |-> -m]
  <2>1. P = {f[m] : m \in DOMAIN f} /\ DOMAIN f = listed
    OBVIOUS
  <2>2. IsFiniteSet(listed)
    BY <1>3, FS_Subset
  <2>3. P \subseteq Int
    BY <1>3
  <2> HIDE DEF f, P
  <2> QED
    BY <2>1, <2>2, <2>3, ImagesAreFinite
<1>5. \A p \in P : -p \in listed
  BY <1>3
<1>6. \A m \in listed : -m \in P /\ -(-m) = m
  BY <1>3
<1> HIDE DEF P, E
<1>7. DOMAIN E = P /\ \A p \in P : E[p].id = -p /\ ~E[p].deleted
  BY <1>2
<1>8. Order(w) = Descending /\ Items(w) = Months /\ Wanted(w, ledger) = listed
  BY <1>1 DEF Order, Items, Wanted, live
<1>9. \A p, q \in P : p < q <=> <<E[p].id, E[q].id>> \in Descending
  BY <1>4, <1>7 DEF Descending
<1>10. ASSUME NEW p \in P, NEW q \in P, E[p].id = E[q].id
       PROVE  p = q
  <2>1. p \in Int /\ q \in Int /\ -p = -q
    BY <1>4, <1>7, <1>10
  <2> QED
    BY <2>1
<1>11. listed = {E[p].id : p \in {q \in P : ~E[q].deleted}}
  <2>1. \A m \in listed : -m \in P /\ E[-m].id = m
    BY <1>6, <1>7
  <2>2. \A p \in P : E[p].id \in listed /\ ~E[p].deleted
    BY <1>5, <1>7
  <2> QED
    BY <2>1, <2>2
<1>12. \A offset : Page(w, order, offset) = ListPage(E, w.limit, offset)
  BY DEF Page, ListPlanMonths, E
<1>13. /\ Wanted(w, ledger) = {E[p].id : p \in {q \in P : ~E[q].deleted}}
       /\ Wanted(w, ledger) \subseteq Items(w)
       /\ \A p, q \in P : p < q <=> <<E[p].id, E[q].id>> \in Order(w)
       /\ \A p, q \in P : E[p].id = E[q].id => p = q
  BY <1>3, <1>8, <1>9, <1>10, <1>11
<1>14. DOMAIN E = P /\ IsFiniteSet(P) /\ P \subseteq Int
  BY <1>4, <1>7
<1> QED
  BY <1>12, <1>13, <1>14, EntriesHaveOneList

LEMMA ScheduledHaveOneList ==
  ASSUME NEW w \in Walks, NEW order, w.tool = "scheduled", schedule = AlsoScheduled
  PROVE  OneList(w, order)
PROOF
<1> DEFINE P == {s.id : s \in AlsoScheduled}
           E == ScheduledEntries
<1>1. Items(w) = P /\ Order(w) = Ascending
  BY DEF Items, Order
<1>2. IsFiniteSet(P) /\ P \subseteq Int
  BY <1>1, ItemsAreOrdered, ListsAssumption
<1>3. DOMAIN E = P /\ \A s \in AlsoScheduled : E[s.id] = s
  <2>1. E = [i \in P |-> CHOOSE s \in AlsoScheduled : s.id = i]
    BY DEF ScheduledEntries
  <2>2. \A s \in AlsoScheduled : (CHOOSE r \in AlsoScheduled : r.id = s.id) = s
    BY ListsAssumption
  <2> HIDE DEF E
  <2>3. \A s \in AlsoScheduled : s.id \in P
    OBVIOUS
  <2> HIDE DEF P
  <2> QED
    BY <2>1, <2>2, <2>3
<1>4. \A i \in P : E[i].id = i /\ E[i] \in AlsoScheduled
  BY <1>3
<1> HIDE DEF E
<1>5. Wanted(w, ledger) = {s.id : s \in {u \in AlsoScheduled : ~u.deleted}}
  BY DEF Wanted
<1>6. Wanted(w, ledger) = {E[i].id : i \in {j \in P : ~E[j].deleted}}
  BY <1>3, <1>4, <1>5
<1>7. \A i, j \in P : i < j <=> <<E[i].id, E[j].id>> \in Ascending
  <2> HIDE DEF P
  <2> QED
    BY <1>2, <1>4 DEF Ascending
<1>8. \A i, j \in P : E[i].id = E[j].id => i = j
  <2> HIDE DEF P
  <2> QED
    BY <1>4
<1>9. Wanted(w, ledger) \subseteq Items(w)
  BY <1>1, <1>5
<1>10. \A offset : Page(w, order, offset) = ListPage(E, w.limit, offset)
  BY DEF Page, ListScheduledTransactions, E
<1>11. \A i, j \in P : i < j <=> <<E[i].id, E[j].id>> \in Order(w)
  BY <1>1, <1>7
<1> HIDE DEF P
<1>12. DOMAIN E = P /\ IsFiniteSet(P) /\ P \subseteq Int
  BY <1>2, <1>3
<1> QED
  BY <1>6, <1>8, <1>9, <1>10, <1>11, <1>12, EntriesHaveOneList

LEMMA GroupsHaveOneList ==
  ASSUME NEW w \in Walks, NEW order, w.tool = "groups"
  PROVE  OneList(w, order)
PROOF
<1> DEFINE G         == {c.group : c \in Categories}
           hidden(g) == \A c \in Categories : c.group = g => c.hidden
           P         == {g \in G : ~hidden(g)}
           E         == [g \in P |-> [id |-> g, deleted |-> FALSE, hidden |-> hidden(g)]]
<1>1. Items(w) = G /\ Order(w) = Ascending
  BY DEF Items, Order
<1>2. IsFiniteSet(G) /\ G \subseteq Int
  BY <1>1, ItemsAreOrdered, ListsAssumption
<1>3. RestrictValues(GroupEntries, LAMBDA group : ~group.hidden) = E
  BY DEF RestrictValues, Restrict, GroupEntries
<1>4. \A offset : Page(w, order, offset) = ListPage(E, w.limit, offset)
  <2> HIDE DEF E
  <2> QED
    BY <1>3 DEF Page, ListPlanCategories
<1>5. Wanted(w, ledger) = {c.group : c \in {d \in Categories : ~d.hidden}}
  BY DEF Wanted
<1>6. Wanted(w, ledger) = P
  BY <1>5
<1> HIDE DEF hidden
<1>7. P \in SUBSET G /\ DOMAIN E = P /\ \A g \in P : E[g].id = g /\ ~E[g].deleted
  OBVIOUS
<1> HIDE DEF G, P, E
<1>8. IsFiniteSet(P) /\ P \subseteq Int
  BY <1>2, <1>7, FS_Subset
<1>9. P = {E[i].id : i \in {j \in P : ~E[j].deleted}}
  BY <1>7
<1>10. \A i, j \in P : i < j <=> <<E[i].id, E[j].id>> \in Ascending
  BY <1>7, <1>8 DEF Ascending
<1>11. \A i, j \in P : E[i].id = E[j].id => i = j
  BY <1>7
<1> QED
  BY <1>1, <1>4, <1>6, <1>7, <1>8, <1>9, <1>10, <1>11, EntriesHaveOneList

LEMMA PayeesHaveOneList ==
  ASSUME NEW w \in Walks, NEW order, w.tool = "payees"
  PROVE  OneList(w, order)
PROOF
<1> DEFINE P == PayeeIds(ledger)
           E == PayeeEntries(ledger)
<1>1. Items(w) = {Tx[t].payee : t \in Transactions} /\ Order(w) = Ascending
  BY DEF Items, Order
<1>2. Wanted(w, ledger) = P /\ P \in SUBSET Items(w)
  BY <1>1 DEF Wanted, PayeeIds
<1>3. IsFiniteSet(Items(w)) /\ Items(w) \subseteq Int
  BY <1>1, ItemsAreOrdered, TransactionsAssumption
<1>4. DOMAIN E = P /\ \A i \in P : E[i].id = i /\ ~E[i].deleted
  BY DEF PayeeEntries
<1>5. \A offset : Page(w, order, offset) = ListPage(E, w.limit, offset)
  BY DEF Page, ListPayees
<1> HIDE DEF P, E
<1>6. IsFiniteSet(P) /\ P \subseteq Int
  BY <1>2, <1>3, FS_Subset
<1>7. P = {E[i].id : i \in {j \in P : ~E[j].deleted}}
  BY <1>4
<1>8. \A i, j \in P : i < j <=> <<E[i].id, E[j].id>> \in Ascending
  BY <1>4, <1>6 DEF Ascending
<1>9. \A i, j \in P : E[i].id = E[j].id => i = j
  BY <1>4
<1> QED
  BY <1>1, <1>2, <1>4, <1>5, <1>6, <1>7, <1>8, <1>9, EntriesHaveOneList

LEMMA PagesHaveOneList ==
  ASSUME NEW w \in Walks, NEW order,
         ledger \in [Transactions -> Statuses], schedule = AlsoScheduled
  PROVE  OneList(w, order)
BY TransactionsHaveOneList, AccountsHaveOneList, MonthsHaveOneList, ScheduledHaveOneList,
   GroupsHaveOneList, PayeesHaveOneList, WalksAssumption

-----------------------------------------------------------------------------
\* A walk goes on through the list where the last page ended.

\* m rows of a list behind the first o, or none if there are no more, and where the
\* next ones are.
Cuts(page, L, n, o, m) ==
  /\ page.entries = [k \in 1 .. m |-> L[o + k]]
  /\ page.total = n
  /\ page.next = IF o + m < n THEN o + m ELSE Absent
  /\ m = 0 \/ o + m <= n
  /\ o < n => m > 0

LEMMA PagesAreCut ==
  ASSUME NEW S, NEW L, NEW n \in Nat, L \in [1 .. n -> S],
         NEW limit \in Int \cup {Absent}, NEW offset \in Nat \cup {Absent}
  PROVE  \E m \in Nat : Cuts(CollectionResult(L, limit, offset), L, n,
                             IF offset = Absent THEN 0 ELSE offset, m)
PROOF
<1> DEFINE page == CollectionResult(L, limit, offset)
           o    == IF offset = Absent THEN 0 ELSE offset
           l    == Normalized(limit, DefaultLimit, 1)
           end  == IF o + l <= n THEN o + l ELSE n
           m    == IF o <= n THEN end - o ELSE 0
<1>1. L \in Seq(S) /\ Len(L) = n /\ DOMAIN L = 1 .. n
  OBVIOUS
<1>2. CASE limit = Absent /\ offset = Absent
  <2>1. page = [entries |-> L, total |-> n, next |-> Absent]
    BY <1>1, <1>2 DEF CollectionResult
  <2>2. L = [k \in 1 .. n |-> L[0 + k]]
    OBVIOUS
  <2>3. Cuts(page, L, n, 0, n)
    BY <2>1, <2>2 DEF Cuts
  <2> HIDE DEF page
  <2> QED
    BY <1>2, <2>3 DEF page
<1>3. CASE ~(limit = Absent /\ offset = Absent)
  <2>1. o \in Nat /\ o = Normalized(offset, 0, 0)
    BY WalksAssumption DEF Normalized
  <2>2. l \in Nat /\ l > 0
    BY WalksAssumption DEF Normalized, DefaultLimit
  <2>3. page = PaginateEntries(L, limit, offset)
    BY <1>3 DEF CollectionResult
  <2> HIDE DEF l, o
  <2>4. m \in Nat /\ (m = 0 \/ o + m <= n) /\ (o < n => m > 0)
    BY <2>1, <2>2
  <2>5. Slice(L, o, l) = [k \in 1 .. m |-> L[o + k]]
    <3>1. Slice(L, o, l) = SubSeq(L, o + 1, end)
      BY <1>1 DEF Slice
    <3>2. o + 1 \in Int /\ end \in Int /\ \A i \in (o + 1) .. end : L[i] \in S
      BY <2>1, <2>2
    <3>3. \A k \in 1 .. m : k \in 1 .. end - (o + 1) + 1 /\ (o + 1) + k - 1 = o + k
      BY <2>1, <2>2
    <3>4. (IF o + 1 <= end THEN end - (o + 1) + 1 ELSE 0) = m
      BY <2>1, <2>2
    <3> HIDE DEF end, m
    <3>5. /\ SubSeq(L, o + 1, end) \in Seq(S)
          /\ Len(SubSeq(L, o + 1, end)) = m
          /\ \A k \in 1 .. m : SubSeq(L, o + 1, end)[k] = L[o + k]
      BY <3>2, <3>3, <3>4, SubSeqProperties
    <3>6. ASSUME NEW cut \in Seq(S), Len(cut) = m, \A k \in 1 .. m : cut[k] = L[o + k]
          PROVE  cut = [k \in 1 .. m |-> L[o + k]]
      BY <2>4, <3>6
    <3> QED
      BY <3>1, <3>5, <3>6
  <2>6. Len([k \in 1 .. m |-> L[o + k]]) = m
    BY <2>4
  <2> HIDE DEF m
  <2>7. page = [entries |-> [k \in 1 .. m |-> L[o + k]], total |-> n,
                next |-> IF o + m < n THEN o + m ELSE Absent]
    BY <1>1, <2>1, <2>3, <2>5, <2>6 DEF PaginateEntries, NextOffset, l
  <2> HIDE DEF page
  <2>8. Cuts(page, L, n, o, m)
    BY <2>4, <2>7 DEF Cuts
  <2> QED
    BY <2>4, <2>8 DEF o, page
<1> QED
  BY <1>2, <1>3

\* What belongs to the walk and lies before the next page was delivered.
Missed(wanted, E, R, got, next) ==
  {x \in wanted : /\ next = Absent \/ Place(R, E, x) <= next
                  /\ \A k \in DOMAIN got : got[k] # x}

MissesNone(wanted, E, R, got, next) ==
  wanted \subseteq E /\ Missed(wanted, E, R, got, next) = {}

\* What was delivered belongs to the walk, was delivered once and lies before the
\* next page, if it is still there.
RepeatsNone(wanted, E, R, got, next) ==
  /\ E \subseteq wanted
  /\ \A k \in DOMAIN got : got[k] \in wanted
  /\ \A j, k \in DOMAIN got : got[j] = got[k] => j = k
  /\ next # Absent => \A k \in DOMAIN got : got[k] \in E => Place(R, E, got[k]) <= next

\* What was delivered is the beginning of the list.
InPlace(E, R, got) ==
  /\ Len(got) <= Cardinality(E)
  /\ \A k \in DOMAIN got : got[k] \in E /\ Place(R, E, got[k]) = k

\* A page takes all this on from where the last one ended, at o.
TakesOn(page, I, E, R, wanted, got, o) ==
  /\ got \o page.entries \in Seq(I)
  /\ page.next \in Nat \cup {Absent}
  /\ MissesNone(wanted, E, R, got, o)
       => MissesNone(wanted, E, R, got \o page.entries, page.next)
  /\ RepeatsNone(wanted, E, R, got, o)
       => RepeatsNone(wanted, E, R, got \o page.entries, page.next)
  /\ InPlace(E, R, got) /\ o = Len(got)
       => /\ InPlace(E, R, got \o page.entries)
          /\ page.next = Absent => Len(got \o page.entries) = Cardinality(E)
          /\ page.next # Absent => /\ page.next = Len(got \o page.entries)
                                   /\ page.next < Cardinality(E)

LEMMA PageDelivers ==
  ASSUME NEW I, NEW E \in SUBSET I, NEW R, IsFiniteSet(E), Orders(R, E),
         NEW L, Lists(L, R, E),
         NEW got \in Seq(I), NEW o \in Nat, NEW m \in Nat, NEW page,
         Cuts(page, L, Cardinality(E), o, m), NEW wanted
  PROVE  TakesOn(page, I, E, R, wanted, got, o)
PROOF
<1> DEFINE n   == Cardinality(E)
           new == got \o page.entries
           g   == Len(got)
<1>1. n \in Nat /\ g \in Nat /\ DOMAIN got = 1 .. g
  BY FS_CardinalityType
<1>2. L \in [1 .. n -> E] /\ \A k \in 1 .. n : Place(R, E, L[k]) = k
  BY DEF Lists
<1>3. /\ page.entries = [k \in 1 .. m |-> L[o + k]]
      /\ page.next = IF o + m < n THEN o + m ELSE Absent
      /\ m = 0 \/ o + m <= n
      /\ o < n => m > 0
  BY DEF Cuts
<1>4. \A k \in 1 .. m : o + k \in 1 .. n /\ L[o + k] \in E /\ Place(R, E, L[o + k]) = o + k
  <2> HIDE DEF n
  <2>1. \A k \in 1 .. m : o + k \in 1 .. n
    BY <1>1, <1>3
  <2> QED
    BY <1>2, <2>1
<1>5. page.entries \in Seq(I) /\ Len(page.entries) = m
  <2>1. \A k \in 1 .. m : L[o + k] \in I
    BY <1>4
  <2>2. page.entries \in [1 .. m -> I]
    BY <1>3, <2>1
  <2> QED
    BY <2>2
<1>6. /\ new \in Seq(I) /\ Len(new) = g + m /\ DOMAIN new = 1 .. g + m
      /\ \A k \in 1 .. g : new[k] = got[k]
      /\ \A k \in 1 .. m : new[g + k] = L[o + k]
  <2>1. new \in Seq(I) /\ Len(new) = g + m /\ DOMAIN new = 1 .. g + m
    BY <1>1, <1>5
  <2>2. \A k \in 1 .. g : new[k] = got[k]
    BY <1>1, <1>5
  <2>3. \A k \in 1 .. m : new[g + k] = page.entries[k]
    BY <1>1, <1>5
  <2> QED
    BY <1>3, <2>1, <2>2, <2>3
<1>7. \A i \in 1 .. g + m : i \in 1 .. g \/ \E k \in 1 .. m : i = g + k
  <2> SUFFICES ASSUME NEW i \in 1 .. g + m, i \notin 1 .. g
               PROVE  \E k \in 1 .. m : i = g + k
    OBVIOUS
  <2>1. i - g \in 1 .. m /\ i = g + (i - g)
    BY <1>1
  <2> QED
    BY <2>1
<1>8. Absent \notin Int
  BY WalksAssumption
<1> HIDE DEF n, new, g
<1>9. page.next \in Nat \cup {Absent}
  BY <1>3
<1>10. ASSUME MissesNone(wanted, E, R, got, o)
       PROVE  MissesNone(wanted, E, R, new, page.next)
  <2>1. wanted \subseteq E
    BY <1>10 DEF MissesNone
  <2>2. ASSUME NEW x \in wanted, page.next = Absent \/ Place(R, E, x) <= page.next
        PROVE  \E k \in DOMAIN new : new[k] = x
    <3>1. x \in E /\ Place(R, E, x) \in 1 .. n
      BY <2>1, PlacesFollow DEF n
    <3>2. Place(R, E, x) <= o + m
      BY <1>1, <1>3, <1>8, <2>2, <3>1
    <3>3. CASE Place(R, E, x) <= o
      <4>1. \E k \in 1 .. g : got[k] = x
        BY <1>1, <1>10, <3>3 DEF MissesNone, Missed
      <4> QED
        BY <1>1, <1>6, <4>1
    <3>4. CASE ~(Place(R, E, x) <= o)
      <4>1. Place(R, E, x) - o \in 1 .. m /\ o + (Place(R, E, x) - o) = Place(R, E, x)
        BY <3>1, <3>2, <3>4
      <4>2. PICK k \in 1 .. m : o + k = Place(R, E, x)
        BY <4>1
      <4>3. L[o + k] = x
        <5>1. L[o + k] \in E /\ Place(R, E, L[o + k]) = Place(R, E, x)
          BY <1>4, <4>2
        <5> QED
          BY <3>1, <5>1, PlacesDiffer
      <4>4. g + k \in 1 .. g + m
        BY <1>1
      <4> QED
        BY <1>6, <4>3, <4>4
    <3> QED
      BY <3>3, <3>4
  <2> QED
    BY <2>1, <2>2 DEF MissesNone, Missed
<1>11. ASSUME RepeatsNone(wanted, E, R, got, o)
       PROVE  RepeatsNone(wanted, E, R, new, page.next)
  <2>1. /\ E \subseteq wanted
        /\ \A k \in 1 .. g : got[k] \in wanted
        /\ \A j, k \in 1 .. g : got[j] = got[k] => j = k
        /\ \A k \in 1 .. g : got[k] \in E => Place(R, E, got[k]) <= o
    BY <1>1, <1>8, <1>11 DEF RepeatsNone
  <2>2. ASSUME NEW i \in 1 .. g + m
        PROVE  new[i] \in wanted
    <3>1. CASE i \in 1 .. g
      BY <1>6, <2>1, <3>1
    <3>2. CASE i \notin 1 .. g
      <4>1. PICK k \in 1 .. m : i = g + k
        BY <1>7, <3>2
      <4>2. new[i] \in E
        BY <1>4, <1>6, <4>1
      <4> QED
        BY <2>1, <4>2
    <3> QED
      BY <3>1, <3>2
  <2>3. \A j \in 1 .. g, k \in 1 .. m : new[j] # new[g + k]
    <3> SUFFICES ASSUME NEW j \in 1 .. g, NEW k \in 1 .. m, got[j] = L[o + k]
                 PROVE  FALSE
      BY <1>6
    <3>1. o + k <= o /\ k \in 1 .. m
      BY <1>4, <2>1
    <3> QED
      BY <3>1
  <2>4. \A j, k \in 1 .. m : new[g + j] = new[g + k] => j = k
    <3> SUFFICES ASSUME NEW j \in 1 .. m, NEW k \in 1 .. m, L[o + j] = L[o + k]
                 PROVE  j = k
      BY <1>6
    <3>1. o + j = o + k
      BY <1>4
    <3> QED
      BY <3>1
  <2>5. ASSUME NEW i \in 1 .. g + m, NEW j \in 1 .. g + m, new[i] = new[j]
        PROVE  i = j
    <3>1. CASE i \in 1 .. g /\ j \in 1 .. g
      BY <1>6, <2>1, <2>5, <3>1
    <3>2. CASE i \notin 1 .. g /\ j \notin 1 .. g
      BY <1>7, <2>4, <2>5, <3>2
    <3>3. CASE (i \in 1 .. g) # (j \in 1 .. g)
      BY <1>7, <2>3, <2>5, <3>3
    <3> QED
      BY <3>1, <3>2, <3>3
  <2>6. ASSUME page.next # Absent, NEW i \in 1 .. g + m, new[i] \in E
        PROVE  Place(R, E, new[i]) <= page.next
    <3>1. page.next = o + m
      BY <1>3, <2>6
    <3>2. CASE i \in 1 .. g
      <4>1. Place(R, E, new[i]) <= o /\ Place(R, E, new[i]) \in 1 .. n
        BY <1>6, <2>1, <2>6, <3>2, PlacesFollow DEF n
      <4> QED
        BY <1>1, <3>1, <4>1
    <3>3. CASE i \notin 1 .. g
      <4>1. PICK k \in 1 .. m : i = g + k
        BY <1>7, <3>3
      <4> QED
        BY <1>4, <1>6, <3>1, <4>1
    <3> QED
      BY <3>2, <3>3
  <2> QED
    BY <1>6, <2>1, <2>2, <2>5, <2>6 DEF RepeatsNone
<1>12. ASSUME InPlace(E, R, got), o = g
       PROVE  /\ InPlace(E, R, new)
              /\ page.next = Absent => Len(new) = n
              /\ page.next # Absent => page.next = Len(new) /\ page.next < n
  <2>1. g <= n /\ \A k \in 1 .. g : got[k] \in E /\ Place(R, E, got[k]) = k
    BY <1>1, <1>12 DEF InPlace, n, g
  <2>2. g + m <= n
    BY <1>1, <1>3, <1>12, <2>1
  <2>3. ASSUME NEW i \in 1 .. g + m
        PROVE  new[i] \in E /\ Place(R, E, new[i]) = i
    <3>1. CASE i \in 1 .. g
      BY <1>6, <2>1, <3>1
    <3>2. CASE i \notin 1 .. g
      <4>1. PICK k \in 1 .. m : i = g + k
        BY <1>7, <3>2
      <4> QED
        BY <1>4, <1>6, <1>12, <4>1
    <3> QED
      BY <3>1, <3>2
  <2>4. InPlace(E, R, new)
    BY <1>6, <2>2, <2>3 DEF InPlace, n
  <2>5. page.next = Absent => g + m = n
    BY <1>1, <1>3, <1>8, <1>12, <2>2
  <2>6. page.next # Absent => page.next = g + m /\ page.next < n
    BY <1>3, <1>12
  <2> QED
    BY <1>6, <2>4, <2>5, <2>6
<1> QED
  BY <1>6, <1>9, <1>10, <1>11, <1>12 DEF TakesOn, n, new, g

-----------------------------------------------------------------------------
\* A walk when E is what belongs to it now.
Delivers(w, E) ==
  /\ {"of", "got", "next", "total", "wanted", "came", "left"} \subseteq DOMAIN w
  /\ w.of \in Walks
  /\ w.got \in Seq(Items(w.of))
  /\ w.total \in Nat
  /\ w.next \in 1 .. (w.total - 1) \cup {Absent}
  /\ {w.came, w.left} \subseteq BOOLEAN
  /\ ~w.left => MissesNone(w.wanted, E, Order(w.of), w.got, w.next)
  /\ ~w.came => RepeatsNone(w.wanted, E, Order(w.of), w.got, w.next)
  /\ ~w.came /\ ~w.left =>
       /\ InPlace(E, Order(w.of), w.got)
       /\ w.total = Cardinality(E)
       /\ w.next = Absent => Len(w.got) = Cardinality(E)
       /\ w.next # Absent => w.next = Len(w.got) /\ w.next < Cardinality(E)

\* What a walk belongs to depends on the ledger alone: of what it reads besides, the
\* list of months is cached since it began and scheduled transactions stay.
WalkInv ==
  /\ ledger \in [Transactions -> Statuses]
  /\ "list" \in DOMAIN seen
  /\ topic = "pages" => schedule = AlsoScheduled
  /\ walk # None =>
       /\ topic = "pages"
       /\ walk.of.tool = "months" => seen.list # None
       /\ Delivers(walk, Wanted(walk.of, ledger))

LEMMA WantedIsOrdered ==
  ASSUME NEW w \in Walks, ledger \in [Transactions -> Statuses], schedule = AlsoScheduled
  PROVE  /\ Wanted(w, ledger) \in SUBSET Items(w)
         /\ IsFiniteSet(Wanted(w, ledger))
         /\ Orders(Order(w), Wanted(w, ledger))
PROOF
<1>1. Wanted(w, ledger) \in SUBSET Items(w)
  BY PagesHaveOneList DEF OneList
<1> QED
  BY <1>1, ItemsAreOrdered, FS_Subset, OrdersSubset

\* What belongs to a walk is what it was, but for the ledger.
LEMMA WantedStays ==
  ASSUME NEW w, schedule' = schedule,
         w.tool = "months" => OrLive(seen.list)' = OrLive(seen.list)
  PROVE  Wanted(w, ledger)' = Wanted(w, ledger')
PROOF
<1>1. CASE w.tool = "months"
  BY <1>1 DEF Wanted
<1>2. CASE w.tool # "months"
  BY <1>2 DEF Wanted
<1> QED
  BY <1>1, <1>2

\* A page of a list of n elements of I.
IsPage(page, I, n) ==
  /\ page.entries \in Seq(I)
  /\ page.total = n
  /\ n \in Nat
  /\ page.next \in 1 .. (n - 1) \cup {Absent}

\* The next page of a walk, also the first.
LEMMA PagesTakeOn ==
  ASSUME NEW w \in Walks, NEW order, NEW got \in Seq(Items(w)), NEW next \in Nat \cup {Absent},
         NEW wanted, ledger \in [Transactions -> Statuses], schedule = AlsoScheduled
  PROVE  LET page == Page(w, order, next)
         IN /\ TakesOn(page, Items(w), Wanted(w, ledger), Order(w), wanted, got,
                       IF next = Absent THEN 0 ELSE next)
            /\ IsPage(page, Items(w), Cardinality(Wanted(w, ledger)))
PROOF
<1> DEFINE E    == Wanted(w, ledger)
           R    == Order(w)
           page == Page(w, order, next)
           o    == IF next = Absent THEN 0 ELSE next
<1> HIDE DEF E, R, page, o
<1>1. E \in SUBSET Items(w) /\ IsFiniteSet(E) /\ Orders(R, E)
  BY WantedIsOrdered DEF E, R
<1>2. PICK L : /\ Lists(L, R, E)
               /\ \A offset : \E limit \in Int \cup {Absent} :
                    Page(w, order, offset) = CollectionResult(L, limit, offset)
  BY PagesHaveOneList DEF OneList, E, R
<1>3. PICK limit \in Int \cup {Absent} : page = CollectionResult(L, limit, next)
  BY <1>2 DEF page
<1>4. Cardinality(E) \in Nat /\ L \in [1 .. Cardinality(E) -> E]
  BY <1>1, <1>2, FS_CardinalityType DEF Lists
<1>5. o \in Nat
  BY DEF o
<1>6. PICK m \in Nat : Cuts(page, L, Cardinality(E), o, m)
  <2>1. \E m \in Nat : Cuts(CollectionResult(L, limit, next), L, Cardinality(E), o, m)
    BY <1>4, PagesAreCut DEF o
  <2> QED
    BY <1>3, <2>1
<1>7. page.total = Cardinality(E) /\ page.next \in 1 .. (Cardinality(E) - 1) \cup {Absent}
  BY <1>4, <1>5, <1>6 DEF Cuts
<1>8. TakesOn(page, Items(w), E, R, wanted, got, o)
  BY <1>1, <1>2, <1>5, <1>6, PageDelivers
<1>9. TakesOn(page, Items(w), E, R, wanted, <<>>, o)
  BY <1>1, <1>2, <1>5, <1>6, PageDelivers, <<>> \in Seq(Items(w))
<1>10. page.entries \in Seq(Items(w))
  <2>1. <<>> \o page.entries \in Seq(Items(w))
    BY <1>9 DEF TakesOn
  <2>2. page.entries = [k \in 1 .. m |-> L[o + k]]
    BY <1>6 DEF Cuts
  <2>3. page.entries \in Seq({L[o + k] : k \in 1 .. m})
    BY <2>2
  <2>4. <<>> \o page.entries = page.entries
    BY <2>3
  <2> QED
    BY <2>1, <2>4
<1> QED
  BY <1>4, <1>7, <1>8, <1>10 DEF IsPage, E, R, page, o

\* A change of the ledger between two pages.
LEMMA ChangeKeepsDelivers ==
  ASSUME NEW w, NEW E, NEW F, Delivers(w, E), w.next # Absent,
         E \in SUBSET Items(w.of), F \in SUBSET Items(w.of)
  PROVE  Delivers([w EXCEPT !.came = @ \/ F \ E # {}, !.left = @ \/ E \ F # {}], F)
PROOF
<1> DEFINE R     == Order(w.of)
           after == [w EXCEPT !.came = @ \/ F \ E # {}, !.left = @ \/ E \ F # {}]
<1>1. w.of \in Walks /\ w.got \in Seq(Items(w.of)) /\ w.next \in Nat
  BY DEF Delivers
<1>2. /\ IsFiniteSet(E) /\ Orders(R, E)
      /\ IsFiniteSet(F) /\ Orders(R, F)
  BY <1>1, ItemsAreOrdered, FS_Subset, OrdersSubset
<1>3. /\ {"of", "got", "next", "total", "wanted", "came", "left"} \subseteq DOMAIN after
      /\ after.of = w.of /\ after.got = w.got /\ after.next = w.next
      /\ after.total = w.total /\ after.wanted = w.wanted
      /\ after.came = (w.came \/ F \ E # {})
      /\ after.left = (w.left \/ E \ F # {})
  BY DEF Delivers
<1> HIDE DEF after, R
<1>4. ASSUME ~w.left, E \subseteq F
      PROVE  MissesNone(w.wanted, F, R, w.got, w.next)
  <2>1. MissesNone(w.wanted, E, R, w.got, w.next)
    BY <1>4 DEF Delivers, R
  <2>2. \A x \in w.wanted : Place(R, F, x) <= w.next => Place(R, E, x) <= w.next
    <3> SUFFICES ASSUME NEW x \in w.wanted, Place(R, F, x) <= w.next
                 PROVE  Place(R, E, x) <= w.next
      OBVIOUS
    <3>1. x \in E
      BY <2>1 DEF MissesNone
    <3>2. Place(R, E, x) <= Place(R, F, x)
      BY <1>2, <1>4, <3>1, PlacesGrow
    <3>3. Place(R, E, x) \in Int /\ Place(R, F, x) \in Int
      <4>1. x \in F /\ Cardinality(E) \in Nat /\ Cardinality(F) \in Nat
        BY <1>2, <1>4, <3>1, FS_CardinalityType
      <4>2. Place(R, E, x) \in 1 .. Cardinality(E) /\ Place(R, F, x) \in 1 .. Cardinality(F)
        BY <1>2, <3>1, <4>1, PlacesFollow
      <4> QED
        BY <4>1, <4>2
    <3> QED
      BY <1>1, <3>2, <3>3
  <2> QED
    BY <1>4, <2>1, <2>2 DEF MissesNone, Missed
<1>5. ASSUME ~w.came, F \subseteq E
      PROVE  RepeatsNone(w.wanted, F, R, w.got, w.next)
  <2>1. RepeatsNone(w.wanted, E, R, w.got, w.next)
    BY <1>5 DEF Delivers, R
  <2>2. ASSUME NEW k \in DOMAIN w.got, w.got[k] \in F
        PROVE  Place(R, F, w.got[k]) <= w.next
    <3> DEFINE x == w.got[k]
    <3>1. x \in F /\ x \in E
      BY <1>5, <2>2
    <3>2. Place(R, E, x) <= w.next
      BY <2>1, <3>1 DEF RepeatsNone
    <3> HIDE DEF x
    <3>3. Place(R, F, x) <= Place(R, E, x)
      BY <1>2, <1>5, <3>1, PlacesGrow
    <3>4. Place(R, E, x) \in Int /\ Place(R, F, x) \in Int
      <4>1. Cardinality(E) \in Nat /\ Cardinality(F) \in Nat
        BY <1>2, FS_CardinalityType
      <4>2. Place(R, E, x) \in 1 .. Cardinality(E) /\ Place(R, F, x) \in 1 .. Cardinality(F)
        BY <1>2, <3>1, PlacesFollow
      <4> QED
        BY <4>1, <4>2
    <3>5. Place(R, F, x) <= w.next
      BY <1>1, <3>2, <3>3, <3>4
    <3> QED
      BY <3>5 DEF x
  <2> QED
    BY <1>5, <2>1, <2>2 DEF RepeatsNone
<1>6. ~after.left => ~w.left /\ E \subseteq F
  BY <1>3
<1>7. ~after.came => ~w.came /\ F \subseteq E
  BY <1>3
<1>8. ~after.came /\ ~after.left => ~w.came /\ ~w.left /\ F = E
  BY <1>6, <1>7
<1>9. {after.came, after.left} \subseteq BOOLEAN
  BY <1>3 DEF Delivers
<1>10. Delivers(after, F)
  <2>1. ~after.left => MissesNone(after.wanted, F, R, after.got, after.next)
    BY <1>3, <1>4, <1>6
  <2>2. ~after.came => RepeatsNone(after.wanted, F, R, after.got, after.next)
    BY <1>3, <1>5, <1>7
  <2>3. ~after.came /\ ~after.left =>
          /\ InPlace(F, R, after.got)
          /\ after.total = Cardinality(F)
          /\ after.next = Absent => Len(after.got) = Cardinality(F)
          /\ after.next # Absent => after.next = Len(after.got) /\ after.next < Cardinality(F)
    BY <1>3, <1>8 DEF Delivers, R
  <2> QED
    BY <1>1, <1>3, <1>9, <2>1, <2>2, <2>3 DEF Delivers, R
<1> QED
  BY <1>10 DEF after

LEMMA InitWalks == Init => WalkInv
PROOF
<1> SUFFICES ASSUME Init
             PROVE  WalkInv
  OBVIOUS
<1>1. ledger \in [Transactions -> Statuses]
  BY DEF Init, Statuses
<1> QED
  BY <1>1 DEF Init, WalkInv

LEMMA StepKeepsWalks ==
  ASSUME WalkInv, [Next]_vars
  PROVE  WalkInv'
PROOF
<1>1. ASSUME NEW w \in Walks, NEW order, StartWalk(w, order)
      PROVE  WalkInv'
  <2> DEFINE page == Page(w, order, Absent)
             E    == Wanted(w, ledger)
  <2>1. /\ topic = "pages" /\ UNCHANGED <<topic, ledger, schedule>>
        /\ walk' = [of |-> w, got |-> page.entries, next |-> page.next, total |-> page.total,
                    wanted |-> E, came |-> FALSE, left |-> FALSE]
        /\ seen' = [seen EXCEPT !.list = IF w.tool = "months" THEN OrLive(@) ELSE @]
    BY <1>1 DEF StartWalk
  <2>2. ledger \in [Transactions -> Statuses] /\ schedule = AlsoScheduled
    BY <2>1 DEF WalkInv
  <2>3. w.tool = "months" => seen'.list # None /\ OrLive(seen.list)' = OrLive(seen.list)
    <3>1. Live # None
      BY TransactionsAssumption DEF Live, LedgerLive, Transactions
    <3>2. OrLive(seen.list) # None
      BY <3>1 DEF OrLive
    <3>3. w.tool = "months" => seen'.list = OrLive(seen.list)
      BY <2>1 DEF WalkInv
    <3> QED
      BY <3>2, <3>3 DEF OrLive
  <2>4. Wanted(w, ledger)' = E
    BY <2>1, <2>3, WantedStays
  <2>5. /\ MissesNone(E, E, Order(w), <<>>, 0)
        /\ RepeatsNone(E, E, Order(w), <<>>, 0)
        /\ InPlace(E, Order(w), <<>>)
    <3>1. IsFiniteSet(E) /\ Orders(Order(w), E)
      BY <2>2, WantedIsOrdered
    <3> HIDE DEF E
    <3>2. Cardinality(E) \in Nat /\ \A x \in E : Place(Order(w), E, x) \in 1 .. Cardinality(E)
      BY <3>1, FS_CardinalityType, PlacesFollow
    <3>3. \A x \in E : ~(Place(Order(w), E, x) <= 0)
      BY <3>2
    <3>4. 0 # Absent
      BY WalksAssumption
    <3> QED
      BY <3>2, <3>3, <3>4 DEF MissesNone, Missed, RepeatsNone, InPlace
  <2>6. /\ TakesOn(page, Items(w), E, Order(w), E, <<>>, 0)
        /\ IsPage(page, Items(w), Cardinality(E))
    <3>1. <<>> \in Seq(Items(w)) /\ Absent \in Nat \cup {Absent}
            /\ (IF Absent = Absent THEN 0 ELSE Absent) = 0
      OBVIOUS
    <3> QED
      BY <2>2, <3>1, PagesTakeOn
  <2> HIDE DEF page, E
  <2>7. <<>> \o page.entries = page.entries /\ Len(<<>>) = 0
    BY <2>6 DEF IsPage
  <2>8. Delivers(walk', E) /\ walk'.of = w
    <3>1. /\ MissesNone(E, E, Order(w), page.entries, page.next)
          /\ RepeatsNone(E, E, Order(w), page.entries, page.next)
          /\ InPlace(E, Order(w), page.entries)
          /\ page.next = Absent => Len(page.entries) = Cardinality(E)
          /\ page.next # Absent =>
               page.next = Len(page.entries) /\ page.next < Cardinality(E)
      BY <2>5, <2>6, <2>7 DEF TakesOn
    <3> QED
      BY <2>1, <2>6, <3>1 DEF Delivers, IsPage
  <2>9. Delivers(walk, Wanted(walk.of, ledger))'
    BY <2>4, <2>8
  <2>10. "list" \in DOMAIN seen'
    BY <2>1 DEF WalkInv
  <2> QED
    BY <2>1, <2>2, <2>3, <2>8, <2>9, <2>10 DEF WalkInv
<1>2. ASSUME NEW order, NextPage(order)
      PROVE  WalkInv'
  <2> DEFINE page == Page(walk.of, order, walk.next)
             E    == Wanted(walk.of, ledger)
  <2>1. /\ walk # None /\ walk.next # Absent
        /\ UNCHANGED <<topic, ledger, seen, schedule>>
        /\ walk' = [walk EXCEPT !.got = @ \o page.entries, !.next = page.next,
                                !.total = page.total]
    BY <1>2 DEF NextPage
  <2>2. /\ ledger \in [Transactions -> Statuses] /\ schedule = AlsoScheduled
        /\ Delivers(walk, E) /\ walk.of \in Walks
    BY <2>1 DEF WalkInv, Delivers
  <2> DEFINE R == Order(walk.of)
  <2>3. walk.got \in Seq(Items(walk.of)) /\ walk.next \in Nat
    BY <2>1, <2>2 DEF Delivers
  <2>4. /\ TakesOn(page, Items(walk.of), E, R, walk.wanted, walk.got, walk.next)
        /\ IsPage(page, Items(walk.of), Cardinality(E))
    <3>1. walk.next \in Nat \cup {Absent}
            /\ (IF walk.next = Absent THEN 0 ELSE walk.next) = walk.next
      BY <2>1, <2>3
    <3> QED
      BY <2>2, <2>3, <3>1, PagesTakeOn
  <2> HIDE DEF page, E, R
  <2>5. /\ walk'.of = walk.of /\ walk'.got = walk.got \o page.entries
        /\ walk'.next = page.next /\ walk'.total = page.total
        /\ walk'.wanted = walk.wanted /\ walk'.came = walk.came /\ walk'.left = walk.left
        /\ {"of", "got", "next", "total", "wanted", "came", "left"} \subseteq DOMAIN walk'
    <3>1. {"of", "got", "next", "total", "wanted", "came", "left"} \subseteq DOMAIN walk
      BY <2>2 DEF Delivers
    <3> QED
      BY <2>1, <3>1
  <2>6. Delivers(walk', E)
    <3> DEFINE new == walk.got \o page.entries
    <3>1. new \in Seq(Items(walk.of))
      BY <2>4 DEF TakesOn
    <3>2. ~walk.left => MissesNone(walk.wanted, E, R, new, page.next)
      BY <2>2, <2>4 DEF TakesOn, Delivers, R
    <3>3. ~walk.came => RepeatsNone(walk.wanted, E, R, new, page.next)
      BY <2>2, <2>4 DEF TakesOn, Delivers, R
    <3>4. ~walk.came /\ ~walk.left =>
            /\ InPlace(E, R, new)
            /\ page.next = Absent => Len(new) = Cardinality(E)
            /\ page.next # Absent => page.next = Len(new) /\ page.next < Cardinality(E)
      BY <2>1, <2>2, <2>4 DEF TakesOn, Delivers, R
    <3>5. walk.of \in Walks /\ {walk.came, walk.left} \subseteq BOOLEAN
      BY <2>2 DEF Delivers
    <3>6. walk'.got = new
      BY <2>5
    <3> HIDE DEF new
    <3> QED
      BY <2>4, <2>5, <3>1, <3>2, <3>3, <3>4, <3>5, <3>6 DEF Delivers, IsPage, R
  <2>7. Wanted(walk.of, ledger)' = E
    <3>1. OrLive(seen.list)' = OrLive(seen.list)
      BY <2>1 DEF OrLive, Live, LedgerLive
    <3>2. Wanted(walk.of, ledger)' = Wanted(walk.of, ledger')
      BY <2>1, <2>5, <3>1 DEF Wanted
    <3> QED
      BY <2>1, <3>2 DEF E
  <2> QED
    BY <2>1, <2>2, <2>5, <2>6, <2>7 DEF WalkInv
<1>3. ASSUME NEW t \in Transactions, NEW status \in Statuses, Change(t, status)
      PROVE  WalkInv'
  <2> DEFINE after == [ledger EXCEPT ![t] = status]
  <2>1. /\ ledger' = after /\ UNCHANGED <<topic, seen, schedule>>
        /\ topic = "pages" => walk # None /\ walk.next # Absent
    BY <1>3 DEF Change
  <2>2. ledger' \in [Transactions -> Statuses]
    BY <2>1 DEF WalkInv
  <2>3. CASE walk = None
    <3>1. walk' = None
      BY <1>3, <2>3 DEF Change
    <3> QED
      BY <2>1, <2>2, <3>1 DEF WalkInv
  <2>4. CASE walk # None
    <3> DEFINE E == Wanted(walk.of, ledger)
               F == Wanted(walk.of, after)
    <3>1. walk' = [walk EXCEPT !.came = @ \/ F \ E # {}, !.left = @ \/ E \ F # {}]
      BY <1>3, <2>4 DEF Change
    <3>2. /\ topic = "pages" /\ schedule = AlsoScheduled /\ walk.of \in Walks
          /\ Delivers(walk, E) /\ walk.next # Absent
      BY <2>1, <2>4 DEF WalkInv, Delivers
    <3>3. walk'.of = walk.of
      <4> HIDE DEF E, F
      <4> QED
        BY <3>1, <3>2 DEF Delivers
    <3>4. OrLive(seen.list)' = OrLive(seen.list) \/ walk.of.tool # "months"
      BY <2>1, <2>4 DEF WalkInv, OrLive
    <3>5. Wanted(walk.of, ledger)' = F
      <4>1. CASE walk.of.tool = "months"
        BY <2>1, <3>3, <3>4, <4>1 DEF Wanted
      <4>2. CASE walk.of.tool # "months"
        BY <2>1, <3>3, <4>2 DEF Wanted
      <4> QED
        BY <4>1, <4>2
    <3>6. E \in SUBSET Items(walk.of)
      BY <3>2, WantedIsOrdered DEF WalkInv
    <3>7. F \in SUBSET Items(walk.of)
      <4>1. walk.of.tool \notin {"search", "list", "payees"} => F = E
        BY <3>2, WalksAssumption DEF Wanted
      <4>2. walk.of.tool \in {"search", "list"} =>
              F \subseteq Transactions /\ Items(walk.of) = Transactions
        BY DEF Wanted, LedgerLive, Transactions, Items
      <4>3. walk.of.tool = "payees" => F \subseteq {Tx[u].payee : u \in Transactions}
              /\ Items(walk.of) = {Tx[u].payee : u \in Transactions}
        BY DEF Wanted, PayeeIds, Items
      <4> HIDE DEF F, E
      <4> QED
        BY <3>6, <4>1, <4>2, <4>3
    <3> HIDE DEF E, F
    <3>8. Delivers(walk', F)
      BY <3>1, <3>2, <3>6, <3>7, ChangeKeepsDelivers
    <3>9. Delivers(walk, Wanted(walk.of, ledger))'
      BY <3>5, <3>8
    <3> QED
      BY <2>1, <2>2, <2>4, <3>2, <3>3, <3>9 DEF WalkInv
  <2> QED
    BY <2>3, <2>4
<1>4. ASSUME topic # "pages", topic' = topic, walk' = walk, ledger' = ledger,
             DOMAIN seen' = DOMAIN seen
      PROVE  WalkInv'
  BY <1>4 DEF WalkInv
<1>5. ASSUME NEW withMonths, Report(withMonths)
      PROVE  WalkInv'
  BY <1>4, <1>5 DEF Report
<1>6. ASSUME NEW a, Analyse(a) \/ Update(a)
      PROVE  WalkInv'
  BY <1>4, <1>6 DEF Analyse, Update, ReadMonths
<1>7. ASSUME Pass \/ MonthTurns \/ ReadSchedule \/ Reschedule \/ \E key : MonthReport(key)
      PROVE  WalkInv'
  <2>1. /\ topic # "pages" /\ UNCHANGED <<topic, walk, ledger>>
        /\ DOMAIN seen' = DOMAIN seen
    BY <1>7 DEF Pass, MonthTurns, PassTo, ReadSchedule, Reschedule, MonthReport
  <2> QED
    BY <1>4, <2>1
<1>8. CASE UNCHANGED vars
  <2>1. UNCHANGED <<topic, walk, ledger, seen, schedule>>
    BY <1>8 DEF vars
  <2>2. walk # None => Wanted(walk.of, ledger)' = Wanted(walk.of, ledger)
    <3>1. OrLive(seen.list)' = OrLive(seen.list)
      BY <2>1 DEF OrLive, Live, LedgerLive
    <3> QED
      BY <2>1, <3>1 DEF Wanted
  <2> QED
    BY <2>1, <2>2 DEF WalkInv
<1> QED
  BY <1>1, <1>2, <1>3, <1>5, <1>6, <1>7, <1>8 DEF Next

-----------------------------------------------------------------------------
\* What the places say is what the properties ask for.
LEMMA WalksAreDelivered ==
  ASSUME WalkInv
  PROVE  WalksDeliver
PROOF
<1> SUFFICES ASSUME walk # None
             PROVE  WalksDeliver
  BY DEF WalksDeliver, PagesMissOnlyWhatLeft, PagesRepeatOnlyWhatCame, PagesMakeOneList
<1> DEFINE E   == Wanted(walk.of, ledger)
           R   == Order(walk.of)
           got == walk.got
           n   == Len(got)
<1>1. Delivers(walk, E) /\ walk.of \in Walks
  BY DEF WalkInv, Delivers
<1>2. IsFiniteSet(E) /\ Orders(R, E) /\ E \in SUBSET Items(walk.of)
  BY <1>1, WantedIsOrdered DEF WalkInv
<1> HIDE DEF E, R
<1>3. n \in Nat /\ DOMAIN got = 1 .. n /\ ToSet(got) = {got[k] : k \in 1 .. n}
  BY <1>1 DEF Delivers, ToSet
<1>4. PagesMissOnlyWhatLeft
  <2> SUFFICES ASSUME walk.next = Absent, ~walk.left, NEW x \in walk.wanted
               PROVE  x \in ToSet(got)
    BY DEF PagesMissOnlyWhatLeft
  <2>1. Missed(walk.wanted, E, R, got, walk.next) = {}
    BY <1>1 DEF Delivers, MissesNone, R
  <2>2. \E k \in DOMAIN got : got[k] = x
    BY <2>1 DEF Missed
  <2> QED
    BY <1>3, <2>2
<1>5. PagesRepeatOnlyWhatCame
  <2> SUFFICES ASSUME ~walk.came
               PROVE  Cardinality(ToSet(got)) = n /\ ToSet(got) \subseteq walk.wanted
    BY DEF PagesRepeatOnlyWhatCame
  <2>1. /\ \A k \in 1 .. n : got[k] \in walk.wanted
        /\ \A j, k \in 1 .. n : got[j] = got[k] => j = k
    BY <1>1, <1>3 DEF Delivers, RepeatsNone
  <2> DEFINE f == [k \in 1 .. n |-> got[k]]
             T == ToSet(got)
  <2>2. f \in [1 .. n -> T] /\ (\A j, k \in 1 .. n : f[j] = f[k] => j = k)
          /\ \A x \in T : \E k \in 1 .. n : f[k] = x
    BY <1>3, <2>1
  <2> HIDE DEF f, T, n
  <2>3. f \in Injection(1 .. n, T) /\ f \in Surjection(1 .. n, T)
    BY <2>2 DEF Injection, Surjection, IsInjective
  <2>4. IsFiniteSet(1 .. n) /\ Cardinality(1 .. n) = n
    BY <1>3, FS_Interval
  <2>5. IsFiniteSet(T) /\ Cardinality(T) = n
    <3>1. IsFiniteSet(T)
      BY <2>3, <2>4, FS_Surjection
    <3> QED
      BY <2>3, <2>4, <3>1, FS_Injection
  <2> QED
    BY <1>3, <2>1, <2>5 DEF T
<1>6. PagesMakeOneList
  <2> SUFFICES ASSUME ~walk.came, ~walk.left
               PROVE  /\ walk.of.tool \in {"search", "list"} =>
                           \A i \in 1 .. n - 1 :
                             LET one == Tx[got[i]]
                                 two == Tx[got[i + 1]]
                             IN CASE walk.of.sort = "date_asc"    -> one.date <= two.date
                                  [] walk.of.sort = "date_desc"   -> one.date >= two.date
                                  [] walk.of.sort = "amount_asc"  -> one.amount <= two.amount
                                  [] walk.of.sort = "amount_desc" -> one.amount >= two.amount
                      /\ walk.total = Cardinality(walk.wanted)
                      /\ (walk.next = Absent) = (Len(got) = walk.total)
    BY DEF PagesMakeOneList
  <2>1. /\ InPlace(E, R, got)
        /\ walk.total = Cardinality(E)
        /\ walk.next = Absent => n = Cardinality(E)
        /\ walk.next # Absent => walk.next = n /\ walk.next < Cardinality(E)
    BY <1>1 DEF Delivers, R
  <2>2. E = walk.wanted
    BY <1>1 DEF Delivers, MissesNone, RepeatsNone
  <2>3. Cardinality(E) \in Nat
    BY <1>2, FS_CardinalityType
  <2>4. (walk.next = Absent) = (n = walk.total)
    BY <1>3, <2>1, <2>3
  <2>5. ASSUME walk.of.tool \in {"search", "list"}, NEW i \in 1 .. n - 1
        PROVE  LET one == Tx[got[i]]
                   two == Tx[got[i + 1]]
               IN CASE walk.of.sort = "date_asc"    -> one.date <= two.date
                    [] walk.of.sort = "date_desc"   -> one.date >= two.date
                    [] walk.of.sort = "amount_asc"  -> one.amount <= two.amount
                    [] walk.of.sort = "amount_desc" -> one.amount >= two.amount
    <3> DEFINE t == got[i]
               u == got[i + 1]
    <3>1. i \in 1 .. n /\ i + 1 \in 1 .. n
      BY <1>3, <2>5
    <3>2. t \in E /\ u \in E /\ Place(R, E, t) = i /\ Place(R, E, u) = i + 1
      BY <1>3, <2>1, <3>1 DEF InPlace
    <3> HIDE DEF t, u
    <3>3. <<t, u>> \in R
      <4>1. t # u /\ ~(i + 1 < i)
        BY <3>1, <3>2
      <4>2. <<u, t>> \in R => i + 1 < i
        BY <1>2, <3>2, PlacesFollow
      <4> QED
        BY <1>2, <3>2, <4>1, <4>2 DEF Orders
    <3>4. R = ByRow(walk.of.sort) /\ Items(walk.of) = Transactions
      BY <2>5 DEF R, Order, Items
    <3>5. t \in Transactions /\ u \in Transactions /\ walk.of.sort \in Sorts
      BY <1>1, <1>2, <3>2, <3>4, WalksAssumption
    <3>6. Before(Row(t, "approved"), Row(u, "approved"), walk.of.sort)
      BY <3>3, <3>4, <3>5, BeforeOrders
    <3>7. /\ Row(t, "approved").date = Tx[t].date /\ Row(t, "approved").amount = Tx[t].amount
          /\ Row(u, "approved").date = Tx[u].date /\ Row(u, "approved").amount = Tx[u].amount
      BY DEF Row
    <3>8. /\ Tx[t].date \in Int /\ Tx[t].amount \in Int
          /\ Tx[u].date \in Int /\ Tx[u].amount \in Int
      BY <3>5, TransactionsAssumption
    <3>9. CASE walk.of.sort = "date_asc"
      BY <3>6, <3>7, <3>8, <3>9 DEF Before, t, u
    <3>10. CASE walk.of.sort = "date_desc"
      BY <3>6, <3>7, <3>8, <3>10 DEF Before, NewestFirst, t, u
    <3>11. CASE walk.of.sort = "amount_asc"
      BY <3>6, <3>7, <3>8, <3>11 DEF Before, t, u
    <3>12. CASE walk.of.sort = "amount_desc"
      BY <3>6, <3>7, <3>8, <3>12 DEF Before, t, u
    <3> QED
      BY <3>5, <3>9, <3>10, <3>11, <3>12 DEF Sorts
  <2> QED
    BY <2>1, <2>2, <2>4, <2>5
<1> QED
  BY <1>4, <1>5, <1>6 DEF WalksDeliver

\* A client that follows the offsets the pages name gets what belongs to its walk, in
\* the order it asked for: everything unless something went away meanwhile, nothing
\* twice unless something came, for every ledger, every list, filter, sort and limit,
\* and in whatever order the API sends it (transactionQueryEngine.ts 114-190,
\* collectionToolUtils.ts 51-70).
THEOREM WalksReachEverything == Spec => []WalksDeliver
PROOF
<1>1. Init => WalkInv
  BY InitWalks
<1>2. WalkInv /\ [Next]_vars => WalkInv'
  BY StepKeepsWalks
<1>3. WalkInv => WalksDeliver
  BY WalksAreDelivered
<1> QED
  BY <1>1, <1>2, <1>3, PTL DEF Spec

-----------------------------------------------------------------------------
\* The types, and that the next date of a scheduled transaction is never in the past.

\* A scheduled transaction with dates.
IsScheduled(s, date) ==
  /\ {"first", "next", "frequency", "deleted"} \subseteq DOMAIN s
  /\ s.first \in Int
  /\ s.frequency \in Frequencies
  /\ s.deleted \/ (s.next \in Int /\ s.next >= date)

Reads == (SUBSET Transactions) \cup {None}

MonthReads == [month : Months, live : SUBSET Transactions] \cup {None}

Typed ==
  /\ topic \in Topics
  /\ opening \in Openings
  /\ changes \in 0 .. MaxChanges[topic]
  /\ seen \in [accounts : Reads, list : Reads, months : [Months -> Reads],
              current : MonthReads]
  /\ today \in Today .. LastDay + Step
  /\ \A s \in schedule : IsScheduled(s, today)

LEMMA MonthsAreIntegers ==
  ASSUME NEW n \in Int, NEW date \in Int
  PROVE  MonthStart(n) \in Int /\ MonthOf(date) \in Int
PROOF
<1>1. \A k \in 1 .. 12 : DaysBefore[k] \in Int
  BY DEF DaysBefore
<1>2. (n % 12) + 1 \in 1 .. 12 /\ n \div 12 \in Int
  OBVIOUS
<1>3. MonthStart(n) \in Int
  BY <1>1, <1>2 DEF MonthStart
<1>4. Cardinality({i \in 2 .. 12 : DaysBefore[i] <= (date % 365)}) \in Nat
  <2>1. {i \in 2 .. 12 : DaysBefore[i] <= (date % 365)} \in SUBSET (2 .. 12)
    OBVIOUS
  <2>2. IsFiniteSet(2 .. 12)
    <3>1. 2 \in Int /\ 12 \in Int
      OBVIOUS
    <3> QED
      BY <3>1, FS_Interval
  <2> QED
    BY <2>1, <2>2, FS_Subset, FS_CardinalityType
<1>5. MonthOf(date) \in Int
  BY <1>4 DEF MonthOf
<1> QED
  BY <1>3, <1>5

LEMMA MonthNumbers ==
  ASSUME NEW n \in Int
  PROVE  /\ n % 12 < 11 => (n + 1) \div 12 = n \div 12 /\ (n + 1) % 12 = (n % 12) + 1
         /\ n % 12 = 11 => (n + 1) \div 12 = (n \div 12) + 1 /\ (n + 1) % 12 = 0
         /\ n % 12 \in 0 .. 11 /\ n \div 12 \in Int
OBVIOUS

LEMMA MonthsAscend ==
  ASSUME NEW n \in Int
  PROVE  MonthStart(n) + 28 <= MonthStart(n + 1)
PROOF
<1>1. \A k \in 1 .. 11 : DaysBefore[k] \in Int /\ DaysBefore[k + 1] \in Int
                           /\ DaysBefore[k] + 28 <= DaysBefore[k + 1]
  BY DEF DaysBefore
<1>2. CASE n % 12 < 11
  <2>1. (n % 12) + 1 \in 1 .. 11
    BY <1>2, MonthNumbers
  <2>2. MonthStart(n + 1) = 365 * (n \div 12) + DaysBefore[((n % 12) + 1) + 1]
    BY <1>2, MonthNumbers DEF MonthStart
  <2>3. MonthStart(n) = 365 * (n \div 12) + DaysBefore[(n % 12) + 1]
    BY DEF MonthStart
  <2> DEFINE k == (n % 12) + 1
             q == n \div 12
  <2>4. k \in 1 .. 11 /\ q \in Int
    BY <2>1
  <2> HIDE DEF k, q
  <2>5. /\ DaysBefore[k] \in Int /\ DaysBefore[k + 1] \in Int
        /\ DaysBefore[k] + 28 <= DaysBefore[k + 1]
    BY <1>1, <2>4
  <2>6. 365 * q + DaysBefore[k] + 28 <= 365 * q + DaysBefore[k + 1]
    BY <2>4, <2>5
  <2> QED
    BY <2>2, <2>3, <2>6 DEF k, q
<1>3. CASE n % 12 = 11
  <2>1. DaysBefore[12] = 334 /\ DaysBefore[1] = 0
    BY DEF DaysBefore
  <2>2. MonthStart(n) = 365 * (n \div 12) + DaysBefore[12]
    BY <1>3 DEF MonthStart
  <2>3. MonthStart(n + 1) = 365 * ((n \div 12) + 1) + DaysBefore[1]
    BY <1>3, MonthNumbers DEF MonthStart
  <2> DEFINE q == n \div 12
  <2>4. q \in Int
    BY MonthNumbers
  <2> HIDE DEF q
  <2>5. 365 * q + 334 + 28 <= 365 * (q + 1) + 0
    BY <2>4
  <2> QED
    BY <2>1, <2>2, <2>3, <2>5 DEF q
<1> QED
  BY <1>2, <1>3, MonthNumbers

\* A day lies in its month.
LEMMA DayIsInMonth ==
  ASSUME NEW date \in Int
  PROVE  MonthStart(MonthOf(date)) <= date /\ date < MonthStart(MonthOf(date) + 1)
PROOF
<1> DEFINE q       == date \div 365
           d       == date % 365
           reached == {i \in 2 .. 12 : DaysBefore[i] <= d}
<1>1. q \in Int /\ d \in 0 .. 364 /\ date = 365 * q + d
  OBVIOUS
<1>2. MonthOf(date) = 12 * q + Cardinality(reached)
  BY DEF MonthOf
<1> HIDE DEF q, d
<1>3. \E k \in 1 .. 12 : /\ reached = 2 .. k /\ DaysBefore[k] <= d
                         /\ k = 12 \/ (k < 12 /\ d < DaysBefore[k + 1])
  <2>1. \A i \in 2 .. 12 : DaysBefore[i] <= d <=>
          d >= (CASE i = 2 -> 31 [] i = 3 -> 59 [] i = 4 -> 90 [] i = 5 -> 120 [] i = 6 -> 151
                  [] i = 7 -> 181 [] i = 8 -> 212 [] i = 9 -> 243 [] i = 10 -> 273
                  [] i = 11 -> 304 [] i = 12 -> 334)
    BY <1>1 DEF DaysBefore
  <2> DEFINE k == CASE d < 31 -> 1 [] 31 <= d /\ d < 59 -> 2 [] 59 <= d /\ d < 90 -> 3
                    [] 90 <= d /\ d < 120 -> 4 [] 120 <= d /\ d < 151 -> 5
                    [] 151 <= d /\ d < 181 -> 6 [] 181 <= d /\ d < 212 -> 7
                    [] 212 <= d /\ d < 243 -> 8 [] 243 <= d /\ d < 273 -> 9
                    [] 273 <= d /\ d < 304 -> 10 [] 304 <= d /\ d < 334 -> 11
                    [] 334 <= d -> 12
  <2>2. k \in 1 .. 12
    BY <1>1
  <2>3. \A i \in 2 .. 12 : DaysBefore[i] <= d <=> i <= k
    BY <1>1, <2>1, SMTT(30)
  <2> HIDE DEF k
  <2>4. k = 12 \/ (k < 12 /\ d < DaysBefore[k + 1])
    <3>1. \A i \in 2 .. 12 : DaysBefore[i] \in Int
      BY DEF DaysBefore
    <3>2. k < 12 => k + 1 \in 2 .. 12 /\ ~(k + 1 <= k)
      BY <2>2
    <3>3. k < 12 => ~(DaysBefore[k + 1] <= d)
      BY <2>3, <3>2
    <3> QED
      BY <1>1, <2>2, <3>1, <3>2, <3>3
  <2>5. reached = 2 .. k
    BY <2>2, <2>3
  <2>6. DaysBefore[k] <= d
    <3>1. k = 1 => DaysBefore[k] = 0
      BY DEF DaysBefore
    <3>2. k # 1 => k \in 2 .. 12 /\ k <= k
      BY <2>2
    <3> QED
      BY <1>1, <2>3, <3>1, <3>2
  <2> QED
    BY <2>2, <2>4, <2>5, <2>6
<1>4. PICK k \in 1 .. 12 : /\ reached = 2 .. k /\ DaysBefore[k] <= d
                           /\ k = 12 \/ (k < 12 /\ d < DaysBefore[k + 1])
  BY <1>3
<1>5. reached = 2 .. k
  BY <1>4
<1>6. DaysBefore[k] <= d
  BY <1>4
<1>7. k = 12 \/ (k < 12 /\ d < DaysBefore[k + 1])
  BY <1>4
<1> HIDE DEF reached
<1>8. Cardinality(reached) = k - 1
  <2>1. 2 \in Int /\ k \in Int
    OBVIOUS
  <2>2. Cardinality(2 .. k) = IF 2 > k THEN 0 ELSE k - 2 + 1
    BY <2>1, FS_Interval
  <2> QED
    BY <1>5, <2>2
<1>9. MonthOf(date) + 1 = 12 * q + k
  BY <1>1, <1>2, <1>8
<1>10. MonthStart(MonthOf(date)) <= date
  <2>1. (12 * q + (k - 1)) \div 12 = q /\ (12 * q + (k - 1)) % 12 = k - 1
    BY <1>1
  <2>2. MonthOf(date) = 12 * q + (k - 1)
    BY <1>1, <1>2, <1>8
  <2>3. MonthStart(12 * q + (k - 1)) = 365 * q + DaysBefore[(k - 1) + 1]
    BY <2>1 DEF MonthStart
  <2>4. (k - 1) + 1 = k /\ DaysBefore[k] \in Int
    BY DEF DaysBefore
  <2>5. MonthStart(MonthOf(date)) = 365 * q + DaysBefore[k]
    BY <2>2, <2>3, <2>4
  <2> QED
    BY <1>1, <1>6, <2>4, <2>5
<1>11. CASE k = 12
  <2>1. (12 * q + 12) \div 12 = q + 1 /\ (12 * q + 12) % 12 = 0
    BY <1>1
  <2>2. MonthStart(12 * q + 12) = 365 * (q + 1) + DaysBefore[1]
    BY <2>1 DEF MonthStart
  <2>3. DaysBefore[1] = 0
    BY DEF DaysBefore
  <2>4. date < MonthStart(MonthOf(date) + 1)
    BY <1>1, <1>9, <1>11, <2>2, <2>3
  <2> QED
    BY <1>10, <2>4
<1>12. CASE k < 12
  <2>1. (12 * q + k) \div 12 = q /\ (12 * q + k) % 12 = k
    BY <1>1, <1>12
  <2>2. MonthStart(12 * q + k) = 365 * q + DaysBefore[k + 1]
    BY <2>1 DEF MonthStart
  <2>3. DaysBefore[k + 1] \in Int
    BY <1>12 DEF DaysBefore
  <2>4. date < MonthStart(MonthOf(date) + 1)
    BY <1>1, <1>7, <1>9, <1>12, <2>2, <2>3
  <2> QED
    BY <1>10, <2>4
<1> QED
  BY <1>11, <1>12

\* The day of a month, or its last one, is in it.
LEMMA OnDayIsInMonth ==
  ASSUME NEW n \in Int, NEW day \in Nat
  PROVE  /\ OnDay(n, day) \in Int
         /\ OnDay(n, day) = IF MonthStart(n) + day < MonthStart(n + 1) THEN MonthStart(n) + day
                           ELSE MonthStart(n + 1) - 1
         /\ MonthStart(n) <= OnDay(n, day) /\ OnDay(n, day) < MonthStart(n + 1)
PROOF
<1> DEFINE a == MonthStart(n) + day
           b == MonthStart(n + 1) - 1
<1>1. /\ MonthStart(n) \in Int /\ MonthStart(n + 1) \in Int
      /\ MonthStart(n) + 28 <= MonthStart(n + 1)
  BY MonthsAreIntegers, MonthsAscend
<1>2. a \in Int /\ b \in Int /\ OnDay(n, day) = Min({a, b})
  BY <1>1 DEF OnDay
<1>3. Min({a, b}) = IF a <= b THEN a ELSE b
  <2> HIDE DEF a, b
  <2> QED
    BY <1>2 DEF Min
<1>4. a <= b <=> MonthStart(n) + day < MonthStart(n + 1)
  BY <1>1
<1>5. OnDay(n, day) = IF MonthStart(n) + day < MonthStart(n + 1) THEN MonthStart(n) + day
                    ELSE MonthStart(n + 1) - 1
  BY <1>2, <1>3, <1>4
<1> HIDE DEF a, b
<1> QED
  BY <1>1, <1>5

LEMMA DayIsNatural ==
  ASSUME NEW date \in Int
  PROVE  MonthOf(date) \in Int /\ DayOf(date) \in Nat
BY MonthsAreIntegers, DayIsInMonth DEF DayOf

LEMMA DatesAreIntegers ==
  ASSUME NEW s, s.first \in Int, s.frequency \in Frequencies, NEW limit \in Int
  PROVE  DueDates(s, limit) \subseteq Int
PROOF
<1>1. CASE s.frequency = "never"
  BY <1>1 DEF DueDates
<1>2. CASE s.frequency # "never"
  <2>1. \A i \in 0 .. limit : DueDate(s, i) \in Int
    <3> SUFFICES ASSUME NEW i \in Int
                 PROVE  DueDate(s, i) \in Int
      OBVIOUS
    <3> DEFINE n   == MonthOf(s.first)
               day == DayOf(s.first)
    <3>1. n \in Int /\ day \in Nat
      BY DayIsNatural
    <3>2. CASE s.frequency \in DOMAIN MonthsBetween
      <4>1. n + i * MonthsBetween[s.frequency] \in Int
        BY <3>1, <3>2 DEF MonthsBetween
      <4> HIDE DEF n, day
      <4>2. OnDay(n + i * MonthsBetween[s.frequency], day) \in Int
        BY <3>1, <4>1, OnDayIsInMonth
      <4> QED
        BY <3>2, <4>2 DEF DueDate, n, day
    <3>3. CASE s.frequency = "twiceAMonth"
      <4>1. s.frequency \notin DOMAIN MonthsBetween
        BY <3>3 DEF MonthsBetween
      <4> HIDE DEF n, day
      <4>2. n + i \div 2 \in Int /\ n + i \div 2 + 1 \in Int
        BY <3>1
      <4>3. OnDay(n + i \div 2, day) \in Int
        BY <3>1, <4>2, OnDayIsInMonth
      <4>4. day < 15 => OnDay(n + i \div 2, day + 15) \in Int
        BY <3>1, <4>2, OnDayIsInMonth
      <4>5. ~(day < 15) => OnDay(n + i \div 2 + 1, day - 15) \in Int
        BY <3>1, <4>2, OnDayIsInMonth
      <4>6. TwiceAMonth(n, day, i) \in Int
        BY <4>3, <4>4, <4>5 DEF TwiceAMonth
      <4> QED
        BY <3>3, <4>1, <4>6 DEF DueDate, n, day
    <3>4. CASE s.frequency \notin DOMAIN MonthsBetween /\ s.frequency # "twiceAMonth"
      <4>1. DaysBetween[s.frequency] \in Int
        BY <1>2, <3>4 DEF DaysBetween, Frequencies
      <4> QED
        BY <3>4, <4>1 DEF DueDate
    <3> QED
      BY <3>2, <3>3, <3>4
  <2>2. DueDates(s, limit) = {d \in {DueDate(s, i) : i \in 0 .. limit} : d <= limit}
    BY <1>2 DEF DueDates
  <2> QED
    BY <2>1, <2>2
<1> QED
  BY <1>1, <1>2

LEMMA LeastNatural ==
  ASSUME NEW T \in SUBSET Nat, T # {}
  PROVE  \E x \in T : \A y \in T : x <= y
PROOF
<1> DEFINE less == {p \in Nat \X Nat : p[1] < p[2]}
<1>1. IsWellFoundedOn(less, Nat)
  BY NatLessThanWellFounded, Zenon DEF OpToRel
<1> HIDE DEF less
<1>2. PICK x \in T : \A y \in T : <<y, x>> \notin less
  BY <1>1, WFMin
<1> WITNESS x \in T
<1> TAKE y \in T
<1>3. <<y, x>> \in Nat \X Nat /\ ~(y < x)
  BY <1>2 DEF less
<1> QED
  BY <1>3

LEMMA FirstIsThere ==
  ASSUME NEW S \in SUBSET Int, S # {}, NEW bound \in Int, \A d \in S : d >= bound
  PROVE  Min(S) \in S
PROOF
<1> DEFINE T == {d - bound : d \in S}
<1>1. T \subseteq Nat /\ T # {}
  <2>1. \A d \in S : d - bound \in Nat
    <3> SUFFICES ASSUME NEW d \in S
                 PROVE  d - bound \in Nat
      OBVIOUS
    <3>1. d \in Int /\ d >= bound
      OBVIOUS
    <3> QED
      BY <3>1
  <2>2. PICK d \in S : TRUE
    OBVIOUS
  <2>3. d - bound \in T
    BY <2>2
  <2> QED
    BY <2>1, <2>3
<1>2. PICK x \in T : \A y \in T : x <= y
  <2> HIDE DEF T
  <2> QED
    BY <1>1, LeastNatural
<1>4. PICK first \in S : x = first - bound
  OBVIOUS
<1>5. \A d \in S : first <= d
  <2> SUFFICES ASSUME NEW d \in S
               PROVE  first <= d
    OBVIOUS
  <2>1. first - bound <= d - bound
    BY <1>2, <1>4
  <2> QED
    BY <2>1
<1> QED
  BY <1>5 DEF Min

\* When days pass, what is due moves on.
LEMMA AdvancedIsScheduled ==
  ASSUME NEW s, NEW date \in Int, NEW earlier, IsScheduled(s, earlier)
  PROVE  IsScheduled(AdvancedTo(s, date), date)
PROOF
<1> DEFINE next == {d \in DueDates(s, date + 800) : d >= date}
<1>1. next \subseteq Int /\ \A d \in next : d >= date
  <2>1. DueDates(s, date + 800) \subseteq Int
    BY DatesAreIntegers DEF IsScheduled
  <2> QED
    BY <2>1
<1>2. AdvancedTo(s, date) =
        IF s.next >= date THEN s
        ELSE IF next = {} THEN [s EXCEPT !.deleted = TRUE] ELSE [s EXCEPT !.next = Min(next)]
  BY DEF AdvancedTo
<1> HIDE DEF next
<1>3. next # {} => Min(next) \in Int /\ Min(next) >= date
  BY <1>1, FirstIsThere
<1>6. CASE s.next >= date
  <2>1. AdvancedTo(s, date) = s
    BY <1>2, <1>6
  <2> QED
    BY <1>6, <2>1 DEF IsScheduled
<1>4. CASE ~(s.next >= date) /\ next = {}
  <2>1. AdvancedTo(s, date) = [s EXCEPT !.deleted = TRUE]
    BY <1>2, <1>4
  <2> QED
    BY <2>1 DEF IsScheduled
<1>5. CASE ~(s.next >= date) /\ next # {}
  <2>1. AdvancedTo(s, date) = [s EXCEPT !.next = Min(next)]
    BY <1>2, <1>5
  <2>2. Min(next) \in Int /\ Min(next) >= date
    BY <1>3, <1>5
  <2> QED
    BY <2>1, <2>2 DEF IsScheduled
<1> QED
  BY <1>4, <1>5, <1>6

LEMMA InitIsTyped == Init => Typed
PROOF
<1> SUFFICES ASSUME Init
             PROVE  Typed
  OBVIOUS
<1>1. opening \in Openings
  <2>1. (CHOOSE o \in Openings : TRUE) \in Openings
    BY StartAssumption
  <2> QED
    BY <2>1 DEF Init
<1>2. seen \in [accounts : Reads, list : Reads, months : [Months -> Reads],
                 current : MonthReads]
  <2>1. seen = [accounts |-> None, list |-> None, months |-> [m \in Months |-> None],
                current |-> None]
    BY DEF Init
  <2>2. None \in Reads /\ None \in MonthReads
    BY DEF Reads, MonthReads
  <2>3. [m \in Months |-> None] \in [Months -> Reads]
    BY <2>2
  <2> QED
    BY <2>1, <2>2, <2>3
<1>3. \A s \in schedule : IsScheduled(s, today)
  <2>1. schedule \subseteq Schedules \cup AlsoScheduled /\ today = Today
    BY DEF Init
  <2> QED
    BY <2>1, StartAssumption DEF IsScheduled
<1>4. topic \in Topics /\ changes \in 0 .. MaxChanges[topic] /\ today \in Today .. LastDay + Step
  BY StartAssumption DEF Init
<1> QED
  BY <1>1, <1>2, <1>3, <1>4 DEF Typed

\* What is read is a set of transactions, or nothing.
LEMMA ReadsAreTyped ==
  ASSUME NEW read \in Reads
  PROVE  OrLive(read) \in Reads
BY DEF OrLive, Reads, Live, LedgerLive, Transactions

\* A month is read under its date or under the word.
LEMMA KeysAreMonths ==
  ASSUME NEW key \in {MonthKey(tool, month) : tool \in MonthTools, month \in Months \cup {Current}},
         CurrentMonth \in Months
  PROVE  key \in Months \cup {Current}
BY DEF MonthKey, NormalizeMonthInput

LEMMA StepIsTyped ==
  ASSUME Typed, [Next]_vars
  PROVE  Typed'
PROOF
<1> USE DEF Typed
<1>1. ASSUME NEW w \in Walks, NEW order, StartWalk(w, order)
      PROVE  Typed'
  BY <1>1, ReadsAreTyped DEF StartWalk
<1>2. ASSUME NEW order, NextPage(order)
      PROVE  Typed'
  BY <1>2 DEF NextPage
<1>3. ASSUME NEW t, NEW status, Change(t, status)
      PROVE  Typed'
  <2>1. changes' = changes + 1 /\ changes < MaxChanges[topic]
          /\ UNCHANGED <<topic, opening, seen, today, schedule>>
    BY <1>3 DEF Change
  <2> QED
    BY <2>1, StartAssumption
<1>4. ASSUME NEW withMonths, Report(withMonths)
      PROVE  Typed'
  BY <1>4, ReadsAreTyped DEF Report
<1>5. ASSUME NEW a, Analyse(a) \/ Update(a)
      PROVE  Typed'
  <2>1. /\ UNCHANGED <<topic, opening, changes, today, schedule>>
        /\ seen' = [seen EXCEPT !.months =
                      [m \in Months |-> IF m \in MonthsRead(a) THEN OrLive(@[m]) ELSE @[m]]]
    BY <1>5 DEF Analyse, Update, ReadMonths
  <2>2. [m \in Months |-> IF m \in MonthsRead(a) THEN OrLive(seen.months[m]) ELSE seen.months[m]]
          \in [Months -> Reads]
    BY ReadsAreTyped
  <2> QED
    BY <2>1, <2>2
<1>6. ASSUME NEW date \in Int, date \in Today .. LastDay + Step, PassTo(date)
      PROVE  Typed'
  <2>1. /\ UNCHANGED <<topic, opening, changes, seen>>
        /\ today' = date /\ schedule' = {AdvancedTo(s, date) : s \in schedule}
    BY <1>6 DEF PassTo
  <2>2. \A s \in schedule' : IsScheduled(s, today')
    <3> SUFFICES ASSUME NEW s \in schedule
                 PROVE  IsScheduled(AdvancedTo(s, date), date)
      BY <2>1
    <3> QED
      BY <1>6, AdvancedIsScheduled
  <2> QED
    BY <1>6, <2>1, <2>2
<1>7. CASE Pass
  <2>1. today < LastDay /\ PassTo(today + Step)
    BY <1>7 DEF Pass
  <2>2. today + Step \in Int /\ today + Step \in Today .. LastDay + Step
    BY <2>1, StartAssumption
  <2> QED
    BY <1>6, <2>1, <2>2
<1>8. CASE MonthTurns
  <2> DEFINE next == MonthStart(MonthOf(today) + 1)
  <2>1. next <= LastDay /\ PassTo(next)
    BY <1>8 DEF MonthTurns
  <2>2. today \in Int
    BY StartAssumption
  <2>3. next \in Int /\ today < next
    BY <2>2, MonthsAreIntegers, DayIsInMonth
  <2> HIDE DEF next
  <2>4. next \in Today .. LastDay + Step
    BY <2>1, <2>2, <2>3, StartAssumption
  <2> QED
    BY <1>6, <2>1, <2>3, <2>4
<1>9. CASE ReadSchedule
  BY <1>9 DEF ReadSchedule
<1>10. CASE Reschedule
  <2>1. /\ UNCHANGED <<topic, opening, seen, today>>
        /\ changes < MaxChanges[topic] /\ changes' = changes + 1
    BY <1>10 DEF Reschedule
  <2>2. changes' \in 0 .. MaxChanges[topic]
    BY <2>1, StartAssumption
  <2>3. today \in Int /\ today + Step \in Int /\ today + Step >= today
    BY StartAssumption
  <2>4. ASSUME NEW s \in schedule
        PROVE  /\ IsScheduled([s EXCEPT !.first = today + Step, !.next = today + Step], today)
               /\ \A amount \in NewAmounts : IsScheduled([s EXCEPT !.amount = amount], today)
    <3>1. IsScheduled(s, today)
      OBVIOUS
    <3> QED
      BY <2>3, <3>1 DEF IsScheduled
  <2>5. ASSUME NEW s \in Additions
        PROVE  IsScheduled([s EXCEPT !.first = today, !.next = today], today)
    BY <2>3, StartAssumption DEF IsScheduled
  <2>6. \A s \in schedule' : IsScheduled(s, today)
    BY <1>10, <2>4, <2>5 DEF Reschedule
  <2> QED
    BY <2>1, <2>2, <2>6
<1>11. ASSUME NEW key \in Months \cup {Current}, MonthReport(key)
       PROVE  Typed'
  <2>1. /\ UNCHANGED <<topic, opening, changes, today, schedule>> /\ CurrentMonth \in Months
        /\ seen' = IF key = Current THEN [seen EXCEPT !.current = SeenMonth(key)]
                   ELSE [seen EXCEPT !.months[key] = SeenMonth(key).live]
    BY <1>11 DEF MonthReport
  <2>2. CASE key = Current
    <3>1. Live \in SUBSET Transactions
      BY DEF Live, LedgerLive, Transactions
    <3>2. SeenMonth(key) \in MonthReads
      BY <2>1, <2>2, <3>1 DEF SeenMonth, MonthReads
    <3> QED
      BY <2>1, <2>2, <3>2
  <2>3. CASE key # Current
    <3>1. SeenMonth(key).live = OrLive(seen.months[key])
      BY <2>3 DEF SeenMonth
    <3>2. OrLive(seen.months[key]) \in Reads
      BY <2>3, ReadsAreTyped
    <3> QED
      BY <2>1, <2>3, <3>1, <3>2
  <2> QED
    BY <2>2, <2>3
<1>12. CASE UNCHANGED vars
  BY <1>12 DEF vars
<1>13. ASSUME NEW key \in {MonthKey(tool, month) : tool \in MonthTools,
                                                   month \in Months \cup {Current}},
              MonthReport(key)
       PROVE  Typed'
  <2>1. key \in Months \cup {Current}
    BY <1>13, KeysAreMonths DEF MonthReport
  <2> QED
    BY <1>11, <1>13, <2>1
<1> QED
  BY <1>1, <1>2, <1>3, <1>4, <1>5, <1>7, <1>8, <1>9, <1>10, <1>12, <1>13 DEF Next

\* Every variable of the conversations holds a value of its type, a page names the next
\* one only within its list, and no scheduled transaction is due in the past.
THEOREM ConversationsAreTyped == Spec => []TypeOK
PROOF
<1> DEFINE Inv == Typed /\ WalkInv /\ DeltaInv
<1>1. Init => Inv
  BY InitIsTyped, InitWalks DEF Init, DeltaInv
<1>2. Inv /\ [Next]_vars => Inv'
  BY StepIsTyped, StepKeepsWalks, StepKeepsDelta
<1>3. Inv => TypeOK
  BY DEF Typed, WalkInv, Delivers, DeltaInv, TypeOK, IsScheduled, Reads, MonthReads
<1> QED
  BY <1>1, <1>2, <1>3, PTL DEF Spec

-----------------------------------------------------------------------------
\* Sums. SumOf takes the elements one by one in an order that the set alone decides.

\* What holds of nothing, and of a set if it holds without the one taken first, holds of
\* every subset.
LEMMA OneByOneInduction ==
  ASSUME NEW D, IsFiniteSet(D), NEW Good \in SUBSET (SUBSET D), {} \in Good,
         \A s \in SUBSET D : s # {} /\ s \ {CHOOSE x \in s : TRUE} \in Good => s \in Good
  PROVE  \A s \in SUBSET D : s \in Good
PROOF
<1> DEFINE bad   == {s \in SUBSET D : s \notin Good}
           sizes == {Cardinality(s) : s \in bad}
<1>1. \A s \in SUBSET D : IsFiniteSet(s) /\ Cardinality(s) \in Nat
  BY FS_Subset, FS_CardinalityType
<1> SUFFICES ASSUME bad # {} PROVE FALSE
  OBVIOUS
<1>2. sizes \in SUBSET Nat /\ sizes # {}
  BY <1>1
<1>3. PICK n \in sizes : \A m \in sizes : n <= m
  BY <1>2, LeastNatural
<1>4. PICK s \in bad : Cardinality(s) = n
  OBVIOUS
<1>5. s \in SUBSET D /\ s # {} /\ s \ {CHOOSE x \in s : TRUE} \notin Good
  OBVIOUS
<1> DEFINE c == CHOOSE x \in s : TRUE
           r == s \ {c}
<1>6. c \in s
  BY <1>5
<1>7. r \in bad
  BY <1>5
<1> HIDE DEF c
<1>8. Cardinality(r) = Cardinality(s) - 1
  BY <1>1, <1>5, <1>6, FS_RemoveElement
<1>9. Cardinality(s) <= Cardinality(r)
  BY <1>3, <1>4, <1>7
<1> QED
  BY <1>1, <1>5, <1>8, <1>9

\* The sums over all subsets, whichever element is taken first.
Sums(v, g) ==
  /\ g \in [SUBSET DOMAIN v -> Int]
  /\ g[{}] = 0
  /\ \A s \in SUBSET DOMAIN v : \A x \in s : g[s] = v[x] + g[s \ {x}]

LEMMA SumsExist ==
  ASSUME NEW D, IsFiniteSet(D), NEW v \in [D -> Int]
  PROVE  \E g : Sums(v, g)
PROOF
<1> DEFINE done(g, s) == /\ g \in [SUBSET s -> Int]
                         /\ g[{}] = 0
                         /\ \A u \in SUBSET s : \A x \in u : g[u] = v[x] + g[u \ {x}]
           Good       == {s \in SUBSET D : \E g : done(g, s)}
<1>1. {} \in Good
  <2>1. done([u \in SUBSET {} |-> 0], {})
    OBVIOUS
  <2> QED
    BY <2>1
<1>2. ASSUME NEW s \in SUBSET D, s # {}, s \ {CHOOSE x \in s : TRUE} \in Good
      PROVE  s \in Good
  <2> DEFINE c == CHOOSE x \in s : TRUE
             r == s \ {c}
  <2>1. c \in s
    BY <1>2
  <2>2. PICK g : done(g, r)
    BY <1>2
  <2> HIDE DEF c
  <2>3. v[c] \in Int
    BY <2>1
  <2> DEFINE h == [u \in SUBSET s |-> IF c \in u THEN v[c] + g[u \ {c}] ELSE g[u]]
  <2>4. \A u \in SUBSET s : /\ u \ {c} \in SUBSET r
                            /\ c \notin u => u \in SUBSET r
                            /\ g[u \ {c}] \in Int
                            /\ c \notin u => g[u] \in Int
    <3>1. \A u \in SUBSET s : u \ {c} \in SUBSET r /\ (c \notin u => u \in SUBSET r)
      OBVIOUS
    <3> HIDE DEF r
    <3> QED
      BY <2>2, <3>1
  <2>5. h \in [SUBSET s -> Int]
    <3>1. \A u \in SUBSET s : (IF c \in u THEN v[c] + g[u \ {c}] ELSE g[u]) \in Int
      <4> TAKE u \in SUBSET s
      <4>1. CASE c \in u
        <5>1. g[u \ {c}] \in Int
          BY <2>4
        <5> QED
          BY <2>3, <4>1, <5>1
      <4>2. CASE c \notin u
        BY <2>4, <4>2
      <4> QED
        BY <4>1, <4>2
    <3> QED
      BY <3>1
  <2>6. h[{}] = 0
    BY <2>2
  <2>7. ASSUME NEW u \in SUBSET s, NEW x \in u
        PROVE  h[u] = v[x] + h[u \ {x}]
    <3>1. u \ {x} \in SUBSET s /\ v[x] \in Int
      OBVIOUS
    <3>2. h[u] = (IF c \in u THEN v[c] + g[u \ {c}] ELSE g[u])
            /\ h[u \ {x}] = (IF c \in u \ {x} THEN v[c] + g[(u \ {x}) \ {c}] ELSE g[u \ {x}])
      BY <3>1
    <3>3. CASE x = c
      <4>1. c \in u /\ c \notin u \ {x}
        BY <3>3
      <4> HIDE DEF h
      <4> QED
        BY <3>2, <3>3, <4>1
    <3>4. CASE x # c /\ c \in u
      <4>1. c \in u \ {x} /\ x \in u \ {c} /\ (u \ {x}) \ {c} = (u \ {c}) \ {x}
        BY <3>4
      <4>2. g[u \ {c}] = v[x] + g[(u \ {c}) \ {x}]
        <5>1. u \ {c} \in SUBSET r
          BY <2>4
        <5> HIDE DEF r, h
        <5> QED
          BY <2>2, <4>1, <5>1
      <4>3. g[(u \ {c}) \ {x}] \in Int
        <5>1. (u \ {c}) \ {x} \in SUBSET r
          BY <2>4
        <5> HIDE DEF r, h
        <5> QED
          BY <2>2, <5>1
      <4> HIDE DEF h, r
      <4>4. h[u] = v[c] + (v[x] + g[(u \ {c}) \ {x}])
        BY <3>2, <3>4, <4>2
      <4>5. h[u \ {x}] = v[c] + g[(u \ {c}) \ {x}]
        BY <3>2, <4>1
      <4> QED
        BY <2>3, <3>1, <4>3, <4>4, <4>5
    <3>5. CASE c \notin u
      <4>1. c \notin u \ {x} /\ u \in SUBSET r
        BY <2>4, <3>5
      <4> HIDE DEF h, r
      <4>2. g[u] = v[x] + g[u \ {x}]
        BY <2>2, <4>1
      <4> QED
        BY <3>2, <3>5, <4>1, <4>2
    <3> QED
      BY <3>3, <3>4, <3>5
  <2>8. done(h, s)
    <3> HIDE DEF h
    <3> QED
      BY <2>5, <2>6, <2>7
  <2> HIDE DEF done, h
  <2> QED
    BY <2>8
<1> HIDE DEF Good
<1>3. D \in Good
  <2>1. Good \in SUBSET (SUBSET D)
    BY DEF Good
  <2>2. \A s \in SUBSET D : s \in Good
    BY <1>1, <1>2, <2>1, OneByOneInduction
  <2> QED
    BY <2>2
<1>4. PICK g : done(g, D)
  BY <1>3 DEF Good
<1>5. /\ g \in [SUBSET D -> Int]
      /\ g[{}] = 0
      /\ \A u \in SUBSET D : \A x \in u : g[u] = v[x] + g[u \ {x}]
  BY <1>4
<1> HIDE DEF done
<1>6. DOMAIN v = D
  OBVIOUS
<1> QED
  BY <1>5, <1>6, Zenon DEF Sums

\* The sum of the values of a function.
TotalOf(v) == (CHOOSE g : Sums(v, g))[DOMAIN v]

\* The recursion of a fold.
Folds(v, g) ==
  g = [s \in SUBSET DOMAIN v |->
         IF s = {} THEN 0 ELSE v[CHOOSE x \in s : TRUE] + g[s \ {CHOOSE x \in s : TRUE}]]

LEMMA SumsFold ==
  ASSUME NEW D, IsFiniteSet(D), NEW v \in [D -> Int], NEW g, Sums(v, g)
  PROVE  Folds(v, g)
PROOF
<1>1. ASSUME NEW s \in SUBSET D, s # {}
      PROVE  g[s] = v[CHOOSE x \in s : TRUE] + g[s \ {CHOOSE x \in s : TRUE}]
  <2> DEFINE c == CHOOSE x \in s : TRUE
  <2>1. c \in s
    BY <1>1
  <2> HIDE DEF c
  <2>2. g[s] = v[c] + g[s \ {c}]
    BY <2>1 DEF Sums
  <2> QED
    BY <2>2 DEF c
<1>2. g = [s \in SUBSET D |-> g[s]] /\ g[{}] = 0
  BY DEF Sums
<1>3. \A s \in SUBSET D :
        g[s] = IF s = {} THEN 0
               ELSE v[CHOOSE x \in s : TRUE] + g[s \ {CHOOSE x \in s : TRUE}]
  BY <1>1, <1>2
<1> QED
  BY <1>2, <1>3 DEF Folds

LEMMA FoldIsSums ==
  ASSUME NEW D, IsFiniteSet(D), NEW v \in [D -> Int], NEW g, Sums(v, g), NEW h, Folds(v, h)
  PROVE  h = g
PROOF
<1> DEFINE Good == {s \in SUBSET D : h[s] = g[s]}
<1>0. Folds(v, g)
  BY SumsFold
<1>1. {} \in Good
  <2>1. h[{}] = 0
    BY DEF Folds
  <2>2. g[{}] = 0
    BY DEF Sums
  <2> QED
    BY <2>1, <2>2
<1>2. ASSUME NEW s \in SUBSET D, s # {}, s \ {CHOOSE x \in s : TRUE} \in Good
      PROVE  s \in Good
  <2> DEFINE c == CHOOSE x \in s : TRUE
  <2>1. h[s] = v[c] + h[s \ {c}]
    BY <1>2 DEF Folds
  <2>2. g[s] = v[c] + g[s \ {c}]
    BY <1>0, <1>2 DEF Folds
  <2>3. h[s \ {c}] = g[s \ {c}]
    BY <1>2
  <2> HIDE DEF c
  <2> QED
    BY <2>1, <2>2, <2>3
<1>3. \A s \in SUBSET D : h[s] = g[s]
  <2> HIDE DEF Good
  <2>1. Good \in SUBSET (SUBSET D)
    BY DEF Good
  <2>2. \A s \in SUBSET D : s \in Good
    BY <1>1, <1>2, <2>1, OneByOneInduction
  <2> QED
    BY <2>2 DEF Good
<1>4. h = [s \in SUBSET D |-> h[s]] /\ g = [s \in SUBSET D |-> g[s]]
  <2>1. h = [s \in SUBSET D |-> h[s]]
    BY DEF Folds
  <2> QED
    BY <2>1 DEF Sums
<1> QED
  BY <1>3, <1>4

LEMMA TotalIs ==
  ASSUME NEW D, IsFiniteSet(D), NEW v \in [D -> Int], NEW g, Sums(v, g)
  PROVE  TotalOf(v) = g[D]
PROOF
<1> DEFINE G == CHOOSE h : Sums(v, h)
<1>1. Sums(v, G)
  OBVIOUS
<1> HIDE DEF G
<1>2. G = g
  BY <1>1, SumsFold, FoldIsSums
<1> QED
  BY <1>2 DEF TotalOf, G

LEMMA FoldExists ==
  ASSUME NEW D, IsFiniteSet(D), NEW v \in [D -> Int]
  PROVE  \E g : Folds(v, g)
PROOF
<1>1. PICK g : Sums(v, g)
  BY SumsExist
<1>2. Folds(v, g)
  BY <1>1, SumsFold
<1> QED
  BY <1>2

LEMMA FoldGivesTotal ==
  ASSUME NEW D, IsFiniteSet(D), NEW v \in [D -> Int], NEW h, Folds(v, h)
  PROVE  TotalOf(v) = h[D]
PROOF
<1>1. PICK g : Sums(v, g)
  BY SumsExist
<1>2. h = g
  BY <1>1, FoldIsSums
<1> QED
  BY <1>1, <1>2, TotalIs

\* The values of some.
Part(v, s) == [d \in s |-> v[d]]

LEMMA PartTotal ==
  ASSUME NEW D, IsFiniteSet(D), NEW v \in [D -> Int], NEW g, Sums(v, g), NEW s \in SUBSET D
  PROVE  TotalOf(Part(v, s)) = g[s] /\ g[s] \in Int
PROOF
<1> DEFINE h == [u \in SUBSET s |-> g[u]]
           w == Part(v, s)
<1>1. w \in [s -> Int] /\ IsFiniteSet(s) /\ \A x \in s : w[x] = v[x]
  BY FS_Subset DEF Part
<1>2. \A u \in SUBSET s : g[u] \in Int
  BY DEF Sums
<1>3. g[{}] = 0
  BY DEF Sums
<1>4. \A u \in SUBSET s : \A x \in u : g[u] = v[x] + g[u \ {x}] /\ u \ {x} \in SUBSET s
  BY DEF Sums
<1>5. DOMAIN w = s
  BY DEF Part
<1> HIDE DEF w
<1>6. h \in [SUBSET s -> Int] /\ h[{}] = 0
  BY <1>2, <1>3
<1>7. \A u \in SUBSET s : \A x \in u : h[u] = w[x] + h[u \ {x}]
  <2> TAKE u \in SUBSET s
  <2> TAKE x \in u
  <2>1. h[u] = g[u] /\ h[u \ {x}] = g[u \ {x}]
    BY <1>4
  <2>2. w[x] = v[x]
    BY <1>1
  <2> HIDE DEF h
  <2> QED
    BY <1>4, <2>1, <2>2
<1>8. h[s] = g[s]
  OBVIOUS
<1> HIDE DEF h
<1>9. Sums(w, h)
  BY <1>5, <1>6, <1>7 DEF Sums
<1>10. TotalOf(w) = h[s]
  BY <1>1, <1>9, TotalIs
<1> QED
  BY <1>2, <1>8, <1>10 DEF w

LEMMA TotalIsInt ==
  ASSUME NEW D, IsFiniteSet(D), NEW v \in [D -> Int]
  PROVE  TotalOf(v) \in Int
PROOF
<1>1. PICK g : Sums(v, g)
  BY SumsExist
<1>2. TotalOf(v) = g[D] /\ g[D] \in Int
  BY <1>1, TotalIs DEF Sums
<1> QED
  BY <1>2

\* Two sets that do not meet.
LEMMA TotalsJoin ==
  ASSUME NEW D, IsFiniteSet(D), NEW v \in [D -> Int],
         NEW A \in SUBSET D, NEW B \in SUBSET D, A \cap B = {}
  PROVE  TotalOf(Part(v, A \cup B)) = TotalOf(Part(v, A)) + TotalOf(Part(v, B))
PROOF
<1>1. PICK g : Sums(v, g)
  BY SumsExist
<1> DEFINE Good == {s \in SUBSET B : g[A \cup s] = g[A] + g[s]}
<1>2. {} \in Good
  <2>1. g[A] \in Int /\ g[{}] = 0 /\ A \cup {} = A
    BY <1>1 DEF Sums
  <2> QED
    BY <2>1
<1>3. ASSUME NEW s \in SUBSET B, s # {}, s \ {CHOOSE x \in s : TRUE} \in Good
      PROVE  s \in Good
  <2> DEFINE c == CHOOSE x \in s : TRUE
             r == s \ {c}
  <2>1. c \in s
    BY <1>3
  <2>2. g[A \cup r] = g[A] + g[r]
    BY <1>3
  <2> HIDE DEF c
  <2>3. /\ s \in SUBSET D /\ A \cup s \in SUBSET D /\ r \in SUBSET D
        /\ c \in A \cup s /\ (A \cup s) \ {c} = A \cup r
    BY <2>1
  <2> HIDE DEF r
  <2>4. g[s] = v[c] + g[s \ {c}] /\ g[A \cup s] = v[c] + g[(A \cup s) \ {c}]
    BY <1>1, <2>1, <2>3 DEF Sums
  <2>5. v[c] \in Int /\ g[A] \in Int /\ g[r] \in Int
    BY <1>1, <2>1, <2>3 DEF Sums
  <2>6. g[s] = v[c] + g[r]
    BY <2>4 DEF r
  <2>7. g[A \cup s] = v[c] + g[A \cup r]
    BY <2>3, <2>4
  <2>8. g[A \cup s] = g[A] + g[s]
    BY <2>2, <2>5, <2>6, <2>7
  <2> QED
    BY <2>8
<1>4. g[A \cup B] = g[A] + g[B]
  <2> HIDE DEF Good
  <2>1. Good \in SUBSET (SUBSET B) /\ IsFiniteSet(B)
    BY FS_Subset DEF Good
  <2>2. \A s \in SUBSET B : s \in Good
    BY <1>2, <1>3, <2>1, OneByOneInduction
  <2> QED
    BY <2>2 DEF Good
<1>5. /\ TotalOf(Part(v, A \cup B)) = g[A \cup B]
      /\ TotalOf(Part(v, A)) = g[A]
      /\ TotalOf(Part(v, B)) = g[B]
  BY <1>1, PartTotal
<1> QED
  BY <1>4, <1>5

\* The sum over groups of their sums.
LEMMA TotalByKey ==
  ASSUME NEW D, IsFiniteSet(D), NEW v \in [D -> Int], NEW K, IsFiniteSet(K),
         NEW key, \A d \in D : key[d] \in K, NEW w, DOMAIN w = K, w = [k \in K |-> w[k]],
         \A k \in K : w[k] = TotalOf(Part(v, {d \in D : key[d] = k}))
  PROVE  TotalOf(w) = TotalOf(v)
PROOF
<1> DEFINE of(s) == {d \in D : key[d] \in s}
<1>1. PICK g : Sums(v, g)
  BY SumsExist
<1>2. \A s : of(s) \in SUBSET D
  OBVIOUS
<1>3. \A k \in K : w[k] = g[of({k})] /\ w[k] \in Int
  <2> TAKE k \in K
  <2>1. {d \in D : key[d] = k} = of({k})
    OBVIOUS
  <2>2. w[k] = TotalOf(Part(v, of({k})))
    BY <2>1
  <2> HIDE DEF of
  <2> QED
    BY <1>1, <1>2, <2>2, PartTotal
<1>4. w \in [K -> Int]
  BY <1>3
<1>5. PICK h : Sums(w, h)
  BY <1>4, SumsExist
<1> DEFINE Good == {s \in SUBSET K : h[s] = g[of(s)]}
<1>6. {} \in Good
  <2>1. of({}) = {}
    OBVIOUS
  <2>2. h[{}] = 0 /\ g[{}] = 0
    BY <1>1, <1>5 DEF Sums
  <2> HIDE DEF of
  <2> QED
    BY <2>1, <2>2
<1>7. ASSUME NEW s \in SUBSET K, s # {}, s \ {CHOOSE x \in s : TRUE} \in Good
      PROVE  s \in Good
  <2> DEFINE c == CHOOSE x \in s : TRUE
             r == s \ {c}
  <2>1. c \in s
    BY <1>7
  <2>2. h[r] = g[of(r)]
    BY <1>7
  <2> HIDE DEF c
  <2>3. h[s] = w[c] + h[r]
    BY <1>4, <1>5, <2>1 DEF Sums
  <2>4. of(s) = of({c}) \cup of(r) /\ of({c}) \cap of(r) = {}
    BY <2>1
  <2>5. c \in K
    BY <2>1
  <2> HIDE DEF of, r
  <2>6. w[c] = g[of({c})]
    BY <1>3, <2>5
  <2>7. g[of({c}) \cup of(r)] = g[of({c})] + g[of(r)]
    <3> DEFINE A == of({c})
               B == of(r)
    <3>1. A \in SUBSET D /\ B \in SUBSET D /\ A \cap B = {}
      BY <1>2, <2>4
    <3> HIDE DEF A, B
    <3>2. A \cup B \in SUBSET D
      BY <3>1
    <3>3. TotalOf(Part(v, A \cup B)) = TotalOf(Part(v, A)) + TotalOf(Part(v, B))
      BY <3>1, TotalsJoin
    <3>4. TotalOf(Part(v, A \cup B)) = g[A \cup B]
      BY <1>1, <3>2, PartTotal
    <3>5. TotalOf(Part(v, A)) = g[A] /\ TotalOf(Part(v, B)) = g[B]
      BY <1>1, <3>1, PartTotal
    <3> QED
      BY <3>3, <3>4, <3>5 DEF A, B
  <2>8. h[s] = g[of(s)]
    BY <2>2, <2>3, <2>4, <2>6, <2>7
  <2> QED
    BY <2>8
<1> HIDE DEF Good
<1>8. h[K] = g[of(K)]
  <2>1. Good \in SUBSET (SUBSET K)
    BY DEF Good
  <2>2. \A s \in SUBSET K : s \in Good
    BY <1>6, <1>7, <2>1, OneByOneInduction
  <2> QED
    BY <2>2 DEF Good
<1>9. of(K) = D
  OBVIOUS
<1>10. TotalOf(w) = h[K] /\ TotalOf(v) = g[D]
  BY <1>1, <1>4, <1>5, TotalIs
<1> QED
  BY <1>8, <1>9, <1>10

LEMMA TotalOfOne ==
  ASSUME NEW D, IsFiniteSet(D), NEW v \in [D -> Int], NEW d \in D
  PROVE  TotalOf(Part(v, {d})) = v[d]
PROOF
<1>1. PICK g : Sums(v, g)
  BY SumsExist
<1>2. g[{d}] = v[d] + 0
  <2>1. g[{d}] = v[d] + g[{d} \ {d}]
    BY <1>1 DEF Sums
  <2>2. {d} \ {d} = {}
    OBVIOUS
  <2>3. g[{}] = 0
    BY <1>1 DEF Sums
  <2> QED
    BY <2>1, <2>2, <2>3, Zenon
<1>3. TotalOf(Part(v, {d})) = g[{d}]
  <2>1. {d} \in SUBSET D
    OBVIOUS
  <2> QED
    BY <1>1, <2>1, PartTotal
<1>4. v[d] + 0 = v[d]
  OBVIOUS
<1> QED
  BY <1>2, <1>3, <1>4, Zenon

\* The same values of other elements.
LEMMA TotalReindexed ==
  ASSUME NEW D, IsFiniteSet(D), NEW v \in [D -> Int], NEW K, NEW w \in [K -> Int],
         NEW key \in [D -> K], \A k \in K : \E d \in D : key[d] = k,
         \A d, e \in D : key[d] = key[e] => d = e,
         \A d \in D : w[key[d]] = v[d]
  PROVE  TotalOf(w) = TotalOf(v)
PROOF
<1>1. IsFiniteSet(K)
  <2>1. key \in Surjection(D, K)
    BY DEF Surjection
  <2> QED
    BY <2>1, FS_Surjection
<1>2. \A k \in K : w[k] = TotalOf(Part(v, {d \in D : key[d] = k}))
  <2> TAKE k \in K
  <2>1. PICK d \in D : key[d] = k
    OBVIOUS
  <2>2. {e \in D : key[e] = k} = {d}
    BY <2>1
  <2> QED
    BY <2>1, <2>2, TotalOfOne
<1> QED
  BY <1>1, <1>2, TotalByKey

\* Sums of values that are put together.
LEMMA TotalCombined ==
  ASSUME NEW D, IsFiniteSet(D), NEW v \in [D -> Int], NEW x \in [D -> Int],
         NEW y \in [D -> Int], NEW z \in [D -> Int],
         \A d \in D : v[d] = x[d] + y[d] - z[d]
  PROVE  TotalOf(v) = TotalOf(x) + TotalOf(y) - TotalOf(z)
PROOF
<1>1. PICK g : Sums(v, g)
  BY SumsExist
<1>2. PICK gx : Sums(x, gx)
  BY SumsExist
<1>3. PICK gy : Sums(y, gy)
  BY SumsExist
<1>4. PICK gz : Sums(z, gz)
  BY SumsExist
<1> DEFINE Good == {s \in SUBSET D : g[s] = gx[s] + gy[s] - gz[s]}
<1>5. {} \in Good
  BY <1>1, <1>2, <1>3, <1>4 DEF Sums
<1>6. ASSUME NEW s \in SUBSET D, s # {}, s \ {CHOOSE e \in s : TRUE} \in Good
      PROVE  s \in Good
  <2> DEFINE c == CHOOSE e \in s : TRUE
             r == s \ {c}
  <2>1. c \in s
    BY <1>6
  <2>2. r \in SUBSET D /\ g[r] = gx[r] + gy[r] - gz[r]
    BY <1>6
  <2> HIDE DEF c
  <2>3. /\ g[s] = v[c] + g[r] /\ gx[s] = x[c] + gx[r]
        /\ gy[s] = y[c] + gy[r] /\ gz[s] = z[c] + gz[r]
    <3>1. g[s] = v[c] + g[r]
      BY <1>1, <2>1 DEF Sums
    <3>2. gx[s] = x[c] + gx[r]
      BY <1>2, <2>1 DEF Sums
    <3>3. gy[s] = y[c] + gy[r]
      BY <1>3, <2>1 DEF Sums
    <3>4. gz[s] = z[c] + gz[r]
      BY <1>4, <2>1 DEF Sums
    <3> QED
      BY <3>1, <3>2, <3>3, <3>4
  <2> HIDE DEF r
  <2>4. gx[r] \in Int /\ gy[r] \in Int /\ gz[r] \in Int
    BY <1>2, <1>3, <1>4, <2>2 DEF Sums
  <2>5. x[c] \in Int /\ y[c] \in Int /\ z[c] \in Int /\ v[c] = x[c] + y[c] - z[c]
    BY <2>1
  <2>6. g[s] = gx[s] + gy[s] - gz[s]
    BY <2>2, <2>3, <2>4, <2>5
  <2> QED
    BY <2>6
<1>7. g[D] = gx[D] + gy[D] - gz[D]
  <2> HIDE DEF Good
  <2>1. Good \in SUBSET (SUBSET D)
    BY DEF Good
  <2>2. \A s \in SUBSET D : s \in Good
    BY <1>5, <1>6, <2>1, OneByOneInduction
  <2> QED
    BY <2>2 DEF Good
<1>8. TotalOf(v) = g[D] /\ TotalOf(x) = gx[D] /\ TotalOf(y) = gy[D] /\ TotalOf(z) = gz[D]
  BY <1>1, <1>2, <1>3, <1>4, TotalIs
<1> QED
  BY <1>7, <1>8

-----------------------------------------------------------------------------
\* Months follow each other.

LEMMA NextMonthIsLater ==
  ASSUME NEW date \in Int
  PROVE  AddMonths(date, 1) \in Int /\ AddMonths(date, 1) >= date
PROOF
<1>1. MonthOf(date) \in Int
  BY MonthsAreIntegers
<1>2. /\ MonthStart(MonthOf(date)) \in Int /\ MonthStart(MonthOf(date) + 1) \in Int
      /\ MonthStart(MonthOf(date)) + 28 <= MonthStart(MonthOf(date) + 1)
  <2>1. MonthOf(date) + 1 \in Int
    BY <1>1
  <2>2. MonthStart(MonthOf(date)) \in Int /\ MonthStart(MonthOf(date) + 1) \in Int
    BY <1>1, <2>1, MonthsAreIntegers
  <2> QED
    BY <1>1, <2>2, MonthsAscend
<1>3. AddMonths(date, 1) = MonthStart(MonthOf(date) + 1) + (date - MonthStart(MonthOf(date)))
  BY DEF AddMonths
<1> QED
  BY <1>2, <1>3

\* The months of a range, one after another.
LEMMA MonthsAreCounted ==
  ASSUME NEW first \in Int, NEW limit \in Int
  PROVE  \E c : /\ c[0] = first
                /\ \A i \in Nat \ {0} : c[i] = AddMonths(c[i - 1], 1)
                /\ MonthsFrom(first, limit)
                     = {c[i] : i \in {j \in 0 .. (limit - first) \div 28 : c[j] <= limit}}
PROOF
<1> DEFINE eq(c)      == c = [i \in Nat |-> IF i = 0 THEN first ELSE AddMonths(c[i - 1], 1)]
           cursor     == CHOOSE c : eq(c)
           done(c, n) == /\ c \in [0 .. n -> Int]
                         /\ c[0] = first
                         /\ \A i \in 1 .. n : c[i] = AddMonths(c[i - 1], 1)
           bad        == {n \in Nat : ~\E c : done(c, n)}
<1>1. bad = {}
  <2> SUFFICES ASSUME bad # {} PROVE FALSE
    OBVIOUS
  <2>1. PICK n \in bad : \A k \in bad : n <= k
    BY LeastNatural
  <2>2. CASE n = 0
    <3>1. done([i \in 0 .. 0 |-> first], 0)
      OBVIOUS
    <3> QED
      BY <2>1, <2>2, <3>1
  <2>3. CASE n # 0
    <3>1. n \in Nat /\ n - 1 \in Nat /\ n - 1 \notin bad
      <4>1. n \in Nat /\ \A k \in bad : n <= k
        BY <2>1
      <4> HIDE DEF bad
      <4>2. n - 1 \in Nat /\ ~(n <= n - 1)
        BY <2>3, <4>1
      <4> QED
        BY <4>1, <4>2
    <3>2. PICK c : done(c, n - 1)
      BY <3>1
    <3> DEFINE e == [i \in 0 .. n |-> IF i = n THEN AddMonths(c[n - 1], 1) ELSE c[i]]
    <3>3. c[n - 1] \in Int /\ AddMonths(c[n - 1], 1) \in Int
      <4>1. c[n - 1] \in Int
        BY <3>1, <3>2
      <4> QED
        BY <4>1, NextMonthIsLater
    <3>4. \A i \in 0 .. n : i # n => i \in 0 .. n - 1
      BY <3>1
    <3>5. e \in [0 .. n -> Int]
      BY <3>2, <3>3, <3>4
    <3>6. e[0] = first
      BY <2>3, <3>1, <3>2
    <3>7. \A i \in 1 .. n : e[i] = AddMonths(e[i - 1], 1)
      <4> TAKE i \in 1 .. n
      <4>1. i \in 0 .. n /\ i - 1 \in 0 .. n /\ i - 1 # n
        BY <3>1
      <4>2. e[i - 1] = c[i - 1]
        BY <4>1
      <4>3. CASE i = n
        <5>1. e[i] = AddMonths(c[n - 1], 1)
          BY <4>1, <4>3
        <5> QED
          BY <4>2, <4>3, <5>1
      <4>4. CASE i # n
        <5>1. e[i] = c[i] /\ i \in 1 .. n - 1
          BY <3>1, <4>1, <4>4
        <5>2. c[i] = AddMonths(c[i - 1], 1)
          BY <3>2, <5>1
        <5> QED
          BY <4>2, <5>1, <5>2
      <4> QED
        BY <4>3, <4>4
    <3>8. done(e, n)
      <4> HIDE DEF e
      <4> QED
        BY <3>5, <3>6, <3>7
    <3> HIDE DEF done, e
    <3> QED
      BY <2>1, <3>8
  <2> QED
    BY <2>2, <2>3
<1>2. \A n \in Nat : \E c : done(c, n)
  BY <1>1
<1> HIDE DEF bad
\* They agree on what they have in common.
<1>3. ASSUME NEW k \in Nat, NEW n \in Nat, NEW c, NEW e, done(c, k), done(e, n), k <= n
      PROVE  c[k] = e[k]
  <2> DEFINE differ == {i \in 0 .. k : c[i] # e[i]}
  <2>0. c[k] # e[k] => k \in differ
    OBVIOUS
  <2> SUFFICES ASSUME differ # {} PROVE FALSE
    BY <2>0
  <2>1. differ \in SUBSET Nat
    OBVIOUS
  <2>2. PICK i \in differ : \A j \in differ : i <= j
    <3> HIDE DEF differ
    <3> QED
      BY <2>1, LeastNatural
  <2>3. i \in 0 .. k /\ c[i] # e[i]
    BY <2>2
  <2>4. i # 0
    BY <1>3, <2>3
  <2>5. i \in 1 .. k /\ i \in 1 .. n /\ i - 1 \in 0 .. k
    BY <1>3, <2>3, <2>4
  <2>6. i - 1 \notin differ
    <3>1. i \in Nat /\ ~(i <= i - 1)
      BY <2>5
    <3> HIDE DEF differ
    <3> QED
      BY <2>2, <3>1
  <2>7. c[i - 1] = e[i - 1]
    BY <2>5, <2>6
  <2>8. c[i] = AddMonths(c[i - 1], 1) /\ e[i] = AddMonths(e[i - 1], 1)
    BY <1>3, <2>5
  <2> QED
    BY <2>3, <2>7, <2>8
<1>4. \E c : eq(c)
  <2> DEFINE to(n) == CHOOSE c : done(c, n)
             all   == [i \in Nat |-> to(i)[i]]
  <2>1. \A n \in Nat : done(to(n), n)
    <3> HIDE DEF done
    <3> QED
      BY <1>2
  <2> HIDE DEF to
  <2>2. ASSUME NEW i \in Nat
        PROVE  all[i] = IF i = 0 THEN first ELSE AddMonths(all[i - 1], 1)
    <3>1. CASE i = 0
      BY <2>1, <3>1
    <3>2. CASE i # 0
      <4>1. i - 1 \in Nat /\ i \in 1 .. i /\ i - 1 <= i
        BY <3>2
      <4>2. to(i)[i] = AddMonths(to(i)[i - 1], 1)
        BY <2>1, <4>1
      <4>3. to(i - 1)[i - 1] = to(i)[i - 1]
        <5>1. done(to(i - 1), i - 1) /\ done(to(i), i)
          BY <2>1, <4>1
        <5> HIDE DEF done
        <5> QED
          BY <1>3, <4>1, <5>1
      <4>4. all[i] = to(i)[i] /\ all[i - 1] = to(i - 1)[i - 1]
        BY <4>1
      <4> HIDE DEF all
      <4> QED
        BY <3>2, <4>2, <4>3, <4>4
    <3> QED
      BY <3>1, <3>2
  <2>3. all = [i \in Nat |-> all[i]]
    OBVIOUS
  <2> HIDE DEF all
  <2>4. eq(all)
    BY <2>2, <2>3
  <2> HIDE DEF eq
  <2> QED
    BY <2>4
<1>5. eq(cursor)
  <2> HIDE DEF eq
  <2> QED
    BY <1>4
<1>6. MonthsFrom(first, limit)
        = {cursor[i] : i \in {j \in 0 .. (limit - first) \div 28 : cursor[j] <= limit}}
  BY DEF MonthsFrom
<1> HIDE DEF cursor
<1>7. cursor[0] = first /\ \A i \in Nat \ {0} : cursor[i] = AddMonths(cursor[i - 1], 1)
  BY <1>5
<1> QED
  BY <1>6, <1>7

\* The dates of a range of months are not before its first.
LEMMA MonthsFromFirst ==
  ASSUME NEW first \in Int, NEW limit \in Int
  PROVE  \A m \in MonthsFrom(first, limit) : m \in Int /\ m >= first
PROOF
<1>1. PICK cursor : /\ cursor[0] = first
                    /\ \A i \in Nat \ {0} : cursor[i] = AddMonths(cursor[i - 1], 1)
                    /\ MonthsFrom(first, limit)
                         = {cursor[i] : i \in {j \in 0 .. (limit - first) \div 28 :
                                                cursor[j] <= limit}}
  BY MonthsAreCounted
<1>2. \A i \in Nat : cursor[i] \in Int /\ cursor[i] >= first
  <2> DEFINE off == {i \in Nat : ~(cursor[i] \in Int /\ cursor[i] >= first)}
  <2> SUFFICES ASSUME off # {} PROVE FALSE
    OBVIOUS
  <2>1. PICK i \in off : \A j \in off : i <= j
    BY LeastNatural
  <2>2. i \in Nat /\ i # 0
    BY <1>1
  <2>3. i - 1 \in Nat /\ i - 1 \notin off
    <3>1. i - 1 \in Nat /\ ~(i <= i - 1)
      BY <2>2
    <3> HIDE DEF off
    <3> QED
      BY <2>1, <3>1
  <2>4. cursor[i - 1] \in Int /\ cursor[i - 1] >= first
    BY <2>3
  <2>5. cursor[i] = AddMonths(cursor[i - 1], 1)
    BY <1>1, <2>2
  <2>6. AddMonths(cursor[i - 1], 1) \in Int /\ AddMonths(cursor[i - 1], 1) >= cursor[i - 1]
    BY <2>4, NextMonthIsLater
  <2>7. cursor[i] \in Int /\ cursor[i] >= first
    BY <2>4, <2>5, <2>6
  <2> QED
    BY <2>7
<1> QED
  BY <1>1, <1>2

-----------------------------------------------------------------------------
\* The sums of the reports: of transactions, of their rows, and of accounts.

Amounts == [t \in Transactions |-> Tx[t].amount]

LEMMA AmountsAreIntegers == Amounts \in [Transactions -> Int] /\ IsFiniteSet(Transactions)
BY TransactionsAssumption DEF Amounts

LEMMA TransactionsSum ==
  ASSUME NEW S \in SUBSET Transactions
  PROVE  SumOf(TxAmount, S) = TotalOf(Part(Amounts, S)) /\ TotalOf(Part(Amounts, S)) \in Int
PROOF
<1> DEFINE v     == Part(Amounts, S)
           eq(g) == g = [u \in SUBSET S |->
                           IF u = {} THEN 0
                           ELSE Tx[CHOOSE x \in u : TRUE].amount + g[u \ {CHOOSE x \in u : TRUE}]]
           G     == CHOOSE g : eq(g)
<1>1. SumOf(TxAmount, S) = G[S]
  BY DEF SumOf, MapThenSumSet, MapThenFoldSet, TxAmount
<1>2. IsFiniteSet(S) /\ v \in [S -> Int] /\ DOMAIN v = S
  BY AmountsAreIntegers, FS_Subset DEF Part
<1>3. \A x \in S : v[x] = Tx[x].amount
  BY DEF Part, Amounts
<1> HIDE DEF v
<1>4. \A u \in SUBSET S : u # {} => v[CHOOSE x \in u : TRUE] = Tx[CHOOSE x \in u : TRUE].amount
  BY <1>3
<1>5. \A g : eq(g) <=> Folds(v, g)
  BY <1>2, <1>4 DEF Folds
<1> HIDE DEF eq
<1>6. Folds(v, G)
  BY <1>2, <1>5, FoldExists
<1> HIDE DEF G
<1>7. TotalOf(v) = G[S]
  BY <1>2, <1>6, FoldGivesTotal
<1>8. TotalOf(v) \in Int
  BY <1>2, TotalIsInt
<1> QED
  BY <1>1, <1>7, <1>8 DEF v

LEMMA RowsSum ==
  ASSUME NEW S, IsFiniteSet(S), \A r \in S : r.amount \in Int
  PROVE  SumOf(LAMBDA r : r.amount, S) = TotalOf([r \in S |-> r.amount])
PROOF
<1> DEFINE v     == [r \in S |-> r.amount]
           eq(g) == g = [u \in SUBSET S |->
                           IF u = {} THEN 0
                           ELSE (CHOOSE x \in u : TRUE).amount + g[u \ {CHOOSE x \in u : TRUE}]]
           G     == CHOOSE g : eq(g)
<1>1. SumOf(LAMBDA r : r.amount, S) = G[S]
  BY DEF SumOf, MapThenSumSet, MapThenFoldSet
<1>2. v \in [S -> Int] /\ DOMAIN v = S
  OBVIOUS
<1>3. \A x \in S : v[x] = x.amount
  OBVIOUS
<1> HIDE DEF v
<1>4. \A u \in SUBSET S : u # {} => v[CHOOSE x \in u : TRUE] = (CHOOSE x \in u : TRUE).amount
  BY <1>3
<1>5. \A g : eq(g) <=> Folds(v, g)
  BY <1>2, <1>4 DEF Folds
<1> HIDE DEF eq
<1>6. Folds(v, G)
  BY <1>2, <1>5, FoldExists
<1> HIDE DEF G
<1>7. TotalOf(v) = G[S]
  BY <1>2, <1>6, FoldGivesTotal
<1> QED
  BY <1>1, <1>7 DEF v

LEMMA BalancesSum ==
  ASSUME NEW S, IsFiniteSet(S), \A a \in S : a.balance \in Int
  PROVE  SumOf(Balance, S) = TotalOf([a \in S |-> a.balance])
PROOF
<1> DEFINE v     == [r \in S |-> r.balance]
           eq(g) == g = [u \in SUBSET S |->
                           IF u = {} THEN 0
                           ELSE (CHOOSE x \in u : TRUE).balance + g[u \ {CHOOSE x \in u : TRUE}]]
           G     == CHOOSE g : eq(g)
<1>1. SumOf(Balance, S) = G[S]
  BY DEF SumOf, MapThenSumSet, MapThenFoldSet, Balance
<1>2. v \in [S -> Int] /\ DOMAIN v = S
  OBVIOUS
<1>3. \A x \in S : v[x] = x.balance
  OBVIOUS
<1> HIDE DEF v
<1>4. \A u \in SUBSET S : u # {} => v[CHOOSE x \in u : TRUE] = (CHOOSE x \in u : TRUE).balance
  BY <1>3
<1>5. \A g : eq(g) <=> Folds(v, g)
  BY <1>2, <1>4 DEF Folds
<1> HIDE DEF eq
<1>6. Folds(v, G)
  BY <1>2, <1>5, FoldExists
<1> HIDE DEF G
<1>7. TotalOf(v) = G[S]
  BY <1>2, <1>6, FoldGivesTotal
<1> QED
  BY <1>1, <1>7 DEF v

LEMMA OpeningsSum ==
  ASSUME NEW S, IsFiniteSet(S), \A a \in S : opening[a.id] \in Int
  PROVE  SumOf(LAMBDA a : opening[a.id], S) = TotalOf([a \in S |-> opening[a.id]])
PROOF
<1> DEFINE v     == [r \in S |-> opening[r.id]]
           eq(g) == g = [u \in SUBSET S |->
                           IF u = {} THEN 0
                           ELSE opening[(CHOOSE x \in u : TRUE).id]
                                  + g[u \ {CHOOSE x \in u : TRUE}]]
           G     == CHOOSE g : eq(g)
<1>1. SumOf(LAMBDA a : opening[a.id], S) = G[S]
  BY DEF SumOf, MapThenSumSet, MapThenFoldSet
<1>2. v \in [S -> Int] /\ DOMAIN v = S
  OBVIOUS
<1>3. \A x \in S : v[x] = opening[x.id]
  OBVIOUS
<1> HIDE DEF v
<1>4. \A u \in SUBSET S : u # {} => v[CHOOSE x \in u : TRUE] = opening[(CHOOSE x \in u : TRUE).id]
  BY <1>3
<1>5. \A g : eq(g) <=> Folds(v, g)
  BY <1>2, <1>4 DEF Folds
<1> HIDE DEF eq
<1>6. Folds(v, G)
  BY <1>2, <1>5, FoldExists
<1> HIDE DEF G
<1>7. TotalOf(v) = G[S]
  BY <1>2, <1>6, FoldGivesTotal
<1> QED
  BY <1>1, <1>7 DEF v

-----------------------------------------------------------------------------
\* The history of a plan.

Kept == {a \in Accounts : ~a.deleted}

\* The transactions of some that accounts count.
Counted(live) == {t \in live : \E a \in Kept : a.id = Tx[t].account}

OfAccount(live, a) == {t \in live : Tx[t].account = a.id}

AccountOf(a, live) ==
  [id |-> a.id, onBudget |-> a.onBudget, closed |-> a.closed, deleted |-> a.deleted,
   balance |-> opening[a.id] + SumOf(TxAmount, OfAccount(live, a))]

\* What accounts add up to is what is counted.
LEMMA TotalsOfAccounts ==
  ASSUME NEW live \in SUBSET Transactions
  PROVE  TotalOf([a \in Kept |-> TotalOf(Part(Amounts, OfAccount(live, a)))])
           = TotalOf(Part(Amounts, Counted(live)))
PROOF
<1> DEFINE D   == Counted(live)
           v   == Part(Amounts, D)
           w   == [a \in Kept |-> TotalOf(Part(Amounts, OfAccount(live, a)))]
           key == [t \in D |-> CHOOSE a \in Kept : a.id = Tx[t].account]
<1>1. D \in SUBSET Transactions
  BY DEF Counted
<1>2. IsFiniteSet(D) /\ v \in [D -> Int]
  BY <1>1, AmountsAreIntegers, FS_Subset DEF Part
<1>3. IsFiniteSet(Kept)
  BY ListsAssumption, FS_Subset DEF Kept
<1>4. \A t \in D : key[t] \in Kept /\ key[t].id = Tx[t].account
  BY DEF Counted
<1>5. \A a \in Kept : {t \in D : key[t] = a} = OfAccount(live, a)
  <2> TAKE a \in Kept
  <2>1. ASSUME NEW t \in D
        PROVE  key[t] = a <=> Tx[t].account = a.id
    <3>1. key[t] \in Accounts /\ a \in Accounts
      BY <1>4 DEF Kept
    <3>2. key[t].id = Tx[t].account
      BY <1>4
    <3> HIDE DEF key
    <3> QED
      BY <3>1, <3>2, ListsAssumption
  <2>2. OfAccount(live, a) \subseteq D
    BY DEF OfAccount, Counted
  <2>3. D \subseteq live
    BY DEF Counted
  <2> HIDE DEF D, key
  <2> QED
    BY <2>1, <2>2, <2>3 DEF OfAccount
<1>6. \A a \in Kept : w[a] = TotalOf(Part(v, {t \in D : key[t] = a}))
  <2> TAKE a \in Kept
  <2>1. OfAccount(live, a) \subseteq D
    BY DEF OfAccount, Counted
  <2>2. Part(v, OfAccount(live, a)) = Part(Amounts, OfAccount(live, a))
    BY <2>1 DEF Part
  <2> QED
    BY <1>5, <2>2
<1>7. DOMAIN w = Kept /\ w = [a \in Kept |-> w[a]] /\ \A t \in D : key[t] \in Kept
  BY <1>4
<1> HIDE DEF D, v, w, key
<1>8. TotalOf(w) = TotalOf(v)
  BY <1>2, <1>3, <1>6, <1>7, TotalByKey
<1> QED
  BY <1>8 DEF D, v, w

LEMMA KeptAreDifferent ==
  /\ IsFiniteSet(Kept) /\ \A a, b \in Kept : a.id = b.id => a = b
  /\ opening \in Openings => \A a \in Kept : opening[a.id] \in Int
BY ListsAssumption, StartAssumption, FS_Subset DEF Kept

\* What is taken out of the balance of an account for what is later than a date: rows
\* that were sent from another date on, and their transactions.
LaterThan(from, end, id) ==
  {r \in RowsFrom(from) : r.date >= from /\ r.date > end /\ ~r.deleted /\ r.account = id}

BookedAfter(end, id) == {t \in Live : Tx[t].date > end /\ Tx[t].account = id}

LEMMA LaterRows ==
  ASSUME ledger \in [Transactions -> Statuses], NEW from, NEW end, NEW id,
         \A t \in Transactions : Tx[t].date > end => Tx[t].date >= from
  PROVE  SumOf(LAMBDA r : r.amount, LaterThan(from, end, id))
           = TotalOf(Part(Amounts, BookedAfter(end, id)))
PROOF
<1> DEFINE later == LaterThan(from, end, id)
           after == BookedAfter(end, id)
           key   == [t \in after |-> Row(t, ledger[t])]
           v     == Part(Amounts, after)
           w     == [r \in later |-> r.amount]
<1>1. after \in SUBSET Transactions /\ IsFiniteSet(after) /\ v \in [after -> Int]
  <2>1. after \in SUBSET Transactions
    BY DEF BookedAfter, Live, LedgerLive, Transactions
  <2> QED
    BY <2>1, AmountsAreIntegers, FS_Subset DEF Part
<1>2. \A t \in after : /\ ledger[t] \in {"unapproved", "approved"}
                       /\ Tx[t].date > end /\ Tx[t].date >= from /\ Tx[t].account = id
                       /\ t \in Transactions
  BY <1>1 DEF BookedAfter, Live, LedgerLive
<1>3. \A t : /\ Row(t, ledger[t]).id = t /\ Row(t, ledger[t]).date = Tx[t].date
             /\ Row(t, ledger[t]).account = Tx[t].account
             /\ Row(t, ledger[t]).amount = Tx[t].amount
             /\ Row(t, ledger[t]).deleted = (ledger[t] = "deleted")
  BY DEF Row
<1>4. \A t \in after : Row(t, ledger[t]) \in later
  <2> TAKE t \in after
  <2>1. Row(t, ledger[t]) \in Rows
    BY <1>2 DEF Rows, RowsOf, Transactions
  <2>2. Row(t, ledger[t]) \in RowsFrom(from)
    BY <1>2, <1>3, <2>1 DEF RowsFrom
  <2> QED
    BY <1>2, <1>3, <2>2 DEF LaterThan
<1>5. \A r \in later : \E t \in after : r = Row(t, ledger[t])
  <2> TAKE r \in later
  <2>1. r \in Rows /\ r.date > end /\ ~r.deleted /\ r.account = id
    BY DEF LaterThan, RowsFrom
  <2>2. PICK t \in Transactions : ledger[t] # "absent" /\ r = Row(t, ledger[t])
    BY <2>1 DEF Rows, RowsOf, Transactions
  <2>3. ledger[t] \in {"unapproved", "approved"}
    BY <1>3, <2>1, <2>2 DEF Statuses
  <2>4. t \in after
    BY <1>3, <2>1, <2>2, <2>3 DEF BookedAfter, Live, LedgerLive, Transactions
  <2> QED
    BY <2>2, <2>4
<1>6. \A t \in after : v[t] = Tx[t].amount /\ Tx[t].amount \in Int
  BY <1>1, TransactionsAssumption DEF Part, Amounts
<1> HIDE DEF after, v
<1>7. key \in [after -> later]
  BY <1>4
<1>8. \A r \in later : r.amount \in Int
  <2> TAKE r \in later
  <2>1. PICK t \in after : r = Row(t, ledger[t])
    BY <1>5
  <2> QED
    BY <1>3, <1>6, <2>1
<1>9. w \in [later -> Int]
  BY <1>8
<1>10. \A r \in later : \E t \in after : key[t] = r
  BY <1>5
<1>11. \A t, u \in after : key[t] = key[u] => t = u
  BY <1>3
<1>12. \A t \in after : w[key[t]] = v[t]
  BY <1>3, <1>4, <1>6
<1>13. IsFiniteSet(later)
  <2>1. key \in Surjection(after, later)
    BY <1>7, <1>10 DEF Surjection
  <2> QED
    BY <1>1, <2>1, FS_Surjection
<1> HIDE DEF later, key
<1>14. SumOf(LAMBDA r : r.amount, later) = TotalOf(w)
  BY <1>8, <1>13, RowsSum
<1> HIDE DEF w
<1>15. TotalOf(w) = TotalOf(v)
  BY <1>1, <1>7, <1>9, <1>10, <1>11, <1>12, TotalReindexed
<1> QED
  BY <1>14, <1>15 DEF later, after, v

LEMMA GreatestIsThere ==
  ASSUME NEW S \in SUBSET Int, S # {}, IsFiniteSet(S)
  PROVE  Max(S) \in S
PROOF
<1> DEFINE above(x) == {y \in S : y > x}
           sizes    == {Cardinality(above(x)) : x \in S}
<1>1. \A x : IsFiniteSet(above(x)) /\ Cardinality(above(x)) \in Nat
  BY FS_Subset, FS_CardinalityType
<1>2. sizes \in SUBSET Nat /\ sizes # {}
  BY <1>1
<1>3. PICK n \in sizes : \A m \in sizes : n <= m
  BY <1>2, LeastNatural
<1>4. PICK x \in S : Cardinality(above(x)) = n
  OBVIOUS
<1>5. ASSUME NEW y \in S, ~(y <= x)
      PROVE  FALSE
  <2>1. x \in Int /\ y \in Int /\ x < y
    BY <1>5
  <2>2. above(y) \subseteq above(x) /\ y \in above(x) /\ y \notin above(y)
    <3>1. \A z \in S : z \in Int
      OBVIOUS
    <3>2. \A z \in S : z > y => z > x
      BY <2>1, <3>1
    <3>3. y > x /\ ~(y > y)
      BY <2>1
    <3> QED
      BY <3>2, <3>3, Zenon
  <2> HIDE DEF above
  <2>3. Cardinality(above(y)) < Cardinality(above(x))
    BY <1>1, <2>2, FS_Subset
  <2>4. Cardinality(above(x)) <= Cardinality(above(y))
    BY <1>3, <1>4
  <2> QED
    BY <1>1, <2>3, <2>4
<1>6. x \in S /\ \A y \in S : x >= y
  BY <1>5
<1> QED
  BY <1>6 DEF Max

\* The balances at the end of a month: what the accounts had at first, and what was
\* read less what is later.
LEMMA BalancesAdd ==
  ASSUME opening \in Openings, ledger \in [Transactions -> Statuses],
         NEW read \in SUBSET Transactions, NEW from, NEW month,
         \A t \in Transactions : Tx[t].date > MonthEnd(month) => Tx[t].date >= from
  PROVE  LET accounts == {AccountOf(a, read) : a \in Kept}
             rows     == {r \in RowsFrom(from) : r.date >= from}
             after    == {t \in Live : Tx[t].date > MonthEnd(month)}
         IN SumOf(Balance, BalancesAt(accounts, rows, month))
              = TotalOf([a \in Kept |-> opening[a.id]]) + TotalOf(Part(Amounts, Counted(read)))
                  - TotalOf(Part(Amounts, Counted(after)))
PROOF
<1> DEFINE accounts == {AccountOf(a, read) : a \in Kept}
           rows     == {r \in RowsFrom(from) : r.date >= from}
           after    == {t \in Live : Tx[t].date > MonthEnd(month)}
           later(a) == {r \in AfterMonthEnd(rows, month) : ~r.deleted /\ r.account = a.id}
           x        == [a \in Kept |-> opening[a.id]]
           y        == [a \in Kept |-> TotalOf(Part(Amounts, OfAccount(read, a)))]
           z        == [a \in Kept |-> TotalOf(Part(Amounts, OfAccount(after, a)))]
           v        == [a \in Kept |-> x[a] + y[a] - z[a]]
           then(a)  == [AccountOf(a, read) EXCEPT
                          !.balance = @ - SumOf(LAMBDA r : r.amount, later(AccountOf(a, read)))]
           all      == {then(a) : a \in Kept}
           key      == [a \in Kept |-> then(a)]
           w        == [b \in all |-> b.balance]
<1>1. after \in SUBSET Transactions
  BY DEF Live, LedgerLive, Transactions
<1>2. \A a : /\ OfAccount(read, a) \in SUBSET Transactions
            /\ OfAccount(after, a) \in SUBSET Transactions
  BY <1>1 DEF OfAccount
<1>3. \A a : SumOf(LAMBDA r : r.amount, later(a)) = TotalOf(Part(Amounts, OfAccount(after, a)))
  <2> TAKE a
  <2>1. later(a) = LaterThan(from, MonthEnd(month), a.id)
    BY DEF AfterMonthEnd, LaterThan
  <2>2. OfAccount(after, a) = BookedAfter(MonthEnd(month), a.id)
    BY DEF OfAccount, BookedAfter
  <2> HIDE DEF later, after
  <2> QED
    BY <2>1, <2>2, LaterRows
<1>4. \A a \in Kept : x[a] \in Int /\ y[a] \in Int /\ z[a] \in Int
  BY <1>2, TransactionsSum, KeptAreDifferent
<1>5. /\ x \in [Kept -> Int] /\ y \in [Kept -> Int] /\ z \in [Kept -> Int]
      /\ v \in [Kept -> Int]
  <2>1. \A a \in Kept : x[a] + y[a] - z[a] \in Int
    BY <1>4
  <2> QED
    BY <1>4, <2>1
<1>6. BalancesAt(accounts, rows, month) = all
  <2>1. NotDeleted(accounts) = accounts
    BY DEF NotDeleted, AccountOf, Kept
  <2>2. BalancesAt(accounts, rows, month)
          = {[a EXCEPT !.balance = @ - SumOf(LAMBDA r : r.amount, later(a))] :
               a \in NotDeleted(accounts)}
    BY DEF BalancesAt
  <2> DEFINE less(b) == [b EXCEPT !.balance = @ - SumOf(LAMBDA r : r.amount, later(b))]
  <2>3. \A a \in Kept : then(a) = less(AccountOf(a, read))
    OBVIOUS
  <2>4. BalancesAt(accounts, rows, month) = {less(b) : b \in accounts}
    BY <2>1, <2>2
  <2> HIDE DEF less, then, later
  <2>5. {less(b) : b \in accounts} = {then(a) : a \in Kept}
    BY <2>3
  <2> QED
    BY <2>4, <2>5
<1>7. \A a \in Kept : then(a).id = a.id /\ then(a).balance = v[a]
  <2> TAKE a \in Kept
  <2>1. /\ AccountOf(a, read).id = a.id
        /\ AccountOf(a, read).balance = opening[a.id] + SumOf(TxAmount, OfAccount(read, a))
        /\ {"id", "balance"} \subseteq DOMAIN AccountOf(a, read)
    BY DEF AccountOf
  <2>2. OfAccount(after, AccountOf(a, read)) = OfAccount(after, a)
    BY <2>1 DEF OfAccount
  <2>3. SumOf(LAMBDA r : r.amount, later(AccountOf(a, read))) = z[a]
    BY <1>3, <2>2
  <2>4. SumOf(TxAmount, OfAccount(read, a)) = y[a]
    BY <1>2, TransactionsSum
  <2>5. v[a] = opening[a.id] + y[a] - z[a]
    OBVIOUS
  <2> DEFINE less == SumOf(LAMBDA r : r.amount, later(AccountOf(a, read)))
  <2>6. then(a) = [AccountOf(a, read) EXCEPT !.balance = @ - less]
    OBVIOUS
  <2>7. less = z[a]
    BY <2>3
  <2> HIDE DEF less, later, then, v, x, y, z
  <2>8. then(a).id = a.id /\ then(a).balance = AccountOf(a, read).balance - less
    BY <2>1, <2>6
  <2>9. AccountOf(a, read).balance = opening[a.id] + y[a]
    BY <2>1, <2>4
  <2>10. then(a).balance = v[a]
    <3>1. opening[a.id] \in Int /\ y[a] \in Int /\ z[a] \in Int
      BY <1>4, KeptAreDifferent
    <3> QED
      BY <2>5, <2>7, <2>8, <2>9, <3>1
  <2> QED
    BY <2>8, <2>10
<1> HIDE DEF then, v, x, y, z
<1>8. \A a, b \in Kept : key[a] = key[b] => a = b
  BY <1>7, KeptAreDifferent
<1>9. key \in [Kept -> all] /\ \A b \in all : \E a \in Kept : key[a] = b
  OBVIOUS
<1>10. \A b \in all : b.balance \in Int
  BY <1>5, <1>7
<1>11. w \in [all -> Int] /\ \A a \in Kept : w[key[a]] = v[a]
  BY <1>7, <1>10
<1>12. IsFiniteSet(all)
  <2>1. key \in Surjection(Kept, all)
    BY <1>9 DEF Surjection
  <2> QED
    BY <2>1, FS_Surjection, KeptAreDifferent
<1> HIDE DEF all, key
<1>13. SumOf(Balance, all) = TotalOf(w)
  BY <1>10, <1>12, BalancesSum
<1> HIDE DEF w
<1>14. TotalOf(w) = TotalOf(v)
  <2>1. IsFiniteSet(Kept) /\ v \in [Kept -> Int] /\ w \in [all -> Int] /\ key \in [Kept -> all]
    BY <1>5, <1>9, <1>11, KeptAreDifferent
  <2> QED
    BY <1>8, <1>9, <1>11, <2>1, TotalReindexed
<1>15. TotalOf(v) = TotalOf(x) + TotalOf(y) - TotalOf(z)
  <2>1. \A a \in Kept : v[a] = x[a] + y[a] - z[a]
    BY DEF v
  <2> QED
    BY <1>5, <2>1, KeptAreDifferent, TotalCombined
<1>16. TotalOf(y) = TotalOf(Part(Amounts, Counted(read)))
  BY TotalsOfAccounts DEF y
<1>17. TotalOf(z) = TotalOf(Part(Amounts, Counted(after)))
  <2> HIDE DEF after
  <2> QED
    BY <1>1, TotalsOfAccounts DEF z
<1> QED
  BY <1>6, <1>13, <1>14, <1>15, <1>16, <1>17 DEF x

LEMMA HistoryIsKept ==
  ASSUME opening \in Openings, ledger \in [Transactions -> Statuses],
         OrLive(seen.accounts) \in SUBSET Transactions
  PROVE  TrajectoryOffByTheUnseen
PROOF
<1> DEFINE read     == OrLive(seen.accounts)
           accounts == {AccountOf(a, read) : a \in Kept}
           counted(live) == {t \in live : \E a \in NotDeleted(SeenAccounts) : a.id = Tx[t].account}
           first    == TotalOf([a \in Kept |-> opening[a.id]])
           unseen   == SumOf(TxAmount, Counted(read)) - SumOf(TxAmount, Counted(Live))
<1>1. NotDeleted(SeenAccounts) = accounts
  <2>1. SeenAccounts = {AccountOf(a, read) : a \in Accounts}
    BY DEF SeenAccounts, AccountsAt, AccountOf, OfAccount
  <2>2. \A a : AccountOf(a, read).deleted = a.deleted
    BY DEF AccountOf
  <2> QED
    BY <2>1, <2>2 DEF NotDeleted, Kept
<1>2. \A a : AccountOf(a, read).id = a.id
  BY DEF AccountOf
<1>3. \A live : counted(live) = Counted(live)
  BY <1>1, <1>2 DEF Counted
<1>4. Live \in SUBSET Transactions
  BY DEF Live, LedgerLive, Transactions
<1>5. SumOf(LAMBDA a : opening[a.id], accounts) = first
  <2> DEFINE v   == [a \in Kept |-> opening[a.id]]
             w   == [b \in accounts |-> opening[b.id]]
             key == [a \in Kept |-> AccountOf(a, read)]
  <2>1. v \in [Kept -> Int] /\ IsFiniteSet(Kept)
    BY KeptAreDifferent
  <2>2. \A b \in accounts : opening[b.id] \in Int
    BY <1>2, KeptAreDifferent
  <2>3. w \in [accounts -> Int]
    BY <2>2
  <2>4. key \in [Kept -> accounts] /\ \A b \in accounts : \E a \in Kept : key[a] = b
    OBVIOUS
  <2>5. \A a, b \in Kept : key[a] = key[b] => a = b
    BY <1>2, KeptAreDifferent
  <2>6. \A a \in Kept : w[key[a]] = v[a]
    BY <1>2
  <2>7. IsFiniteSet(accounts)
    <3>1. key \in Surjection(Kept, accounts)
      BY <2>4 DEF Surjection
    <3> QED
      BY <2>1, <3>1, FS_Surjection
  <2> HIDE DEF accounts, key
  <2>8. SumOf(LAMBDA a : opening[a.id], accounts) = TotalOf(w)
    BY <2>2, <2>7, OpeningsSum
  <2> HIDE DEF w, v
  <2>9. TotalOf(w) = TotalOf(v)
    BY <2>1, <2>3, <2>4, <2>5, <2>6, TotalReindexed
  <2> QED
    BY <2>8, <2>9 DEF v
<1>6. first \in Int
  <2>1. IsFiniteSet(Kept) /\ [a \in Kept |-> opening[a.id]] \in [Kept -> Int]
    BY KeptAreDifferent
  <2> QED
    BY <2>1, TotalIsInt
<1>7. Months # {} => LastMonth \in Int
  <2>1. Months # {} => LastMonth \in Months
    BY ListsAssumption, GreatestIsThere DEF LastMonth
  <2> QED
    BY <2>1, ListsAssumption
<1>8. ASSUME NEW from \in Months, NEW month \in ListMonthsInRange(from, LastMonth)
      PROVE  Trajectory(SeenAccounts, RowsFrom(from), from, LastMonth)[month].netWorth
               = first + unseen
                   + SumOf(TxAmount, {t \in Counted(Live) : Tx[t].date <= MonthEnd(month)})
  <2> DEFINE end    == MonthEnd(month)
             until  == {t \in Counted(Live) : Tx[t].date <= end}
             after  == {t \in Live : Tx[t].date > end}
             rows   == {r \in RowsFrom(from) : r.date >= from}
  <2>1. from \in Int /\ month \in Int /\ month >= from
    <3>1. from \in Int /\ LastMonth \in Int
      BY <1>7, ListsAssumption
    <3> QED
      BY <3>1, MonthsFromFirst DEF ListMonthsInRange
  <2>2. end \in Int /\ end >= from - 1
    <3>1. MonthOf(month) \in Int
      BY <2>1, MonthsAreIntegers
    <3>2. MonthOf(month) + 1 \in Int
      BY <3>1
    <3>3. MonthStart(MonthOf(month) + 1) \in Int
      BY <3>2, MonthsAreIntegers
    <3>4. month < MonthStart(MonthOf(month) + 1)
      BY <2>1, DayIsInMonth
    <3> QED
      BY <2>1, <3>3, <3>4 DEF MonthEnd
  <2>3. \A t \in Transactions : Tx[t].date \in Int
    BY TransactionsAssumption
  <2> HIDE DEF end
  <2>4. \A t \in Transactions : Tx[t].date > end => Tx[t].date >= from
    BY <2>1, <2>2, <2>3
  <2>5. Trajectory(SeenAccounts, RowsFrom(from), from, LastMonth)[month].netWorth
          = SumOf(Balance, BalancesAt(SeenAccounts, rows, month))
    BY DEF Trajectory
  <2>6. BalancesAt(SeenAccounts, rows, month) = BalancesAt(accounts, rows, month)
    <3>1. NotDeleted(accounts) = accounts
      BY DEF NotDeleted, AccountOf, Kept
    <3> QED
      BY <1>1, <3>1 DEF BalancesAt
  <2>7. SumOf(Balance, BalancesAt(accounts, rows, month))
          = first + TotalOf(Part(Amounts, Counted(read))) - TotalOf(Part(Amounts, Counted(after)))
    BY <2>4, BalancesAdd DEF end
  <2>8. /\ Counted(read) \in SUBSET Transactions /\ Counted(Live) \in SUBSET Transactions
        /\ Counted(after) \in SUBSET Transactions /\ until \in SUBSET Transactions
    BY <1>4 DEF Counted
  <2>9. Counted(Live) = until \cup Counted(after) /\ until \cap Counted(after) = {}
    BY <1>4, <2>2, <2>3 DEF Counted
  <2>10. TotalOf(Part(Amounts, Counted(Live)))
           = TotalOf(Part(Amounts, until)) + TotalOf(Part(Amounts, Counted(after)))
    BY <2>8, <2>9, AmountsAreIntegers, TotalsJoin
  <2> HIDE DEF until, after, read, accounts, rows, first
  <2>11. /\ SumOf(TxAmount, Counted(read)) = TotalOf(Part(Amounts, Counted(read)))
         /\ TotalOf(Part(Amounts, Counted(read))) \in Int
         /\ SumOf(TxAmount, Counted(Live)) = TotalOf(Part(Amounts, Counted(Live)))
         /\ TotalOf(Part(Amounts, Counted(Live))) \in Int
         /\ SumOf(TxAmount, until) = TotalOf(Part(Amounts, until))
         /\ TotalOf(Part(Amounts, until)) \in Int
         /\ TotalOf(Part(Amounts, Counted(after))) \in Int
    BY <2>8, TransactionsSum
  <2>12. SumOf(Balance, BalancesAt(accounts, rows, month)) = first + unseen + SumOf(TxAmount, until)
    BY <1>6, <2>7, <2>10, <2>11
  <2> QED
    BY <2>5, <2>6, <2>12 DEF until, end
<1>9. \A from : DOMAIN Trajectory(SeenAccounts, RowsFrom(from), from, LastMonth)
                  = ListMonthsInRange(from, LastMonth)
  BY DEF Trajectory
<1> HIDE DEF accounts, first, read
<1> QED
  BY <1>1, <1>3, <1>5, <1>8, <1>9 DEF TrajectoryOffByTheUnseen, read

\* For every plan, ledger, range of months and sequence of reports and changes, the
\* trajectory is the history of the plan but for what was booked or deleted since the
\* balances were cached, and off by that in every month alike.
THEOREM HistoryIsTold == Spec => []TrajectoryOffByTheUnseen
PROOF
<1> DEFINE Inv == Typed /\ WalkInv
<1>1. Init => Inv
  BY InitIsTyped, InitWalks
<1>2. Inv /\ [Next]_vars => Inv'
  BY StepIsTyped, StepKeepsWalks
<1>3. Inv => TrajectoryOffByTheUnseen
  <2> SUFFICES ASSUME Inv PROVE TrajectoryOffByTheUnseen
    OBVIOUS
  <2>1. opening \in Openings /\ ledger \in [Transactions -> Statuses]
    BY DEF Typed, WalkInv
  <2>2. seen.accounts \in Reads
    BY DEF Typed
  <2>3. OrLive(seen.accounts) \in SUBSET Transactions
    BY <2>2 DEF OrLive, Reads, Live, LedgerLive, Transactions
  <2> QED
    BY <2>1, <2>3, HistoryIsKept
<1> QED
  BY <1>1, <1>2, <1>3, PTL DEF Spec

-----------------------------------------------------------------------------
\* Flows: what a report adds up.

\* Months lie at least 28 days apart.
LEMMA MonthsApart ==
  ASSUME NEW n \in Int, NEW j \in Nat
  PROVE  MonthStart(n) + 28 * j <= MonthStart(n + j)
PROOF
<1> DEFINE bad == {i \in Nat : ~(MonthStart(n) + 28 * i <= MonthStart(n + i))}
<1>1. \A k \in Int : MonthStart(k) \in Int
  BY MonthsAreIntegers
<1> SUFFICES ASSUME bad # {} PROVE FALSE
  OBVIOUS
<1>2. PICK i \in bad : \A k \in bad : i <= k
  BY LeastNatural
<1>3. i \in Nat /\ ~(MonthStart(n) + 28 * i <= MonthStart(n + i))
  BY <1>2
<1>4. i # 0
  <2>1. i = 0 => n + i = n
    OBVIOUS
  <2> QED
    BY <1>1, <1>3, <2>1
<1>5. i - 1 \in Nat /\ i - 1 \notin bad
  <2>1. i - 1 \in Nat /\ ~(i <= i - 1)
    BY <1>3, <1>4
  <2> HIDE DEF bad
  <2> QED
    BY <1>2, <2>1
<1>6. MonthStart(n) + 28 * (i - 1) <= MonthStart(n + (i - 1))
  BY <1>5
<1> HIDE DEF bad
<1>7. n + (i - 1) \in Int /\ (n + (i - 1)) + 1 = n + i
  BY <1>3
<1>8. MonthStart(n + (i - 1)) + 28 <= MonthStart(n + i)
  BY <1>7, MonthsAscend
<1>9. MonthStart(n) \in Int /\ MonthStart(n + (i - 1)) \in Int /\ MonthStart(n + i) \in Int
  BY <1>1, <1>3, <1>7
<1> QED
  BY <1>3, <1>6, <1>8, <1>9

\* First days of months are ordered as the months are counted.
LEMMA MonthOrder ==
  ASSUME NEW m \in Int, NEW n \in Int
  PROVE  MonthStart(m) <= MonthStart(n) <=> m <= n
PROOF
<1>1. MonthStart(m) \in Int /\ MonthStart(n) \in Int
  BY MonthsAreIntegers
<1>2. CASE m <= n
  <2>1. n - m \in Nat /\ m + (n - m) = n
    BY <1>2
  <2>2. MonthStart(m) + 28 * (n - m) <= MonthStart(n)
    BY <2>1, MonthsApart
  <2> QED
    BY <1>1, <1>2, <2>1, <2>2
<1>3. CASE ~(m <= n)
  <2>1. m - n \in Nat /\ m - n >= 1 /\ n + (m - n) = m
    BY <1>3
  <2>2. MonthStart(n) + 28 * (m - n) <= MonthStart(m)
    BY <2>1, MonthsApart
  <2> QED
    BY <1>1, <1>3, <2>1, <2>2
<1> QED
  BY <1>2, <1>3

\* The first day of a month lies in it.
LEMMA MonthOfStart ==
  ASSUME NEW n \in Int
  PROVE  MonthOf(MonthStart(n)) = n
PROOF
<1> DEFINE k == MonthOf(MonthStart(n))
<1>1. MonthStart(n) \in Int
  BY MonthsAreIntegers
<1>2. k \in Int /\ k + 1 \in Int
  BY <1>1, MonthsAreIntegers
<1>3. MonthStart(k) <= MonthStart(n) /\ MonthStart(n) < MonthStart(k + 1)
  BY <1>1, DayIsInMonth
<1> HIDE DEF k
<1>4. MonthStart(k + 1) \in Int
  BY <1>2, MonthsAreIntegers
<1>5. ~(MonthStart(k + 1) <= MonthStart(n))
  BY <1>1, <1>3, <1>4
<1>6. k <= n /\ ~(k + 1 <= n)
  BY <1>2, <1>3, <1>5, MonthOrder
<1>7. k = n
  BY <1>2, <1>6
<1> QED
  BY <1>7 DEF k

\* The first day of the month of a date.
FirstOf(date) == MonthStart(MonthOf(date))

\* What is assumed of the months of a plan.
LEMMA PlanMonths ==
  /\ IsFiniteSet(Months) /\ Months \in SUBSET Int
  /\ \A m \in Months : MonthOf(m) \in Int /\ MonthStart(MonthOf(m)) = m
BY ListsAssumption, MonthsAssumption, MonthsAreIntegers

\* A date lies within a range of months if its month does.
LEMMA DatesOfARange ==
  ASSUME NEW from \in Months, NEW to \in Months, NEW date \in Int
  PROVE  IsWithinMonthRange(date, from, to)
           <=> FirstOf(date) \in Months /\ from <= FirstOf(date) /\ FirstOf(date) <= to
PROOF
<1> DEFINE f == MonthOf(from)
           t == MonthOf(to)
           d == MonthOf(date)
<1>1. /\ f \in Int /\ t \in Int /\ d \in Int /\ t + 1 \in Int /\ d + 1 \in Int
      /\ MonthStart(f) = from /\ MonthStart(t) = to
  BY PlanMonths, MonthsAreIntegers
<1>2. MonthStart(d) <= date /\ date < MonthStart(d + 1)
  BY DayIsInMonth
<1>3. IsWithinMonthRange(date, from, to) <=> from <= date /\ date <= MonthStart(t + 1) - 1
  BY DEF IsWithinMonthRange, MonthEnd
<1>4. FirstOf(date) = MonthStart(d)
  BY DEF FirstOf
<1>5. f <= d /\ d <= t => MonthStart(d) \in Months
  BY <1>1, MonthsAssumption
<1> HIDE DEF f, t, d
<1>6. /\ MonthStart(f) \in Int /\ MonthStart(t) \in Int /\ MonthStart(d) \in Int
      /\ MonthStart(t + 1) \in Int /\ MonthStart(d + 1) \in Int
  BY <1>1, MonthsAreIntegers
<1>7. from <= date <=> f <= d
  <2>1. MonthStart(f) <= MonthStart(d) <=> f <= d
    BY <1>1, MonthOrder
  <2>2. MonthStart(d + 1) <= MonthStart(f) <=> d + 1 <= f
    BY <1>1, MonthOrder
  <2> QED
    BY <1>1, <1>2, <1>6, <2>1, <2>2
<1>8. date <= MonthStart(t + 1) - 1 <=> d <= t
  <2>1. MonthStart(t + 1) <= MonthStart(d) <=> t + 1 <= d
    BY <1>1, MonthOrder
  <2>2. MonthStart(d + 1) <= MonthStart(t + 1) <=> d + 1 <= t + 1
    BY <1>1, MonthOrder
  <2> QED
    BY <1>1, <1>2, <1>6, <2>1, <2>2
<1>9. (from <= MonthStart(d) <=> f <= d) /\ (MonthStart(d) <= to <=> d <= t)
  BY <1>1, MonthOrder
<1> QED
  BY <1>3, <1>4, <1>5, <1>7, <1>8, <1>9

\* A date lies within one month if that is its month.
LEMMA DatesOfAMonth ==
  ASSUME NEW m \in Months, NEW date \in Int
  PROVE  /\ IsWithinMonthRange(date, m, m) <=> FirstOf(date) = m
         /\ MonthOf(date) = MonthOf(m) <=> FirstOf(date) = m
PROOF
<1>1. m \in Int /\ MonthOf(m) \in Int /\ MonthStart(MonthOf(m)) = m
  BY PlanMonths
<1>2. MonthOf(date) \in Int /\ FirstOf(date) \in Int
  <2>1. MonthOf(date) \in Int
    BY MonthsAreIntegers
  <2> QED
    BY <2>1, MonthsAreIntegers DEF FirstOf
<1>3. IsWithinMonthRange(date, m, m) <=> FirstOf(date) = m
  BY <1>1, <1>2, DatesOfARange
<1>4. FirstOf(date) = m => MonthOf(date) = MonthOf(m)
  <2>1. MonthOf(FirstOf(date)) = MonthOf(date)
    BY <1>2, MonthOfStart DEF FirstOf
  <2> QED
    BY <2>1
<1>5. MonthOf(date) = MonthOf(m) => FirstOf(date) = m
  BY <1>1 DEF FirstOf
<1> QED
  BY <1>3, <1>4, <1>5

\* The months of a range are those of the plan.
LEMMA RangesAreOfThePlan ==
  ASSUME NEW from \in Months, NEW to \in Months
  PROVE  ListMonthsInRange(from, to) = {m \in Months : from <= m /\ m <= to}
PROOF
<1> DEFINE f == MonthOf(from)
           t == MonthOf(to)
           n == (to - from) \div 28
<1>1. /\ from \in Int /\ to \in Int /\ f \in Int /\ t \in Int
      /\ MonthStart(f) = from /\ MonthStart(t) = to
  BY PlanMonths
<1>2. n \in Int
  BY <1>1
<1>3. PICK c : /\ c[0] = from
               /\ \A i \in Nat \ {0} : c[i] = AddMonths(c[i - 1], 1)
               /\ MonthsFrom(from, to) = {c[i] : i \in {j \in 0 .. n : c[j] <= to}}
  BY <1>1, MonthsAreCounted
<1>4. \A k \in f .. t : MonthStart(k) \in Months
  BY MonthsAssumption
<1> HIDE DEF f, t
<1>5. \A i \in Nat : c[i] = MonthStart(f + i)
  <2> DEFINE bad == {i \in Nat : c[i] # MonthStart(f + i)}
  <2> SUFFICES ASSUME bad # {} PROVE FALSE
    OBVIOUS
  <2>1. PICK i \in bad : \A k \in bad : i <= k
    BY LeastNatural
  <2>2. i \in Nat /\ c[i] # MonthStart(f + i)
    BY <2>1
  <2>3. i # 0
    <3>1. f + 0 = f
      BY <1>1
    <3> QED
      BY <1>1, <1>3, <2>2, <3>1
  <2>4. i - 1 \in Nat /\ i - 1 \notin bad
    <3>1. i - 1 \in Nat /\ ~(i <= i - 1)
      BY <2>2, <2>3
    <3> HIDE DEF bad
    <3> QED
      BY <2>1, <3>1
  <2> DEFINE k == f + (i - 1)
  <2>5. c[i - 1] = MonthStart(k)
    BY <2>4
  <2>6. k \in Int /\ k + 1 = f + i
    BY <1>1, <2>4
  <2>7. c[i] = AddMonths(MonthStart(k), 1)
    BY <1>3, <2>2, <2>3, <2>5
  <2> HIDE DEF k, bad
  <2>8. MonthOf(MonthStart(k)) = k
    BY <2>6, MonthOfStart
  <2>9. AddMonths(MonthStart(k), 1) = MonthStart(k + 1) + (MonthStart(k) - MonthStart(k))
    BY <2>8 DEF AddMonths
  <2>10. MonthStart(k) \in Int /\ MonthStart(k + 1) \in Int
    BY <2>6, MonthsAreIntegers
  <2> QED
    BY <2>2, <2>6, <2>7, <2>9, <2>10
<1>6. ASSUME NEW i \in 0 .. n, c[i] <= to
      PROVE  c[i] \in Months /\ from <= c[i]
  <2>1. i \in Nat /\ f + i \in Int
    BY <1>1
  <2>2. MonthStart(f + i) <= MonthStart(t)
    BY <1>1, <1>5, <1>6, <2>1
  <2>3. f + i <= t
    BY <1>1, <2>1, <2>2, MonthOrder
  <2>4. MonthStart(f) <= MonthStart(f + i)
    <3>1. f <= f + i
      BY <1>1, <2>1
    <3> QED
      BY <1>1, <2>1, <3>1, MonthOrder
  <2>5. MonthStart(f + i) \in Months
    BY <1>1, <1>4, <2>1, <2>3
  <2> QED
    BY <1>1, <1>5, <2>1, <2>4, <2>5
<1>7. ASSUME NEW m \in Months, from <= m, m <= to
      PROVE  \E i \in {j \in 0 .. n : c[j] <= to} : m = c[i]
  <2> DEFINE k == MonthOf(m)
             i == k - f
  <2>1. m \in Int /\ k \in Int /\ MonthStart(k) = m
    BY PlanMonths
  <2> HIDE DEF k
  <2>2. f <= k
    BY <1>1, <1>7, <2>1, MonthOrder
  <2>3. i \in Nat /\ f + i = k
    BY <1>1, <2>1, <2>2
  <2>4. MonthStart(f) + 28 * i <= MonthStart(k)
    BY <1>1, <2>3, MonthsApart
  <2>5. 28 * i <= to - from
    BY <1>1, <1>7, <2>1, <2>3, <2>4
  <2>6. i <= n
    <3> HIDE DEF i
    <3> QED
      BY <1>1, <2>3, <2>5
  <2>7. c[i] = m
    BY <1>5, <2>1, <2>3
  <2> HIDE DEF i, n
  <2>8. i \in 0 .. n /\ c[i] <= to
    BY <1>2, <1>7, <2>3, <2>6, <2>7
  <2> QED
    BY <2>7, <2>8
<1>8. ListMonthsInRange(from, to) = {c[i] : i \in {j \in 0 .. n : c[j] <= to}}
  BY <1>3 DEF ListMonthsInRange
<1> HIDE DEF n
<1> QED
  BY <1>6, <1>7, <1>8

\* Sums of values that are not negative.
LEMMA TotalIsPositive ==
  ASSUME NEW D, IsFiniteSet(D), NEW v \in [D -> Int], \A d \in D : v[d] >= 0
  PROVE  TotalOf(v) >= 0 /\ ((\A d \in D : v[d] = 0) => TotalOf(v) = 0)
PROOF
<1>1. PICK g : Sums(v, g)
  BY SumsExist
<1>2. g \in [SUBSET D -> Int] /\ g[{}] = 0
  BY <1>1 DEF Sums
<1>3. \A s \in SUBSET D : \A x \in s : g[s] = v[x] + g[s \ {x}]
  BY <1>1 DEF Sums
<1> DEFINE Good == {s \in SUBSET D : g[s] >= 0 /\ ((\A d \in s : v[d] = 0) => g[s] = 0)}
<1>4. {} \in Good
  BY <1>2
<1>5. ASSUME NEW s \in SUBSET D, s # {}, s \ {CHOOSE x \in s : TRUE} \in Good
      PROVE  s \in Good
  <2> DEFINE c == CHOOSE x \in s : TRUE
             r == s \ {c}
  <2>1. c \in s /\ r \in SUBSET D
    BY <1>5
  <2>2. g[r] >= 0 /\ ((\A d \in r : v[d] = 0) => g[r] = 0)
    BY <1>5
  <2> HIDE DEF c
  <2>3. g[s] = v[c] + g[r] /\ v[c] \in Int /\ v[c] >= 0
    BY <1>3, <2>1
  <2>4. \A d \in r : d \in s
    OBVIOUS
  <2> HIDE DEF r
  <2>5. g[r] \in Int
    BY <1>2, <2>1
  <2>6. g[s] >= 0
    BY <2>2, <2>3, <2>5
  <2>7. (\A d \in s : v[d] = 0) => g[s] = 0
    BY <2>1, <2>2, <2>3, <2>4, <2>5
  <2> QED
    BY <2>6, <2>7
<1>6. D \in Good
  <2> HIDE DEF Good
  <2>1. Good \in SUBSET (SUBSET D)
    BY DEF Good
  <2>2. \A s \in SUBSET D : s \in Good
    BY <1>4, <1>5, <2>1, OneByOneInduction
  <2> QED
    BY <2>2
<1>7. TotalOf(v) = g[D]
  BY <1>1, TotalIs
<1> QED
  BY <1>6, <1>7

\* Zeros add nothing.
LEMMA ZerosAreNothing ==
  ASSUME NEW D, IsFiniteSet(D), NEW v \in [D -> Int], \A d \in D : v[d] = 0
  PROVE  TotalOf(v) = 0
PROOF
<1>1. \A d \in D : v[d] >= 0
  OBVIOUS
<1> QED
  BY <1>1, TotalIsPositive

\* The sum over a function, as the properties take it.
LEMMA SumOverIsTotal ==
  ASSUME NEW D, IsFiniteSet(D), NEW v \in [D -> Int]
  PROVE  SumOver(v) = TotalOf(v)
PROOF
<1> DEFINE eq(g) == g = [u \in SUBSET D |->
                           IF u = {} THEN 0
                           ELSE v[CHOOSE x \in u : TRUE] + g[u \ {CHOOSE x \in u : TRUE}]]
           G     == CHOOSE g : eq(g)
<1>1. DOMAIN v = D
  OBVIOUS
<1>2. SumOver(v) = G[D]
  BY <1>1 DEF SumOver, SumOf, MapThenSumSet, MapThenFoldSet
<1>3. \A g : eq(g) <=> Folds(v, g)
  BY <1>1 DEF Folds
<1> HIDE DEF eq
<1>4. Folds(v, G)
  BY <1>3, FoldExists
<1> HIDE DEF G
<1> QED
  BY <1>2, <1>4, FoldGivesTotal

\* Some of the values of some.
LEMMA PartOfPart ==
  ASSUME NEW v, NEW S, NEW T \in SUBSET S
  PROVE  Part(Part(v, S), T) = Part(v, T)
BY DEF Part

\* Some of some integers.
LEMMA PartIsTyped ==
  ASSUME NEW D, IsFiniteSet(D), NEW v \in [D -> Int], NEW S \in SUBSET D
  PROVE  Part(v, S) \in [S -> Int] /\ IsFiniteSet(S) /\ TotalOf(Part(v, S)) \in Int
PROOF
<1>1. Part(v, S) \in [S -> Int] /\ IsFiniteSet(S)
  BY FS_Subset DEF Part
<1> QED
  BY <1>1, TotalIsInt

\* The values of some, added up by a key.
LEMMA PartByKey ==
  ASSUME NEW D, IsFiniteSet(D), NEW v \in [D -> Int], NEW S \in SUBSET D,
         NEW K, IsFiniteSet(K), NEW key, \A d \in S : key[d] \in K, NEW w \in [K -> Int],
         \A k \in K : w[k] = TotalOf(Part(v, {d \in S : key[d] = k}))
  PROVE  SumOver(w) = TotalOf(Part(v, S)) /\ TotalOf(w) = TotalOf(Part(v, S))
PROOF
<1> DEFINE u == Part(v, S)
<1>1. u \in [S -> Int] /\ IsFiniteSet(S)
  BY PartIsTyped
<1>2. \A k \in K : w[k] = TotalOf(Part(u, {d \in S : key[d] = k}))
  <2> TAKE k \in K
  <2>1. Part(u, {d \in S : key[d] = k}) = Part(v, {d \in S : key[d] = k})
    BY PartOfPart
  <2> QED
    BY <2>1
<1> HIDE DEF u
<1>3. DOMAIN w = K /\ w = [k \in K |-> w[k]]
  OBVIOUS
<1>4. TotalOf(w) = TotalOf(u)
  BY <1>1, <1>2, <1>3, TotalByKey
<1>5. SumOver(w) = TotalOf(w)
  BY SumOverIsTotal
<1> QED
  BY <1>4, <1>5 DEF u

\* What adds nothing can be left out.
LEMMA TotalWithoutZeros ==
  ASSUME NEW D, IsFiniteSet(D), NEW v \in [D -> Int], NEW S \in SUBSET D,
         NEW T \in SUBSET S, \A d \in S \ T : v[d] = 0
  PROVE  TotalOf(Part(v, S)) = TotalOf(Part(v, T))
PROOF
<1> DEFINE R == S \ T
<1>1. R \in SUBSET D /\ T \in SUBSET D /\ T \cap R = {} /\ T \cup R = S
  OBVIOUS
<1>2. TotalOf(Part(v, R)) = 0
  <2>1. Part(v, R) \in [R -> Int] /\ IsFiniteSet(R)
    BY <1>1, PartIsTyped
  <2>2. \A d \in R : Part(v, R)[d] = 0
    BY DEF Part
  <2> QED
    BY <2>1, <2>2, ZerosAreNothing
<1>3. TotalOf(Part(v, T)) \in Int
  BY <1>1, PartIsTyped
<1> HIDE DEF R
<1>4. TotalOf(Part(v, S)) = TotalOf(Part(v, T)) + TotalOf(Part(v, R))
  BY <1>1, TotalsJoin
<1> QED
  BY <1>2, <1>3, <1>4

\* What the rows add to what came in, and to what was spent.
Earned == [r \in Rows |-> r.amount]
Paid   == [r \in Rows |-> -r.amount]

\* Rows are finitely many, with dates and amounts.
LEMMA RowsAreNumbers ==
  /\ IsFiniteSet(Rows) /\ Earned \in [Rows -> Int] /\ Paid \in [Rows -> Int]
  /\ \A r \in Rows : r.amount \in Int /\ r.date \in Int
PROOF
<1> DEFINE sent == {u \in DOMAIN Tx : ledger[u] # "absent"}
<1>1. sent \in SUBSET Transactions /\ IsFiniteSet(sent)
  BY TransactionsAssumption, FS_Subset DEF Transactions
<1>2. Rows = {Row(t, ledger[t]) : t \in sent}
  BY DEF Rows, RowsOf
<1> HIDE DEF sent
<1>3. IsFiniteSet(Rows)
  <2> DEFINE f == [t \in sent |-> Row(t, ledger[t])]
  <2>1. DOMAIN f = sent /\ {f[t] : t \in DOMAIN f} = {Row(t, ledger[t]) : t \in sent}
    OBVIOUS
  <2> HIDE DEF f
  <2>2. IsFiniteSet({f[t] : t \in DOMAIN f})
    BY <1>1, <2>1, ImagesAreFinite
  <2> QED
    BY <1>2, <2>1, <2>2
<1>4. \A r \in Rows : r.amount \in Int /\ r.date \in Int
  <2> TAKE r \in Rows
  <2>1. PICK t \in sent : r = Row(t, ledger[t])
    BY <1>2
  <2>2. r.amount = Tx[t].amount /\ r.date = Tx[t].date
    BY <2>1 DEF Row
  <2>3. t \in Transactions
    BY <1>1
  <2> QED
    BY <2>2, <2>3, TransactionsAssumption
<1>5. Earned \in [Rows -> Int]
  BY <1>4 DEF Earned
<1>6. Paid \in [Rows -> Int]
  <2>1. \A r \in Rows : -r.amount \in Int
    BY <1>4
  <2> QED
    BY <2>1 DEF Paid
<1> QED
  BY <1>3, <1>4, <1>5, <1>6

\* The total of rows, as a sum of integers.
LEMMA RowsTotal ==
  ASSUME NEW S \in SUBSET Rows
  PROVE  Total(S) = TotalOf(Part(Earned, S)) /\ Total(S) \in Int
PROOF
<1> DEFINE v     == Part(Earned, S)
           eq(g) == g = [u \in SUBSET S |->
                           IF u = {} THEN 0
                           ELSE (CHOOSE x \in u : TRUE).amount + g[u \ {CHOOSE x \in u : TRUE}]]
           G     == CHOOSE g : eq(g)
<1>1. Total(S) = G[S]
  BY DEF Total, SumOf, MapThenSumSet, MapThenFoldSet, Amount
<1>2. IsFiniteSet(S) /\ v \in [S -> Int] /\ DOMAIN v = S /\ TotalOf(v) \in Int
  BY RowsAreNumbers, PartIsTyped
<1>3. \A x \in S : v[x] = x.amount
  BY DEF Part, Earned
<1> HIDE DEF v
<1>4. \A u \in SUBSET S : u # {} => v[CHOOSE x \in u : TRUE] = (CHOOSE x \in u : TRUE).amount
  BY <1>3
<1>5. \A g : eq(g) <=> Folds(v, g)
  BY <1>2, <1>4 DEF Folds
<1> HIDE DEF eq
<1>6. Folds(v, G)
  BY <1>2, <1>5, FoldExists
<1> HIDE DEF G
<1>7. TotalOf(v) = G[S]
  BY <1>2, <1>6, FoldGivesTotal
<1> QED
  BY <1>1, <1>2, <1>7 DEF v

\* What was spent by rows, as a sum of integers.
LEMMA RowsSpent ==
  ASSUME NEW S \in SUBSET Rows
  PROVE  TotalSpent(S) = TotalOf(Part(Paid, S)) /\ TotalSpent(S) \in Int
PROOF
<1> DEFINE v     == Part(Paid, S)
           eq(g) == g = [u \in SUBSET S |->
                           IF u = {} THEN 0
                           ELSE -(CHOOSE x \in u : TRUE).amount
                                  + g[u \ {CHOOSE x \in u : TRUE}]]
           G     == CHOOSE g : eq(g)
<1>1. TotalSpent(S) = G[S]
  BY DEF TotalSpent, SumOf, MapThenSumSet, MapThenFoldSet, SpentIn
<1>2. IsFiniteSet(S) /\ v \in [S -> Int] /\ DOMAIN v = S /\ TotalOf(v) \in Int
  BY RowsAreNumbers, PartIsTyped
<1>3. \A x \in S : v[x] = -x.amount
  BY DEF Part, Paid
<1> HIDE DEF v
<1>4. \A u \in SUBSET S : u # {} => v[CHOOSE x \in u : TRUE] = -(CHOOSE x \in u : TRUE).amount
  BY <1>3
<1>5. \A g : eq(g) <=> Folds(v, g)
  BY <1>2, <1>4 DEF Folds
<1> HIDE DEF eq
<1>6. Folds(v, G)
  BY <1>2, <1>5, FoldExists
<1> HIDE DEF G
<1>7. TotalOf(v) = G[S]
  BY <1>2, <1>6, FoldGivesTotal
<1> QED
  BY <1>1, <1>2, <1>7 DEF v

\* What came in and was spent, added up by a key of the rows.
LEMMA EarnedByKey ==
  ASSUME NEW S \in SUBSET Rows, NEW K, IsFiniteSet(K), NEW key, \A r \in S : key[r] \in K,
         NEW w, w = [k \in K |-> w[k]], \A k \in K : w[k] = Total({r \in S : key[r] = k})
  PROVE  SumOver(w) = Total(S)
PROOF
<1>1. \A k : {r \in S : key[r] = k} \in SUBSET Rows
  OBVIOUS
<1>2. \A k \in K : w[k] = TotalOf(Part(Earned, {r \in S : key[r] = k})) /\ w[k] \in Int
  BY <1>1, RowsTotal
<1>3. w \in [K -> Int]
  BY <1>2
<1>4. SumOver(w) = TotalOf(Part(Earned, S))
  BY <1>2, <1>3, RowsAreNumbers, PartByKey
<1> QED
  BY <1>4, RowsTotal

\* The same of what was spent.
LEMMA PaidByKey ==
  ASSUME NEW S \in SUBSET Rows, NEW K, IsFiniteSet(K), NEW key, \A r \in S : key[r] \in K,
         NEW w, w = [k \in K |-> w[k]], \A k \in K : w[k] = TotalSpent({r \in S : key[r] = k})
  PROVE  SumOver(w) = TotalSpent(S)
PROOF
<1>1. \A k : {r \in S : key[r] = k} \in SUBSET Rows
  OBVIOUS
<1>2. \A k \in K : w[k] = TotalOf(Part(Paid, {r \in S : key[r] = k})) /\ w[k] \in Int
  BY <1>1, RowsSpent
<1>3. w \in [K -> Int]
  BY <1>2
<1>4. SumOver(w) = TotalOf(Part(Paid, S))
  BY <1>2, <1>3, RowsAreNumbers, PartByKey
<1> QED
  BY <1>4, RowsSpent

\* A sum over two parts.
LEMMA SumOverSplit ==
  ASSUME NEW K, IsFiniteSet(K), NEW w \in [K -> Int], NEW A \in SUBSET K,
         NEW u \in [A -> Int], \A k \in A : u[k] = w[k],
         NEW v \in [K \ A -> Int], \A k \in K \ A : v[k] = w[k]
  PROVE  SumOver(w) = SumOver(u) + SumOver(v)
PROOF
<1> DEFINE B == K \ A
<1>1. B \in SUBSET K /\ A \cap B = {} /\ A \cup B = K
  OBVIOUS
<1>2. u = Part(w, A) /\ v = Part(w, B)
  BY DEF Part
<1>3. Part(w, K) = w
  BY DEF Part
<1> HIDE DEF B
<1>4. \A S \in SUBSET K : SumOver(Part(w, S)) = TotalOf(Part(w, S))
  <2> TAKE S \in SUBSET K
  <2>1. Part(w, S) \in [S -> Int] /\ IsFiniteSet(S)
    BY PartIsTyped
  <2> QED
    BY <2>1, SumOverIsTotal
<1>5. TotalOf(Part(w, K)) = TotalOf(Part(w, A)) + TotalOf(Part(w, B))
  BY <1>1, TotalsJoin
<1>6. K \in SUBSET K
  OBVIOUS
<1> QED
  BY <1>1, <1>2, <1>3, <1>4, <1>5, <1>6

\* Rows that add nothing, and rows that add something.
LEMMA RowsWithoutZeros ==
  ASSUME NEW S \in SUBSET Rows
  PROVE  Total({r \in S : r.amount > 0}) = Total(Inflows(S))
PROOF
<1> DEFINE T == {r \in S : r.amount > 0}
           U == Inflows(S)
<1>1. T \in SUBSET U /\ U \in SUBSET Rows /\ T \in SUBSET Rows
  BY RowsAreNumbers DEF Inflows
<1>2. \A r \in U \ T : Earned[r] = 0
  BY RowsAreNumbers DEF Earned, Inflows
<1> HIDE DEF T, U
<1>3. TotalOf(Part(Earned, U)) = TotalOf(Part(Earned, T))
  BY <1>1, <1>2, RowsAreNumbers, TotalWithoutZeros
<1> QED
  BY <1>1, <1>3, RowsTotal DEF T, U

\* More rows with amounts that are not negative do not add less.
LEMMA RowsAddMore ==
  ASSUME NEW T \in SUBSET Rows, NEW S \in SUBSET T, \A r \in T : r.amount >= 0
  PROVE  Total(S) <= Total(T)
PROOF
<1> DEFINE R == T \ S
<1>1. R \in SUBSET Rows /\ S \in SUBSET Rows /\ S \cap R = {} /\ S \cup R = T
  OBVIOUS
<1>2. \A r \in R : r.amount >= 0 /\ r \in Rows
  OBVIOUS
<1> HIDE DEF R
<1>3. TotalOf(Part(Earned, T)) = TotalOf(Part(Earned, S)) + TotalOf(Part(Earned, R))
  BY <1>1, RowsAreNumbers, TotalsJoin
<1>4. TotalOf(Part(Earned, R)) >= 0
  <2>1. Part(Earned, R) \in [R -> Int] /\ IsFiniteSet(R)
    BY <1>1, RowsAreNumbers, PartIsTyped
  <2>2. \A r \in R : Part(Earned, R)[r] >= 0
    BY <1>2 DEF Part, Earned
  <2> QED
    BY <2>1, <2>2, TotalIsPositive
<1>5. /\ Total(S) = TotalOf(Part(Earned, S)) /\ Total(S) \in Int
      /\ Total(T) = TotalOf(Part(Earned, T)) /\ Total(T) \in Int
      /\ Total(R) = TotalOf(Part(Earned, R)) /\ Total(R) \in Int
  BY <1>1, RowsTotal
<1> QED
  BY <1>3, <1>4, <1>5

\* A rollup adds up to what was spent.
LEMMA RollupAddsUp ==
  ASSUME NEW S \in SUBSET Rows, NEW key
  PROVE  SumOver([k \in DOMAIN Rollup(S, key) |-> Rollup(S, key)[k].amount]) = TotalSpent(S)
PROOF
<1> DEFINE K == {key[r] : r \in S}
           p == [k \in K |-> TotalSpent({r \in S : key[r] = k})]
<1>1. IsFiniteSet(K)
  <2> DEFINE f == [r \in S |-> key[r]]
  <2>1. DOMAIN f = S /\ {f[r] : r \in DOMAIN f} = K
    OBVIOUS
  <2>2. IsFiniteSet(S)
    BY RowsAreNumbers, FS_Subset
  <2> HIDE DEF f
  <2>3. IsFiniteSet({f[r] : r \in DOMAIN f})
    BY <2>1, <2>2, ImagesAreFinite
  <2> QED
    BY <2>1, <2>3
<1>2. \A r \in S : key[r] \in K
  OBVIOUS
<1>3. [k \in DOMAIN Rollup(S, key) |-> Rollup(S, key)[k].amount] = p
  BY DEF Rollup
<1>4. SumOver(p) = TotalSpent(S)
  <2>1. p = [k \in K |-> p[k]] /\ \A k \in K : p[k] = TotalSpent({r \in S : key[r] = k})
    OBVIOUS
  <2> HIDE DEF K, p
  <2> QED
    BY <1>1, <1>2, <2>1, PaidByKey
<1> QED
  BY <1>3, <1>4

\* What was booked in a month of a range, whoever asks for it.
LEMMA BookedInAMonth ==
  ASSUME NEW from \in Months, NEW to \in Months, NEW m \in Months, from <= m, m <= to,
         NEW S, S = {r \in Booked(RowsFrom(from), from, to) : FirstOf(r.date) = m}
  PROVE  Booked(RowsFrom(m), m, m) = S /\ InMonth(Booked(RowsFrom(from), from, to), m) = S
PROOF
<1>1. \A r \in Rows : IsWithinMonthRange(r.date, m, m) <=> FirstOf(r.date) = m
  BY RowsAreNumbers, DatesOfAMonth
<1>2. \A r \in Rows : FirstOf(r.date) = m => IsWithinMonthRange(r.date, from, to)
  BY RowsAreNumbers, DatesOfARange
<1>3. \A r \in Rows : MonthOf(r.date) = MonthOf(m) <=> FirstOf(r.date) = m
  BY RowsAreNumbers, DatesOfAMonth
<1>4. \A r \in Rows : FirstOf(r.date) = m => r.date >= m
  BY <1>1, RowsAreNumbers, PlanMonths DEF IsWithinMonthRange
<1>5. \A r \in Rows : IsWithinMonthRange(r.date, from, to) => r.date >= from
  BY RowsAreNumbers, PlanMonths DEF IsWithinMonthRange
<1>6. Booked(RowsFrom(m), m, m) = {r \in Rows : ~r.deleted /\ ~r.transfer /\ FirstOf(r.date) = m}
  BY <1>1, <1>4 DEF Booked, RowsFrom
<1>7. Booked(RowsFrom(from), from, to)
        = {r \in Rows : ~r.deleted /\ ~r.transfer /\ IsWithinMonthRange(r.date, from, to)}
  BY <1>5 DEF Booked, RowsFrom
<1>8. Booked(RowsFrom(m), m, m)
        = {r \in Booked(RowsFrom(from), from, to) : FirstOf(r.date) = m}
  BY <1>2, <1>6, <1>7
<1>9. InMonth(Booked(RowsFrom(from), from, to), m)
        = {r \in Booked(RowsFrom(from), from, to) : FirstOf(r.date) = m}
  BY <1>3, <1>7 DEF InMonth
<1> QED
  BY <1>8, <1>9

\* The figures of a review are integers.
LEMMA ReviewsAreNumbers ==
  ASSUME NEW m
  PROVE  /\ ReviewFlow(RowsFrom(m), m).flow.inflow \in Int
         /\ ReviewFlow(RowsFrom(m), m).flow.outflow \in Int
PROOF
<1> DEFINE booked == Booked(RowsFrom(m), m, m)
           in     == {r \in booked : r.amount > 0}
<1>1. in \in SUBSET Rows /\ Outflows(booked) \in SUBSET Rows
  BY DEF Booked, RowsFrom, Outflows
<1>2. /\ ReviewFlow(RowsFrom(m), m).flow.inflow = Total(in)
      /\ ReviewFlow(RowsFrom(m), m).flow.outflow = TotalSpent(Outflows(booked))
  BY DEF ReviewFlow
<1> HIDE DEF in, booked
<1> QED
  BY <1>1, <1>2, RowsTotal, RowsSpent

\* What was booked in a range of months was booked in one of them.
LEMMA BookedInARange ==
  ASSUME NEW from \in Months, NEW to \in Months
  PROVE  \A r \in Booked(RowsFrom(from), from, to) :
           /\ r \in Rows
           /\ FirstOf(r.date) \in Months /\ from <= FirstOf(r.date) /\ FirstOf(r.date) <= to
PROOF
<1> TAKE r \in Booked(RowsFrom(from), from, to)
<1>1. r \in Rows /\ IsWithinMonthRange(r.date, from, to)
  BY DEF Booked, RowsFrom
<1>2. r.date \in Int
  BY <1>1, RowsAreNumbers
<1> QED
  BY <1>1, <1>2, DatesOfARange

\* The review of a month and the period of a range count the same.
LEMMA FlowsOfAMonth ==
  ASSUME NEW from \in Months, NEW to \in Months, NEW m \in Months, from <= m, m <= to
  PROVE  /\ ReviewFlow(RowsFrom(m), m).flow.inflow
              = Total({r \in Inflows(Booked(RowsFrom(from), from, to)) : FirstOf(r.date) = m})
         /\ ReviewFlow(RowsFrom(m), m).flow.outflow
              = TotalSpent({r \in Outflows(Booked(RowsFrom(from), from, to)) :
                              FirstOf(r.date) = m})
         /\ Flow(InMonth(Booked(RowsFrom(from), from, to), m))
              = [inflow  |-> ReviewFlow(RowsFrom(m), m).flow.inflow,
                 outflow |-> ReviewFlow(RowsFrom(m), m).flow.outflow]
PROOF
<1> DEFINE booked == Booked(RowsFrom(from), from, to)
           S      == InMonth(booked, m)
<1>1. Booked(RowsFrom(m), m, m) = S /\ S = {r \in booked : FirstOf(r.date) = m}
  <2> DEFINE M == {r \in Booked(RowsFrom(from), from, to) : FirstOf(r.date) = m}
  <2>1. M = {r \in Booked(RowsFrom(from), from, to) : FirstOf(r.date) = m}
    OBVIOUS
  <2> HIDE DEF M
  <2>2. Booked(RowsFrom(m), m, m) = M /\ InMonth(Booked(RowsFrom(from), from, to), m) = M
    BY <2>1, BookedInAMonth
  <2> QED
    BY <2>1, <2>2
<1>2. S \in SUBSET Rows
  BY DEF InMonth, Booked, RowsFrom
<1>3. /\ ReviewFlow(RowsFrom(m), m).flow.inflow
           = Total({r \in Booked(RowsFrom(m), m, m) : r.amount > 0})
      /\ ReviewFlow(RowsFrom(m), m).flow.outflow
           = TotalSpent(Outflows(Booked(RowsFrom(m), m, m)))
  BY DEF ReviewFlow
<1> HIDE DEF booked, S
<1>4. /\ Inflows(S) = {r \in Inflows(booked) : FirstOf(r.date) = m}
      /\ Outflows(S) = {r \in Outflows(booked) : FirstOf(r.date) = m}
  BY <1>1 DEF Inflows, Outflows
<1>5. Total({r \in S : r.amount > 0}) = Total(Inflows(S))
  BY <1>2, RowsWithoutZeros
<1>6. /\ ReviewFlow(RowsFrom(m), m).flow.inflow = Total(Inflows(S))
      /\ ReviewFlow(RowsFrom(m), m).flow.outflow = TotalSpent(Outflows(S))
  BY <1>1, <1>3, <1>5
<1>7. Flow(S) = [inflow |-> Total(Inflows(S)), outflow |-> TotalSpent(Outflows(S))]
  BY DEF Flow
<1> QED
  BY <1>4, <1>6, <1>7 DEF booked, S

\* The reviews of the months of a range add up to the range: what came in.
LEMMA InflowsOfARange ==
  ASSUME NEW from \in Months, NEW to \in Months,
         NEW range \in SUBSET Months, \A m \in Months : m \in range <=> from <= m /\ m <= to,
         NEW w \in [range -> Int], \A m \in range : w[m] = ReviewFlow(RowsFrom(m), m).flow.inflow
  PROVE  SumOver(w) = Total(Inflows(Booked(RowsFrom(from), from, to)))
PROOF
<1> DEFINE S   == Inflows(Booked(RowsFrom(from), from, to))
           key == [r \in S |-> FirstOf(r.date)]
<1>1. IsFiniteSet(range)
  BY PlanMonths, FS_Subset
<1>2. \A m \in range : w[m] = Total({r \in S : FirstOf(r.date) = m})
  BY FlowsOfAMonth
<1>3. S \in SUBSET Rows /\ \A r \in S : FirstOf(r.date) \in range
  BY BookedInARange DEF Inflows
<1> HIDE DEF S
<1>4. \A m \in range : w[m] = Total({r \in S : key[r] = m})
  <2> TAKE m \in range
  <2>1. {r \in S : key[r] = m} = {r \in S : FirstOf(r.date) = m}
    OBVIOUS
  <2> QED
    BY <1>2, <2>1
<1>5. \A r \in S : key[r] \in range
  BY <1>3
<1> HIDE DEF key
<1>6. w = [m \in range |-> w[m]]
  OBVIOUS
<1>7. SumOver(w) = Total(S)
  BY <1>1, <1>3, <1>4, <1>5, <1>6, EarnedByKey
<1> QED
  BY <1>7 DEF S

\* And what went out.
LEMMA OutflowsOfARange ==
  ASSUME NEW from \in Months, NEW to \in Months,
         NEW range \in SUBSET Months, \A m \in Months : m \in range <=> from <= m /\ m <= to,
         NEW w \in [range -> Int], \A m \in range : w[m] = ReviewFlow(RowsFrom(m), m).flow.outflow
  PROVE  SumOver(w) = TotalSpent(Outflows(Booked(RowsFrom(from), from, to)))
PROOF
<1> DEFINE S   == Outflows(Booked(RowsFrom(from), from, to))
           key == [r \in S |-> FirstOf(r.date)]
<1>1. IsFiniteSet(range)
  BY PlanMonths, FS_Subset
<1>2. \A m \in range : w[m] = TotalSpent({r \in S : FirstOf(r.date) = m})
  BY FlowsOfAMonth
<1>3. S \in SUBSET Rows /\ \A r \in S : FirstOf(r.date) \in range
  BY BookedInARange DEF Outflows
<1> HIDE DEF S
<1>4. \A m \in range : w[m] = TotalSpent({r \in S : key[r] = m})
  <2> TAKE m \in range
  <2>1. {r \in S : key[r] = m} = {r \in S : FirstOf(r.date) = m}
    OBVIOUS
  <2> QED
    BY <1>2, <2>1
<1>5. \A r \in S : key[r] \in range
  BY <1>3
<1> HIDE DEF key
<1>6. w = [m \in range |-> w[m]]
  OBVIOUS
<1>7. SumOver(w) = TotalSpent(S)
  BY <1>1, <1>3, <1>4, <1>5, <1>6, PaidByKey
<1> QED
  BY <1>7 DEF S

\* The income by month is over the months asked for, adds up, and is part of what came in.
LEMMA IncomeOfARange ==
  ASSUME NEW from \in Months, NEW to \in Months,
         NEW income, income = IncomeSummary(RowsFrom(from), from, to, ReadyToAssign)
  PROVE  /\ DOMAIN income.months = {m \in Months : from <= m /\ m <= to}
         /\ income.total = SumOver(income.months)
         /\ income.total <= Total(Inflows(Booked(RowsFrom(from), from, to)))
PROOF
<1> DEFINE booked == Booked(RowsFrom(from), from, to)
           got    == {r \in booked : r.amount > 0 /\ r.category = ReadyToAssign}
           range  == {m \in Months : from <= m /\ m <= to}
           keys   == ListMonthsInRange(from, to) \cup {MonthStart(MonthOf(r.date)) : r \in got}
           byKey  == [m \in keys |-> Total({r \in got : MonthStart(MonthOf(r.date)) = m})]
           key    == [r \in Rows |-> FirstOf(r.date)]
<1>1. booked \in SUBSET Rows
  BY DEF Booked, RowsFrom
<1>2. \A r \in booked : MonthStart(MonthOf(r.date)) \in range
  <2> TAKE r \in booked
  <2>1. r \in Rows /\ IsWithinMonthRange(r.date, from, to)
    BY <1>1 DEF Booked
  <2>2. r.date \in Int
    BY <2>1, RowsAreNumbers
  <2> QED
    BY <2>1, <2>2, DatesOfARange DEF FirstOf
<1>3. keys = range
  <2>1. ListMonthsInRange(from, to) = range
    BY RangesAreOfThePlan
  <2>2. {MonthStart(MonthOf(r.date)) : r \in got} \in SUBSET range
    BY <1>2
  <2> HIDE DEF range, got
  <2> QED
    BY <2>1, <2>2
<1>4. income.months = byKey /\ income.total = SumOver(byKey)
  <2>1. income.months = byKey /\ income.total = SumOf(LAMBDA m : byKey[m], keys)
    BY DEF IncomeSummary
  <2>2. DOMAIN byKey = keys
    OBVIOUS
  <2> HIDE DEF byKey, keys
  <2> QED
    BY <2>1, <2>2 DEF SumOver
<1>5. SumOver(byKey) = Total(got)
  <2>1. got \in SUBSET Rows /\ \A r \in got : key[r] \in range
    BY <1>1, <1>2 DEF FirstOf
  <2>2. IsFiniteSet(range)
    BY PlanMonths, FS_Subset
  <2>3. \A m : {r \in got : MonthStart(MonthOf(r.date)) = m} = {r \in got : key[r] = m}
    BY <2>1 DEF FirstOf
  <2>4. \A m \in keys : byKey[m] = Total({r \in got : key[r] = m})
    BY <2>3
  <2>5. byKey = [m \in keys |-> byKey[m]]
    OBVIOUS
  <2> HIDE DEF got, byKey, range, keys, key
  <2> QED
    BY <1>3, <2>1, <2>2, <2>4, <2>5, EarnedByKey
<1>6. Total(got) <= Total(Inflows(booked))
  <2>1. \A r \in booked : r.amount \in Int
    BY <1>1, RowsAreNumbers
  <2>2. got \in SUBSET Inflows(booked) /\ Inflows(booked) \in SUBSET Rows
    BY <1>1, <2>1 DEF Inflows
  <2>3. \A r \in Inflows(booked) : r.amount >= 0
    BY DEF Inflows
  <2> HIDE DEF got, booked
  <2> QED
    BY <2>2, <2>3, RowsAddMore
<1>7. DOMAIN income.months = range
  BY <1>3, <1>4
<1> QED
  BY <1>4, <1>5, <1>6, <1>7

\* TotalsAddUp of LedgerTools: cash flow, reviews, income and spending agree on every range.
LEMMA TotalsHold == TotalsAddUp
PROOF
<1> SUFFICES ASSUME NEW from \in Months, NEW to \in {m \in Months : m >= from}
             PROVE
      LET range    == {m \in Months : from <= m /\ m <= to}
          cash     == CashFlow(RowsFrom(from), SeenMonths, from, to)
          group    == [c \in {r.category : r \in Rows} |->
                         IF \E k \in Categories : k.id = c /\ ~k.deleted
                         THEN (CHOOSE k \in Categories : k.id = c).group ELSE None]
          spending == SpendingSummary(RowsFrom(from), SeenMonths, from, to, group)
          income   == IncomeSummary(RowsFrom(from), from, to, ReadyToAssign)
          inReview   == [m \in range |-> ReviewFlow(RowsFrom(m), m).flow.inflow]
          outReview  == [m \in range |-> ReviewFlow(RowsFrom(m), m).flow.outflow]
          listed     == DOMAIN cash.periods
          unlisted   == range \ listed
          amountIn(roll) == SumOver([k \in DOMAIN roll |-> roll[k].amount])
      IN /\ cash.total.inflow = SumOver(inReview)
         /\ cash.total.outflow = SumOver(outReview)
         /\ cash.total.outflow = SumOver([m \in listed |-> cash.periods[m].outflow])
                                   + SumOver([m \in unlisted |-> outReview[m]])
         /\ cash.total.inflow = SumOver([m \in listed |-> cash.periods[m].inflow])
                                  + SumOver([m \in unlisted |-> inReview[m]])
         /\ spending.spent = cash.total.outflow
         /\ {amountIn(spending.categories), amountIn(spending.groups),
             amountIn(spending.payees)} = {spending.spent}
         /\ DOMAIN income.months = range
         /\ income.total = SumOver(income.months) /\ income.total <= cash.total.inflow
  BY DEF TotalsAddUp
<1> DEFINE range    == {m \in Months : from <= m /\ m <= to}
           cash     == CashFlow(RowsFrom(from), SeenMonths, from, to)
           group    == [c \in {r.category : r \in Rows} |->
                          IF \E k \in Categories : k.id = c /\ ~k.deleted
                          THEN (CHOOSE k \in Categories : k.id = c).group ELSE None]
           spending == SpendingSummary(RowsFrom(from), SeenMonths, from, to, group)
           income   == IncomeSummary(RowsFrom(from), from, to, ReadyToAssign)
           in       == [m \in range |-> ReviewFlow(RowsFrom(m), m).flow.inflow]
           out      == [m \in range |-> ReviewFlow(RowsFrom(m), m).flow.outflow]
           listed   == DOMAIN cash.periods
           booked   == Booked(RowsFrom(from), from, to)
           spent    == Outflows(booked)
           inListed    == [m \in listed |-> cash.periods[m].inflow]
           outListed   == [m \in listed |-> cash.periods[m].outflow]
           inUnlisted  == [m \in range \ listed |-> in[m]]
           outUnlisted == [m \in range \ listed |-> out[m]]
           amountIn(roll) == SumOver([k \in DOMAIN roll |-> roll[k].amount])
<1>1. to \in Months
  OBVIOUS
<1>2. /\ SumOver(in) = Total(Inflows(booked)) /\ SumOver(out) = TotalSpent(spent)
      /\ in \in [range -> Int] /\ out \in [range -> Int]
      /\ \A m \in range : Flow(InMonth(booked, m)) = [inflow |-> in[m], outflow |-> out[m]]
  <2>1. range \in SUBSET Months /\ \A m \in Months : m \in range <=> from <= m /\ m <= to
    OBVIOUS
  <2>2. in \in [range -> Int] /\ out \in [range -> Int]
    BY ReviewsAreNumbers
  <2>3. \A m \in range : in[m] = ReviewFlow(RowsFrom(m), m).flow.inflow
    OBVIOUS
  <2>4. \A m \in range : out[m] = ReviewFlow(RowsFrom(m), m).flow.outflow
    OBVIOUS
  <2> HIDE DEF range, in, out
  <2>5. SumOver(in) = Total(Inflows(Booked(RowsFrom(from), from, to)))
    BY <1>1, <2>1, <2>2, <2>3, InflowsOfARange
  <2>6. SumOver(out) = TotalSpent(Outflows(Booked(RowsFrom(from), from, to)))
    BY <1>1, <2>1, <2>2, <2>4, OutflowsOfARange
  <2>7. \A m \in range :
          Flow(InMonth(Booked(RowsFrom(from), from, to), m))
            = [inflow |-> in[m], outflow |-> out[m]]
    <3> TAKE m \in range
    <3>1. m \in Months /\ from <= m /\ m <= to
      BY <2>1
    <3>2. Flow(InMonth(Booked(RowsFrom(from), from, to), m))
            = [inflow  |-> ReviewFlow(RowsFrom(m), m).flow.inflow,
               outflow |-> ReviewFlow(RowsFrom(m), m).flow.outflow]
      BY <1>1, <3>1, FlowsOfAMonth
    <3> QED
      BY <2>3, <2>4, <3>2
  <2> QED
    BY <2>2, <2>5, <2>6, <2>7
<1>3. cash.total.inflow = Total(Inflows(booked)) /\ cash.total.outflow = TotalSpent(spent)
  BY DEF CashFlow, Flow
<1>4. listed \in SUBSET range /\ \A m \in listed : cash.periods[m] = Flow(InMonth(booked, m))
  <2>1. /\ listed = {n.month : n \in MonthsBetweenThem(SeenMonths, from, to)}
        /\ \A m \in listed : cash.periods[m] = Flow(InMonth(booked, m))
    BY DEF CashFlow
  <2>2. \A n \in MonthsBetweenThem(SeenMonths, from, to) : n.month \in range
    <3>1. \A n \in SeenMonths : n.month \in Months
      BY DEF SeenMonths, MonthList, MonthEntry
    <3> QED
      BY <3>1 DEF MonthsBetweenThem
  <2> HIDE DEF range, listed, cash, booked
  <2> QED
    BY <2>1, <2>2
<1>5. IsFiniteSet(range)
  BY PlanMonths, FS_Subset
<1>6. SumOver(out) = SumOver(outListed) + SumOver(outUnlisted)
  <2>1. /\ \A m \in listed : outListed[m] = cash.periods[m].outflow
        /\ \A m \in range \ listed : outUnlisted[m] = out[m]
        /\ outListed = [m \in listed |-> outListed[m]]
        /\ outUnlisted = [m \in range \ listed |-> outUnlisted[m]]
    OBVIOUS
  <2> HIDE DEF range, listed, out, cash, booked, outListed, outUnlisted
  <2>2. \A m \in listed : outListed[m] = out[m]
    BY <1>2, <1>4, <2>1
  <2>3. out \in [range -> Int] /\ listed \in SUBSET range
    BY <1>2, <1>4
  <2>4. outListed \in [listed -> Int] /\ outUnlisted \in [range \ listed -> Int]
    BY <2>1, <2>2, <2>3
  <2>5. \A m \in range \ listed : outUnlisted[m] = out[m]
    BY <2>1
  <2> QED
    BY <1>5, <2>2, <2>3, <2>4, <2>5, SumOverSplit
<1>7. SumOver(in) = SumOver(inListed) + SumOver(inUnlisted)
  <2>1. /\ \A m \in listed : inListed[m] = cash.periods[m].inflow
        /\ \A m \in range \ listed : inUnlisted[m] = in[m]
        /\ inListed = [m \in listed |-> inListed[m]]
        /\ inUnlisted = [m \in range \ listed |-> inUnlisted[m]]
    OBVIOUS
  <2> HIDE DEF range, listed, in, cash, booked, inListed, inUnlisted
  <2>2. \A m \in listed : inListed[m] = in[m]
    BY <1>2, <1>4, <2>1
  <2>3. in \in [range -> Int] /\ listed \in SUBSET range
    BY <1>2, <1>4
  <2>4. inListed \in [listed -> Int] /\ inUnlisted \in [range \ listed -> Int]
    BY <2>1, <2>2, <2>3
  <2>5. \A m \in range \ listed : inUnlisted[m] = in[m]
    BY <2>1
  <2> QED
    BY <1>5, <2>2, <2>3, <2>4, <2>5, SumOverSplit
<1>8. spending.spent = TotalSpent(spent)
  BY DEF SpendingSummary
<1>9. /\ amountIn(spending.categories) = TotalSpent(spent)
      /\ amountIn(spending.groups) = TotalSpent(spent)
      /\ amountIn(spending.payees) = TotalSpent(spent)
  <2>1. /\ spending.categories = Rollup(spent, By(spent, "category"))
        /\ spending.groups = Rollup(spent, [r \in spent |-> group[r.category]])
        /\ spending.payees = Rollup(spent, By(spent, "payee"))
    BY DEF SpendingSummary
  <2>2. spent \in SUBSET Rows
    BY DEF Outflows, Booked, RowsFrom
  <2> HIDE DEF spent, spending
  <2>3. \A key : amountIn(Rollup(spent, key)) = TotalSpent(spent)
    BY <2>2, RollupAddsUp
  <2> HIDE DEF amountIn, group
  <2> QED
    BY <2>1, <2>3
<1>10. /\ DOMAIN income.months = range
       /\ income.total = SumOver(income.months)
       /\ income.total <= Total(Inflows(booked))
  <2> HIDE DEF income
  <2> QED
    BY <1>1, IncomeOfARange DEF income
<1> HIDE DEF cash, spending, income, in, out, range, booked, spent,
             inListed, outListed, inUnlisted, outUnlisted
<1>11. {amountIn(spending.categories), amountIn(spending.groups),
        amountIn(spending.payees)} = {spending.spent}
  <2> HIDE DEF amountIn
  <2> QED
    BY <1>8, <1>9
<1>12. /\ cash.total.inflow = SumOver(in)
       /\ cash.total.outflow = SumOver(out)
       /\ spending.spent = cash.total.outflow
       /\ income.total <= cash.total.inflow
  BY <1>2, <1>3, <1>8, <1>10
<1>13. /\ cash.total.outflow = SumOver(outListed) + SumOver(outUnlisted)
       /\ cash.total.inflow = SumOver(inListed) + SumOver(inUnlisted)
  BY <1>6, <1>7, <1>12
<1> QED
  BY <1>10, <1>11, <1>12, <1>13
    DEF cash, spending, income, in, out, range, inListed, outListed, inUnlisted, outUnlisted

\* What a row adds to what was spent in a period, and to the change between two.
PaidIn(q, a, b)   == [r \in Rows |-> IF q \in PeriodsOf(r, a, b) THEN -r.amount ELSE 0]
ChangeByRow(a, b) == [r \in Rows |-> PaidIn("b", a, b)[r] - PaidIn("a", a, b)[r]]

\* What was spent in a period, as a sum over all the rows.
LEMMA PeriodIsTotal ==
  ASSUME NEW q \in {"a", "b"}, NEW a, NEW b, NEW S \in SUBSET Rows
  PROVE  /\ SpentByPeriod(S, a, b)[q] = TotalOf(Part(PaidIn(q, a, b), S))
         /\ PaidIn(q, a, b) \in [Rows -> Int]
PROOF
<1> DEFINE T == {r \in S : q \in PeriodsOf(r, a, b)}
           v == PaidIn(q, a, b)
<1>1. v \in [Rows -> Int]
  BY RowsAreNumbers DEF PaidIn
<1>2. SpentByPeriod(S, a, b)[q] = TotalSpent(T)
  BY DEF SpentByPeriod
<1>3. T \in SUBSET Rows /\ T \in SUBSET S /\ \A r \in S \ T : v[r] = 0
  BY DEF PaidIn
<1>4. Part(v, T) = Part(Paid, T)
  BY DEF Part, PaidIn, Paid
<1> HIDE DEF T, v
<1>5. TotalSpent(T) = TotalOf(Part(v, T))
  BY <1>3, <1>4, RowsSpent
<1>6. TotalOf(Part(v, S)) = TotalOf(Part(v, T))
  BY <1>1, <1>3, RowsAreNumbers, TotalWithoutZeros
<1> QED
  BY <1>1, <1>2, <1>5, <1>6 DEF v

\* A change between two periods is the sum of what the rows add to it.
LEMMA ChangeIsTotal ==
  ASSUME NEW a, NEW b, NEW S \in SUBSET Rows
  PROVE  ChangeOf(SpentByPeriod(S, a, b)) = TotalOf(Part(ChangeByRow(a, b), S))
PROOF
<1> DEFINE x == PaidIn("b", a, b)
           z == PaidIn("a", a, b)
           v == ChangeByRow(a, b)
           y == [r \in S |-> 0]
<1>1. x \in [Rows -> Int] /\ z \in [Rows -> Int]
  BY PeriodIsTotal
<1>2. v \in [Rows -> Int] /\ \A r \in Rows : v[r] = x[r] - z[r]
  BY <1>1 DEF ChangeByRow
<1>3. y \in [S -> Int] /\ \A r \in S : y[r] = 0
  OBVIOUS
<1>4. /\ SpentByPeriod(S, a, b).b = TotalOf(Part(x, S))
      /\ SpentByPeriod(S, a, b).a = TotalOf(Part(z, S))
  BY PeriodIsTotal
<1> HIDE DEF v, x, y, z
<1>5. /\ Part(v, S) \in [S -> Int] /\ IsFiniteSet(S)
      /\ Part(x, S) \in [S -> Int] /\ TotalOf(Part(x, S)) \in Int
      /\ Part(z, S) \in [S -> Int] /\ TotalOf(Part(z, S)) \in Int
  BY <1>1, <1>2, RowsAreNumbers, PartIsTyped
<1>6. \A r \in S : Part(v, S)[r] = Part(x, S)[r] + y[r] - Part(z, S)[r]
  BY <1>1, <1>2, <1>3 DEF Part
<1>7. TotalOf(Part(v, S)) = TotalOf(Part(x, S)) + TotalOf(y) - TotalOf(Part(z, S))
  BY <1>3, <1>5, <1>6, TotalCombined
<1>8. TotalOf(y) = 0
  BY <1>3, <1>5, ZerosAreNothing
<1>9. TotalOf(Part(v, S)) = TotalOf(Part(x, S)) - TotalOf(Part(z, S))
  BY <1>5, <1>7, <1>8
<1> QED
  BY <1>4, <1>9 DEF v, ChangeOf

\* The changes by row are integers.
LEMMA ChangesAreNumbers ==
  ASSUME NEW a, NEW b
  PROVE  ChangeByRow(a, b) \in [Rows -> Int]
PROOF
<1>1. PaidIn("a", a, b) \in [Rows -> Int] /\ PaidIn("b", a, b) \in [Rows -> Int]
  BY PeriodIsTotal
<1> QED
  BY <1>1 DEF ChangeByRow

CountedIn(R, a, b) == {r \in RelevantSpending(R) : PeriodsOf(r, a, b) # {}}

\* The rows that count for a driver.
OfDriver(of, R, a, b, field, k) == of = {r \in CountedIn(R, a, b) : r[field] = k}

\* What is explained: the two periods of what counts.
LEMMA WhatIsExplained ==
  ASSUME NEW R \in SUBSET Rows, NEW a, NEW b, NEW field
  PROVE  ExplainChange(R, a, b, field).spent = SpentByPeriod(CountedIn(R, a, b), a, b)
BY DEF ExplainChange, CountedIn

\* What counts is among the rows.
LEMMA WhatCounts ==
  ASSUME NEW R \in SUBSET Rows, NEW a, NEW b
  PROVE  CountedIn(R, a, b) \in SUBSET Rows
BY DEF CountedIn, RelevantSpending

\* The drivers that are shown, and what is shown of them.
LEMMA DriverIsShown ==
  ASSUME NEW R \in SUBSET Rows, NEW a, NEW b, NEW field, NEW k,
         NEW of, OfDriver(of, R, a, b, field, k),
         NEW e, e = ExplainChange(R, a, b, field)
  PROVE  /\ k \in DOMAIN e.drivers
              <=> of # {} /\ SpentByPeriod(of, a, b).a # SpentByPeriod(of, a, b).b
         /\ k \in DOMAIN e.drivers => e.drivers[k] = SpentByPeriod(of, a, b)
PROOF
<1> DEFINE C       == CountedIn(R, a, b)
           drivers == [l \in {r[field] : r \in C} |-> SpentByPeriod({r \in C : r[field] = l}, a, b)]
           shown   == [l \in {j \in DOMAIN drivers : drivers[j].a # drivers[j].b} |-> drivers[l]]
<1>1. e = [spent |-> SpentByPeriod(C, a, b), drivers |-> shown]
  BY DEF ExplainChange, CountedIn
<1> HIDE DEF C
<1>2. of = {r \in C : r[field] = k}
  BY DEF C, OfDriver
<1>3. k \in DOMAIN drivers <=> of # {}
  BY <1>2
<1>4. k \in DOMAIN drivers => drivers[k] = SpentByPeriod(of, a, b)
  BY <1>2
<1> HIDE DEF drivers
<1>5. /\ k \in DOMAIN shown <=> k \in DOMAIN drivers /\ drivers[k].a # drivers[k].b
      /\ k \in DOMAIN shown => shown[k] = drivers[k]
  OBVIOUS
<1> HIDE DEF shown
<1>6. e.drivers = shown
  BY <1>1
<1> QED
  BY <1>3, <1>4, <1>5, <1>6

\* The changes of the drivers shown add up to the change explained.
LEMMA DriversExplain ==
  ASSUME NEW R \in SUBSET Rows, NEW a, NEW b, NEW field, NEW e,
         e = ExplainChange(R, a, b, field)
  PROVE  SumOver([k \in DOMAIN e.drivers |-> ChangeOf(e.drivers[k])]) = ChangeOf(e.spent)
PROOF
<1> DEFINE C     == CountedIn(R, a, b)
           v     == ChangeByRow(a, b)
           of(k) == {r \in C : r[field] = k}
           K     == {r[field] : r \in C}
           key   == [r \in C |-> r[field]]
           w     == [k \in K |-> ChangeOf(SpentByPeriod(of(k), a, b))]
           shown == DOMAIN e.drivers
           u     == [k \in shown |-> ChangeOf(e.drivers[k])]
<1>1. C \in SUBSET Rows /\ e.spent = SpentByPeriod(C, a, b)
  BY WhatCounts, WhatIsExplained
<1>2. \A k : /\ k \in shown <=> of(k) # {}
                                  /\ SpentByPeriod(of(k), a, b).a # SpentByPeriod(of(k), a, b).b
             /\ k \in shown => e.drivers[k] = SpentByPeriod(of(k), a, b)
  <2> TAKE k
  <2> DEFINE S == of(k)
  <2>1. OfDriver(S, R, a, b, field, k)
    BY DEF C, OfDriver
  <2> HIDE DEF S
  <2>2. /\ k \in DOMAIN e.drivers
             <=> S # {} /\ SpentByPeriod(S, a, b).a # SpentByPeriod(S, a, b).b
        /\ k \in DOMAIN e.drivers => e.drivers[k] = SpentByPeriod(S, a, b)
    BY <2>1, DriverIsShown
  <2> QED
    BY <2>2 DEF S
<1>3. \A k : of(k) # {} <=> k \in K
  OBVIOUS
<1> HIDE DEF C, v, shown
<1>4. \A k : of(k) \in SUBSET Rows
  BY <1>1
<1>5. v \in [Rows -> Int]
  BY ChangesAreNumbers DEF v
<1>6. \A k \in K : w[k] = TotalOf(Part(v, of(k)))
  BY <1>4, ChangeIsTotal DEF v
<1>7. \A k \in K : w[k] \in Int
  <2> TAKE k \in K
  <2>1. of(k) \in SUBSET Rows
    BY <1>4
  <2> HIDE DEF of, w, K
  <2>2. TotalOf(Part(v, of(k))) \in Int
    BY <1>5, <2>1, RowsAreNumbers, PartIsTyped
  <2> QED
    BY <1>6, <2>2
<1>8. w \in [K -> Int] /\ DOMAIN w = K
  BY <1>7
<1>9. IsFiniteSet(K)
  <2>1. DOMAIN key = C /\ {key[r] : r \in DOMAIN key} = K
    OBVIOUS
  <2>2. IsFiniteSet(C)
    BY <1>1, RowsAreNumbers, FS_Subset
  <2> HIDE DEF key, K
  <2> QED
    BY <2>1, <2>2, ImagesAreFinite
<1>10. \A r \in C : key[r] \in K
  OBVIOUS
<1>11. \A k \in K : w[k] = TotalOf(Part(v, {r \in C : key[r] = k}))
  <2> TAKE k \in K
  <2>1. {r \in C : key[r] = k} = of(k)
    OBVIOUS
  <2> QED
    BY <1>6, <2>1
<1>12. \A k \in shown : u[k] = w[k]
  <2> TAKE k \in shown
  <2>1. k \in K /\ e.drivers[k] = SpentByPeriod(of(k), a, b)
    BY <1>2, <1>3
  <2> QED
    BY <2>1
<1>13. \A k \in K \ shown : w[k] = 0
  <2> TAKE k \in K \ shown
  <2>1. SpentByPeriod(of(k), a, b).a = SpentByPeriod(of(k), a, b).b
    BY <1>2, <1>3
  <2>2. SpentByPeriod(of(k), a, b).a \in Int
    BY <1>4, RowsSpent DEF SpentByPeriod
  <2>3. w[k] = SpentByPeriod(of(k), a, b).b - SpentByPeriod(of(k), a, b).a
    BY DEF ChangeOf
  <2> QED
    BY <2>1, <2>2, <2>3
<1>14. shown \in SUBSET K
  BY <1>2, <1>3
<1>15. u = [k \in shown |-> u[k]]
  OBVIOUS
<1>16. ChangeOf(e.spent) = TotalOf(Part(v, C))
  BY <1>1, ChangeIsTotal DEF v
<1> HIDE DEF w, u, key, K, of
<1>17. TotalOf(w) = TotalOf(Part(v, C))
  <2>1. IsFiniteSet(Rows) /\ C \in SUBSET Rows /\ w \in [K -> Int]
    BY <1>1, <1>8, RowsAreNumbers
  <2> QED
    BY <1>5, <1>9, <1>10, <1>11, <2>1, PartByKey
<1>18. Part(w, K) = w /\ Part(w, shown) = u
  BY <1>8, <1>12, <1>14, <1>15 DEF Part
<1>19. TotalOf(w) = TotalOf(u)
  BY <1>8, <1>9, <1>13, <1>14, <1>18, TotalWithoutZeros
<1>20. SumOver(u) = TotalOf(u)
  BY <1>8, <1>9, <1>14, <1>18, PartIsTyped, SumOverIsTotal
<1>21. SumOver(u) = ChangeOf(e.spent)
  BY <1>16, <1>17, <1>19, <1>20
<1> QED
  BY <1>21 DEF u, shown

RowsOfDriver(Q, R, field, k) == Q = {r \in R : r[field] = k}

\* What the drivers say of one is what the tool for this one says.
LEMMA DriverAgrees ==
  ASSUME NEW R \in SUBSET Rows, NEW a, NEW b, NEW field, NEW other, NEW k,
         NEW Q, RowsOfDriver(Q, R, field, k),
         k \in DOMAIN ExplainChange(R, a, b, field).drivers
  PROVE  ExplainChange(R, a, b, field).drivers[k] = ExplainChange(Q, a, b, other).spent
PROOF
<1> DEFINE e  == ExplainChange(R, a, b, field)
           of == CountedIn(Q, a, b)
<1>1. Q \in SUBSET Rows
  BY DEF RowsOfDriver
<1>2. OfDriver(of, R, a, b, field, k)
  BY DEF OfDriver, RowsOfDriver, CountedIn, RelevantSpending
<1>3. ExplainChange(Q, a, b, other).spent = SpentByPeriod(of, a, b)
  BY <1>1, WhatIsExplained
<1>4. e = ExplainChange(R, a, b, field) /\ k \in DOMAIN e.drivers
  OBVIOUS
<1> HIDE DEF e, of
<1>5. e.drivers[k] = SpentByPeriod(of, a, b)
  BY <1>2, <1>4, DriverIsShown
<1> QED
  BY <1>3, <1>5 DEF e

\* And the tool for one that is not among the drivers explains no change.
LEMMA OthersDoNotChange ==
  ASSUME NEW R \in SUBSET Rows, NEW a, NEW b, NEW field, NEW other, NEW k,
         NEW Q, RowsOfDriver(Q, R, field, k),
         k \notin DOMAIN ExplainChange(R, a, b, field).drivers
  PROVE  ChangeOf(ExplainChange(Q, a, b, other).spent) = 0
PROOF
<1> DEFINE e  == ExplainChange(R, a, b, field)
           of == CountedIn(Q, a, b)
<1>1. Q \in SUBSET Rows /\ of \in SUBSET Rows
  BY WhatCounts DEF RowsOfDriver
<1>2. OfDriver(of, R, a, b, field, k)
  BY DEF OfDriver, RowsOfDriver, CountedIn, RelevantSpending
<1>3. ExplainChange(Q, a, b, other).spent = SpentByPeriod(of, a, b)
  BY <1>1, WhatIsExplained
<1>4. e = ExplainChange(R, a, b, field) /\ k \notin DOMAIN e.drivers
  OBVIOUS
<1> HIDE DEF e, of
<1>5. of = {} \/ SpentByPeriod(of, a, b).a = SpentByPeriod(of, a, b).b
  BY <1>2, <1>4, DriverIsShown
<1>6. /\ SpentByPeriod(of, a, b).a = TotalSpent({r \in of : "a" \in PeriodsOf(r, a, b)})
      /\ SpentByPeriod(of, a, b).b = TotalSpent({r \in of : "b" \in PeriodsOf(r, a, b)})
  BY DEF SpentByPeriod
<1>7. SpentByPeriod(of, a, b).a \in Int
  BY <1>1, <1>6, RowsSpent
<1>8. SpentByPeriod(of, a, b).a = SpentByPeriod(of, a, b).b
  <2>1. CASE of = {}
    <3>1. {r \in of : "a" \in PeriodsOf(r, a, b)} = {r \in of : "b" \in PeriodsOf(r, a, b)}
      BY <2>1
    <3> QED
      BY <1>6, <3>1
  <2> QED
    BY <1>5, <2>1
<1> QED
  BY <1>3, <1>7, <1>8 DEF ChangeOf

\* The periods are those of the spending summary.
LEMMA PeriodsAreSummaries ==
  ASSUME NEW R \in SUBSET Rows, NEW a, NEW b, NEW field, NEW months, NEW group
  PROVE  ExplainChange(R, a, b, field).spent
           = [a |-> SpendingSummary(R, months, a.from, a.to, group).spent,
              b |-> SpendingSummary(R, months, b.from, b.to, group).spent]
PROOF
<1> DEFINE C     == CountedIn(R, a, b)
           in(q) == {r \in C : q \in PeriodsOf(r, a, b)}
<1>1. ExplainChange(R, a, b, field).spent = SpentByPeriod(C, a, b)
  BY WhatIsExplained
<1>2. in("a") = Outflows(Booked(R, a.from, a.to))
  BY DEF CountedIn, RelevantSpending, PeriodsOf, Outflows, Booked
<1>3. in("b") = Outflows(Booked(R, b.from, b.to))
  BY DEF CountedIn, RelevantSpending, PeriodsOf, Outflows, Booked
<1>4. /\ SpendingSummary(R, months, a.from, a.to, group).spent = TotalSpent(in("a"))
      /\ SpendingSummary(R, months, b.from, b.to, group).spent = TotalSpent(in("b"))
  BY <1>2, <1>3 DEF SpendingSummary
<1>5. SpentByPeriod(C, a, b) = [q \in {"a", "b"} |-> TotalSpent(in(q))]
  BY DEF SpentByPeriod
<1> HIDE DEF in
<1>6. SpentByPeriod(C, a, b) = [a |-> TotalSpent(in("a")), b |-> TotalSpent(in("b"))]
  BY <1>5
<1> QED
  BY <1>1, <1>4, <1>6

\* ChangeIsExplained of LedgerTools: the drivers explain the change, in every tool alike.
LEMMA ChangeHolds == ChangeIsExplained
PROOF
<1> SUFFICES ASSUME NEW p \in Periods
             PROVE
      LET rows     == RowsFrom(Min({p.a.from, p.b.from}))
          change   == SpendingChange(rows, p.a, p.b)
          explained(e) ==
            SumOver([k \in DOMAIN e.drivers |-> ChangeOf(e.drivers[k])]) = ChangeOf(e.spent)
          agrees(e, k, one) ==
            /\ k \in DOMAIN e.drivers => e.drivers[k] = one.spent
            /\ k \notin DOMAIN e.drivers => ChangeOf(one.spent) = 0
            /\ explained(one)
          none     == [c \in {r.category : r \in Rows} |-> None]
      IN /\ explained(change.categories) /\ explained(change.payees)
         /\ \A c \in {r.category : r \in Rows} \ {None} :
              agrees(change.categories, c, CategoryChange(rows, p.a, p.b, c))
         /\ \A q \in {r.payee : r \in Rows} \ {None} :
              LET spike == PayeeSpike(rows, p.a, p.b, q)
              IN agrees(change.payees, q, spike.categories)
                   /\ agrees(change.payees, q, spike.accounts)
         /\ change.payees.spent =
              [a |-> SpendingSummary(rows, SeenMonths, p.a.from, p.a.to, none).spent,
               b |-> SpendingSummary(rows, SeenMonths, p.b.from, p.b.to, none).spent]
  BY DEF ChangeIsExplained
<1> DEFINE rows       == RowsFrom(Min({p.a.from, p.b.from}))
           change     == SpendingChange(rows, p.a, p.b)
           categories == ExplainChange(rows, p.a, p.b, "category")
           payees     == ExplainChange(rows, p.a, p.b, "payee")
           explained(e) ==
             SumOver([k \in DOMAIN e.drivers |-> ChangeOf(e.drivers[k])]) = ChangeOf(e.spent)
           agrees(e, k, one) ==
             /\ k \in DOMAIN e.drivers => e.drivers[k] = one.spent
             /\ k \notin DOMAIN e.drivers => ChangeOf(one.spent) = 0
             /\ explained(one)
           none == [c \in {r.category : r \in Rows} |-> None]
<1>1. rows \in SUBSET Rows
  BY DEF RowsFrom
<1>2. change.categories = categories /\ change.payees = payees
  BY DEF SpendingChange
<1> HIDE DEF rows, change, none
<1>3. explained(categories) /\ explained(payees)
  <2> HIDE DEF categories, payees
  <2>1. SumOver([k \in DOMAIN categories.drivers |-> ChangeOf(categories.drivers[k])])
          = ChangeOf(categories.spent)
    BY <1>1, DriversExplain DEF categories
  <2>2. SumOver([k \in DOMAIN payees.drivers |-> ChangeOf(payees.drivers[k])])
          = ChangeOf(payees.spent)
    BY <1>1, DriversExplain DEF payees
  <2> QED
    BY <2>1, <2>2
<1>4. ASSUME NEW k, NEW field \in {"category", "payee"}, NEW other,
             NEW Q, Q = {r \in rows : r[field] = k}
      PROVE  agrees(ExplainChange(rows, p.a, p.b, field), k, ExplainChange(Q, p.a, p.b, other))
  <2> DEFINE one == ExplainChange(Q, p.a, p.b, other)
  <2>1. RowsOfDriver(Q, rows, field, k) /\ Q \in SUBSET Rows
    BY <1>1, <1>4 DEF RowsOfDriver
  <2>2. k \in DOMAIN ExplainChange(rows, p.a, p.b, field).drivers
          => ExplainChange(rows, p.a, p.b, field).drivers[k]
               = ExplainChange(Q, p.a, p.b, other).spent
    BY <1>1, <2>1, DriverAgrees
  <2>3. k \notin DOMAIN ExplainChange(rows, p.a, p.b, field).drivers
          => ChangeOf(ExplainChange(Q, p.a, p.b, other).spent) = 0
    BY <1>1, <2>1, OthersDoNotChange
  <2>4. one = ExplainChange(Q, p.a, p.b, other)
    OBVIOUS
  <2> HIDE DEF one
  <2>5. SumOver([l \in DOMAIN one.drivers |-> ChangeOf(one.drivers[l])]) = ChangeOf(one.spent)
    BY <2>1, <2>4, DriversExplain
  <2> QED
    BY <2>2, <2>3, <2>4, <2>5
<1> HIDE DEF agrees, explained
<1>5. ASSUME NEW c
      PROVE  agrees(change.categories, c, CategoryChange(rows, p.a, p.b, c))
  <2>1. CategoryChange(rows, p.a, p.b, c)
          = ExplainChange({r \in rows : r["category"] = c}, p.a, p.b, "payee")
    BY DEF CategoryChange
  <2>2. agrees(categories, c, ExplainChange({r \in rows : r["category"] = c}, p.a, p.b, "payee"))
    BY <1>4
  <2> QED
    BY <1>2, <2>1, <2>2
<1>6. ASSUME NEW q
      PROVE  /\ agrees(change.payees, q, PayeeSpike(rows, p.a, p.b, q).categories)
             /\ agrees(change.payees, q, PayeeSpike(rows, p.a, p.b, q).accounts)
  <2>1. /\ PayeeSpike(rows, p.a, p.b, q).categories
             = ExplainChange({r \in rows : r["payee"] = q}, p.a, p.b, "category")
        /\ PayeeSpike(rows, p.a, p.b, q).accounts
             = ExplainChange({r \in rows : r["payee"] = q}, p.a, p.b, "account")
    BY DEF PayeeSpike
  <2>2. /\ agrees(payees, q, ExplainChange({r \in rows : r["payee"] = q}, p.a, p.b, "category"))
        /\ agrees(payees, q, ExplainChange({r \in rows : r["payee"] = q}, p.a, p.b, "account"))
    BY <1>4
  <2> QED
    BY <1>2, <2>1, <2>2
<1>7. change.payees.spent =
        [a |-> SpendingSummary(rows, SeenMonths, p.a.from, p.a.to, none).spent,
         b |-> SpendingSummary(rows, SeenMonths, p.b.from, p.b.to, none).spent]
  BY <1>1, <1>2, PeriodsAreSummaries
<1>8. explained(change.categories) /\ explained(change.payees)
  BY <1>2, <1>3
<1> HIDE DEF categories, payees
<1> QED
  BY <1>5, <1>6, <1>7, <1>8 DEF rows, change, none, agrees, explained

\* FlowsAddUp of LedgerTools holds in every state: the reports on the months of a range
\* add up to the report on the range, every breakdown to what it breaks down, and what
\* is explained of a change to the change.
THEOREM FlowsHold == Spec => []FlowsAddUp
PROOF
<1>1. FlowsAddUp
  BY TotalsHold, ChangeHolds DEF FlowsAddUp
<1> QED
  BY <1>1, PTL

-----------------------------------------------------------------------------
\* Figures: what is computed in several places.

\* The sums that figures are made of: what is owed, by accounts and by categories,
LEMMA DebtsSum ==
  ASSUME NEW S, IsFiniteSet(S), \A a \in S : a.balance \in Int
  PROVE  /\ SumOf(Debt, S) = TotalOf([a \in S |-> -a.balance])
         /\ SumOf(OverspentBy, S) = TotalOf([a \in S |-> -a.balance])
PROOF
<1> DEFINE v     == [r \in S |-> -r.balance]
           eq(g) == g = [u \in SUBSET S |->
                           IF u = {} THEN 0
                           ELSE -(CHOOSE x \in u : TRUE).balance + g[u \ {CHOOSE x \in u : TRUE}]]
           G     == CHOOSE g : eq(g)
<1>1. SumOf(Debt, S) = G[S] /\ SumOf(OverspentBy, S) = G[S]
  BY DEF SumOf, MapThenSumSet, MapThenFoldSet, Debt, OverspentBy
<1>2. v \in [S -> Int] /\ DOMAIN v = S
  OBVIOUS
<1>3. \A x \in S : v[x] = -x.balance
  OBVIOUS
<1> HIDE DEF v
<1>4. \A u \in SUBSET S : u # {} => v[CHOOSE x \in u : TRUE] = -(CHOOSE x \in u : TRUE).balance
  BY <1>3
<1>5. \A g : eq(g) <=> Folds(v, g)
  <2> TAKE g
  <2> DEFINE other == [u \in SUBSET S |->
                         IF u = {} THEN 0
                         ELSE v[CHOOSE x \in u : TRUE] + g[u \ {CHOOSE x \in u : TRUE}]]
             same  == [u \in SUBSET S |->
                         IF u = {} THEN 0
                         ELSE -(CHOOSE x \in u : TRUE).balance + g[u \ {CHOOSE x \in u : TRUE}]]
  <2>1. same = other
    BY <1>4
  <2>2. Folds(v, g) <=> g = other
    BY <1>2 DEF Folds
  <2>3. eq(g) <=> g = same
    OBVIOUS
  <2> QED
    BY <2>1, <2>2, <2>3
<1> HIDE DEF eq
<1>6. Folds(v, G)
  BY <1>2, <1>5, FoldExists
<1> HIDE DEF G
<1>7. TotalOf(v) = G[S]
  BY <1>2, <1>6, FoldGivesTotal
<1> QED
  BY <1>1, <1>7 DEF v

\* what is booked in the categories of a month,
LEMMA ActivityIsInt ==
  ASSUME NEW live \in SUBSET Transactions, NEW category, NEW month
  PROVE  Activity(live, category, month) \in Int
PROOF
<1> DEFINE S == {t \in live : Tx[t].category = category /\ MonthOf(Tx[t].date) = MonthOf(month)}
<1>1. S \in SUBSET Transactions /\ Activity(live, category, month) = SumOf(TxAmount, S)
  BY DEF Activity
<1> HIDE DEF S
<1> QED
  BY <1>1, TransactionsSum

LEMMA ActivitiesSum ==
  ASSUME NEW live \in SUBSET Transactions, NEW month
  PROVE  Detail(live, month).activity \in Int
PROOF
<1> DEFINE v     == [c \in Categories |-> Activity(live, c.id, month)]
           eq(g) == g = [u \in SUBSET Categories |->
                           IF u = {} THEN 0
                           ELSE Activity(live, (CHOOSE x \in u : TRUE).id, month)
                                  + g[u \ {CHOOSE x \in u : TRUE}]]
           G     == CHOOSE g : eq(g)
<1>1. Detail(live, month).activity = G[Categories]
  <2>1. Detail(live, month).activity
          = SumOf(LAMBDA c : Activity(live, c.id, month), Categories)
    BY DEF Detail
  <2> QED
    BY <2>1 DEF SumOf, MapThenSumSet, MapThenFoldSet
<1>2. v \in [Categories -> Int] /\ DOMAIN v = Categories
  BY ActivityIsInt
<1>3. \A x \in Categories : v[x] = Activity(live, x.id, month)
  OBVIOUS
<1> HIDE DEF v
<1>4. \A u \in SUBSET Categories : u # {} =>
        v[CHOOSE x \in u : TRUE] = Activity(live, (CHOOSE x \in u : TRUE).id, month)
  BY <1>3
<1>5. \A g : eq(g) <=> Folds(v, g)
  BY <1>2, <1>4 DEF Folds
<1> HIDE DEF eq
<1>6. Folds(v, G)
  BY <1>2, <1>5, FoldExists, ListsAssumption
<1> HIDE DEF G
<1>7. TotalOf(v) = G[Categories]
  BY <1>2, <1>6, FoldGivesTotal, ListsAssumption
<1>8. TotalOf(v) \in Int
  BY <1>2, TotalIsInt, ListsAssumption
<1> QED
  BY <1>1, <1>7, <1>8

\* what was spent in months,
LEMMA SpendingSum ==
  ASSUME NEW S, IsFiniteSet(S), \A m \in S : m.activity \in Int
  PROVE  AverageMonthlySpending(S) \in Int
PROOF
<1> DEFINE v     == [m \in S |-> Magnitude(m.activity)]
           eq(g) == g = [u \in SUBSET S |->
                           IF u = {} THEN 0
                           ELSE Magnitude((CHOOSE x \in u : TRUE).activity)
                                  + g[u \ {CHOOSE x \in u : TRUE}]]
           G     == CHOOSE g : eq(g)
<1>1. AverageMonthlySpending(S) = IF S = {} THEN 0 ELSE Round(G[S], Cardinality(S))
  BY DEF AverageMonthlySpending, SumOf, MapThenSumSet, MapThenFoldSet
<1>2. v \in [S -> Int] /\ DOMAIN v = S
  BY DEF Magnitude
<1>3. \A x \in S : v[x] = Magnitude(x.activity)
  OBVIOUS
<1> HIDE DEF v
<1>4. \A u \in SUBSET S : u # {} =>
        v[CHOOSE x \in u : TRUE] = Magnitude((CHOOSE x \in u : TRUE).activity)
  BY <1>3
<1>5. \A g : eq(g) <=> Folds(v, g)
  BY <1>2, <1>4 DEF Folds
<1> HIDE DEF eq
<1>6. Folds(v, G)
  BY <1>2, <1>5, FoldExists
<1> HIDE DEF G
<1>7. TotalOf(v) = G[S] /\ TotalOf(v) \in Int
  BY <1>2, <1>6, FoldGivesTotal, TotalIsInt
<1>8. CASE S # {}
  <2>1. Cardinality(S) \in Nat /\ Cardinality(S) # 0
    BY <1>8, FS_CardinalityType, FS_EmptySet
  <2>2. 2 * TotalOf(v) + Cardinality(S) \in Int /\ 2 * Cardinality(S) \in Nat
          /\ 2 * Cardinality(S) > 0
    BY <1>7, <2>1
  <2>3. Round(TotalOf(v), Cardinality(S)) \in Int
    BY <2>2 DEF Round
  <2> QED
    BY <1>1, <1>7, <1>8, <2>3
<1> QED
  BY <1>1, <1>8

\* and the penalties of a health check.
LEMMA PenaltiesSum ==
  ASSUME NEW S \in SUBSET DOMAIN Penalties, NEW code \in S
  PROVE  LET penalty(k) == Penalties[k] IN SumOf(penalty, S) \in Int /\ SumOf(penalty, S) > 0
PROOF
<1> DEFINE penalty(k) == Penalties[k]
           v     == [k \in S |-> Penalties[k]]
           eq(g) == g = [u \in SUBSET S |->
                           IF u = {} THEN 0
                           ELSE Penalties[CHOOSE x \in u : TRUE] + g[u \ {CHOOSE x \in u : TRUE}]]
           G     == CHOOSE g : eq(g)
<1>1. SumOf(penalty, S) = G[S]
  BY DEF SumOf, MapThenSumSet, MapThenFoldSet
<1>2. \A k \in DOMAIN Penalties : Penalties[k] \in Int /\ Penalties[k] > 0
  BY DEF Penalties
<1>3. IsFiniteSet(S)
  <2> DEFINE some == {"cash_shortfall", "negative_ready_to_assign", "overspent_categories"}
             more == {"goal_underfunding", "cleanup_backlog", "low_age_of_money"}
  <2>1. S \in SUBSET ((some \cup more) \cup {"income_volatility"})
    BY DEF Penalties
  <2>2. \A x, y, z : IsFiniteSet({x, y, z})
    <3> TAKE x, y, z
    <3>1. IsFiniteSet({x}) /\ IsFiniteSet({y}) /\ IsFiniteSet({z})
      BY FS_Singleton
    <3>2. IsFiniteSet({x} \cup {y})
      BY <3>1, FS_Union
    <3>3. IsFiniteSet(({x} \cup {y}) \cup {z})
      BY <3>1, <3>2, FS_Union
    <3>4. {x, y, z} = ({x} \cup {y}) \cup {z}
      OBVIOUS
    <3> QED
      BY <3>3, <3>4
  <2>3. IsFiniteSet(some) /\ IsFiniteSet(more) /\ IsFiniteSet({"income_volatility"})
    BY <2>2, FS_Singleton
  <2> HIDE DEF some, more
  <2>4. IsFiniteSet(some \cup more)
    BY <2>3, FS_Union
  <2>5. IsFiniteSet((some \cup more) \cup {"income_volatility"})
    BY <2>3, <2>4, FS_Union
  <2> QED
    BY <2>1, <2>5, FS_Subset
<1>4. v \in [S -> Int] /\ DOMAIN v = S
  BY <1>2
<1>5. \A x \in S : v[x] = Penalties[x] /\ v[x] > 0
  BY <1>2
<1> HIDE DEF v
<1>6. \A u \in SUBSET S : u # {} => v[CHOOSE x \in u : TRUE] = Penalties[CHOOSE x \in u : TRUE]
  BY <1>5
<1>7. \A g : eq(g) <=> Folds(v, g)
  BY <1>4, <1>6 DEF Folds
<1> HIDE DEF eq
<1>8. Folds(v, G)
  BY <1>3, <1>4, <1>7, FoldExists
<1> HIDE DEF G
<1>9. TotalOf(v) = G[S] /\ TotalOf(v) \in Int
  BY <1>3, <1>4, <1>8, FoldGivesTotal, TotalIsInt
<1>10. TotalOf(v) > 0
  <2> DEFINE rest == S \ {code}
  <2>1. {code} \in SUBSET S /\ rest \in SUBSET S /\ {code} \cap rest = {} /\ {code} \cup rest = S
    OBVIOUS
  <2>2. Part(v, rest) \in [rest -> Int] /\ IsFiniteSet(rest) /\ TotalOf(Part(v, rest)) \in Int
    BY <1>3, <1>4, <2>1, PartIsTyped
  <2>3. \A k \in rest : Part(v, rest)[k] >= 0
    BY <1>4, <1>5 DEF Part
  <2> HIDE DEF rest
  <2>4. TotalOf(Part(v, rest)) >= 0
    BY <2>2, <2>3, TotalIsPositive
  <2>5. TotalOf(Part(v, {code})) = v[code]
    BY <1>3, <1>4, TotalOfOne
  <2>6. TotalOf(Part(v, {code} \cup rest)) = TotalOf(Part(v, {code})) + TotalOf(Part(v, rest))
    BY <1>3, <1>4, <2>1, TotalsJoin
  <2>7. Part(v, S) = v
    BY <1>4 DEF Part
  <2>8. v[code] > 0 /\ v[code] \in Int
    BY <1>4, <1>5
  <2> QED
    BY <2>1, <2>2, <2>4, <2>5, <2>6, <2>7, <2>8
<1> QED
  BY <1>1, <1>9, <1>10

\* What is seen of accounts and months.
LEMMA AccountsSeen ==
  ASSUME opening \in Openings, OrLive(seen.accounts) \in SUBSET Transactions
  PROVE  IsFiniteSet(SeenAccounts) /\ \A a \in SeenAccounts : a.balance \in Int
PROOF
<1> DEFINE read == OrLive(seen.accounts)
           f    == [a \in Accounts |-> AccountOf(a, read)]
<1>1. SeenAccounts = {AccountOf(a, read) : a \in Accounts}
  BY DEF SeenAccounts, AccountsAt, AccountOf, OfAccount
<1>2. DOMAIN f = Accounts /\ {f[a] : a \in DOMAIN f} = {AccountOf(a, read) : a \in Accounts}
  OBVIOUS
<1>3. \A a \in Accounts : AccountOf(a, read).balance \in Int
  <2> TAKE a \in Accounts
  <2>1. OfAccount(read, a) \in SUBSET Transactions
    BY DEF OfAccount
  <2>2. SumOf(TxAmount, OfAccount(read, a)) \in Int
    BY <2>1, TransactionsSum
  <2>3. opening[a.id] \in Int
    BY StartAssumption
  <2>4. AccountOf(a, read).balance = opening[a.id] + SumOf(TxAmount, OfAccount(read, a))
    BY DEF AccountOf
  <2> QED
    BY <2>2, <2>3, <2>4
<1> HIDE DEF f, read
<1>4. IsFiniteSet({f[a] : a \in DOMAIN f})
  BY <1>2, ListsAssumption, ImagesAreFinite
<1> QED
  BY <1>1, <1>2, <1>3, <1>4

LEMMA MonthsSeen ==
  ASSUME OrLive(seen.list) \in SUBSET Transactions
  PROVE  IsFiniteSet(SeenMonths) /\ \A m \in SeenMonths : m.activity \in Int
PROOF
<1> DEFINE live  == OrLive(seen.list)
           known == {n \in Months : \E t \in live : Tx[t].date >= n}
           f     == [m \in known |-> MonthEntry(live, m)]
<1>1. SeenMonths = {MonthEntry(live, m) : m \in known}
  BY DEF SeenMonths, MonthList
<1>2. DOMAIN f = known /\ {f[m] : m \in DOMAIN f} = {MonthEntry(live, m) : m \in known}
  OBVIOUS
<1>3. IsFiniteSet(known)
  BY ListsAssumption, FS_Subset
<1>4. \A m : MonthEntry(live, m).activity = Detail(live, m).activity
  BY DEF MonthEntry
<1>5. \A m : MonthEntry(live, m).activity \in Int
  BY <1>4, ActivitiesSum
<1> HIDE DEF f, known, live
<1>6. IsFiniteSet({f[m] : m \in DOMAIN f})
  BY <1>2, <1>3, ImagesAreFinite
<1> QED
  BY <1>1, <1>2, <1>5, <1>6

\* Cash is what is there, and debt what is owed.
LEMMA CashAndDebt ==
  ASSUME NEW S, IsFiniteSet(S), \A a \in S : a.balance \in Int
  PROVE  /\ SumOf(Balance, Liquid(S)) \in Int /\ SumOf(Balance, Liquid(S)) >= 0
         /\ SumOf(Debt, Negative(S)) \in Int
PROOF
<1> DEFINE cash  == Liquid(S)
           owing == Negative(S)
           v     == [a \in cash |-> a.balance]
           w     == [a \in owing |-> -a.balance]
<1>1. IsFiniteSet(cash) /\ \A a \in cash : a.balance \in Int /\ a.balance >= 0
  BY FS_Subset DEF Liquid
<1>2. IsFiniteSet(owing) /\ \A a \in owing : a.balance \in Int
  BY FS_Subset DEF Negative
<1>3. v \in [cash -> Int] /\ \A a \in cash : v[a] >= 0
  BY <1>1
<1>4. w \in [owing -> Int]
  BY <1>2
<1> HIDE DEF cash, owing
<1>5. SumOf(Balance, cash) = TotalOf(v)
  BY <1>1, BalancesSum
<1>6. SumOf(Debt, owing) = TotalOf(w)
  BY <1>2, DebtsSum
<1> HIDE DEF v, w
<1>7. TotalOf(v) \in Int /\ TotalOf(v) >= 0 /\ TotalOf(w) \in Int
  BY <1>1, <1>2, <1>3, <1>4, TotalIsInt, TotalIsPositive
<1> QED
  BY <1>5, <1>6, <1>7 DEF cash, owing

\* The share of a day is the nearest whole number.
LEMMA RoundedShare ==
  ASSUME NEW monthly \in Int
  PROVE  /\ Round(monthly, 30) \in Int
         /\ 60 * Round(monthly, 30) <= 2 * monthly + 30
         /\ 2 * monthly + 30 < 60 * Round(monthly, 30) + 60
BY DEF Round

\* StatusesAgree of LedgerTools: unless the share of a day is nothing, a month spends at
\* least fifteen, and thirty times the share is at most fifteen more than it spends.
LEMMA StatusesHold ==
  ASSUME opening \in Openings, OrLive(seen.accounts) \in SUBSET Transactions,
         OrLive(seen.list) \in SUBSET Transactions
  PROVE  StatusesAgree
PROOF
<1> SUFFICES ASSUME NEW asOf \in Months, NEW monthsBack \in {1, 3}
             PROVE
      LET runway   == CashRunway(SeenAccounts, SeenMonths, asOf, monthsBack)
          coverage == EmergencyFundCoverage(SeenAccounts, SeenMonths, asOf, monthsBack)
      IN /\ coverage = "strong" => runway \in {"stable", "no_outflows"}
         /\ coverage = "solid" => runway # "urgent"
         /\ coverage = "no_spending" => runway = "no_outflows"
         /\ runway = "urgent" => coverage \in {"thin", "critical"}
  BY DEF StatusesAgree
<1> DEFINE recent   == RecentMonths(SeenMonths, asOf, monthsBack)
           cash     == LiquidCash(SeenAccounts)
           monthly  == AverageMonthlySpending(recent)
           daily    == AverageDailyOutflow(recent)
           runway   == CashRunway(SeenAccounts, SeenMonths, asOf, monthsBack)
           coverage == EmergencyFundCoverage(SeenAccounts, SeenMonths, asOf, monthsBack)
<1>1. cash \in Int /\ cash >= 0
  <2>1. IsFiniteSet(Active(SeenAccounts)) /\ \A a \in Active(SeenAccounts) : a.balance \in Int
    BY AccountsSeen, FS_Subset DEF Active
  <2> QED
    BY <2>1, CashAndDebt DEF LiquidCash
<1>2. monthly \in Int
  <2>1. recent \in SUBSET SeenMonths
    BY DEF RecentMonths
  <2>2. IsFiniteSet(recent) /\ \A m \in recent : m.activity \in Int
    BY <2>1, MonthsSeen, FS_Subset
  <2> HIDE DEF recent
  <2> QED
    BY <2>2, SpendingSum
<1>3. /\ daily \in Int /\ 60 * daily <= 2 * monthly + 30
      /\ 2 * monthly + 30 < 60 * daily + 60
  BY <1>2, RoundedShare DEF AverageDailyOutflow
<1>4. runway = CASE daily = 0 -> "no_outflows"
                 [] daily # 0 /\ cash >= 90 * daily -> "stable"
                 [] cash < 90 * daily /\ cash >= 30 * daily -> "watch"
                 [] cash < 30 * daily -> "urgent"
  BY DEF CashRunway
<1>5. coverage = CASE monthly = 0 -> "no_spending"
                   [] monthly # 0 /\ cash >= 6 * monthly -> "strong"
                   [] cash < 6 * monthly /\ cash >= 3 * monthly -> "solid"
                   [] cash < 3 * monthly /\ cash >= monthly -> "thin"
                   [] cash < monthly -> "critical"
  BY DEF EmergencyFundCoverage
<1> HIDE DEF recent, cash, monthly, daily, runway, coverage
<1>6. CASE monthly = 0
  <2>1. daily = 0
    BY <1>3, <1>6
  <2>2. runway = "no_outflows"
    BY <1>1, <1>4, <2>1
  <2>3. coverage = "no_spending"
    BY <1>1, <1>5, <1>6
  <2> QED
    BY <2>2, <2>3 DEF runway, coverage
<1>7. CASE monthly # 0
  <2>1. runway = IF daily = 0 THEN "no_outflows"
                 ELSE IF cash >= 90 * daily THEN "stable"
                 ELSE IF cash >= 30 * daily THEN "watch" ELSE "urgent"
    BY <1>1, <1>3, <1>4
  <2>2. coverage = IF cash >= 6 * monthly THEN "strong"
                   ELSE IF cash >= 3 * monthly THEN "solid"
                   ELSE IF cash >= monthly THEN "thin" ELSE "critical"
    BY <1>1, <1>2, <1>5, <1>7
  <2>3. coverage = "strong" => runway \in {"stable", "no_outflows"}
    BY <1>1, <1>2, <1>3, <2>1, <2>2
  <2>4. coverage = "solid" => runway # "urgent"
    BY <1>1, <1>2, <1>3, <2>1, <2>2
  <2>5. runway = "urgent" => coverage \in {"thin", "critical"}
    BY <1>1, <1>2, <1>3, <2>1, <2>2
  <2>6. coverage # "no_spending"
    BY <2>2
  <2> QED
    BY <2>3, <2>4, <2>5, <2>6 DEF runway, coverage
<1> QED
  BY <1>6, <1>7

\* Figures of accounts do not depend on those that are empty.
LEMMA EmptyAccountsAreNothing ==
  ASSUME NEW S, IsFiniteSet(S), \A a \in S : a.balance \in Int,
         NEW T \in SUBSET S, \A a \in S \ T : a.balance = 0
  PROVE  /\ SumOf(Balance, S) = SumOf(Balance, T)
         /\ Liquid(S) = Liquid(T) /\ Negative(S) = Negative(T)
PROOF
<1> DEFINE v == [a \in S |-> a.balance]
<1>1. IsFiniteSet(T) /\ \A a \in T : a.balance \in Int
  BY FS_Subset
<1>2. v \in [S -> Int] /\ \A a \in S \ T : v[a] = 0
  OBVIOUS
<1>3. Part(v, S) = v /\ Part(v, T) = [a \in T |-> a.balance]
  BY DEF Part
<1>4. SumOf(Balance, S) = TotalOf(v)
  BY BalancesSum
<1>5. SumOf(Balance, T) = TotalOf([a \in T |-> a.balance])
  BY <1>1, BalancesSum
<1> HIDE DEF v
<1>6. S \in SUBSET S
  OBVIOUS
<1>7. TotalOf(Part(v, S)) = TotalOf(Part(v, T))
  BY <1>2, <1>6, TotalWithoutZeros
<1>8. Liquid(S) = Liquid(T)
  BY DEF Liquid
<1>9. Negative(S) = Negative(T)
  BY DEF Negative
<1> QED
  BY <1>3, <1>4, <1>5, <1>7, <1>8, <1>9

\* At the end of the last month the balances are those of today.
LEMMA TheEndIsNow ==
  ASSUME opening \in Openings, ledger \in [Transactions -> Statuses],
         OrLive(seen.accounts) \in SUBSET Transactions
  PROVE  LET end  == Trajectory(SeenAccounts, RowsFrom(LastMonth), LastMonth, LastMonth)[LastMonth]
             then == NotDeleted(SeenAccounts)
         IN end = [netWorth   |-> SumOf(Balance, then),
                   liquidCash |-> SumOf(Balance, Liquid(then)),
                   debt       |-> SumOf(Debt, Negative(then))]
PROOF
<1> DEFINE then == NotDeleted(SeenAccounts)
           rows == {r \in RowsFrom(LastMonth) : r.date >= LastMonth}
<1>1. LastMonth \in Int /\ LastMonth \in Months
  BY ListsAssumption, PlanAssumption, GreatestIsThere DEF LastMonth
<1>2. LastMonth \in ListMonthsInRange(LastMonth, LastMonth)
  BY <1>1, RangesAreOfThePlan
<1>3. AfterMonthEnd(rows, LastMonth) = {}
  <2> SUFFICES ASSUME NEW r \in Rows, r.date > MonthEnd(LastMonth)
               PROVE  FALSE
    BY DEF AfterMonthEnd, RowsFrom
  <2>1. PICK t \in Transactions : r = Row(t, ledger[t])
    BY DEF Rows, RowsOf, Transactions
  <2>2. r.date = Tx[t].date /\ Tx[t].date <= MonthEnd(LastMonth)
    BY <2>1, PlanAssumption DEF Row, LastMonth
  <2>3. r.date \in Int
    BY RowsAreNumbers
  <2>4. MonthEnd(LastMonth) \in Int
    <3>1. MonthOf(LastMonth) \in Int
      BY <1>1, MonthsAreIntegers
    <3>2. MonthOf(LastMonth) + 1 \in Int
      BY <3>1
    <3>3. MonthStart(MonthOf(LastMonth) + 1) \in Int
      BY <3>2, MonthsAreIntegers
    <3> QED
      BY <3>3 DEF MonthEnd
  <2> QED
    BY <2>2, <2>3, <2>4
<1>4. SumOf(LAMBDA r : r.amount, {}) = 0
  <2>1. IsFiniteSet({})
    BY FS_EmptySet
  <2>2. SumOf(LAMBDA r : r.amount, {}) = TotalOf([r \in {} |-> r.amount])
    BY <2>1, RowsSum
  <2>3. TotalOf([r \in {} |-> r.amount]) = 0
    <3> DEFINE v == [r \in {} |-> r.amount]
    <3>1. v \in [{} -> Int] /\ \A r \in {} : v[r] = 0
      OBVIOUS
    <3> HIDE DEF v
    <3>2. TotalOf(v) = 0
      BY <2>1, <3>1, ZerosAreNothing
    <3> QED
      BY <3>2 DEF v
  <2> QED
    BY <2>2, <2>3
<1>5. BalancesAt(SeenAccounts, rows, LastMonth) = then
  <2> DEFINE less(b) == [b EXCEPT !.balance = @ - SumOf(LAMBDA r : r.amount, {})]
  <2>1. \A b : {r \in AfterMonthEnd(rows, LastMonth) : ~r.deleted /\ r.account = b.id} = {}
    BY <1>3
  <2>2. BalancesAt(SeenAccounts, rows, LastMonth) = {less(b) : b \in then}
    BY <2>1 DEF BalancesAt
  <2>3. \A b \in then : less(b) = b
    <3> TAKE b \in then
    <3>1. b.balance \in Int
      BY AccountsSeen DEF NotDeleted
    <3>2. PICK a \in Accounts : b = AccountOf(a, OrLive(seen.accounts))
      BY DEF NotDeleted, SeenAccounts, AccountsAt, AccountOf, OfAccount
    <3>3. less(b) = [b EXCEPT !.balance = b.balance]
      BY <1>4, <3>1
    <3> QED
      BY <3>2, <3>3 DEF AccountOf
  <2> HIDE DEF less, then
  <2> QED
    BY <2>2, <2>3
<1>6. Trajectory(SeenAccounts, RowsFrom(LastMonth), LastMonth, LastMonth)[LastMonth]
        = [netWorth   |-> SumOf(Balance, BalancesAt(SeenAccounts, rows, LastMonth)),
           liquidCash |-> SumOf(Balance, Liquid(BalancesAt(SeenAccounts, rows, LastMonth))),
           debt       |-> SumOf(Debt, Negative(BalancesAt(SeenAccounts, rows, LastMonth)))]
  BY <1>2 DEF Trajectory
<1> QED
  BY <1>5, <1>6

\* AccountFiguresAgree of LedgerTools.
LEMMA AccountFiguresHold ==
  ASSUME opening \in Openings, ledger \in [Transactions -> Statuses],
         OrLive(seen.accounts) \in SUBSET Transactions
  PROVE  AccountFiguresAgree
PROOF
<1> DEFINE snapshot == FinancialSnapshot(SeenAccounts)
           health   == HealthCheck(SeenAccounts, Detail(Live, LastMonth), SeenMonths, Rows,
                         schedule, today, None)
           debt     == DebtSummary(SeenAccounts)
           end      ==
             Trajectory(SeenAccounts, RowsFrom(LastMonth), LastMonth, LastMonth)[LastMonth]
           all      == NotDeleted(SeenAccounts)
           active   == Active(SeenAccounts)
           worth    == SumOf(Balance, active)
           cash     == SumOf(Balance, Liquid(active))
           owed     == SumOf(Debt, Negative(active))
<1>1. IsFiniteSet(all) /\ \A a \in all : a.balance \in Int
  BY AccountsSeen, FS_Subset DEF NotDeleted
<1>2. active \in SUBSET all /\ \A a \in all \ active : a.balance = 0
  <2> SUFFICES ASSUME NEW a \in all \ active
               PROVE  a.balance = 0
    BY DEF NotDeleted, Active
  <2>1. a \in SeenAccounts /\ ~a.deleted /\ a.closed
    BY DEF NotDeleted, Active
  <2>2. PICK b \in Accounts : a = AccountOf(b, OrLive(seen.accounts))
    BY <2>1 DEF SeenAccounts, AccountsAt, AccountOf, OfAccount
  <2>3. b.closed /\ ~b.deleted
    BY <2>1, <2>2 DEF AccountOf
  <2>4. opening[b.id] = 0
    BY <2>3, PlanAssumption
  <2>5. OfAccount(OrLive(seen.accounts), b) = {}
    BY <2>3, PlanAssumption DEF OfAccount
  <2>6. SumOf(TxAmount, {}) = 0
    <3>1. {} \in SUBSET Transactions /\ IsFiniteSet({})
      BY FS_EmptySet
    <3>2. SumOf(TxAmount, {}) = TotalOf(Part(Amounts, {}))
      BY <3>1, TransactionsSum
    <3>3. Part(Amounts, {}) \in [{} -> Int]
      BY DEF Part
    <3>4. TotalOf(Part(Amounts, {})) = 0
      BY <3>1, <3>3, ZerosAreNothing
    <3> QED
      BY <3>2, <3>4
  <2>7. a.balance = opening[b.id] + SumOf(TxAmount, OfAccount(OrLive(seen.accounts), b))
    BY <2>2 DEF AccountOf
  <2> QED
    BY <2>4, <2>5, <2>6, <2>7
<1>3. end = [netWorth   |-> SumOf(Balance, all),
             liquidCash |-> SumOf(Balance, Liquid(all)),
             debt       |-> SumOf(Debt, Negative(all))]
  BY TheEndIsNow
<1> HIDE DEF all, end
<1>4. end.netWorth = worth /\ end.liquidCash = cash /\ end.debt = owed
  <2> HIDE DEF active
  <2>1. SumOf(Balance, all) = SumOf(Balance, active)
        /\ Liquid(all) = Liquid(active) /\ Negative(all) = Negative(active)
    BY <1>1, <1>2, EmptyAccountsAreNothing
  <2> QED
    BY <1>3, <2>1
<1>5. /\ snapshot.netWorth = worth /\ snapshot.liquidCash = cash /\ snapshot.debt = owed
      /\ snapshot.debtCount = Cardinality(Negative(active))
  BY DEF FinancialSnapshot
<1>6. health.netWorth = worth /\ health.cash = cash /\ health.debt = owed
  BY DEF HealthCheck, NetWorth, LiquidCash, TotalDebt
<1>7. Active(active) = active
  BY DEF Active
<1>8. cash \in Int /\ cash >= 0 /\ owed \in Int
  <2>1. IsFiniteSet(active) /\ \A a \in active : a.balance \in Int
    BY <1>1, <1>2, FS_Subset
  <2> HIDE DEF active
  <2> QED
    BY <2>1, CashAndDebt
<1>9. /\ debt.debt = owed /\ debt.cash = cash
      /\ debt.count = Cardinality(Negative(active))
      /\ debt.status = CASE owed = 0 -> "none"
                         [] owed # 0 /\ cash = 0 -> "high"
                         [] owed # 0 /\ cash # 0 /\ owed <= cash -> "manageable"
                         [] cash # 0 /\ owed > cash /\ owed <= 2 * cash -> "watch"
                         [] cash # 0 /\ owed > 2 * cash -> "high"
  BY <1>7 DEF DebtSummary, TotalDebt, LiquidCash
<1> HIDE DEF snapshot, health, debt, worth, cash, owed, active
<1>10. (debt.status = "none") = (snapshot.debt = 0)
  BY <1>5, <1>8, <1>9
<1>11. /\ snapshot.netWorth = health.netWorth /\ snapshot.netWorth = end.netWorth
       /\ {snapshot.liquidCash, health.cash, debt.cash} = {end.liquidCash}
       /\ {snapshot.debt, health.debt, debt.debt} = {end.debt}
       /\ snapshot.debtCount = debt.count
  BY <1>4, <1>5, <1>6, <1>9
<1> QED
  BY <1>10, <1>11 DEF AccountFiguresAgree, snapshot, health, debt, end

\* Categories of a month.
LEMMA CategoriesOfAMonth ==
  ASSUME NEW live \in SUBSET Transactions, NEW month
  PROVE  /\ IsFiniteSet(Detail(live, month).categories)
         /\ \A c \in Detail(live, month).categories :
              /\ c.balance \in Int /\ c.underfunded \in Nat
              /\ c.underfunded > 0 => c.goal
PROOF
<1> DEFINE at(c) == [id |-> c.id, group |-> c.group, card |-> c.card, hidden |-> c.hidden,
                     deleted |-> c.deleted, budgeted |-> c.budgeted, goal |-> c.goal,
                     underfunded |-> c.underfunded, activity |-> Activity(live, c.id, month),
                     balance |-> c.budgeted + Activity(live, c.id, month)]
           f     == [c \in Categories |-> at(c)]
<1>1. Detail(live, month).categories = {at(c) : c \in Categories}
  BY DEF Detail, CategoriesAt
<1>2. \A c : /\ at(c).balance = c.budgeted + Activity(live, c.id, month)
            /\ at(c).underfunded = c.underfunded /\ at(c).goal = c.goal
  OBVIOUS
<1>3. DOMAIN f = Categories /\ {f[c] : c \in DOMAIN f} = {at(c) : c \in Categories}
  OBVIOUS
<1> HIDE DEF f, at
<1>4. IsFiniteSet({f[c] : c \in DOMAIN f})
  BY <1>3, ListsAssumption, ImagesAreFinite
<1>5. \A c \in Categories : at(c).balance \in Int
  <2> TAKE c \in Categories
  <2>1. c.budgeted \in Int /\ Activity(live, c.id, month) \in Int
    BY PlanAssumption, ActivityIsInt
  <2> QED
    BY <1>2, <2>1
<1>6. \A c \in Categories : /\ at(c).underfunded \in Nat
                            /\ at(c).underfunded > 0 => at(c).goal
  BY <1>2, PlanAssumption
<1> QED
  BY <1>1, <1>3, <1>4, <1>5, <1>6

\* What is available is what is there less what is overspent.
LEMMA AvailableIsTheRest ==
  ASSUME NEW S, IsFiniteSet(S), \A c \in S : c.balance \in Int
  PROVE  SumOf(Balance, S)
           = SumOf(Balance, {c \in S : c.balance > 0}) - SumOf(OverspentBy, Overspent(S))
PROOF
<1> DEFINE v    == [c \in S |-> c.balance]
           more == {c \in S : c.balance > 0}
           less == Overspent(S)
           x    == [c \in S |-> IF c.balance > 0 THEN c.balance ELSE 0]
           y    == [c \in S |-> 0]
           z    == [c \in S |-> IF c.balance < 0 THEN -c.balance ELSE 0]
<1>1. /\ IsFiniteSet(more) /\ more \in SUBSET S /\ \A c \in more : c.balance \in Int
      /\ IsFiniteSet(less) /\ less \in SUBSET S /\ \A c \in less : c.balance \in Int
  BY FS_Subset DEF Overspent
<1>2. v \in [S -> Int] /\ x \in [S -> Int] /\ y \in [S -> Int] /\ z \in [S -> Int]
  OBVIOUS
<1>3. \A c \in S : v[c] = x[c] + y[c] - z[c]
  OBVIOUS
<1>4. \A c \in S : y[c] = 0
  OBVIOUS
<1>5. (\A c \in S \ more : x[c] = 0) /\ (\A c \in S \ less : z[c] = 0)
  BY DEF Overspent
<1>6. Part(x, S) = x /\ Part(x, more) = [c \in more |-> c.balance]
  BY <1>1 DEF Part
<1>7. Part(z, S) = z /\ Part(z, less) = [c \in less |-> -c.balance]
  BY <1>1 DEF Part, Overspent
<1>8. SumOf(Balance, S) = TotalOf(v)
  BY BalancesSum
<1> HIDE DEF more, less
<1>9. SumOf(Balance, more) = TotalOf([c \in more |-> c.balance])
  BY <1>1, BalancesSum
<1>10. SumOf(OverspentBy, less) = TotalOf([c \in less |-> -c.balance])
  BY <1>1, DebtsSum
<1> HIDE DEF v, x, y, z
<1>11. S \in SUBSET S
  OBVIOUS
<1>12. TotalOf(Part(x, S)) = TotalOf(Part(x, more)) /\ TotalOf(Part(z, S)) = TotalOf(Part(z, less))
  BY <1>1, <1>2, <1>5, <1>11, TotalWithoutZeros
<1>13. TotalOf(v) = TotalOf(x) + TotalOf(y) - TotalOf(z)
  BY <1>2, <1>3, TotalCombined
<1>14. TotalOf(y) = 0 /\ TotalOf(x) \in Int /\ TotalOf(z) \in Int
  BY <1>2, <1>4, ZerosAreNothing, TotalIsInt
<1>15. TotalOf(v) = TotalOf(x) - TotalOf(z)
  BY <1>13, <1>14
<1> QED
  BY <1>6, <1>7, <1>8, <1>9, <1>10, <1>12, <1>15 DEF more, less

\* Two parts of a finite set.
LEMMA PartsCount ==
  ASSUME NEW S, IsFiniteSet(S), NEW A \in SUBSET S, NEW B \in SUBSET S, A \cap B = {}, NEW C,
         C = A \cup B
  PROVE  Cardinality(C) = Cardinality(A) + Cardinality(B)
PROOF
<1>1. IsFiniteSet(A) /\ IsFiniteSet(B)
  BY FS_Subset
<1>2. Cardinality(A) \in Nat /\ Cardinality(B) \in Nat
  BY <1>1, FS_CardinalityType
<1>3. Cardinality(A \cup B) = Cardinality(A) + Cardinality(B) - Cardinality(A \cap B)
  BY <1>1, FS_Union
<1>4. Cardinality(A \cap B) = 0
  BY FS_EmptySet
<1> QED
  BY <1>2, <1>3, <1>4

\* A full score leaves no cleanup to do.
LEMMA FullScore ==
  ASSUME NEW accounts, NEW detail, NEW months, NEW rows, NEW schedules, NEW asOf,
         IsFiniteSet(rows),
         HealthCheck(accounts, detail, months, rows, schedules, asOf, None).score = 100
  PROVE  /\ HealthCheck(accounts, detail, months, rows, schedules, asOf, None).status = "healthy"
         /\ CleanupTransactions(MonthRows(rows, detail.month), None).unapproved = 0
PROOF
<1> DEFINE health  == HealthCheck(accounts, detail, months, rows, schedules, asOf, None)
           cleanup == CleanupTransactions(MonthRows(rows, detail.month), None)
           shown   == VisibleCategoryHealth(detail.categories)
           raised  ==
             [cash_shortfall |-> Upcoming30dNet(schedules, asOf) < -LiquidCash(accounts),
              negative_ready_to_assign |-> detail.toBeBudgeted < 0,
              overspent_categories |-> shown.overspent # {},
              goal_underfunding |-> shown.underfunded # {},
              cleanup_backlog |->
                cleanup.uncategorized + cleanup.unapproved + cleanup.uncleared > 0,
              low_age_of_money |-> detail.ageOfMoney < 14,
              income_volatility |-> SpreadAbove(RecentMonths(months, detail.month, 3), 50)]
           risks   == {code \in DOMAIN Penalties : raised[code]}
           penalty(code) == Penalties[code]
           lost    == SumOf(penalty, risks)
<1>1. /\ health.score = Max({0, 100 - lost})
      /\ health.status = IF health.score >= 80 THEN "healthy"
                         ELSE IF health.score >= 50 THEN "watch" ELSE "needs_attention"
  BY DEF HealthCheck
<1>2. health.status = "healthy"
  BY <1>1
<1>3. /\ cleanup.uncategorized \in Nat /\ cleanup.unapproved \in Nat
      /\ cleanup.uncleared \in Nat
  <2> DEFINE S == MonthRows(rows, detail.month)
  <2>1. IsFiniteSet(S)
    BY FS_Subset DEF MonthRows
  <2>2. /\ cleanup.uncategorized = Cardinality({r \in S : r.category = None})
        /\ cleanup.unapproved = Cardinality({r \in S : ~r.approved})
        /\ cleanup.uncleared = Cardinality({r \in S : ~r.cleared})
    BY DEF CleanupTransactions
  <2> HIDE DEF S, cleanup
  <2>3. /\ IsFiniteSet({r \in S : r.category = None}) /\ IsFiniteSet({r \in S : ~r.approved})
        /\ IsFiniteSet({r \in S : ~r.cleared})
    BY <2>1, FS_Subset
  <2> QED
    BY <2>2, <2>3, FS_CardinalityType
<1> HIDE DEF cleanup
<1>4. raised["cleanup_backlog"]
        <=> cleanup.uncategorized + cleanup.unapproved + cleanup.uncleared > 0
  OBVIOUS
<1>5. risks \in SUBSET DOMAIN Penalties /\ "cleanup_backlog" \in DOMAIN Penalties
  BY DEF Penalties
<1>6. raised["cleanup_backlog"] => "cleanup_backlog" \in risks
  BY <1>5
<1> HIDE DEF raised, health
<1>7. ASSUME "cleanup_backlog" \in risks PROVE FALSE
  <2> HIDE DEF risks
  <2>1. lost \in Int /\ lost > 0
    BY <1>5, <1>7, PenaltiesSum
  <2> HIDE DEF lost
  <2>2. {0, 100 - lost} \in SUBSET Int /\ {0, 100 - lost} # {} /\ IsFiniteSet({0, 100 - lost})
    <3>1. IsFiniteSet({0}) /\ IsFiniteSet({100 - lost})
      BY FS_Singleton
    <3>2. IsFiniteSet({0} \cup {100 - lost})
      BY <3>1, FS_Union
    <3>3. {0} \cup {100 - lost} = {0, 100 - lost}
      OBVIOUS
    <3> QED
      BY <2>1, <3>2, <3>3
  <2>3. Max({0, 100 - lost}) \in {0, 100 - lost}
    BY <2>2, GreatestIsThere
  <2>4. Max({0, 100 - lost}) = 100
    BY <1>1 DEF health
  <2> QED
    BY <2>1, <2>3, <2>4
<1>8. cleanup.unapproved = 0
  BY <1>3, <1>4, <1>6, <1>7
<1> QED
  BY <1>2, <1>8 DEF health, cleanup

LEMMA OneToOneCount ==
  ASSUME NEW D, IsFiniteSet(D), NEW K, NEW key \in [D -> K],
         \A k \in K : \E d \in D : key[d] = k,
         \A d, e \in D : key[d] = key[e] => d = e
  PROVE  Cardinality(K) = Cardinality(D) /\ IsFiniteSet(K)
PROOF
<1>1. key \in Bijection(D, K)
  BY DEF Bijection, Injection, Surjection, IsInjective
<1>2. ExistsBijection(D, K)
  BY <1>1 DEF ExistsBijection
<1> QED
  BY <1>2, FS_Bijection

\* What the tools make of one read of a month.
LEMMA FiguresOfAMonth ==
  ASSUME ledger \in [Transactions -> Statuses], NEW live \in SUBSET Transactions, NEW m \in Months
  PROVE
      LET detail  == Detail(live, m)
          health  == HealthCheck(SeenAccounts, detail, SeenMonths, Rows, schedule, today, None)
          budget  == BudgetHealth(detail)
          goals   == GoalProgress(detail)
          cleanup == BudgetCleanup(RowsFrom(m), detail, m, None)
          trend   == CategoryTrend(<<detail>>, {c.id : c \in detail.categories})
      IN /\ health.overspent = budget.overspent
         /\ health.underfunded = budget.underfunded
         /\ health.cleanup = cleanup.transactions
         /\ cleanup.overspent = budget.overspent
              + Cardinality({c \in Overspent(detail.categories) : ~c.deleted /\ c.hidden})
         /\ goals.offTrack = budget.underfunded /\ goals.missing = budget.missing
         /\ goals.goals = goals.onTrack + goals.offTrack
         /\ trend.periods[1].available = budget.available - budget.overspentBy
         /\ health.score = 100 => health.status = "healthy" /\ cleanup.transactions.unapproved = 0
PROOF
<1> DEFINE detail  == Detail(live, m)
           health  == HealthCheck(SeenAccounts, detail, SeenMonths, Rows, schedule, today, None)
           budget  == BudgetHealth(detail)
           goals   == GoalProgress(detail)
           cleanup == BudgetCleanup(RowsFrom(m), detail, m, None)
           trend   == CategoryTrend(<<detail>>, {c.id : c \in detail.categories})
           all     == detail.categories
           shown   == Visible(all)
           chosen  == {c \in shown : c.goal}
<1>2. /\ IsFiniteSet(all)
      /\ \A c \in all : /\ c.balance \in Int /\ c.underfunded \in Nat
                        /\ c.underfunded > 0 => c.goal
  BY CategoriesOfAMonth
<1>3. detail.month = m
  BY DEF Detail
<1>4. MonthRows(Rows, m) = MonthRows(RowsFrom(m), m)
  <2>1. \A r \in Rows : IsWithinMonthRange(r.date, m, m) => r.date >= m
    BY RowsAreNumbers, PlanMonths DEF IsWithinMonthRange
  <2> QED
    BY <2>1 DEF MonthRows, RowsFrom
<1>5. /\ health.overspent = Cardinality(Overspent(shown))
      /\ health.underfunded = Cardinality(Underfunded(shown))
      /\ health.cleanup = CleanupTransactions(MonthRows(Rows, detail.month), None)
  BY DEF HealthCheck, VisibleCategoryHealth
<1>6. /\ budget.overspent = Cardinality(Overspent(shown))
      /\ budget.underfunded = Cardinality(Underfunded(shown))
      /\ budget.missing = SumOf(UnderfundedBy, Underfunded(shown))
      /\ budget.available = SumOf(Balance, {c \in shown : c.balance > 0})
      /\ budget.overspentBy = SumOf(OverspentBy, Overspent(shown))
  BY DEF BudgetHealth
<1>7. /\ goals.goals = Cardinality(chosen)
      /\ goals.missing = SumOf(UnderfundedBy, Underfunded(chosen))
      /\ goals.onTrack = Cardinality({c \in chosen : c.underfunded = 0})
      /\ goals.offTrack = Cardinality(Underfunded(chosen))
  BY DEF GoalProgress
<1>8. /\ cleanup.transactions = CleanupTransactions(MonthRows(RowsFrom(m), m), None)
      /\ cleanup.overspent = Cardinality(Overspent({c \in all : ~c.deleted}))
  BY DEF BudgetCleanup
<1>9. trend.periods[1].available = SumOf(Balance, shown)
  <2> DEFINE ids == {c.id : c \in all}
  <2>1. trend.periods = [i \in DOMAIN <<detail>> |-> TrendPeriod(<<detail>>[i], ids)]
    BY DEF CategoryTrend
  <2>2. DOMAIN <<detail>> = {1} /\ <<detail>>[1] = detail
    OBVIOUS
  <2>3. trend.periods[1] = TrendPeriod(detail, ids)
    <3> HIDE DEF trend, detail, ids
    <3> QED
      BY <2>1, <2>2
  <2>4. TrendPeriod(detail, ids).available = SumOf(Balance, {c \in shown : c.id \in ids})
    BY DEF TrendPeriod
  <2>5. {c \in shown : c.id \in ids} = shown
    BY DEF Visible
  <2> QED
    BY <2>3, <2>4, <2>5
<1> HIDE DEF detail, health, budget, goals, cleanup, trend
<1>10. IsFiniteSet(shown) /\ shown \in SUBSET all
  BY <1>2, FS_Subset DEF Visible
<1>11. Underfunded(chosen) = Underfunded(shown)
  BY <1>2, <1>10 DEF Underfunded
<1>12. SumOf(Balance, shown)
         = SumOf(Balance, {c \in shown : c.balance > 0}) - SumOf(OverspentBy, Overspent(shown))
  <2> HIDE DEF shown, all
  <2>1. \A c \in shown : c.balance \in Int
    BY <1>2, <1>10
  <2> QED
    BY <1>10, <2>1, AvailableIsTheRest
<1>13. goals.goals = goals.onTrack + goals.offTrack
  <2> DEFINE on  == {c \in chosen : c.underfunded = 0}
             off == Underfunded(chosen)
  <2>1. on \in SUBSET shown /\ off \in SUBSET shown /\ on \cap off = {} /\ chosen = on \cup off
    BY <1>2, <1>10 DEF Underfunded
  <2> HIDE DEF on, off, shown, chosen
  <2>2. Cardinality(chosen) = Cardinality(on) + Cardinality(off)
    BY <1>10, <2>1, PartsCount
  <2> QED
    BY <1>7, <2>2 DEF on, off
<1>14. cleanup.overspent
         = budget.overspent + Cardinality({c \in Overspent(all) : ~c.deleted /\ c.hidden})
  <2> DEFINE open   == Overspent(shown)
             hidden == {c \in Overspent(all) : ~c.deleted /\ c.hidden}
             both   == Overspent({c \in all : ~c.deleted})
  <2>1. /\ open \in SUBSET all /\ hidden \in SUBSET all /\ open \cap hidden = {}
        /\ both = open \cup hidden
    BY DEF Overspent, Visible
  <2> HIDE DEF open, hidden, both, all, shown
  <2>2. Cardinality(both) = Cardinality(open) + Cardinality(hidden)
    BY <1>2, <2>1, PartsCount
  <2> QED
    BY <1>6, <1>8, <2>2 DEF open, hidden, both
<1>15. health.score = 100 => health.status = "healthy" /\ cleanup.transactions.unapproved = 0
  <2>1. IsFiniteSet(Rows)
    BY RowsAreNumbers
  <2>2. health.score = 100 =>
          /\ health.status = "healthy"
          /\ CleanupTransactions(MonthRows(Rows, detail.month), None).unapproved = 0
    BY <2>1, FullScore DEF health
  <2> QED
    BY <1>3, <1>4, <1>8, <2>2
<1>16. /\ health.overspent = budget.overspent
       /\ health.underfunded = budget.underfunded
       /\ health.cleanup = cleanup.transactions
       /\ goals.offTrack = budget.underfunded /\ goals.missing = budget.missing
       /\ trend.periods[1].available = budget.available - budget.overspentBy
  BY <1>3, <1>4, <1>5, <1>6, <1>7, <1>8, <1>9, <1>11, <1>12
<1> QED
  BY <1>13, <1>14, <1>15, <1>16 DEF detail, health, budget, goals, cleanup, trend

\* The categories that are shown, and what is booked in them in a month.
ShownCategories == Visible(Categories)

CategoryAt(live, c, m) ==
  [id |-> c.id, group |-> c.group, card |-> c.card, hidden |-> c.hidden,
   deleted |-> c.deleted, budgeted |-> c.budgeted, goal |-> c.goal,
   underfunded |-> c.underfunded, activity |-> Activity(live, c.id, m),
   balance |-> c.budgeted + Activity(live, c.id, m)]

BookedIn(live, m) ==
  {t \in live : /\ MonthOf(Tx[t].date) = MonthOf(m)
                /\ Tx[t].category \in {c.id : c \in ShownCategories}}

BookedOf(live, c, m) ==
  {t \in live : Tx[t].category = c.id /\ MonthOf(Tx[t].date) = MonthOf(m)}

LEMMA ShownAreDifferent ==
  /\ IsFiniteSet(ShownCategories) /\ ShownCategories \in SUBSET Categories
  /\ \A c, d \in ShownCategories : c.id = d.id => c = d
  /\ \A c \in ShownCategories : c.budgeted \in Int
BY ListsAssumption, CategoryIds, PlanAssumption, FS_Subset DEF ShownCategories, Visible

\* The categories that a read shows are those of the plan.
LEMMA ShownOfARead ==
  ASSUME NEW live \in SUBSET Transactions, NEW m, NEW S, S = Visible(CategoriesAt(live, m)),
         NEW key, key = [c \in ShownCategories |-> CategoryAt(live, c, m)]
  PROVE  /\ key \in [ShownCategories -> S]
         /\ \A k \in S : \E c \in ShownCategories : key[c] = k
         /\ \A c, d \in ShownCategories : key[c] = key[d] => c = d
         /\ \A c \in ShownCategories : key[c].balance = c.budgeted + Activity(live, c.id, m)
PROOF
<1>1. CategoriesAt(live, m) = {CategoryAt(live, c, m) : c \in Categories}
  BY DEF CategoriesAt, CategoryAt
<1>2. \A c : /\ CategoryAt(live, c, m).hidden = c.hidden
             /\ CategoryAt(live, c, m).deleted = c.deleted
             /\ CategoryAt(live, c, m).id = c.id
             /\ CategoryAt(live, c, m).balance = c.budgeted + Activity(live, c.id, m)
  BY DEF CategoryAt
<1>3. S = {CategoryAt(live, c, m) : c \in ShownCategories}
  BY <1>1, <1>2 DEF Visible, ShownCategories
<1>4. \A c, d \in ShownCategories : key[c] = key[d] => c = d
  BY <1>2, ShownAreDifferent
<1> QED
  BY <1>2, <1>3, <1>4

\* What is there in the shown categories is what is budgeted and what is booked.
LEMMA ShownBalances ==
  ASSUME NEW live \in SUBSET Transactions, NEW m
  PROVE  LET budgeted == TotalOf([c \in ShownCategories |-> c.budgeted]) IN
         /\ budgeted \in Int /\ SumOf(TxAmount, BookedIn(live, m)) \in Int
         /\ SumOf(Balance, Visible(CategoriesAt(live, m)))
              = budgeted + SumOf(TxAmount, BookedIn(live, m))
PROOF
<1> DEFINE S   == Visible(CategoriesAt(live, m))
           key == [c \in ShownCategories |-> CategoryAt(live, c, m)]
           v   == [c \in ShownCategories |-> c.budgeted + Activity(live, c.id, m)]
           w   == [k \in S |-> k.balance]
           x   == [c \in ShownCategories |-> c.budgeted]
           y   == [c \in ShownCategories |-> Activity(live, c.id, m)]
           z   == [c \in ShownCategories |-> 0]
<1>1. \A c \in ShownCategories : c.budgeted \in Int /\ Activity(live, c.id, m) \in Int
  BY ShownAreDifferent, ActivityIsInt
<1>2. /\ v \in [ShownCategories -> Int] /\ x \in [ShownCategories -> Int]
      /\ y \in [ShownCategories -> Int] /\ z \in [ShownCategories -> Int]
      /\ \A c \in ShownCategories : v[c] = x[c] + y[c] - z[c]
  BY <1>1
<1>3. /\ key \in [ShownCategories -> S]
      /\ \A k \in S : \E c \in ShownCategories : key[c] = k
      /\ \A c, d \in ShownCategories : key[c] = key[d] => c = d
      /\ \A c \in ShownCategories : key[c].balance = c.budgeted + Activity(live, c.id, m)
  <2>1. S = Visible(CategoriesAt(live, m))
          /\ key = [c \in ShownCategories |-> CategoryAt(live, c, m)]
    OBVIOUS
  <2> HIDE DEF S, key
  <2> QED
    BY <2>1, ShownOfARead
<1>4. /\ IsFiniteSet(S)
      /\ \A k \in S : k.balance \in Int
  <2> HIDE DEF key, S
  <2>1. IsFiniteSet(S)
    BY <1>3, ShownAreDifferent, OneToOneCount
  <2>2. ASSUME NEW k \in S PROVE k.balance \in Int
    <3>1. PICK c \in ShownCategories : key[c] = k
      BY <1>3
    <3> QED
      BY <1>1, <1>3, <3>1
  <2> QED
    BY <2>1, <2>2
<1>5. w \in [S -> Int] /\ \A c \in ShownCategories : w[key[c]] = v[c]
  <2> HIDE DEF key, S
  <2> QED
    BY <1>3, <1>4
<1>6. SumOf(Balance, S) = TotalOf(w)
  BY <1>4, BalancesSum
<1>7. TotalOf(w) = TotalOf(v)
  <2> HIDE DEF key, S, v, w
  <2> QED
    BY <1>2, <1>3, <1>5, ShownAreDifferent, TotalReindexed
<1>8. TotalOf(v) = TotalOf(x) + TotalOf(y) - TotalOf(z)
  <2> HIDE DEF v, x, y, z
  <2> QED
    BY <1>2, ShownAreDifferent, TotalCombined
<1>9. TotalOf(z) = 0 /\ TotalOf(x) \in Int /\ TotalOf(y) \in Int
  <2>1. \A c \in ShownCategories : z[c] = 0
    OBVIOUS
  <2> HIDE DEF x, y, z
  <2> QED
    BY <1>2, <2>1, ShownAreDifferent, ZerosAreNothing, TotalIsInt
<1>10. TotalOf(y) = SumOf(TxAmount, BookedIn(live, m))
  <2> DEFINE D    == BookedIn(live, m)
             paid == Part(Amounts, D)
             of   == [t \in D |-> CHOOSE c \in ShownCategories : c.id = Tx[t].category]
  <2>1. D \in SUBSET Transactions
    BY DEF BookedIn
  <2>2. IsFiniteSet(D) /\ paid \in [D -> Int]
    BY <2>1, AmountsAreIntegers, FS_Subset DEF Part
  <2>3. \A t \in D : of[t] \in ShownCategories /\ of[t].id = Tx[t].category
    BY DEF BookedIn
  <2>4. \A c \in ShownCategories : {t \in D : of[t] = c} = BookedOf(live, c, m)
    <3> TAKE c \in ShownCategories
    <3>1. ASSUME NEW t \in D
          PROVE  of[t] = c <=> Tx[t].category = c.id
      <4>1. of[t] \in ShownCategories /\ of[t].id = Tx[t].category
        BY <2>3
      <4> HIDE DEF of
      <4> QED
        BY <4>1, ShownAreDifferent
    <3>2. \A t : t \in BookedOf(live, c, m) <=> t \in D /\ Tx[t].category = c.id
      BY DEF BookedOf, BookedIn
    <3> HIDE DEF D, of
    <3> QED
      BY <3>1, <3>2
  <2>5. \A c \in ShownCategories : y[c] = TotalOf(Part(paid, {t \in D : of[t] = c}))
    <3> TAKE c \in ShownCategories
    <3>1. BookedOf(live, c, m) \subseteq D /\ BookedOf(live, c, m) \in SUBSET Transactions
      BY DEF BookedOf, BookedIn
    <3>2. Part(paid, BookedOf(live, c, m)) = Part(Amounts, BookedOf(live, c, m))
      BY <3>1 DEF Part
    <3>3. Activity(live, c.id, m) = SumOf(TxAmount, BookedOf(live, c, m))
      BY DEF Activity, BookedOf
    <3>4. SumOf(TxAmount, BookedOf(live, c, m)) = TotalOf(Part(Amounts, BookedOf(live, c, m)))
      BY <3>1, TransactionsSum
    <3> QED
      BY <2>4, <3>2, <3>3, <3>4
  <2>6. DOMAIN y = ShownCategories /\ y = [c \in ShownCategories |-> y[c]]
    OBVIOUS
  <2>7. SumOf(TxAmount, D) = TotalOf(paid)
    BY <2>1, TransactionsSum
  <2> HIDE DEF D, paid, of, y
  <2>8. TotalOf(y) = TotalOf(paid)
    BY <2>2, <2>3, <2>5, <2>6, ShownAreDifferent, TotalByKey
  <2> QED
    BY <2>7, <2>8 DEF D
<1> HIDE DEF x, y, z, v, w, S
<1>11. SumOf(Balance, S) = TotalOf(x) + TotalOf(y) /\ TotalOf(x) \in Int /\ TotalOf(y) \in Int
  BY <1>6, <1>7, <1>8, <1>9
<1> QED
  BY <1>10, <1>11 DEF S, x

\* Two sets that differ in a third have about as many elements.
LEMMA NearlyAsMany ==
  ASSUME NEW A, IsFiniteSet(A), NEW B, IsFiniteSet(B), NEW T, IsFiniteSet(T),
         A \subseteq B \cup T, B \subseteq A \cup T
  PROVE  Cardinality(A) - Cardinality(B) \in -Cardinality(T) .. Cardinality(T)
PROOF
<1>1. ASSUME NEW U, IsFiniteSet(U), NEW W, IsFiniteSet(W), W \subseteq U \cup T
      PROVE  Cardinality(W) <= Cardinality(U) + Cardinality(T)
  <2>1. IsFiniteSet(U \cup T)
          /\ Cardinality(U \cup T) = Cardinality(U) + Cardinality(T) - Cardinality(U \cap T)
    BY <1>1, FS_Union
  <2>2. IsFiniteSet(U \cap T) /\ IsFiniteSet(W)
          /\ Cardinality(W) <= Cardinality(U \cup T)
    BY <1>1, <2>1, FS_Subset
  <2>3. /\ Cardinality(U) \in Nat /\ Cardinality(T) \in Nat /\ Cardinality(U \cap T) \in Nat
        /\ Cardinality(W) \in Nat
    BY <1>1, <2>2, FS_CardinalityType
  <2> QED
    BY <2>1, <2>2, <2>3
<1>2. Cardinality(A) <= Cardinality(B) + Cardinality(T)
        /\ Cardinality(B) <= Cardinality(A) + Cardinality(T)
  BY <1>1
<1>3. Cardinality(A) \in Nat /\ Cardinality(B) \in Nat /\ Cardinality(T) \in Nat
  BY FS_CardinalityType
<1> QED
  BY <1>2, <1>3

\* The overspent ones of a read, counted in the plan.
ShortOf(live, m) == {c \in ShownCategories : c.budgeted + Activity(live, c.id, m) < 0}

LEMMA OverspentOfARead ==
  ASSUME NEW live \in SUBSET Transactions, NEW m
  PROVE  Cardinality(Overspent(Visible(CategoriesAt(live, m)))) = Cardinality(ShortOf(live, m))
PROOF
<1> DEFINE S   == Visible(CategoriesAt(live, m))
           key == [c \in ShownCategories |-> CategoryAt(live, c, m)]
           few == [c \in ShortOf(live, m) |-> key[c]]
<1>1. /\ key \in [ShownCategories -> S]
      /\ \A k \in S : \E c \in ShownCategories : key[c] = k
      /\ \A c, d \in ShownCategories : key[c] = key[d] => c = d
      /\ \A c \in ShownCategories : key[c].balance = c.budgeted + Activity(live, c.id, m)
  <2>1. S = Visible(CategoriesAt(live, m))
          /\ key = [c \in ShownCategories |-> CategoryAt(live, c, m)]
    OBVIOUS
  <2> HIDE DEF S, key
  <2> QED
    BY <2>1, ShownOfARead
<1>2. IsFiniteSet(ShortOf(live, m)) /\ ShortOf(live, m) \subseteq ShownCategories
  BY ShownAreDifferent, FS_Subset DEF ShortOf
<1> HIDE DEF key, S
<1>3. few \in [ShortOf(live, m) -> Overspent(S)]
  BY <1>1, <1>2 DEF Overspent, ShortOf
<1>4. \A k \in Overspent(S) : \E c \in ShortOf(live, m) : few[c] = k
  BY <1>1 DEF Overspent, ShortOf
<1>5. \A c, d \in ShortOf(live, m) : few[c] = few[d] => c = d
  BY <1>1, <1>2
<1> HIDE DEF few
<1>6. Cardinality(Overspent(S)) = Cardinality(ShortOf(live, m))
  BY <1>2, <1>3, <1>4, <1>5, OneToOneCount
<1> QED
  BY <1>6 DEF S

\* Two reads of one month differ by what is booked between them.
LEMMA ReadsApart ==
  ASSUME NEW one \in SUBSET Transactions, NEW two \in SUBSET Transactions, NEW m
  PROVE  LET between == (BookedIn(one, m) \ BookedIn(two, m))
                          \cup (BookedIn(two, m) \ BookedIn(one, m))
             touched == Cardinality({Tx[t].category : t \in between})
             a       == BudgetHealth(Detail(one, m))
             b       == BudgetHealth(Detail(two, m))
         IN /\ a.available - a.overspentBy
                 = b.available - b.overspentBy
                     + SumOf(TxAmount, BookedIn(one, m)) - SumOf(TxAmount, BookedIn(two, m))
            /\ a.overspent - b.overspent \in -touched .. touched
PROOF
<1> DEFINE between == (BookedIn(one, m) \ BookedIn(two, m))
                        \cup (BookedIn(two, m) \ BookedIn(one, m))
           ids     == {Tx[t].category : t \in between}
           changed == {c \in ShownCategories : c.id \in ids}
           budgeted == TotalOf([c \in ShownCategories |-> c.budgeted])
<1>1. ASSUME NEW live \in SUBSET Transactions
      PROVE  LET h == BudgetHealth(Detail(live, m)) IN
             /\ h.available - h.overspentBy = budgeted + SumOf(TxAmount, BookedIn(live, m))
             /\ h.overspent = Cardinality(ShortOf(live, m))
             /\ budgeted \in Int /\ SumOf(TxAmount, BookedIn(live, m)) \in Int
  <2> DEFINE h == BudgetHealth(Detail(live, m))
             S == Visible(CategoriesAt(live, m))
  <2>1. /\ h.overspent = Cardinality(Overspent(S))
        /\ h.available = SumOf(Balance, {c \in S : c.balance > 0})
        /\ h.overspentBy = SumOf(OverspentBy, Overspent(S))
    BY DEF BudgetHealth, Detail
  <2>2. IsFiniteSet(S) /\ \A c \in S : c.balance \in Int
    <3>1. Detail(live, m).categories = CategoriesAt(live, m)
      BY DEF Detail
    <3> QED
      BY <3>1, CategoriesOfAMonth, FS_Subset DEF Visible
  <2>3. SumOf(Balance, S) = h.available - h.overspentBy
    <3> HIDE DEF S, h
    <3> QED
      BY <2>1, <2>2, AvailableIsTheRest
  <2>4. /\ budgeted \in Int /\ SumOf(TxAmount, BookedIn(live, m)) \in Int
        /\ SumOf(Balance, S) = budgeted + SumOf(TxAmount, BookedIn(live, m))
    BY ShownBalances
  <2>5. Cardinality(Overspent(S)) = Cardinality(ShortOf(live, m))
    BY OverspentOfARead
  <2> HIDE DEF S, h, budgeted
  <2> QED
    BY <2>1, <2>3, <2>4, <2>5 DEF h
<1>2. IsFiniteSet(ids)
  <2> DEFINE of == [t \in between |-> Tx[t].category]
  <2>1. IsFiniteSet(between)
    BY TransactionsAssumption, FS_Subset DEF BookedIn
  <2>2. DOMAIN of = between /\ {of[t] : t \in DOMAIN of} = ids
    OBVIOUS
  <2> HIDE DEF of, ids, between
  <2> QED
    BY <2>1, <2>2, ImagesAreFinite
<1>3. IsFiniteSet(changed) /\ Cardinality(changed) <= Cardinality(ids)
  <2> DEFINE of == [c \in changed |-> c.id]
  <2>1. of \in [changed -> ids] /\ \A c, d \in changed : of[c] = of[d] => c = d
    BY ShownAreDifferent
  <2>2. of \in Injection(changed, ids)
    BY <2>1 DEF Injection, IsInjective
  <2> HIDE DEF of, changed, ids
  <2> QED
    BY <1>2, <2>2, FS_Injection
<1>4. \A c \in ShownCategories \ changed : Activity(one, c.id, m) = Activity(two, c.id, m)
  <2> SUFFICES ASSUME NEW c \in ShownCategories, c \notin changed
               PROVE  Activity(one, c.id, m) = Activity(two, c.id, m)
    OBVIOUS
  <2>1. \A t : t \in between => Tx[t].category # c.id
    OBVIOUS
  <2>2. \A t : /\ t \in BookedOf(one, c, m) => t \in BookedIn(one, m) /\ Tx[t].category = c.id
               /\ t \in BookedOf(two, c, m) => t \in BookedIn(two, m) /\ Tx[t].category = c.id
               /\ t \in BookedIn(one, m) /\ Tx[t].category = c.id => t \in BookedOf(one, c, m)
               /\ t \in BookedIn(two, m) /\ Tx[t].category = c.id => t \in BookedOf(two, c, m)
    BY DEF BookedIn, BookedOf
  <2>3. \A t : t \in BookedOf(one, c, m) <=> t \in BookedOf(two, c, m)
    BY <2>1, <2>2
  <2>4. BookedOf(one, c, m) = BookedOf(two, c, m)
    BY <2>3 DEF BookedOf
  <2> QED
    BY <2>4 DEF Activity, BookedOf
<1>5. /\ IsFiniteSet(ShortOf(one, m)) /\ IsFiniteSet(ShortOf(two, m))
      /\ ShortOf(one, m) \subseteq ShortOf(two, m) \cup changed
      /\ ShortOf(two, m) \subseteq ShortOf(one, m) \cup changed
  <2> HIDE DEF changed
  <2> QED
    BY <1>4, ShownAreDifferent, FS_Subset DEF ShortOf
<1> HIDE DEF between, ids, changed, budgeted
<1>6. Cardinality(ShortOf(one, m)) - Cardinality(ShortOf(two, m))
        \in -Cardinality(changed) .. Cardinality(changed)
  BY <1>3, <1>5, NearlyAsMany
<1>7. Cardinality(changed) \in Nat /\ Cardinality(ids) \in Nat
        /\ Cardinality(ShortOf(one, m)) \in Nat /\ Cardinality(ShortOf(two, m)) \in Nat
  BY <1>2, <1>3, <1>5, FS_CardinalityType
<1> DEFINE a == BudgetHealth(Detail(one, m))
           b == BudgetHealth(Detail(two, m))
<1>8. /\ a.available - a.overspentBy = budgeted + SumOf(TxAmount, BookedIn(one, m))
      /\ a.overspent = Cardinality(ShortOf(one, m))
      /\ b.available - b.overspentBy = budgeted + SumOf(TxAmount, BookedIn(two, m))
      /\ b.overspent = Cardinality(ShortOf(two, m))
      /\ budgeted \in Int /\ SumOf(TxAmount, BookedIn(one, m)) \in Int
      /\ SumOf(TxAmount, BookedIn(two, m)) \in Int
  BY <1>1
<1> HIDE DEF a, b
<1>9. a.available - a.overspentBy
        = b.available - b.overspentBy
            + SumOf(TxAmount, BookedIn(one, m)) - SumOf(TxAmount, BookedIn(two, m))
  BY <1>8
<1>10. a.overspent - b.overspent \in -Cardinality(ids) .. Cardinality(ids)
  BY <1>3, <1>6, <1>7, <1>8
<1> QED
  BY <1>9, <1>10 DEF a, b, ids, between

\* The month that was current when it was read is not ahead.
MonthInv == seen.current # None => topic = "budget" /\ seen.current.month <= CurrentMonth

LEMMA StepKeepsMonth ==
  ASSUME Typed, MonthInv, [Next]_vars
  PROVE  MonthInv'
PROOF
<1>1. today \in Int /\ CurrentMonth \in Int
  BY StartAssumption, MonthsAreIntegers DEF Typed, CurrentMonth
<1>2. ASSUME UNCHANGED <<topic, today>>, seen'.current = seen.current
      PROVE  MonthInv'
  BY <1>2 DEF MonthInv, CurrentMonth
<1>3. ASSUME NEW order, (\E w \in Walks : StartWalk(w, order)) \/ NextPage(order)
      PROVE  MonthInv'
  BY <1>2, <1>3 DEF StartWalk, NextPage, Typed
<1>4. ASSUME NEW t, NEW status, Change(t, status)
      PROVE  MonthInv'
  BY <1>2, <1>4 DEF Change
<1>5. ASSUME NEW withMonths, Report(withMonths)
      PROVE  MonthInv'
  BY <1>2, <1>5 DEF Report, Typed
<1>6. ASSUME NEW a, Analyse(a) \/ Update(a)
      PROVE  MonthInv'
  BY <1>2, <1>6 DEF Analyse, Update, ReadMonths, Typed
<1>7. CASE ReadSchedule \/ Reschedule
  BY <1>2, <1>7 DEF ReadSchedule, Reschedule
<1>8. CASE Pass
  BY <1>8 DEF Pass, PassTo, MonthInv
<1>9. CASE MonthTurns
  <2> DEFINE next == MonthStart(MonthOf(today) + 1)
  <2>1. UNCHANGED <<topic, seen>> /\ today' = next
    BY <1>9 DEF MonthTurns, PassTo
  <2>2. MonthOf(today) + 1 \in Int
    BY <1>1, MonthsAreIntegers
  <2>3. CurrentMonth' = next
    BY <2>1, <2>2, MonthOfStart DEF CurrentMonth
  <2>4. CurrentMonth <= next /\ next \in Int
    BY <1>1, <2>2, DayIsInMonth, MonthsAreIntegers DEF CurrentMonth
  <2> HIDE DEF next
  <2>5. seen.current # None => seen.current.month \in Int
    BY PlanMonths DEF Typed, MonthReads
  <2> QED
    BY <1>1, <2>1, <2>3, <2>4, <2>5 DEF MonthInv
<1>10. ASSUME NEW key, MonthReport(key)
       PROVE  MonthInv'
  <2>1. /\ UNCHANGED <<topic, today>> /\ topic = "budget"
        /\ seen' = IF key = Current THEN [seen EXCEPT !.current = SeenMonth(key)]
                   ELSE [seen EXCEPT !.months[key] = SeenMonth(key).live]
    BY <1>10 DEF MonthReport
  <2>2. CurrentMonth' = CurrentMonth
    BY <2>1 DEF CurrentMonth
  <2>3. CASE key = Current
    <3>1. seen'.current = SeenMonth(Current)
      BY <2>1, <2>3 DEF Typed
    <3>2. SeenMonth(Current).month <= CurrentMonth
      BY <1>1 DEF SeenMonth, MonthInv
    <3> QED
      BY <2>1, <2>2, <3>1, <3>2 DEF MonthInv
  <2>4. CASE key # Current
    BY <1>2, <2>1, <2>4 DEF Typed
  <2> QED
    BY <2>3, <2>4
<1>11. CASE UNCHANGED vars
  BY <1>2, <1>11 DEF vars
<1> QED
  BY <1>3, <1>4, <1>5, <1>6, <1>7, <1>8, <1>9, <1>10, <1>11 DEF Next

\* BudgetFiguresAgree of LedgerTools.
LEMMA BudgetFiguresHold ==
  ASSUME Typed, MonthInv, ledger \in [Transactions -> Statuses]
  PROVE  BudgetFiguresAgree
PROOF
<1> SUFFICES ASSUME NEW month \in Months \cup {Current}, NormalizeMonthInput(month) \in Months
             PROVE
      LET given   == SeenMonth(MonthKey("goals", month))
          named   == SeenMonth(MonthKey("review", month))
          detail  == Detail(named.live, named.month)
          health  == HealthCheck(SeenAccounts, detail, SeenMonths, Rows, schedule, today, None)
          review  == BudgetHealth(detail)
          cleanup == BudgetCleanup(RowsFrom(named.month), detail, named.month, None)
          trend   == CategoryTrend(<<detail>>, {c.id : c \in detail.categories})
          budget  == BudgetHealth(Detail(given.live, given.month))
          goals   == GoalProgress(Detail(given.live, given.month))
          booked(live) ==
            {t \in live : /\ MonthOf(Tx[t].date) = MonthOf(named.month)
                          /\ Tx[t].category \in {c.id : c \in Visible(Categories)}}
          between == (booked(given.live) \ booked(named.live))
                       \cup (booked(named.live) \ booked(given.live))
          touched == Cardinality({Tx[t].category : t \in between})
      IN /\ health.overspent = review.overspent
         /\ health.underfunded = review.underfunded
         /\ health.cleanup = cleanup.transactions
         /\ cleanup.overspent = review.overspent
              + Cardinality({c \in Overspent(detail.categories) : ~c.deleted /\ c.hidden})
         /\ trend.periods[1].available = review.available - review.overspentBy
         /\ health.score = 100 => health.status = "healthy" /\ cleanup.transactions.unapproved = 0
         /\ goals.offTrack = budget.underfunded /\ goals.missing = budget.missing
         /\ goals.goals = goals.onTrack + goals.offTrack
         /\ month # Current => budget = review
         /\ given.month <= named.month
         /\ given.month = named.month =>
              /\ budget.available - budget.overspentBy
                   = review.available - review.overspentBy
                       + SumOf(TxAmount, booked(given.live)) - SumOf(TxAmount, booked(named.live))
              /\ budget.overspent - review.overspent \in -touched .. touched
  BY DEF BudgetFiguresAgree
<1> DEFINE given   == SeenMonth(MonthKey("goals", month))
           named   == SeenMonth(MonthKey("review", month))
           detail  == Detail(named.live, named.month)
           health  == HealthCheck(SeenAccounts, detail, SeenMonths, Rows, schedule, today, None)
           review  == BudgetHealth(detail)
           cleanup == BudgetCleanup(RowsFrom(named.month), detail, named.month, None)
           trend   == CategoryTrend(<<detail>>, {c.id : c \in detail.categories})
           budget  == BudgetHealth(Detail(given.live, given.month))
           goals   == GoalProgress(Detail(given.live, given.month))
<1>1. named = SeenMonth(NormalizeMonthInput(month)) /\ given = SeenMonth(month)
  BY DEF MonthKey, AsGiven
<1>2. NormalizeMonthInput(month) # Current /\ CurrentMonth \in Int
  BY StartAssumption, MonthsAreIntegers DEF CurrentMonth, Typed
<1>3. /\ Live \in SUBSET Transactions
      /\ \A m \in Months : OrLive(seen.months[m]) \in SUBSET Transactions
  BY DEF Live, LedgerLive, Transactions, OrLive, Typed, Reads
<1>4. /\ named.month = NormalizeMonthInput(month) /\ named.live \in SUBSET Transactions
      /\ named.month \in Months
  BY <1>1, <1>2, <1>3 DEF SeenMonth
<1>5. month # Current => given = named
  BY <1>1 DEF NormalizeMonthInput
<1>6. /\ given.live \in SUBSET Transactions /\ given.month \in Months
      /\ given.month <= named.month
  <2>1. CASE month # Current
    <3>1. named.month \in Int
      BY <1>4, PlanMonths
    <3> QED
      BY <1>4, <1>5, <2>1, <3>1
  <2>2. CASE month = Current /\ seen.current = None
    <3>1. given = [month |-> CurrentMonth, live |-> Live] /\ named.month = CurrentMonth
      BY <1>1, <1>4, <2>2 DEF SeenMonth, NormalizeMonthInput
    <3> QED
      BY <1>2, <1>3, <1>4, <3>1
  <2>3. CASE month = Current /\ seen.current # None
    <3>1. given = seen.current /\ named.month = CurrentMonth
      BY <1>1, <1>4, <2>3 DEF SeenMonth, NormalizeMonthInput
    <3>2. seen.current \in [month : Months, live : SUBSET Transactions]
      BY <2>3 DEF Typed, MonthReads
    <3> QED
      BY <2>3, <3>1, <3>2 DEF MonthInv
  <2> QED
    BY <2>1, <2>2, <2>3
<1> HIDE DEF given, named
<1>7. /\ health.overspent = review.overspent
      /\ health.underfunded = review.underfunded
      /\ health.cleanup = cleanup.transactions
      /\ cleanup.overspent = review.overspent
           + Cardinality({c \in Overspent(detail.categories) : ~c.deleted /\ c.hidden})
      /\ trend.periods[1].available = review.available - review.overspentBy
      /\ health.score = 100 => health.status = "healthy" /\ cleanup.transactions.unapproved = 0
  BY <1>4, FiguresOfAMonth
<1>8. /\ goals.offTrack = budget.underfunded /\ goals.missing = budget.missing
      /\ goals.goals = goals.onTrack + goals.offTrack
  BY <1>6, FiguresOfAMonth
<1>9. month # Current => budget = review
  BY <1>5
<1> DEFINE between == (BookedIn(given.live, named.month) \ BookedIn(named.live, named.month))
                        \cup (BookedIn(named.live, named.month) \ BookedIn(given.live, named.month))
           touched == Cardinality({Tx[t].category : t \in between})
<1>10. given.month = named.month =>
         /\ budget.available - budget.overspentBy
              = review.available - review.overspentBy
                  + SumOf(TxAmount, BookedIn(given.live, named.month))
                  - SumOf(TxAmount, BookedIn(named.live, named.month))
         /\ budget.overspent - review.overspent \in -touched .. touched
  BY <1>4, <1>6, ReadsApart
<1> HIDE DEF detail, health, review, cleanup, trend, budget, goals
<1> QED
  BY <1>6, <1>7, <1>8, <1>9, <1>10
     DEF given, named, detail, health, review, cleanup, trend, budget, goals, BookedIn,
         ShownCategories

\* What is computed in several places is the same in all of them, in every state: the
\* worth of the plan, the problems of a month, and what the cash still lasts for.
THEOREM FiguresHold == Spec => []FiguresAgree
PROOF
<1> DEFINE Inv == Typed /\ WalkInv /\ MonthInv
<1>1. Init => Inv
  BY InitIsTyped, InitWalks DEF Init, MonthInv
<1>2. Inv /\ [Next]_vars => Inv'
  BY StepIsTyped, StepKeepsWalks, StepKeepsMonth
<1>3. Inv => FiguresAgree
  <2> SUFFICES ASSUME Inv PROVE FiguresAgree
    OBVIOUS
  <2>1. opening \in Openings /\ ledger \in [Transactions -> Statuses]
    BY DEF Typed, WalkInv
  <2>2. seen.accounts \in Reads /\ seen.list \in Reads
    BY DEF Typed
  <2>3. /\ OrLive(seen.accounts) \in SUBSET Transactions
        /\ OrLive(seen.list) \in SUBSET Transactions
    BY <2>2 DEF OrLive, Reads, Live, LedgerLive, Transactions
  <2> QED
    BY <2>1, <2>3, AccountFiguresHold, BudgetFiguresHold, StatusesHold DEF FiguresAgree
<1> QED
  BY <1>1, <1>2, <1>3, PTL DEF Spec

-----------------------------------------------------------------------------
\* The dates of a schedule.

\* No month has more days than 31.
LEMMA MonthsAreShort ==
  ASSUME NEW n \in Int
  PROVE  MonthStart(n + 1) <= MonthStart(n) + 31
PROOF
<1>1. \A k \in 1 .. 11 : DaysBefore[k] \in Int /\ DaysBefore[k + 1] \in Int
                           /\ DaysBefore[k + 1] <= DaysBefore[k] + 31
  BY DEF DaysBefore
<1>2. CASE n % 12 < 11
  <2>1. (n % 12) + 1 \in 1 .. 11
    BY <1>2, MonthNumbers
  <2>2. MonthStart(n + 1) = 365 * (n \div 12) + DaysBefore[((n % 12) + 1) + 1]
    BY <1>2, MonthNumbers DEF MonthStart
  <2>3. MonthStart(n) = 365 * (n \div 12) + DaysBefore[(n % 12) + 1]
    BY DEF MonthStart
  <2> DEFINE k == (n % 12) + 1
             q == n \div 12
  <2>4. k \in 1 .. 11 /\ q \in Int
    BY <2>1
  <2> HIDE DEF k, q
  <2>5. /\ DaysBefore[k] \in Int /\ DaysBefore[k + 1] \in Int
        /\ DaysBefore[k + 1] <= DaysBefore[k] + 31
    BY <1>1, <2>4
  <2>6. 365 * q + DaysBefore[k + 1] <= 365 * q + DaysBefore[k] + 31
    BY <2>4, <2>5
  <2> QED
    BY <2>2, <2>3, <2>6 DEF k, q
<1>3. CASE n % 12 = 11
  <2>1. DaysBefore[12] = 334 /\ DaysBefore[1] = 0
    BY DEF DaysBefore
  <2>2. MonthStart(n) = 365 * (n \div 12) + DaysBefore[12]
    BY <1>3 DEF MonthStart
  <2>3. MonthStart(n + 1) = 365 * ((n \div 12) + 1) + DaysBefore[1]
    BY <1>3, MonthNumbers DEF MonthStart
  <2> DEFINE q == n \div 12
  <2>4. q \in Int
    BY MonthNumbers
  <2> HIDE DEF q
  <2>5. 365 * (q + 1) + 0 <= 365 * q + 334 + 31
    BY <2>4
  <2> QED
    BY <2>1, <2>2, <2>3, <2>5 DEF q
<1> QED
  BY <1>2, <1>3, MonthNumbers

LEMMA MonthsNear ==
  ASSUME NEW n \in Int, NEW j \in Nat
  PROVE  MonthStart(n + j) <= MonthStart(n) + 31 * j
PROOF
<1> DEFINE bad == {i \in Nat : ~(MonthStart(n + i) <= MonthStart(n) + 31 * i)}
<1>1. \A k \in Int : MonthStart(k) \in Int
  BY MonthsAreIntegers
<1> SUFFICES ASSUME bad # {} PROVE FALSE
  OBVIOUS
<1>2. PICK i \in bad : \A k \in bad : i <= k
  BY LeastNatural
<1>3. i \in Nat /\ ~(MonthStart(n + i) <= MonthStart(n) + 31 * i)
  BY <1>2
<1>4. i # 0
  <2>1. i = 0 => n + i = n
    OBVIOUS
  <2> QED
    BY <1>1, <1>3, <2>1
<1>5. i - 1 \in Nat /\ i - 1 \notin bad
  <2>1. i - 1 \in Nat /\ ~(i <= i - 1)
    BY <1>3, <1>4
  <2> HIDE DEF bad
  <2> QED
    BY <1>2, <2>1
<1>6. MonthStart(n + (i - 1)) <= MonthStart(n) + 31 * (i - 1)
  BY <1>5
<1> HIDE DEF bad
<1>7. n + (i - 1) \in Int /\ (n + (i - 1)) + 1 = n + i
  BY <1>3
<1>8. MonthStart(n + i) <= MonthStart(n + (i - 1)) + 31
  BY <1>7, MonthsAreShort
<1>9. MonthStart(n) \in Int /\ MonthStart(n + (i - 1)) \in Int /\ MonthStart(n + i) \in Int
  BY <1>1, <1>3, <1>7
<1> QED
  BY <1>3, <1>6, <1>8, <1>9

\* What lies between two firsts of a month is in the month.
LEMMA MonthOfDay ==
  ASSUME NEW n \in Int, NEW date \in Int, MonthStart(n) <= date, date < MonthStart(n + 1)
  PROVE  MonthOf(date) = n /\ DayOf(date) = date - MonthStart(n)
PROOF
<1> DEFINE m == MonthOf(date)
<1>1. m \in Int /\ m + 1 \in Int /\ n + 1 \in Int
  BY MonthsAreIntegers
<1>2. MonthStart(m) <= date /\ date < MonthStart(m + 1)
  BY DayIsInMonth
<1>3. /\ MonthStart(n) \in Int /\ MonthStart(n + 1) \in Int
      /\ MonthStart(m) \in Int /\ MonthStart(m + 1) \in Int
  BY <1>1, MonthsAreIntegers
<1> HIDE DEF m
<1>4. ~(MonthStart(n + 1) <= MonthStart(m)) /\ ~(MonthStart(m + 1) <= MonthStart(n))
  BY <1>2, <1>3
<1>5. ~(n + 1 <= m) /\ ~(m + 1 <= n)
  BY <1>1, <1>4, MonthOrder
<1>6. m = n
  BY <1>1, <1>5
<1> QED
  BY <1>6 DEF m, DayOf

\* How many days a month has.
LengthOf(n) == MonthStart(n + 1) - MonthStart(n)

\* Where a day of a month is that the month may lack.
Placed(n, day) ==
  /\ MonthStart(n) \in Int /\ OnDay(n, day) \in Int
  /\ LengthOf(n) \in Nat /\ 28 <= LengthOf(n) /\ LengthOf(n) <= 31
  /\ day < LengthOf(n) => OnDay(n, day) = MonthStart(n) + day
  /\ ~(day < LengthOf(n)) => OnDay(n, day) = MonthStart(n) + LengthOf(n) - 1

LEMMA DaysOfAMonth ==
  ASSUME NEW n \in Int, NEW day \in Nat
  PROVE  Placed(n, day)
PROOF
<1>1. MonthStart(n) \in Int /\ MonthStart(n + 1) \in Int
  BY MonthsAreIntegers
<1>2. MonthStart(n) + 28 <= MonthStart(n + 1)
  BY MonthsAscend
<1>3. MonthStart(n + 1) <= MonthStart(n) + 31
  BY MonthsAreShort
<1>4. /\ OnDay(n, day) \in Int
      /\ OnDay(n, day) = IF MonthStart(n) + day < MonthStart(n + 1) THEN MonthStart(n) + day
                         ELSE MonthStart(n + 1) - 1
  BY OnDayIsInMonth
<1> QED
  BY <1>1, <1>2, <1>3, <1>4 DEF LengthOf, Placed

\* The next month starts when a month is over.
LEMMA MonthIsOver ==
  ASSUME NEW n \in Int
  PROVE  /\ MonthStart(n) \in Int /\ MonthStart(n + 1) \in Int
         /\ MonthStart(n + 1) = MonthStart(n) + LengthOf(n)
BY MonthsAreIntegers DEF LengthOf

\* A day that the month may lack is at most three days early.
LEMMA DayIsNear ==
  ASSUME NEW n \in Int, NEW day \in 0 .. 30
  PROVE  /\ MonthStart(n) \in Int /\ OnDay(n, day) \in Int
         /\ MonthStart(n) + day - 3 <= OnDay(n, day) /\ OnDay(n, day) <= MonthStart(n) + day
PROOF
<1>1. day \in Nat /\ day <= 30
  OBVIOUS
<1>2. Placed(n, day)
  BY <1>1, DaysOfAMonth
<1> QED
  BY <1>1, <1>2 DEF Placed

\* A date is on its day of its month.
LEMMA DateIsOnItsDay ==
  ASSUME NEW date \in Int
  PROVE  /\ MonthOf(date) \in Int /\ DayOf(date) \in 0 .. 30
         /\ date = MonthStart(MonthOf(date)) + DayOf(date)
         /\ OnDay(MonthOf(date), DayOf(date)) = date
PROOF
<1> DEFINE m == MonthOf(date)
<1>1. m \in Int /\ MonthStart(m) <= date /\ date < MonthStart(m + 1)
  BY MonthsAreIntegers, DayIsInMonth
<1>2. /\ MonthStart(m) \in Int /\ MonthStart(m + 1) \in Int
      /\ MonthStart(m + 1) <= MonthStart(m) + 31
  BY <1>1, MonthsAreIntegers, MonthsAreShort
<1>3. DayOf(date) = date - MonthStart(m)
  BY DEF DayOf
<1> HIDE DEF m
<1>4. DayOf(date) \in 0 .. 30 /\ date = MonthStart(m) + DayOf(date)
  BY <1>1, <1>2, <1>3
<1>5. OnDay(m, DayOf(date)) = date
  <2>1. DayOf(date) \in Nat /\ DayOf(date) < LengthOf(m)
    BY <1>1, <1>2, <1>3, <1>4 DEF LengthOf
  <2>2. Placed(m, DayOf(date))
    BY <1>1, <2>1, DaysOfAMonth
  <2> QED
    BY <1>4, <2>1, <2>2 DEF Placed
<1> QED
  BY <1>1, <1>4, <1>5 DEF m

\* Twice a month is every 12 to 16 days, and every second time a month later.
LEMMA TwiceIsApart ==
  ASSUME NEW n \in Int, NEW day \in Nat, day <= 30, NEW i \in Nat
  PROVE  /\ TwiceAMonth(n, day, i) \in Int
         /\ TwiceAMonth(n, day, i + 1) \in Int /\ TwiceAMonth(n, day, i + 2) \in Int
         /\ TwiceAMonth(n, day, i + 1) - TwiceAMonth(n, day, i) \in 12 .. 16
         /\ TwiceAMonth(n, day, i + 2) - TwiceAMonth(n, day, i) \in 28 .. 31
PROOF
<1> DEFINE q == i \div 2
           m == n + q
<1>1. /\ q \in Int /\ m \in Int
      /\ i % 2 = 0 => /\ (i + 1) % 2 = 1 /\ (i + 1) \div 2 = q
                      /\ (i + 2) % 2 = 0 /\ (i + 2) \div 2 = q + 1
      /\ i % 2 # 0 => /\ (i + 1) % 2 = 0 /\ (i + 1) \div 2 = q + 1
                      /\ (i + 2) % 2 = 1 /\ (i + 2) \div 2 = q + 1
  OBVIOUS
<1>2. n + q = m /\ n + (q + 1) = m + 1 /\ n + q + 1 = m + 1 /\ n + (q + 1) + 1 = (m + 1) + 1
        /\ m + 1 \in Int /\ (m + 1) + 1 \in Int
  BY <1>1
<1>5. /\ MonthStart(m + 1) = MonthStart(m) + LengthOf(m)
      /\ MonthStart((m + 1) + 1) = MonthStart(m + 1) + LengthOf(m + 1)
  BY <1>1, <1>2, MonthIsOver
<1>3. CASE day < 15
  <2>1. day + 15 \in Nat /\ day + 15 < 30
    BY <1>3
  <2>2. ~(1 = 0)
    OBVIOUS
  <2>3. CASE i % 2 = 0
    <3>1. /\ TwiceAMonth(n, day, i) = OnDay(m, day)
          /\ TwiceAMonth(n, day, i + 1) = OnDay(m, day + 15)
          /\ TwiceAMonth(n, day, i + 2) = OnDay(m + 1, day)
      BY <1>1, <1>2, <1>3, <2>2, <2>3 DEF TwiceAMonth
    <3> HIDE DEF q, m
    <3>2. Placed(m, day) /\ Placed(m, day + 15) /\ Placed(m + 1, day)
      BY <1>1, <1>2, <2>1, DaysOfAMonth
    <3> QED
      BY <1>3, <1>5, <2>1, <3>1, <3>2 DEF Placed
  <2>4. CASE i % 2 # 0
    <3>1. /\ TwiceAMonth(n, day, i) = OnDay(m, day + 15)
          /\ TwiceAMonth(n, day, i + 1) = OnDay(m + 1, day)
          /\ TwiceAMonth(n, day, i + 2) = OnDay(m + 1, day + 15)
      BY <1>1, <1>2, <1>3, <2>2, <2>4 DEF TwiceAMonth
    <3> HIDE DEF q, m
    <3>2. Placed(m, day + 15) /\ Placed(m + 1, day) /\ Placed(m + 1, day + 15)
      BY <1>1, <1>2, <2>1, DaysOfAMonth
    <3>3. OnDay(m + 1, day) = MonthStart(m + 1) + day
      BY <1>3, <3>2 DEF Placed
    <3>4. /\ OnDay(m, day + 15) \in Int /\ OnDay(m + 1, day + 15) \in Int
          /\ OnDay(m + 1, day) - OnDay(m, day + 15) \in 12 .. 16
      BY <1>3, <1>5, <2>1, <3>2, <3>3 DEF Placed
    <3>5. OnDay(m + 1, day + 15) - OnDay(m, day + 15) \in 28 .. 31
      BY <1>5, <2>1, <3>2 DEF Placed
    <3>6. OnDay(m + 1, day) \in Int
      BY <3>2 DEF Placed
    <3> QED
      BY <3>1, <3>4, <3>5, <3>6
  <2> QED
    BY <2>3, <2>4
<1>4. CASE ~(day < 15)
  <2>1. day - 15 \in Nat /\ day - 15 <= 15
    BY <1>4
  <2>2. ~(1 = 0)
    OBVIOUS
  <2>3. CASE i % 2 = 0
    <3>1. /\ TwiceAMonth(n, day, i) = OnDay(m, day)
          /\ TwiceAMonth(n, day, i + 1) = OnDay(m + 1, day - 15)
          /\ TwiceAMonth(n, day, i + 2) = OnDay(m + 1, day)
      BY <1>1, <1>2, <1>4, <2>2, <2>3 DEF TwiceAMonth
    <3> HIDE DEF q, m
    <3>2. Placed(m, day) /\ Placed(m + 1, day - 15) /\ Placed(m + 1, day)
      BY <1>1, <1>2, <2>1, DaysOfAMonth
    <3> QED
      BY <1>4, <1>5, <2>1, <3>1, <3>2 DEF Placed
  <2>4. CASE i % 2 # 0
    <3>1. /\ TwiceAMonth(n, day, i) = OnDay(m + 1, day - 15)
          /\ TwiceAMonth(n, day, i + 1) = OnDay(m + 1, day)
          /\ TwiceAMonth(n, day, i + 2) = OnDay((m + 1) + 1, day - 15)
      BY <1>1, <1>2, <1>4, <2>2, <2>4 DEF TwiceAMonth
    <3> HIDE DEF q, m
    <3>2. Placed(m + 1, day - 15) /\ Placed(m + 1, day) /\ Placed((m + 1) + 1, day - 15)
      BY <1>1, <1>2, <2>1, DaysOfAMonth
    <3> QED
      BY <1>4, <1>5, <2>1, <3>1, <3>2 DEF Placed
  <2> QED
    BY <2>3, <2>4
<1> QED
  BY <1>3, <1>4

\* A scheduled transaction that falls due more than once: every so many days or months,
\* or twice a month.
Recurs(s) ==
  /\ s.first \in Nat
  /\ s.frequency \in DOMAIN DaysBetween \cup DOMAIN MonthsBetween

ByMonths(s) == s.frequency \in DOMAIN MonthsBetween
Twice(s)    == s.frequency = "twiceAMonth"
ByDays(s)   == s.frequency \in DOMAIN DaysBetween \ {"twiceAMonth"}

LEMMA Rhythms ==
  ASSUME NEW s, Recurs(s)
  PROVE  /\ s.frequency # "never"
         /\ ByDays(s) \/ ByMonths(s) \/ Twice(s)
         /\ ByDays(s) =>
              /\ DaysBetween[s.frequency] \in {1, 7, 14, 28}
              /\ (DaysBetween[s.frequency] = 28) = (s.frequency = "every4Weeks")
              /\ s.frequency # "monthly" /\ s.frequency \in DOMAIN DaysBetween
              /\ ~Twice(s) /\ ~ByMonths(s)
         /\ ByMonths(s) =>
              /\ MonthsBetween[s.frequency] \in {1, 2, 3, 4, 6, 12, 24}
              /\ (MonthsBetween[s.frequency] = 1) = (s.frequency = "monthly")
              /\ s.frequency # "every4Weeks" /\ s.frequency \notin DOMAIN DaysBetween
              /\ ~Twice(s)
         /\ Twice(s) =>
              /\ s.frequency \in DOMAIN DaysBetween /\ DaysBetween[s.frequency] = 15
              /\ s.frequency # "monthly" /\ s.frequency # "every4Weeks" /\ ~ByMonths(s)
PROOF
<1>1. CASE ByDays(s)
  BY <1>1 DEF ByDays, ByMonths, Twice, DaysBetween, MonthsBetween
<1>2. CASE ByMonths(s)
  BY <1>2 DEF ByDays, ByMonths, Twice, DaysBetween, MonthsBetween
<1>3. CASE Twice(s)
  BY <1>3 DEF ByDays, ByMonths, Twice, DaysBetween, MonthsBetween
<1>4. ByDays(s) \/ ByMonths(s) \/ Twice(s)
  BY DEF Recurs, ByDays, ByMonths, Twice
<1> QED
  BY <1>1, <1>2, <1>3, <1>4

\* The dates of each.
LEMMA DueByDays ==
  ASSUME NEW s, Recurs(s), ByDays(s), NEW i \in Nat
  PROVE  DueDate(s, i) = s.first + i * DaysBetween[s.frequency] /\ DueDate(s, i) \in Int
PROOF
<1>1. DaysBetween[s.frequency] \in Nat /\ s.first \in Nat /\ ~ByMonths(s) /\ ~Twice(s)
  BY Rhythms DEF Recurs
<1>2. DueDate(s, i) = s.first + i * DaysBetween[s.frequency]
  BY <1>1 DEF DueDate, ByMonths, Twice
<1> QED
  BY <1>1, <1>2

LEMMA DueByMonths ==
  ASSUME NEW s, Recurs(s), ByMonths(s), NEW i \in Nat
  PROVE  LET g == MonthsBetween[s.frequency]
             n == MonthOf(s.first) + i * g
         IN /\ n \in Int /\ DayOf(s.first) \in 0 .. 30 /\ s.first \in Int
            /\ DueDate(s, i) = OnDay(n, DayOf(s.first)) /\ DueDate(s, i) \in Int
            /\ MonthOf(s.first) + (i + 1) * g = n + g
            /\ \A j \in Nat : /\ MonthOf(s.first) + (i + j) * g = n + j * g
                              /\ n + j * g \in Int /\ j * g \in Nat
PROOF
<1> DEFINE g == MonthsBetween[s.frequency]
           a == MonthOf(s.first)
           n == a + i * g
<1>1. g \in {1, 2, 3, 4, 6, 12, 24} /\ s.first \in Int
  BY Rhythms DEF Recurs
<1>2. a \in Int /\ DayOf(s.first) \in 0 .. 30
  BY <1>1, DateIsOnItsDay
<1>3. DueDate(s, i) = OnDay(n, DayOf(s.first))
  BY DEF DueDate, ByMonths
<1> HIDE DEF g, a
<1>4. n \in Int /\ a + (i + 1) * g = n + g
  BY <1>1, <1>2
<1>5. DueDate(s, i) \in Int
  BY <1>2, <1>3, <1>4, DayIsNear
<1>6. \A j \in Nat : a + (i + j) * g = n + j * g /\ n + j * g \in Int /\ j * g \in Nat
  BY <1>1, <1>2
<1> QED
  BY <1>1, <1>2, <1>3, <1>4, <1>5, <1>6 DEF g, a

LEMMA DueTwice ==
  ASSUME NEW s, Recurs(s), Twice(s), NEW i \in Nat
  PROVE  /\ DueDate(s, i) \in Int /\ DueDate(s, i + 1) \in Int /\ DueDate(s, i + 2) \in Int
         /\ DueDate(s, i + 1) - DueDate(s, i) \in 12 .. 16
         /\ DueDate(s, i + 2) - DueDate(s, i) \in 28 .. 31
PROOF
<1>1. s.first \in Int /\ ~ByMonths(s)
  BY Rhythms DEF Recurs
<1>2. \A j : DueDate(s, j) = TwiceAMonth(MonthOf(s.first), DayOf(s.first), j)
  BY <1>1 DEF DueDate, ByMonths, Twice
<1>3. MonthOf(s.first) \in Int /\ DayOf(s.first) \in 0 .. 30
  BY <1>1, DateIsOnItsDay
<1>4. DayOf(s.first) \in Nat /\ DayOf(s.first) <= 30
  BY <1>3
<1> DEFINE T(j) == TwiceAMonth(MonthOf(s.first), DayOf(s.first), j)
<1>5. /\ T(i) \in Int /\ T(i + 1) \in Int /\ T(i + 2) \in Int
      /\ T(i + 1) - T(i) \in 12 .. 16 /\ T(i + 2) - T(i) \in 28 .. 31
  BY <1>3, <1>4, TwiceIsApart
<1> QED
  BY <1>2, <1>5

\* A next date is a later one, and within little more than two years.
LEMMA NextDate ==
  ASSUME NEW s, Recurs(s), NEW i \in Nat
  PROVE  /\ DueDate(s, i) \in Int /\ DueDate(s, i + 1) \in Int
         /\ DueDate(s, i) + 1 <= DueDate(s, i + 1) /\ DueDate(s, i + 1) <= DueDate(s, i) + 750
PROOF
<1>1. i + 1 \in Nat
  OBVIOUS
<1>2. CASE ByDays(s)
  <2> DEFINE g == DaysBetween[s.frequency]
  <2>1. g \in {1, 7, 14, 28} /\ s.first \in Int
    BY <1>2, Rhythms DEF Recurs
  <2>2. DueDate(s, i) = s.first + i * g /\ DueDate(s, i + 1) = s.first + (i + 1) * g
    BY <1>1, <1>2, DueByDays
  <2> HIDE DEF g
  <2>3. i * g \in Int /\ (i + 1) * g = i * g + g
    BY <2>1
  <2> QED
    BY <2>1, <2>2, <2>3
<1>3. CASE ByMonths(s)
  <2> DEFINE g   == MonthsBetween[s.frequency]
             n   == MonthOf(s.first) + i * g
             day == DayOf(s.first)
  <2>1. g \in {1, 2, 3, 4, 6, 12, 24}
    BY <1>3, Rhythms
  <2>2. /\ n \in Int /\ day \in 0 .. 30 /\ DueDate(s, i) = OnDay(n, day)
        /\ MonthOf(s.first) + (i + 1) * g = n + g
    BY <1>3, DueByMonths
  <2>3. DueDate(s, i + 1) = OnDay(n + g, day)
    BY <1>1, <1>3, <2>2, DueByMonths
  <2> HIDE DEF g, n, day
  <2>4. n + g \in Int /\ g \in Nat
    BY <2>1, <2>2
  <2>5. MonthStart(n) + 28 * g <= MonthStart(n + g) /\ MonthStart(n + g) <= MonthStart(n) + 31 * g
    BY <2>2, <2>4, MonthsApart, MonthsNear
  <2>6. /\ MonthStart(n) \in Int /\ OnDay(n, day) \in Int
        /\ MonthStart(n) + day - 3 <= OnDay(n, day) /\ OnDay(n, day) <= MonthStart(n) + day
    BY <2>2, DayIsNear
  <2>7. /\ MonthStart(n + g) \in Int /\ OnDay(n + g, day) \in Int
        /\ MonthStart(n + g) + day - 3 <= OnDay(n + g, day)
        /\ OnDay(n + g, day) <= MonthStart(n + g) + day
    BY <2>2, <2>4, DayIsNear
  <2>8. day \in Int /\ g >= 1 /\ g <= 24
    BY <2>1, <2>2
  <2> QED
    BY <2>2, <2>3, <2>4, <2>5, <2>6, <2>7, <2>8
<1>4. CASE Twice(s)
  BY <1>4, DueTwice
<1> QED
  BY <1>2, <1>3, <1>4, Rhythms

LEMMA FirstDate ==
  ASSUME NEW s, Recurs(s)
  PROVE  DueDate(s, 0) = s.first
PROOF
<1>1. s.first \in Int /\ 0 \in Nat
  BY DEF Recurs
<1>2. MonthOf(s.first) \in Int /\ OnDay(MonthOf(s.first), DayOf(s.first)) = s.first
  BY <1>1, DateIsOnItsDay
<1>3. CASE ByDays(s)
  <2>1. DaysBetween[s.frequency] \in Int
    BY <1>3, Rhythms
  <2> QED
    BY <1>1, <1>3, <2>1, DueByDays
<1>4. CASE ByMonths(s)
  <2>1. MonthsBetween[s.frequency] \in Int
    BY <1>4, Rhythms
  <2>2. MonthOf(s.first) + 0 * MonthsBetween[s.frequency] = MonthOf(s.first)
    BY <1>2, <2>1
  <2> QED
    BY <1>2, <1>4, <2>2 DEF DueDate, ByMonths
<1>5. CASE Twice(s)
  <2>1. ~ByMonths(s)
    BY <1>5, Rhythms
  <2>2. DueDate(s, 0) = TwiceAMonth(MonthOf(s.first), DayOf(s.first), 0)
    BY <1>5, <2>1 DEF DueDate, ByMonths, Twice
  <2>3. 0 % 2 = 0 /\ MonthOf(s.first) + 0 \div 2 = MonthOf(s.first)
    BY <1>2
  <2> QED
    BY <1>2, <2>2, <2>3 DEF TwiceAMonth
<1> QED
  BY <1>3, <1>4, <1>5, Rhythms

\* Two dates are apart by at least a day for each step.
LEMMA DatesAreApart ==
  ASSUME NEW s, Recurs(s), NEW i \in Nat, NEW j \in Nat
  PROVE  /\ DueDate(s, i) \in Int /\ DueDate(s, i + j) \in Int
         /\ DueDate(s, i) + j <= DueDate(s, i + j)
         /\ DueDate(s, i + 1) <= DueDate(s, i) + 750
         /\ DueDate(s, 0) = s.first
         /\ i <= DueDate(s, i)
PROOF
<1>1. \A p \in Nat : DueDate(s, p) \in Int
  BY NextDate
<1>2. ASSUME NEW p \in Nat, NEW q \in Nat
      PROVE  DueDate(s, p) + q <= DueDate(s, p + q)
  <2> DEFINE bad == {k \in Nat : ~(DueDate(s, p) + k <= DueDate(s, p + k))}
  <2> SUFFICES ASSUME bad # {} PROVE FALSE
    OBVIOUS
  <2>1. PICK k \in bad : \A l \in bad : k <= l
    BY LeastNatural
  <2>2. k \in Nat /\ ~(DueDate(s, p) + k <= DueDate(s, p + k))
    BY <2>1
  <2>3. k # 0
    <3>1. k = 0 => p + k = p
      OBVIOUS
    <3> QED
      BY <1>1, <2>2, <3>1
  <2>4. k - 1 \in Nat /\ k - 1 \notin bad
    <3>1. k - 1 \in Nat /\ ~(k <= k - 1)
      BY <2>2, <2>3
    <3> HIDE DEF bad
    <3> QED
      BY <2>1, <3>1
  <2>5. DueDate(s, p) + (k - 1) <= DueDate(s, p + (k - 1))
    BY <2>4
  <2> HIDE DEF bad
  <2>6. p + (k - 1) \in Nat /\ (p + (k - 1)) + 1 = p + k
    BY <2>2, <2>4
  <2>7. DueDate(s, p + (k - 1)) + 1 <= DueDate(s, p + k)
    BY <2>6, NextDate
  <2>8. DueDate(s, p) \in Int /\ DueDate(s, p + (k - 1)) \in Int /\ DueDate(s, p + k) \in Int
    BY <1>1, <2>2, <2>6
  <2> QED
    BY <2>2, <2>5, <2>7, <2>8
<1>3. DueDate(s, 0) = s.first /\ s.first \in Nat
  BY FirstDate DEF Recurs
<1>4. i <= DueDate(s, i)
  <2>1. DueDate(s, 0) + i <= DueDate(s, 0 + i) /\ 0 + i = i
    BY <1>2
  <2>2. DueDate(s, i) \in Int
    BY <1>1
  <2> QED
    BY <1>3, <2>1, <2>2
<1>5. i + j \in Nat
  OBVIOUS
<1>6. DueDate(s, i + 1) <= DueDate(s, i) + 750
  BY NextDate
<1> QED
  BY <1>1, <1>2, <1>3, <1>4, <1>5, <1>6

LEMMA DatesAreNumbers ==
  ASSUME NEW s, Recurs(s), NEW i \in Nat
  PROVE  DueDate(s, i) \in Int /\ i <= DueDate(s, i)
BY DatesAreApart

\* A schedule of the plan, and one whose dates can be counted on from each other.
Plain(s) == s.first \in Nat /\ s.frequency \in Frequencies

LEMMA PlainRecurs ==
  ASSUME NEW s, Plain(s), s.frequency # "never"
  PROVE  Recurs(s)
BY DEF Plain, Recurs, Frequencies

LEMMA CountableRhythm ==
  ASSUME NEW s, Plain(s), s.frequency # "never", Countable(s)
  PROVE  ByDays(s) \/ (ByMonths(s) /\ DayOf(s.first) \in 0 .. 27)
PROOF
<1>1. Recurs(s) /\ s.first \in Int
  BY PlainRecurs DEF Plain
<1>2. DayOf(s.first) \in 0 .. 30
  BY <1>1, DateIsOnItsDay
<1>3. ByMonths(s) => DayOf(s.first) < 28
  BY <1>1, Rhythms DEF Countable, ByMonths
<1>4. ~Twice(s)
  BY DEF Countable, Twice, MonthsBetween
<1> QED
  BY <1>1, <1>2, <1>3, <1>4, Rhythms

\* Dates that are counted on from each other are those counted from the first.
LEMMA DatesFollow ==
  ASSUME NEW s, Plain(s), s.frequency # "never", Countable(s), NEW i \in Nat
  PROVE  IncrementScheduledDate(DueDate(s, i), s.frequency) = DueDate(s, i + 1)
PROOF
<1>1. Recurs(s) /\ i + 1 \in Nat
  BY PlainRecurs
<1>2. CASE ByDays(s)
  <2> DEFINE g == DaysBetween[s.frequency]
  <2>1. g \in {1, 7, 14, 28} /\ s.first \in Int
    BY <1>1, <1>2, Rhythms DEF Recurs
  <2>2. DueDate(s, i) = s.first + i * g /\ DueDate(s, i + 1) = s.first + (i + 1) * g
    BY <1>1, <1>2, DueByDays
  <2>3. IncrementScheduledDate(DueDate(s, i), s.frequency) = DueDate(s, i) + g
    BY <1>2 DEF IncrementScheduledDate, ByDays
  <2> HIDE DEF g
  <2>4. i * g \in Int /\ (i + 1) * g = i * g + g
    BY <2>1
  <2> QED
    BY <2>1, <2>2, <2>3, <2>4
<1>3. CASE ByMonths(s) /\ DayOf(s.first) \in 0 .. 27
  <2> DEFINE g   == MonthsBetween[s.frequency]
             n   == MonthOf(s.first) + i * g
             day == DayOf(s.first)
  <2>1. g \in {1, 2, 3, 4, 6, 12, 24} /\ s.frequency \notin DOMAIN DaysBetween
    BY <1>1, <1>3, Rhythms
  <2>2. /\ n \in Int /\ day \in 0 .. 27 /\ day \in 0 .. 30 /\ DueDate(s, i) = OnDay(n, day)
        /\ MonthOf(s.first) + (i + 1) * g = n + g
    BY <1>1, <1>3, DueByMonths
  <2>3. DueDate(s, i + 1) = OnDay(n + g, day)
    BY <1>1, <1>3, <2>2, DueByMonths
  <2>4. IncrementScheduledDate(DueDate(s, i), s.frequency) = AddMonths(DueDate(s, i), g)
    BY <2>1 DEF IncrementScheduledDate
  <2> HIDE DEF g, n, day
  <2>5. n + g \in Int
    BY <2>1, <2>2
  <2>11. day \in Nat /\ day < 28
    BY <2>2
  <2>12. \A m \in Int : MonthStart(m) \in Int /\ OnDay(m, day) = MonthStart(m) + day
    <3> TAKE m \in Int
    <3>1. Placed(m, day)
      BY <2>11, DaysOfAMonth
    <3> QED
      BY <2>11, <3>1 DEF Placed
  <2>6. DueDate(s, i) = MonthStart(n) + day /\ DueDate(s, i + 1) = MonthStart(n + g) + day
    BY <2>2, <2>3, <2>5, <2>12
  <2>13. /\ MonthStart(n) \in Int /\ MonthStart(n + 1) \in Int
         /\ MonthStart(n) + 28 <= MonthStart(n + 1)
    BY <2>2, MonthsAreIntegers, MonthsAscend
  <2>7. DueDate(s, i) \in Int /\ MonthStart(n) <= DueDate(s, i) /\ DueDate(s, i) < MonthStart(n + 1)
    BY <2>6, <2>11, <2>13
  <2>8. MonthOf(DueDate(s, i)) = n
    BY <2>2, <2>7, MonthOfDay
  <2>9. AddMonths(DueDate(s, i), g) = MonthStart(n + g) + (DueDate(s, i) - MonthStart(n))
    BY <2>8 DEF AddMonths
  <2>10. MonthStart(n) \in Int /\ MonthStart(n + g) \in Int
    BY <2>2, <2>5, MonthsAreIntegers
  <2> QED
    BY <2>2, <2>4, <2>6, <2>9, <2>10
<1> QED
  BY <1>2, <1>3, CountableRhythm

\* A date is counted on by the days between two, or by some months.
LEMMA CountedOn ==
  ASSUME NEW date \in Int, NEW f \in Frequencies, f # "never"
  PROVE  /\ IncrementScheduledDate(date, f) \in Int
         /\ f \in DOMAIN DaysBetween =>
              /\ DaysBetween[f] \in {1, 7, 14, 15, 28}
              /\ IncrementScheduledDate(date, f) = date + DaysBetween[f]
         /\ f \notin DOMAIN DaysBetween =>
              /\ f \in DOMAIN MonthsBetween /\ MonthsBetween[f] \in {1, 2, 3, 4, 6, 12, 24}
              /\ IncrementScheduledDate(date, f) = AddMonths(date, MonthsBetween[f])
              /\ date + 28 <= IncrementScheduledDate(date, f)
PROOF
<1>1. CASE f \in DOMAIN DaysBetween
  <2>1. DaysBetween[f] \in {1, 7, 14, 15, 28}
    BY <1>1 DEF DaysBetween
  <2>2. IncrementScheduledDate(date, f) = date + DaysBetween[f]
    BY <1>1 DEF IncrementScheduledDate
  <2> QED
    BY <1>1, <2>1, <2>2
<1>2. CASE f \notin DOMAIN DaysBetween
  <2> DEFINE g == MonthsBetween[f]
             n == MonthOf(date)
  <2>1. f \in DOMAIN MonthsBetween
    BY <1>2 DEF Frequencies
  <2>2. g \in {1, 2, 3, 4, 6, 12, 24}
    BY <2>1 DEF MonthsBetween
  <2>3. IncrementScheduledDate(date, f) = AddMonths(date, g)
    BY <1>2 DEF IncrementScheduledDate
  <2>4. AddMonths(date, g) = MonthStart(n + g) + (date - MonthStart(n))
    BY DEF AddMonths
  <2>5. n \in Int
    BY MonthsAreIntegers
  <2> HIDE DEF g, n
  <2>6. n + g \in Int /\ g \in Nat
    BY <2>2, <2>5
  <2>7. /\ MonthStart(n) \in Int /\ MonthStart(n + g) \in Int
        /\ MonthStart(n) + 28 * g <= MonthStart(n + g)
    BY <2>5, <2>6, MonthsAreIntegers, MonthsApart
  <2>8. AddMonths(date, g) \in Int /\ date + 28 <= AddMonths(date, g)
    BY <2>2, <2>4, <2>7
  <2> QED
    BY <1>2, <2>1, <2>2, <2>3, <2>8 DEF g
<1> QED
  BY <1>1, <1>2

\* The tools find the dates that are counted on, as far as they look.
LEMMA CountedDates ==
  ASSUME NEW first \in Int, NEW f \in Frequencies, f # "never", NEW limit \in Int,
         NEW c \in [Nat -> Int], c[0] = first,
         \A k \in Nat : c[k + 1] = IncrementScheduledDate(c[k], f)
  PROVE  ScheduledDates(first, f, limit) = {d \in {c[k] : k \in Nat} : d <= limit}
PROOF
<1> DEFINE eq(x)  == x = [k \in Nat |-> IF k = 0 THEN first
                                        ELSE IncrementScheduledDate(x[k - 1], f)]
           cursor == CHOOSE x : eq(x)
           gap    == IF f \in DOMAIN DaysBetween THEN DaysBetween[f] ELSE 28
           steps  == 0 .. (limit - first) \div gap
<1>1. \A k \in Nat : k # 0 => k - 1 \in Nat /\ c[k] = IncrementScheduledDate(c[k - 1], f)
  <2> SUFFICES ASSUME NEW k \in Nat, k # 0
               PROVE  k - 1 \in Nat /\ c[k] = IncrementScheduledDate(c[k - 1], f)
    OBVIOUS
  <2>1. k - 1 \in Nat /\ (k - 1) + 1 = k
    OBVIOUS
  <2>2. c[(k - 1) + 1] = IncrementScheduledDate(c[k - 1], f)
    BY <2>1
  <2> QED
    BY <2>1, <2>2
<1>2. eq(c)
  <2>1. \A k \in Nat : c[k] = IF k = 0 THEN first ELSE IncrementScheduledDate(c[k - 1], f)
    BY <1>1
  <2>2. c = [k \in Nat |-> c[k]]
    OBVIOUS
  <2> QED
    BY <2>1, <2>2
<1>3. eq(cursor)
  <2> HIDE DEF eq
  <2> QED
    BY <1>2
<1>4. ScheduledDates(first, f, limit) = {d \in {cursor[k] : k \in steps} : d <= limit}
  <2>1. CASE f \in DOMAIN DaysBetween
    BY <2>1 DEF ScheduledDates
  <2>2. CASE f \notin DOMAIN DaysBetween
    BY <2>2 DEF ScheduledDates
  <2> QED
    BY <2>1, <2>2
<1> HIDE DEF cursor
<1>5. cursor[0] = first
  BY <1>3
<1>6. \A k \in Nat : k # 0 => cursor[k] = IncrementScheduledDate(cursor[k - 1], f)
  BY <1>3
<1> HIDE DEF eq
<1>7. \A k \in Nat : cursor[k] = c[k]
  <2> DEFINE off == {k \in Nat : cursor[k] # c[k]}
  <2> SUFFICES ASSUME off # {} PROVE FALSE
    OBVIOUS
  <2>1. PICK k \in off : \A j \in off : k <= j
    BY LeastNatural
  <2>2. k \in Nat /\ k # 0
    BY <1>5
  <2>3. k - 1 \in Nat /\ k - 1 \notin off
    <3>1. k - 1 \in Nat /\ ~(k <= k - 1)
      BY <2>2
    <3> HIDE DEF off
    <3> QED
      BY <2>1, <3>1
  <2>4. cursor[k - 1] = c[k - 1]
    BY <2>3
  <2>5. cursor[k] = c[k]
    BY <1>1, <1>6, <2>2, <2>4
  <2> QED
    BY <2>5
<1>8. gap \in {1, 7, 14, 15, 28} /\ \A k \in Nat : c[k] + gap <= c[k + 1]
  <2>1. gap \in {1, 7, 14, 15, 28}
    BY CountedOn
  <2>2. ASSUME NEW k \in Nat
        PROVE  c[k] + gap <= c[k + 1]
    <3>1. c[k] \in Int /\ c[k + 1] = IncrementScheduledDate(c[k], f)
      OBVIOUS
    <3> HIDE DEF gap
    <3>2. c[k] + gap <= IncrementScheduledDate(c[k], f)
      BY <3>1, CountedOn DEF gap
    <3> QED
      BY <3>1, <3>2
  <2> QED
    BY <2>1, <2>2
<1> HIDE DEF gap
<1>9. \A k \in Nat : first + gap * k <= c[k]
  <2> DEFINE b   == [k \in Nat |-> first + gap * k]
             bad == {k \in Nat : ~(b[k] <= c[k])}
  <2>0. \A k \in Nat : b[k] = first + gap * k
    OBVIOUS
  <2> HIDE DEF b
  <2> SUFFICES ASSUME bad # {} PROVE FALSE
    BY <2>0
  <2>1. PICK k \in bad : \A j \in bad : k <= j
    BY LeastNatural
  <2>2. k \in Nat /\ ~(first + gap * k <= c[k])
    BY <2>0, <2>1
  <2>3. k # 0
    BY <1>8, <2>2
  <2>4. k - 1 \in Nat /\ k - 1 \notin bad
    <3>1. k - 1 \in Nat /\ ~(k <= k - 1)
      BY <2>2, <2>3
    <3> HIDE DEF bad
    <3> QED
      BY <2>1, <3>1
  <2>5. first + gap * (k - 1) <= c[k - 1]
    <3>1. b[k - 1] <= c[k - 1]
      <4> SUFFICES ASSUME ~(b[k - 1] <= c[k - 1]) PROVE FALSE
        OBVIOUS
      <4>1. k - 1 \in bad
        BY <2>4
      <4> QED
        BY <2>4, <4>1
    <3> QED
      BY <2>0, <2>4, <3>1
  <2> HIDE DEF bad
  <2>6. c[k - 1] + gap <= c[k]
    <3>1. (k - 1) + 1 = k
      BY <2>2
    <3> QED
      BY <1>8, <2>4, <3>1
  <2>7. gap * k = gap * (k - 1) + gap /\ gap * (k - 1) \in Int /\ c[k] \in Int /\ c[k - 1] \in Int
    BY <1>8, <2>2, <2>4
  <2> QED
    BY <1>8, <2>2, <2>5, <2>6, <2>7
<1>10. ASSUME NEW k \in Nat, c[k] <= limit
       PROVE  k \in steps
  <2>1. gap * k <= limit - first
    <3>1. c[k] \in Int /\ gap * k \in Int /\ first + gap * k <= c[k]
      BY <1>8, <1>9
    <3> QED
      BY <1>10, <3>1
  <2>2. k <= (limit - first) \div gap /\ (limit - first) \div gap \in Int
    BY <1>8, <2>1
  <2> QED
    BY <2>2
<1>11. steps \subseteq Nat
  BY <1>8
<1> HIDE DEF steps
<1>12. {d \in {cursor[k] : k \in steps} : d <= limit} = {d \in {c[k] : k \in Nat} : d <= limit}
  BY <1>7, <1>10, <1>11
<1> QED
  BY <1>4, <1>12

\* Counting on by months keeps the day, until a month lacks it: from then on it is one
\* of the first days of the month that follows.
LEMMA MonthsCounted ==
  ASSUME NEW first \in Int, NEW g \in {1, 2, 3, 4, 6, 12, 24}
  PROVE  \E c \in [Nat -> Int] :
           /\ c[0] = first
           /\ \A k \in Nat : c[k + 1] = AddMonths(c[k], g)
           /\ \A k \in Nat :
                \/ c[k] = MonthStart(MonthOf(first) + k * g) + DayOf(first)
                \/ \E y \in 0 .. 2 :
                     /\ y <= DayOf(first) - 28
                     /\ c[k] = MonthStart((MonthOf(first) + k * g) + 1) + y
PROOF
<1> DEFINE a       == MonthOf(first)
           x       == DayOf(first)
           m(k)    == a + k * g
           lack(k) == x - (MonthStart(m(k) + 1) - MonthStart(m(k)))
           over    == {k \in Nat : lack(k) >= 0}
           gone(k) == \E j \in over : j < k
           least   == CHOOSE j \in over : \A k \in over : j <= k
           y       == lack(least)
           c       == [k \in Nat |-> IF gone(k) THEN MonthStart(m(k) + 1) + y
                                     ELSE MonthStart(m(k)) + x]
<1>1. a \in Int /\ x \in 0 .. 30 /\ first = MonthStart(a) + x
  BY DateIsOnItsDay
<1>2. \A k \in Nat : m(k) \in Int /\ m(k) + 1 \in Int /\ m(k + 1) = m(k) + g
                       /\ m(k + 1) + 1 = (m(k) + 1) + g /\ (m(k) + 1) + 1 \in Int
  <2> HIDE DEF a
  <2> QED
    BY <1>1
<1>3. m(0) = a
  <2> HIDE DEF a
  <2> QED
    BY <1>1
<1> HIDE DEF m, a, x
<1>4. \A k \in Nat : /\ MonthStart(m(k)) \in Int /\ MonthStart(m(k) + 1) \in Int
                     /\ MonthStart(m(k)) + 28 <= MonthStart(m(k) + 1)
                     /\ lack(k) \in Int /\ lack(k) <= x - 28
  <2> SUFFICES ASSUME NEW k \in Nat
               PROVE  /\ MonthStart(m(k)) \in Int /\ MonthStart(m(k) + 1) \in Int
                      /\ MonthStart(m(k)) + 28 <= MonthStart(m(k) + 1)
                      /\ lack(k) \in Int /\ lack(k) <= x - 28
    OBVIOUS
  <2>1. /\ MonthStart(m(k)) \in Int /\ MonthStart(m(k) + 1) \in Int
        /\ MonthStart(m(k)) + 28 <= MonthStart(m(k) + 1)
    BY <1>2, MonthsAreIntegers, MonthsAscend
  <2> QED
    BY <1>1, <2>1
<1>5. ASSUME over # {}
      PROVE  /\ least \in over /\ \A k \in over : least <= k
             /\ y \in 0 .. 2 /\ y <= x - 28
  <2>1. over \in SUBSET Nat
    OBVIOUS
  <2>2. \E j \in over : \A k \in over : j <= k
    <3> HIDE DEF over
    <3> QED
      BY <1>5, <2>1, LeastNatural
  <2>3. least \in over /\ \A k \in over : least <= k
    <3> HIDE DEF over
    <3> QED
      BY <2>2
  <2>4. least \in Nat /\ y >= 0
    BY <2>3
  <2> QED
    BY <1>1, <1>4, <2>3, <2>4
<1>6. ~gone(0)
  OBVIOUS
<1>7. ASSUME NEW k \in Nat, gone(k)
      PROVE  /\ gone(k + 1) /\ c[k] = MonthStart(m(k) + 1) + y /\ c[k] \in Int
             /\ c[k + 1] = AddMonths(c[k], g)
  <2>1. PICK j \in over : j < k
    BY <1>7
  <2>2. j < k + 1 /\ k + 1 \in Nat
    BY <2>1
  <2>3. gone(k + 1)
    BY <2>1, <2>2
  <2>4. over # {}
    BY <2>1
  <2>5. y \in 0 .. 2
    BY <1>5, <2>4
  <2>6. c[k] = MonthStart(m(k) + 1) + y /\ c[k + 1] = MonthStart(m(k + 1) + 1) + y
    BY <1>7, <2>2, <2>3
  <2> HIDE DEF y, c, gone, over
  <2>7. /\ MonthStart(m(k) + 1) \in Int /\ MonthStart((m(k) + 1) + 1) \in Int
        /\ MonthStart(m(k) + 1) + 28 <= MonthStart((m(k) + 1) + 1)
    BY <1>2, MonthsAreIntegers, MonthsAscend
  <2>8. /\ c[k] \in Int /\ MonthStart(m(k) + 1) <= c[k] /\ c[k] < MonthStart((m(k) + 1) + 1)
    BY <2>5, <2>6, <2>7
  <2>9. MonthOf(c[k]) = m(k) + 1
    BY <1>2, <2>8, MonthOfDay
  <2>10. AddMonths(c[k], g) = MonthStart((m(k) + 1) + g) + (c[k] - MonthStart(m(k) + 1))
    BY <2>9 DEF AddMonths
  <2>11. AddMonths(c[k], g) = MonthStart(m(k + 1) + 1) + (c[k] - MonthStart(m(k) + 1))
    BY <1>2, <2>10
  <2>12. c[k] - MonthStart(m(k) + 1) = y
    BY <2>5, <2>6, <2>7
  <2> QED
    BY <2>3, <2>6, <2>8, <2>11, <2>12
<1>8. ASSUME NEW k \in Nat, ~gone(k)
      PROVE  /\ c[k] = MonthStart(m(k)) + x /\ c[k] \in Int
             /\ c[k + 1] = AddMonths(c[k], g)
  <2>1. c[k] = MonthStart(m(k)) + x /\ c[k] \in Int
    BY <1>1, <1>4, <1>8
  <2>2. k + 1 \in Nat /\ m(k + 1) \in Int /\ MonthStart(m(k + 1)) \in Int
    <3>1. k + 1 \in Nat
      OBVIOUS
    <3> QED
      BY <1>2, <1>4, <3>1
  <2>3. CASE k \notin over
    <3>1. lack(k) < 0
      BY <1>4, <2>3
    <3>2. ~gone(k + 1)
      <4> SUFFICES ASSUME NEW j \in over, j < k + 1 PROVE FALSE
        OBVIOUS
      <4>1. j \in Nat /\ ~(j < k)
        BY <1>8
      <4>2. j = k
        BY <4>1
      <4> QED
        BY <2>3, <4>2
    <3>3. c[k + 1] = MonthStart(m(k + 1)) + x
      BY <2>2, <3>2
    <3>4. MonthStart(m(k)) <= c[k] /\ c[k] < MonthStart(m(k) + 1)
      BY <1>1, <1>4, <2>1, <3>1
    <3> HIDE DEF c, gone, over, lack
    <3>5. MonthOf(c[k]) = m(k)
      BY <1>2, <2>1, <3>4, MonthOfDay
    <3>6. AddMonths(c[k], g) = MonthStart(m(k) + g) + (c[k] - MonthStart(m(k)))
      BY <3>5 DEF AddMonths
    <3>7. AddMonths(c[k], g) = MonthStart(m(k + 1)) + (c[k] - MonthStart(m(k)))
      BY <1>2, <3>6
    <3>8. c[k] - MonthStart(m(k)) = x
      BY <1>1, <1>4, <2>1
    <3> QED
      BY <2>1, <3>3, <3>7, <3>8
  <2>4. CASE k \in over
    <3>1. over # {} /\ lack(k) >= 0
      BY <2>4
    <3>2. least \in over /\ least <= k /\ y \in 0 .. 2
      BY <1>5, <2>4, <3>1
    <3>3. least = k
      <4>1. least \in Nat /\ ~(least < k)
        BY <1>8, <3>2
      <4> HIDE DEF least
      <4> QED
        BY <3>2, <4>1
    <3>4. y = lack(k)
      BY <3>3
    <3>5. gone(k + 1)
      <4>1. k < k + 1
        OBVIOUS
      <4> QED
        BY <2>4, <4>1
    <3>6. c[k + 1] = MonthStart(m(k + 1) + 1) + y
      BY <2>2, <3>5
    <3>7. /\ MonthStart(m(k) + 1) + 28 <= MonthStart((m(k) + 1) + 1)
          /\ MonthStart((m(k) + 1) + 1) \in Int
      BY <1>2, MonthsAreIntegers, MonthsAscend
    <3>8. lack(k) = x - (MonthStart(m(k) + 1) - MonthStart(m(k)))
      OBVIOUS
    <3> HIDE DEF c, gone, over, lack, y, least
    <3>9. c[k] = MonthStart(m(k) + 1) + y
      BY <1>1, <1>4, <2>1, <3>2, <3>4, <3>8
    <3>10. MonthStart(m(k) + 1) <= c[k] /\ c[k] < MonthStart((m(k) + 1) + 1)
      BY <1>4, <3>2, <3>7, <3>9
    <3>11. MonthOf(c[k]) = m(k) + 1
      BY <1>2, <2>1, <3>10, MonthOfDay
    <3>12. AddMonths(c[k], g) = MonthStart((m(k) + 1) + g) + (c[k] - MonthStart(m(k) + 1))
      BY <3>11 DEF AddMonths
    <3>13. AddMonths(c[k], g) = MonthStart(m(k + 1) + 1) + (c[k] - MonthStart(m(k) + 1))
      BY <1>2, <3>12
    <3>14. c[k] - MonthStart(m(k) + 1) = y
      BY <1>4, <3>2, <3>9
    <3> QED
      BY <2>1, <3>6, <3>13, <3>14
  <2> QED
    BY <2>3, <2>4
<1>9. c \in [Nat -> Int]
  <2>1. \A k \in Nat : c[k] \in Int
    BY <1>7, <1>8
  <2> QED
    BY <2>1
<1>10. c[0] = first
  <2>1. 0 \in Nat
    OBVIOUS
  <2>2. c[0] = MonthStart(m(0)) + x
    BY <1>6, <2>1
  <2> QED
    BY <1>1, <1>3, <2>2
<1>11. \A k \in Nat : c[k + 1] = AddMonths(c[k], g)
  BY <1>7, <1>8
<1>12. \A k \in Nat : \/ c[k] = MonthStart(m(k)) + x
                      \/ \E z \in 0 .. 2 : z <= x - 28 /\ c[k] = MonthStart(m(k) + 1) + z
  <2> SUFFICES ASSUME NEW k \in Nat, gone(k)
               PROVE  \E z \in 0 .. 2 : z <= x - 28 /\ c[k] = MonthStart(m(k) + 1) + z
    BY <1>8
  <2>1. over # {}
    OBVIOUS
  <2>2. y \in 0 .. 2 /\ y <= x - 28
    BY <1>5, <2>1
  <2>3. c[k] = MonthStart(m(k) + 1) + y
    BY <1>7
  <2> HIDE DEF y, c
  <2> QED
    BY <2>2, <2>3
<1> HIDE DEF c
<1> QED
  BY <1>9, <1>10, <1>11, <1>12 DEF m, a, x

\* So whatever the rhythm, there are dates to be counted on.
LEMMA SomeDates ==
  ASSUME NEW first \in Int, NEW f \in Frequencies, f # "never"
  PROVE  \E c \in [Nat -> Int] : /\ c[0] = first
                                 /\ \A k \in Nat : c[k + 1] = IncrementScheduledDate(c[k], f)
PROOF
<1>1. CASE f \in DOMAIN DaysBetween
  <2> DEFINE g == DaysBetween[f]
             c == [k \in Nat |-> first + k * g]
  <2>1. g \in {1, 7, 14, 15, 28}
    BY <1>1, CountedOn
  <2> HIDE DEF g
  <2>2. \A k \in Nat : k * g \in Int /\ (k + 1) * g = k * g + g /\ k + 1 \in Nat
    BY <2>1
  <2>3. c \in [Nat -> Int] /\ c[0] = first
    BY <2>1, <2>2
  <2>4. \A k \in Nat : c[k + 1] = c[k] + g
    BY <2>1, <2>2
  <2> HIDE DEF c
  <2>5. \A k \in Nat : c[k + 1] = IncrementScheduledDate(c[k], f)
    BY <1>1, <2>3, <2>4, CountedOn DEF g
  <2> QED
    BY <2>3, <2>5
<1>2. CASE f \notin DOMAIN DaysBetween
  <2> DEFINE g == MonthsBetween[f]
  <2>1. g \in {1, 2, 3, 4, 6, 12, 24}
    BY <1>2, CountedOn
  <2> HIDE DEF g
  <2>2. PICK c \in [Nat -> Int] :
          /\ c[0] = first
          /\ \A k \in Nat : c[k + 1] = AddMonths(c[k], g)
          /\ \A k \in Nat :
               \/ c[k] = MonthStart(MonthOf(first) + k * g) + DayOf(first)
               \/ \E y \in 0 .. 2 :
                    /\ y <= DayOf(first) - 28
                    /\ c[k] = MonthStart((MonthOf(first) + k * g) + 1) + y
    BY <2>1, MonthsCounted
  <2>3. \A k \in Nat : c[k + 1] = IncrementScheduledDate(c[k], f)
    BY <1>2, <2>2 DEF IncrementScheduledDate, g
  <2> QED
    BY <2>2, <2>3
<1> QED
  BY <1>1, <1>2

\* What falls due in a window are dates in it, the next one among them.
LEMMA OccurrencesAre ==
  ASSUME NEW s, Plain(s), s.next \in Int, NEW from \in Int, NEW days \in Int
  PROVE  /\ Occurrences(s, from, days) \subseteq from .. from + days
         /\ ~s.transfer /\ s.next \in from .. from + days => s.next \in Occurrences(s, from, days)
PROOF
<1> DEFINE limit == from + days
           found == ScheduledDates(s.next, s.frequency, limit)
<1>1. limit \in Int
  OBVIOUS
<1>2. /\ \A d \in found : d \in Int /\ d <= limit
      /\ s.next <= limit => s.next \in found
  <2> HIDE DEF limit
  <2>1. CASE s.frequency = "never"
    <3>1. found = {d \in {s.next} : d <= limit}
      BY <2>1 DEF ScheduledDates
    <3> QED
      BY <3>1
  <2>2. CASE s.frequency # "never"
    <3>1. s.frequency \in Frequencies
      BY DEF Plain
    <3>2. PICK c \in [Nat -> Int] :
            /\ c[0] = s.next
            /\ \A k \in Nat : c[k + 1] = IncrementScheduledDate(c[k], s.frequency)
      BY <2>2, <3>1, SomeDates
    <3>3. found = {d \in {c[k] : k \in Nat} : d <= limit}
      BY <1>1, <2>2, <3>1, <3>2, CountedDates
    <3>4. 0 \in Nat
      OBVIOUS
    <3> HIDE DEF found
    <3> QED
      BY <3>2, <3>3, <3>4
  <2> QED
    BY <2>1, <2>2
<1>3. Occurrences(s, from, days) = IF s.transfer THEN {} ELSE {d \in found : d >= from}
  BY DEF Occurrences
<1> HIDE DEF found
<1> QED
  BY <1>1, <1>2, <1>3

\* The tools find the later dates of a schedule that can be counted on.
LEMMA LaterDates ==
  ASSUME NEW s, Plain(s), s.frequency # "never", Countable(s), NEW i \in Nat, NEW limit \in Int
  PROVE  ScheduledDates(DueDate(s, i), s.frequency, limit)
           = {d \in {DueDate(s, i + k) : k \in Nat} : d <= limit}
PROOF
<1> DEFINE c == [k \in Nat |-> DueDate(s, i + k)]
<1>1. \A k \in Nat : i + k \in Nat /\ i + (k + 1) = (i + k) + 1 /\ k + 1 \in Nat
  OBVIOUS
<1>2. \A k \in Nat : c[k] = DueDate(s, i + k)
  OBVIOUS
<1>3. c \in [Nat -> Int]
  <2>1. \A k \in Nat : DueDate(s, i + k) \in Int
    BY <1>1, PlainRecurs, DatesAreNumbers
  <2> QED
    BY <2>1
<1>4. c[0] = DueDate(s, i)
  <2>1. 0 \in Nat /\ i + 0 = i
    OBVIOUS
  <2> QED
    BY <1>2, <2>1
<1>5. \A k \in Nat : c[k + 1] = IncrementScheduledDate(c[k], s.frequency)
  BY <1>1, DatesFollow
<1> HIDE DEF c
<1>6. DueDate(s, i) \in Int /\ s.frequency \in Frequencies
  BY PlainRecurs, DatesAreNumbers DEF Plain
<1>7. ScheduledDates(DueDate(s, i), s.frequency, limit) = {d \in {c[k] : k \in Nat} : d <= limit}
  BY <1>3, <1>4, <1>5, <1>6, CountedDates
<1> QED
  BY <1>2, <1>7

\* Everything that ever falls due.
AllDue(s) == IF s.frequency = "never" THEN {s.first} ELSE {DueDate(s, i) : i \in Nat}

\* The next date of s is the first that is not before a date.
NextDue(s, date) ==
  IF s.frequency = "never" THEN s.next = s.first
  ELSE \E i \in Nat : s.next = DueDate(s, i) /\ (i # 0 => DueDate(s, i - 1) < date)

\* What falls due within a time is told from any next date that was not later.
LEMMA DatesFromNext ==
  ASSUME NEW s, Plain(s), Countable(s), NEW date \in Int, NextDue(s, date),
         NEW from \in Int, date <= from, NEW limit \in Int
  PROVE  {d \in ScheduledDates(s.next, s.frequency, limit) : d >= from}
           = {d \in AllDue(s) : from <= d /\ d <= limit}
PROOF
<1>1. CASE s.frequency = "never"
  <2>1. ScheduledDates(s.first, s.frequency, limit) = {d \in {s.first} : d <= limit}
    BY <1>1 DEF ScheduledDates
  <2>2. AllDue(s) = {s.first} /\ s.next = s.first /\ s.first \in Int
    BY <1>1 DEF AllDue, NextDue, Plain
  <2> QED
    BY <2>1, <2>2
<1>2. CASE s.frequency # "never"
  <2>1. PICK i \in Nat : s.next = DueDate(s, i) /\ (i # 0 => DueDate(s, i - 1) < date)
    BY <1>2 DEF NextDue
  <2>2. ScheduledDates(s.next, s.frequency, limit)
          = {d \in {DueDate(s, i + k) : k \in Nat} : d <= limit}
    <3>1. ScheduledDates(DueDate(s, i), s.frequency, limit)
            = {d \in {DueDate(s, i + k) : k \in Nat} : d <= limit}
      BY <1>2, LaterDates
    <3> QED
      BY <2>1, <3>1
  <2>3. Recurs(s)
    BY <1>2, PlainRecurs
  <2>4. \A j \in Nat : DueDate(s, j) \in Int
    BY <2>3, DatesAreNumbers
  <2>5. ASSUME NEW j \in Nat, from <= DueDate(s, j)
        PROVE  \E k \in Nat : j = i + k
    <3>1. CASE i <= j
      <4>1. j - i \in Nat /\ j = i + (j - i)
        BY <3>1
      <4> QED
        BY <4>1
    <3>2. CASE ~(i <= j)
      <4>1. i # 0 /\ i - 1 \in Nat /\ (i - 1) - j \in Nat /\ j + ((i - 1) - j) = i - 1
        BY <3>2
      <4>2. DueDate(s, j) + ((i - 1) - j) <= DueDate(s, j + ((i - 1) - j))
        BY <2>3, <4>1, DatesAreApart
      <4>3. DueDate(s, j) <= DueDate(s, i - 1)
        BY <2>4, <4>1, <4>2
      <4> QED
        BY <2>1, <2>4, <2>5, <4>1, <4>3
    <3> QED
      BY <3>1, <3>2
  <2>6. AllDue(s) = {DueDate(s, j) : j \in Nat}
    BY <1>2 DEF AllDue
  <2>7. ASSUME NEW d \in AllDue(s), from <= d, d <= limit
        PROVE  d \in {e \in ScheduledDates(s.next, s.frequency, limit) : e >= from}
    <3>1. PICK j \in Nat : d = DueDate(s, j)
      BY <2>6
    <3>2. PICK k \in Nat : j = i + k
      BY <2>5, <2>7, <3>1
    <3>3. d \in {DueDate(s, i + l) : l \in Nat} /\ d \in Int
      BY <2>4, <3>1, <3>2
    <3> QED
      BY <2>2, <2>7, <3>3
  <2>8. ASSUME NEW d \in ScheduledDates(s.next, s.frequency, limit), d >= from
        PROVE  d \in {e \in AllDue(s) : from <= e /\ e <= limit}
    <3>1. PICK k \in Nat : d = DueDate(s, i + k) /\ d <= limit
      BY <2>2
    <3>2. i + k \in Nat
      OBVIOUS
    <3>3. d \in AllDue(s) /\ d \in Int
      BY <2>4, <2>6, <3>1, <3>2
    <3> QED
      BY <2>8, <3>1, <3>3
  <2> QED
    BY <2>7, <2>8
<1> QED
  BY <1>1, <1>2

\* The dates up to a limit.
LEMMA DatesUpTo ==
  ASSUME NEW s, Plain(s), NEW limit \in Int
  PROVE  DueDates(s, limit) = {d \in AllDue(s) : d <= limit}
PROOF
<1>1. CASE s.frequency = "never"
  BY <1>1 DEF DueDates, AllDue
<1>2. CASE s.frequency # "never"
  <2>1. DueDates(s, limit) = {d \in {DueDate(s, i) : i \in 0 .. limit} : d <= limit}
    BY <1>2 DEF DueDates
  <2>2. AllDue(s) = {DueDate(s, i) : i \in Nat}
    BY <1>2 DEF AllDue
  <2>3. \A i \in Nat : DueDate(s, i) \in Int /\ i <= DueDate(s, i)
    BY <1>2, PlainRecurs, DatesAreApart
  <2>4. \A i \in Nat : DueDate(s, i) <= limit => i \in 0 .. limit
    BY <2>3
  <2> QED
    BY <2>1, <2>2, <2>4
<1> QED
  BY <1>1, <1>2

\* Some date is the first that is not before a given one.
LEMMA SomeDateIsNext ==
  ASSUME NEW s, Recurs(s), NEW date \in Nat, s.first < date
  PROVE  \E i \in Nat : /\ i # 0 /\ DueDate(s, i - 1) < date
                        /\ DueDate(s, i) >= date /\ DueDate(s, i) <= date + 800
PROOF
<1> DEFINE reached == {i \in Nat : DueDate(s, i) >= date}
<1>1. ASSUME NEW i \in Nat
      PROVE  DueDate(s, i) \in Int /\ i <= DueDate(s, i)
  BY DatesAreNumbers
<1>2. date \in reached
  BY <1>1
<1>3. PICK i \in reached : \A j \in reached : i <= j
  <2>1. reached \in SUBSET Nat /\ reached # {}
    BY <1>2
  <2> HIDE DEF reached
  <2> QED
    BY <2>1, LeastNatural
<1>4. i # 0
  <2>1. DueDate(s, 0) = s.first /\ s.first \in Int
    BY DatesAreApart DEF Recurs
  <2> QED
    BY <1>3, <2>1
<1>5. i \in Nat /\ i - 1 \in Nat /\ i - 1 \notin reached /\ (i - 1) + 1 = i
  <2>1. i \in Nat /\ i - 1 \in Nat /\ ~(i <= i - 1) /\ (i - 1) + 1 = i
    BY <1>3, <1>4
  <2> HIDE DEF reached
  <2> QED
    BY <1>3, <2>1
<1>6. DueDate(s, i - 1) < date
  BY <1>1, <1>5
<1>7. DueDate(s, i) <= DueDate(s, i - 1) + 750
  BY <1>5, DatesAreApart
<1>8. DueDate(s, i) >= date /\ DueDate(s, i) \in Int /\ DueDate(s, i - 1) \in Int
  BY <1>1, <1>3, <1>5
<1> QED
  BY <1>4, <1>5, <1>6, <1>7, <1>8

\* A scheduled transaction as the plan shows it at a date.
Fields == {"id", "first", "next", "frequency", "amount", "transfer", "deleted"}

Shown(s, date) ==
  /\ Plain(s) /\ s.amount \in Int /\ s.next \in Int /\ s.first >= Today
  /\ Fields \subseteq DOMAIN s
  /\ NextDue(s, date)

\* Two states of one scheduled transaction, as far as they matter at a date.
Same(x, y, date) ==
  /\ x.id = y.id /\ x.first = y.first /\ x.frequency = y.frequency
  /\ x.amount = y.amount /\ x.transfer = y.transfer
  /\ x.deleted => y.deleted
  /\ y.deleted => x.deleted \/ (x.frequency = "never" /\ x.first < date)

LEMMA AdvancedIsShown ==
  ASSUME NEW s, NEW earlier \in Int, NEW date \in Nat, earlier <= date, Shown(s, earlier)
  PROVE  Shown(AdvancedTo(s, date), date) /\ Same(s, AdvancedTo(s, date), date)
PROOF
<1> DEFINE next == {d \in DueDates(s, date + 800) : d >= date}
           a    == AdvancedTo(s, date)
<1>1. a = IF s.next >= date THEN s
          ELSE IF next = {} THEN [s EXCEPT !.deleted = TRUE] ELSE [s EXCEPT !.next = Min(next)]
  BY DEF AdvancedTo
<1>2. next = {d \in AllDue(s) : d <= date + 800 /\ d >= date}
  BY DatesUpTo DEF Shown
<1> HIDE DEF next, a
<1>3. Plain(s) /\ s.next \in Int /\ s.first \in Int /\ s.amount \in Int /\ s.first >= Today
  BY DEF Shown, Plain
<1>4. CASE s.next >= date
  <2>1. a = s
    BY <1>1, <1>4
  <2>2. NextDue(s, date)
    <3>1. CASE s.frequency = "never"
      BY <3>1 DEF Shown, NextDue
    <3>2. CASE s.frequency # "never"
      <4>1. PICK i \in Nat : s.next = DueDate(s, i) /\ (i # 0 => DueDate(s, i - 1) < earlier)
        BY <3>2 DEF Shown, NextDue
      <4>2. i # 0 => DueDate(s, i - 1) \in Int
        <5>1. i # 0 => i - 1 \in Nat
          OBVIOUS
        <5> QED
          BY <1>3, <3>2, <5>1, PlainRecurs, DatesAreNumbers
      <4>3. i # 0 => DueDate(s, i - 1) < date
        BY <4>1, <4>2
      <4> QED
        BY <3>2, <4>1, <4>3 DEF NextDue
    <3> QED
      BY <3>1, <3>2
  <2>3. Shown(a, date) /\ Same(s, a, date)
    BY <2>1, <2>2 DEF Shown, Same
  <2> QED
    BY <2>3 DEF a
<1>5. CASE ~(s.next >= date) /\ s.frequency = "never"
  <2>1. AllDue(s) = {s.first} /\ s.next = s.first
    BY <1>5 DEF AllDue, NextDue, Shown
  <2>2. next = {} /\ s.first < date
    BY <1>2, <1>3, <1>5, <2>1
  <2>3. a = [s EXCEPT !.deleted = TRUE]
    BY <1>1, <1>5, <2>2
  <2>4. /\ a.id = s.id /\ a.first = s.first /\ a.next = s.next /\ a.frequency = s.frequency
        /\ a.amount = s.amount /\ a.transfer = s.transfer /\ a.deleted /\ DOMAIN a = DOMAIN s
    BY <2>3 DEF Shown, Fields
  <2>5. Shown(a, date) /\ Same(s, a, date)
    BY <1>5, <2>1, <2>2, <2>4 DEF Shown, Same, Plain, NextDue
  <2> QED
    BY <2>5 DEF a
<1>6. CASE ~(s.next >= date) /\ s.frequency # "never"
  <2>1. Recurs(s)
    BY <1>3, <1>6, PlainRecurs
  <2>2. s.first < date
    <3>1. PICK i \in Nat : s.next = DueDate(s, i)
      BY <1>6 DEF NextDue, Shown
    <3>2. DueDate(s, 0) + i <= DueDate(s, 0 + i) /\ DueDate(s, 0) = s.first
      BY <2>1, DatesAreApart
    <3>3. 0 + i = i
      OBVIOUS
    <3> QED
      BY <1>3, <1>6, <3>1, <3>2, <3>3
  <2>3. PICK i \in Nat : /\ i # 0 /\ DueDate(s, i - 1) < date
                         /\ DueDate(s, i) >= date /\ DueDate(s, i) <= date + 800
    BY <2>1, <2>2, SomeDateIsNext
  <2>4. AllDue(s) = {DueDate(s, j) : j \in Nat} /\ \A j \in Nat : DueDate(s, j) \in Int
    BY <1>6, <2>1, DatesAreNumbers DEF AllDue
  <2>5. DueDate(s, i) \in next
    BY <1>2, <2>3, <2>4
  <2>6. ASSUME NEW d \in next
        PROVE  d \in Int /\ DueDate(s, i) <= d
    <3>1. PICK j \in Nat : d = DueDate(s, j) /\ d >= date
      BY <1>2, <2>4
    <3>2. CASE i <= j
      <4>1. j - i \in Nat /\ i + (j - i) = j
        BY <3>2
      <4>2. DueDate(s, i) + (j - i) <= DueDate(s, i + (j - i))
        BY <2>1, <4>1, DatesAreApart
      <4> QED
        BY <2>4, <3>1, <4>1, <4>2
    <3>3. CASE ~(i <= j)
      <4>1. (i - 1) - j \in Nat /\ j + ((i - 1) - j) = i - 1 /\ i - 1 \in Nat
        BY <3>3
      <4>2. DueDate(s, j) + ((i - 1) - j) <= DueDate(s, j + ((i - 1) - j))
        BY <2>1, <4>1, DatesAreApart
      <4>3. DueDate(s, j) <= DueDate(s, i - 1)
        BY <2>4, <4>1, <4>2
      <4> QED
        BY <2>3, <2>4, <3>1, <4>1, <4>3
    <3> QED
      BY <3>2, <3>3
  <2>7. Min(next) = DueDate(s, i)
    <3>1. \A x \in next : (\A y \in next : x <= y) => x = DueDate(s, i)
      BY <2>4, <2>5, <2>6
    <3> QED
      BY <2>5, <2>6, <3>1 DEF Min
  <2>8. a = [s EXCEPT !.next = DueDate(s, i)]
    BY <1>1, <1>6, <2>5, <2>7
  <2>9. /\ a.id = s.id /\ a.first = s.first /\ a.next = DueDate(s, i) /\ a.frequency = s.frequency
        /\ a.amount = s.amount /\ a.transfer = s.transfer /\ a.deleted = s.deleted
        /\ DOMAIN a = DOMAIN s
    BY <2>8 DEF Shown, Fields
  <2>10. \A j \in Nat : DueDate(a, j) = DueDate(s, j)
    BY <2>9 DEF DueDate
  <2>11. i - 1 \in Nat
    BY <2>3
  <2>12. NextDue(a, date)
    BY <1>6, <2>3, <2>9, <2>10, <2>11 DEF NextDue
  <2>13. Plain(a)
    BY <1>3, <2>9 DEF Plain
  <2>14. Shown(a, date)
    BY <1>3, <2>4, <2>9, <2>12, <2>13 DEF Shown
  <2>15. Same(s, a, date)
    BY <2>9 DEF Same
  <2> QED
    BY <2>14, <2>15 DEF a
<1> QED
  BY <1>4, <1>5, <1>6

\* The sums of amounts of scheduled transactions, and of what falls due.
LEMMA AmountsSum ==
  ASSUME NEW S, IsFiniteSet(S), \A s \in S : s.amount \in Int
  PROVE  LET amount(s) == s.amount IN SumOf(amount, S) = TotalOf([s \in S |-> s.amount])
PROOF
<1> DEFINE v     == [r \in S |-> r.amount]
           eq(g) == g = [u \in SUBSET S |->
                           IF u = {} THEN 0
                           ELSE (CHOOSE x \in u : TRUE).amount + g[u \ {CHOOSE x \in u : TRUE}]]
           G     == CHOOSE g : eq(g)
           amount(s) == s.amount
<1>1. SumOf(amount, S) = G[S]
  BY DEF SumOf, MapThenSumSet, MapThenFoldSet
<1>2. v \in [S -> Int] /\ DOMAIN v = S
  OBVIOUS
<1>3. \A x \in S : v[x] = x.amount
  OBVIOUS
<1> HIDE DEF v
<1>4. \A u \in SUBSET S : u # {} => v[CHOOSE x \in u : TRUE] = (CHOOSE x \in u : TRUE).amount
  BY <1>3
<1>5. \A g : eq(g) <=> Folds(v, g)
  BY <1>2, <1>4 DEF Folds
<1> HIDE DEF eq
<1>6. Folds(v, G)
  BY <1>2, <1>5, FoldExists
<1> HIDE DEF G
<1>7. TotalOf(v) = G[S]
  BY <1>2, <1>6, FoldGivesTotal
<1> QED
  BY <1>1, <1>7 DEF v

\* What falls due, as pairs with different keys and whole amounts.
IsDue(D) ==
  /\ IsFiniteSet(D)
  /\ \A o \in D : o[1].amount \in Int
  /\ \A o, p \in D : o[1].id = p[1].id /\ o[2] = p[2] => o = p

Owed(D) == [o \in D |-> o[1].amount]

LEMMA DueSum ==
  ASSUME NEW S, IsDue(S)
  PROVE  SumOf(DueAmount, S) = TotalOf(Owed(S)) /\ Owed(S) \in [S -> Int]
PROOF
<1> DEFINE v     == [r \in S |-> r[1].amount]
           eq(g) == g = [u \in SUBSET S |->
                           IF u = {} THEN 0
                           ELSE (CHOOSE x \in u : TRUE)[1].amount
                                  + g[u \ {CHOOSE x \in u : TRUE}]]
           G     == CHOOSE g : eq(g)
<1>1. SumOf(DueAmount, S) = G[S]
  BY DEF SumOf, MapThenSumSet, MapThenFoldSet, DueAmount
<1>2. v \in [S -> Int] /\ DOMAIN v = S
  BY DEF IsDue
<1>3. \A x \in S : v[x] = x[1].amount
  OBVIOUS
<1> HIDE DEF v
<1>4. \A u \in SUBSET S : u # {} =>
        v[CHOOSE x \in u : TRUE] = (CHOOSE x \in u : TRUE)[1].amount
  BY <1>3
<1>5. \A g : eq(g) <=> Folds(v, g)
  BY <1>2, <1>4 DEF Folds
<1> HIDE DEF eq
<1>6. Folds(v, G)
  BY <1>2, <1>5, FoldExists DEF IsDue
<1> HIDE DEF G
<1>7. TotalOf(v) = G[S]
  BY <1>2, <1>6, FoldGivesTotal DEF IsDue
<1> QED
  BY <1>1, <1>2, <1>7 DEF v, Owed

LEMMA PartIsDue ==
  ASSUME NEW D, IsDue(D), NEW S \in SUBSET D
  PROVE  IsDue(S) /\ Owed(S) = Part(Owed(D), S) /\ SumOf(DueAmount, S) = TotalOf(Part(Owed(D), S))
PROOF
<1>1. IsDue(S)
  BY FS_Subset DEF IsDue
<1>2. Owed(S) = Part(Owed(D), S)
  BY DEF Owed, Part
<1> QED
  BY <1>1, <1>2, DueSum

\* What comes in less what goes out is the sum of both.
LEMMA WindowNet ==
  ASSUME NEW D, IsDue(D)
  PROVE  LET inflows  == {o \in D : o[1].amount > 0}
             outflows == {o \in D : o[1].amount < 0}
         IN SumOf(DueAmount, inflows) - Magnitude(SumOf(DueAmount, outflows))
              = SumOf(DueAmount, D)
PROOF
<1> DEFINE inflows  == {o \in D : o[1].amount > 0}
           outflows == {o \in D : o[1].amount < 0}
           v == Owed(D)
           i == SumOf(DueAmount, inflows)
           k == SumOf(DueAmount, outflows)
<1>1. IsFiniteSet(D) /\ v \in [D -> Int] /\ \A o \in D : v[o] = o[1].amount
  BY DueSum DEF IsDue, Owed
<1>2. inflows \in SUBSET D /\ outflows \in SUBSET D /\ D \in SUBSET D
  OBVIOUS
<1>3. inflows \cap outflows = {} /\ \A o \in D \ (inflows \cup outflows) : v[o] = 0
  BY <1>1
<1>4. \A o \in outflows : o \in D /\ v[o] < 0
  BY <1>1
<1> HIDE DEF inflows, outflows, v
<1>5. i = TotalOf(Part(v, inflows)) /\ k = TotalOf(Part(v, outflows))
  BY <1>2, PartIsDue DEF v
<1> HIDE DEF i, k
<1>6. SumOf(DueAmount, D) = TotalOf(Part(v, D))
  BY <1>2, PartIsDue DEF v
<1>7. TotalOf(Part(v, inflows \cup outflows)) = i + k
  BY <1>1, <1>2, <1>3, <1>5, TotalsJoin
<1>8. inflows \cup outflows \in SUBSET D
  BY <1>2
<1>9. TotalOf(Part(v, D)) = TotalOf(Part(v, inflows \cup outflows))
  BY <1>1, <1>2, <1>3, <1>8, TotalWithoutZeros
<1>10. i \in Int /\ k \in Int
  BY <1>1, <1>2, <1>5, PartIsTyped
<1>11. k <= 0
  <2> DEFINE u == Part(v, outflows)
             w == [o \in outflows |-> -v[o]]
             y == [o \in outflows |-> 0]
             z == [o \in outflows |-> 0]
  <2>1. w \in [outflows -> Int] /\ \A o \in outflows : w[o] >= 0
    BY <1>1, <1>2, <1>4
  <2>2. y \in [outflows -> Int] /\ z \in [outflows -> Int] /\ \A o \in outflows : y[o] = 0
    OBVIOUS
  <2>3. u \in [outflows -> Int] /\ IsFiniteSet(outflows)
    BY <1>1, <1>2, PartIsTyped
  <2>4. \A o \in outflows : u[o] = y[o] + z[o] - w[o]
    BY <1>1, <1>2 DEF Part
  <2>5. y = z
    OBVIOUS
  <2> HIDE DEF u, w, y, z
  <2>6. TotalOf(u) = TotalOf(y) + TotalOf(z) - TotalOf(w)
    BY <2>1, <2>2, <2>3, <2>4, TotalCombined
  <2>7. TotalOf(y) = 0
    BY <2>2, <2>3, ZerosAreNothing
  <2>8. TotalOf(w) >= 0 /\ TotalOf(w) \in Int
    BY <2>1, <2>3, TotalIsPositive, TotalIsInt
  <2> QED
    BY <1>5, <2>5, <2>6, <2>7, <2>8 DEF u
<1>12. i - Magnitude(k) = i + k
  BY <1>10, <1>11 DEF Magnitude
<1> QED
  BY <1>6, <1>7, <1>9, <1>12 DEF i, k, inflows, outflows

\* What falls due has the same sum, and is as much, if it is the same by its keys.
Twins(o, p) == o[1].id = p[1].id /\ o[2] = p[2] /\ o[1].amount = p[1].amount

Matched(D, E) ==
  /\ \A o \in D : \E p \in E : Twins(o, p)
  /\ \A p \in E : \E o \in D : Twins(o, p)

LEMMA MatchedAreAlike ==
  ASSUME NEW D, NEW E, IsDue(D), IsDue(E), Matched(D, E)
  PROVE  SumOf(DueAmount, D) = SumOf(DueAmount, E) /\ Cardinality(D) = Cardinality(E)
PROOF
<1> DEFINE key == [o \in D |-> CHOOSE p \in E : Twins(o, p)]
<1>1. \A o \in D : key[o] \in E /\ Twins(o, key[o])
  BY DEF Matched
<1>2. key \in [D -> E]
  BY <1>1
<1> HIDE DEF key
<1>3. \A p \in E : \E o \in D : key[o] = p
  <2> TAKE p \in E
  <2>1. PICK o \in D : Twins(o, p)
    BY DEF Matched
  <2>2. key[o] \in E /\ Twins(o, key[o])
    BY <1>1
  <2>3. key[o] = p
    BY <2>1, <2>2 DEF Twins, IsDue
  <2> QED
    BY <2>3
<1>4. \A o, p \in D : key[o] = key[p] => o = p
  BY <1>1 DEF Twins, IsDue
<1>5. Owed(D) \in [D -> Int] /\ Owed(E) \in [E -> Int]
  BY DueSum
<1>6. \A o \in D : Owed(E)[key[o]] = Owed(D)[o]
  BY <1>1 DEF Twins, Owed
<1>7. IsFiniteSet(D)
  BY DEF IsDue
<1>8. TotalOf(Owed(E)) = TotalOf(Owed(D))
  BY <1>2, <1>3, <1>4, <1>5, <1>6, <1>7, TotalReindexed
<1>9. Cardinality(E) = Cardinality(D)
  BY <1>2, <1>3, <1>4, <1>7, OneToOneCount
<1> QED
  BY <1>8, <1>9, DueSum

\* The scheduled transactions of a plan, as they were at a date.
Settled(W, date) ==
  /\ IsFiniteSet(W)
  /\ \A r, s \in W : r.id = s.id => r = s
  /\ \A s \in W : Shown(s, date)

\* What falls due in a window.
InWindow(s, d, from, days) == ~s.deleted /\ d \in Occurrences(s, from, days)

LEMMA AllDueAreDates ==
  ASSUME NEW s, Plain(s), NEW d \in AllDue(s)
  PROVE  d \in Int /\ d >= s.first
PROOF
<1>1. CASE s.frequency = "never"
  BY <1>1 DEF AllDue, Plain
<1>2. CASE s.frequency # "never"
  <2>1. PICK i \in Nat : d = DueDate(s, i)
    BY <1>2 DEF AllDue
  <2>2. Recurs(s) /\ s.first \in Int
    BY <1>2, PlainRecurs DEF Plain
  <2>3. DueDate(s, 0) + i <= DueDate(s, 0 + i) /\ DueDate(s, 0) = s.first
    BY <2>2, DatesAreApart
  <2>4. 0 + i = i /\ DueDate(s, i) \in Int
    BY <2>2, DatesAreNumbers
  <2> QED
    BY <2>1, <2>2, <2>3, <2>4
<1> QED
  BY <1>1, <1>2

LEMMA DueIs ==
  ASSUME NEW W, NEW from, NEW days
  PROVE  /\ \A o \in Due(W, from, days) :
              /\ o = <<o[1], o[2]>> /\ o[1] \in W
              /\ InWindow(o[1], o[2], from, days)
         /\ \A s \in W : \A d : InWindow(s, d, from, days) => <<s, d>> \in Due(W, from, days)
PROOF
<1>1. ASSUME NEW o \in Due(W, from, days)
      PROVE  o = <<o[1], o[2]>> /\ o[1] \in W /\ InWindow(o[1], o[2], from, days)
  <2>1. PICK s \in W : ~s.deleted /\ \E d \in Occurrences(s, from, days) : o = <<s, d>>
    BY DEF Due
  <2>2. PICK d \in Occurrences(s, from, days) : o = <<s, d>>
    BY <2>1
  <2> QED
    BY <2>1, <2>2 DEF InWindow
<1>2. ASSUME NEW s \in W, NEW d, InWindow(s, d, from, days)
      PROVE  <<s, d>> \in Due(W, from, days)
  BY <1>2 DEF InWindow, Due
<1> QED
  BY <1>1, <1>2

\* A schedule that can be counted on shows all that falls due, from any next date that
\* was not later.
LEMMA AllIsShown ==
  ASSUME NEW s, NEW date \in Int, Shown(s, date), Countable(s), NEW from \in Int, date <= from,
         NEW days \in Int
  PROVE  Occurrences(s, from, days)
           = IF s.transfer THEN {} ELSE {d \in AllDue(s) : from <= d /\ d <= from + days}
PROOF
<1>1. Plain(s) /\ NextDue(s, date) /\ from + days \in Int
  BY DEF Shown
<1>2. {d \in ScheduledDates(s.next, s.frequency, from + days) : d >= from}
        = {d \in AllDue(s) : from <= d /\ d <= from + days}
  BY <1>1, DatesFromNext
<1> QED
  BY <1>2 DEF Occurrences

LEMMA DueAreDue ==
  ASSUME NEW W, NEW date \in Int, Settled(W, date), NEW from \in Int, NEW days \in Int
  PROVE  IsDue(Due(W, from, days))
PROOF
<1> DEFINE D == Due(W, from, days)
<1>1. \A o \in D : o = <<o[1], o[2]>> /\ o[1] \in W /\ InWindow(o[1], o[2], from, days)
  BY DueIs
<1> HIDE DEF D
<1>2. \A o \in D : o[2] \in from .. from + days
  <2> TAKE o \in D
  <2>1. Plain(o[1]) /\ o[1].next \in Int
    BY <1>1 DEF Settled, Shown
  <2>2. o[2] \in Occurrences(o[1], from, days)
    BY <1>1 DEF InWindow
  <2> QED
    BY <2>1, <2>2, OccurrencesAre
<1>3. D \subseteq W \X (from .. from + days)
  <2> SUFFICES ASSUME NEW o \in D
               PROVE  o \in W \X (from .. from + days)
    OBVIOUS
  <2>1. o = <<o[1], o[2]>> /\ o[1] \in W /\ o[2] \in from .. from + days
    BY <1>1, <1>2
  <2> QED
    BY <2>1
<1>4. IsFiniteSet(D)
  <2>1. IsFiniteSet(from .. from + days)
    <3>1. from + days \in Int
      OBVIOUS
    <3> QED
      BY <3>1, FS_Interval
  <2>2. IsFiniteSet(W \X (from .. from + days))
    BY <2>1, FS_Product DEF Settled
  <2> QED
    BY <1>3, <2>2, FS_Subset
<1>5. \A o \in D : o[1].amount \in Int
  BY <1>1 DEF Settled, Shown
<1>6. ASSUME NEW o \in D, NEW p \in D, o[1].id = p[1].id, o[2] = p[2]
      PROVE  o = p
  <2>1. o[1] = p[1]
    BY <1>1, <1>6 DEF Settled
  <2>2. o = <<o[1], o[2]>> /\ p = <<p[1], p[2]>>
    BY <1>1
  <2> QED
    BY <1>6, <2>1, <2>2
<1>7. IsDue(D)
  BY <1>4, <1>5, <1>6 DEF IsDue
<1> QED
  BY <1>7 DEF D

\* Two states of one plan show the same to fall due.
Alike(X, Y, date) ==
  /\ \A x \in X : \E y \in Y : Same(x, y, date)
  /\ \A y \in Y : \E x \in X : Same(x, y, date)

LEMMA SameFallsDue ==
  ASSUME NEW x, NEW y, NEW earlier \in Int, NEW date \in Int, earlier <= date,
         Shown(x, earlier), Shown(y, date), Same(x, y, date), Countable(x), Countable(y),
         NEW d, NEW days \in Int
  PROVE  InWindow(x, d, date, days) <=> InWindow(y, d, date, days)
PROOF
<1>1. AllDue(x) = AllDue(y)
  <2>1. \A i : DueDate(x, i) = DueDate(y, i)
    BY DEF Same, DueDate
  <2> QED
    BY <2>1 DEF Same, AllDue
<1>2. Occurrences(x, date, days)
        = IF x.transfer THEN {} ELSE {e \in AllDue(x) : date <= e /\ e <= date + days}
  BY AllIsShown
<1>3. Occurrences(y, date, days)
        = IF y.transfer THEN {} ELSE {e \in AllDue(y) : date <= e /\ e <= date + days}
  BY AllIsShown
<1>4. Occurrences(x, date, days) = Occurrences(y, date, days)
  BY <1>1, <1>2, <1>3 DEF Same
<1>5. ASSUME InWindow(x, d, date, days)
      PROVE  ~(x.frequency = "never" /\ x.first < date)
  <2>1. d \in AllDue(x) /\ date <= d
    BY <1>2, <1>5 DEF InWindow
  <2>2. x.frequency = "never" => d = x.first
    BY <2>1 DEF AllDue
  <2>3. x.first \in Int
    BY DEF Shown, Plain
  <2> QED
    BY <2>1, <2>2, <2>3
<1> QED
  BY <1>4, <1>5 DEF InWindow, Same

LEMMA SameIsDue ==
  ASSUME NEW X, NEW Y, NEW earlier \in Int, NEW date \in Int, earlier <= date,
         Settled(X, earlier), Settled(Y, date), Alike(X, Y, date),
         \A s \in X \cup Y : Countable(s), NEW days \in Int
  PROVE  Matched(Due(X, date, days), Due(Y, date, days))
PROOF
<1> DEFINE D == Due(X, date, days)
           E == Due(Y, date, days)
<1>1. /\ \A o \in D : o[1] \in X /\ InWindow(o[1], o[2], date, days)
      /\ \A x \in X : \A d : InWindow(x, d, date, days) => <<x, d>> \in D
  BY DueIs
<1>2. /\ \A p \in E : p[1] \in Y /\ InWindow(p[1], p[2], date, days)
      /\ \A y \in Y : \A d : InWindow(y, d, date, days) => <<y, d>> \in E
  BY DueIs
<1> HIDE DEF D, E
<1>3. ASSUME NEW o \in D
      PROVE  \E p \in E : Twins(o, p)
  <2>1. PICK y \in Y : Same(o[1], y, date)
    BY <1>1 DEF Alike
  <2>2. /\ Shown(o[1], earlier) /\ Shown(y, date) /\ Countable(o[1]) /\ Countable(y)
        /\ InWindow(o[1], o[2], date, days)
    BY <1>1 DEF Settled
  <2>3. InWindow(y, o[2], date, days)
    BY <2>1, <2>2, SameFallsDue
  <2>4. <<y, o[2]>> \in E
    BY <1>2, <2>3
  <2>5. Twins(o, <<y, o[2]>>)
    BY <2>1 DEF Twins, Same
  <2> QED
    BY <2>4, <2>5
<1>4. ASSUME NEW p \in E
      PROVE  \E o \in D : Twins(o, p)
  <2>1. PICK x \in X : Same(x, p[1], date)
    BY <1>2 DEF Alike
  <2>2. /\ Shown(x, earlier) /\ Shown(p[1], date) /\ Countable(x) /\ Countable(p[1])
        /\ InWindow(p[1], p[2], date, days)
    BY <1>2 DEF Settled
  <2>3. InWindow(x, p[2], date, days)
    BY <2>1, <2>2, SameFallsDue
  <2>4. <<x, p[2]>> \in D
    BY <1>1, <2>3
  <2>5. Twins(<<x, p[2]>>, p)
    BY <2>1 DEF Twins, Same
  <2> QED
    BY <2>4, <2>5
<1>5. Matched(D, E)
  BY <1>3, <1>4 DEF Matched
<1> QED
  BY <1>5 DEF D, E

\* What a window shows.
Summary(window) ==
  LET inflows  == {o \in window : o[1].amount > 0}
      outflows == {o \in window : o[1].amount < 0}
  IN [inflow  |-> SumOf(DueAmount, inflows),
      outflow |-> Magnitude(SumOf(DueAmount, outflows)),
      net     |-> SumOf(DueAmount, inflows) - Magnitude(SumOf(DueAmount, outflows)),
      obligations |-> Cardinality(outflows),
      inflowCount |-> Cardinality(inflows)]

LEMMA ObligationsAre ==
  ASSUME NEW W, NEW date
  PROVE  UpcomingObligations(W, date)
           = [days \in WindowDays |-> Summary(Within(Due(W, date, 30), date, days))]
BY DEF UpcomingObligations, Summary

LEMMA SummariesAreAlike ==
  ASSUME NEW D, NEW E, IsDue(D), IsDue(E), Matched(D, E)
  PROVE  Summary(D) = Summary(E)
PROOF
<1> DEFINE more(S) == {o \in S : o[1].amount > 0}
           less(S) == {o \in S : o[1].amount < 0}
<1>1. more(D) \in SUBSET D /\ less(D) \in SUBSET D /\ more(E) \in SUBSET E /\ less(E) \in SUBSET E
  OBVIOUS
<1>2. IsDue(more(D)) /\ IsDue(less(D)) /\ IsDue(more(E)) /\ IsDue(less(E))
  <2> HIDE DEF more, less
  <2> QED
    BY <1>1, PartIsDue
<1>3. Matched(more(D), more(E)) /\ Matched(less(D), less(E))
  BY DEF Matched, Twins
<1>4. /\ SumOf(DueAmount, more(D)) = SumOf(DueAmount, more(E))
      /\ SumOf(DueAmount, less(D)) = SumOf(DueAmount, less(E))
      /\ Cardinality(more(D)) = Cardinality(more(E))
      /\ Cardinality(less(D)) = Cardinality(less(E))
  <2> HIDE DEF more, less
  <2> QED
    BY <1>2, <1>3, MatchedAreAlike
<1>5. \A S : Summary(S) =
        [inflow  |-> SumOf(DueAmount, more(S)),
         outflow |-> Magnitude(SumOf(DueAmount, less(S))),
         net     |-> SumOf(DueAmount, more(S)) - Magnitude(SumOf(DueAmount, less(S))),
         obligations |-> Cardinality(less(S)),
         inflowCount |-> Cardinality(more(S))]
  BY DEF Summary
<1> HIDE DEF more, less
<1> QED
  BY <1>4, <1>5

\* Schedules that were cached show what the plan does.
LEMMA ObligationsAreAlike ==
  ASSUME NEW X, NEW Y, NEW earlier \in Int, NEW date \in Int, earlier <= date,
         Settled(X, earlier), Settled(Y, date), Alike(X, Y, date),
         \A s \in X \cup Y : Countable(s)
  PROVE  UpcomingObligations(X, date) = UpcomingObligations(Y, date)
PROOF
<1> DEFINE D == Due(X, date, 30)
           E == Due(Y, date, 30)
<1>1. IsDue(D) /\ IsDue(E) /\ Matched(D, E)
  <2>1. 30 \in Int /\ date <= date
    OBVIOUS
  <2> QED
    BY <2>1, DueAreDue, SameIsDue
<1> HIDE DEF D, E
<1>2. ASSUME NEW days \in WindowDays
      PROVE  Summary(Within(D, date, days)) = Summary(Within(E, date, days))
  <2>1. Within(D, date, days) \in SUBSET D /\ Within(E, date, days) \in SUBSET E
    BY DEF Within
  <2>2. IsDue(Within(D, date, days)) /\ IsDue(Within(E, date, days))
    BY <1>1, <2>1, PartIsDue
  <2>3. Matched(Within(D, date, days), Within(E, date, days))
    BY <1>1 DEF Matched, Twins, Within
  <2> QED
    BY <2>2, <2>3, SummariesAreAlike
<1> QED
  BY <1>2, ObligationsAre DEF D, E

\* The windows of what falls due are nested, the longest is all of it, and it is what
\* falls due next and what falls due again.
LEMMA WindowsAreNested ==
  ASSUME NEW W, NEW earlier \in Int, NEW date \in Int, Settled(W, earlier)
  PROVE  LET windows == UpcomingObligations(W, date)
             amount(s) == s.amount
             transfers == {s \in W : ~s.deleted /\ s.transfer /\ s.next - date \in 0 .. 30}
             again     == {o \in Due(W, date, 30) : o[2] # o[1].next}
         IN /\ windows[30].net = ScheduledNetNext30d(W, date)
            /\ windows[7].obligations <= windows[14].obligations
            /\ windows[14].obligations <= windows[30].obligations
            /\ windows[30].net = Upcoming30dNet(W, date) - SumOf(amount, transfers)
                                   + SumOf(DueAmount, again)
PROOF
<1> DEFINE D         == Due(W, date, 30)
           out(days) == {o \in Within(D, date, days) : o[1].amount < 0}
           again     == {o \in D : o[2] # o[1].next}
           once      == {o \in D : o[2] = o[1].next}
           coming    == {s \in W : ~s.deleted /\ s.next - date \in 0 .. 30}
           transfers == {s \in W : ~s.deleted /\ s.transfer /\ s.next - date \in 0 .. 30}
           others    == {s \in W : ~s.deleted /\ ~s.transfer /\ s.next - date \in 0 .. 30}
           amount(s) == s.amount
           v         == Owed(D)
           w         == [s \in coming |-> s.amount]
<1>1. /\ IsDue(D)
      /\ \A o \in D : /\ o = <<o[1], o[2]>> /\ o[1] \in W
                      /\ InWindow(o[1], o[2], date, 30)
                      /\ o[2] \in date .. date + 30 /\ ~o[1].transfer
      /\ \A s \in W : \A d : InWindow(s, d, date, 30) => <<s, d>> \in D
  <2>1. 30 \in Int
    OBVIOUS
  <2>2. IsDue(D)
    BY <2>1, DueAreDue
  <2>3. /\ \A o \in D : o = <<o[1], o[2]>> /\ o[1] \in W /\ InWindow(o[1], o[2], date, 30)
        /\ \A s \in W : \A d : InWindow(s, d, date, 30) => <<s, d>> \in D
    BY DueIs
  <2> HIDE DEF D
  <2>4. \A o \in D : o[2] \in date .. date + 30 /\ ~o[1].transfer
    <3> TAKE o \in D
    <3>1. /\ Plain(o[1]) /\ o[1].next \in Int
          /\ o[2] \in Occurrences(o[1], date, 30)
      BY <2>3 DEF Settled, Shown, InWindow
    <3>2. ~o[1].transfer
      BY <3>1 DEF Occurrences
    <3> QED
      BY <2>1, <3>1, <3>2, OccurrencesAre
  <2> QED
    BY <2>2, <2>3, <2>4
<1>2. \A days \in WindowDays :
        /\ UpcomingObligations(W, date)[days].net = Summary(Within(D, date, days)).net
        /\ UpcomingObligations(W, date)[days].obligations = Cardinality(out(days))
  BY ObligationsAre DEF Summary
<1>3. 7 \in WindowDays /\ 14 \in WindowDays /\ 30 \in WindowDays
  BY DEF WindowDays
<1> HIDE DEF D
<1>4. Within(D, date, 30) = D
  BY <1>1 DEF Within
<1>5. Summary(D).net = SumOf(DueAmount, D)
  BY <1>1, WindowNet DEF Summary
<1>6. out(7) \subseteq out(14) /\ out(14) \subseteq out(30) /\ out(30) \subseteq D
  <2>1. \A o \in D : o[2] - date \in Int
    BY <1>1
  <2> QED
    BY <2>1 DEF Within
<1>7. /\ Cardinality(out(7)) <= Cardinality(out(14))
      /\ Cardinality(out(14)) <= Cardinality(out(30))
  <2> HIDE DEF out
  <2>1. IsFiniteSet(out(30)) /\ IsFiniteSet(out(14))
    BY <1>1, <1>6, FS_Subset DEF IsDue
  <2> QED
    BY <1>6, <2>1, FS_Subset
<1>8. SumOf(DueAmount, D) = TotalOf(Owed(once)) + SumOf(DueAmount, again)
  <2>1. once \in SUBSET D /\ again \in SUBSET D /\ once \cap again = {} /\ once \cup again = D
          /\ D \in SUBSET D
    OBVIOUS
  <2>2. IsFiniteSet(D) /\ v \in [D -> Int]
    BY <1>1, DueSum DEF IsDue
  <2> HIDE DEF once, again
  <2>3. /\ SumOf(DueAmount, D) = TotalOf(Part(v, D))
        /\ SumOf(DueAmount, again) = TotalOf(Part(v, again))
        /\ Owed(once) = Part(v, once)
    BY <1>1, <2>1, PartIsDue
  <2> HIDE DEF v
  <2> QED
    BY <2>1, <2>2, <2>3, TotalsJoin
<1>9. /\ IsFiniteSet(coming) /\ w \in [coming -> Int]
      /\ Upcoming30dNet(W, date) = TotalOf(w)
      /\ SumOf(amount, transfers) = TotalOf(Part(w, transfers))
  <2>1. \A s \in W : s.amount \in Int
    BY DEF Settled, Shown
  <2>2. transfers \subseteq coming /\ coming \subseteq W
    OBVIOUS
  <2>3. IsFiniteSet(coming) /\ IsFiniteSet(transfers)
    BY <2>2, FS_Subset DEF Settled
  <2>4. \A s \in coming : s.amount \in Int
    BY <2>1, <2>2
  <2>5. \A s \in transfers : s.amount \in Int
    BY <2>1, <2>2
  <2>6. Upcoming30dNet(W, date) = SumOf(amount, coming)
    BY DEF Upcoming30dNet
  <2>7. Part(w, transfers) = [s \in transfers |-> s.amount]
    BY <2>2 DEF Part
  <2> HIDE DEF coming, transfers
  <2>8. SumOf(amount, coming) = TotalOf([s \in coming |-> s.amount])
    BY <2>3, <2>4, AmountsSum
  <2>9. SumOf(amount, transfers) = TotalOf([s \in transfers |-> s.amount])
    BY <2>3, <2>5, AmountsSum
  <2> QED
    BY <2>3, <2>4, <2>6, <2>7, <2>8, <2>9
<1>10. TotalOf(w) = TotalOf(Part(w, transfers)) + TotalOf(Part(w, others))
  <2>1. transfers \in SUBSET coming /\ others \in SUBSET coming /\ transfers \cap others = {}
          /\ transfers \cup others = coming
    OBVIOUS
  <2>2. Part(w, coming) = w
    BY DEF Part
  <2> HIDE DEF transfers, others, coming, w
  <2> QED
    BY <1>9, <2>1, <2>2, TotalsJoin
<1>11. TotalOf(Owed(once)) = TotalOf(Part(w, others))
  <2> DEFINE key == [o \in once |-> o[1]]
             x   == Part(w, others)
  <2>1. others \in SUBSET coming
    OBVIOUS
  <2>2. x \in [others -> Int] /\ \A s \in others : x[s] = s.amount
    <3>1. \A s \in others : x[s] = s.amount
      BY <2>1 DEF Part
    <3>2. x \in [others -> Int]
      <4> HIDE DEF others, coming, w
      <4> QED
        BY <1>9, <2>1, PartIsTyped
    <3> QED
      BY <3>1, <3>2
  <2>3. IsFiniteSet(once) /\ Owed(once) \in [once -> Int]
    <3>1. once \in SUBSET D
      OBVIOUS
    <3> HIDE DEF once
    <3> QED
      BY <1>1, <3>1, PartIsDue, DueSum DEF IsDue
  <2>4. \A o \in once : o[1] \in others
    <3> TAKE o \in once
    <3>1. /\ o \in D /\ o[2] = o[1].next /\ o[1] \in W /\ InWindow(o[1], o[2], date, 30)
          /\ o[2] \in date .. date + 30 /\ ~o[1].transfer
      BY <1>1
    <3>2. o[1].next - date \in 0 .. 30
      BY <3>1
    <3> QED
      BY <3>1, <3>2 DEF InWindow
  <2>5. key \in [once -> others]
    BY <2>4
  <2>6. ASSUME NEW s \in others
        PROVE  \E o \in once : key[o] = s
    <3>1. s \in W /\ ~s.deleted /\ ~s.transfer /\ s.next - date \in 0 .. 30
      OBVIOUS
    <3>2. Plain(s) /\ s.next \in Int
      BY <3>1 DEF Settled, Shown
    <3>3. s.next \in Occurrences(s, date, 30)
      <4>1. s.next \in date .. date + 30 /\ 30 \in Int
        BY <3>1, <3>2
      <4> QED
        BY <3>1, <3>2, <4>1, OccurrencesAre
    <3>4. InWindow(s, s.next, date, 30)
      BY <3>1, <3>3 DEF InWindow
    <3>5. <<s, s.next>> \in D
      BY <1>1, <3>1, <3>4
    <3>6. <<s, s.next>> \in once
      BY <3>5
    <3>7. key[<<s, s.next>>] = s
      BY <3>6
    <3> QED
      BY <3>6, <3>7
  <2>7. ASSUME NEW o \in once, NEW p \in once, key[o] = key[p]
        PROVE  o = p
    <3>1. o \in D /\ p \in D /\ o[1] = p[1] /\ o[2] = p[2]
      BY <2>7
    <3>2. o = <<o[1], o[2]>> /\ p = <<p[1], p[2]>>
      BY <1>1, <3>1
    <3> QED
      BY <3>1, <3>2
  <2>8. \A o \in once : x[key[o]] = Owed(once)[o]
    BY <2>2, <2>4 DEF Owed
  <2> HIDE DEF once, others, key, x
  <2>9. TotalOf(x) = TotalOf(Owed(once))
    BY <2>2, <2>3, <2>5, <2>6, <2>7, <2>8, TotalReindexed
  <2> QED
    BY <2>9 DEF x
<1>12. TotalOf(w) \in Int /\ TotalOf(Part(w, transfers)) \in Int /\ TotalOf(Part(w, others)) \in Int
         /\ SumOf(DueAmount, again) \in Int
  <2>1. transfers \in SUBSET coming /\ others \in SUBSET coming /\ again \in SUBSET D
    OBVIOUS
  <2>2. IsFiniteSet(D) /\ Owed(D) \in [D -> Int]
    BY <1>1, DueSum DEF IsDue
  <2> HIDE DEF transfers, others, coming, again, w
  <2>3. SumOf(DueAmount, again) = TotalOf(Part(Owed(D), again))
    BY <1>1, <2>1, PartIsDue
  <2> QED
    BY <1>9, <2>1, <2>2, <2>3, PartIsTyped, TotalIsInt
<1>13. SumOf(DueAmount, D)
         = Upcoming30dNet(W, date) - SumOf(amount, transfers) + SumOf(DueAmount, again)
  <2> HIDE DEF transfers, others, coming, again, once, w
  <2> QED
    BY <1>8, <1>9, <1>10, <1>11, <1>12
<1>14. ScheduledNetNext30d(W, date) = SumOf(DueAmount, D)
  BY DEF ScheduledNetNext30d, D
<1> HIDE DEF transfers, again, out
<1>15. /\ UpcomingObligations(W, date)[30].net = SumOf(DueAmount, D)
       /\ UpcomingObligations(W, date)[7].obligations = Cardinality(out(7))
       /\ UpcomingObligations(W, date)[14].obligations = Cardinality(out(14))
       /\ UpcomingObligations(W, date)[30].obligations = Cardinality(out(30))
  BY <1>2, <1>3, <1>4, <1>5
<1> QED
  BY <1>7, <1>13, <1>14, <1>15 DEF transfers, again, D

LEMMA MoreTimes ==
  ASSUME NEW b \in Nat, NEW p \in Int, NEW q \in Int, p <= q
  PROVE  b * p <= b * q /\ b * p \in Int /\ b * q \in Int
PROOF
<1>1. q - p \in Nat
  OBVIOUS
<1>2. b * (q - p) \in Nat
  BY <1>1
<1>3. b * q = b * p + b * (q - p)
  OBVIOUS
<1> QED
  BY <1>2, <1>3

\* A number of equal amounts has that amount for its average.
LEMMA RoundOfSame ==
  ASSUME NEW k \in Nat, k > 0, NEW c \in Int
  PROVE  Round(k * c, k) = c
PROOF
<1> DEFINE b == 2 * k
           a == 2 * (k * c) + k
           q == a \div b
           r == a % b
<1>1. k * c \in Int /\ b \in Nat /\ b > 0 /\ a \in Int
  OBVIOUS
<1>2. a = b * c + k
  OBVIOUS
<1>3. Round(k * c, k) = q
  BY DEF Round
<1>4. b \in Int /\ k < b
  OBVIOUS
<1> HIDE DEF a, b
<1>5. q \in Int /\ r \in Int /\ 0 <= r /\ r < b /\ a = b * q + r
  BY <1>1
<1> HIDE DEF q, r
<1>6. CASE q <= c - 1
  <2>1. c - 1 \in Int
    OBVIOUS
  <2>2. b * q <= b * (c - 1) /\ b * q \in Int
    BY <1>1, <1>5, <1>6, <2>1, MoreTimes
  <2>3. b * (c - 1) = b * c - b /\ b * c \in Int
    BY <1>1
  <2> QED
    BY <1>1, <1>2, <1>5, <2>2, <2>3
<1>7. CASE c + 1 <= q
  <2>1. c + 1 \in Int
    OBVIOUS
  <2>2. b * (c + 1) <= b * q /\ b * q \in Int
    BY <1>1, <1>5, <1>7, <2>1, MoreTimes
  <2>3. b * (c + 1) = b * c + b /\ b * c \in Int
    BY <1>1
  <2> QED
    BY <1>1, <1>2, <1>4, <1>5, <2>2, <2>3
<1>8. CASE q = c
  BY <1>3, <1>8
<1> QED
  BY <1>5, <1>6, <1>7, <1>8

LEMMA TotalOfSame ==
  ASSUME NEW D, IsFiniteSet(D), NEW c \in Int, NEW v \in [D -> Int], \A d \in D : v[d] = c
  PROVE  TotalOf(v) = Cardinality(D) * c
PROOF
<1> DEFINE Good == {S \in SUBSET D : TotalOf(Part(v, S)) = Cardinality(S) * c}
<1>1. {} \in Good
  <2>1. {} \in SUBSET D
    OBVIOUS
  <2>2. Part(v, {}) \in [{} -> Int] /\ IsFiniteSet({})
    BY <2>1, PartIsTyped
  <2>3. TotalOf(Part(v, {})) = 0
    BY <2>2, ZerosAreNothing
  <2>4. Cardinality({}) * c = 0
    BY FS_EmptySet
  <2> QED
    BY <2>1, <2>3, <2>4
<1>2. ASSUME NEW S \in SUBSET D, S # {}, S \ {CHOOSE x \in S : TRUE} \in Good
      PROVE  S \in Good
  <2> DEFINE x == CHOOSE y \in S : TRUE
             R == S \ {x}
  <2>1. x \in S
    BY <1>2
  <2>2. TotalOf(Part(v, R)) = Cardinality(R) * c
    BY <1>2
  <2> HIDE DEF x, Good
  <2>3. {x} \in SUBSET D /\ R \in SUBSET D /\ R \cap {x} = {} /\ R \cup {x} = S /\ x \in D
    BY <2>1
  <2> HIDE DEF R
  <2>4. TotalOf(Part(v, S)) = TotalOf(Part(v, R)) + TotalOf(Part(v, {x}))
    BY <2>3, TotalsJoin
  <2>5. TotalOf(Part(v, {x})) = c
    BY <2>3, TotalOfOne
  <2>6. IsFiniteSet(S) /\ IsFiniteSet(R)
    BY <2>3, FS_Subset
  <2>7. Cardinality(R) = Cardinality(S) - 1 /\ Cardinality(S) \in Nat
    BY <2>1, <2>6, FS_RemoveElement, FS_CardinalityType DEF R
  <2>8. (Cardinality(S) - 1) * c + c = Cardinality(S) * c
    BY <2>7
  <2>9. TotalOf(Part(v, S)) = Cardinality(S) * c
    BY <2>2, <2>4, <2>5, <2>7, <2>8
  <2> QED
    BY <2>9 DEF Good
<1> HIDE DEF Good
<1>3. Good \in SUBSET (SUBSET D)
  BY DEF Good
<1>4. D \in Good
  <2>1. \A S \in SUBSET D : S \in Good
    BY <1>1, <1>2, <1>3, OneByOneInduction
  <2> QED
    BY <2>1
<1>5. Part(v, D) = v
  BY DEF Part
<1> QED
  BY <1>4, <1>5 DEF Good

\* What is spent in rows of one amount.
LEMMA SpentInSame ==
  ASSUME NEW S, IsFiniteSet(S), NEW c \in Int, \A r \in S : r.amount = c
  PROVE  TotalSpent(S) = Cardinality(S) * (-c)
PROOF
<1> DEFINE v     == [r \in S |-> -c]
           eq(g) == g = [u \in SUBSET S |->
                           IF u = {} THEN 0
                           ELSE -((CHOOSE x \in u : TRUE).amount)
                                  + g[u \ {CHOOSE x \in u : TRUE}]]
           G     == CHOOSE g : eq(g)
<1>1. TotalSpent(S) = G[S]
  BY DEF TotalSpent, SumOf, MapThenSumSet, MapThenFoldSet, SpentIn
<1>2. v \in [S -> Int] /\ DOMAIN v = S /\ -c \in Int /\ \A r \in S : v[r] = -c
  OBVIOUS
<1>3. \A x \in S : v[x] = -(x.amount)
  OBVIOUS
<1> HIDE DEF v
<1>4. \A u \in SUBSET S : u # {} =>
        v[CHOOSE x \in u : TRUE] = -((CHOOSE x \in u : TRUE).amount)
  BY <1>3
<1>5. \A g : eq(g) <=> Folds(v, g)
  BY <1>2, <1>4 DEF Folds
<1> HIDE DEF eq
<1>6. Folds(v, G)
  BY <1>2, <1>5, FoldExists
<1> HIDE DEF G
<1>7. TotalOf(v) = G[S]
  BY <1>2, <1>6, FoldGivesTotal
<1>8. TotalOf(v) = Cardinality(S) * (-c)
  BY <1>2, TotalOfSame
<1> QED
  BY <1>1, <1>7, <1>8

\* The dates up to a limit are the first so many.
LEMMA DatesCount ==
  ASSUME NEW s, Plain(s), s.frequency # "never", NEW limit \in Int, s.first <= limit
  PROVE  \E n \in Nat : /\ Cardinality(DueDates(s, limit)) = n + 1
                        /\ Min(DueDates(s, limit)) = DueDate(s, 0)
                        /\ Max(DueDates(s, limit)) = DueDate(s, n)
PROOF
<1> DEFINE later == {i \in Nat : DueDate(s, i) > limit}
           dates == DueDates(s, limit)
<1>1. Recurs(s) /\ s.first \in Nat
  BY PlainRecurs DEF Plain
<1>2. \A i \in Nat : DueDate(s, i) \in Int
  BY <1>1, DatesAreNumbers
<1>3. \A i \in Nat, j \in Nat : i <= j => DueDate(s, i) + (j - i) <= DueDate(s, j)
  <2> SUFFICES ASSUME NEW i \in Nat, NEW j \in Nat, i <= j
               PROVE  DueDate(s, i) + (j - i) <= DueDate(s, j)
    OBVIOUS
  <2>1. j - i \in Nat /\ i + (j - i) = j
    OBVIOUS
  <2>2. DueDate(s, i) + (j - i) <= DueDate(s, i + (j - i))
    BY <1>1, <2>1, DatesAreApart
  <2> QED
    BY <2>1, <2>2
<1>4. DueDate(s, 0) = s.first
  <2>1. 0 \in Nat
    OBVIOUS
  <2> QED
    BY <1>1, <2>1, DatesAreApart
<1>5. later # {}
  <2>1. limit + 1 \in Nat /\ 0 <= limit + 1
    BY <1>1
  <2>2. DueDate(s, 0) + ((limit + 1) - 0) <= DueDate(s, limit + 1)
    BY <1>3, <2>1
  <2>3. DueDate(s, limit + 1) > limit
    BY <1>1, <1>2, <1>4, <2>1, <2>2
  <2> QED
    BY <2>1, <2>3
<1>6. PICK k \in later : \A j \in later : k <= j
  <2>1. later \in SUBSET Nat
    OBVIOUS
  <2> HIDE DEF later
  <2> QED
    BY <1>5, <2>1, LeastNatural
<1>7. k \in Nat /\ DueDate(s, k) > limit /\ k # 0
  BY <1>1, <1>4, <1>6
<1>8. \A i \in Nat : DueDate(s, i) <= limit <=> i \in 0 .. k - 1
  <2> TAKE i \in Nat
  <2>1. CASE i <= k - 1
    <3>1. ~(k <= i)
      BY <1>7, <2>1
    <3>2. i \notin later
      <4> HIDE DEF later
      <4> QED
        BY <1>6, <3>1
    <3>3. DueDate(s, i) <= limit
      BY <1>2, <3>2
    <3> QED
      BY <1>7, <2>1, <3>3
  <2>2. CASE ~(i <= k - 1)
    <3>1. k <= i
      BY <1>7, <2>2
    <3>2. DueDate(s, k) + (i - k) <= DueDate(s, i)
      BY <1>3, <1>7, <3>1
    <3>3. ~(DueDate(s, i) <= limit)
      BY <1>2, <1>7, <3>1, <3>2
    <3> QED
      BY <1>7, <2>2, <3>3
  <2> QED
    BY <2>1, <2>2
<1> HIDE DEF later
<1>9. dates = {DueDate(s, i) : i \in 0 .. k - 1}
  <2>1. AllDue(s) = {DueDate(s, i) : i \in Nat}
    BY DEF AllDue
  <2>2. dates = {d \in AllDue(s) : d <= limit}
    BY DatesUpTo
  <2> QED
    BY <1>7, <1>8, <2>1, <2>2
<1> HIDE DEF dates
<1>10. Cardinality(dates) = k
  <2> DEFINE key == [i \in 0 .. k - 1 |-> DueDate(s, i)]
  <2>1. key \in [0 .. k - 1 -> dates]
    BY <1>9
  <2>2. \A d \in dates : \E i \in 0 .. k - 1 : key[i] = d
    BY <1>9
  <2>3. ASSUME NEW i \in 0 .. k - 1, NEW j \in 0 .. k - 1, key[i] = key[j]
        PROVE  i = j
    <3>1. i \in Nat /\ j \in Nat /\ DueDate(s, i) = DueDate(s, j)
      BY <2>3
    <3>2. i <= j => DueDate(s, i) + (j - i) <= DueDate(s, j)
      BY <1>3, <3>1
    <3>3. j <= i => DueDate(s, j) + (i - j) <= DueDate(s, i)
      BY <1>3, <3>1
    <3> QED
      BY <1>2, <3>1, <3>2, <3>3
  <2>4. 0 \in Int /\ k - 1 \in Int
    BY <1>7
  <2>5. IsFiniteSet(0 .. k - 1) /\ Cardinality(0 .. k - 1) = k
    <3>1. Cardinality(0 .. k - 1) = IF 0 > k - 1 THEN 0 ELSE (k - 1) - 0 + 1
      BY <2>4, FS_Interval
    <3> QED
      BY <1>7, <2>4, <3>1, FS_Interval
  <2> HIDE DEF key
  <2> QED
    BY <2>1, <2>2, <2>3, <2>5, OneToOneCount
<1>11. k - 1 \in Nat /\ (k - 1) + 1 = k /\ k - 1 \in 0 .. k - 1 /\ 0 \in 0 .. k - 1
  BY <1>7
<1>12. ASSUME NEW d \in dates
       PROVE  d \in Int /\ DueDate(s, 0) <= d /\ d <= DueDate(s, k - 1)
  <2>1. PICK i \in 0 .. k - 1 : d = DueDate(s, i)
    BY <1>9
  <2>2. i \in Nat /\ 0 \in Nat /\ 0 <= i /\ i <= k - 1 /\ i - 0 = i /\ (k - 1) - i \in Nat
    BY <1>11
  <2>3. /\ DueDate(s, 0) + (i - 0) <= DueDate(s, i)
        /\ DueDate(s, i) + ((k - 1) - i) <= DueDate(s, k - 1)
    BY <1>3, <1>11, <2>2
  <2> QED
    BY <1>2, <1>11, <2>1, <2>2, <2>3
<1>13. DueDate(s, 0) \in dates /\ DueDate(s, k - 1) \in dates
  BY <1>9, <1>11
<1>14. Min(dates) = DueDate(s, 0)
  <2>1. \A x \in dates : (\A y \in dates : x <= y) => x = DueDate(s, 0)
    BY <1>12, <1>13
  <2> QED
    BY <1>12, <1>13, <2>1 DEF Min
<1>15. Max(dates) = DueDate(s, k - 1)
  <2>1. \A x \in dates : (\A y \in dates : x >= y) => x = DueDate(s, k - 1)
    BY <1>12, <1>13
  <2> QED
    BY <1>12, <1>13, <2>1 DEF Max
<1> QED
  BY <1>10, <1>11, <1>14, <1>15 DEF dates

\* Dates a month apart, or four weeks, and at least three of them, look monthly; no others do.
LooksMonthly(dates) ==
  LET n    == Cardinality(dates) - 1
      span == Max(dates) - Min(dates)
  IN n >= 2 /\ 25 * n <= span /\ span <= 35 * n

LEMMA TwiceSpan ==
  ASSUME NEW s, Recurs(s), Twice(s), NEW n \in Nat
  PROVE  DueDate(s, n) <= DueDate(s, 0) + 16 * n
PROOF
<1> DEFINE bad == {k \in Nat : ~(DueDate(s, k) <= DueDate(s, 0) + 16 * k)}
<1> SUFFICES ASSUME bad # {} PROVE FALSE
  OBVIOUS
<1>1. PICK k \in bad : \A j \in bad : k <= j
  BY LeastNatural
<1>2. \A j \in Nat : DueDate(s, j) \in Int
  BY DatesAreNumbers
<1>3. k \in Nat /\ ~(DueDate(s, k) <= DueDate(s, 0) + 16 * k) /\ 0 \in Nat
  BY <1>1
<1>4. k # 0
  BY <1>2, <1>3
<1>5. k - 1 \in Nat /\ k - 1 \notin bad
  <2>1. k - 1 \in Nat /\ ~(k <= k - 1)
    BY <1>3, <1>4
  <2> HIDE DEF bad
  <2> QED
    BY <1>1, <2>1
<1>6. DueDate(s, k - 1) <= DueDate(s, 0) + 16 * (k - 1)
  BY <1>5
<1> HIDE DEF bad
<1>7. DueDate(s, k) <= DueDate(s, k - 1) + 16
  <2>1. (k - 1) + 1 = k
    BY <1>3
  <2>2. DueDate(s, (k - 1) + 1) - DueDate(s, k - 1) \in 12 .. 16
    BY <1>5, DueTwice
  <2> QED
    BY <1>2, <1>3, <1>5, <2>1, <2>2
<1>8. DueDate(s, k) \in Int /\ DueDate(s, k - 1) \in Int /\ DueDate(s, 0) \in Int
  BY <1>2, <1>3, <1>5
<1> QED
  BY <1>3, <1>6, <1>7, <1>8

LEMMA RhythmIsTold ==
  ASSUME NEW s, Plain(s), NEW limit \in Int, DueDates(s, limit) # {}
  PROVE  LooksMonthly(DueDates(s, limit))
           <=> s.frequency \in {"monthly", "every4Weeks"} /\ Cardinality(DueDates(s, limit)) >= 3
PROOF
<1> DEFINE dates == DueDates(s, limit)
<1>1. dates = {d \in AllDue(s) : d <= limit}
  BY DatesUpTo
<1>2. CASE s.frequency = "never"
  <2>1. dates = {s.first}
    BY <1>1, <1>2 DEF AllDue
  <2>2. Cardinality(dates) = 1
    BY <2>1, FS_Singleton
  <2> HIDE DEF dates
  <2>3. ~LooksMonthly(dates)
    BY <2>2 DEF LooksMonthly
  <2> QED
    BY <1>2, <2>3 DEF dates
<1>3. CASE s.frequency # "never"
  <2>1. Recurs(s) /\ s.first \in Int
    BY <1>3, PlainRecurs DEF Plain
  <2>2. s.first <= limit
    <3>1. PICK d \in dates : TRUE
      OBVIOUS
    <3>2. d \in AllDue(s) /\ d <= limit
      BY <1>1, <3>1
    <3>3. d \in Int /\ d >= s.first
      BY <3>2, AllDueAreDates
    <3> QED
      BY <2>1, <3>2, <3>3
  <2>3. PICK n \in Nat : /\ Cardinality(dates) = n + 1
                         /\ Min(dates) = DueDate(s, 0)
                         /\ Max(dates) = DueDate(s, n)
    BY <1>3, <2>2, DatesCount
  <2> DEFINE x == DueDate(s, 0)
             y == DueDate(s, n)
  <2>4. LooksMonthly(dates) <=> n >= 2 /\ 25 * n <= y - x /\ y - x <= 35 * n
    <3> HIDE DEF dates
    <3>1. Cardinality(dates) - 1 = n
      BY <2>3
    <3> QED
      BY <2>3, <3>1 DEF LooksMonthly
  <2>5. x \in Int /\ y \in Int
    BY <2>1, DatesAreNumbers
  <2>6. 0 + n = n /\ 0 \in Nat
    OBVIOUS
  <2>7. CASE ByDays(s)
    <3> DEFINE g == DaysBetween[s.frequency]
    <3>1. g \in {1, 7, 14, 28} /\ (g = 28) = (s.frequency = "every4Weeks")
            /\ s.frequency # "monthly"
      BY <2>1, <2>7, Rhythms
    <3>2. y = s.first + n * g /\ x = s.first
      BY <2>1, <2>7, DueByDays, FirstDate
    <3> HIDE DEF g, x, y, dates
    <3>3. n >= 2 => (25 * n <= y - x /\ y - x <= 35 * n <=> g = 28)
      BY <2>1, <2>5, <3>1, <3>2
    <3>4. Cardinality(dates) >= 3 <=> n >= 2
      BY <2>3
    <3> QED
      BY <2>4, <3>1, <3>3, <3>4 DEF dates
  <2>8. CASE ByMonths(s)
    <3> DEFINE g   == MonthsBetween[s.frequency]
               a   == MonthOf(s.first)
               day == DayOf(s.first)
    <3>1. g \in {1, 2, 3, 4, 6, 12, 24} /\ (g = 1) = (s.frequency = "monthly")
            /\ s.frequency # "every4Weeks"
      BY <2>1, <2>8, Rhythms
    <3>2. y = OnDay(a + n * g, day) /\ x = s.first
      BY <2>1, <2>8, DueByMonths, FirstDate
    <3>3. a \in Int /\ day \in 0 .. 30 /\ s.first = MonthStart(a) + day
      BY <2>1, DateIsOnItsDay
    <3> HIDE DEF g, x, y, a, day, dates
    <3>5. n * g \in Nat /\ a + n * g \in Int
      BY <3>1, <3>3
    <3>6. /\ MonthStart(a) + 28 * (n * g) <= MonthStart(a + n * g)
          /\ MonthStart(a + n * g) <= MonthStart(a) + 31 * (n * g)
      BY <3>3, <3>5, MonthsApart, MonthsNear
    <3>7. MonthStart(a) \in Int /\ MonthStart(a + n * g) \in Int
      BY <3>3, <3>5, MonthsAreIntegers
    <3>8. y <= MonthStart(a + n * g) + day /\ MonthStart(a + n * g) + day - 3 <= y
      BY <3>2, <3>3, <3>5, DayIsNear
    <3>9. x + 28 * (n * g) - 3 <= y /\ y <= x + 31 * (n * g)
      BY <2>5, <3>2, <3>3, <3>5, <3>6, <3>7, <3>8
    <3>10. n >= 2 => (25 * n <= y - x /\ y - x <= 35 * n <=> g = 1)
      <4>1. CASE g = 1
        BY <2>5, <3>9, <4>1
      <4>2. CASE g # 1
        <5>1. 2 * n <= n * g
          BY <3>1, <4>2
        <5> QED
          BY <2>5, <3>5, <3>9, <4>2, <5>1
      <4> QED
        BY <4>1, <4>2
    <3>11. Cardinality(dates) >= 3 <=> n >= 2
      BY <2>3
    <3> QED
      BY <2>4, <3>1, <3>10, <3>11 DEF dates
  <2>9. CASE Twice(s)
    <3>1. s.frequency # "monthly" /\ s.frequency # "every4Weeks"
      BY <2>1, <2>9, Rhythms
    <3>2. y <= x + 16 * n
      BY <2>1, <2>6, <2>9, TwiceSpan
    <3> HIDE DEF x, y, dates
    <3>3. n >= 2 => ~(25 * n <= y - x)
      BY <2>5, <3>2
    <3> QED
      BY <2>4, <3>1, <3>3 DEF dates
  <2> QED
    BY <2>1, <2>7, <2>8, <2>9, Rhythms
<1> QED
  BY <1>2, <1>3

\* A row for each date on which s was booked.
BookedOn(s, d) ==
  [date |-> d, amount |-> s.amount, payee |-> s.id, transfer |-> FALSE, deleted |-> FALSE]

LEMMA RecurringAre ==
  ASSUME NEW s, Plain(s), s.amount \in Int, s.amount < 0, s.first >= Today, NEW limit \in Int
  PROVE  LET dates   == DueDates(s, limit)
             rows    == {BookedOn(s, d) : d \in dates}
             monthly == s.frequency \in {"monthly", "every4Weeks"} /\ Cardinality(dates) >= 3
         IN RecurringExpenses(rows, Today, limit)
              = [p \in IF monthly THEN {s.id} ELSE {} |-> -s.amount]
PROOF
<1> DEFINE dates    == DueDates(s, limit)
           rows     == {BookedOn(s, d) : d \in dates}
           monthly  == s.frequency \in {"monthly", "every4Weeks"} /\ Cardinality(dates) >= 3
           spending == {r \in rows : ~r.deleted /\ ~r.transfer /\ r.amount < 0
                                       /\ Today <= r.date /\ r.date <= limit}
           of(p)    == {r \in spending : r.payee = p}
           found    == {p \in {r.payee : r \in spending} : IsMonthly(of(p))}
<1>1. \A d \in dates : d \in Int /\ Today <= d /\ d <= limit
  <2> TAKE d \in dates
  <2>1. d \in AllDue(s) /\ d <= limit
    BY DatesUpTo
  <2>2. d \in Int /\ d >= s.first /\ s.first \in Int
    BY <2>1, AllDueAreDates DEF Plain
  <2>3. Today \in Int
    BY StartAssumption
  <2> QED
    BY <2>1, <2>2, <2>3
<1>2. IsFiniteSet(dates)
  <2>1. dates \subseteq Today .. limit
    BY <1>1
  <2>2. Today \in Int
    BY StartAssumption
  <2> HIDE DEF dates
  <2> QED
    BY <2>1, <2>2, FS_Interval, FS_Subset
<1>3. RecurringExpenses(rows, Today, limit)
        = [p \in found |-> Round(TotalSpent(of(p)), Cardinality(of(p)))]
  BY DEF RecurringExpenses
<1> HIDE DEF dates
<1>4. spending = rows
  BY <1>1 DEF BookedOn
<1>5. \A r \in rows : r.payee = s.id /\ r.amount = s.amount
  BY DEF BookedOn
<1>6. of(s.id) = rows
  BY <1>4, <1>5
<1>7. Cardinality(rows) = Cardinality(dates) /\ IsFiniteSet(rows)
  <2> DEFINE key == [d \in dates |-> BookedOn(s, d)]
  <2>1. key \in [dates -> rows] /\ \A r \in rows : \E d \in dates : key[d] = r
    OBVIOUS
  <2>2. \A d, e \in dates : key[d] = key[e] => d = e
    <3>1. \A d : BookedOn(s, d).date = d
      BY DEF BookedOn
    <3> QED
      BY <3>1
  <2> HIDE DEF key, rows
  <2> QED
    BY <1>2, <2>1, <2>2, OneToOneCount
<1>8. {r.date : r \in rows} = dates
  <2>1. \A d : BookedOn(s, d).date = d
    BY DEF BookedOn
  <2> QED
    BY <2>1
<1>9. IsMonthly(rows) <=> LooksMonthly(dates)
  <2> HIDE DEF rows
  <2> QED
    BY <1>7, <1>8 DEF IsMonthly, LooksMonthly
<1>10. CASE dates = {}
  <2>1. Cardinality(dates) = 0
    BY <1>10, FS_EmptySet
  <2>2. ~monthly
    <3>1. ~(0 >= 3)
      OBVIOUS
    <3> QED
      BY <2>1, <3>1
  <2>3. found = {}
    BY <1>4, <1>10
  <2> HIDE DEF found, monthly, of
  <2>4. [p \in found |-> Round(TotalSpent(of(p)), Cardinality(of(p)))]
          = [p \in IF monthly THEN {s.id} ELSE {} |-> -s.amount]
    BY <2>2, <2>3
  <2> QED
    BY <1>3, <2>4 DEF dates, monthly
<1>11. CASE dates # {}
  <2>1. LooksMonthly(dates) <=> monthly
    BY <1>11, RhythmIsTold DEF dates
  <2>2. {r.payee : r \in spending} = {s.id}
    <3>1. PICK d \in dates : TRUE
      BY <1>11
    <3>2. BookedOn(s, d) \in rows
      OBVIOUS
    <3> HIDE DEF rows
    <3> QED
      BY <1>4, <1>5, <3>2
  <2>3. found = IF monthly THEN {s.id} ELSE {}
    <3> HIDE DEF monthly, rows, spending, of
    <3> QED
      BY <1>6, <1>9, <2>1, <2>2
  <2>4. Round(TotalSpent(rows), Cardinality(rows)) = -s.amount
    <3> DEFINE k == Cardinality(rows)
    <3>1. k \in Nat /\ k > 0
      <4>1. k \in Nat
        BY <1>7, FS_CardinalityType
      <4>2. k # 0
        BY <1>2, <1>7, <1>11, FS_EmptySet
      <4> QED
        BY <4>1, <4>2
    <3>2. TotalSpent(rows) = k * (-s.amount)
      <4> HIDE DEF rows
      <4> QED
        BY <1>5, <1>7, SpentInSame
    <3> HIDE DEF k, rows
    <3>3. -s.amount \in Int
      OBVIOUS
    <3>4. Round(k * (-s.amount), k) = -s.amount
      BY <3>1, <3>3, RoundOfSame
    <3> QED
      BY <3>2, <3>4 DEF k
  <2>5. \A p \in found : of(p) = rows
    BY <1>6, <2>3
  <2> HIDE DEF found, monthly, of, rows
  <2>6. [p \in found |-> Round(TotalSpent(of(p)), Cardinality(of(p)))]
          = [p \in IF monthly THEN {s.id} ELSE {} |-> -s.amount]
    BY <2>3, <2>4, <2>5
  <2> QED
    BY <1>3, <2>6 DEF dates, monthly, rows
<1> QED
  BY <1>10, <1>11

\* The dates that can be counted on are told.
LEMMA ExactlyTold ==
  ASSUME NEW s, NEW earlier \in Int, NEW date \in Int, earlier <= date, Shown(s, earlier),
         Countable(s), ~s.transfer
  PROVE  Occurrences(s, date, 30)
           = {d \in {e \in DueDates(s, date + 33) : e >= date - 3} : d - date \in 0 .. 30}
PROOF
<1>1. Plain(s) /\ date + 33 \in Int /\ 30 \in Int
  BY DEF Shown
<1>2. Occurrences(s, date, 30) = {d \in AllDue(s) : date <= d /\ d <= date + 30}
  BY <1>1, AllIsShown
<1>3. DueDates(s, date + 33) = {d \in AllDue(s) : d <= date + 33}
  BY <1>1, DatesUpTo
<1>4. \A d \in AllDue(s) : d \in Int
  BY <1>1, AllDueAreDates
<1> QED
  BY <1>2, <1>3, <1>4

\* Counted on by months, a date is at most three days off.
LEMMA MonthsNearDue ==
  ASSUME NEW s, Recurs(s), ByMonths(s), NEW i \in Nat
  PROVE  \E c \in [Nat -> Int] :
           /\ c[0] = DueDate(s, i)
           /\ \A k \in Nat : c[k + 1] = IncrementScheduledDate(c[k], s.frequency)
           /\ \A k \in Nat : c[k] - DueDate(s, i + k) \in -3 .. 3
PROOF
<1> DEFINE g     == MonthsBetween[s.frequency]
           n     == MonthOf(s.first) + i * g
           day   == DayOf(s.first)
           first == DueDate(s, i)
           x     == DayOf(first)
<1>1. g \in {1, 2, 3, 4, 6, 12, 24} /\ s.frequency \notin DOMAIN DaysBetween
  BY Rhythms
<1>2. /\ n \in Int /\ day \in 0 .. 30 /\ first = OnDay(n, day) /\ first \in Int
      /\ \A k \in Nat : /\ MonthOf(s.first) + (i + k) * g = n + k * g
                        /\ n + k * g \in Int
  BY DueByMonths
<1>3. \A k \in Nat : DueDate(s, i + k) = OnDay(n + k * g, day)
  <2> SUFFICES ASSUME NEW k \in Nat
               PROVE  DueDate(s, i + k) = OnDay(n + k * g, day)
    OBVIOUS
  <2>1. i + k \in Nat
    OBVIOUS
  <2>2. DueDate(s, i + k) = OnDay(MonthOf(s.first) + (i + k) * g, day)
    BY <2>1, DueByMonths
  <2> QED
    BY <1>2, <2>2
<1> HIDE DEF g, n, day, first
<1>4. /\ MonthOf(first) = n /\ x \in 0 .. 30
      /\ x <= day /\ (x = day \/ x >= 27)
  <2>5. day \in Nat
    BY <1>2
  <2>0. MonthStart(n + 1) = MonthStart(n) + LengthOf(n) /\ Placed(n, day)
    BY <1>2, <2>5, MonthIsOver, DaysOfAMonth
  <2>1. /\ MonthStart(n) \in Int /\ MonthStart(n + 1) \in Int
        /\ MonthStart(n) + 28 <= MonthStart(n + 1)
        /\ MonthStart(n) + day < MonthStart(n + 1) => first = MonthStart(n) + day
        /\ ~(MonthStart(n) + day < MonthStart(n + 1)) => first = MonthStart(n + 1) - 1
    BY <1>2, <2>0 DEF Placed
  <2>2. MonthStart(n) <= first /\ first < MonthStart(n + 1)
    BY <1>2, <2>1
  <2>3. MonthOf(first) = n /\ x = first - MonthStart(n)
    BY <1>2, <2>2, MonthOfDay
  <2>4. x \in 0 .. 30
    BY <1>2, DateIsOnItsDay
  <2> HIDE DEF x
  <2> QED
    BY <1>2, <2>1, <2>3, <2>4
<1>5. PICK c \in [Nat -> Int] :
        /\ c[0] = first
        /\ \A k \in Nat : c[k + 1] = AddMonths(c[k], g)
        /\ \A k \in Nat : \/ c[k] = MonthStart(n + k * g) + x
                          \/ \E y \in 0 .. 2 : /\ y <= x - 28
                                               /\ c[k] = MonthStart((n + k * g) + 1) + y
  <2>1. \E c \in [Nat -> Int] :
          /\ c[0] = first
          /\ \A k \in Nat : c[k + 1] = AddMonths(c[k], g)
          /\ \A k \in Nat :
               \/ c[k] = MonthStart(MonthOf(first) + k * g) + DayOf(first)
               \/ \E y \in 0 .. 2 : /\ y <= DayOf(first) - 28
                                    /\ c[k] = MonthStart((MonthOf(first) + k * g) + 1) + y
    BY <1>1, <1>2, MonthsCounted
  <2> QED
    BY <1>4, <2>1
<1> HIDE DEF x
<1>6. \A k \in Nat : c[k + 1] = IncrementScheduledDate(c[k], s.frequency)
  BY <1>1, <1>5 DEF IncrementScheduledDate, g
<1>7. ASSUME NEW k \in Nat
      PROVE  c[k] - DueDate(s, i + k) \in -3 .. 3
  <2> DEFINE m == n + k * g
  <2>1. m \in Int /\ DueDate(s, i + k) = OnDay(m, day) /\ c[k] \in Int
    BY <1>2, <1>3
  <2>2. \/ c[k] = MonthStart(m) + x
        \/ \E y \in 0 .. 2 : y <= x - 28 /\ c[k] = MonthStart(m + 1) + y
    BY <1>5
  <2> HIDE DEF m
  <2>6. day \in Nat
    BY <1>2
  <2>0. MonthStart(m + 1) = MonthStart(m) + LengthOf(m) /\ Placed(m, day)
    BY <2>1, <2>6, MonthIsOver, DaysOfAMonth
  <2>3. /\ MonthStart(m) \in Int /\ MonthStart(m + 1) \in Int
        /\ MonthStart(m) + 28 <= MonthStart(m + 1) /\ MonthStart(m + 1) <= MonthStart(m) + 31
        /\ MonthStart(m) + day < MonthStart(m + 1) => OnDay(m, day) = MonthStart(m) + day
        /\ ~(MonthStart(m) + day < MonthStart(m + 1)) => OnDay(m, day) = MonthStart(m + 1) - 1
    BY <2>0, <2>6 DEF Placed
  <2>4. CASE c[k] = MonthStart(m) + x
    BY <1>2, <1>4, <2>1, <2>3, <2>4
  <2>5. CASE \E y \in 0 .. 2 : y <= x - 28 /\ c[k] = MonthStart(m + 1) + y
    BY <1>2, <1>4, <2>1, <2>3, <2>5
  <2> QED
    BY <2>2, <2>4, <2>5
<1> QED
  BY <1>5, <1>6, <1>7 DEF first

\* What is told is about what falls due, and what falls due is about what is told.
LEMMA NearlyTold ==
  ASSUME NEW s, NEW earlier \in Int, NEW date \in Int, earlier <= date, Shown(s, earlier),
         ~s.transfer, s.frequency # "twiceAMonth" \/ s.next >= date
  PROVE  LET told == Occurrences(s, date, 30)
             due  == {d \in DueDates(s, date + 33) : d >= date - 3}
         IN /\ \A d \in told : \E e \in due : d - e \in -3 .. 3
            /\ \A e \in due : e - date \in 3 .. 27 => \E d \in told : d - e \in -3 .. 3
PROOF
<1> DEFINE told == Occurrences(s, date, 30)
           due  == {d \in DueDates(s, date + 33) : d >= date - 3}
<1>1. Plain(s) /\ s.next \in Int /\ date + 33 \in Int /\ date + 30 \in Int
  BY DEF Shown
<1>2. due = {d \in AllDue(s) : d <= date + 33 /\ d >= date - 3} /\ \A d \in AllDue(s) : d \in Int
  BY <1>1, DatesUpTo, AllDueAreDates
<1>3. CASE Countable(s)
  <2>1. told = {d \in due : d - date \in 0 .. 30}
    BY <1>3, ExactlyTold
  <2>2. \A d \in due : d \in Int /\ d - d \in -3 .. 3
    BY <1>2
  <2>3. \A e \in due : e - date \in 3 .. 27 => e - date \in 0 .. 30
    BY <1>2
  <2> HIDE DEF told, due
  <2>4. /\ \A d \in told : \E e \in due : d - e \in -3 .. 3
        /\ \A e \in due : e - date \in 3 .. 27 => \E d \in told : d - e \in -3 .. 3
    BY <2>1, <2>2, <2>3
  <2> QED
    BY <2>4 DEF told, due
<1>4. ASSUME s.frequency # "never", NEW i \in Nat, s.next = DueDate(s, i),
             i # 0 => DueDate(s, i - 1) < earlier, NEW c \in [Nat -> Int], c[0] = s.next,
             \A k \in Nat : c[k + 1] = IncrementScheduledDate(c[k], s.frequency),
             \A k \in Nat : c[k] <= date + 30 => c[k] - DueDate(s, i + k) \in -3 .. 3,
             \A k \in Nat : DueDate(s, i + k) <= date + 27 => c[k] - DueDate(s, i + k) \in -3 .. 3
      PROVE  /\ \A d \in told : \E e \in due : d - e \in -3 .. 3
             /\ \A e \in due : e - date \in 3 .. 27 => \E d \in told : d - e \in -3 .. 3
  <2>1. Recurs(s) /\ s.frequency \in Frequencies
    BY <1>1, <1>4, PlainRecurs DEF Plain
  <2>2. \A j \in Nat : DueDate(s, j) \in Int
    BY <2>1, DatesAreNumbers
  <2>3. AllDue(s) = {DueDate(s, j) : j \in Nat}
    BY <1>4 DEF AllDue
  <2>4. told = {d \in {c[k] : k \in Nat} : d <= date + 30 /\ d >= date}
    <3>1. ScheduledDates(s.next, s.frequency, date + 30)
            = {d \in {c[k] : k \in Nat} : d <= date + 30}
      BY <1>1, <1>4, <2>1, CountedDates
    <3> QED
      BY <3>1 DEF Occurrences
  <2> HIDE DEF told, due
  <2>5. ASSUME NEW d \in told
        PROVE  \E e \in due : d - e \in -3 .. 3
    <3>1. PICK k \in Nat : d = c[k] /\ d <= date + 30 /\ d >= date
      BY <2>4
    <3>2. d \in Int /\ DueDate(s, i + k) \in Int /\ d - DueDate(s, i + k) \in -3 .. 3
      BY <1>4, <2>2, <3>1
    <3>3. DueDate(s, i + k) \in due
      BY <1>2, <2>3, <3>1, <3>2
    <3> QED
      BY <3>2, <3>3
  <2>6. ASSUME NEW e \in due, e - date \in 3 .. 27
        PROVE  \E d \in told : d - e \in -3 .. 3
    <3>1. PICK j \in Nat : e = DueDate(s, j)
      BY <1>2, <2>3
    <3>2. e \in Int /\ date + 3 <= e /\ e <= date + 27
      BY <2>2, <2>6, <3>1
    <3>3. i <= j
      <4> SUFFICES ASSUME ~(i <= j) PROVE FALSE
        OBVIOUS
      <4>1. i # 0 /\ i - 1 \in Nat /\ (i - 1) - j \in Nat /\ j + ((i - 1) - j) = i - 1
        OBVIOUS
      <4>2. DueDate(s, j) + ((i - 1) - j) <= DueDate(s, i - 1)
        <5>1. DueDate(s, j) + ((i - 1) - j) <= DueDate(s, j + ((i - 1) - j))
          BY <2>1, <4>1, DatesAreApart
        <5> QED
          BY <4>1, <5>1
      <4>3. DueDate(s, i - 1) \in Int /\ DueDate(s, i - 1) < earlier
        BY <1>4, <2>2, <4>1
      <4> QED
        BY <3>1, <3>2, <4>1, <4>2, <4>3
    <3>4. j - i \in Nat /\ i + (j - i) = j
      BY <3>3
    <3>5. c[j - i] \in Int /\ c[j - i] - DueDate(s, j) \in -3 .. 3
      <4>1. c[j - i] \in Int
        BY <3>4
      <4>2. DueDate(s, i + (j - i)) <= date + 27
        BY <3>1, <3>2, <3>4
      <4>3. c[j - i] - DueDate(s, i + (j - i)) \in -3 .. 3
        BY <1>4, <3>4, <4>2
      <4> QED
        BY <3>4, <4>1, <4>3
    <3>6. c[j - i] <= date + 30 /\ c[j - i] >= date
      BY <3>1, <3>2, <3>5
    <3>7. c[j - i] \in told
      BY <2>4, <3>4, <3>6
    <3> QED
      BY <3>1, <3>5, <3>7
  <2> QED
    BY <2>5, <2>6
<1>5. CASE ~Countable(s)
  <2>1. s.frequency # "never"
    BY <1>5 DEF Countable
  <2>2. Recurs(s)
    BY <1>1, <2>1, PlainRecurs
  <2>3. PICK i \in Nat : s.next = DueDate(s, i) /\ (i # 0 => DueDate(s, i - 1) < earlier)
    BY <2>1 DEF Shown, NextDue
  <2>4. CASE ByMonths(s)
    <3>1. PICK c \in [Nat -> Int] :
            /\ c[0] = DueDate(s, i)
            /\ \A k \in Nat : c[k + 1] = IncrementScheduledDate(c[k], s.frequency)
            /\ \A k \in Nat : c[k] - DueDate(s, i + k) \in -3 .. 3
      BY <2>2, <2>4, MonthsNearDue
    <3> HIDE DEF told, due
    <3>2. /\ \A d \in told : \E e \in due : d - e \in -3 .. 3
          /\ \A e \in due : e - date \in 3 .. 27 => \E d \in told : d - e \in -3 .. 3
      BY <1>4, <2>1, <2>3, <3>1
    <3> QED
      BY <3>2 DEF told, due
  <2>5. CASE Twice(s)
    <3> DEFINE c == [k \in Nat |-> s.next + k * 15]
    <3>1. s.next >= date /\ s.frequency \in DOMAIN DaysBetween /\ DaysBetween[s.frequency] = 15
      BY <2>2, <2>5, Rhythms DEF Twice
    <3>2. \A k \in Nat : c[k] = s.next + k * 15 /\ c[k] \in Int /\ k + 1 \in Nat
      BY <1>1
    <3>3. c \in [Nat -> Int] /\ c[0] = s.next
      BY <1>1
    <3> HIDE DEF c
    <3>4. \A k \in Nat : c[k + 1] = c[k] + 15
      BY <1>1, <3>2
    <3>5. \A k \in Nat : c[k + 1] = IncrementScheduledDate(c[k], s.frequency)
      BY <3>1, <3>4 DEF IncrementScheduledDate
    <3>6. /\ i + 0 = i /\ 0 \in Nat /\ 1 \in Nat /\ 2 \in Nat
          /\ \A k \in Nat : DueDate(s, i + k) \in Int
      <4>1. \A k \in Nat : i + k \in Nat
        OBVIOUS
      <4> QED
        BY <2>2, <4>1, DatesAreNumbers
    <3>7. /\ DueDate(s, i + 1) - s.next \in 12 .. 16
          /\ DueDate(s, i + 2) - s.next \in 28 .. 31
      BY <2>2, <2>3, <2>5, DueTwice
    <3>8. /\ c[0] - DueDate(s, i + 0) \in -3 .. 3
          /\ c[1] - DueDate(s, i + 1) \in -3 .. 3
          /\ c[2] - DueDate(s, i + 2) \in -3 .. 3
      <4>1. c[1] = s.next + 15 /\ c[2] = s.next + 30
        BY <1>1, <3>2, <3>6
      <4> QED
        BY <1>1, <2>3, <3>3, <3>6, <3>7, <4>1
    <3>9. ASSUME NEW k \in Nat, c[k] <= date + 30 \/ DueDate(s, i + k) <= date + 27
          PROVE  k \in {0, 1, 2}
      <4> SUFFICES ASSUME k >= 3 PROVE FALSE
        OBVIOUS
      <4>1. c[k] > date + 30
        BY <1>1, <3>1, <3>2
      <4>2. DueDate(s, i + k) > date + 27
        <5>1. i + 2 \in Nat /\ k - 2 \in Nat /\ (i + 2) + (k - 2) = i + k
          OBVIOUS
        <5>2. DueDate(s, i + 2) + (k - 2) <= DueDate(s, (i + 2) + (k - 2))
          BY <2>2, <5>1, DatesAreApart
        <5>3. DueDate(s, i + 2) + (k - 2) <= DueDate(s, i + k)
          BY <5>1, <5>2
        <5>4. /\ DueDate(s, i + 2) \in Int /\ DueDate(s, i + k) \in Int /\ s.next \in Int
              /\ s.next + 28 <= DueDate(s, i + 2)
          BY <1>1, <3>6, <3>7
        <5> QED
          BY <1>1, <3>1, <5>1, <5>3, <5>4
      <4>3. c[k] \in Int /\ DueDate(s, i + k) \in Int
        BY <3>2, <3>6
      <4> QED
        BY <1>1, <3>9, <4>1, <4>2, <4>3
    <3> HIDE DEF told, due
    <3>10. /\ \A d \in told : \E e \in due : d - e \in -3 .. 3
           /\ \A e \in due : e - date \in 3 .. 27 => \E d \in told : d - e \in -3 .. 3
      BY <1>4, <2>1, <2>3, <3>3, <3>5, <3>8, <3>9
    <3> QED
      BY <3>10 DEF told, due
  <2>6. ~ByDays(s)
    BY <1>5 DEF Countable, ByDays
  <2> QED
    BY <2>2, <2>4, <2>5, <2>6, Rhythms
<1> QED
  BY <1>3, <1>5

\* A cache shows no transaction as gone that the plan still has, and one that was not
\* edited as the plan does.
Akin(X, Y, date) ==
  /\ \A x \in X : x.deleted => \E y \in Y : y.id = x.id /\ y.deleted
  /\ \A x \in X, y \in Y : IsUnedited(x, y) => Same(x, y, date)

\* The plan shows its schedule as of today, and the cache as of an earlier day.
ScheduleInv ==
  /\ today \in Int /\ Today <= today
  /\ Settled(schedule, today)
  /\ cached # None =>
       \E date \in Int : date <= today /\ Settled(cached, date) /\ Akin(cached, schedule, today)

LEMMA UneditedAre ==
  ASSUME NEW x, NEW y
  PROVE  IsUnedited(x, y) <=> /\ x.id = y.id /\ x.first = y.first /\ x.frequency = y.frequency
                              /\ x.amount = y.amount /\ x.transfer = y.transfer
BY DEF IsUnedited

LEMMA SameOfSame ==
  ASSUME NEW x, NEW y, NEW z, NEW earlier \in Int, NEW date \in Int, earlier <= date,
         Same(x, y, earlier), Same(y, z, date), x.first \in Int
  PROVE  Same(x, z, date)
BY DEF Same

\* What starts at a date is shown from then on.
LEMMA AnewIsShown ==
  ASSUME NEW anew, Fields \subseteq DOMAIN anew, anew.frequency \in Frequencies,
         anew.amount \in Int, anew.first \in Nat, anew.next = anew.first, Today <= anew.first,
         NEW date \in Int
  PROVE  Shown(anew, date)
PROOF
<1>1. Plain(anew)
  BY DEF Plain
<1>2. NextDue(anew, date)
  <2>1. CASE anew.frequency = "never"
    BY <2>1 DEF NextDue
  <2>2. CASE anew.frequency # "never"
    <3>1. DueDate(anew, 0) = anew.next /\ 0 \in Nat
      BY <1>1, <2>2, PlainRecurs, FirstDate
    <3> QED
      BY <2>2, <3>1 DEF NextDue
  <2> QED
    BY <2>1, <2>2
<1>3. anew.next \in Int /\ anew.first >= Today
  BY StartAssumption
<1> QED
  BY <1>1, <1>2, <1>3 DEF Shown

LEMMA InitIsSettled ==
  ASSUME Init
  PROVE  ScheduleInv
PROOF
<1>1. today = Today /\ Today \in Nat /\ cached = None
  BY StartAssumption DEF Init
<1>2. ASSUME NEW s \in Schedules \cup AlsoScheduled
      PROVE  Shown(s, Today)
  <2>1. /\ s.frequency \in Frequencies /\ Fields \subseteq DOMAIN s /\ s.first \in Int
        /\ s.amount \in Int /\ s.next = s.first /\ s.first >= Today
    BY StartAssumption DEF Fields
  <2>2. s.first \in Nat /\ Today <= s.first /\ Today \in Int
    BY <1>1, <2>1
  <2> QED
    BY <2>1, <2>2, AnewIsShown
<1>3. /\ IsFiniteSet(AlsoScheduled)
      /\ \A r, s \in AlsoScheduled : r.id = s.id => r = s
  BY ListsAssumption
<1>4. CASE schedule = AlsoScheduled
  BY <1>1, <1>2, <1>3, <1>4 DEF ScheduleInv, Settled
<1>5. CASE \E s \in Schedules : schedule = {s} \cup AlsoScheduled
  <2>1. PICK s \in Schedules : schedule = {s} \cup AlsoScheduled
    BY <1>5
  <2>2. IsFiniteSet({s}) /\ IsFiniteSet({s} \cup AlsoScheduled)
    BY <1>3, FS_Singleton, FS_Union
  <2>3. \A q, r \in {s} \cup AlsoScheduled : q.id = r.id => q = r
    <3>1. \A r \in AlsoScheduled : s.id # r.id
      BY StartAssumption
    <3> QED
      BY <1>3, <3>1
  <2>4. \A r \in {s} \cup AlsoScheduled : Shown(r, Today)
    BY <1>2
  <2>5. Settled(schedule, today)
    BY <1>1, <2>1, <2>2, <2>3, <2>4 DEF Settled
  <2> QED
    BY <1>1, <2>5 DEF ScheduleInv
<1> QED
  BY <1>4, <1>5 DEF Init

\* Time passes.
LEMMA PassKeepsSettled ==
  ASSUME ScheduleInv, NEW date \in Int, today <= date, PassTo(date)
  PROVE  ScheduleInv'
PROOF
<1> DEFINE f == [s \in schedule |-> AdvancedTo(s, date)]
<1>1. /\ today \in Int /\ Today \in Nat /\ Today <= today
      /\ today' = date /\ cached' = cached
      /\ schedule' = {AdvancedTo(s, date) : s \in schedule}
  BY StartAssumption DEF PassTo, ScheduleInv
<1>2. date \in Nat /\ Today <= date
  BY <1>1
<1>3. IsFiniteSet(schedule) /\ (\A r, s \in schedule : r.id = s.id => r = s)
        /\ \A s \in schedule : Shown(s, today)
  BY DEF ScheduleInv, Settled
<1>4. ASSUME NEW s \in schedule
      PROVE  Shown(AdvancedTo(s, date), date) /\ Same(s, AdvancedTo(s, date), date)
  BY <1>1, <1>2, <1>3, AdvancedIsShown
<1>5. IsFiniteSet(schedule')
  <2>1. DOMAIN f = schedule /\ {f[s] : s \in DOMAIN f} = schedule'
    BY <1>1
  <2> HIDE DEF f
  <2>2. IsFiniteSet({f[s] : s \in DOMAIN f})
    BY <1>3, <2>1, ImagesAreFinite
  <2> QED
    BY <2>1, <2>2
<1>6. \A a \in schedule' : Shown(a, date)
  BY <1>1, <1>4
<1>7. ASSUME NEW a \in schedule', NEW b \in schedule', a.id = b.id
      PROVE  a = b
  <2>1. PICK r \in schedule : a = AdvancedTo(r, date)
    BY <1>1
  <2>2. PICK s \in schedule : b = AdvancedTo(s, date)
    BY <1>1
  <2>3. a.id = r.id /\ b.id = s.id
    BY <1>4, <2>1, <2>2 DEF Same
  <2> QED
    BY <1>3, <1>7, <2>1, <2>2, <2>3
<1>8. Settled(schedule', date)
  BY <1>5, <1>6, <1>7 DEF Settled
<1>9. ASSUME cached # None
      PROVE  \E earlier \in Int :
               /\ earlier <= date /\ Settled(cached, earlier) /\ Akin(cached, schedule', date)
  <2>1. PICK earlier \in Int : /\ earlier <= today /\ Settled(cached, earlier)
                               /\ Akin(cached, schedule, today)
    BY <1>9 DEF ScheduleInv
  <2>2. \A x \in cached : x.first \in Int
    BY <2>1 DEF Settled, Shown, Plain
  <2>3. ASSUME NEW x \in cached, x.deleted
        PROVE  \E z \in schedule' : z.id = x.id /\ z.deleted
    <3>1. PICK y \in schedule : y.id = x.id /\ y.deleted
      BY <2>1, <2>3 DEF Akin
    <3>2. AdvancedTo(y, date) \in schedule'
      BY <1>1
    <3>3. AdvancedTo(y, date).id = x.id /\ AdvancedTo(y, date).deleted
      BY <1>4, <3>1 DEF Same
    <3> QED
      BY <3>2, <3>3
  <2>4. ASSUME NEW x \in cached, NEW z \in schedule', IsUnedited(x, z)
        PROVE  Same(x, z, date)
    <3>1. PICK y \in schedule : z = AdvancedTo(y, date)
      BY <1>1
    <3>2. Same(y, z, date)
      BY <1>4, <3>1
    <3>3. IsUnedited(x, y)
      BY <2>4, <3>2, UneditedAre DEF Same
    <3>4. Same(x, y, today)
      BY <2>1, <3>3 DEF Akin
    <3> QED
      BY <1>1, <2>2, <3>2, <3>4, SameOfSame
  <2>5. earlier <= date
    BY <1>1, <2>1
  <2> QED
    BY <2>1, <2>3, <2>4, <2>5 DEF Akin
<1> QED
  BY <1>1, <1>2, <1>8, <1>9 DEF ScheduleInv

\* The owner leaves what is gone alone, and what is edited or added is shown as new.
LEMMA EditKeepsSettled ==
  ASSUME ScheduleInv, UNCHANGED <<today, cached>>, NEW kept \in SUBSET schedule,
         \A s \in schedule \ kept : ~s.deleted, NEW come, IsFiniteSet(come),
         \A a, b \in come : a = b,
         \A a \in come : Shown(a, today) /\ ~a.deleted /\ \A s \in kept : s.id # a.id,
         schedule' = kept \cup come
  PROVE  ScheduleInv'
PROOF
<1>1. IsFiniteSet(schedule) /\ (\A r, s \in schedule : r.id = s.id => r = s)
        /\ (\A s \in schedule : Shown(s, today)) /\ today \in Int /\ Today <= today
  BY DEF ScheduleInv, Settled
<1>2. IsFiniteSet(kept \cup come)
  BY <1>1, FS_Subset, FS_Union
<1>3. Settled(schedule', today)
  BY <1>1, <1>2 DEF Settled
<1>4. ASSUME cached # None
      PROVE  \E date \in Int :
               /\ date <= today /\ Settled(cached, date) /\ Akin(cached, schedule', today)
  <2>1. PICK date \in Int : /\ date <= today /\ Settled(cached, date)
                            /\ Akin(cached, schedule, today)
    BY <1>4 DEF ScheduleInv
  <2>2. ASSUME NEW x \in cached, x.deleted
        PROVE  \E y \in kept : y.id = x.id /\ y.deleted
    <3>1. PICK y \in schedule : y.id = x.id /\ y.deleted
      BY <2>1, <2>2 DEF Akin
    <3> QED
      BY <3>1
  <2>3. ASSUME NEW x \in cached, NEW y \in schedule', IsUnedited(x, y)
        PROVE  Same(x, y, today)
    <3>1. CASE y \in kept
      BY <2>1, <2>3, <3>1 DEF Akin
    <3>2. CASE y \in come
      <4>1. x.id = y.id
        BY <2>3, UneditedAre
      <4>2. ~x.deleted /\ ~y.deleted
        BY <2>2, <3>2, <4>1
      <4> QED
        BY <2>3, <4>2, UneditedAre DEF Same
    <3> QED
      BY <3>1, <3>2
  <2> QED
    BY <2>1, <2>2, <2>3 DEF Akin
<1> QED
  BY <1>1, <1>3, <1>4 DEF ScheduleInv

LEMMA RescheduleKeepsSettled ==
  ASSUME ScheduleInv, Reschedule
  PROVE  ScheduleInv'
PROOF
<1>1. UNCHANGED <<today, cached>>
  BY DEF Reschedule
<1>2. /\ \A r, s \in schedule : r.id = s.id => r = s
      /\ \A s \in schedule : Shown(s, today)
      /\ today \in Nat /\ Today <= today /\ today + Step \in Nat /\ Today <= today + Step
  BY StartAssumption DEF ScheduleInv, Settled
<1>3. ASSUME NEW s \in schedule, ~s.deleted, NEW a, Shown(a, today), ~a.deleted, a.id = s.id,
             schedule' = (schedule \ {s}) \cup {a}
      PROVE  ScheduleInv'
  <2>1. \A r \in schedule \ {s} : r.id # a.id
    BY <1>2, <1>3
  <2>2. IsFiniteSet({a}) /\ schedule \ {s} \in SUBSET schedule
    BY FS_Singleton
  <2> QED
    BY <1>1, <1>3, <2>1, <2>2, EditKeepsSettled
<1>4. ASSUME NEW s \in schedule, ~s.deleted, schedule' = schedule \ {s}
      PROVE  ScheduleInv'
  <2>1. /\ IsFiniteSet({})
        /\ schedule' = (schedule \ {s}) \cup {} /\ schedule \ {s} \in SUBSET schedule
    BY <1>4, FS_EmptySet
  <2> QED
    BY <1>1, <1>4, <2>1, EditKeepsSettled
<1>5. ASSUME NEW s \in schedule, ~s.deleted,
             schedule' = (schedule \ {s})
               \cup {[s EXCEPT !.first = today + Step, !.next = today + Step]}
      PROVE  ScheduleInv'
  <2> DEFINE a == [s EXCEPT !.first = today + Step, !.next = today + Step]
  <2>1. Shown(s, today)
    BY <1>2
  <2>5. s.frequency \in Frequencies /\ Fields \subseteq DOMAIN s /\ s.amount \in Int
    BY <2>1 DEF Shown, Plain
  <2>2. /\ a.first = today + Step /\ a.next = today + Step /\ a.frequency = s.frequency
        /\ a.amount = s.amount /\ a.id = s.id /\ a.deleted = s.deleted /\ DOMAIN a = DOMAIN s
    BY <2>5 DEF Fields
  <2>3. schedule' = (schedule \ {s}) \cup {a}
    BY <1>5
  <2> HIDE DEF a
  <2>4. Shown(a, today)
    BY <1>2, <2>2, <2>5, AnewIsShown
  <2> QED
    BY <1>3, <1>5, <2>2, <2>3, <2>4
<1>6. ASSUME NEW s \in schedule, ~s.deleted, NEW amount \in NewAmounts,
             schedule' = (schedule \ {s}) \cup {[s EXCEPT !.amount = amount]}
      PROVE  ScheduleInv'
  <2> DEFINE a == [s EXCEPT !.amount = amount]
  <2>1. Shown(s, today) /\ amount \in Int
    BY <1>2, StartAssumption
  <2>2. /\ a.id = s.id /\ a.first = s.first /\ a.next = s.next /\ a.frequency = s.frequency
        /\ a.amount = amount /\ a.deleted = s.deleted /\ DOMAIN a = DOMAIN s
    BY <2>1 DEF Shown, Fields
  <2> HIDE DEF a
  <2>3. \A i : DueDate(a, i) = DueDate(s, i)
    BY <2>2 DEF DueDate
  <2>4. Shown(a, today)
    BY <2>1, <2>2, <2>3 DEF Shown, Plain, NextDue
  <2> QED
    BY <1>3, <1>6, <2>2, <2>4 DEF a
<1>7. ASSUME NEW s \in Additions, s.id \notin {r.id : r \in schedule},
             schedule' = schedule \cup {[s EXCEPT !.first = today, !.next = today]}
      PROVE  ScheduleInv'
  <2> DEFINE a == [s EXCEPT !.first = today, !.next = today]
  <2>1. /\ s.frequency \in Frequencies /\ Fields \subseteq DOMAIN s /\ s.amount \in Int
        /\ ~s.deleted
    BY StartAssumption DEF Fields
  <2>2. /\ a.first = today /\ a.next = today /\ a.frequency = s.frequency
        /\ a.amount = s.amount /\ a.id = s.id /\ a.deleted = s.deleted /\ DOMAIN a = DOMAIN s
    BY <2>1 DEF Fields
  <2>5. schedule' = schedule \cup {a}
    BY <1>7
  <2> HIDE DEF a
  <2>3. Shown(a, today) /\ a.id = s.id
    BY <1>2, <2>1, <2>2, AnewIsShown
  <2>4. IsFiniteSet({a}) /\ schedule \in SUBSET schedule /\ \A r \in schedule : r.id # a.id
    BY <1>7, <2>3, FS_Singleton
  <2> QED
    BY <1>1, <2>1, <2>2, <2>3, <2>4, <2>5, EditKeepsSettled
<1> QED
  BY <1>4, <1>5, <1>6, <1>7 DEF Reschedule

LEMMA StepKeepsSettled ==
  ASSUME ScheduleInv, [Next]_vars
  PROVE  ScheduleInv'
PROOF
<1>1. CASE Pass
  <2>1. today + Step \in Int /\ today <= today + Step
    BY StartAssumption DEF ScheduleInv
  <2> QED
    BY <1>1, <2>1, PassKeepsSettled DEF Pass
<1>2. CASE MonthTurns
  <2>1. MonthOf(today) \in Int /\ today \in Int
    BY MonthsAreIntegers DEF ScheduleInv
  <2>2. MonthStart(MonthOf(today) + 1) \in Int /\ today <= MonthStart(MonthOf(today) + 1)
    <3>1. MonthOf(today) + 1 \in Int
      BY <2>1
    <3>2. MonthStart(MonthOf(today) + 1) \in Int /\ today < MonthStart(MonthOf(today) + 1)
      BY <2>1, <3>1, MonthsAreIntegers, DayIsInMonth
    <3> QED
      BY <2>1, <3>2
  <2> QED
    BY <1>2, <2>2, PassKeepsSettled DEF MonthTurns
<1>3. CASE ReadSchedule
  <2>1. /\ today' = today /\ schedule' = schedule /\ cached' = schedule
        /\ today \in Int /\ today <= today /\ Settled(schedule, today)
    BY <1>3 DEF ReadSchedule, ScheduleInv
  <2>2. Akin(schedule, schedule, today)
    <3>1. ASSUME NEW x \in schedule, NEW y \in schedule, IsUnedited(x, y)
          PROVE  Same(x, y, today)
      <4>1. x = y
        BY <2>1, <3>1, UneditedAre DEF Settled
      <4> QED
        BY <4>1 DEF Same
    <3> QED
      BY <3>1 DEF Akin
  <2> QED
    BY <2>1, <2>2 DEF ScheduleInv
<1>4. CASE Reschedule
  BY <1>4, RescheduleKeepsSettled
<1>5. CASE UNCHANGED <<today, schedule, cached>>
  BY <1>5 DEF ScheduleInv
<1>6. CASE \E order \in {"up", "down"} : (\E w \in Walks : StartWalk(w, order)) \/ NextPage(order)
  BY <1>5, <1>6 DEF StartWalk, NextPage
<1>7. CASE \E t \in Transactions, status \in Statuses : Change(t, status)
  BY <1>5, <1>7 DEF Change
<1>8. CASE \E withMonths \in BOOLEAN : Report(withMonths)
  BY <1>5, <1>8 DEF Report
<1>9. CASE \E a \in Analyses : Analyse(a) \/ Update(a)
  BY <1>5, <1>9 DEF Analyse, Update
<1>10. ASSUME NEW key, MonthReport(key)
       PROVE  ScheduleInv'
  BY <1>5, <1>10 DEF MonthReport
<1>11. CASE UNCHANGED vars
  BY <1>5, <1>11 DEF vars
<1> QED
  BY <1>1, <1>2, <1>3, <1>4, <1>6, <1>7, <1>8, <1>9, <1>10, <1>11 DEF Next

\* What was not edited is cached and planned alike.
LEMMA CacheIsOutlived ==
  ASSUME ScheduleInv, cached # None
  PROVE  LET then == {s \in Unedited(cached, schedule) : Countable(s)}
             now  == {s \in Unedited(schedule, cached) : Countable(s)}
         IN UpcomingObligations(then, today) = UpcomingObligations(now, today)
PROOF
<1> DEFINE then == {s \in Unedited(cached, schedule) : Countable(s)}
           now  == {s \in Unedited(schedule, cached) : Countable(s)}
<1>1. today \in Int /\ Settled(schedule, today)
  BY DEF ScheduleInv
<1>2. PICK date \in Int : date <= today /\ Settled(cached, date) /\ Akin(cached, schedule, today)
  BY DEF ScheduleInv
<1>3. /\ \A x \in then : x \in cached /\ Countable(x) /\ \E y \in schedule : IsUnedited(x, y)
      /\ \A y \in now : y \in schedule /\ Countable(y) /\ \E x \in cached : IsUnedited(y, x)
      /\ \A x \in cached : \A y \in schedule : IsUnedited(x, y) /\ Countable(x) => x \in then
      /\ \A y \in schedule : \A x \in cached : IsUnedited(y, x) /\ Countable(y) => y \in now
  BY DEF Unedited
<1> HIDE DEF then, now
<1>4. ASSUME NEW x, NEW y, IsUnedited(x, y)
      PROVE  IsUnedited(y, x) /\ (Countable(x) <=> Countable(y))
  BY <1>4, UneditedAre DEF Countable
<1>5. Settled(then, date) /\ Settled(now, today)
  <2>1. then \subseteq cached /\ now \subseteq schedule
    BY <1>3
  <2> QED
    BY <1>1, <1>2, <2>1, FS_Subset DEF Settled
<1>6. Alike(then, now, today)
  <2>1. ASSUME NEW x \in then
        PROVE  \E y \in now : Same(x, y, today)
    <3>1. PICK y \in schedule : IsUnedited(x, y)
      BY <1>3
    <3>2. y \in now
      BY <1>3, <1>4, <3>1
    <3> QED
      BY <1>2, <1>3, <3>1, <3>2 DEF Akin
  <2>2. ASSUME NEW y \in now
        PROVE  \E x \in then : Same(x, y, today)
    <3>1. PICK x \in cached : IsUnedited(y, x)
      BY <1>3
    <3>2. IsUnedited(x, y) /\ x \in then
      BY <1>3, <1>4, <3>1
    <3> QED
      BY <1>2, <1>3, <3>1, <3>2 DEF Akin
  <2> QED
    BY <2>1, <2>2 DEF Alike
<1>7. \A s \in then \cup now : Countable(s)
  BY <1>3
<1>8. UpcomingObligations(then, today) = UpcomingObligations(now, today)
  BY <1>1, <1>2, <1>5, <1>6, <1>7, ObligationsAreAlike
<1> QED
  BY <1>8 DEF then, now

LEMMA SchedulesAreTold ==
  ASSUME ScheduleInv
  PROVE  SchedulesAgree
PROOF
<1>1. today \in Int /\ today <= today /\ Settled(schedule, today)
  BY DEF ScheduleInv
<1>2. PICK date \in Int : date <= today /\ Settled(InUse, date)
  <2>1. CASE cached = None
    BY <1>1, <2>1 DEF InUse
  <2>2. CASE cached # None
    BY <2>2 DEF ScheduleInv, InUse
  <2> QED
    BY <2>1, <2>2
<1>3. WindowsAgree
  BY <1>1, <1>2, WindowsAreNested DEF WindowsAgree
<1>4. ScheduleOutlivesItsCache
  BY CacheIsOutlived DEF ScheduleOutlivesItsCache
<1>5. DatesAreTold
  <2> SUFFICES ASSUME NEW s \in {t \in Unedited(InUse, schedule) : ~t.transfer}
               PROVE  LET told == Occurrences(s, today, 30)
                          due  == {d \in DueDates(s, today + 33) : d >= today - 3}
                          near(d, e) == d - e \in -3 .. 3
                      IN /\ Countable(s) => told = {d \in due : d - today \in 0 .. 30}
                         /\ s.frequency # "twiceAMonth" \/ s.next >= today =>
                              /\ \A d \in told : \E e \in due : near(d, e)
                              /\ \A e \in due : e - today \in 3 .. 27 =>
                                   \E d \in told : near(d, e)
    BY DEF DatesAreTold
  <2>1. s \in InUse /\ ~s.transfer
    BY DEF Unedited
  <2>2. Shown(s, date)
    BY <1>2, <2>1 DEF Settled
  <2>3. Countable(s) =>
          Occurrences(s, today, 30)
            = {d \in {e \in DueDates(s, today + 33) : e >= today - 3} : d - today \in 0 .. 30}
    BY <1>1, <1>2, <2>1, <2>2, ExactlyTold
  <2>4. s.frequency # "twiceAMonth" \/ s.next >= today =>
          LET told == Occurrences(s, today, 30)
              due  == {d \in DueDates(s, today + 33) : d >= today - 3}
          IN /\ \A d \in told : \E e \in due : d - e \in -3 .. 3
             /\ \A e \in due : e - today \in 3 .. 27 => \E d \in told : d - e \in -3 .. 3
    BY <1>1, <1>2, <2>1, <2>2, NearlyTold
  <2> QED
    BY <2>3, <2>4
<1>6. RecurringIsRecognised
  <2> SUFFICES ASSUME NEW s \in {t \in schedule : t.amount < 0 /\ ~t.transfer}
               PROVE  LET dates == DueDates(s, today)
                          rows  == {[date |-> d, amount |-> s.amount, payee |-> s.id,
                                     transfer |-> FALSE, deleted |-> FALSE] : d \in dates}
                          found == RecurringExpenses(rows, Today, today)
                          monthly == /\ s.frequency \in {"monthly", "every4Weeks"}
                                     /\ Cardinality(dates) >= 3
                      IN found = [p \in IF monthly THEN {s.id} ELSE {} |-> -s.amount]
    BY DEF RecurringIsRecognised
  <2>1. Plain(s) /\ s.amount \in Int /\ s.first >= Today
    BY <1>1 DEF Settled, Shown
  <2> QED
    BY <1>1, <2>1, RecurringAre DEF BookedOn
<1> QED
  BY <1>3, <1>4, <1>5, <1>6 DEF SchedulesAgree

\* The tools tell of one schedule: of every scheduled transaction what falls due, exactly
\* where dates can be counted on and within three days otherwise, from a cache as from
\* the plan but for what the owner edited, and what is booked on schedule is recognised.
THEOREM SchedulesHold == Spec => []SchedulesAgree
PROOF
<1>1. Init => ScheduleInv
  BY InitIsSettled
<1>2. ScheduleInv /\ [Next]_vars => ScheduleInv'
  BY StepKeepsSettled
<1>3. ScheduleInv => SchedulesAgree
  BY SchedulesAreTold
<1> QED
  BY <1>1, <1>2, <1>3, PTL DEF Spec
=============================================================================
