------------------------ MODULE OrderNumbersProofs ------------------------
(***************************************************************************)
(* The numbers of orders, for every set of orders: those that go through   *)
(* the counter differ from each other and from the older ones whatever else*)
(* happens, without replacement orders all of them differ, and none of them*)
(* reaches the count of orders.                                            *)
(***************************************************************************)
EXTENDS OrderNumbers, FiniteSetTheorems, TLAPS

\* A dashboard transaction has computed a number no lower than the counter it
\* has read.
AheadOfSeen == \A o \in DashboardOrders : seen[o] # Idle => next[o] >= seen[o] /\ next[o] >= 0

\* The counter is ahead of the numbers it has given and of those before it.
BehindCounter == \A o \in Kept : number[o] # None => number[o] < counter

\* Without a counter no order has gone through it, and what is seeded then is
\* above the legacy numbers.
SeedFresh ==
    /\ \A o \in Counted : number[o] = None
    /\ \A o \in DashboardOrders, l \in Legacy : seen[o] # Idle => number[l] < next[o]

LegacyKept == \A l \in Legacy : number[l] = LegacyNumber[l]

KeptInv ==
    /\ TypeOK
    /\ AheadOfSeen
    /\ LegacyKept
    /\ counter # Missing => BehindCounter
    /\ counter = Missing => SeedFresh
    /\ CountedUnique

LEMMA CountIsNat == Cardinality(Created) \in Nat /\ NumberBound \in Nat
<1>1. IsFiniteSet(Created)
  BY OrdersAssumption, FS_Subset DEF Created
<1> QED  BY <1>1, OrdersAssumption, FS_CardinalityType DEF NumberBound

LEMMA AllocatedIsNat ==
    ASSUME TypeOK
    PROVE  Allocated \in Nat /\ Allocated >= counter
BY CountIsNat DEF Allocated, Count, TypeOK, Missing

\* A step that gives number n to order o and moves the counter past it.
Takes(o, n) ==
    /\ n \in Nat
    /\ n >= counter
    /\ number' = [number EXCEPT ![o] = n]
    /\ counter' = n + 1

LEMMA ServerTakes ==
    ASSUME TypeOK, NEW o \in ServerOrders, ServerCreate(o)
    PROVE  Takes(o, Allocated)
BY AllocatedIsNat DEF ServerCreate, Takes

LEMMA DashboardTakes ==
    ASSUME TypeOK, AheadOfSeen, NEW o \in DashboardOrders, DashboardCommit(o)
    PROVE  Takes(o, next[o])
<1>1. next[o] \in Nat \cup {None} /\ next[o] >= 0 /\ next[o] >= counter
  BY DEF TypeOK, AheadOfSeen, DashboardCommit
<1> QED  BY <1>1 DEF DashboardCommit, Takes, None

LEMMA TakesTypes ==
    ASSUME TypeOK, NEW o \in Counted, NEW n, Takes(o, n)
    PROVE  number' \in [Orders -> Nat \cup {None}] /\ counter' \in Nat
<1>1. o \in Orders
  BY DEF Orders, Kept
<1>2. number' \in [Orders -> Nat \cup {None}]
  BY <1>1 DEF Takes, TypeOK
<1>3. counter' \in Nat
  BY DEF Takes
<1> QED  BY <1>2, <1>3

\* The types, and the numbers computed ahead, survive every step.
LEMMA ComputedStep ==
    ASSUME TypeOK, AheadOfSeen, [Next]_vars
    PROVE  TypeOK' /\ AheadOfSeen'
<1>1. ASSUME NEW o \in ServerOrders, ServerCreate(o)
      PROVE  TypeOK' /\ AheadOfSeen'
  <2>1. number' \in [Orders -> Nat \cup {None}] /\ counter' \in Nat
    BY <1>1, ServerTakes, TakesTypes DEF Counted
  <2>2. seen' = seen /\ next' = next
    BY <1>1 DEF ServerCreate
  <2> QED  BY <2>1, <2>2 DEF TypeOK, AheadOfSeen
<1>2. ASSUME NEW o \in DashboardOrders, NEW n \in 0..NumberBound, DashboardRead(o, n)
      PROVE  TypeOK' /\ AheadOfSeen'
  <2>1. n \in Nat
    BY CountIsNat
  <2> DEFINE computed == IF counter > n THEN counter ELSE n
  <2>2. computed \in Nat /\ computed >= counter
    BY <2>1 DEF TypeOK, Missing
  <2>3. /\ seen' = [seen EXCEPT ![o] = counter]
        /\ next' = [next EXCEPT ![o] = computed]
        /\ number' = number /\ counter' = counter
    BY <1>2 DEF DashboardRead
  <2> HIDE DEF computed
  <2>4. TypeOK'
    BY <2>2, <2>3 DEF TypeOK
  <2>5. AheadOfSeen'
    BY <2>2, <2>3 DEF TypeOK, AheadOfSeen
  <2> QED  BY <2>4, <2>5
<1>3. ASSUME NEW o \in DashboardOrders, DashboardCommit(o)
      PROVE  TypeOK' /\ AheadOfSeen'
  <2>1. number' \in [Orders -> Nat \cup {None}] /\ counter' \in Nat
    BY <1>3, DashboardTakes, TakesTypes DEF Counted
  <2>2. seen' = [seen EXCEPT ![o] = Idle] /\ next' = next
    BY <1>3 DEF DashboardCommit
  <2> QED  BY <2>1, <2>2 DEF TypeOK, AheadOfSeen
<1>4. ASSUME NEW o \in DashboardOrders, DashboardRetry(o)
      PROVE  TypeOK' /\ AheadOfSeen'
  BY <1>4 DEF TypeOK, AheadOfSeen, DashboardRetry
<1>5. ASSUME NEW o \in ReplacementOrders, ReplacementCount(o)
      PROVE  TypeOK' /\ AheadOfSeen'
  <2>1. o \notin DashboardOrders
    BY OrdersAssumption DEF Counted
  <2> QED  BY <1>5, <2>1, CountIsNat DEF TypeOK, AheadOfSeen, ReplacementCount, Count
<1>6. ASSUME NEW o \in ReplacementOrders, ReplacementCommit(o)
      PROVE  TypeOK' /\ AheadOfSeen'
  BY <1>6 DEF TypeOK, AheadOfSeen, ReplacementCommit, Orders, Kept
<1>7. CASE UNCHANGED vars
  BY <1>7 DEF TypeOK, AheadOfSeen, vars
<1> QED  BY <1>1, <1>2, <1>3, <1>4, <1>5, <1>6, <1>7 DEF Next

LEMMA KeptInit == Init => KeptInv
<1> SUFFICES ASSUME Init PROVE KeptInv
  OBVIOUS
<1>1. TypeOK /\ AheadOfSeen
  BY OrdersAssumption DEF Init, Kept, Orders, TypeOK, AheadOfSeen
<1>2. LegacyKept
  BY DEF Init, LegacyKept, Orders, Kept
<1>3. \A o \in Counted : number[o] = None
  BY OrdersAssumption DEF Init, Orders, Kept
<1>4. CountedUnique
  BY <1>2, <1>3, OrdersAssumption DEF CountedUnique, UniqueIn, Created, LegacyKept, Kept
<1> QED  BY <1>1, <1>2, <1>3, <1>4 DEF KeptInv, SeedFresh, Init

\* What has a number among the legacy and counted orders is below the number a
\* step takes, if that is above the legacy numbers where there is no counter.
LEMMA KeptBelow ==
    ASSUME KeptInv, NEW o \in Counted, NEW n, Takes(o, n),
           counter = Missing => \A l \in Legacy : number[l] < n,
           NEW p \in Kept, number[p] # None
    PROVE  number[p] < n
<1>1. number[p] \in Nat /\ n \in Nat /\ n >= counter
  BY DEF KeptInv, TypeOK, Orders, Takes
<1>2. CASE counter = Missing
  BY <1>2 DEF KeptInv, SeedFresh, Kept
<1>3. CASE counter # Missing
  <2>1. number[p] < counter /\ counter \in Nat
    BY <1>3 DEF KeptInv, BehindCounter, TypeOK
  <2> QED  BY <1>1, <2>1
<1> QED  BY <1>2, <1>3

\* A step that takes such a number keeps the invariant.
LEMMA TakenIsFresh ==
    ASSUME KeptInv, NEW o \in Counted, NEW n, Takes(o, n),
           counter = Missing => \A l \in Legacy : number[l] < n,
           TypeOK', AheadOfSeen'
    PROVE  KeptInv'
<1>1. o \in Orders /\ o \in Kept /\ number \in [Orders -> Nat \cup {None}]
  BY DEF KeptInv, TypeOK, Kept, Orders
<1>2. /\ \A p \in Orders : p # o => number'[p] = number[p]
      /\ number'[o] = n /\ n \in Nat /\ counter' = n + 1
  BY <1>1 DEF Takes
<1>3. \A p \in Kept : number[p] # None => number[p] < n
  BY KeptBelow
<1>4. LegacyKept'
  BY <1>2, OrdersAssumption DEF LegacyKept, KeptInv, Orders, Kept
<1>5. BehindCounter'
  <2> SUFFICES ASSUME NEW p \in Kept, number'[p] # None PROVE number'[p] < n + 1
    BY <1>2 DEF BehindCounter
  <2>1. CASE p = o
    BY <1>2, <2>1
  <2>2. CASE p # o
    <3>1. number'[p] = number[p] /\ number[p] \in Nat \cup {None}
      BY <1>1, <1>2, <2>2 DEF Orders
    <3> QED  BY <1>2, <1>3, <3>1 DEF None
  <2> QED  BY <2>1, <2>2
<1>6. CountedUnique'
  <2> SUFFICES ASSUME NEW p \in Kept, NEW q \in Kept, number'[p] # None, number'[q] # None,
                      number'[p] = number'[q]
               PROVE  p = q
    BY DEF CountedUnique, UniqueIn, Created
  <2>1. p \in Orders /\ q \in Orders
    BY DEF Orders
  <2>2. CASE p # o /\ q # o
    BY <1>2, <2>1, <2>2 DEF KeptInv, CountedUnique, UniqueIn, Created
  <2>3. CASE p = o \/ q = o
    <3>1. \A r \in {p, q} : r # o => number'[r] < n
      BY <1>2, <1>3, <2>1
    <3> QED  BY <1>2, <2>3, <3>1
  <2> QED  BY <2>2, <2>3
<1> QED  BY <1>2, <1>4, <1>5, <1>6 DEF KeptInv, Missing

\* The count a missing counter is seeded with is above the legacy numbers.
LEMMA SeedAboveLegacy ==
    ASSUME KeptInv, NEW l \in Legacy
    PROVE  number[l] < Count
<1>1. Legacy \subseteq Created
  BY OrdersAssumption DEF KeptInv, LegacyKept, Created, Orders, Kept, None
<1>2. IsFiniteSet(Created)
  BY OrdersAssumption, FS_Subset DEF Created
<1>3. Cardinality(Legacy) <= Cardinality(Created)
  BY <1>1, <1>2, FS_Subset
<1>4. Cardinality(Legacy) \in Nat /\ Cardinality(Created) \in Nat
  BY <1>1, <1>2, FS_Subset, FS_CardinalityType
<1> QED  BY <1>3, <1>4, OrdersAssumption DEF KeptInv, LegacyKept, Count

LEMMA KeptStep == KeptInv /\ [Next]_vars => KeptInv'
<1> SUFFICES ASSUME KeptInv, [Next]_vars PROVE KeptInv'
  OBVIOUS
<1>1. TypeOK' /\ AheadOfSeen'
  BY ComputedStep DEF KeptInv
<1>2. ASSUME NEW o \in ServerOrders, ServerCreate(o) PROVE KeptInv'
  <2>1. Takes(o, Allocated)
    BY <1>2, ServerTakes DEF KeptInv
  <2>2. counter = Missing => \A l \in Legacy : number[l] < Allocated
    BY SeedAboveLegacy DEF Allocated
  <2> QED  BY <1>1, <2>1, <2>2, TakenIsFresh DEF Counted
<1>3. ASSUME NEW o \in DashboardOrders, DashboardCommit(o) PROVE KeptInv'
  <2>1. Takes(o, next[o])
    BY <1>3, DashboardTakes DEF KeptInv
  <2>2. counter = Missing => \A l \in Legacy : number[l] < next[o]
    BY <1>3 DEF DashboardCommit, KeptInv, SeedFresh
  <2> QED  BY <1>1, <2>1, <2>2, TakenIsFresh DEF Counted
<1>4. ASSUME NEW o \in DashboardOrders, NEW n \in 0..NumberBound, DashboardRead(o, n)
      PROVE  KeptInv'
  <2>1. /\ counter' = counter /\ number' = number
        /\ \A d \in DashboardOrders : d # o => seen'[d] = seen[d] /\ next'[d] = next[d]
    BY <1>4 DEF DashboardRead, KeptInv, TypeOK
  <2>2. ASSUME counter = Missing, NEW l \in Legacy PROVE number[l] < next'[o]
    <3>1. n \in Nat /\ next'[o] = n
      BY <1>4, <2>2, CountIsNat DEF DashboardRead, KeptInv, TypeOK, Missing
    <3>2. l \in Created
      BY OrdersAssumption DEF KeptInv, LegacyKept, Created, Orders, Kept, None
    <3>3. PICK q \in Created : n = number[q] + 1 /\ \A r \in Created : number[r] <= number[q]
      BY <1>4, <3>2 DEF DashboardRead, IsNextOfCollection
    <3>4. number[l] \in Nat /\ number[q] \in Nat /\ number[l] <= number[q]
      BY <3>2, <3>3 DEF KeptInv, TypeOK, Created
    <3> QED  BY <3>1, <3>3, <3>4
  <2>3. counter' = Missing => SeedFresh'
    BY <2>1, <2>2 DEF KeptInv, SeedFresh
  <2>4. /\ LegacyKept' /\ CountedUnique'
        /\ counter' # Missing => BehindCounter'
    BY <2>1 DEF KeptInv, LegacyKept, BehindCounter, CountedUnique, UniqueIn, Created
  <2> QED  BY <1>1, <2>3, <2>4 DEF KeptInv
<1>5. ASSUME NEW o \in DashboardOrders, DashboardRetry(o) PROVE KeptInv'
  <2>1. counter' = counter /\ number' = number /\ next' = next
    BY <1>5 DEF DashboardRetry
  <2>2. \A d \in DashboardOrders : seen'[d] # Idle => seen[d] # Idle
    BY <1>5 DEF DashboardRetry, KeptInv, TypeOK
  <2> QED
    BY <1>1, <2>1, <2>2
       DEF KeptInv, LegacyKept, BehindCounter, SeedFresh, CountedUnique, UniqueIn, Created
<1>6. ASSUME NEW o \in ReplacementOrders, ReplacementCount(o) \/ ReplacementCommit(o)
      PROVE  KeptInv'
  <2>1. o \notin Kept /\ o \notin DashboardOrders
    BY OrdersAssumption DEF Kept, Counted
  <2>2. /\ counter' = counter /\ seen' = seen
        /\ \A p \in Kept : number'[p] = number[p]
        /\ \A d \in DashboardOrders : next'[d] = next[d]
    BY <1>6, <2>1 DEF ReplacementCount, ReplacementCommit, KeptInv, TypeOK, Orders, Kept
  <2>3. Legacy \subseteq Kept /\ Counted \subseteq Kept /\ Kept \subseteq Orders
    BY DEF Kept, Orders
  <2>4. /\ LegacyKept'
        /\ counter' # Missing => BehindCounter'
        /\ counter' = Missing => SeedFresh'
    BY <2>2, <2>3 DEF KeptInv, LegacyKept, BehindCounter, SeedFresh
  <2>5. CountedUnique'
    BY <2>2, <2>3 DEF KeptInv, CountedUnique, UniqueIn, Created
  <2> QED  BY <1>1, <2>4, <2>5 DEF KeptInv
<1>7. CASE UNCHANGED vars
  BY <1>1, <1>7
     DEF vars, KeptInv, LegacyKept, BehindCounter, SeedFresh, CountedUnique, UniqueIn, Created
<1> QED  BY <1>2, <1>3, <1>4, <1>5, <1>6, <1>7 DEF Next

\* Orders of the store, of the e-mail pipeline, of the dashboard and from
\* before the counter never share a number: CountedUnique.
THEOREM CountedDiffer == Spec => []CountedUnique
<1>1. KeptInv => CountedUnique
  BY DEF KeptInv
<1> QED  BY KeptInit, KeptStep, <1>1, PTL DEF Spec

\* The variables keep their types: TypeOK.
THEOREM NumberTypes == Spec => []TypeOK
<1>1. KeptInv => TypeOK
  BY DEF KeptInv
<1> QED  BY KeptInit, KeptStep, <1>1, PTL DEF Spec

\* The counter document never goes back: CounterNeverBack.
THEOREM CounterMonotone == Spec => CounterNeverBack
<1>1. ASSUME KeptInv, [Next]_vars
      PROVE  counter' >= counter
  <2>0. counter \in Int
    BY <1>1 DEF KeptInv, TypeOK, Missing
  <2>1. ASSUME NEW o \in ServerOrders, ServerCreate(o) PROVE counter' >= counter
    BY <1>1, <2>0, <2>1, ServerTakes DEF Takes, KeptInv
  <2>2. ASSUME NEW o \in DashboardOrders, DashboardCommit(o) PROVE counter' >= counter
    BY <1>1, <2>0, <2>2, DashboardTakes DEF Takes, KeptInv
  <2>3. CASE counter' = counter
    BY <2>0, <2>3
  <2> QED
    BY <1>1, <2>1, <2>2, <2>3
       DEF Next, vars, DashboardRead, DashboardRetry, ReplacementCount, ReplacementCommit
<1>2. KeptInv /\ [Next]_vars => [counter' >= counter]_counter
  BY <1>1
<1> QED  BY KeptInit, KeptStep, <1>2, PTL DEF Spec, CounterNeverBack

\* Where no complaint is resolved by a replacement order, all orders of the
\* channel have different numbers: NumbersUnique.
THEOREM AllDiffer ==
    ASSUME ReplacementOrders = {}
    PROVE  Spec => []NumbersUnique
<1>1. CountedUnique => NumbersUnique
  BY DEF CountedUnique, NumbersUnique, Orders
<1> QED  BY CountedDiffer, <1>1, PTL

-----------------------------------------------------------------------------
(***************************************************************************)
(* The range of the numbers.                                               *)
(***************************************************************************)

\* Orders are created while their transaction runs, not before; a number, the
\* counter and what an invocation has computed stay within the count of orders.
WithinCount ==
    /\ \A o \in Created : number[o] < Count
    /\ counter <= Count
    /\ \A o \in DashboardOrders \cup ReplacementOrders : next[o] <= Count
    /\ \A o \in DashboardOrders : seen[o] # Idle => number[o] = None

RangeInv == KeptInv /\ WithinCount

\* The highest number, plus one, is not above the count either.
LEMMA NextOfCollectionBounded ==
    ASSUME RangeInv, NEW n, IsNextOfCollection(n)
    PROVE  n \in 0..Count
<1>1. Count \in Nat
  BY CountIsNat DEF Count
<1>2. ASSUME NEW o \in Created, n = number[o] + 1 PROVE n \in 0..Count
  <2>1. number[o] \in Nat /\ number[o] < Count
    BY <1>2 DEF RangeInv, WithinCount, KeptInv, TypeOK, Created
  <2> QED  BY <1>1, <1>2, <2>1
<1> QED  BY <1>1, <1>2 DEF IsNextOfCollection

\* An order that is given a number raises the count by one.
LEMMA CountRises ==
    ASSUME TypeOK, NEW o \in Orders, NEW n \in Nat,
           number[o] = None, number' = [number EXCEPT ![o] = n]
    PROVE  Created' = Created \cup {o} /\ Count' = Count + 1
<1>1. Created' = Created \cup {o} /\ o \notin Created
  BY DEF Created, TypeOK, None
<1>2. IsFiniteSet(Created)
  BY OrdersAssumption, FS_Subset DEF Created
<1> QED  BY <1>1, <1>2, FS_AddElement DEF Count

LEMMA LegacyCreated == Init => Created = Legacy /\ Count = Cardinality(Legacy)
BY OrdersAssumption DEF Init, Created, Count, Orders, Kept, None

LEMMA RangeInit == Init => RangeInv
<1> SUFFICES ASSUME Init PROVE WithinCount
  BY KeptInit DEF RangeInv
<1>1. Created = Legacy /\ Count = Cardinality(Legacy) /\ Count \in Nat
  BY LegacyCreated, CountIsNat DEF Count
<1>2. \A l \in Legacy : number[l] < Count
  BY <1>1, OrdersAssumption DEF Init, Orders, Kept
<1> QED  BY <1>1, <1>2 DEF Init, WithinCount, Missing, None, Idle

LEMMA RangeStep == RangeInv /\ [Next]_vars => RangeInv'
<1> SUFFICES ASSUME RangeInv, [Next]_vars PROVE WithinCount'
  BY KeptStep DEF RangeInv
<1>1. TypeOK /\ AheadOfSeen /\ WithinCount /\ Count \in Nat
  BY CountIsNat DEF RangeInv, KeptInv, Count
<1>2. \A o \in DashboardOrders \cup ReplacementOrders : next[o] \in Int
  BY <1>1 DEF TypeOK, None
<1>3. ASSUME NEW o \in Orders, NEW n \in Nat, n <= Count, number[o] = None,
             number' = [number EXCEPT ![o] = n], counter' = n + 1 \/ counter' = counter,
             UNCHANGED next,
             \A d \in DashboardOrders : seen'[d] # Idle => seen[d] # Idle /\ d # o
      PROVE  WithinCount'
  <2>1. Created' = Created \cup {o} /\ Count' = Count + 1
    BY <1>1, <1>3, CountRises
  <2>2. \A p \in Created' : number'[p] < Count'
    BY <1>1, <1>3, <2>1 DEF WithinCount, TypeOK, Created
  <2>3. counter' <= Count'
    BY <1>1, <1>3, <2>1 DEF WithinCount, TypeOK, Missing
  <2>4. \A p \in DashboardOrders \cup ReplacementOrders : next'[p] <= Count'
    BY <1>1, <1>2, <1>3, <2>1 DEF WithinCount
  <2>5. \A d \in DashboardOrders : seen'[d] # Idle => number'[d] = None
    BY <1>1, <1>3 DEF WithinCount, TypeOK
  <2> QED  BY <2>2, <2>3, <2>4, <2>5 DEF WithinCount
<1>4. ASSUME NEW o \in ServerOrders, ServerCreate(o) PROVE WithinCount'
  <2>1. o \in Orders /\ o \notin DashboardOrders
    BY OrdersAssumption DEF Orders, Kept, Counted
  <2>2. Allocated \in Nat /\ Allocated <= Count
    BY <1>1, AllocatedIsNat DEF Allocated, WithinCount
  <2> QED  BY <1>3, <1>4, <2>1, <2>2 DEF ServerCreate
<1>5. ASSUME NEW o \in DashboardOrders, DashboardCommit(o) PROVE WithinCount'
  <2>1. o \in Orders
    BY DEF Orders, Kept, Counted
  <2>2. next[o] \in Nat /\ next[o] <= Count /\ number[o] = None
    BY <1>1, <1>5, DashboardTakes DEF Takes, WithinCount, DashboardCommit
  <2>3. \A d \in DashboardOrders : seen'[d] # Idle => seen[d] # Idle /\ d # o
    BY <1>1, <1>5 DEF DashboardCommit, TypeOK
  <2> QED  BY <1>3, <1>5, <2>1, <2>2, <2>3 DEF DashboardCommit
<1>6. ASSUME NEW o \in ReplacementOrders, ReplacementCommit(o) PROVE WithinCount'
  <2>1. o \in Orders /\ o \notin DashboardOrders
    BY OrdersAssumption DEF Orders, Counted
  <2>2. next[o] \in Nat /\ next[o] <= Count
    BY <1>1, <1>6 DEF ReplacementCommit, WithinCount, TypeOK
  <2> QED  BY <1>3, <1>6, <2>1, <2>2 DEF ReplacementCommit
<1>7. ASSUME NEW o \in DashboardOrders, NEW n \in 0..NumberBound, DashboardRead(o, n)
      PROVE  WithinCount'
  <2>1. n <= Count /\ counter <= Count
    BY <1>1, <1>7, NextOfCollectionBounded DEF DashboardRead, RangeInv, WithinCount
  <2>2. Created' = Created /\ Count' = Count
    BY <1>7 DEF DashboardRead, Created, Count
  <2>3. next' = [next EXCEPT ![o] = IF counter > n THEN counter ELSE n] /\ number[o] = None
    BY <1>7 DEF DashboardRead
  <2>4. \A p \in DashboardOrders \cup ReplacementOrders : next'[p] <= Count
    BY <1>1, <2>1, <2>3 DEF WithinCount, TypeOK
  <2>5. \A d \in DashboardOrders : seen'[d] # Idle => number[d] = None
    BY <1>1, <1>7, <2>3 DEF WithinCount, TypeOK, DashboardRead
  <2> QED  BY <1>1, <1>7, <2>2, <2>4, <2>5 DEF WithinCount, DashboardRead
<1>8. ASSUME NEW o \in ReplacementOrders, ReplacementCount(o) PROVE WithinCount'
  <2>1. Created' = Created /\ Count' = Count
    BY <1>8 DEF ReplacementCount, Created, Count
  <2>2. \A p \in DashboardOrders \cup ReplacementOrders : next'[p] <= Count
    BY <1>1, <1>8 DEF WithinCount, TypeOK, ReplacementCount
  <2> QED  BY <1>1, <1>8, <2>1, <2>2 DEF WithinCount, ReplacementCount
<1>9. ASSUME NEW o \in DashboardOrders, DashboardRetry(o) PROVE WithinCount'
  BY <1>1, <1>9 DEF WithinCount, DashboardRetry, Created, Count, TypeOK
<1>10. CASE UNCHANGED vars
  BY <1>1, <1>10 DEF WithinCount, vars, Created, Count
<1> QED  BY <1>4, <1>5, <1>6, <1>7, <1>8, <1>9, <1>10 DEF Next

\* What the query for the highest number may return is in the range Next tries.
QueryInRange == \A n \in Int : IsNextOfCollection(n) => n \in 0..NumberBound

\* No order's number reaches the count of orders, however the four writers
\* interleave, so the range of Next leaves no behaviour of the dashboard out.
THEOREM RangeIsEnough == Spec => [](QueryInRange /\ \A o \in Created : number[o] < Count)
<1>1. ASSUME RangeInv PROVE QueryInRange /\ \A o \in Created : number[o] < Count
  <2>1. Count \in Nat /\ NumberBound \in Nat /\ Count <= NumberBound
    <3>1. Created \subseteq Orders
      BY DEF Created
    <3> QED
      BY <3>1, CountIsNat, OrdersAssumption, FS_Subset DEF Count, NumberBound
  <2> QED
    BY <1>1, <2>1, NextOfCollectionBounded DEF QueryInRange, RangeInv, WithinCount
<1>2. RangeInv => QueryInRange /\ \A o \in Created : number[o] < Count
  BY <1>1
<1> QED  BY RangeInit, RangeStep, <1>2, PTL DEF Spec
=============================================================================
