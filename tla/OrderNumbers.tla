--------------------------- MODULE OrderNumbers ---------------------------
(***************************************************************************)
(* The numbers of the orders of one channel.  Four writers create orders:  *)
(* the store checkout and the inbound e-mail pipeline, which allocate from *)
(* a counter document inside a server transaction                          *)
(* (packages/firebase/src/order-number-counter.ts); the dashboard, whose   *)
(* client transaction (create in packages/firebase/src/firestore.ts) also  *)
(* looks at the latest order; and the resolution of a complaint            *)
(* (apps/admin/app/actions/complaints.ts), which numbers a replacement     *)
(* order by the count of orders.  Orders are deactivated, never deleted.   *)
(*                                                                         *)
(* An order stands for the invocation that creates it.                     *)
(***************************************************************************)
EXTENDS Integers, FiniteSets

CONSTANTS
    Legacy,            \* orders older than the counter
    LegacyNumber,      \* their numbers, once given by counting
    ServerOrders,      \* created by the store checkout or from an e-mail
    DashboardOrders,   \* created in the dashboard
    ReplacementOrders  \* created by the resolution of a complaint

Counted == ServerOrders \cup DashboardOrders

Kept == Legacy \cup Counted

Orders == Kept \cup ReplacementOrders

ASSUME OrdersAssumption ==
    /\ IsFiniteSet(Orders)
    /\ LegacyNumber \in [Legacy -> Nat]
    /\ \A l \in Legacy : LegacyNumber[l] < Cardinality(Legacy)
    /\ \A l, m \in Legacy : LegacyNumber[l] = LegacyNumber[m] => l = m
    /\ Legacy \cap Counted = {}
    /\ Legacy \cap ReplacementOrders = {}
    /\ Counted \cap ReplacementOrders = {}
    /\ ServerOrders \cap DashboardOrders = {}

None == -1      \* the order document does not exist
Missing == -2   \* the counter document does not exist

VARIABLES
    number,   \* Order.number
    counter,  \* counters/orders.nextNumber
    seen,     \* the counter a dashboard transaction has read
    next      \* the number a dashboard or complaint invocation has computed

vars == <<number, counter, seen, next>>

Idle == -3

TypeOK ==
    /\ number \in [Orders -> Nat \cup {None}]
    /\ counter \in Nat \cup {Missing}
    /\ seen \in [DashboardOrders -> Nat \cup {Missing, Idle}]
    /\ next \in [DashboardOrders \cup ReplacementOrders -> Nat \cup {None}]

Init ==
    /\ number = [o \in Orders |-> IF o \in Legacy THEN LegacyNumber[o] ELSE None]
    /\ counter = Missing
    /\ seen = [o \in DashboardOrders |-> Idle]
    /\ next = [o \in DashboardOrders \cup ReplacementOrders |-> None]

-----------------------------------------------------------------------------

Created == {o \in Orders : number[o] # None}

Count == Cardinality(Created)

\* allocateOrderNumberInTransaction: the count is only taken to seed a counter
\* that does not exist.
Allocated == IF counter = Missing THEN Count ELSE counter

\* The transaction of the store checkout or of createInboundOrder.
ServerCreate(o) ==
    /\ number[o] = None
    /\ number' = [number EXCEPT ![o] = Allocated]
    /\ counter' = Allocated + 1
    /\ UNCHANGED <<seen, next>>

\* resolveNextNumberFromCollection: one more than the highest number.
IsNextOfCollection(n) ==
    \/ Created = {} /\ n = 0
    \/ \E o \in Created : /\ n = number[o] + 1
                          /\ \A p \in Created : number[p] <= number[o]

\* create, the reads.  The query for the highest number is not part of the
\* transaction, which only validates the counter when it commits.
DashboardRead(o, n) ==
    /\ number[o] = None
    /\ seen[o] = Idle
    /\ IsNextOfCollection(n)
    /\ seen' = [seen EXCEPT ![o] = counter]
    /\ next' = [next EXCEPT ![o] = IF counter > n THEN counter ELSE n]
    /\ UNCHANGED <<number, counter>>

\* Mutant: the counter is read outside of the transaction.
DashboardCommit_Blind(o) ==
    /\ seen[o] # Idle
    /\ number' = [number EXCEPT ![o] = next[o]]
    /\ counter' = next[o] + 1
    /\ seen' = [seen EXCEPT ![o] = Idle]
    /\ UNCHANGED next

DashboardCommit(o) ==
    /\ seen[o] # Idle
    /\ counter = seen[o]
    /\ number' = [number EXCEPT ![o] = next[o]]
    /\ counter' = next[o] + 1
    /\ seen' = [seen EXCEPT ![o] = Idle]
    /\ UNCHANGED next

\* The counter has changed: the client runs the transaction again.
DashboardRetry(o) ==
    /\ seen[o] # Idle
    /\ counter # seen[o]
    /\ seen' = [seen EXCEPT ![o] = Idle]
    /\ UNCHANGED <<number, counter, next>>

\* resolveRmaRequest, about some order, counts the orders before its
\* transaction ...
ReplacementCount(o) ==
    /\ next[o] = None
    /\ Created # {}
    /\ next' = [next EXCEPT ![o] = Count]
    /\ UNCHANGED <<number, counter, seen>>

\* ... which leaves the counter alone.
ReplacementCommit(o) ==
    /\ number[o] = None
    /\ next[o] # None
    /\ number' = [number EXCEPT ![o] = next[o]]
    /\ UNCHANGED <<counter, seen, next>>

\* A bound on the numbers: no order gets a number beyond the count of orders.
NumberBound == Cardinality(Orders)

Next ==
    \/ \E o \in ServerOrders : ServerCreate(o)
    \/ \E o \in DashboardOrders, n \in 0..NumberBound : DashboardRead(o, n)
    \/ \E o \in DashboardOrders : DashboardCommit(o)
    \/ \E o \in DashboardOrders : DashboardRetry(o)
    \/ \E o \in ReplacementOrders : ReplacementCount(o) \/ ReplacementCommit(o)

Spec == Init /\ [][Next]_vars

-----------------------------------------------------------------------------
(***************************************************************************)
(* Properties.                                                             *)
(***************************************************************************)

UniqueIn(S) == \A o, p \in S \cap Created : number[o] = number[p] => o = p

\* No two orders have the same number that are from before the counter or went
\* through it, however the store, the e-mail pipeline and the dashboard
\* interleave, and whatever replacement orders do in between.
CountedUnique == UniqueIn(Kept)

\* "This helper centralizes the allocation" (order-number-counter.ts): no two
\* orders of the channel have the same number.
NumbersUnique == UniqueIn(Orders)

\* A number the counter has passed is not given out again: the counter never
\* goes back, not even when a dashboard transaction commits late.
CounterNeverBack == [][counter' >= counter]_counter
=============================================================================
