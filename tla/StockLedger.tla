---------------------------- MODULE StockLedger ----------------------------
(***************************************************************************)
(* The stock of one channel and the ledger that explains it                *)
(* (apps/admin/lib/stock): stock documents with a total and an allocated   *)
(* count, reservation documents per order line, and one movement document  *)
(* per operation, whose id makes a repeated operation a no-op.  The store  *)
(* checkout (apps/store/lib/orders/create-order.server.ts) also allocates, *)
(* without a movement.                                                     *)
(*                                                                         *)
(* A subject is a stock document: a product, or an attribute option, in a  *)
(* warehouse.  Every function of the code is one Firestore transaction,    *)
(* hence one action.  The code calls them from server actions, order       *)
(* fulfilment and complaints without any order between the calls, and      *)
(* repeats them: every action is always possible.                          *)
(***************************************************************************)
EXTENDS Integers, FiniteSets, Functions

CONSTANTS
    Subjects,    \* stock documents
    Lines,       \* order lines, product or attribute operation of each
    Subject,     \* the stock document a line's operations are about
    Product,     \* the stock document of a line's product, which is another
                 \* one when the product tracks the stock of an attribute
    Order,       \* the order of a line
    Quantities,  \* quantities each line may have (an order can be edited)
    MaxTotal     \* bound on the totals staff enters

ASSUME StockAssumption ==
    /\ Subject \in [Lines -> Subjects]
    /\ Product \in [Lines -> Subjects]
    /\ Quantities \in [Lines -> SUBSET (Nat \ {0})]
    /\ MaxTotal \in Nat

Kinds == {"CREATED", "RELEASED", "CONSUMED"}

\* What an operation asks for.
Operation ==
    UNION { {[line |-> l, quantity |-> q] : q \in Quantities[l]} : l \in Lines }

MovementOf(kind, op) == [kind |-> kind, line |-> op.line, quantity |-> op.quantity]

\* The id of a movement document: kind of operation, line and quantity.
Movement == {MovementOf(kind, op) : kind \in Kinds, op \in Operation}

Unconfigured == -1

VARIABLES
    total,        \* Stock.total, or Unconfigured if there is no document
    allocated,    \* Stock.allocated
    movements,    \* inventoryMovements of order lines
    adjusted,     \* what the STOCK_ADJUSTED movements of a subject add up to
    reservation,  \* inventoryReservations, one per line
    checkedOut    \* lines (with quantity) the store checkout allocated for

vars == <<total, allocated, movements, adjusted, reservation, checkedOut>>

Reservation ==
    [status : {"NONE", "ACTIVE", "CONSUMED", "RELEASED"},
     reserved : Nat, consumed : Nat, released : Nat]

\* Stock is never negative, whatever the order of calls.
TypeOK ==
    /\ total \in [Subjects -> Nat \cup {Unconfigured}]
    /\ allocated \in [Subjects -> Nat]
    /\ movements \subseteq Movement
    /\ adjusted \in [Subjects -> Int]
    /\ reservation \in [Lines -> Reservation]
    /\ checkedOut \subseteq Operation

Init ==
    /\ total = [s \in Subjects |-> Unconfigured]
    /\ allocated = [s \in Subjects |-> 0]
    /\ movements = {}
    /\ adjusted = [s \in Subjects |-> 0]
    /\ reservation = [l \in Lines |-> [status |-> "NONE", reserved |-> 0,
                                       consumed |-> 0, released |-> 0]]
    /\ checkedOut = {}

-----------------------------------------------------------------------------

Configured(s) == total[s] # Unconfigured

SumQuantity(ops) == SumFunction([op \in ops |-> op.quantity])

\* consolidateStockOperations: what the operations need of a subject.
Need(ops, s) == SumQuantity({op \in ops : Subject[op.line] = s})

Touched(ops) == {Subject[op.line] : op \in ops}

\* Some lines of one order, each with one quantity.  (processOrderStock...:
\* all lines of a new order, those newly fulfilled, those of a deleted order
\* that were not; one call for each warehouse.)
Items ==
    { ops \in SUBSET Operation :
        /\ ops # {} /\ IsFiniteSet(ops)
        /\ \A a, b \in ops : a.line = b.line => a = b
        /\ \A a, b \in ops : Order[a.line] = Order[b.line] }

TracksAttribute(op) == Subject[op.line] # Product[op.line]

\* The operations of one transaction: processStockReservation, -Deduction and
\* -Release sort the lines alike and start one transaction for those that track
\* product stock and, independently, one for those that track an attribute's.
OfProducts(ops) == \A op \in ops : ~ TracksAttribute(op)
OfAttributes(ops) == \A op \in ops : TracksAttribute(op)

\* The operations whose movement is not in the ledger yet.
Pending(kind, ops) == {op \in ops : MovementOf(kind, op) \notin movements}

\* Mutants: the movements of unconfigured stock are written too; or its
\* reservations are.
Reserve_RecordsAll(ops) ==
    LET pending == Pending("CREATED", ops) IN
    /\ pending # {}
    /\ allocated' = [s \in Subjects |->
                       IF Configured(s) THEN allocated[s] + Need(pending, s)
                       ELSE allocated[s]]
    /\ movements' = movements \cup {MovementOf("CREATED", op) : op \in pending}
    /\ UNCHANGED <<total, adjusted, checkedOut, reservation>>

Reserve_ActivatesAll(ops) ==
    LET pending == Pending("CREATED", ops)
        reservable == {op \in pending : Configured(Subject[op.line])} IN
    /\ pending # {}
    /\ allocated' = [s \in Subjects |-> allocated[s] + Need(reservable, s)]
    /\ movements' = movements \cup {MovementOf("CREATED", op) : op \in reservable}
    /\ reservation' = [l \in Lines |->
         IF \E op \in pending : op.line = l
         THEN [status |-> "ACTIVE", consumed |-> 0, released |-> 0,
               reserved |-> (CHOOSE op \in pending : op.line = l).quantity]
         ELSE reservation[l]]
    /\ UNCHANGED <<total, adjusted, checkedOut>>

\* What reserveStock and reserveAttributeStock do: lines without a stock document are
\* skipped; what is available is not looked at.
Reserve(ops) ==
    LET pending == Pending("CREATED", ops)
        reservable == {op \in pending : Configured(Subject[op.line])} IN
    /\ reservable # {}
    /\ allocated' = [s \in Subjects |-> allocated[s] + Need(reservable, s)]
    /\ movements' = movements \cup {MovementOf("CREATED", op) : op \in reservable}
    /\ reservation' = [l \in Lines |->
         IF \E op \in reservable : op.line = l
         THEN [status |-> "ACTIVE", consumed |-> 0, released |-> 0,
               reserved |-> (CHOOSE op \in reservable : op.line = l).quantity]
         ELSE reservation[l]]
    /\ UNCHANGED <<total, adjusted, checkedOut>>

\* updateReservationForMovement: a merge that does not read the reservation.
ReservationsAfter(kind, ops) ==
    [l \in Lines |->
       IF \E op \in ops : op.line = l
       THEN LET quantity == (CHOOSE op \in ops : op.line = l).quantity
                before == reservation[l]
            IN IF kind = "CONSUMED"
               THEN [before EXCEPT !.status = kind, !.consumed = @ + quantity]
               ELSE [before EXCEPT !.status = kind, !.released = @ + quantity]
       ELSE reservation[l]]

\* Mutant: operations that were applied before are consolidated again.
Deduct_AllOperations(ops) ==
    LET pending == Pending("CONSUMED", ops) IN
    /\ pending # {}
    /\ \A s \in Touched(ops) :
         Configured(s) /\ Need(ops, s) <= allocated[s] /\ Need(ops, s) <= total[s]
    /\ total' = [s \in Subjects |-> total[s] - Need(ops, s)]
    /\ allocated' = [s \in Subjects |-> allocated[s] - Need(ops, s)]
    /\ movements' = movements \cup {MovementOf("CONSUMED", op) : op \in pending}
    /\ reservation' = ReservationsAfter("CONSUMED", pending)
    /\ UNCHANGED <<adjusted, checkedOut>>

\* What deductStock and deductAttributeStock do: all the lines or none.
Deduct(ops) ==
    LET pending == Pending("CONSUMED", ops) IN
    /\ pending # {}
    /\ \A s \in Touched(pending) :
         /\ Configured(s)
         /\ Need(pending, s) <= allocated[s]
         /\ Need(pending, s) <= total[s]
    /\ total' = [s \in Subjects |-> total[s] - Need(pending, s)]
    /\ allocated' = [s \in Subjects |-> allocated[s] - Need(pending, s)]
    /\ movements' = movements \cup {MovementOf("CONSUMED", op) : op \in pending}
    /\ reservation' = ReservationsAfter("CONSUMED", pending)
    /\ UNCHANGED <<adjusted, checkedOut>>

\* Mutant: each line is compared with what is allocated on its own.
Release_PerLine(ops) ==
    LET pending == Pending("RELEASED", ops) IN
    /\ pending # {}
    /\ \A op \in pending :
         Configured(Subject[op.line]) /\ op.quantity <= allocated[Subject[op.line]]
    /\ allocated' = [s \in Subjects |-> allocated[s] - Need(pending, s)]
    /\ movements' = movements \cup {MovementOf("RELEASED", op) : op \in pending}
    /\ reservation' = ReservationsAfter("RELEASED", pending)
    /\ UNCHANGED <<total, adjusted, checkedOut>>

\* What releaseStock and releaseAttributeStock do.
Release(ops) ==
    LET pending == Pending("RELEASED", ops) IN
    /\ pending # {}
    /\ \A s \in Touched(pending) :
         Configured(s) /\ Need(pending, s) <= allocated[s]
    /\ allocated' = [s \in Subjects |-> allocated[s] - Need(pending, s)]
    /\ movements' = movements \cup {MovementOf("RELEASED", op) : op \in pending}
    /\ reservation' = ReservationsAfter("RELEASED", pending)
    /\ UNCHANGED <<total, adjusted, checkedOut>>

ReserveStock(ops) == OfProducts(ops) /\ Reserve(ops)
DeductStock(ops) == OfProducts(ops) /\ Deduct(ops)
ReleaseStock(ops) == OfProducts(ops) /\ Release(ops)

ReserveAttributeStock(ops) == OfAttributes(ops) /\ Reserve(ops)
DeductAttributeStock(ops) == OfAttributes(ops) /\ Deduct(ops)
ReleaseAttributeStock(ops) == OfAttributes(ops) /\ Release(ops)

\* setAdminProductStock and setAdminAttributeStock: allocated is left alone, also when it is
\* more than the new total.
SetStock(s, newTotal) ==
    /\ total[s] # newTotal
    /\ total' = [total EXCEPT ![s] = newTotal]
    /\ adjusted' = [adjusted EXCEPT ![s] =
                      @ + newTotal - (IF Configured(s) THEN total[s] ELSE 0)]
    /\ UNCHANGED <<allocated, movements, reservation, checkedOut>>

\* buildStoreCheckoutStockReservations: always the products' stock.
NeedOfProduct(ops, s) == SumQuantity({op \in ops : Product[op.line] = s})

\* reserveStoreCheckoutStockInTransaction (stock policy "block"): a new store
\* order, with each line once, fails unless everything is available.
StoreCheckout(ops) ==
    /\ \A op \in ops, c \in checkedOut : Order[op.line] # Order[c.line]
    /\ \A s \in {Product[op.line] : op \in ops} :
         Configured(s) /\ NeedOfProduct(ops, s) <= total[s] - allocated[s]
    /\ allocated' = [s \in Subjects |-> allocated[s] + NeedOfProduct(ops, s)]
    /\ checkedOut' = checkedOut \cup ops
    /\ UNCHANGED <<total, movements, adjusted, reservation>>

Next ==
    \/ \E ops \in Items :
         \/ ReserveStock(ops) \/ DeductStock(ops) \/ ReleaseStock(ops)
         \/ ReserveAttributeStock(ops) \/ DeductAttributeStock(ops) \/ ReleaseAttributeStock(ops)
         \/ StoreCheckout(ops)
    \/ \E s \in Subjects, n \in 0..MaxTotal : SetStock(s, n)

Spec == Init /\ [][Next]_vars

-----------------------------------------------------------------------------
(***************************************************************************)
(* Properties.                                                             *)
(***************************************************************************)

\* What the movements of one kind add up to for a subject.
Moved(kind, s) ==
    SumQuantity({m \in movements : m.kind = kind /\ Subject[m.line] = s})

\* The stock on hand is what the ledger says: adjustments less consumptions,
\* each counted once however often and with whichever lines it was asked for.
TotalExplained ==
    \A s \in Subjects : Configured(s) =>
        total[s] = adjusted[s] - Moved("CONSUMED", s)

\* What is allocated is what the ledger and the store's orders say.
AllocatedExplained ==
    \A s \in Subjects :
        allocated[s] = NeedOfProduct(checkedOut, s)
                       + Moved("CREATED", s) - Moved("RELEASED", s) - Moved("CONSUMED", s)

\* A reservation that is active is one the ledger knows.
ActiveIsRecorded ==
    \A l \in Lines : reservation[l].status = "ACTIVE" =>
        \E m \in movements : /\ m.kind = "CREATED" /\ m.line = l
                             /\ m.quantity = reservation[l].reserved
=============================================================================
