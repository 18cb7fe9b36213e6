------------------------- MODULE StockLedgerProofs -------------------------
(***************************************************************************)
(* Stock, reservations and the ledger agree, for every set of lines,       *)
(* subjects and quantities: what is on hand and what is allocated are the  *)
(* sums of what the movements and the store's orders say.                  *)
(***************************************************************************)
EXTENDS StockLedger, Sums

ReservationTypeOK == reservation \in [Lines -> Reservation]

Inv == ReservationTypeOK /\ ActiveIsRecorded

\* The operations of a call name lines and quantities.
LEMMA CallOperations ==
    ASSUME NEW ops \in Items
    PROVE  ops \subseteq Operation
BY DEF Items

\* A reservation that is created is created with its movement.
LEMMA ReserveInv ==
    ASSUME Inv, NEW ops \in Items, Reserve(ops)
    PROVE  Inv'
<1> DEFINE pending == Pending("CREATED", ops)
           reservable == {op \in pending : Configured(Subject[op.line])}
           mine(l) == CHOOSE op \in reservable : op.line = l
<1>1. reservable \subseteq Operation
  BY CallOperations DEF Pending
<1>2. /\ movements' = movements \cup {MovementOf("CREATED", op) : op \in reservable}
      /\ reservation' = [l \in Lines |->
           IF \E op \in reservable : op.line = l
           THEN [status |-> "ACTIVE", consumed |-> 0, released |-> 0,
                 reserved |-> mine(l).quantity]
           ELSE reservation[l]]
  BY DEF Reserve
<1> HIDE DEF reservable, pending
<1>3. ASSUME NEW l \in Lines, \E op \in reservable : op.line = l
      PROVE  mine(l) \in reservable /\ mine(l).line = l
  BY <1>3
<1> HIDE DEF mine
<1>4. ASSUME NEW l \in Lines
      PROVE  /\ reservation'[l] \in Reservation
             /\ reservation'[l].status = "ACTIVE" =>
                  \E m \in movements' : /\ m.kind = "CREATED" /\ m.line = l
                                        /\ m.quantity = reservation'[l].reserved
  <2>1. CASE \E op \in reservable : op.line = l
    <3>1. mine(l) \in reservable /\ mine(l).line = l
      BY <1>3, <2>1
    <3>2. mine(l).quantity \in Nat
      BY <1>1, <3>1, StockAssumption DEF Operation
    <3>3. reservation'[l] = [status |-> "ACTIVE", consumed |-> 0, released |-> 0,
                             reserved |-> mine(l).quantity]
      BY <1>2, <2>1
    <3>4. MovementOf("CREATED", mine(l)) \in movements'
      BY <1>2, <3>1
    <3> QED  BY <3>1, <3>2, <3>3, <3>4 DEF Reservation, MovementOf
  <2>2. CASE ~ \E op \in reservable : op.line = l
    <3>1. reservation'[l] = reservation[l]
      BY <1>2, <2>2
    <3> QED  BY <1>2, <3>1 DEF Inv, ReservationTypeOK, ActiveIsRecorded
  <2> QED  BY <2>1, <2>2
<1>5. ReservationTypeOK'
  BY <1>2, <1>4 DEF ReservationTypeOK
<1> QED  BY <1>4, <1>5 DEF Inv, ActiveIsRecorded

\* Consuming or releasing ends a reservation and adds to the ledger.
LEMMA EndInv ==
    ASSUME Inv, NEW ops \in Items, Deduct(ops) \/ Release(ops)
    PROVE  Inv'
<1>1. PICK kind \in {"CONSUMED", "RELEASED"}, pending \in SUBSET Operation :
         /\ reservation' = ReservationsAfter(kind, pending)
         /\ movements \subseteq movements'
  BY CallOperations DEF Deduct, Release, Pending
<1>2. ASSUME NEW l \in Lines
      PROVE  /\ reservation'[l] \in Reservation
             /\ reservation'[l].status = "ACTIVE" => reservation'[l] = reservation[l]
  <2>1. CASE \E op \in pending : op.line = l
    <3> DEFINE quantity == (CHOOSE op \in pending : op.line = l).quantity
    <3>1. quantity \in Nat
      BY <2>1, StockAssumption DEF Operation
    <3>2. reservation'[l] =
            IF kind = "CONSUMED"
            THEN [reservation[l] EXCEPT !.status = kind, !.consumed = @ + quantity]
            ELSE [reservation[l] EXCEPT !.status = kind, !.released = @ + quantity]
      BY <1>1, <2>1 DEF ReservationsAfter
    <3> HIDE DEF quantity
    <3>3. PICK before \in Reservation : before = reservation[l]
      BY DEF Inv, ReservationTypeOK
    <3>4. /\ before.consumed + quantity \in Nat
          /\ before.released + quantity \in Nat
      BY <3>1, <3>3 DEF Reservation
    <3>5. reservation'[l] \in {[before EXCEPT !.status = "CONSUMED", !.consumed = @ + quantity],
                               [before EXCEPT !.status = "RELEASED", !.released = @ + quantity]}
      BY <1>1, <3>2, <3>3
    <3> QED  BY <3>3, <3>4, <3>5 DEF Reservation
  <2>2. CASE ~ \E op \in pending : op.line = l
    BY <1>1, <2>2 DEF ReservationsAfter, Inv, ReservationTypeOK
  <2> QED  BY <2>1, <2>2
<1>3. ReservationTypeOK'
  BY <1>1, <1>2 DEF ReservationTypeOK, ReservationsAfter
<1> QED  BY <1>1, <1>2, <1>3 DEF Inv, ActiveIsRecorded

\* Every call keeps reservations typed and recorded.
LEMMA Reservations == Spec => []Inv
<1>1. Init => Inv
  BY DEF Init, Inv, ReservationTypeOK, ActiveIsRecorded, Reservation
<1>2. Inv /\ [Next]_vars => Inv'
  <2> SUFFICES ASSUME Inv, [Next]_vars PROVE Inv'
    OBVIOUS
  <2>1. CASE \E ops \in Items : Reserve(ops)
    BY <2>1, ReserveInv
  <2>2. CASE \E ops \in Items : Deduct(ops) \/ Release(ops)
    BY <2>2, EndInv
  <2>3. CASE UNCHANGED <<movements, reservation>>
    BY <2>3 DEF Inv, ReservationTypeOK, ActiveIsRecorded
  <2> QED
    BY <2>1, <2>2, <2>3 DEF Next, ReserveStock, DeductStock, ReleaseStock, ReserveAttributeStock,
       DeductAttributeStock, ReleaseAttributeStock, SetStock, StoreCheckout, vars
<1> QED  BY <1>1, <1>2, PTL DEF Spec

\* A reservation is only active with a movement of its quantity in the ledger:
\* every interleaving of reserving, consuming, releasing, repeating, editing
\* and adjusting, for any number of lines.
THEOREM ActiveRecorded == Spec => []ActiveIsRecorded
<1>1. Inv => ActiveIsRecorded
  BY DEF Inv
<1> QED  BY <1>1, Reservations, PTL

-----------------------------------------------------------------------------

QuantityOf == [op \in Operation \cup Movement |-> op.quantity]

\* What a set of movements of one kind adds up to for a subject.
MovedIn(ledger, kind, s) ==
    SumQuantity({m \in ledger : m.kind = kind /\ Subject[m.line] = s})

BooksTypeOK ==
    /\ total \in [Subjects -> Nat \cup {Unconfigured}]
    /\ allocated \in [Subjects -> Nat]
    /\ movements \subseteq Movement /\ IsFiniteSet(movements)
    /\ adjusted \in [Subjects -> Int]
    /\ checkedOut \subseteq Operation /\ IsFiniteSet(checkedOut)

\* What is on hand: nothing, where there is no stock document.
OnHand(s) == IF Configured(s) THEN total[s] ELSE 0

OnHandExplained ==
    \A s \in Subjects : OnHand(s) = adjusted[s] - Moved("CONSUMED", s)

BooksInv == BooksTypeOK /\ OnHandExplained /\ AllocatedExplained

\* A movement has the line and the quantity of its operation.
LEMMA OperationFact ==
    ASSUME NEW op \in Operation, NEW kind
    PROVE  /\ op.line \in Lines /\ op.quantity \in Nat
           /\ MovementOf(kind, op).kind = kind
           /\ MovementOf(kind, op).line = op.line
           /\ MovementOf(kind, op).quantity = op.quantity
           /\ \A other \in Operation : MovementOf(kind, other) = MovementOf(kind, op) => other = op
BY StockAssumption DEF Operation, MovementOf

\* Operations and movements have quantities.
LEMMA QuantityFact ==
    \A x \in Operation \cup Movement : QuantityOf[x] = x.quantity /\ x.quantity \in Nat
BY OperationFact DEF QuantityOf, Movement

\* Quantities of operations, or of movements, add up as any natural numbers do.
LEMMA SumQuantityFact ==
    ASSUME NEW ops, ops \subseteq Operation \cup Movement, IsFiniteSet(ops)
    PROVE  SumQuantity(ops) = Sum(QuantityOf, ops) /\ SumQuantity(ops) \in Nat
<1> DEFINE f == [op \in ops |-> op.quantity]
<1>1. SumQuantity(ops) = Sum(f, ops)
  BY DEF SumQuantity, SumFunction, Sum
<1>2. \A op \in ops : f[op] = QuantityOf[op] /\ f[op] \in Nat
  BY QuantityFact
<1> HIDE DEF f
<1> QED  BY <1>1, <1>2, SumSame, SumNat

\* What operations need of a subject is a number, and nothing if none is about it.
LEMMA NeedFact ==
    ASSUME NEW ops, ops \subseteq Operation, IsFiniteSet(ops), NEW s
    PROVE  /\ Need(ops, s) \in Nat
           /\ s \notin Touched(ops) => Need(ops, s) = 0
<1> DEFINE mine == {op \in ops : Subject[op.line] = s}
<1>1. mine \subseteq Operation \cup Movement /\ IsFiniteSet(mine)
  BY FS_Subset
<1>2. Need(ops, s) = SumQuantity(mine)
  BY DEF Need
<1>3. s \notin Touched(ops) => mine = {}
  BY DEF Touched
<1> HIDE DEF mine
<1> QED  BY <1>1, <1>2, <1>3, SumQuantityFact, SumEmpty

\* Recording operations adds what they need to what their kind has moved.
LEMMA RecordMoved ==
    ASSUME NEW ledger, ledger \subseteq Movement, IsFiniteSet(ledger),
           NEW kind \in Kinds, NEW pending, pending \subseteq Operation, IsFiniteSet(pending),
           \A op \in pending : MovementOf(kind, op) \notin ledger
    PROVE  LET after == ledger \cup {MovementOf(kind, op) : op \in pending} IN
           /\ after \subseteq Movement /\ IsFiniteSet(after)
           /\ \A s : MovedIn(after, kind, s) = MovedIn(ledger, kind, s) + Need(pending, s)
           /\ \A s, k : k # kind => MovedIn(after, k, s) = MovedIn(ledger, k, s)
<1> DEFINE move == [op \in Operation |-> MovementOf(kind, op)]
           new == {move[op] : op \in pending}
           after == ledger \cup new
<1>1. new = {MovementOf(kind, op) : op \in pending}
  OBVIOUS
<1>0. \A op \in pending : /\ move[op] \in Movement /\ move[op].kind = kind
                           /\ move[op].line = op.line
  <2>1. \A op \in pending : move[op] = MovementOf(kind, op) /\ move[op] \in Movement
    BY DEF Movement
  <2> QED  BY <2>1, OperationFact
<1>2. new \subseteq Movement /\ IsFiniteSet(new)
  <2>1. new \subseteq Movement
    BY <1>0
  <2> HIDE DEF move
  <2> QED  BY <2>1, ImageFinite
<1>3. after \subseteq Movement /\ IsFiniteSet(after)
  BY <1>2, FS_Union
<1>4. ASSUME NEW s
      PROVE  MovedIn(after, kind, s) = MovedIn(ledger, kind, s) + Need(pending, s)
  <2> DEFINE mine == {op \in pending : Subject[op.line] = s}
             newMine == {move[op] : op \in mine}
             old == {m \in ledger : m.kind = kind /\ Subject[m.line] = s}
  <2>1. {m \in after : m.kind = kind /\ Subject[m.line] = s} = old \cup newMine
    <3> HIDE DEF move
    <3> QED  BY <1>0
  <2>2. mine \subseteq Operation /\ IsFiniteSet(mine)
    BY FS_Subset
  <2>3. old \subseteq Movement /\ IsFiniteSet(old)
    BY FS_Subset
  <2>4. newMine \subseteq Movement /\ old \cap newMine = {}
    BY <1>2
  <2>5. \A a, b \in mine : move[a] = move[b] => a = b
    BY <2>2, OperationFact
  <2>6. \A op \in mine : QuantityOf[move[op]] = op.quantity /\ op.quantity \in Nat
    BY <1>2, <2>2, OperationFact, QuantityFact
  <2>7. Need(pending, s) = SumQuantity(mine)
    BY DEF Need
  <2> HIDE DEF mine, move
  <2>8. IsFiniteSet(newMine)
    BY <2>2, ImageFinite
  <2>9. SumQuantity(newMine) = SumQuantity(mine)
    <3> DEFINE renamed == [op \in mine |-> QuantityOf[move[op]]]
    <3>1. Sum(QuantityOf, newMine) = Sum(renamed, mine)
      BY <2>2, <2>5, <2>6, SumImage
    <3>2. Sum(renamed, mine) = Sum(QuantityOf, mine)
      <4>1. \A op \in mine : renamed[op] = QuantityOf[op]
        BY <2>2, <2>6, QuantityFact
      <4> HIDE DEF renamed
      <4> QED  BY <2>2, <4>1, SumSame
    <3> QED  BY <2>2, <2>4, <2>8, <3>1, <3>2, SumQuantityFact
  <2> HIDE DEF old, newMine
  <2>10. SumQuantity(old \cup newMine) = SumQuantity(old) + SumQuantity(newMine)
    <3>1. IsFiniteSet(old \cup newMine)
      BY <2>3, <2>8, FS_Union
    <3>2. \A m \in old \cup newMine : QuantityOf[m] \in Int
      BY <2>3, <2>4, QuantityFact
    <3>3. Sum(QuantityOf, old \cup newMine) = Sum(QuantityOf, old) + Sum(QuantityOf, newMine)
      BY <2>3, <2>4, <2>8, <3>2, SumDisjoint
    <3> QED  BY <2>3, <2>4, <2>8, <3>1, <3>3, SumQuantityFact
  <2> QED  BY <2>1, <2>7, <2>9, <2>10 DEF MovedIn, old
<1>5. ASSUME NEW s, NEW k, k # kind
      PROVE  MovedIn(after, k, s) = MovedIn(ledger, k, s)
  <2>1. {m \in after : m.kind = k /\ Subject[m.line] = s}
          = {m \in ledger : m.kind = k /\ Subject[m.line] = s}
    <3> HIDE DEF move
    <3> QED  BY <1>0, <1>5
  <2> QED  BY <2>1, Zenon DEF MovedIn
<1> QED  BY <1>1, <1>3, <1>4, <1>5

\* The pending operations of a call are finitely many, and not in the ledger.
LEMMA PendingFact ==
    ASSUME NEW ops \in Items, NEW kind
    PROVE  /\ Pending(kind, ops) \subseteq Operation /\ IsFiniteSet(Pending(kind, ops))
           /\ \A op \in Pending(kind, ops) : MovementOf(kind, op) \notin movements
<1>1. ops \subseteq Operation /\ IsFiniteSet(ops)
  BY DEF Items
<1>2. Pending(kind, ops) \subseteq ops
  BY DEF Pending
<1> QED  BY <1>1, <1>2, FS_Subset DEF Pending

\* What the ledger has moved is a number.
LEMMA MovedFact ==
    ASSUME NEW ledger, ledger \subseteq Movement, IsFiniteSet(ledger), NEW kind, NEW s
    PROVE  MovedIn(ledger, kind, s) \in Nat
<1> DEFINE mine == {m \in ledger : m.kind = kind /\ Subject[m.line] = s}
<1>1. mine \subseteq Operation \cup Movement /\ IsFiniteSet(mine)
  BY FS_Subset
<1> HIDE DEF mine
<1>2. SumQuantity(mine) \in Nat
  BY <1>1, SumQuantityFact
<1> QED  BY <1>2 DEF MovedIn, mine

\* What the lines of store orders need of the products' stock is a number.
LEMMA NeedOfProductFact ==
    ASSUME NEW ops, ops \subseteq Operation, IsFiniteSet(ops), NEW s
    PROVE  /\ NeedOfProduct(ops, s) \in Nat
           /\ s \notin {Product[op.line] : op \in ops} => NeedOfProduct(ops, s) = 0
<1> DEFINE mine == {op \in ops : Product[op.line] = s}
<1>1. mine \subseteq Operation \cup Movement /\ IsFiniteSet(mine)
  BY FS_Subset
<1>2. NeedOfProduct(ops, s) = SumQuantity(mine)
  BY DEF NeedOfProduct
<1>3. s \notin {Product[op.line] : op \in ops} => mine = {}
  OBVIOUS
<1> HIDE DEF mine
<1> QED  BY <1>1, <1>2, <1>3, SumQuantityFact, SumEmpty

\* Reserving allocates what it records.
LEMMA ReserveBooks ==
    ASSUME BooksInv, NEW ops \in Items, Reserve(ops)
    PROVE  BooksInv'
<1> DEFINE reservable == {op \in Pending("CREATED", ops) : Configured(Subject[op.line])}
<1>1. /\ reservable \subseteq Operation /\ IsFiniteSet(reservable)
      /\ \A op \in reservable : MovementOf("CREATED", op) \notin movements
  BY PendingFact, FS_Subset
<1>2. /\ allocated' = [s \in Subjects |-> allocated[s] + Need(reservable, s)]
      /\ movements' = movements \cup {MovementOf("CREATED", op) : op \in reservable}
      /\ UNCHANGED <<total, adjusted, checkedOut>>
  BY DEF Reserve
<1> HIDE DEF reservable
<1>3. /\ movements' \subseteq Movement /\ IsFiniteSet(movements')
      /\ \A s : MovedIn(movements', "CREATED", s)
                  = MovedIn(movements, "CREATED", s) + Need(reservable, s)
      /\ \A s, k : k # "CREATED" => MovedIn(movements', k, s) = MovedIn(movements, k, s)
  BY <1>1, <1>2, RecordMoved DEF Kinds, BooksInv, BooksTypeOK
<1>4. BooksTypeOK'
  BY <1>1, <1>2, <1>3, NeedFact DEF BooksInv, BooksTypeOK
<1>5. OnHandExplained'
  <2>1. ASSUME NEW s \in Subjects
        PROVE  OnHand(s)' = adjusted'[s] - MovedIn(movements', "CONSUMED", s)
    <3>1. OnHand(s) = adjusted[s] - MovedIn(movements, "CONSUMED", s)
      BY DEF BooksInv, OnHandExplained, Moved, MovedIn
    <3>2. OnHand(s)' = OnHand(s) /\ adjusted' = adjusted
      BY <1>2 DEF OnHand, Configured
    <3>3. MovedIn(movements', "CONSUMED", s) = MovedIn(movements, "CONSUMED", s)
      BY <1>3
    <3> QED  BY <3>1, <3>2, <3>3
  <2> QED  BY <2>1 DEF OnHandExplained, Moved, MovedIn
<1>6. ASSUME NEW s \in Subjects
      PROVE  allocated'[s] = NeedOfProduct(checkedOut, s)
               + MovedIn(movements', "CREATED", s) - MovedIn(movements', "RELEASED", s)
               - MovedIn(movements', "CONSUMED", s)
  <2>1. allocated[s] = NeedOfProduct(checkedOut, s)
               + MovedIn(movements, "CREATED", s) - MovedIn(movements, "RELEASED", s)
               - MovedIn(movements, "CONSUMED", s)
    BY DEF BooksInv, AllocatedExplained, Moved, MovedIn
  <2>2. /\ Need(reservable, s) \in Nat /\ NeedOfProduct(checkedOut, s) \in Nat
        /\ \A k : MovedIn(movements, k, s) \in Nat
    BY <1>1, NeedFact, NeedOfProductFact, MovedFact DEF BooksInv, BooksTypeOK
  <2>3. allocated'[s] = allocated[s] + Need(reservable, s)
    BY <1>2
  <2> QED  BY <1>3, <2>1, <2>2, <2>3
<1>7. AllocatedExplained'
  BY <1>2, <1>6 DEF AllocatedExplained, Moved, MovedIn, NeedOfProduct
<1> QED  BY <1>4, <1>5, <1>7 DEF BooksInv

\* Consuming and releasing take back what they record, of stock that has it.
LEMMA EndBooks ==
    ASSUME BooksInv, NEW ops \in Items, Deduct(ops) \/ Release(ops)
    PROVE  BooksInv'
<1>1. PICK kind \in {"CONSUMED", "RELEASED"} :
        LET pending == Pending(kind, ops) IN
        /\ \A s \in Touched(pending) :
             /\ Configured(s) /\ Need(pending, s) <= allocated[s]
             /\ kind = "CONSUMED" => Need(pending, s) <= total[s]
        /\ total' = IF kind = "CONSUMED"
                    THEN [s \in Subjects |-> total[s] - Need(pending, s)] ELSE total
        /\ allocated' = [s \in Subjects |-> allocated[s] - Need(pending, s)]
        /\ movements' = movements \cup {MovementOf(kind, op) : op \in pending}
        /\ UNCHANGED <<adjusted, checkedOut>>
  <2>1. CASE Deduct(ops)
    BY <2>1 DEF Deduct
  <2>2. CASE Release(ops)
    BY <2>2 DEF Release
  <2> QED  BY <2>1, <2>2
<1> DEFINE pending == Pending(kind, ops)
<1>2. /\ pending \subseteq Operation /\ IsFiniteSet(pending)
      /\ \A op \in pending : MovementOf(kind, op) \notin movements
  BY PendingFact
<1>3. /\ \A s \in Touched(pending) :
             /\ Configured(s) /\ Need(pending, s) <= allocated[s]
             /\ kind = "CONSUMED" => Need(pending, s) <= total[s]
      /\ total' = IF kind = "CONSUMED"
                  THEN [s \in Subjects |-> total[s] - Need(pending, s)] ELSE total
      /\ allocated' = [s \in Subjects |-> allocated[s] - Need(pending, s)]
      /\ movements' = movements \cup {MovementOf(kind, op) : op \in pending}
      /\ UNCHANGED <<adjusted, checkedOut>>
  BY <1>1
<1> HIDE DEF pending
<1>4. /\ movements' \subseteq Movement /\ IsFiniteSet(movements')
      /\ \A s : MovedIn(movements', kind, s) = MovedIn(movements, kind, s) + Need(pending, s)
      /\ \A s, k : k # kind => MovedIn(movements', k, s) = MovedIn(movements, k, s)
  BY <1>1, <1>2, <1>3, RecordMoved DEF Kinds, BooksInv, BooksTypeOK
<1>5. \A s : /\ Need(pending, s) \in Nat
             /\ s \notin Touched(pending) => Need(pending, s) = 0
  BY <1>2, NeedFact
<1>6. ASSUME NEW s \in Subjects
      PROVE  /\ allocated'[s] \in Nat
             /\ total'[s] \in Nat \cup {Unconfigured}
             /\ OnHand(s)' = adjusted'[s] - MovedIn(movements', "CONSUMED", s)
             /\ allocated'[s] = NeedOfProduct(checkedOut, s)
                  + MovedIn(movements', "CREATED", s) - MovedIn(movements', "RELEASED", s)
                  - MovedIn(movements', "CONSUMED", s)
  <2>1. /\ OnHand(s) = adjusted[s] - MovedIn(movements, "CONSUMED", s)
        /\ allocated[s] = NeedOfProduct(checkedOut, s)
               + MovedIn(movements, "CREATED", s) - MovedIn(movements, "RELEASED", s)
               - MovedIn(movements, "CONSUMED", s)
    BY DEF BooksInv, OnHandExplained, AllocatedExplained, Moved, MovedIn
  <2>2. /\ NeedOfProduct(checkedOut, s) \in Nat
        /\ MovedIn(movements, "CREATED", s) \in Nat
        /\ MovedIn(movements, "RELEASED", s) \in Nat
        /\ MovedIn(movements, "CONSUMED", s) \in Nat
        /\ adjusted[s] \in Int /\ allocated[s] \in Nat /\ total[s] \in Nat \cup {Unconfigured}
    BY NeedOfProductFact, MovedFact DEF BooksInv, BooksTypeOK
  <2>3. /\ Need(pending, s) <= allocated[s]
        /\ kind = "CONSUMED" /\ Configured(s) => Need(pending, s) <= total[s]
        /\ ~ Configured(s) => Need(pending, s) = 0
    <3>1. CASE s \in Touched(pending)
      BY <1>3, <3>1
    <3>2. CASE s \notin Touched(pending)
      <4>1. Need(pending, s) = 0
        BY <1>5, <3>2
      <4> QED  BY <2>2, <4>1 DEF Configured
    <3> QED  BY <3>1, <3>2
  <2>4. /\ allocated'[s] = allocated[s] - Need(pending, s)
        /\ total'[s] = IF kind = "CONSUMED" THEN total[s] - Need(pending, s) ELSE total[s]
        /\ adjusted'[s] = adjusted[s]
    BY <1>3, <2>2
  <2>5. kind = "CONSUMED" \/ kind = "RELEASED"
    BY <1>1
  <2>6. Need(pending, s) \in Nat
    BY <1>5
  <2>7. OnHand(s)' = IF kind = "CONSUMED" THEN OnHand(s) - Need(pending, s) ELSE OnHand(s)
    BY <2>2, <2>3, <2>4, <2>5, <2>6 DEF OnHand, Configured, Unconfigured
  <2>8. /\ allocated'[s] \in Nat
        /\ total'[s] \in Nat \cup {Unconfigured}
    BY <2>2, <2>3, <2>4, <2>6 DEF Configured, Unconfigured
  <2>9. OnHand(s)' = adjusted'[s] - MovedIn(movements', "CONSUMED", s)
    <3>1. CASE kind = "CONSUMED"
      <4>1. MovedIn(movements', "CONSUMED", s) = MovedIn(movements, "CONSUMED", s) + Need(pending, s)
        BY <1>4, <3>1
      <4> QED  BY <2>1, <2>2, <2>4, <2>6, <2>7, <3>1, <4>1
    <3>2. CASE kind # "CONSUMED"
      <4>1. MovedIn(movements', "CONSUMED", s) = MovedIn(movements, "CONSUMED", s)
        BY <1>4, <3>2
      <4> QED  BY <2>1, <2>4, <2>7, <3>2, <4>1
    <3> QED  BY <3>1, <3>2
  <2>10. allocated'[s] = NeedOfProduct(checkedOut, s)
           + MovedIn(movements', "CREATED", s) - MovedIn(movements', "RELEASED", s)
           - MovedIn(movements', "CONSUMED", s)
    <3>1. MovedIn(movements', "CREATED", s) = MovedIn(movements, "CREATED", s)
      BY <1>4, <2>5
    <3>2. CASE kind = "CONSUMED"
      <4>1. /\ MovedIn(movements', "CONSUMED", s)
                 = MovedIn(movements, "CONSUMED", s) + Need(pending, s)
            /\ MovedIn(movements', "RELEASED", s) = MovedIn(movements, "RELEASED", s)
        BY <1>4, <3>2
      <4> QED  BY <2>1, <2>2, <2>4, <2>6, <3>1, <4>1
    <3>3. CASE kind = "RELEASED"
      <4>1. /\ MovedIn(movements', "RELEASED", s)
                 = MovedIn(movements, "RELEASED", s) + Need(pending, s)
            /\ MovedIn(movements', "CONSUMED", s) = MovedIn(movements, "CONSUMED", s)
        BY <1>4, <3>3
      <4> QED  BY <2>1, <2>2, <2>4, <2>6, <3>1, <4>1
    <3> QED  BY <2>5, <3>2, <3>3
  <2> QED  BY <2>8, <2>9, <2>10
<1>7. BooksTypeOK'
  <2>1. total' = [s \in Subjects |-> total'[s]]
    BY <1>3 DEF BooksInv, BooksTypeOK
  <2> QED  BY <1>3, <1>4, <1>6, <2>1 DEF BooksInv, BooksTypeOK
<1>8. OnHandExplained'
  BY <1>6 DEF OnHandExplained, Moved, MovedIn
<1>9. AllocatedExplained'
  BY <1>3, <1>6 DEF AllocatedExplained, Moved, MovedIn, NeedOfProduct
<1> QED  BY <1>7, <1>8, <1>9 DEF BooksInv

\* A correction by staff is explained by its adjustment.
LEMMA SetStockBooks ==
    ASSUME BooksInv, NEW s \in Subjects, NEW n \in 0..MaxTotal, SetStock(s, n)
    PROVE  BooksInv'
<1>1. /\ total' = [total EXCEPT ![s] = n]
      /\ adjusted' = [adjusted EXCEPT ![s] = @ + n - OnHand(s)]
      /\ UNCHANGED <<allocated, movements, reservation, checkedOut>>
  BY DEF SetStock, OnHand
<1>2. n \in Nat
  BY StockAssumption
<1>3. ASSUME NEW t \in Subjects
      PROVE  /\ OnHand(t) \in Int
             /\ adjusted[t] \in Int
             /\ adjusted'[t] \in Int
             /\ OnHand(t)' = adjusted'[t] - MovedIn(movements, "CONSUMED", t)
  <2>1. /\ OnHand(t) = adjusted[t] - MovedIn(movements, "CONSUMED", t)
        /\ total[t] \in Nat \cup {Unconfigured} /\ adjusted[t] \in Int
        /\ OnHand(t) \in Int
    BY DEF BooksInv, BooksTypeOK, OnHandExplained, OnHand, Configured, Moved, MovedIn
  <2>2. MovedIn(movements, "CONSUMED", t) \in Nat
    BY MovedFact DEF BooksInv, BooksTypeOK
  <2>3. CASE t = s
    <3>1. total'[t] = n /\ adjusted'[t] = adjusted[t] + n - OnHand(t)
      BY <1>1, <2>3 DEF BooksInv, BooksTypeOK
    <3>2. OnHand(t)' = n
      BY <1>2, <3>1 DEF OnHand, Configured, Unconfigured
    <3> QED  BY <1>2, <2>1, <2>2, <3>1, <3>2
  <2>4. CASE t # s
    <3>1. total'[t] = total[t] /\ adjusted'[t] = adjusted[t]
      BY <1>1, <2>4 DEF BooksInv, BooksTypeOK
    <3> QED  BY <2>1, <3>1 DEF OnHand, Configured
  <2> QED  BY <2>3, <2>4
<1>4. BooksTypeOK'
  <2>1. total' \in [Subjects -> Nat \cup {Unconfigured}]
    BY <1>1, <1>2 DEF BooksInv, BooksTypeOK
  <2>2. adjusted' \in [Subjects -> Int]
    BY <1>1, <1>2, <1>3 DEF BooksInv, BooksTypeOK
  <2> QED  BY <1>1, <2>1, <2>2 DEF BooksInv, BooksTypeOK
<1>5. OnHandExplained'
  BY <1>1, <1>3 DEF OnHandExplained, Moved, MovedIn
<1>6. AllocatedExplained'
  BY <1>1 DEF BooksInv, AllocatedExplained, Moved
<1> QED  BY <1>4, <1>5, <1>6 DEF BooksInv

\* The checkout allocates what its order's lines need, which no earlier order
\* asked for.
LEMMA CheckoutBooks ==
    ASSUME BooksInv, NEW ops \in Items, StoreCheckout(ops)
    PROVE  BooksInv'
<1>1. /\ \A op \in ops, c \in checkedOut : Order[op.line] # Order[c.line]
      /\ allocated' = [s \in Subjects |-> allocated[s] + NeedOfProduct(ops, s)]
      /\ checkedOut' = checkedOut \cup ops
      /\ UNCHANGED <<total, movements, adjusted, reservation>>
  BY DEF StoreCheckout
<1>2. /\ ops \subseteq Operation /\ IsFiniteSet(ops)
      /\ checkedOut \subseteq Operation /\ IsFiniteSet(checkedOut)
  BY DEF Items, BooksInv, BooksTypeOK
<1>3. ops \cap checkedOut = {}
  BY <1>1
<1>4. ASSUME NEW s
      PROVE  NeedOfProduct(checkedOut \cup ops, s)
               = NeedOfProduct(checkedOut, s) + NeedOfProduct(ops, s)
  <2> DEFINE Of(x) == {op \in x : Product[op.line] = s}
  <2>1. /\ Of(checkedOut) \subseteq Operation \cup Movement /\ IsFiniteSet(Of(checkedOut))
        /\ Of(ops) \subseteq Operation \cup Movement /\ IsFiniteSet(Of(ops))
        /\ Of(checkedOut) \cap Of(ops) = {}
        /\ Of(checkedOut \cup ops) = Of(checkedOut) \cup Of(ops)
    BY <1>2, <1>3, FS_Subset
  <2>2. \A x : NeedOfProduct(x, s) = SumQuantity(Of(x))
    BY DEF NeedOfProduct
  <2> HIDE DEF Of
  <2>3. IsFiniteSet(Of(checkedOut) \cup Of(ops))
    BY <2>1, FS_Union
  <2>4. \A x \in Of(checkedOut) \cup Of(ops) : QuantityOf[x] \in Int
    BY <2>1, QuantityFact
  <2>5. Sum(QuantityOf, Of(checkedOut) \cup Of(ops))
          = Sum(QuantityOf, Of(checkedOut)) + Sum(QuantityOf, Of(ops))
    BY <2>1, <2>4, SumDisjoint
  <2> QED  BY <2>1, <2>2, <2>3, <2>5, SumQuantityFact
<1>5. ASSUME NEW s
      PROVE  NeedOfProduct(checkedOut, s) \in Nat /\ NeedOfProduct(ops, s) \in Nat
  BY <1>2, NeedOfProductFact
<1>6. BooksTypeOK'
  <2>1. IsFiniteSet(checkedOut') /\ checkedOut' \subseteq Operation
    BY <1>1, <1>2, FS_Union
  <2>2. allocated' \in [Subjects -> Nat]
    <3>1. ASSUME NEW s \in Subjects
          PROVE  allocated[s] + NeedOfProduct(ops, s) \in Nat
      <4>1. allocated[s] \in Nat
        BY DEF BooksInv, BooksTypeOK
      <4> QED  BY <1>5, <4>1
    <3> QED  BY <1>1, <3>1
  <2> QED  BY <1>1, <2>1, <2>2 DEF BooksInv, BooksTypeOK
<1>7. OnHandExplained'
  BY <1>1 DEF BooksInv, OnHandExplained, OnHand, Configured, Moved
<1>8. AllocatedExplained'
  <2>1. ASSUME NEW s \in Subjects
        PROVE  allocated'[s] = NeedOfProduct(checkedOut \cup ops, s)
                 + Moved("CREATED", s) - Moved("RELEASED", s) - Moved("CONSUMED", s)
    <3>1. \A k : Moved(k, s) \in Nat
      BY MovedFact DEF BooksInv, BooksTypeOK, Moved, MovedIn
    <3>2. allocated[s] = NeedOfProduct(checkedOut, s)
            + Moved("CREATED", s) - Moved("RELEASED", s) - Moved("CONSUMED", s)
      BY DEF BooksInv, AllocatedExplained
    <3>3. allocated'[s] = allocated[s] + NeedOfProduct(ops, s)
      BY <1>1
    <3>4. /\ NeedOfProduct(checkedOut, s) \in Nat /\ NeedOfProduct(ops, s) \in Nat
          /\ NeedOfProduct(checkedOut \cup ops, s)
               = NeedOfProduct(checkedOut, s) + NeedOfProduct(ops, s)
      BY <1>4, <1>5
    <3>5. Moved("CREATED", s) \in Nat /\ Moved("RELEASED", s) \in Nat /\ Moved("CONSUMED", s) \in Nat
      BY <3>1
    <3> HIDE DEF Moved, NeedOfProduct
    <3> QED  BY <3>2, <3>3, <3>4, <3>5
  <2> QED  BY <1>1, <2>1 DEF AllocatedExplained, Moved
<1> QED  BY <1>6, <1>7, <1>8 DEF BooksInv

\* The books start empty.
LEMMA InitBooks == Init => BooksInv
<1> SUFFICES ASSUME Init PROVE BooksInv
  OBVIOUS
<1>1. BooksTypeOK
  BY FS_EmptySet DEF Init, BooksTypeOK
<1>2. SumQuantity({}) = 0
  BY SumEmpty, FS_EmptySet, SumQuantityFact
<1>3. \A s, k : Moved(k, s) = 0 /\ NeedOfProduct(checkedOut, s) = 0
  <2>1. \A s, k : /\ {m \in movements : m.kind = k /\ Subject[m.line] = s} = {}
                  /\ {op \in checkedOut : Product[op.line] = s} = {}
    BY DEF Init
  <2> QED  BY <1>2, <2>1 DEF Moved, NeedOfProduct
<1>4. OnHandExplained
  BY <1>3 DEF Init, OnHandExplained, OnHand, Configured, Unconfigured
<1>5. AllocatedExplained
  BY <1>3 DEF Init, AllocatedExplained
<1> QED  BY <1>1, <1>4, <1>5 DEF BooksInv

\* No call disturbs the books.
LEMMA NextBooks == BooksInv /\ [Next]_vars => BooksInv'
<1> SUFFICES ASSUME BooksInv, [Next]_vars PROVE BooksInv'
  OBVIOUS
<1>1. CASE \E ops \in Items : Reserve(ops)
  BY <1>1, ReserveBooks
<1>2. CASE \E ops \in Items : Deduct(ops) \/ Release(ops)
  BY <1>2, EndBooks
<1>3. CASE \E ops \in Items : StoreCheckout(ops)
  BY <1>3, CheckoutBooks
<1>4. CASE \E s \in Subjects, n \in 0..MaxTotal : SetStock(s, n)
  BY <1>4, SetStockBooks
<1>5. CASE UNCHANGED vars
  BY <1>5 DEF vars, BooksInv, BooksTypeOK, OnHandExplained, OnHand, Configured,
     AllocatedExplained, Moved
<1> QED
  BY <1>1, <1>2, <1>3, <1>4, <1>5 DEF Next, ReserveStock, DeductStock, ReleaseStock,
     ReserveAttributeStock, DeductAttributeStock, ReleaseAttributeStock

\* What is on hand is what staff entered less what was consumed, each
\* operation counted once however often and with whichever others it was asked for.
THEOREM TotalIsExplained == Spec => []TotalExplained
<1>1. BooksInv => TotalExplained
  BY DEF BooksInv, OnHandExplained, OnHand, TotalExplained
<1> QED  BY <1>1, InitBooks, NextBooks, PTL DEF Spec

\* What is allocated is what was reserved or ordered in the store and neither
\* released nor consumed.
THEOREM AllocatedIsExplained == Spec => []AllocatedExplained
<1>1. BooksInv => AllocatedExplained
  BY DEF BooksInv
<1> QED  BY <1>1, InitBooks, NextBooks, PTL DEF Spec

\* Stock never becomes negative, on hand or allocated, in any order of calls:
\* with the types of the books and of the reservations.
THEOREM TypeCorrect == Spec => []TypeOK
<1>1. BooksInv /\ Inv => TypeOK
  BY DEF BooksInv, BooksTypeOK, Inv, ReservationTypeOK, TypeOK
<1> QED  BY <1>1, InitBooks, NextBooks, Reservations, PTL DEF Spec
=============================================================================
