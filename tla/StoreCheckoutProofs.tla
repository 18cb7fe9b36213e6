------------------------ MODULE StoreCheckoutProofs ------------------------
(***************************************************************************)
(* What holds of StoreCheckout for any calls, items, stock and limits: its *)
(* types, that stock is not oversold, that sequential checkouts buy an item*)
(* once and stay within the order limit, that items leave the cart only in *)
(* an order or by hand, that the balance is the sum of the entries that    *)
(* stand, and that all writers together keep the credit account.           *)
(***************************************************************************)
EXTENDS StoreCheckout, SequenceTheorems, Sums

CallType == [pc : Steps, items : SUBSET Items, credit : Nat, code : BOOLEAN,
             discounted : BOOLEAN]

LEMMA UnitsNat == TypeOK => \A c \in Calls : Units(c) \in Nat
  BY CheckoutAssumption, FS_Subset, FS_CardinalityType DEF TypeOK, Units

LEMMA PostEntryType ==
  ASSUME TypeOK, NEW history \in Seq(Entry), NEW amount \in Int,
         NEW order \in Calls \cup {NoOrder}, NEW standing \in BOOLEAN,
         PostEntry(history, amount, order, standing)
  PROVE  credit' \in Nat /\ log' \in Seq(Entry)
<1>1. credit' \in Nat
  BY DEF PostEntry, TypeOK
<1>2. [amount |-> amount, after |-> credit + amount, order |-> order,
       standing |-> standing] \in Entry
  BY DEF PostEntry, TypeOK, Entry
<1>3. log' \in Seq(Entry)
  BY <1>2 DEF PostEntry
<1> QED BY <1>1, <1>3

LEMMA RedeemType ==
  ASSUME TypeOK, NEW c \in Calls, Redeem(c)
  PROVE  credit' \in Nat /\ log' \in Seq(Entry)
<1>1. CASE call[c].credit = 0
  BY <1>1 DEF Redeem, TypeOK
<1>2. CASE call[c].credit # 0
  <2>1. PostEntry(log, - call[c].credit, c, TRUE)
    BY <1>2 DEF Redeem
  <2>2. - call[c].credit \in Int /\ log \in Seq(Entry)
    BY DEF TypeOK
  <2> QED BY <2>1, <2>2, PostEntryType
<1> QED BY <1>1, <1>2

LEMMA ReverseType ==
  ASSUME TypeOK, NEW i \in DOMAIN log, Reverse(i)
  PROVE  credit' \in Nat /\ log' \in Seq(Entry)
<1> DEFINE history == [log EXCEPT ![i].standing = FALSE]
<1>1. log \in Seq(Entry) /\ log[i] \in Entry
  BY DEF TypeOK
<1>2. history \in Seq(Entry)
  <2>1. [log[i] EXCEPT !.standing = FALSE] \in Entry
    BY <1>1 DEF Entry
  <2>2. history = [log EXCEPT ![i] = [log[i] EXCEPT !.standing = FALSE]]
    OBVIOUS
  <2>3. i \in 1..Len(log)
    BY <1>1
  <2> QED BY <1>1, <2>1, <2>2, <2>3, ExceptSeq
<1>3. - log[i].amount \in Int /\ log[i].order \in Calls \cup {NoOrder}
  BY <1>1 DEF Entry
<1>4. PostEntry(history, - log[i].amount, log[i].order, FALSE)
  BY DEF Reverse
<1> HIDE DEF history
<1> QED BY <1>2, <1>3, <1>4, PostEntryType

LEMMA CommitType ==
  ASSUME TypeOK, NEW c \in Calls, Commit(c)
  PROVE  TypeOK'
<1>1. credit' \in Nat /\ log' \in Seq(Entry)
  BY RedeemType DEF Commit
<1>2. allocated' \in Nat
  BY UnitsNat DEF Commit, TypeOK
<1>3. cart' \subseteq Items /\ placed' \subseteq Calls
  BY DEF Commit, RemainingCart, TypeOK
<1>4. call' \in [Calls -> CallType]
  BY DEF Commit, Goto, TypeOK, CallType, Steps
<1> QED BY <1>1, <1>2, <1>3, <1>4 DEF Commit, TypeOK, CallType

LEMMA CallType1 ==
  ASSUME TypeOK, NEW c \in Calls, CallStep(c), ~ Commit(c)
  PROVE  TypeOK' /\ UNCHANGED <<placed, allocated, creditVars>>
<1> USE DEF TypeOK, creditVars
<1>1. ASSUME NEW amount \in 0..Cardinality(Items), NEW code \in BOOLEAN,
             Submit(c, amount, code)
      PROVE  TypeOK' /\ UNCHANGED <<placed, allocated, creditVars>>
  BY <1>1 DEF Submit, Steps
<1>2. CASE Quote(c)
  BY <1>2 DEF Quote, Steps
<1>3. CASE CheckQuota(c)
  BY <1>3 DEF CheckQuota, Goto, Steps
<1>4. CASE OpenSession(c)
  BY <1>4 DEF OpenSession, Goto, Steps
<1>5. CASE Refuse(c)
  BY <1>5 DEF Refuse, Goto, Steps
<1>6. CASE DeletePromotion(c)
  BY <1>6 DEF DeletePromotion, Goto, Steps
<1>7. CASE Die(c)
  BY <1>7 DEF Die, Goto, Steps
<1> QED BY <1>1, <1>2, <1>3, <1>4, <1>5, <1>6, <1>7 DEF CallStep

LEMMA TypeNext == TypeOK /\ [Next]_vars => TypeOK'
<1> SUFFICES ASSUME TypeOK, [Next]_vars PROVE TypeOK'
  OBVIOUS
<1>1. CASE UNCHANGED vars
  BY <1>1 DEF TypeOK, vars, creditVars
<1>2. ASSUME NEW i \in Items, AddToCart(i) \/ RemoveFromCart(i) PROVE TypeOK'
  BY <1>2 DEF TypeOK, AddToCart, RemoveFromCart, creditVars
<1>3. ASSUME NEW c \in Calls, CallStep(c) PROVE TypeOK'
  BY <1>3, CommitType, CallType1
<1>4. ASSUME NEW amount \in Adjustments, Adjust(amount) \/ ResolveRma(amount) PROVE TypeOK'
  <2>1. amount \in Int /\ log \in Seq(Entry)
    BY CheckoutAssumption DEF TypeOK
  <2>2. PostEntry(log, amount, NoOrder, TRUE)
    BY <1>4 DEF Adjust, ResolveRma
  <2>3. credit' \in Nat /\ log' \in Seq(Entry)
    BY <2>1, <2>2, PostEntryType
  <2> QED BY <1>4, <2>3 DEF Adjust, ResolveRma, TypeOK, checkoutVars
<1>5. ASSUME NEW i \in DOMAIN log, Reverse(i) PROVE TypeOK'
  <2>1. credit' \in Nat /\ log' \in Seq(Entry)
    BY <1>5, ReverseType
  <2> QED BY <1>5, <2>1 DEF Reverse, TypeOK, checkoutVars
<1>6. CASE DrawerRead
  BY <1>6 DEF DrawerRead, TypeOK, checkoutVars
<1>7. CASE DrawerWrite
  BY <1>7 DEF DrawerWrite, TypeOK, checkoutVars, Closed
<1> QED BY <1>1, <1>2, <1>3, <1>4, <1>5, <1>6, <1>7 DEF Next

(***************************************************************************)
(* Every variable keeps its type; in particular the customer's credit is   *)
(* never negative, whoever writes it.                                      *)
(***************************************************************************)
THEOREM CheckoutTypes == Spec => []TypeOK
<1>1. Init => TypeOK
  BY DEF Init, TypeOK, Steps
<1> QED BY <1>1, TypeNext, PTL DEF Spec

(***************************************************************************)
(* Whatever checkouts overlap, no more of the stock is allocated than      *)
(* there is, where the policy is to block: the stock is read in the        *)
(* transaction that allocates it.                                          *)
(***************************************************************************)
THEOREM StockIsKept == Spec => []StockKept
<1>1. Init => StockKept
  BY CheckoutAssumption DEF Init, StockKept
<1>2. TypeOK /\ StockKept /\ [Next]_vars => StockKept'
  <2> SUFFICES ASSUME TypeOK, StockKept, [Next]_vars PROVE StockKept'
    OBVIOUS
  <2>1. ASSUME NEW c \in Calls, Commit(c) PROVE StockKept'
    <3>1. Units(c) \in Nat /\ allocated \in Nat /\ StockTotal \in Nat
      BY UnitsNat, CheckoutAssumption DEF TypeOK
    <3> QED BY <2>1, <3>1 DEF Commit, CanCommit, StockSuffices, StockKept
  <2>2. CASE \A c \in Calls : ~ Commit(c)
    <3>1. UNCHANGED allocated
      BY <2>2, CallType1 DEF Next, vars, AddToCart, RemoveFromCart, Adjust, ResolveRma,
         Reverse, DrawerRead, DrawerWrite, checkoutVars
    <3> QED BY <3>1 DEF StockKept
  <2> QED BY <2>1, <2>2
<1> QED BY <1>1, <1>2, CheckoutTypes, PTL DEF Spec

(***************************************************************************)
(* The cart.  While checkouts do not overlap, at most one is between its   *)
(* reading of the cart and its end, and neither the cart nor what it read  *)
(* holds an item that is in an order.                                      *)
(***************************************************************************)

Busy(c) == call[c].pc \in {"quote", "quota", "session", "commit"}

Disjoint(c, d) == call[c].items \cap call[d].items = {}

CartInv ==
    /\ cart \subseteq bought
    /\ \A c \in Calls : call[c].items \subseteq bought
    /\ \A c \in Calls : Busy(c) \/ call[c].pc = "idle" => c \notin placed
    /\ "overlap" \notin others =>
         /\ \A c, d \in Calls : Busy(c) /\ Busy(d) => c = d
         /\ \A c \in placed : call[c].items \cap cart = {}
         /\ \A c \in placed, d \in Calls : Busy(d) => Disjoint(c, d)
         /\ \A c, d \in placed : c # d => Disjoint(c, d)

LEMMA SubmitCart ==
  ASSUME TypeOK, CartInv, NEW c \in Calls, NEW amount \in Nat, NEW code \in BOOLEAN,
         Submit(c, amount, code)
  PROVE  CartInv'
<1> USE DEF TypeOK, CartInv
<1>1. /\ \A d \in Calls \ {c} : call'[d] = call[d]
      /\ call'[c].items = cart /\ call'[c].pc = "quote"
      /\ c \notin placed
      /\ UNCHANGED <<cart, bought, placed, others>>
  BY DEF Submit
<1>2. "overlap" \notin others => \A d \in Calls : ~ Busy(d)
  BY DEF Submit, Answered, Busy
<1>3. \A d \in Calls \ {c} : Busy(d)' <=> Busy(d)
  BY <1>1 DEF Busy
<1>4. "overlap" \notin others => \A d \in placed : Disjoint(d, c)'
  BY <1>1 DEF Disjoint
<1>5. \A b, d \in placed : Disjoint(b, d)' <=> Disjoint(b, d)
  BY <1>1 DEF Disjoint
<1> QED BY <1>1, <1>2, <1>3, <1>4, <1>5 DEF Busy

LEMMA CommitCart ==
  ASSUME TypeOK, CartInv, NEW c \in Calls, Commit(c)
  PROVE  CartInv'
<1> USE DEF TypeOK, CartInv
<1>1. /\ \A d \in Calls \ {c} : call'[d] = call[d]
      /\ call'[c].items = call[c].items /\ call'[c].pc \in {"after", "done"}
      /\ Busy(c)
      /\ placed' = placed \cup {c}
      /\ cart' = cart \ call[c].items
      /\ UNCHANGED <<bought, others>>
  BY DEF Commit, Goto, RemainingCart, Busy
<1>2. \A d \in Calls : Busy(d)' => Busy(d) /\ d # c
  BY <1>1 DEF Busy
<1>3. \A b, d \in Calls : Disjoint(b, d)' <=> Disjoint(b, d)
  BY <1>1 DEF Disjoint
<1>4. "overlap" \notin others => \A d \in Calls : ~ Busy(d)'
  BY <1>1, <1>2
<1>5. "overlap" \notin others => \A d \in placed : Disjoint(d, c) /\ Disjoint(c, d)
  BY <1>1 DEF Disjoint
<1>6. \A d \in Calls : call'[d].items = call[d].items
  BY <1>1
<1>7. \A d \in Calls : Busy(d)' \/ call'[d].pc = "idle" => d \notin placed'
  BY <1>1, <1>2 DEF Busy
<1>8. "overlap" \notin others => \A d \in placed' : call'[d].items \cap cart' = {}
  BY <1>1, <1>6
<1>9. "overlap" \notin others => \A b, d \in placed' : b # d => Disjoint(b, d)'
  BY <1>1, <1>3, <1>5
<1> QED BY <1>1, <1>4, <1>6, <1>7, <1>8, <1>9

\* The steps that only take a call further, or end it.
LEMMA ProceedCart ==
  ASSUME TypeOK, CartInv, NEW c \in Calls,
         \/ Quote(c) \/ CheckQuota(c) \/ OpenSession(c) \/ Refuse(c)
         \/ DeletePromotion(c) \/ Die(c)
  PROVE  CartInv'
<1> USE DEF TypeOK, CartInv
<1>1. /\ \A d \in Calls \ {c} : call'[d] = call[d]
      /\ call'[c].items = call[c].items
      /\ call'[c].pc # "idle"
      /\ call'[c].pc \in {"quota", "session", "commit"} => Busy(c)
      /\ call'[c].pc # "quote"
      /\ UNCHANGED <<cart, bought, placed, others>>
  BY DEF Quote, CheckQuota, OpenSession, Refuse, DeletePromotion, Die, Goto, Busy
<1>2. \A d \in Calls : Busy(d)' => Busy(d)
  BY <1>1 DEF Busy
<1>3. \A b, d \in Calls : Disjoint(b, d)' <=> Disjoint(b, d)
  BY <1>1 DEF Disjoint
<1>4. \A d \in Calls : call'[d].items = call[d].items
  BY <1>1
<1>5. \A d \in Calls : call'[d].pc = "idle" => call[d].pc = "idle"
  BY <1>1
<1> QED BY <1>1, <1>2, <1>3, <1>4, <1>5

LEMMA CartNext == TypeOK /\ CartInv /\ [Next]_vars => CartInv'
<1> SUFFICES ASSUME TypeOK, CartInv, [Next]_vars PROVE CartInv'
  OBVIOUS
<1>1. ASSUME UNCHANGED <<call, placed, others>>, cart' \subseteq cart \cup (bought' \ bought),
             bought \subseteq bought'
      PROVE  CartInv'
  BY <1>1 DEF TypeOK, CartInv, Busy, Disjoint
<1>2. CASE UNCHANGED vars
  BY <1>1, <1>2 DEF vars
<1>3. ASSUME NEW i \in Items, AddToCart(i) \/ RemoveFromCart(i) PROVE CartInv'
  BY <1>1, <1>3 DEF AddToCart, RemoveFromCart
<1>4. ASSUME NEW c \in Calls, CallStep(c) PROVE CartInv'
  <2>1. \A amount \in 0..Cardinality(Items) : amount \in Nat
    OBVIOUS
  <2> QED BY <1>4, <2>1, SubmitCart, CommitCart, ProceedCart DEF CallStep
<1>5. CASE \/ \E amount \in Adjustments : Adjust(amount) \/ ResolveRma(amount)
           \/ \E i \in DOMAIN log : Reverse(i)
           \/ DrawerRead \/ DrawerWrite
  BY <1>1, <1>5 DEF Adjust, ResolveRma, Reverse, DrawerRead, DrawerWrite, checkoutVars
<1> QED BY <1>2, <1>3, <1>4, <1>5 DEF Next

LEMMA CartIsInvariant == Spec => []CartInv
<1>1. Init => CartInv
  BY DEF Init, CartInv, Busy, Disjoint
<1> QED BY <1>1, CartNext, CheckoutTypes, PTL DEF Spec

(***************************************************************************)
(* However often a customer submits again, after errors, lost answers and  *)
(* crashes, no item is in two orders, unless checkouts overlap.            *)
(***************************************************************************)
THEOREM ItemsBoughtOnce == Spec => []CartBoughtOnce
<1>1. CartInv => CartBoughtOnce
  BY DEF CartInv, CartBoughtOnce, Disjoint
<1> QED BY <1>1, CartIsInvariant, PTL

(***************************************************************************)
(* The credit account.  Every entry moves the balance, and both the        *)
(* balance and what an open drawer will write back were the balance after  *)
(* some entry.                                                             *)
(***************************************************************************)

\* The ledger as CreditAccount has it.
Recorded(history) ==
    [i \in DOMAIN history |-> [amount |-> history[i].amount, after |-> history[i].after]]

Balances(history) == {0} \cup {history[i].after : i \in DOMAIN history}

AccountInv ==
    /\ \A i \in DOMAIN log : log[i].amount # 0
    /\ credit \in Balances(log)
    /\ drawer # Closed => "drawer" \in others /\ drawer \in Balances(log)

LEMMA AccountKnown == Account!Known = Balances(log)
  BY DEF Account!Known, Balances

LEMMA PostRefines ==
  ASSUME TypeOK, AccountInv,
         NEW history \in Seq(Entry), NEW amount \in Int \ {0},
         NEW order, NEW standing,
         PostEntry(history, amount, order, standing),
         Len(history) = Len(log),
         \A i \in 1..Len(log) : /\ history[i].amount = log[i].amount
                                /\ history[i].after = log[i].after,
         UNCHANGED <<drawer, others>>
  PROVE  Account!Post /\ AccountInv'
<1> DEFINE e == [amount |-> amount, after |-> credit + amount, order |-> order,
                 standing |-> standing]
<1>1. /\ credit' = credit + amount /\ credit + amount >= 0
      /\ log' = Append(history, e)
  BY DEF PostEntry
<1>2. credit \in Nat /\ log \in Seq(Entry) /\ Len(log) \in Nat
  BY DEF TypeOK
<1>3. e.amount = amount /\ e.after = credit + amount
  OBVIOUS
<1> HIDE DEF e
<1>4. /\ DOMAIN log = 1..Len(log)
      /\ DOMAIN log' = 1..(Len(log) + 1)
      /\ \A i \in 1..Len(log) : log'[i] = history[i]
      /\ log'[Len(log) + 1] = e
  BY <1>1, <1>2
<1>5. Recorded(log') = Append(Recorded(log), [amount |-> amount, after |-> credit + amount])
  <2> DEFINE n == Len(log)
             T == [amount : Int, after : Nat]
             r == [amount |-> amount, after |-> credit + amount]
             f == [i \in 1..n |-> [amount |-> log[i].amount, after |-> log[i].after]]
             X(i) == [amount |-> log'[i].amount, after |-> log'[i].after]
  <2>1. f = Recorded(log)
    BY <1>4 DEF Recorded
  <2>2. Recorded(log') = [i \in 1..(n + 1) |-> X(i)]
    BY <1>4 DEF Recorded
  <2>3. \A i \in 1..n : log[i] \in Entry
    BY <1>2
  <2>4. f \in [1..n -> T]
    BY <2>3 DEF Entry
  <2>5. \A i \in 1..n : X(i) = f[i]
    BY <1>4
  <2>6. X(n + 1) = r
    BY <1>2, <1>3, <1>4
  <2>7. r \in T
    BY <1>1, <1>2
  <2> HIDE DEF f, r, X, T
  <2>8. f \in Seq(T) /\ Len(f) = n
    BY <1>2, <2>4
  <2>9. /\ Append(f, r) \in Seq(T) /\ Len(Append(f, r)) = n + 1
        /\ \A i \in 1..n : Append(f, r)[i] = f[i]
        /\ Append(f, r)[n + 1] = r
    BY <1>2, <2>7, <2>8, AppendProperties
  <2> DEFINE g == [i \in 1..(n + 1) |-> X(i)]
  <2>10. \A i \in 1..(n + 1) : X(i) \in T /\ X(i) = Append(f, r)[i]
    <3> SUFFICES ASSUME NEW i \in 1..(n + 1) PROVE X(i) \in T /\ X(i) = Append(f, r)[i]
      OBVIOUS
    <3>1. i \in 1..n \/ i = n + 1
      BY <1>2
    <3> QED BY <2>4, <2>5, <2>6, <2>7, <2>9, <3>1
  <2>11. g \in Seq(T) /\ Len(g) = n + 1 /\ \A i \in 1..(n + 1) : g[i] = X(i)
    BY <1>2, <2>10
  <2> HIDE DEF g
  <2>12. g = Append(f, r)
    BY <2>9, <2>10, <2>11, SeqEqual
  <2>13. Recorded(log') = Append(f, r)
    BY <2>2, <2>12 DEF g
  <2> QED BY <2>1, <2>13 DEF r
<1>6. Account!Post
  <2>1. credit' \in Nat /\ credit' # credit /\ credit' - credit = amount
    BY <1>1, <1>2
  <2>2. Recorded(log)' = Append(Recorded(log), [amount |-> credit' - credit, after |-> credit'])
    BY <1>1, <1>5, <2>1 DEF Recorded
  <2> QED BY <2>1, <2>2 DEF Account!Post, Recorded
<1>7. \A i \in DOMAIN log' : log'[i].amount # 0
  BY <1>2, <1>3, <1>4 DEF AccountInv
<1>8. Balances(log) \subseteq Balances(log') /\ credit' \in Balances(log')
  BY <1>1, <1>2, <1>3, <1>4 DEF Balances
<1> QED BY <1>6, <1>7, <1>8 DEF AccountInv

LEMMA AccountStutters ==
  ASSUME AccountInv, UNCHANGED <<credit, log, drawer, others>>
  PROVE  UNCHANGED Account!accountVars /\ AccountInv'
  BY DEF AccountInv, Account!accountVars, Balances

LEMMA AccountNext ==
  ASSUME TypeOK, AccountInv, [Next]_vars
  PROVE  [Account!Next]_(Account!accountVars) /\ AccountInv'
<1> DEFINE Goal == [Account!Next]_(Account!accountVars) /\ AccountInv'
<1> USE DEF TypeOK
<1>1. CASE UNCHANGED vars
  BY <1>1, AccountStutters DEF vars, creditVars
<1>2. ASSUME NEW i \in Items, AddToCart(i) \/ RemoveFromCart(i) PROVE Goal
  BY <1>2, AccountStutters DEF AddToCart, RemoveFromCart, creditVars
<1>3. ASSUME NEW c \in Calls, CallStep(c), ~ Commit(c) PROVE Goal
  <2>1. UNCHANGED <<creditVars, others>>
    BY <1>3, CallType1 DEF CallStep, Submit, Quote, CheckQuota, OpenSession, Refuse,
       DeletePromotion, Die, Goto
  <2> QED BY <2>1, AccountStutters DEF creditVars
<1>4. ASSUME NEW c \in Calls, Commit(c) PROVE Goal
  <2>1. UNCHANGED <<drawer, others>> /\ Redeem(c) /\ call[c].credit \in Nat
    BY <1>4 DEF Commit
  <2>2. CASE call[c].credit = 0
    BY <2>1, <2>2, AccountStutters DEF Redeem
  <2>3. CASE call[c].credit # 0
    <3>1. PostEntry(log, - call[c].credit, c, TRUE)
      BY <2>1, <2>3 DEF Redeem
    <3>2. - call[c].credit \in Int \ {0}
      BY <2>1, <2>3
    <3>3. log \in Seq(Entry)
      OBVIOUS
    <3>4. Account!Post /\ AccountInv'
      BY <2>1, <3>1, <3>2, <3>3, PostRefines
    <3> QED BY <3>4 DEF Account!Next
  <2> QED BY <2>2, <2>3
<1>5. ASSUME NEW amount \in Adjustments, Adjust(amount) \/ ResolveRma(amount) PROVE Goal
  <2>1. /\ PostEntry(log, amount, NoOrder, TRUE)
        /\ amount \in Int \ {0}
        /\ UNCHANGED <<drawer, others>>
    BY <1>5, CheckoutAssumption DEF Adjust, ResolveRma, checkoutVars
  <2>2. Account!Post /\ AccountInv'
    BY <2>1, PostRefines
  <2> QED BY <2>2 DEF Account!Next
<1>6. ASSUME NEW i \in DOMAIN log, Reverse(i) PROVE Goal
  <2> DEFINE history == [log EXCEPT ![i] = [log[i] EXCEPT !.standing = FALSE]]
  <2>1. i \in 1..Len(log) /\ log[i] \in Entry
    OBVIOUS
  <2>0. [log[i] EXCEPT !.standing = FALSE] \in Entry
    BY <2>1 DEF Entry
  <2>2. /\ history \in Seq(Entry) /\ Len(history) = Len(log)
        /\ \A j \in 1..Len(log) :
             history[j] = IF j = i THEN [log[i] EXCEPT !.standing = FALSE] ELSE log[j]
    BY <2>0, <2>1, ExceptSeq
  <2>3. \A j \in 1..Len(log) : /\ history[j].amount = log[j].amount
                               /\ history[j].after = log[j].after
    BY <2>1, <2>2 DEF Entry
  <2>4. /\ PostEntry(history, - log[i].amount, log[i].order, FALSE)
        /\ UNCHANGED <<drawer, others>>
    BY <1>6 DEF Reverse, checkoutVars
  <2>5. - log[i].amount \in Int \ {0}
    BY <2>1 DEF Entry, AccountInv
  <2> HIDE DEF history
  <2>6. Account!Post /\ AccountInv'
    BY <2>2, <2>3, <2>4, <2>5, PostRefines
  <2> QED BY <2>6 DEF Account!Next
<1>7. CASE DrawerRead
  BY <1>7 DEF DrawerRead, checkoutVars, AccountInv, Account!accountVars, Balances
<1>8. CASE DrawerWrite
  BY <1>8, AccountKnown DEF DrawerWrite, checkoutVars, AccountInv, Account!Next,
     Account!Restore, Balances
<1> QED BY <1>1, <1>2, <1>3, <1>4, <1>5, <1>6, <1>7, <1>8 DEF Next

(***************************************************************************)
(* Checkouts, staff, complaints and the approval drawer keep the account   *)
(* that CreditAccount specifies: every step of theirs posts an entry,      *)
(* restores a balance there has been, or leaves it alone.                  *)
(***************************************************************************)
THEOREM AccountIsKept == Spec => KeepsAccount
<1>1. Init => Account!Init /\ AccountInv
  BY DEF Init, Account!Init, AccountInv, Balances
<1> QED
  BY <1>1, AccountNext, CheckoutTypes, PTL DEF Spec, KeepsAccount, Account!Spec

LEMMA RecordedSeq ==
  ASSUME NEW history \in Seq(Entry)
  PROVE  Recorded(history) \in Seq([amount : Int, after : Nat])
<1>1. DOMAIN history = 1..Len(history) /\ Len(history) \in Nat
  OBVIOUS
<1>2. ASSUME NEW i \in 1..Len(history)
      PROVE  history[i].amount \in Int /\ history[i].after \in Nat
  <2>1. history[i] \in Entry
    BY <1>1
  <2> QED BY <2>1 DEF Entry
<1> DEFINE n == Len(history)
           T == [amount : Int, after : Nat]
           s == Recorded(history)
<1>3. s \in [1..n -> T]
  BY <1>1, <1>2 DEF Recorded
<1>4. n \in Nat
  BY <1>1
<1> HIDE DEF n, T, s
<1>5. s \in Seq(T)
  BY <1>3, <1>4
<1> QED BY <1>5 DEF T, s

\* A step of CreditAccount keeps the chain, whatever its ledger is made of.
LEMMA ChainNext ==
  ASSUME NEW T, Recorded(log) \in Seq(T), Recorded(log)' \in Seq(T), credit \in Int,
         credit' \in Int, Account!Chained, [Account!Next]_(Account!accountVars)
  PROVE  Account!Chained'
<1> DEFINE s == Recorded(log)
<1>1. Account!Chained <=>
        ("drawer" \notin others =>
           /\ \A i \in DOMAIN s : s[i].after = (IF i = 1 THEN 0 ELSE s[i - 1].after) + s[i].amount
           /\ credit = IF Len(s) + 1 = 1 THEN 0 ELSE s[Len(s) + 1 - 1].after)
  BY DEF Account!Chained, Account!Before, Recorded
<1>2. Account!Chained' <=>
        ("drawer" \notin others' =>
           /\ \A i \in DOMAIN s' :
                s'[i].after = (IF i = 1 THEN 0 ELSE s'[i - 1].after) + s'[i].amount
           /\ credit' = IF Len(s') + 1 = 1 THEN 0 ELSE s'[Len(s') + 1 - 1].after)
  BY DEF Account!Chained, Account!Before, Recorded
<1>3. CASE UNCHANGED Account!accountVars
  <2>1. s' = s /\ credit' = credit /\ ("drawer" \in others' <=> "drawer" \in others)
    BY <1>3 DEF Account!accountVars, Recorded
  <2> HIDE DEF s
  <2> QED BY <1>1, <1>2, <2>1
<1>4. CASE Account!Post
  <2> DEFINE e == [amount |-> credit' - credit, after |-> credit']
  <2>1. s' = Append(s, e) /\ ("drawer" \in others' <=> "drawer" \in others)
    BY <1>4 DEF Account!Post, Recorded
  <2>2. e.amount = credit' - credit /\ e.after = credit'
    OBVIOUS
  <2>3. s \in Seq(T) /\ s' \in Seq(T)
    OBVIOUS
  <2> HIDE DEF s, e
  <2>4. /\ Len(s) \in Nat /\ Len(s') = Len(s) + 1
        /\ DOMAIN s = 1..Len(s) /\ DOMAIN s' = 1..(Len(s) + 1)
        /\ \A i \in 1..Len(s) : s'[i] = s[i]
        /\ s'[Len(s) + 1] = e
    BY <2>1, <2>3
  <2>5. ASSUME "drawer" \notin others', NEW i \in 1..(Len(s) + 1)
        PROVE  s'[i].after = (IF i = 1 THEN 0 ELSE s'[i - 1].after) + s'[i].amount
    <3>1. CASE i = Len(s) + 1
      <4>1. credit = IF i = 1 THEN 0 ELSE s[i - 1].after
        BY <1>1, <2>1, <2>5, <3>1
      <4>2. i # 1 => s'[i - 1] = s[i - 1]
        BY <2>4, <3>1
      <4>3. credit = IF i = 1 THEN 0 ELSE s'[i - 1].after
        BY <4>1, <4>2
      <4> QED BY <2>2, <2>4, <3>1, <4>3
    <3>2. CASE i # Len(s) + 1
      <4>1. i \in 1..Len(s) /\ (i # 1 => i - 1 \in 1..Len(s))
        BY <2>4, <3>2
      <4> QED BY <1>1, <2>1, <2>4, <2>5, <4>1
    <3> QED BY <3>1, <3>2
  <2> QED BY <1>2, <2>2, <2>4, <2>5
<1>5. CASE Account!Restore
  BY <1>2, <1>5 DEF Account!Restore
<1> QED BY <1>3, <1>4, <1>5 DEF Account!Next

(***************************************************************************)
(* Without the approval drawer, every entry of the ledger continues from   *)
(* the one before it and the last one has the customer's balance, however  *)
(* checkouts overlap and staff issue, deduct and reverse.                  *)
(***************************************************************************)
THEOREM LedgerIsChained == Spec => []Account!Chained
<1>1. Init => Account!Chained
  BY DEF Init, Account!Chained, Account!Before
<1>2. TypeOK /\ TypeOK' /\ AccountInv /\ Account!Chained /\ [Next]_vars
        => Account!Chained' /\ AccountInv'
  <2> SUFFICES ASSUME TypeOK, TypeOK', AccountInv, Account!Chained, [Next]_vars
               PROVE  Account!Chained' /\ AccountInv'
    OBVIOUS
  <2>1. [Account!Next]_(Account!accountVars) /\ AccountInv'
    BY AccountNext
  <2>2. Recorded(log)' \in Seq([amount : Int, after : Nat])
    <3>1. log' \in Seq(Entry)
      BY DEF TypeOK
    <3>2. Recorded(log') \in Seq([amount : Int, after : Nat])
      BY <3>1, RecordedSeq
    <3> QED BY <3>2 DEF Recorded
  <2>3. credit \in Int /\ credit' \in Int
    BY DEF TypeOK
  <2>4. Recorded(log) \in Seq([amount : Int, after : Nat])
    <3>1. log \in Seq(Entry)
      BY DEF TypeOK
    <3> QED BY <3>1, RecordedSeq
  <2> HIDE DEF TypeOK, AccountInv
  <2>5. Account!Chained'
    BY <2>1, <2>2, <2>3, <2>4, ChainNext
  <2> QED BY <2>1, <2>5
<1>3. Init => AccountInv
  BY DEF Init, AccountInv, Balances
<1> QED BY <1>1, <1>2, <1>3, CheckoutTypes, PTL DEF Spec

(***************************************************************************)
(* What the entries that stand add up to.                                  *)
(***************************************************************************)

StandingIn(history) == {i \in DOMAIN history : history[i].standing}

Tally(history) == SumFunction([i \in StandingIn(history) |-> history[i].amount])

LEMMA TallyFacts ==
  ASSUME NEW history \in Seq(Entry)
  PROVE  /\ DOMAIN history = 1..Len(history) /\ Len(history) \in Nat
         /\ IsFiniteSet(StandingIn(history)) /\ StandingIn(history) \subseteq 1..Len(history)
         /\ \A i \in 1..Len(history) : history[i] \in Entry /\ history[i].amount \in Int
         /\ Tally(history) = Sum([i \in StandingIn(history) |-> history[i].amount],
                                 StandingIn(history))
         /\ Tally(history) \in Int
<1>1. DOMAIN history = 1..Len(history) /\ Len(history) \in Nat
  OBVIOUS
<1>2. IsFiniteSet(1..Len(history)) /\ StandingIn(history) \subseteq 1..Len(history)
  BY <1>1, FS_Interval DEF StandingIn
<1>3. IsFiniteSet(StandingIn(history))
  BY <1>2, FS_Subset
<1>4. \A i \in 1..Len(history) : history[i] \in Entry /\ history[i].amount \in Int
  <2>1. \A i \in 1..Len(history) : history[i] \in Entry
    BY <1>1
  <2> QED  BY <2>1 DEF Entry
<1> DEFINE f == [i \in StandingIn(history) |-> history[i].amount]
<1>5. Tally(history) = Sum(f, StandingIn(history))
  BY DEF Tally, SumFunction, Sum
<1>6. \A i \in StandingIn(history) : f[i] \in Int
  BY <1>2, <1>4
<1> HIDE DEF f
<1>7. Tally(history) \in Int
  BY <1>3, <1>5, <1>6, SumInt
<1> QED  BY <1>1, <1>2, <1>3, <1>4, <1>5, <1>7 DEF f

\* A new entry adds its amount, if it stands.
LEMMA TallyAppend ==
  ASSUME NEW history \in Seq(Entry), NEW e \in Entry
  PROVE  Tally(Append(history, e)) = Tally(history) + (IF e.standing THEN e.amount ELSE 0)
<1> DEFINE longer == Append(history, e)
           n == Len(history) + 1
           f == [i \in StandingIn(history) |-> history[i].amount]
           g == [i \in StandingIn(longer) |-> longer[i].amount]
<1>1. /\ longer \in Seq(Entry) /\ DOMAIN longer = 1..n /\ n \in Nat \ {0}
      /\ DOMAIN history = 1..(n - 1) /\ longer[n] = e
      /\ \A i \in 1..(n - 1) : longer[i] = history[i]
  OBVIOUS
<1>2. e.amount \in Int
  BY DEF Entry
<1> HIDE DEF longer, n
<1>3. n \notin StandingIn(history) /\ StandingIn(history) \subseteq 1..(n - 1)
  BY <1>1 DEF StandingIn
<1>4. \A i \in StandingIn(history) : i \in StandingIn(longer) /\ g[i] = f[i] /\ f[i] \in Int
  <2>1. \A i \in 1..(n - 1) : history[i].amount \in Int
    BY <1>1, TallyFacts
  <2> QED  BY <1>1, <1>3, <2>1 DEF StandingIn
<1>5. /\ IsFiniteSet(StandingIn(history)) /\ Tally(history) = Sum(f, StandingIn(history))
      /\ Tally(longer) = Sum(g, StandingIn(longer)) /\ Tally(history) \in Int
  BY <1>1, TallyFacts
<1>6. CASE e.standing
  <2>0. DOMAIN longer = DOMAIN history \cup {n} /\ longer[n].standing /\ longer[n].amount = e.amount
    BY <1>1, <1>6
  <2>1. StandingIn(longer) = StandingIn(history) \cup {n} /\ g[n] = e.amount
    <3>1. \A i \in DOMAIN history : longer[i] = history[i]
      BY <1>1
    <3>2. StandingIn(longer) = StandingIn(history) \cup {n}
      BY <2>0, <3>1 DEF StandingIn
    <3> QED  BY <2>0, <3>2
  <2> HIDE DEF f, g
  <2>2. Sum(g, StandingIn(history) \cup {n}) = g[n] + Sum(g, StandingIn(history))
    BY <1>2, <1>3, <1>4, <1>5, <2>1, SumAdd
  <2>3. Sum(g, StandingIn(history)) = Sum(f, StandingIn(history))
    BY <1>4, <1>5, SumSame
  <2>4. Tally(longer) = Tally(history) + e.amount
    BY <1>2, <1>5, <2>1, <2>2, <2>3
  <2> QED  BY <1>6, <2>4 DEF longer
<1>7. CASE ~ e.standing
  <2>1. StandingIn(longer) = StandingIn(history)
    BY <1>1, <1>7 DEF StandingIn
  <2> HIDE DEF f, g
  <2>2. Sum(g, StandingIn(history)) = Sum(f, StandingIn(history))
    BY <1>4, <1>5, SumSame
  <2>3. Tally(longer) = Tally(history) + 0
    BY <1>5, <2>1, <2>2
  <2> QED  BY <1>7, <2>3 DEF longer
<1> QED  BY <1>6, <1>7

\* An entry that is reversed does not stand any more.
LEMMA TallyReverse ==
  ASSUME NEW history \in Seq(Entry), NEW i \in DOMAIN history, history[i].standing
  PROVE  /\ [history EXCEPT ![i].standing = FALSE] \in Seq(Entry)
         /\ Tally([history EXCEPT ![i].standing = FALSE]) = Tally(history) - history[i].amount
<1> DEFINE left == [history EXCEPT ![i].standing = FALSE]
           f == [j \in StandingIn(history) |-> history[j].amount]
           g == [j \in StandingIn(left) |-> left[j].amount]
<1>1. i \in 1..Len(history) /\ history[i] \in Entry
  OBVIOUS
<1>2. [history[i] EXCEPT !.standing = FALSE] \in Entry
  BY <1>1 DEF Entry
<1>3. left = [history EXCEPT ![i] = [history[i] EXCEPT !.standing = FALSE]]
  OBVIOUS
<1>4. /\ left \in Seq(Entry) /\ DOMAIN left = DOMAIN history
      /\ left[i] = [history[i] EXCEPT !.standing = FALSE]
      /\ \A j \in DOMAIN history \ {i} : left[j] = history[j]
  BY <1>1, <1>2, <1>3, ExceptSeq
<1>5. ~ left[i].standing /\ \A j \in DOMAIN history : left[j].amount = history[j].amount
  BY <1>1, <1>4 DEF Entry
<1> HIDE DEF left
<1>6. StandingIn(left) = StandingIn(history) \ {i} /\ i \in StandingIn(history)
  BY <1>4, <1>5 DEF StandingIn
<1>7. /\ IsFiniteSet(StandingIn(history)) /\ IsFiniteSet(StandingIn(left))
      /\ Tally(history) = Sum(f, StandingIn(history))
      /\ Tally(left) = Sum(g, StandingIn(left)) /\ Tally(left) \in Int /\ Tally(history) \in Int
  BY <1>4, TallyFacts
<1>8. /\ \A j \in StandingIn(left) : g[j] = f[j]
      /\ f[i] = history[i].amount /\ \A j \in StandingIn(history) : f[j] \in Int
  <2>1. \A j \in DOMAIN history : history[j].amount \in Int
    BY TallyFacts
  <2> QED  BY <1>5, <1>6, <2>1 DEF StandingIn
<1> HIDE DEF f, g
<1>9. Sum(f, StandingIn(history)) = f[i] + Sum(f, StandingIn(history) \ {i})
  BY <1>6, <1>7, <1>8, SumRemove
<1>10. Sum(g, StandingIn(left)) = Sum(f, StandingIn(left))
  BY <1>7, <1>8, SumSame
<1>11. Tally(left) = Tally(history) - history[i].amount
  <2>1. history[i].amount \in Int
    BY <1>6, <1>8
  <2> QED  BY <1>6, <1>7, <1>8, <1>9, <1>10, <2>1
<1> QED  BY <1>4, <1>11 DEF left

LEMMA PostTallied ==
  ASSUME TypeOK, NEW history \in Seq(Entry), NEW amount \in Int,
         NEW order \in Calls \cup {NoOrder}, NEW standing \in BOOLEAN,
         PostEntry(history, amount, order, standing),
         credit = Tally(history) + (IF standing THEN 0 ELSE - amount)
  PROVE  credit' = Tally(log')
<1> DEFINE e == [amount |-> amount, after |-> credit + amount, order |-> order,
                 standing |-> standing]
<1>1. credit' = credit + amount /\ log' = Append(history, e) /\ credit \in Nat
  BY DEF PostEntry, TypeOK
<1>2. e \in Entry /\ e.amount = amount /\ e.standing = standing
  BY DEF PostEntry, TypeOK, Entry
<1> HIDE DEF e
<1>3. Tally(log') = Tally(history) + (IF standing THEN amount ELSE 0)
  BY <1>1, <1>2, TallyAppend
<1>4. Tally(history) \in Int
  BY TallyFacts
<1> QED  BY <1>1, <1>3, <1>4

Conserved == "drawer" \notin others => drawer = Closed /\ credit = Tally(log)

LEMMA ConservedNext ==
  ASSUME TypeOK, Conserved, [Next]_vars
  PROVE  Conserved'
<1> USE DEF Conserved
<1>0. log \in Seq(Entry) /\ credit \in Nat /\ others' = others
  BY DEF TypeOK, Next, CallStep, Submit, Quote, CheckQuota, OpenSession, Commit, Refuse,
     DeletePromotion, Die, AddToCart, RemoveFromCart, Adjust, ResolveRma, Reverse,
     DrawerRead, DrawerWrite, checkoutVars, vars
<1> SUFFICES ASSUME "drawer" \notin others PROVE drawer' = Closed /\ credit' = Tally(log')
  BY <1>0 DEF Tally, StandingIn
<1>1. Tally(log) \in Int
  BY <1>0, TallyFacts
<1>2. ASSUME UNCHANGED creditVars PROVE drawer' = Closed /\ credit' = Tally(log')
  BY <1>2 DEF creditVars
<1>3. ASSUME NEW c \in Calls, CallStep(c) PROVE drawer' = Closed /\ credit' = Tally(log')
  <2>1. CASE Commit(c)
    <3>1. drawer' = drawer /\ Redeem(c) /\ - call[c].credit \in Int
      BY <2>1 DEF Commit, TypeOK
    <3>2. CASE call[c].credit = 0
      BY <3>1, <3>2 DEF Redeem
    <3>3. CASE call[c].credit # 0
      <4>1. PostEntry(log, - call[c].credit, c, TRUE)
        BY <3>1, <3>3 DEF Redeem
      <4>2. credit = Tally(log) + (IF TRUE THEN 0 ELSE - (- call[c].credit))
        BY <1>1
      <4>3. credit' = Tally(log')
        BY <1>0, <3>1, <4>1, <4>2, PostTallied
      <4> QED  BY <3>1, <4>3
    <3> QED  BY <3>2, <3>3
  <2>2. CASE ~ Commit(c)
    BY <1>2, <1>3, <2>2, CallType1
  <2> QED  BY <2>1, <2>2
<1>4. ASSUME NEW amount \in Adjustments, Adjust(amount) \/ ResolveRma(amount)
      PROVE  drawer' = Closed /\ credit' = Tally(log')
  <2>1. PostEntry(log, amount, NoOrder, TRUE) /\ drawer' = drawer /\ amount \in Int
    BY <1>4, CheckoutAssumption DEF Adjust, ResolveRma
  <2>2. credit = Tally(log) + (IF TRUE THEN 0 ELSE - amount)
    BY <1>1
  <2>3. credit' = Tally(log')
    BY <1>0, <2>1, <2>2, PostTallied
  <2> QED  BY <2>1, <2>3
<1>5. ASSUME NEW i \in DOMAIN log, Reverse(i) PROVE drawer' = Closed /\ credit' = Tally(log')
  <2> DEFINE left == [log EXCEPT ![i].standing = FALSE]
  <2>1. /\ PostEntry(left, - log[i].amount, log[i].order, FALSE)
        /\ drawer' = drawer /\ log[i].standing
    BY <1>5 DEF Reverse
  <2>2. log[i].amount \in Int /\ log[i].order \in Calls \cup {NoOrder}
    <3>1. log[i] \in Entry
      BY <1>0
    <3> QED  BY <3>1 DEF Entry
  <2>3. left \in Seq(Entry) /\ Tally(left) = Tally(log) - log[i].amount
    BY <1>0, <2>1, TallyReverse
  <2> HIDE DEF left
  <2>4. - log[i].amount \in Int /\ credit = Tally(left) + (IF FALSE THEN 0 ELSE - (- log[i].amount))
    BY <1>1, <2>2, <2>3
  <2> QED  BY <2>1, <2>2, <2>3, <2>4, PostTallied
<1>6. CASE DrawerRead \/ DrawerWrite
  BY <1>6 DEF DrawerRead, DrawerWrite
<1> QED
  BY <1>2, <1>3, <1>4, <1>5, <1>6 DEF Next, vars, AddToCart, RemoveFromCart

(***************************************************************************)
(* Without the approval drawer, the balance is what the entries that stand *)
(* add up to, however checkouts overlap and staff issue, deduct and        *)
(* reverse: nothing is redeemed, issued or reversed twice.                 *)
(***************************************************************************)
THEOREM CreditIsConserved == Spec => []CreditConserved
<1>1. Init => Conserved
  <2> SUFFICES ASSUME Init PROVE credit = Tally(log) /\ drawer = Closed
    BY DEF Conserved
  <2>1. StandingIn(log) = {} /\ credit = 0 /\ log \in Seq(Entry) /\ drawer = Closed
    BY DEF Init, StandingIn
  <2> QED  BY <2>1, TallyFacts, SumEmpty
<1>2. Conserved => CreditConserved
  BY DEF Conserved, CreditConserved, Tally, StandingIn, Standing
<1> QED  BY <1>1, <1>2, ConservedNext, CheckoutTypes, PTL DEF Spec

(***************************************************************************)
(* The order limit.  While checkouts do not overlap, nothing is placed     *)
(* between a checkout's count of the orders and its transaction.           *)
(***************************************************************************)

Checked(c) == call[c].pc \in {"session", "commit"}

QuotaInv ==
    "overlap" \notin others =>
       /\ IsFiniteSet(placed)
       /\ Cardinality(placed) <= limit
       /\ \A c \in Calls : Checked(c) => WithinQuota

LEMMA QuotaNext ==
  ASSUME TypeOK, CartInv, QuotaInv, [Next]_vars
  PROVE  QuotaInv'
<1> USE DEF TypeOK, QuotaInv, Checked, WithinQuota
<1>1. ASSUME UNCHANGED <<call, placed, others, limit>> PROVE QuotaInv'
  BY <1>1
<1>2. ASSUME NEW c \in Calls, Commit(c) PROVE QuotaInv'
  <2>1. /\ placed' = placed \cup {c} /\ UNCHANGED <<others, limit>>
        /\ Busy(c) /\ Checked(c)
        /\ call'[c].pc \in {"after", "done"} /\ \A d \in Calls \ {c} : call'[d] = call[d]
    BY <1>2 DEF Commit, Goto, Busy
  <2> SUFFICES ASSUME "overlap" \notin others PROVE QuotaInv'
    BY <2>1
  <2>2. \A d \in Calls : ~ Checked(d)'
    <3>1. \A d \in Calls : Checked(d) => d = c
      BY <2>1 DEF CartInv, Busy
    <3> QED  BY <2>1, <3>1
  <2>3. c \notin placed /\ IsFiniteSet(placed)
    BY <2>1 DEF CartInv
  <2>4. IsFiniteSet(placed') /\ Cardinality(placed') = Cardinality(placed) + 1
    BY <2>1, <2>3, FS_AddElement
  <2> QED  BY <2>1, <2>2, <2>4
<1>3. ASSUME NEW c \in Calls, CallStep(c), ~ Commit(c) PROVE QuotaInv'
  <2>1. placed' = placed
    BY <1>3, CallType1
  <2>2. /\ UNCHANGED <<others, limit>>
        /\ \A d \in Calls \ {c} : call'[d] = call[d]
        /\ Checked(c)' => Checked(c) \/ WithinQuota
    BY <1>3 DEF CallStep, Submit, Quote, CheckQuota, OpenSession, Refuse, DeletePromotion,
       Die, Goto
  <2> QED  BY <2>1, <2>2
<1> QED
  BY <1>1, <1>2, <1>3 DEF Next, vars, AddToCart, RemoveFromCart, Adjust, ResolveRma,
     Reverse, DrawerRead, DrawerWrite, checkoutVars

(***************************************************************************)
(* Checkouts that do not overlap keep the plan's order limit, although     *)
(* they count the orders before they place one.                            *)
(***************************************************************************)
THEOREM QuotaIsKept == Spec => []QuotaKept
<1>1. Init => QuotaInv
  BY FS_EmptySet, CheckoutAssumption DEF Init, QuotaInv, Checked
<1>2. QuotaInv => QuotaKept
  BY DEF QuotaInv, QuotaKept
<1> QED  BY <1>1, <1>2, QuotaNext, CartIsInvariant, CheckoutTypes, PTL DEF Spec

(***************************************************************************)
(* No step takes an item out of the cart but the customer's own and the    *)
(* transaction that orders it.                                             *)
(***************************************************************************)
THEOREM CartIsKept == Spec => CartKept
<1>1. ASSUME TypeOK, CartInv, [Next]_vars, cart \ cart' # {}
      PROVE  UNCHANGED call \/ \E c \in placed' \ placed : cart \ cart' \subseteq call[c].items
  <2>1. ASSUME NEW c \in Calls, CallStep(c)
        PROVE  \E d \in placed' \ placed : cart \ cart' \subseteq call[d].items
    <3>1. Commit(c)
      BY <1>1, <2>1 DEF CallStep, Submit, Quote, CheckQuota, OpenSession, Refuse,
         DeletePromotion, Die
    <3>2. placed' = placed \cup {c} /\ cart' = cart \ call[c].items /\ Busy(c)
      BY <3>1 DEF Commit, RemainingCart, Busy
    <3>3. c \notin placed
      BY <1>1, <3>2 DEF CartInv
    <3> QED  BY <3>2, <3>3
  <2> QED
    BY <1>1, <2>1 DEF Next, vars, AddToCart, RemoveFromCart, Adjust, ResolveRma, Reverse,
       DrawerRead, DrawerWrite, checkoutVars
<1> QED  BY <1>1, CartIsInvariant, CheckoutTypes, PTL DEF Spec, CartKept
=============================================================================
