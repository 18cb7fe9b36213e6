--------------------------- MODULE StoreCheckout ---------------------------
(***************************************************************************)
(* A customer's checkouts (createStoreOrder of                             *)
(* apps/store/lib/orders/create-order.server.ts), which read the cart, the *)
(* customer, the promotion and the order quota one after the other and     *)
(* place the order in one transaction; and everyone else who writes the    *)
(* customer's store credit.                                                *)
(*                                                                         *)
(* Prices: an item costs one, the promotion takes one off the order.       *)
(* Delivery, taxes, currencies, payment types, the order's number (see     *)
(* OrderNumbers) and refusals that depend on them are left out, and so are *)
(* notifications and files.  An item takes one unit of the same stock.     *)
(***************************************************************************)
EXTENDS Integers, Sequences, FiniteSets, Functions

CONSTANTS
    Calls,         \* calls of createStoreOrder
    Items,         \* cart items
    StockTotal,    \* stock.total
    StockBlocks,   \* checkout.stockPolicy = "block"
    OrderLimits,   \* what the plan's maxOrdersPerMonth may be
    Adjustments,   \* amounts staff may issue or deduct
    MaxEntries,    \* bound on the credit ledger for staff
    Environments   \* which of OtherEffects there may be

\* Checkouts that overlap (two tabs, a second click), and the drawer in which
\* a business account is approved.
OtherEffects == {"overlap", "drawer"}

ASSUME CheckoutAssumption ==
    /\ IsFiniteSet(Items)
    /\ StockTotal \in Nat
    /\ StockBlocks \in BOOLEAN
    /\ OrderLimits \subseteq Nat
    /\ Adjustments \subseteq Int \ {0}
    /\ MaxEntries \in Nat
    /\ Environments \subseteq SUBSET OtherEffects

NoOrder == "none"
Closed == -1

ASSUME NoOrderAssumption == NoOrder \notin Calls

VARIABLES
    cart,       \* items in the cart
    bought,     \* items that were added to it
    call,       \* the checkouts
    placed,     \* those whose order exists
    allocated,  \* stock.allocated
    promotion,  \* does the one-time promotion exist?
    credit,     \* Customer.storeCreditBalance
    log,        \* storeCreditTransactions, oldest first
    rmaOpen,    \* is the customer's complaint unresolved?
    drawer,     \* the balance an open drawer has read, or Closed
    others,     \* which other effects there are: chosen once
    limit       \* the plan's maxOrdersPerMonth

creditVars == <<credit, log, rmaOpen, drawer>>
vars == <<cart, bought, call, placed, allocated, promotion, creditVars, others, limit>>

\* standing: neither reversed nor a reversal.
Entry == [amount : Int, after : Nat, order : Calls \cup {NoOrder}, standing : BOOLEAN]

Steps == {"idle", "quote", "quota", "session", "commit", "after", "done"}

TypeOK ==
    /\ cart \subseteq Items
    /\ bought \subseteq Items
    /\ call \in [Calls -> [pc : Steps, items : SUBSET Items, credit : Nat,
                           code : BOOLEAN, discounted : BOOLEAN]]
    /\ placed \subseteq Calls
    /\ allocated \in Nat
    /\ promotion \in BOOLEAN
    /\ credit \in Nat
    /\ log \in Seq(Entry)
    /\ rmaOpen \in BOOLEAN
    /\ drawer \in Nat \cup {Closed}
    /\ others \in Environments
    /\ limit \in OrderLimits

Init ==
    /\ cart = {}
    /\ bought = {}
    /\ call = [c \in Calls |-> [pc |-> "idle", items |-> {}, credit |-> 0,
                                code |-> FALSE, discounted |-> FALSE]]
    /\ placed = {}
    /\ allocated = 0
    /\ promotion = TRUE
    /\ credit = 0
    /\ log = <<>>
    /\ rmaOpen = TRUE
    /\ drawer = Closed
    /\ others \in Environments
    /\ limit \in OrderLimits

-----------------------------------------------------------------------------
(***************************************************************************)
(* The cart.                                                               *)
(***************************************************************************)

AddToCart(i) ==
    /\ i \notin bought
    /\ bought' = bought \cup {i}
    /\ cart' = cart \cup {i}
    /\ UNCHANGED <<call, placed, allocated, promotion, creditVars, others, limit>>

RemoveFromCart(i) ==
    /\ i \in cart
    /\ cart' = cart \ {i}
    /\ UNCHANGED <<bought, call, placed, allocated, promotion, creditVars, others, limit>>

-----------------------------------------------------------------------------
(***************************************************************************)
(* createStoreOrder.                                                       *)
(***************************************************************************)

Goto(c, pc) == call' = [call EXCEPT ![c].pc = pc]

Answered(c) == call[c].pc \in {"idle", "after", "done"}

\* The checkout reads the cart; CART_EMPTY otherwise.
Submit(c, amount, code) ==
    /\ call[c].pc = "idle"
    /\ "overlap" \in others \/ \A d \in Calls : Answered(d)
    /\ cart # {}
    /\ call' = [call EXCEPT ![c] = [pc |-> "quote", items |-> cart, credit |-> amount,
                                    code |-> code, discounted |-> FALSE]]
    /\ UNCHANGED <<cart, bought, placed, allocated, promotion, creditVars, others, limit>>

Units(c) == Cardinality(call[c].items)

TotalOf(c, discounted) == Units(c) - (IF discounted THEN 1 ELSE 0)

\* getPromotionsFromCodes and isStoreCreditRedemptionAllowed: a code that does
\* not exist any more is ignored; STORE_CREDIT_EXCEEDS_BALANCE.  The reads of the
\* customer and of the promotion are one step: the transaction reads the customer
\* again, and the promotion is not read later.
Quote(c) ==
    /\ call[c].pc = "quote"
    /\ LET discounted == call[c].code /\ promotion IN
       call' = [call EXCEPT
         ![c].discounted = discounted,
         ![c].pc = IF call[c].credit <= credit /\ call[c].credit <= TotalOf(c, discounted)
                   THEN "quota" ELSE "done"]
    /\ UNCHANGED <<cart, bought, placed, allocated, promotion, creditVars, others, limit>>

\* Mutant: the order that is to be placed is not counted.
WithinQuota_Equal == Cardinality(placed) <= limit

\* assertSaasRuntimeQuota, where the orders are counted when it is called.  (A
\* count the tenant document holds is taken instead; nothing here raises it.)
WithinQuota == Cardinality(placed) + 1 <= limit

CheckQuota(c) ==
    /\ call[c].pc = "quota"
    /\ Goto(c, IF WithinQuota THEN "session" ELSE "done")
    /\ UNCHANGED <<cart, bought, placed, allocated, promotion, creditVars, others, limit>>

\* createCheckoutSession, if anything is left to pay and the payment is an
\* external one; it may fail.
OpenSession(c) ==
    /\ call[c].pc = "session"
    /\ \/ Goto(c, "commit")
       \/ TotalOf(c, call[c].discounted) > call[c].credit /\ Goto(c, "done")
    /\ UNCHANGED <<cart, bought, placed, allocated, promotion, creditVars, others, limit>>

\* Mutant: a missing quantity is not noticed.
StockSuffices_Any(n) == StockTotal > allocated

\* reserveStoreCheckoutStockInTransaction.
StockSuffices(n) == StockTotal - allocated >= n

\* Mutant: the entry has the balance from before it.
PostEntry_BalanceBefore(history, amount, order, standing) ==
    /\ credit + amount >= 0
    /\ credit' = credit + amount
    /\ log' = Append(history, [amount |-> amount, after |-> credit,
                               order |-> order, standing |-> standing])

\* The balance is changed and an entry added to the ledger.
PostEntry(history, amount, order, standing) ==
    /\ credit + amount >= 0
    /\ credit' = credit + amount
    /\ log' = Append(history, [amount |-> amount, after |-> credit + amount,
                               order |-> order, standing |-> standing])

Redeem(c) ==
    IF call[c].credit = 0 THEN UNCHANGED <<credit, log>>
    ELSE PostEntry(log, - call[c].credit, c, TRUE)

\* Mutants: the whole cart is emptied; it is emptied by a later call.
RemainingCart_Nothing(c) == {}
RemainingCart_All(c) == cart

\* The cart items that were read are deleted.
RemainingCart(c) == cart \ call[c].items

CanCommit(c) ==
    /\ StockBlocks => StockSuffices(Units(c))
    /\ call[c].credit <= credit

\* The transaction.  The call may be killed before it answers.
Commit(c) ==
    /\ call[c].pc = "commit"
    /\ CanCommit(c)
    /\ placed' = placed \cup {c}
    /\ allocated' = IF StockBlocks THEN allocated + Units(c) ELSE allocated
    /\ Redeem(c)
    /\ cart' = RemainingCart(c)
    /\ Goto(c, "after") \/ Goto(c, "done")
    /\ UNCHANGED <<bought, promotion, rmaOpen, drawer, others, limit>>

\* INSUFFICIENT_STOCK, STORE_CREDIT_EXCEEDS_BALANCE.
Refuse(c) ==
    /\ call[c].pc = "commit"
    /\ ~ CanCommit(c)
    /\ Goto(c, "done")
    /\ UNCHANGED <<cart, bought, placed, allocated, promotion, creditVars, others, limit>>

\* deleteAppliedOneTimePromotions, after the answer.
DeletePromotion(c) ==
    /\ call[c].pc = "after"
    /\ promotion' = (promotion /\ ~ call[c].code)
    /\ Goto(c, "done")
    /\ UNCHANGED <<cart, bought, placed, allocated, creditVars, others, limit>>

\* The call is killed, or throws.
Die(c) ==
    /\ call[c].pc \notin {"idle", "done"}
    /\ Goto(c, "done")
    /\ UNCHANGED <<cart, bought, placed, allocated, promotion, creditVars, others, limit>>

-----------------------------------------------------------------------------
(***************************************************************************)
(* The other writers of the customer's store credit.                       *)
(***************************************************************************)

checkoutVars == <<cart, bought, call, placed, allocated, promotion, others, limit>>

\* Staff issue or deduct credit (CustomerStoreCreditPanel).
Adjust(amount) ==
    /\ Len(log) < MaxEntries
    /\ PostEntry(log, amount, NoOrder, TRUE)
    /\ UNCHANGED <<checkoutVars, rmaOpen, drawer>>

\* Mutant: reversalTransactionId is not written to the original entry.
Reverse_Again(i) ==
    /\ Len(log) < MaxEntries
    /\ log[i].standing
    /\ PostEntry(log, - log[i].amount, log[i].order, FALSE)
    /\ UNCHANGED <<checkoutVars, rmaOpen, drawer>>

\* ... or reverse an entry, once (reverseTransaction).
Reverse(i) ==
    /\ Len(log) < MaxEntries
    /\ log[i].standing
    /\ PostEntry([log EXCEPT ![i].standing = FALSE], - log[i].amount, log[i].order, FALSE)
    /\ UNCHANGED <<checkoutVars, rmaOpen, drawer>>

\* A complaint is resolved with credit (the transaction of resolveRmaRequest).
ResolveRma(amount) ==
    /\ rmaOpen
    /\ PostEntry(log, amount, NoOrder, TRUE)
    /\ rmaOpen' = FALSE
    /\ UNCHANGED <<checkoutVars, drawer>>

\* The approval of a business account reads the customer (getCustomer) ...
DrawerRead ==
    /\ "drawer" \in others
    /\ drawer = Closed
    /\ drawer' = credit
    /\ UNCHANGED <<checkoutVars, credit, log, rmaOpen>>

\* ... and writes it with the balance it has read.
DrawerWrite ==
    /\ drawer # Closed
    /\ credit' = drawer
    /\ drawer' = Closed
    /\ UNCHANGED <<checkoutVars, log, rmaOpen>>

CallStep(c) ==
    \/ \E amount \in 0..Cardinality(Items), code \in BOOLEAN : Submit(c, amount, code)
    \/ Quote(c) \/ CheckQuota(c) \/ OpenSession(c)
    \/ Commit(c) \/ Refuse(c)
    \/ DeletePromotion(c)
    \/ Die(c)

Next ==
    \/ \E i \in Items : AddToCart(i) \/ RemoveFromCart(i)
    \/ \E c \in Calls : CallStep(c)
    \/ \E amount \in Adjustments : Adjust(amount) \/ (amount > 0 /\ ResolveRma(amount))
    \/ \E i \in DOMAIN log : Reverse(i)
    \/ DrawerRead
    \/ DrawerWrite

Spec == Init /\ [][Next]_vars

-----------------------------------------------------------------------------
(***************************************************************************)
(* Properties.                                                             *)
(***************************************************************************)

Account == INSTANCE CreditAccount
    WITH balance <- credit,
         entries <- [i \in DOMAIN log |-> [amount |-> log[i].amount, after |-> log[i].after]],
         stale <- "drawer" \in others

\* Checkouts, staff, complaints and the approval drawer together keep the
\* customer's credit account: no negative balance, a ledger in which each
\* entry continues from the one before, and no balance out of thin air.
KeepsAccount == Account!Spec

Standing == {i \in DOMAIN log : log[i].standing}

\* While only the ledger's writers write, the balance is what the entries that
\* stand add up to: nothing is redeemed, issued or reversed twice, however
\* checkouts and staff race.
CreditConserved ==
    "drawer" \notin others =>
        credit = SumFunction([i \in Standing |-> log[i].amount])

\* A customer who submits again after an error, a lost answer or a crash does
\* not buy an item twice (unless the calls overlap: the transaction does not
\* read the cart again).
CartBoughtOnce ==
    "overlap" \notin others =>
        \A c, d \in placed : c # d => call[c].items \cap call[d].items = {}

\* An item leaves the cart in an order or by the customer's hand: what is added
\* during a checkout stays.
CartKept ==
    [][cart \ cart' # {} =>
         \/ UNCHANGED call
         \/ \E c \in placed' \ placed : cart \ cart' \subseteq call[c].items]_vars

\* Where the shop's policy is to block, overlapping checkouts do not sell more
\* than there is.
StockKept == StockBlocks => allocated <= StockTotal

\* The plan's order limit is kept by checkouts that do not overlap, where the
\* orders are counted.  (It is checked before the transaction: overlapping ones
\* exceed it.  And where the tenant document holds a count of the month's orders,
\* that is preferred: while it lags behind, checkouts one after the other exceed
\* it too.)
QuotaKept == "overlap" \notin others => Cardinality(placed) <= limit

\* "Whether the promotion can only be used once" (Promotion.isOneTime).
PromotionUsedOnce == Cardinality({c \in placed : call[c].discounted}) <= 1
=============================================================================
