---------------------------- MODULE CreditAccount ---------------------------
(***************************************************************************)
(* What a customer's store credit promises, whoever writes it: a balance   *)
(* that is never negative, and a ledger in which every entry says what the *)
(* balance was after it (packages/utils/src/store-credit.ts,               *)
(* customers/<id>/storeCreditTransactions).                                *)
(*                                                                         *)
(* Where a writer outside the ledger puts the customer document back to    *)
(* what it has read (stale), the balance may jump, but only to a value it  *)
(* has had.                                                                *)
(***************************************************************************)
EXTENDS Integers, Sequences

VARIABLES
    balance,  \* Customer.storeCreditBalance
    entries,  \* amount and balanceAfter of the ledger's entries, oldest first
    stale     \* is there such a writer?

accountVars == <<balance, entries, stale>>

\* The balance before entry i, if entries are all that changes it.
Before(i) == IF i = 1 THEN 0 ELSE entries[i - 1].after

Known == {0} \cup {entries[i].after : i \in DOMAIN entries}

Init ==
    /\ balance = 0
    /\ entries = <<>>
    /\ stale \in BOOLEAN

\* Credit is issued, deducted, redeemed, or an entry is reversed.
Post ==
    /\ balance' \in Nat
    /\ balance' # balance
    /\ entries' = Append(entries, [amount |-> balance' - balance, after |-> balance'])
    /\ UNCHANGED stale

Restore ==
    /\ stale
    /\ balance' \in Known
    /\ UNCHANGED <<entries, stale>>

Next == Post \/ Restore

Spec == Init /\ [][Next]_accountVars

\* Each entry continues from the one before it, and the last one has the
\* balance.
Chained ==
    ~ stale =>
        /\ \A i \in DOMAIN entries : entries[i].after = Before(i) + entries[i].amount
        /\ balance = Before(Len(entries) + 1)
=============================================================================
