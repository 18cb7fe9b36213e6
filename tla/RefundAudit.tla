----------------------------- MODULE RefundAudit ----------------------------
(***************************************************************************)
(* What the audit document of an order's refunds promises                  *)
(* (paymentRefunds/<provider-order>, apps/admin/lib/payments): amounts are *)
(* asked for one after the other, each fits what is left of the order when *)
(* it is asked for, and is counted once or not at all.                     *)
(***************************************************************************)
EXTENDS Integers

CONSTANT Total  \* what the order was worth

VARIABLES
    counted,  \* refundedAmount
    open      \* the amount that was asked for and has no outcome, or 0

auditVars == <<counted, open>>

Init ==
    /\ counted = 0
    /\ open = 0

\* One request at a time, of what is left at most.
Ask ==
    /\ open = 0
    /\ open' \in 1..(Total - counted)
    /\ UNCHANGED counted

\* The provider made the refund.
Count ==
    /\ counted' = counted + open
    /\ open' = 0

\* It did not, or nobody knows.
Drop ==
    /\ open' = 0
    /\ UNCHANGED counted

Next == Ask \/ Count \/ Drop

Spec == Init /\ [][Next]_auditVars

\* What was counted and what may still be counted are within the order.
Bounded == counted \in Nat /\ open \in Nat /\ counted + open <= Total
=============================================================================
