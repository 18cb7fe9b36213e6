--------------------------- MODULE PaymentRefund ---------------------------
(***************************************************************************)
(* Refunding one order paid through Stripe or Przelewy24: the admin refund *)
(* call (apps/admin/lib/payments/admin.ts), the refund audit document it   *)
(* keeps (paymentRefunds/<provider-order>), the order's payment ledger,    *)
(* the webhooks (packages/payments/src/webhooks) and the provider itself,  *)
(* as far as the code depends on it.  Names say Stripe where the two       *)
(* providers do the same.                                                  *)
(*                                                                         *)
(* Orders do not interact here, so the module is about one order.  A       *)
(* serverless invocation is a process: one per concurrent admin request    *)
(* (Admins) and one per concurrent webhook delivery (Webhooks).  Each      *)
(* awaited call is a step; a Firestore transaction is one atomic step.     *)
(***************************************************************************)
EXTENDS Integers, FiniteSets, Functions

CONSTANTS
    Admins,        \* concurrent invocations of requestAdminPaymentRefund
    Webhooks,      \* concurrent invocations of processStripeEvent
    Total,         \* floor(order.totalPrice), in minor units
    Amounts,       \* refund amounts an admin may ask for
    MaxAttempts,   \* bound on refund requests per order
    Environments   \* the settings an order may be paid and refunded in

FaultKinds ==
    { "pending",    \* Stripe answers a refund with a status other than succeeded
      "declined",   \* Stripe refuses the refund
      "lost",       \* Stripe refunds and the answer never arrives
      "reversal",   \* a pending refund fails later
      "store",      \* a Firestore write of the call or the handler throws
      "crash" }     \* the invocation is killed

\* deliveries: the handlers that may run at the same time.
\* namesRefund: whether charge.refunded carries charge.refunds; the API version
\* the code pins (env.ts) leaves them out, the tests' payloads have them.
Setting ==
    [provider : {"stripe", "p24"},
     faults : SUBSET FaultKinds,
     deliveries : SUBSET Webhooks,
     namesRefund : BOOLEAN]

ASSUME RefundAssumption ==
    /\ Total \in Nat \ {0}
    /\ Amounts \subseteq Nat \ {0}
    /\ MaxAttempts \in Nat \ {0}
    /\ Environments \subseteq Setting

Attempt == 1..MaxAttempts

PaymentStatus ==
    {"NEW", "PENDING", "PARTIALLY_PAID", "COMPLETED", "REFUNDED", "CANCELED"}

RequestStatus == {"PROCESSING", "PENDING", "COMPLETED", "FAILED"}

IntentEvents == {"created", "processing", "succeeded", "canceled"}
Events == IntentEvents \cup {"refunded"}

\* Ids of REFUND ledger entries.  A refund made by request n has Stripe id n;
\* 0 is the id derived from the charge.refunded event itself.
RefundId == 0..MaxAttempts

VARIABLES
    \* the order's circumstances, which do not change: its payment provider,
    \* what may fail, and how events are delivered
    setting,
    \* the order document
    paymentStatus, paymentIntent,
    \* the paymentRefunds document; its refundHistory is the requests 1..attempts
    refundedAmount, attempts, requestAmount, requestStatus,
    \* the order's paymentLedgerEntries: authorisations by event, the payment,
    \* refunds by id
    authorization, payment, refundEntry,
    \* Stripe: the intent, charge.amount_refunded, the latest refund, the
    \* refunds by idempotency key, the events it delivers, and whether a handler
    \* has answered the success of the payment with 200
    intent, amountRefunded, lastRefund, stripeAmount, stripeStatus, emitted,
    acknowledged,
    \* the invocations
    call, hook

orderVars == <<setting, paymentStatus, paymentIntent>>
auditVars == <<refundedAmount, attempts, requestAmount, requestStatus>>
ledgerVars == <<authorization, payment, refundEntry>>
refundVars == <<intent, amountRefunded, lastRefund, stripeAmount, stripeStatus, emitted>>
stripeVars == <<refundVars, acknowledged>>

vars == <<orderVars, auditVars, ledgerVars, stripeVars, call, hook>>

Provider == setting.provider

Faults == setting.faults

OrderTypeOK ==
    /\ setting \in Environments
    /\ paymentStatus \in PaymentStatus
    /\ paymentIntent \in BOOLEAN

AuditTypeOK ==
    /\ refundedAmount \in Nat
    /\ attempts \in 0..MaxAttempts
    /\ requestAmount \in [Attempt -> Nat]
    /\ requestStatus \in [Attempt -> RequestStatus \cup {"NONE"}]

LedgerTypeOK ==
    /\ authorization \in [IntentEvents -> {"NONE", "PENDING", "CANCELED"}]
    /\ payment \in Nat
    /\ refundEntry \in [RefundId -> Nat]

StripeTypeOK ==
    /\ intent \in IntentEvents
    /\ amountRefunded \in Int
    /\ lastRefund \in RefundId
    /\ stripeAmount \in [Attempt -> Nat]
    /\ stripeStatus \in [Attempt -> {"none", "pending", "succeeded", "failed"}]
    /\ emitted \in SUBSET Events
    /\ acknowledged \in BOOLEAN

CallTypeOK ==
    call \in [Admins -> [pc : {"idle", "provider", "audit", "ledger", "order", "failing"},
                         request : RefundId,
                         amount : Nat,
                         next : Nat,
                         result : {"succeeded", "pending"}]]

HookTypeOK ==
    hook \in [Webhooks -> [pc : {"idle", "link", "ledger", "status"},
                           event : Events,
                           seen : PaymentStatus,
                           skip : BOOLEAN]]

TypeOK == OrderTypeOK /\ AuditTypeOK /\ LedgerTypeOK /\ StripeTypeOK /\ CallTypeOK /\ HookTypeOK

IdleCall == [pc |-> "idle", request |-> 0, amount |-> 0, next |-> 0,
             result |-> "succeeded"]

IdleHook == [pc |-> "idle", event |-> "created", seen |-> "NEW", skip |-> FALSE]

\* Przelewy24 announces nothing but a payment that succeeded.
Announced(e) == Provider = "stripe" \/ e = "succeeded"

Init ==
    /\ setting \in Environments
    /\ paymentStatus = "NEW"
    /\ paymentIntent = FALSE
    /\ refundedAmount = 0
    /\ attempts = 0
    /\ requestAmount = [n \in Attempt |-> 0]
    /\ requestStatus = [n \in Attempt |-> "NONE"]
    /\ authorization = [e \in IntentEvents |-> "NONE"]
    /\ payment = 0
    /\ refundEntry = [r \in RefundId |-> 0]
    /\ intent = "created"
    /\ amountRefunded = 0
    /\ lastRefund = 0
    /\ stripeAmount = [n \in Attempt |-> 0]
    /\ stripeStatus = [n \in Attempt |-> "none"]
    /\ emitted = {e \in {"created"} : Announced(e)}
    /\ acknowledged = FALSE
    /\ call = [a \in Admins |-> IdleCall]
    /\ hook = [w \in Webhooks |-> IdleHook]

-----------------------------------------------------------------------------
(***************************************************************************)
(* Stripe.                                                                 *)
(***************************************************************************)

\* The customer pays, or the payment is abandoned.
IntentProceeds(next) ==
    /\ \/ intent = "created" /\ next \in {"processing", "succeeded", "canceled"}
       \/ intent = "processing" /\ next \in {"succeeded", "canceled"}
    /\ intent' = next
    /\ emitted' = emitted \cup {e \in {next} : Announced(e)}
    /\ UNCHANGED <<amountRefunded, lastRefund, stripeAmount, stripeStatus, acknowledged>>
    /\ UNCHANGED <<orderVars, auditVars, ledgerVars, call, hook>>

\* A refund Stripe left pending settles, or fails and frees the amount again.
RefundSettles(n) ==
    /\ stripeStatus[n] = "pending"
    /\ stripeStatus' = [stripeStatus EXCEPT ![n] = "succeeded"]
    /\ UNCHANGED <<intent, amountRefunded, lastRefund, stripeAmount, emitted, acknowledged>>
    /\ UNCHANGED <<orderVars, auditVars, ledgerVars, call, hook>>

RefundReversed(n) ==
    /\ "reversal" \in Faults
    /\ stripeStatus[n] = "pending"
    /\ stripeStatus' = [stripeStatus EXCEPT ![n] = "failed"]
    /\ amountRefunded' = amountRefunded - stripeAmount[n]
    /\ UNCHANGED <<intent, lastRefund, stripeAmount, emitted, acknowledged>>
    /\ UNCHANGED <<orderVars, auditVars, ledgerVars, call, hook>>

\* refunds.create under idempotency key n.  amount_refunded counts pending
\* refunds; charge.refunded is sent for every refund, but its handler ignores
\* it unless the charge is now refunded in full, so only that one is kept.
\* Przelewy24 takes the key as its requestId and sends no such event.
CreateRefund(n, amount, status) ==
    /\ amount <= Total - amountRefunded
    /\ stripeAmount' = [stripeAmount EXCEPT ![n] = amount]
    /\ stripeStatus' = [stripeStatus EXCEPT ![n] = status]
    /\ amountRefunded' = amountRefunded + amount
    /\ lastRefund' = n
    /\ emitted' = IF Provider = "stripe" /\ amountRefunded + amount = Total
                  THEN emitted \cup {"refunded"} ELSE emitted
    /\ UNCHANGED <<intent, acknowledged>>

-----------------------------------------------------------------------------
(***************************************************************************)
(* requestAdminPaymentRefund.                                              *)
(***************************************************************************)

Goto(a, pc) == call' = [call EXCEPT ![a].pc = pc]

Return(a) == call' = [call EXCEPT ![a] = IdleCall]

\* Mutant: a request that is still with Stripe does not count as active.
HasActiveRequest_PendingOnly ==
    attempts > 0 /\ requestStatus[attempts] = "PENDING"

\* hasActiveRefundRequest: only the latest history entry is looked at.
HasActiveRequest ==
    /\ attempts > 0
    /\ requestStatus[attempts] \in {"PROCESSING", "PENDING"}

Remaining ==
    IF refundedAmount < Total THEN Total - refundedAmount ELSE 0

\* Mutant: a retry takes the history entry of the failed request over.
Validate_ReuseFailed(a, amount) ==
    /\ call[a].pc = "idle"
    /\ paymentStatus = "COMPLETED" /\ (Provider = "stripe" => paymentIntent)
    /\ ~HasActiveRequest
    /\ amount <= Remaining
    /\ attempts < MaxAttempts
    /\ LET n == IF attempts > 0 /\ requestStatus[attempts] = "FAILED"
                THEN attempts ELSE attempts + 1 IN
       /\ attempts' = n
       /\ requestAmount' = [requestAmount EXCEPT ![n] = amount]
       /\ requestStatus' = [requestStatus EXCEPT ![n] = "PROCESSING"]
       /\ call' = [call EXCEPT ![a] =
                     [pc |-> "provider", request |-> n, amount |-> amount,
                      next |-> refundedAmount + amount,
                      result |-> "succeeded"]]
    /\ UNCHANGED <<refundedAmount, orderVars, ledgerVars, stripeVars, hook>>

\* The transaction of validateRefundableOrder: every check that throws leaves
\* everything unchanged, so only the accepting case is a step.
Validate(a, amount) ==
    /\ call[a].pc = "idle"
    /\ paymentStatus = "COMPLETED"
    /\ Provider = "stripe" => paymentIntent
    /\ ~HasActiveRequest
    /\ amount <= Remaining
    /\ attempts < MaxAttempts
    /\ LET n == attempts + 1 IN
       /\ attempts' = n
       /\ requestAmount' = [requestAmount EXCEPT ![n] = amount]
       /\ requestStatus' = [requestStatus EXCEPT ![n] = "PROCESSING"]
       /\ call' = [call EXCEPT ![a] =
                     [pc |-> "provider", request |-> n, amount |-> amount,
                      next |-> refundedAmount + amount,
                      result |-> "succeeded"]]
    /\ UNCHANGED <<refundedAmount, orderVars, ledgerVars, stripeVars, hook>>

\* refundStripePayment or refundPrzelewy24Payment returns: anything but
\* "succeeded" ("success", "completed") is taken for pending.
ProviderAnswers(a, result) ==
    /\ call[a].pc = "provider"
    /\ result = "pending" => "pending" \in Faults
    /\ CreateRefund(call[a].request, call[a].amount, result)
    /\ call' = [call EXCEPT ![a].pc = "audit", ![a].result = result]
    /\ UNCHANGED <<orderVars, auditVars, ledgerVars, hook>>

\* Stripe makes the refund and the call throws (connection lost, timeout).
AnswerLost(a, result) ==
    /\ "lost" \in Faults
    /\ call[a].pc = "provider"
    /\ result = "pending" => "pending" \in Faults
    /\ CreateRefund(call[a].request, call[a].amount, result)
    /\ Goto(a, "failing")
    /\ UNCHANGED <<orderVars, auditVars, ledgerVars, hook>>

\* Mutant: the refusal is returned without reaching the catch block.
ProviderDeclines_Unrecorded(a) ==
    /\ call[a].pc = "provider"
    /\ "declined" \in Faults \/ call[a].amount > Total - amountRefunded
    /\ Return(a)
    /\ UNCHANGED <<orderVars, auditVars, ledgerVars, stripeVars, hook>>

ProviderDeclines(a) ==
    /\ call[a].pc = "provider"
    /\ "declined" \in Faults \/ call[a].amount > Total - amountRefunded
    /\ Goto(a, "failing")
    /\ UNCHANGED <<orderVars, auditVars, ledgerVars, stripeVars, hook>>

\* Mutants of the audit update: the increment is forgotten, a failed request
\* is dropped from the history.
UpdateAuditRequest_NoIncrement(n, status, increment) ==
    /\ requestStatus' = [requestStatus EXCEPT ![n] = status]
    /\ UNCHANGED <<refundedAmount, attempts, requestAmount>>

UpdateAuditRequest_DropFailed(n, status, increment) ==
    /\ requestStatus' = [requestStatus EXCEPT ![n] = status]
    /\ refundedAmount' = refundedAmount + increment
    /\ attempts' = IF status = "FAILED" THEN attempts - 1 ELSE attempts
    /\ UNCHANGED requestAmount

\* The transaction of updateRefundAuditRequest.
UpdateAuditRequest(n, status, increment) ==
    /\ requestStatus' = [requestStatus EXCEPT ![n] = status]
    /\ refundedAmount' = refundedAmount + increment
    /\ UNCHANGED <<attempts, requestAmount>>

\* Mutants: the running total is passed as the increment; a refund Stripe
\* left pending stays in process.
SaveResultWrite_AddTotal(a) ==
    IF call[a].result = "succeeded"
    THEN UpdateAuditRequest(call[a].request, "COMPLETED", call[a].next)
    ELSE UpdateAuditRequest(call[a].request, "PENDING", 0)

SaveResultWrite_PendingOpen(a) ==
    IF call[a].result = "succeeded"
    THEN UpdateAuditRequest(call[a].request, "COMPLETED", call[a].amount)
    ELSE UpdateAuditRequest(call[a].request, "PROCESSING", 0)

SaveResultWrite(a) ==
    IF call[a].result = "succeeded"
    THEN UpdateAuditRequest(call[a].request, "COMPLETED", call[a].amount)
    ELSE UpdateAuditRequest(call[a].request, "PENDING", 0)

SaveResult(a) ==
    /\ call[a].pc = "audit"
    /\ SaveResultWrite(a)
    /\ IF call[a].result = "succeeded" THEN Goto(a, "ledger") ELSE Return(a)
    /\ UNCHANGED <<orderVars, ledgerVars, stripeVars, hook>>

\* Mutant: the entry shows the running total.
RefundLedgerWrite_Running(a) ==
    /\ refundEntry' = [refundEntry EXCEPT ![call[a].request] = call[a].next]
    /\ UNCHANGED <<authorization, payment>>

\* writeCompletedRefundLedgerEntry, under the id of the Stripe refund.
RefundLedgerWrite(a) ==
    /\ refundEntry' = [refundEntry EXCEPT ![call[a].request] = call[a].amount]
    /\ UNCHANGED <<authorization, payment>>

\* Mutant: a partial refund marks the order too.
WriteRefundLedger_AlwaysFull(a) ==
    /\ call[a].pc = "ledger"
    /\ RefundLedgerWrite(a)
    /\ Goto(a, "order")
    /\ UNCHANGED <<orderVars, auditVars, stripeVars, hook>>

WriteRefundLedger(a) ==
    /\ call[a].pc = "ledger"
    /\ RefundLedgerWrite(a)
    /\ IF call[a].next >= Total THEN Goto(a, "order") ELSE Return(a)
    /\ UNCHANGED <<orderVars, auditVars, stripeVars, hook>>

OrderRefundedWrite ==
    /\ paymentStatus' = "REFUNDED"
    /\ UNCHANGED <<setting, paymentIntent>>

MarkOrderRefunded(a) ==
    /\ call[a].pc = "order"
    /\ OrderRefundedWrite
    /\ Return(a)
    /\ UNCHANGED <<auditVars, ledgerVars, stripeVars, hook>>

\* A write of the try block throws.  A write whose acknowledgement is lost was
\* applied all the same; either way the catch block runs next.
StoreThrows(a) ==
    /\ "store" \in Faults
    /\ call[a].pc \in {"audit", "ledger", "order"}
    /\ \/ UNCHANGED <<orderVars, auditVars, ledgerVars>>
       \/ /\ call[a].pc = "audit"
          /\ SaveResultWrite(a)
          /\ UNCHANGED <<orderVars, ledgerVars>>
       \/ /\ call[a].pc = "ledger"
          /\ RefundLedgerWrite(a)
          /\ UNCHANGED <<orderVars, auditVars>>
       \/ /\ call[a].pc = "order"
          /\ OrderRefundedWrite
          /\ UNCHANGED <<auditVars, ledgerVars>>
    /\ Goto(a, "failing")
    /\ UNCHANGED <<stripeVars, hook>>

\* Mutant: the catch block counts the amount.
RecordFailure_Counts(a) ==
    /\ call[a].pc = "failing"
    /\ UpdateAuditRequest(call[a].request, "FAILED", call[a].amount)
    /\ Return(a)
    /\ UNCHANGED <<orderVars, ledgerVars, stripeVars, hook>>

\* The catch block: whatever failed, the request is marked FAILED and what was
\* already counted stays counted.
RecordFailure(a) ==
    /\ call[a].pc = "failing"
    /\ UpdateAuditRequest(call[a].request, "FAILED", 0)
    /\ Return(a)
    /\ UNCHANGED <<orderVars, ledgerVars, stripeVars, hook>>

\* The invocation is killed, or the catch block's own write throws.
CallDies(a) ==
    /\ \/ "crash" \in Faults /\ call[a].pc # "idle"
       \/ "store" \in Faults /\ call[a].pc = "failing"
    /\ Return(a)
    /\ UNCHANGED <<orderVars, auditVars, ledgerVars, stripeVars, hook>>

-----------------------------------------------------------------------------
(***************************************************************************)
(* processStripeEvent, and verifyPrzelewy24Notification, which does the    *)
(* steps of its success.  An event is delivered at least once and in any   *)
(* order: an emitted one may be received at any time, again and again.     *)
(***************************************************************************)

\* The handler reads the order once, outside a transaction.
Receive(w, e) ==
    /\ w \in setting.deliveries
    /\ hook[w].pc = "idle"
    /\ e \in emitted
    /\ \E skip \in (IF e = "created" THEN BOOLEAN ELSE {FALSE}) :
         LET linked == e = "refunded" \/ paymentIntent IN
         /\ linked => ~skip
         /\ hook' = [hook EXCEPT ![w] =
                       [pc |-> IF linked THEN "ledger" ELSE "link",
                        event |-> e,
                        seen |-> paymentStatus,
                        skip |-> skip]]
    /\ UNCHANGED <<orderVars, auditVars, ledgerVars, stripeVars, call>>

\* checkoutSession.paymentIntent is filled in; payment_intent.created of an
\* order whose (fulfilment) status is still NEW ends here.
LinkIntent(w) ==
    /\ hook[w].pc = "link"
    /\ paymentIntent' = TRUE
    /\ UNCHANGED <<setting, paymentStatus>>
    /\ hook' = [hook EXCEPT ![w] = IF hook[w].skip THEN IdleHook
                                   ELSE [hook[w] EXCEPT !.pc = "ledger"]]
    /\ UNCHANGED <<auditVars, ledgerVars, stripeVars, call>>

\* The latest of charge.refunds, or else the event itself.
RefundEntryId == IF setting.namesRefund THEN lastRefund ELSE 0

\* writeStripePaymentLedgerEntry: set(..., {merge: true}) under an id made of
\* the entry type and the event (or refund) id.
WriteEventLedger(w) ==
    LET e == hook[w].event IN
    /\ hook[w].pc = "ledger"
    /\ \/ /\ e = "succeeded"
          /\ payment' = Total
          /\ UNCHANGED <<authorization, refundEntry>>
       \/ /\ e = "refunded"
          /\ refundEntry' = [refundEntry EXCEPT ![RefundEntryId] = Total]
          /\ UNCHANGED <<authorization, payment>>
       \/ /\ e \in {"created", "processing", "canceled"}
          /\ authorization' = [authorization EXCEPT ![e] =
                                 IF e = "canceled" THEN "CANCELED" ELSE "PENDING"]
          /\ UNCHANGED <<payment, refundEntry>>
    /\ hook' = [hook EXCEPT ![w].pc = "status"]
    /\ UNCHANGED <<orderVars, auditVars, stripeVars, call>>

StatusOf(e) ==
    CASE e = "created"    -> "NEW"
      [] e = "processing" -> "PENDING"
      [] e = "canceled"   -> "CANCELED"
      [] e = "succeeded"  -> "COMPLETED"
      [] e = "refunded"   -> "REFUNDED"

\* Mutant: only a change is asked for.
ShouldApply_AnyChange(current, next) == current # next

\* shouldApplyStripePaymentStatusUpdate.
ShouldApply(current, next) ==
    /\ current # next
    /\ ~ /\ current \in {"COMPLETED", "REFUNDED", "PARTIALLY_PAID"}
         /\ next \in {"NEW", "PENDING", "CANCELED"}

\* updateStripeOrderPaymentStatus: succeeded and refunded write their status
\* whatever the order's is; the others compare with the status the handler read
\* when it received the event.
ApplyStatusWrite(w) ==
    LET e == hook[w].event IN
    /\ paymentStatus' = IF \/ e \in {"succeeded", "refunded"}
                           \/ ShouldApply(hook[w].seen, StatusOf(e))
                        THEN StatusOf(e) ELSE paymentStatus
    /\ UNCHANGED <<setting, paymentIntent>>

\* The handler's last step: it answers with success.
ApplyStatus(w) ==
    /\ hook[w].pc = "status"
    /\ ApplyStatusWrite(w)
    /\ acknowledged' = (acknowledged \/ hook[w].event = "succeeded")
    /\ hook' = [hook EXCEPT ![w] = IdleHook]
    /\ UNCHANGED <<auditVars, ledgerVars, refundVars, call>>

\* Mutant: an exception answers with success.
HookFails_Acknowledged(w) ==
    /\ {"store", "crash"} \cap Faults # {}
    /\ hook[w].pc # "idle"
    /\ \/ UNCHANGED orderVars
       \/ hook[w].pc = "status" /\ ApplyStatusWrite(w)
    /\ acknowledged' = (acknowledged \/ hook[w].event = "succeeded")
    /\ hook' = [hook EXCEPT ![w] = IdleHook]
    /\ UNCHANGED <<auditVars, ledgerVars, refundVars, call>>

\* Any exception answers 400 and a killed handler answers nothing, also after
\* its last write was applied: Stripe will deliver the event again.
HookFails(w) ==
    /\ {"store", "crash"} \cap Faults # {}
    /\ hook[w].pc # "idle"
    /\ \/ UNCHANGED orderVars
       \/ hook[w].pc = "status" /\ ApplyStatusWrite(w)
    /\ hook' = [hook EXCEPT ![w] = IdleHook]
    /\ UNCHANGED <<auditVars, ledgerVars, stripeVars, call>>

-----------------------------------------------------------------------------

StripeStep ==
    \/ \E next \in IntentEvents : IntentProceeds(next)
    \/ \E n \in Attempt : RefundSettles(n) \/ RefundReversed(n)

CallStep(a) ==
    \/ \E result \in {"succeeded", "pending"} :
          ProviderAnswers(a, result) \/ AnswerLost(a, result)
    \/ ProviderDeclines(a)
    \/ SaveResult(a)
    \/ WriteRefundLedger(a)
    \/ MarkOrderRefunded(a)
    \/ StoreThrows(a)
    \/ RecordFailure(a)
    \/ CallDies(a)

HookStep(w) ==
    \/ LinkIntent(w)
    \/ WriteEventLedger(w)
    \/ ApplyStatus(w)
    \/ HookFails(w)

Next ==
    \/ StripeStep
    \/ \E a \in Admins : (\E amount \in Amounts : Validate(a, amount)) \/ CallStep(a)
    \/ \E w \in Webhooks : (\E e \in Events : Receive(w, e)) \/ HookStep(w)

Spec == Init /\ [][Next]_vars

\* Stripe delivers the success of the payment again while no handler has
\* answered it with success.
Redeliver(w) == ~acknowledged /\ Receive(w, "succeeded")

\* An invocation that has started runs on.  Stripe repeats the success of the
\* payment until it is answered, and handlers do not fail for ever: their
\* failures end before Stripe gives up.
Fairness ==
    /\ \A a \in Admins : WF_vars(CallStep(a))
    /\ \A w \in Webhooks : WF_vars(HookStep(w))
    /\ SF_vars(\E w \in Webhooks : Redeliver(w))
    /\ <>[][\A w \in Webhooks : ~HookFails(w)]_vars

FairSpec == Spec /\ Fairness

-----------------------------------------------------------------------------
(***************************************************************************)
(* Properties.                                                             *)
(***************************************************************************)

InFlight(a) == call[a].pc \in {"provider", "audit"}

NoCall == \A a \in Admins : call[a].pc = "idle"

\* Sum of the amounts of the requests the audit shows with a status in S.
AmountOf(S) ==
    SumFunctionOnSet(requestAmount, {n \in Attempt : requestStatus[n] \in S})

\* However many admins press the button, at most one refund of the order is
\* between its validation and the recording of Stripe's answer: the audit
\* document is a lock taken by the transaction of validateRefundableOrder.
OneRefundInFlight ==
    \A a, b \in Admins : InFlight(a) /\ InFlight(b) => a = b

\* The awaits of concurrent calls, whatever fails between them, look to the
\* audit document like amounts asked for one after the other, of which each is
\* counted once or dropped: the request that is active is what is open.
Audit == INSTANCE RefundAudit
    WITH counted <- refundedAmount,
         open <- IF HasActiveRequest THEN requestAmount[attempts] ELSE 0

KeepsAudit == Audit!Spec

\* The audit never counts more refunded than the order was worth, although the
\* increment is added in a later transaction than the one that checked it.
RefundWithinTotal == refundedAmount <= Total

\* A request is on record, with its amount, before Stripe is asked: whatever
\* fails, every refund Stripe made can be found in the history under its
\* idempotency key.
RefundHasRequest ==
    \A n \in Attempt : stripeStatus[n] # "none" =>
        /\ n <= attempts
        /\ requestAmount[n] = stripeAmount[n]

\* Nothing in the code takes in that a pending refund failed.
SomeReversed == \E n \in Attempt : stripeStatus[n] = "failed"

\* Nothing is counted as refunded that Stripe did not refund, not even when
\* Stripe reverses refunds it had left pending.
AuditBackedByStripe == refundedAmount <= amountRefunded

\* The order is shown as refunded only when Stripe refunded all of it, whether
\* the admin call or the webhook wrote the status, and whichever came first,
\* until Stripe reverses a refund.
RefundedOnlyWhenFull ==
    paymentStatus = "REFUNDED" => amountRefunded = Total \/ SomeReversed

\* refundedAmount and the history are written by different read-modify-writes
\* and stay consistent: every COMPLETED request is counted.  (A request whose
\* ledger or order write failed afterwards is counted and shown as FAILED.)
CompletedIsCounted ==
    AmountOf({"COMPLETED"}) <= refundedAmount

\* Whether the code's own writes and invocations are spared by failures.
StoreWorks == {"store", "crash"} \cap Faults = {}

\* While the store works, and no refund is reversed, the history accounts for
\* every amount Stripe refunded once no call is running, unless a request is
\* shown as failed that Stripe carried out.
EveryRefundRecorded ==
    (StoreWorks /\ ~ SomeReversed /\ NoCall /\ \A n \in Attempt : requestStatus[n] = "FAILED" =>
                  stripeStatus[n] \notin {"pending", "succeeded"})
        => amountRefunded = AmountOf({"COMPLETED", "PENDING"})

\* What the entry of charge.refunded adds to the entries of the admin's calls: the
\* total, in place of the latest refund's own entry where the payload names it.
EventEntryAdds ==
    IF setting.namesRefund THEN Total - stripeAmount[lastRefund] ELSE Total

\* The REFUND entries of the ledger never show more than Stripe refunded, in
\* whatever order the admin call and the webhook write them and however often,
\* until the charge is announced as refunded in full; the entry of that event is
\* then added once and no more, and adds nothing where it takes the place of the
\* entry of the only refund.  (Under the API version the code pins it does not:
\* the ledger of such an order shows its refund twice.)
LedgerRefundsExplained ==
    ~SomeReversed =>
        SumFunction(refundEntry) <=
            amountRefunded + (IF "refunded" \in emitted THEN EventEntryAdds ELSE 0)

Settled == {"COMPLETED", "REFUNDED"}

\* A delivery that read the order before it was settled.
ReadUnsettled(w) == hook[w].pc # "idle" /\ hook[w].seen \notin Settled

\* A settled order is not taken back to NEW, PENDING or CANCELED by a webhook
\* that arrives late or twice, unless it overlaps the one that settled the
\* order; a repeated success may show a refunded order as paid again.
SettledNotDowngraded ==
    [][(paymentStatus \in Settled /\ \A w \in Webhooks : ~ ReadUnsettled(w))
         => paymentStatus' \in Settled]_orderVars

\* A request that reached COMPLETED or FAILED keeps that status for ever while
\* the store works: a retry is a request of its own.
OutcomeIsFinal ==
    [][StoreWorks => \A n \in Attempt : requestStatus[n] \in {"COMPLETED", "FAILED"} =>
         UNCHANGED requestStatus[n]]_auditVars

\* While the store works a request does not stay PROCESSING: the call records
\* an outcome.
RequestSettles ==
    \A n \in Attempt : StoreWorks /\ requestStatus[n] = "PROCESSING"
                       ~> requestStatus[n] # "PROCESSING"

OneAtATime == \A v, w \in setting.deliveries : v = w

\* A payment that succeeded at the provider becomes visible on the order although
\* handlers fail at any of their writes, as its event is delivered until one has
\* answered with success; and no later event hides it for good.  Only deliveries
\* that overlap can: the write of one that read the order before it was paid may
\* come last, and once the success is answered nothing repairs that.
PaymentArrives ==
    intent = "succeeded" /\ (OneAtATime \/ ~acknowledged) ~> paymentStatus \in Settled
=============================================================================
