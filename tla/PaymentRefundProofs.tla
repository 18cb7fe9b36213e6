------------------------ MODULE PaymentRefundProofs ------------------------
(***************************************************************************)
(* Proofs about PaymentRefund, for any number of admins and webhook        *)
(* deliveries, any order total, any amounts, either provider and any set of*)
(* faults: its invariants and action properties, and that its audit        *)
(* document implements RefundAudit.                                        *)
(***************************************************************************)
EXTENDS PaymentRefund, Sums

(***************************************************************************)
(* Type correctness, one step per action.                                  *)
(***************************************************************************)

LEMMA IdleTypes ==
  /\ IdleCall \in [pc : {"idle", "provider", "audit", "ledger", "order", "failing"},
                   request : RefundId, amount : Nat, next : Nat,
                   result : {"succeeded", "pending"}]
  /\ IdleHook \in [pc : {"idle", "link", "ledger", "status"}, event : Events,
                   seen : PaymentStatus, skip : BOOLEAN]
  BY RefundAssumption
  DEF IdleCall, IdleHook, RefundId, Events, IntentEvents, PaymentStatus

LEMMA InitType == Init => TypeOK
<1> SUFFICES ASSUME Init PROVE TypeOK
  OBVIOUS
<1>0. OrderTypeOK
  BY DEF Init, OrderTypeOK, PaymentStatus
<1>1. AuditTypeOK
  BY RefundAssumption DEF Init, AuditTypeOK, RequestStatus
<1>2. LedgerTypeOK
  BY DEF Init, LedgerTypeOK
<1>3. StripeTypeOK
  <2>1. /\ intent = "created" /\ amountRefunded = 0 /\ lastRefund = 0
        /\ emitted \subseteq {"created"} /\ acknowledged = FALSE
        /\ stripeAmount = [n \in Attempt |-> 0] /\ stripeStatus = [n \in Attempt |-> "none"]
    BY DEF Init
  <2>2. stripeAmount \in [Attempt -> Nat]
        /\ stripeStatus \in [Attempt -> {"none", "pending", "succeeded", "failed"}]
    BY <2>1
  <2>3. intent \in IntentEvents /\ emitted \in SUBSET Events
    BY <2>1 DEF IntentEvents, Events
  <2>4. amountRefunded \in Int /\ lastRefund \in RefundId
    BY <2>1, RefundAssumption DEF RefundId
  <2>5. acknowledged \in BOOLEAN
    BY <2>1, Zenon
  <2> QED  BY <2>2, <2>3, <2>4, <2>5 DEF StripeTypeOK
<1>4. CallTypeOK /\ HookTypeOK
  BY IdleTypes DEF Init, CallTypeOK, HookTypeOK
<1> QED BY <1>0, <1>1, <1>2, <1>3, <1>4 DEF TypeOK

LEMMA StripeType == TypeOK /\ StripeStep => TypeOK'
<1> SUFFICES ASSUME TypeOK, StripeStep PROVE TypeOK'
  OBVIOUS
<1>1. ASSUME NEW next \in IntentEvents, IntentProceeds(next) PROVE TypeOK'
  BY <1>1 DEF TypeOK, IntentProceeds, orderVars, auditVars, ledgerVars,
     OrderTypeOK, AuditTypeOK, LedgerTypeOK, StripeTypeOK, CallTypeOK, HookTypeOK,
     Events
<1>2. ASSUME NEW n \in Attempt, RefundSettles(n) PROVE TypeOK'
  BY <1>2 DEF TypeOK, RefundSettles, orderVars, auditVars, ledgerVars,
     OrderTypeOK, AuditTypeOK, LedgerTypeOK, StripeTypeOK, CallTypeOK, HookTypeOK
<1>3. ASSUME NEW n \in Attempt, RefundReversed(n) PROVE TypeOK'
  BY <1>3 DEF TypeOK, RefundReversed, orderVars, auditVars, ledgerVars,
     OrderTypeOK, AuditTypeOK, LedgerTypeOK, StripeTypeOK, CallTypeOK, HookTypeOK
<1> QED BY <1>1, <1>2, <1>3 DEF StripeStep

LEMMA CreateRefundType ==
  ASSUME StripeTypeOK, NEW n \in Attempt, NEW amount \in Nat,
         NEW status \in {"pending", "succeeded"},
         CreateRefund(n, amount, status)
  PROVE  StripeTypeOK'
  BY RefundAssumption DEF StripeTypeOK, CreateRefund, Attempt, RefundId, Events

LEMMA UpdateAuditType ==
  ASSUME AuditTypeOK, NEW n \in Attempt, NEW status \in RequestStatus,
         NEW increment \in Nat, UpdateAuditRequest(n, status, increment)
  PROVE  AuditTypeOK'
  BY DEF AuditTypeOK, UpdateAuditRequest

\* What an invocation past its validation holds: the number of a request that
\* is on record, and that no other invocation holds.
RequestOwned ==
  \A a \in Admins : call[a].pc # "idle" =>
    /\ call[a].request \in 1..attempts
    /\ \A b \in Admins :
         call[b].pc # "idle" /\ call[b].request = call[a].request => b = a

\* While Stripe is being asked, and until the answer is recorded, the request
\* is the latest one, still PROCESSING, and what the validation checked of the
\* refunded amount still holds.
InFlightIsLatest ==
  \A a \in Admins : InFlight(a) =>
    /\ call[a].request = attempts
    /\ requestStatus[attempts] = "PROCESSING"
    /\ requestAmount[attempts] = call[a].amount
    /\ refundedAmount + call[a].amount <= Total

LEMMA ValidateType ==
  ASSUME TypeOK, NEW a \in Admins, NEW amount \in Amounts, Validate(a, amount)
  PROVE  TypeOK'
<1>1. /\ amount \in Nat
      /\ attempts + 1 \in Attempt
      /\ attempts + 1 \in RefundId
      /\ refundedAmount + amount \in Nat
  BY RefundAssumption DEF Validate, TypeOK, AuditTypeOK, Attempt, RefundId
<1>2. CallTypeOK'
  BY <1>1 DEF Validate, TypeOK, CallTypeOK
<1>3. AuditTypeOK'
  BY <1>1 DEF Validate, TypeOK, AuditTypeOK, RequestStatus, Attempt
<1> QED
  BY <1>2, <1>3 DEF Validate, TypeOK, OrderTypeOK, LedgerTypeOK, StripeTypeOK,
     HookTypeOK, orderVars, ledgerVars, refundVars, stripeVars

LEMMA ProviderType ==
  ASSUME TypeOK, RequestOwned, NEW a \in Admins,
         \/ \E result \in {"succeeded", "pending"} :
               ProviderAnswers(a, result) \/ AnswerLost(a, result)
         \/ ProviderDeclines(a)
  PROVE  TypeOK'
<1>1. call[a].pc # "idle"
  BY DEF ProviderAnswers, AnswerLost, ProviderDeclines
<1>2. call[a].request \in Attempt /\ call[a].amount \in Nat
  BY <1>1, RefundAssumption DEF RequestOwned, TypeOK, AuditTypeOK, CallTypeOK, Attempt
<1>3. CallTypeOK'
  BY DEF TypeOK, CallTypeOK, ProviderAnswers, AnswerLost, ProviderDeclines, Goto
<1>4. StripeTypeOK'
  BY <1>2, CreateRefundType
  DEF TypeOK, StripeTypeOK, ProviderAnswers, AnswerLost, ProviderDeclines, refundVars, stripeVars
<1>5. UNCHANGED <<orderVars, auditVars, ledgerVars, hook>>
  BY DEF ProviderAnswers, AnswerLost, ProviderDeclines
<1> QED
  BY <1>3, <1>4, <1>5 DEF TypeOK, OrderTypeOK, AuditTypeOK, LedgerTypeOK,
     HookTypeOK, orderVars, auditVars, ledgerVars

\* The steps that end or continue an invocation after Stripe's answer.
RecordStep(a) ==
    \/ SaveResult(a)
    \/ WriteRefundLedger(a)
    \/ MarkOrderRefunded(a)
    \/ StoreThrows(a)
    \/ RecordFailure(a)
    \/ CallDies(a)

LEMMA RecordType ==
  ASSUME TypeOK, RequestOwned, NEW a \in Admins, RecordStep(a)
  PROVE  TypeOK'
<1>1. call[a].pc # "idle"
  BY DEF RecordStep, SaveResult, WriteRefundLedger, MarkOrderRefunded,
         StoreThrows, RecordFailure, CallDies
<1>2. /\ call[a].request \in Attempt
      /\ call[a].request \in RefundId
      /\ call[a].amount \in Nat
  BY <1>1, RefundAssumption
  DEF RequestOwned, TypeOK, AuditTypeOK, CallTypeOK, Attempt, RefundId
<1>3. CallTypeOK'
  BY IdleTypes
  DEF TypeOK, CallTypeOK, RecordStep, SaveResult, WriteRefundLedger,
      MarkOrderRefunded, StoreThrows, RecordFailure, CallDies, Goto, Return
<1>4. SaveResultWrite(a) => AuditTypeOK'
  BY <1>2, UpdateAuditType DEF TypeOK, SaveResultWrite, RequestStatus
<1>5. UpdateAuditRequest(call[a].request, "FAILED", 0) => AuditTypeOK'
  BY <1>2, UpdateAuditType DEF TypeOK, RequestStatus
<1>6. UNCHANGED auditVars => AuditTypeOK'
  BY DEF TypeOK, AuditTypeOK, auditVars
<1>7. AuditTypeOK'
  BY <1>4, <1>5, <1>6
  DEF RecordStep, SaveResult, WriteRefundLedger, MarkOrderRefunded, StoreThrows,
      RecordFailure, CallDies
<1>8. RefundLedgerWrite(a) \/ UNCHANGED ledgerVars => LedgerTypeOK'
  BY <1>2 DEF TypeOK, LedgerTypeOK, RefundLedgerWrite, ledgerVars
<1>9. LedgerTypeOK'
  BY <1>8
  DEF RecordStep, SaveResult, WriteRefundLedger, MarkOrderRefunded, StoreThrows,
      RecordFailure, CallDies
<1>10. OrderRefundedWrite \/ UNCHANGED orderVars => OrderTypeOK'
  BY DEF TypeOK, OrderTypeOK, OrderRefundedWrite, orderVars, PaymentStatus
<1>11. OrderTypeOK'
  BY <1>10
  DEF RecordStep, SaveResult, WriteRefundLedger, MarkOrderRefunded, StoreThrows,
      RecordFailure, CallDies
<1>12. UNCHANGED <<stripeVars, hook>>
  BY DEF RecordStep, SaveResult, WriteRefundLedger, MarkOrderRefunded, StoreThrows,
         RecordFailure, CallDies
<1> QED
  BY <1>3, <1>7, <1>9, <1>11, <1>12
  DEF TypeOK, StripeTypeOK, HookTypeOK, refundVars, stripeVars

LEMMA HookType ==
  ASSUME TypeOK, NEW w \in Webhooks,
         (\E e \in Events : Receive(w, e)) \/ HookStep(w)
  PROVE  TypeOK'
<1>1. HookTypeOK'
  <2>1. ASSUME NEW e \in Events, Receive(w, e) PROVE HookTypeOK'
    <3>1. PICK skip \in BOOLEAN :
            hook' = [hook EXCEPT ![w] =
                      [pc |-> IF e = "refunded" \/ paymentIntent THEN "ledger" ELSE "link",
                       event |-> e, seen |-> paymentStatus, skip |-> skip]]
      BY <2>1 DEF Receive
    <3>2. (IF e = "refunded" \/ paymentIntent THEN "ledger" ELSE "link")
            \in {"idle", "link", "ledger", "status"}
      OBVIOUS
    <3>3. e \in Events /\ paymentStatus \in PaymentStatus
      BY DEF TypeOK, OrderTypeOK
    <3> QED BY <3>1, <3>2, <3>3 DEF TypeOK, HookTypeOK
  <2>2. CASE HookStep(w)
    BY <2>2, IdleTypes
    DEF TypeOK, HookTypeOK, HookStep, LinkIntent, WriteEventLedger, ApplyStatus, ApplyStatusWrite, HookFails
  <2> QED BY <2>1, <2>2
<1>2. OrderTypeOK'
  <2>1. StatusOf(hook[w].event) \in PaymentStatus
    BY DEF TypeOK, HookTypeOK, StatusOf, PaymentStatus, Events, IntentEvents
  <2> QED
    BY <2>1 DEF TypeOK, OrderTypeOK, HookStep, Receive, LinkIntent,
       WriteEventLedger, ApplyStatus, ApplyStatusWrite, HookFails, orderVars
<1>3. LedgerTypeOK'
  <2>1. RefundEntryId \in RefundId
    BY RefundAssumption DEF RefundEntryId, TypeOK, StripeTypeOK, RefundId
  <2> QED
    BY <2>1, RefundAssumption
    DEF TypeOK, LedgerTypeOK, HookStep, Receive, LinkIntent, WriteEventLedger,
        ApplyStatus, ApplyStatusWrite, HookFails, ledgerVars
<1>4. UNCHANGED <<auditVars, refundVars, call>> /\ acknowledged' \in BOOLEAN
  BY DEF HookStep, Receive, LinkIntent, WriteEventLedger, ApplyStatus, ApplyStatusWrite,
         HookFails, stripeVars, TypeOK, StripeTypeOK
<1> QED
  BY <1>1, <1>2, <1>3, <1>4
  DEF TypeOK, AuditTypeOK, StripeTypeOK, CallTypeOK, auditVars, refundVars, stripeVars

(***************************************************************************)
(* The audit document as a lock.                                           *)
(***************************************************************************)

LockInv ==
  /\ TypeOK
  /\ RequestOwned
  /\ InFlightIsLatest
  /\ RefundWithinTotal
  /\ RefundHasRequest

LEMMA LockInit == Init => LockInv
  BY InitType, RefundAssumption
  DEF Init, LockInv, RequestOwned, InFlightIsLatest, InFlight, RefundWithinTotal,
      RefundHasRequest, IdleCall

LEMMA ValidateLock ==
  ASSUME LockInv, NEW a \in Admins, NEW amount \in Amounts, Validate(a, amount)
  PROVE  LockInv'
<1>1. TypeOK'
  BY ValidateType DEF LockInv
<1> USE DEF LockInv, TypeOK, AuditTypeOK, CallTypeOK, Attempt
\* No other invocation is in flight: its request would be the latest, still PROCESSING.
<1>2. \A b \in Admins : ~InFlight(b)
  BY RefundAssumption DEF InFlightIsLatest, RequestOwned, InFlight, Validate, HasActiveRequest
<1>3. \A b \in Admins \ {a} : call'[b] = call[b]
  BY DEF Validate
<1>4. /\ call'[a].request = attempts + 1
      /\ call'[a].amount = amount
      /\ call'[a].pc = "provider"
      /\ attempts' = attempts + 1
      /\ attempts + 1 \in Attempt
  BY RefundAssumption DEF Validate
<1>5. RequestOwned'
  <2>1. \A b \in Admins \ {a} : call[b].pc # "idle" => call[b].request \in 1..attempts
    BY DEF RequestOwned
  <2>2. attempts + 1 \notin 1..attempts /\ 1..attempts \subseteq 1..(attempts + 1)
    BY RefundAssumption
  <2>3. attempts + 1 \in 1..(attempts + 1)
    BY RefundAssumption
  <2>4. ASSUME NEW c \in Admins, call'[c].pc # "idle"
        PROVE  call'[c].request \in 1..attempts'
    BY <2>4, <1>3, <1>4, <2>1, <2>2, <2>3
  <2>5. ASSUME NEW c \in Admins, NEW b \in Admins, call'[c].pc # "idle",
               call'[b].pc # "idle", call'[b].request = call'[c].request
        PROVE  b = c
    BY <2>5, <1>3, <1>4, <2>1, <2>2 DEF RequestOwned
  <2> QED BY <2>4, <2>5 DEF RequestOwned
<1>6. refundedAmount + amount <= Total
  BY RefundAssumption DEF Validate, Remaining
<1>7. InFlightIsLatest'
  BY <1>2, <1>3, <1>4, <1>6 DEF InFlightIsLatest, InFlight, Validate
<1>8. RefundWithinTotal'
  BY DEF RefundWithinTotal, Validate
<1>9. RefundHasRequest'
  BY <1>4, RefundAssumption DEF RefundHasRequest, Validate, refundVars, stripeVars
<1> QED BY <1>1, <1>5, <1>7, <1>8, <1>9

LEMMA ProviderLock ==
  ASSUME LockInv, NEW a \in Admins,
         \/ \E result \in {"succeeded", "pending"} :
               ProviderAnswers(a, result) \/ AnswerLost(a, result)
         \/ ProviderDeclines(a)
  PROVE  LockInv'
<1>1. TypeOK'
  BY ProviderType DEF LockInv
<1> USE DEF LockInv, TypeOK, AuditTypeOK, StripeTypeOK, CallTypeOK, Attempt
<1>2. /\ \A b \in Admins : /\ call'[b].request = call[b].request
                           /\ call'[b].amount = call[b].amount
                           /\ call'[b].pc # "idle" => call[b].pc # "idle"
                           /\ InFlight(b)' => InFlight(b)
      /\ UNCHANGED <<refundedAmount, attempts, requestAmount, requestStatus>>
  <2>1. ASSUME NEW result \in {"succeeded", "pending"}, ProviderAnswers(a, result)
        PROVE  /\ call' = [call EXCEPT ![a].pc = "audit", ![a].result = result]
               /\ call[a].pc = "provider"
               /\ UNCHANGED auditVars
    BY <2>1 DEF ProviderAnswers
  <2>2. ASSUME \/ \E result \in {"succeeded", "pending"} : AnswerLost(a, result)
               \/ ProviderDeclines(a)
        PROVE  /\ call' = [call EXCEPT ![a].pc = "failing"]
               /\ call[a].pc = "provider"
               /\ UNCHANGED auditVars
    BY <2>2 DEF AnswerLost, ProviderDeclines, Goto
  <2>3. /\ \A b \in Admins \ {a} : call'[b] = call[b]
        /\ call'[a].request = call[a].request
        /\ call'[a].amount = call[a].amount
        /\ call[a].pc = "provider"
        /\ UNCHANGED auditVars
    BY <2>1, <2>2
  <2> QED BY <2>3 DEF InFlight, auditVars
<1>3. RequestOwned'
  BY <1>2 DEF RequestOwned
<1>4. InFlightIsLatest'
  BY <1>2 DEF InFlightIsLatest
<1>5. /\ call[a].request = attempts
      /\ requestAmount[attempts] = call[a].amount
      /\ attempts \in Attempt
  BY RefundAssumption
  DEF InFlightIsLatest, InFlight, RequestOwned, ProviderAnswers, AnswerLost, ProviderDeclines
<1>6. RefundHasRequest'
  BY <1>2, <1>5, RefundAssumption
  DEF RefundHasRequest, ProviderAnswers, AnswerLost, ProviderDeclines, CreateRefund, refundVars, stripeVars
<1> QED BY <1>1, <1>2, <1>3, <1>4, <1>6 DEF RefundWithinTotal

LEMMA RecordLock ==
  ASSUME LockInv, NEW a \in Admins, RecordStep(a)
  PROVE  LockInv'
<1>1. TypeOK'
  BY RecordType DEF LockInv
<1> USE DEF LockInv, TypeOK, AuditTypeOK, StripeTypeOK, CallTypeOK, Attempt
<1>2. /\ \A b \in Admins \ {a} : call'[b] = call[b]
      /\ ~InFlight(a)'
      /\ call'[a].pc # "idle" => call'[a].request = call[a].request
      /\ call[a].pc # "idle"
      /\ UNCHANGED <<attempts, requestAmount, stripeVars>>
  BY DEF RecordStep, SaveResult, WriteRefundLedger, MarkOrderRefunded, StoreThrows,
         RecordFailure, CallDies, Goto, Return, IdleCall, InFlight, auditVars,
         SaveResultWrite, UpdateAuditRequest
<1>3. RequestOwned'
  <2>1. /\ attempts' = attempts
        /\ \A b \in Admins : call'[b].pc # "idle" =>
             call[b].pc # "idle" /\ call'[b].request = call[b].request
    BY <1>2
  <2> QED  BY <2>1 DEF RequestOwned
<1>4. \A b \in Admins \ {a} :
        InFlight(b) => call[b].request # call[a].request
  BY <1>2 DEF RequestOwned, InFlight
<1>5. /\ call[a].request \in Attempt
      /\ \A n \in Attempt \ {call[a].request} : requestStatus'[n] = requestStatus[n]
  <2>1. call[a].request \in Attempt
    BY <1>2, RefundAssumption DEF RequestOwned
  <2>2. \/ requestStatus' = requestStatus
        \/ \E status \in RequestStatus :
              requestStatus' = [requestStatus EXCEPT ![call[a].request] = status]
    BY DEF RecordStep, SaveResult, WriteRefundLedger, MarkOrderRefunded, StoreThrows,
           RecordFailure, CallDies, auditVars, SaveResultWrite, UpdateAuditRequest,
           RequestStatus
  <2> QED BY <2>1, <2>2
\* Only the call that is in flight adds to the refunded amount.
<1>6. \/ refundedAmount' = refundedAmount
      \/ InFlight(a) /\ refundedAmount' = refundedAmount + call[a].amount
  BY DEF RecordStep, SaveResult, WriteRefundLedger, MarkOrderRefunded, StoreThrows,
         RecordFailure, CallDies, auditVars, SaveResultWrite, UpdateAuditRequest, InFlight
<1>7. InFlightIsLatest'
  BY <1>2, <1>4, <1>5, <1>6 DEF InFlightIsLatest, InFlight, RequestOwned
<1>8. RefundWithinTotal'
  BY <1>6 DEF RefundWithinTotal, InFlightIsLatest
<1>9. RefundHasRequest'
  BY <1>2 DEF RefundHasRequest, refundVars, stripeVars
<1> QED BY <1>1, <1>3, <1>7, <1>8, <1>9

LEMMA EnvironmentLock ==
  ASSUME LockInv,
         \/ StripeStep
         \/ \E w \in Webhooks : (\E e \in Events : Receive(w, e)) \/ HookStep(w)
  PROVE  LockInv'
<1>1. TypeOK'
  BY StripeType, HookType DEF LockInv
<1>2. UNCHANGED <<auditVars, stripeAmount, call>>
  BY DEF StripeStep, IntentProceeds, RefundSettles, RefundReversed, HookStep, Receive,
         LinkIntent, WriteEventLedger, ApplyStatus, ApplyStatusWrite, HookFails, refundVars, stripeVars
<1>3. \A n \in Attempt : stripeStatus'[n] # "none" => stripeStatus[n] # "none"
  BY DEF LockInv, TypeOK, StripeTypeOK, StripeStep, IntentProceeds, RefundSettles,
         RefundReversed, HookStep, Receive, LinkIntent, WriteEventLedger, ApplyStatus, ApplyStatusWrite,
         HookFails, refundVars, stripeVars
<1> QED
  BY <1>1, <1>2, <1>3
  DEF LockInv, RequestOwned, InFlightIsLatest, InFlight, RefundWithinTotal,
      RefundHasRequest, auditVars

LEMMA LockNext == LockInv /\ [Next]_vars => LockInv'
<1> SUFFICES ASSUME LockInv, [Next]_vars PROVE LockInv'
  OBVIOUS
<1>1. CASE UNCHANGED vars
  BY <1>1
  DEF vars, LockInv, TypeOK, OrderTypeOK, AuditTypeOK, LedgerTypeOK, StripeTypeOK,
      CallTypeOK, HookTypeOK, RequestOwned, InFlightIsLatest, InFlight,
      RefundWithinTotal, RefundHasRequest, orderVars, auditVars, ledgerVars, refundVars, stripeVars
<1>2. ASSUME NEW a \in Admins, NEW amount \in Amounts, Validate(a, amount) PROVE LockInv'
  BY <1>2, ValidateLock
<1>3. ASSUME NEW a \in Admins, CallStep(a) PROVE LockInv'
  BY <1>3, ProviderLock, RecordLock DEF CallStep, RecordStep
<1>4. CASE \/ StripeStep
           \/ \E w \in Webhooks : (\E e \in Events : Receive(w, e)) \/ HookStep(w)
  BY <1>4, EnvironmentLock
<1> QED BY <1>1, <1>2, <1>3, <1>4 DEF Next

LEMMA LockIsInvariant == Spec => []LockInv
  BY LockInit, LockNext, PTL DEF Spec

(***************************************************************************)
(* The variables keep their types.                                         *)
(***************************************************************************)
THEOREM TypeCorrect == Spec => []TypeOK
  BY LockIsInvariant, PTL DEF LockInv

(***************************************************************************)
(* However many admins press the button, and whatever fails, at most one   *)
(* refund of an order is between validation and the recording of Stripe's  *)
(* answer.                                                                 *)
(***************************************************************************)
THEOREM RefundMutex == Spec => []OneRefundInFlight
<1>1. LockInv => OneRefundInFlight
  BY DEF LockInv, RequestOwned, InFlightIsLatest, OneRefundInFlight, InFlight
<1> QED BY <1>1, LockIsInvariant, PTL

(***************************************************************************)
(* The audit document never counts more than the order's total, although   *)
(* the check and the increment are in different transactions.              *)
(***************************************************************************)
THEOREM RefundBounded == Spec => []RefundWithinTotal
  BY LockIsInvariant, PTL DEF LockInv

(***************************************************************************)
(* Every refund Stripe made is on record under its idempotency key, with   *)
(* its amount: the intent is persisted before the provider is called.      *)
(***************************************************************************)
THEOREM RefundRecorded == Spec => []RefundHasRequest
  BY LockIsInvariant, PTL DEF LockInv

(***************************************************************************)
(* REFUNDED means refunded in full, until a pending refund is reversed.    *)
(* What the call computed from the audit it validated against still bounds *)
(* what Stripe refunded when it gets to the order; a charge.refunded event *)
(* in circulation stays true.                                              *)
(***************************************************************************)

FullyRefunded == paymentStatus = "REFUNDED" => amountRefunded = Total

BackedInv ==
  /\ AuditBackedByStripe
  /\ amountRefunded <= Total
  /\ \A a \in Admins :
       /\ call[a].pc = "provider" => call[a].next = refundedAmount + call[a].amount
       /\ call[a].pc = "audit" =>
            /\ call[a].next = refundedAmount + call[a].amount
            /\ call[a].next <= amountRefunded
       /\ call[a].pc \in {"ledger", "order"} => call[a].next <= amountRefunded
       /\ call[a].pc = "order" => Total <= call[a].next
  /\ "refunded" \in emitted => amountRefunded = Total
  /\ \A w \in Webhooks :
       hook[w].event = "refunded" => "refunded" \in emitted
  /\ FullyRefunded

LEMMA BackedInit == Init => BackedInv
  BY RefundAssumption
  DEF Init, BackedInv, AuditBackedByStripe, FullyRefunded, IdleCall, IdleHook

LEMMA ValidateBacked ==
  ASSUME LockInv, BackedInv, NEW a \in Admins, NEW amount \in Amounts, Validate(a, amount)
  PROVE  BackedInv'
<1>1. /\ \A b \in Admins \ {a} : call'[b] = call[b]
      /\ call'[a].pc = "provider"
      /\ call'[a].next = refundedAmount + amount
      /\ call'[a].amount = amount
      /\ UNCHANGED <<refundedAmount, paymentStatus, amountRefunded, emitted, hook>>
  BY DEF LockInv, TypeOK, CallTypeOK, Validate, orderVars, refundVars, stripeVars
<1> QED
  BY <1>1 DEF BackedInv, AuditBackedByStripe, FullyRefunded

LEMMA ProviderBacked ==
  ASSUME LockInv, BackedInv, NEW a \in Admins,
         \/ \E result \in {"succeeded", "pending"} :
               ProviderAnswers(a, result) \/ AnswerLost(a, result)
         \/ ProviderDeclines(a)
  PROVE  BackedInv'
<1> USE RefundAssumption DEF LockInv, TypeOK, AuditTypeOK, StripeTypeOK, CallTypeOK
<1>1. /\ call[a].pc = "provider"
      /\ \A b \in Admins \ {a} : call'[b] = call[b]
      /\ call'[a].next = call[a].next
      /\ call'[a].amount = call[a].amount
      /\ UNCHANGED <<refundedAmount, paymentStatus, hook>>
  BY DEF ProviderAnswers, AnswerLost, ProviderDeclines, Goto, auditVars, orderVars
<1>2. CASE ProviderDeclines(a)
  <2>1. call'[a].pc = "failing" /\ UNCHANGED <<amountRefunded, emitted>>
    BY <1>2 DEF ProviderDeclines, Goto, refundVars, stripeVars
  <2> QED
    BY <1>1, <2>1 DEF BackedInv, AuditBackedByStripe, FullyRefunded
<1>3. CASE \E result \in {"succeeded", "pending"} :
             ProviderAnswers(a, result) \/ AnswerLost(a, result)
  <2>1. /\ call'[a].pc \in {"audit", "failing"}
        /\ call[a].amount <= Total - amountRefunded
        /\ amountRefunded' = amountRefunded + call[a].amount
        /\ \/ emitted' = emitted
           \/ emitted' = emitted \cup {"refunded"} /\ amountRefunded' = Total
    BY <1>3 DEF ProviderAnswers, AnswerLost, Goto, CreateRefund
  <2>2. /\ call[a].amount \in Nat /\ amountRefunded \in Int /\ refundedAmount \in Nat
        /\ \A b \in Admins : call[b].next \in Nat
    OBVIOUS
  \* Once the charge is refunded in full, nothing more can be refunded.
  <2>3. amountRefunded = Total => amountRefunded' = Total
    BY <2>1, <2>2
  <2>4. "refunded" \in emitted' => amountRefunded' = Total
    BY <2>1, <2>2, <2>3 DEF BackedInv
  <2>5. \A b \in Admins :
          /\ call'[b].pc = "provider" => call'[b].next = refundedAmount' + call'[b].amount
          /\ call'[b].pc = "audit" =>
               /\ call'[b].next = refundedAmount' + call'[b].amount
               /\ call'[b].next <= amountRefunded'
          /\ call'[b].pc \in {"ledger", "order"} => call'[b].next <= amountRefunded'
          /\ call'[b].pc = "order" => Total <= call'[b].next
    BY <1>1, <2>1, <2>2 DEF BackedInv, AuditBackedByStripe
  <2>6. AuditBackedByStripe' /\ FullyRefunded' /\ amountRefunded' <= Total
    BY <1>1, <2>1, <2>2, <2>3 DEF BackedInv, AuditBackedByStripe, FullyRefunded
  <2>7. \A w \in Webhooks : hook'[w].event = "refunded" => "refunded" \in emitted'
    BY <1>1, <2>1 DEF BackedInv
  <2> QED BY <2>4, <2>5, <2>6, <2>7 DEF BackedInv
<1> QED BY <1>2, <1>3

LEMMA RecordBacked ==
  ASSUME LockInv, BackedInv, NEW a \in Admins, RecordStep(a)
  PROVE  BackedInv'
<1> USE RefundAssumption DEF LockInv, TypeOK, AuditTypeOK, StripeTypeOK, CallTypeOK
<1>1. /\ \A b \in Admins \ {a} : call'[b] = call[b]
      /\ call'[a].pc \in {"idle", "ledger", "order", "failing"}
      /\ call'[a].pc = "ledger" => call[a].pc = "audit"
      /\ call'[a].pc = "order" => call[a].pc = "ledger" /\ call[a].next >= Total
      /\ call'[a].pc # "idle" => call'[a].next = call[a].next
      /\ UNCHANGED <<amountRefunded, emitted, hook>>
  BY DEF RecordStep, SaveResult, WriteRefundLedger, MarkOrderRefunded, StoreThrows,
         RecordFailure, CallDies, Goto, Return, IdleCall, refundVars, stripeVars
<1>2. \/ refundedAmount' = refundedAmount
      \/ call[a].pc = "audit" /\ refundedAmount' = refundedAmount + call[a].amount
  BY DEF RecordStep, SaveResult, WriteRefundLedger, MarkOrderRefunded, StoreThrows,
         RecordFailure, CallDies, auditVars, SaveResultWrite, UpdateAuditRequest
\* An invocation that moves the counter is the only one in flight.
<1>3. call[a].pc = "audit" => \A b \in Admins \ {a} : ~InFlight(b)
  BY DEF InFlightIsLatest, InFlight, RequestOwned
<1>4. \A b \in Admins \ {a} : InFlight(b) => refundedAmount' = refundedAmount
  BY <1>2, <1>3
<1>5. \/ paymentStatus' = paymentStatus
      \/ call[a].pc = "order"
  BY DEF RecordStep, SaveResult, WriteRefundLedger, MarkOrderRefunded, StoreThrows,
         RecordFailure, CallDies, orderVars
<1>6. AuditBackedByStripe'
  BY <1>1, <1>2 DEF BackedInv, AuditBackedByStripe
<1>7. FullyRefunded'
  BY <1>1, <1>5 DEF BackedInv, FullyRefunded
<1>8. \A b \in Admins :
        /\ call'[b].pc = "provider" => call'[b].next = refundedAmount' + call'[b].amount
        /\ call'[b].pc = "audit" =>
             /\ call'[b].next = refundedAmount' + call'[b].amount
             /\ call'[b].next <= amountRefunded'
        /\ call'[b].pc \in {"ledger", "order"} => call'[b].next <= amountRefunded'
        /\ call'[b].pc = "order" => Total <= call'[b].next
  <2>1. ASSUME NEW b \in Admins \ {a}
        PROVE  /\ call'[b].pc = "provider" => call'[b].next = refundedAmount' + call'[b].amount
               /\ call'[b].pc = "audit" =>
                    /\ call'[b].next = refundedAmount' + call'[b].amount
                    /\ call'[b].next <= amountRefunded'
               /\ call'[b].pc \in {"ledger", "order"} => call'[b].next <= amountRefunded'
               /\ call'[b].pc = "order" => Total <= call'[b].next
    BY <1>1, <1>4 DEF BackedInv, InFlight
  <2>2. /\ call'[a].pc \in {"ledger", "order"} => call'[a].next <= amountRefunded'
        /\ call'[a].pc = "order" => Total <= call'[a].next
    BY <1>1 DEF BackedInv
  <2> QED BY <1>1, <2>1, <2>2
<1> QED
  BY <1>1, <1>6, <1>7, <1>8 DEF BackedInv

LEMMA StripeBacked ==
  ASSUME LockInv, BackedInv, StripeStep, ~ SomeReversed'
  PROVE  BackedInv'
<1> USE DEF LockInv, TypeOK, StripeTypeOK
<1>1. /\ UNCHANGED <<refundedAmount, paymentStatus, amountRefunded, call, hook>>
      /\ "refunded" \in emitted' <=> "refunded" \in emitted
  BY DEF StripeStep, IntentProceeds, RefundSettles, RefundReversed, orderVars,
         auditVars, IntentEvents, SomeReversed
<1> QED
  BY <1>1 DEF BackedInv, AuditBackedByStripe, FullyRefunded

LEMMA HookBacked ==
  ASSUME LockInv, BackedInv, NEW w \in Webhooks,
         (\E e \in Events : Receive(w, e)) \/ HookStep(w)
  PROVE  BackedInv'
<1>1. UNCHANGED <<refundedAmount, amountRefunded, emitted, call>>
  BY DEF HookStep, Receive, LinkIntent, WriteEventLedger, ApplyStatus, ApplyStatusWrite, HookFails,
         auditVars, refundVars, stripeVars
<1>2. \A v \in Webhooks : hook'[v].event = "refunded" => "refunded" \in emitted'
  <2>1. \A v \in Webhooks \ {w} : hook'[v] = hook[v]
    BY DEF LockInv, TypeOK, HookTypeOK, HookStep, Receive, LinkIntent,
           WriteEventLedger, ApplyStatus, ApplyStatusWrite, HookFails
  <2>2. hook'[w].event = "refunded" => "refunded" \in emitted
    <3>1. ASSUME NEW e \in Events, Receive(w, e) PROVE hook'[w].event = e /\ e \in emitted
      BY <3>1 DEF LockInv, TypeOK, HookTypeOK, Receive
    <3>2. CASE HookStep(w)
      BY <3>2 DEF BackedInv, LockInv, TypeOK, HookTypeOK, HookStep, LinkIntent,
         WriteEventLedger, ApplyStatus, ApplyStatusWrite, HookFails, IdleHook
    <3> QED BY <3>1, <3>2
  <2> QED BY <1>1, <2>1, <2>2 DEF BackedInv
<1>3. FullyRefunded'
  <2>1. \/ paymentStatus' = paymentStatus
        \/ paymentStatus' = StatusOf(hook[w].event)
    BY DEF HookStep, Receive, LinkIntent, WriteEventLedger, ApplyStatus, ApplyStatusWrite, HookFails, orderVars
  <2>2. StatusOf(hook[w].event) = "REFUNDED" => hook[w].event = "refunded"
    BY DEF LockInv, TypeOK, HookTypeOK, StatusOf, Events, IntentEvents
  <2> QED BY <1>1, <2>1, <2>2 DEF BackedInv, FullyRefunded
<1> QED BY <1>1, <1>2, <1>3 DEF BackedInv, AuditBackedByStripe

\* A request that is about to be sent to Stripe has no refund there.
Fresh ==
  \A a \in Admins : call[a].pc = "provider" => stripeStatus[call[a].request] = "none"

LEMMA FreshNext ==
  ASSUME LockInv, Fresh, [Next]_vars
  PROVE  Fresh'
<1> USE DEF LockInv, TypeOK, StripeTypeOK, AuditTypeOK, CallTypeOK, Fresh
<1>1. CASE UNCHANGED vars
  BY <1>1 DEF vars, refundVars, stripeVars
<1>2. ASSUME NEW a \in Admins, NEW amount \in Amounts, Validate(a, amount) PROVE Fresh'
  <2>1. /\ \A b \in Admins \ {a} : call'[b] = call[b]
        /\ call'[a].request = attempts + 1
        /\ attempts + 1 \in Attempt
        /\ UNCHANGED stripeStatus
    BY <1>2, RefundAssumption DEF Validate, refundVars, stripeVars, Attempt
  <2>2. stripeStatus[attempts + 1] = "none"
    BY <2>1 DEF RefundHasRequest
  <2> QED BY <2>1, <2>2
<1>3. ASSUME NEW a \in Admins, CallStep(a) PROVE Fresh'
  <2>1. /\ \A b \in Admins \ {a} : call'[b] = call[b]
        /\ call'[a].pc # "provider"
    BY <1>3 DEF CallStep, ProviderAnswers, AnswerLost, ProviderDeclines, SaveResult,
                WriteRefundLedger, MarkOrderRefunded, StoreThrows, RecordFailure, CallDies,
                Goto, Return, IdleCall
  <2>2. \A b \in Admins \ {a} : call[b].pc = "provider" =>
            stripeStatus'[call[b].request] = stripeStatus[call[b].request]
    <3>1. CASE \E result \in {"succeeded", "pending"} :
                 ProviderAnswers(a, result) \/ AnswerLost(a, result)
      <4>1. \E result \in {"succeeded", "pending"} :
               stripeStatus' = [stripeStatus EXCEPT ![call[a].request] = result]
        BY <3>1 DEF ProviderAnswers, AnswerLost, CreateRefund
      <4>2. call[a].pc = "provider"
        BY <3>1 DEF ProviderAnswers, AnswerLost
      <4>3. \A b \in Admins \ {a} : call[b].pc = "provider" =>
               call[b].request # call[a].request
        BY <4>2 DEF RequestOwned
      <4> QED BY <4>1, <4>3
    <3>2. CASE ProviderDeclines(a)
      BY <3>2 DEF ProviderDeclines, refundVars, stripeVars
    <3>3. CASE RecordStep(a)
      BY <3>3 DEF RecordStep, SaveResult, WriteRefundLedger, MarkOrderRefunded, StoreThrows,
                  RecordFailure, CallDies, refundVars, stripeVars
    <3> QED BY <1>3, <3>1, <3>2, <3>3 DEF CallStep, RecordStep
  <2> QED BY <2>1, <2>2
<1>4. CASE StripeStep
  <2>1. \A n \in Attempt : stripeStatus[n] = "none" => stripeStatus'[n] = "none"
    BY <1>4 DEF StripeStep, IntentProceeds, RefundSettles, RefundReversed
  <2>2. UNCHANGED call
    BY <1>4 DEF StripeStep, IntentProceeds, RefundSettles, RefundReversed
  <2>3. \A a \in Admins : call[a].pc = "provider" => call[a].request \in Attempt
    BY RefundAssumption DEF RequestOwned, Attempt
  <2> QED BY <2>1, <2>2, <2>3
<1>5. ASSUME NEW w \in Webhooks, (\E e \in Events : Receive(w, e)) \/ HookStep(w)
      PROVE  Fresh'
  BY <1>5 DEF HookStep, Receive, LinkIntent, WriteEventLedger, ApplyStatus, ApplyStatusWrite, HookFails,
              refundVars, stripeVars
<1> QED BY <1>1, <1>2, <1>3, <1>4, <1>5 DEF Next

LEMMA FreshIsInvariant == Spec => []Fresh
<1>1. Init => Fresh
  BY DEF Init, Fresh, IdleCall
<1>2. LockInv /\ Fresh /\ [Next]_vars => Fresh'
  BY FreshNext
<1> QED BY <1>1, <1>2, LockIsInvariant, PTL DEF Spec

LEMMA ReversedStays ==
  ASSUME LockInv, Fresh, SomeReversed, [Next]_vars
  PROVE  SomeReversed'
<1> USE DEF LockInv, TypeOK, StripeTypeOK, AuditTypeOK, CallTypeOK
<1> PICK n \in Attempt : stripeStatus[n] = "failed"
  BY DEF SomeReversed
<1> SUFFICES stripeStatus'[n] = "failed"
  BY DEF SomeReversed
<1>1. CASE UNCHANGED vars
  BY <1>1 DEF vars, refundVars, stripeVars
<1>2. ASSUME NEW a \in Admins, NEW amount \in Amounts, Validate(a, amount)
      PROVE  stripeStatus'[n] = "failed"
  BY <1>2 DEF Validate, refundVars, stripeVars
<1>3. ASSUME NEW a \in Admins, CallStep(a) PROVE stripeStatus'[n] = "failed"
  <2>1. CASE \E result \in {"succeeded", "pending"} :
               ProviderAnswers(a, result) \/ AnswerLost(a, result)
    \* The request of a running call has no refund at Stripe yet.
    <3>1. call[a].pc = "provider" /\ call[a].request # n
      BY <2>1 DEF ProviderAnswers, AnswerLost, Fresh
    <3> QED BY <2>1, <3>1 DEF ProviderAnswers, AnswerLost, CreateRefund
  <2>2. CASE ProviderDeclines(a)
    BY <2>2 DEF ProviderDeclines, refundVars, stripeVars
  <2>3. CASE RecordStep(a)
    BY <2>3 DEF RecordStep, SaveResult, WriteRefundLedger, MarkOrderRefunded, StoreThrows,
                RecordFailure, CallDies, refundVars, stripeVars
  <2> QED BY <1>3, <2>1, <2>2, <2>3 DEF CallStep, RecordStep
<1>4. CASE StripeStep
  BY <1>4 DEF StripeStep, IntentProceeds, RefundSettles, RefundReversed
<1>5. ASSUME NEW w \in Webhooks, (\E e \in Events : Receive(w, e)) \/ HookStep(w)
      PROVE  stripeStatus'[n] = "failed"
  BY <1>5 DEF HookStep, Receive, LinkIntent, WriteEventLedger, ApplyStatus, ApplyStatusWrite, HookFails,
              refundVars, stripeVars
<1> QED BY <1>1, <1>2, <1>3, <1>4, <1>5 DEF Next

LEMMA BackedNext ==
  LockInv /\ Fresh /\ (BackedInv \/ SomeReversed) /\ [Next]_vars
      => (BackedInv \/ SomeReversed)'
<1> SUFFICES ASSUME LockInv, BackedInv, [Next]_vars, ~ SomeReversed' PROVE BackedInv'
  BY ReversedStays
<1>1. CASE UNCHANGED vars
  BY <1>1 DEF vars, BackedInv, AuditBackedByStripe, FullyRefunded,
     orderVars, auditVars, ledgerVars, refundVars, stripeVars
<1>2. ASSUME NEW a \in Admins, NEW amount \in Amounts, Validate(a, amount) PROVE BackedInv'
  BY <1>2, ValidateBacked
<1>3. ASSUME NEW a \in Admins, CallStep(a) PROVE BackedInv'
  BY <1>3, ProviderBacked, RecordBacked DEF CallStep, RecordStep
<1>4. CASE StripeStep
  BY <1>4, StripeBacked
<1>5. ASSUME NEW w \in Webhooks, (\E e \in Events : Receive(w, e)) \/ HookStep(w)
      PROVE  BackedInv'
  BY <1>5, HookBacked
<1> QED BY <1>1, <1>2, <1>3, <1>4, <1>5 DEF Next

LEMMA BackedIsInvariant == Spec => [](BackedInv \/ SomeReversed)
<1>1. Init => BackedInv \/ SomeReversed
  BY BackedInit
<1>2. LockInv /\ Fresh /\ (BackedInv \/ SomeReversed) /\ [Next]_vars
        => (BackedInv \/ SomeReversed)'
  BY BackedNext
<1> QED BY <1>1, <1>2, FreshIsInvariant, LockIsInvariant, PTL DEF Spec

(***************************************************************************)
(* An order shown as REFUNDED was refunded in full, by the admin call or   *)
(* by the webhook, in any order and with any number of deliveries, unless  *)
(* Stripe reversed a refund.                                               *)
(***************************************************************************)
THEOREM RefundedIsFull == Spec => []RefundedOnlyWhenFull
<1>1. BackedInv \/ SomeReversed => RefundedOnlyWhenFull
  BY DEF BackedInv, FullyRefunded, RefundedOnlyWhenFull
<1> QED BY <1>1, BackedIsInvariant, PTL

(***************************************************************************)
(* What the history says of a request, and how far the call that works on  *)
(* it is.                                                                  *)
(***************************************************************************)

HistoryInv ==
  /\ \A n \in Attempt : n > attempts => requestStatus[n] = "NONE"
  /\ \A n \in Attempt : requestAmount[n] <= Total
  /\ \A a \in Admins : call[a].pc # "idle" => requestAmount[call[a].request] = call[a].amount
  /\ \A a \in Admins : call[a].pc \in {"audit", "ledger", "order"} =>
       stripeStatus[call[a].request] # "none"
  /\ \A a \in Admins : call[a].pc = "audit" /\ call[a].result = "succeeded" =>
       stripeStatus[call[a].request] = "succeeded"
  /\ \A n \in Attempt : requestStatus[n] \in {"COMPLETED", "PENDING"} => stripeStatus[n] # "none"

\* A call that is running works on a request, of which Stripe knows nothing
\* before it is asked.
LEMMA CallFact ==
  ASSUME LockInv, NEW a \in Admins, call[a].pc # "idle"
  PROVE  /\ call[a].request \in Attempt /\ call[a].request <= attempts
         /\ call[a].amount \in Nat /\ attempts \in Attempt
BY RefundAssumption
DEF LockInv, RequestOwned, TypeOK, AuditTypeOK, CallTypeOK, Attempt

\* Stripe's answer, or its loss.
Answered(a, result) == ProviderAnswers(a, result) \/ AnswerLost(a, result)

\* What an answer changes: the refund of the call's request is made.
LEMMA AnsweredFact ==
  ASSUME LockInv, Fresh, NEW a \in Admins, NEW result \in {"succeeded", "pending"},
         Answered(a, result)
  PROVE  LET n == call[a].request IN
         /\ n \in Attempt /\ n = attempts /\ stripeStatus[n] = "none"
         /\ call[a].pc = "provider" /\ call[a].amount \in Nat
         /\ requestStatus[n] = "PROCESSING" /\ requestAmount[n] = call[a].amount
         /\ call[a].amount <= Total - amountRefunded
         /\ stripeAmount' = [stripeAmount EXCEPT ![n] = call[a].amount]
         /\ stripeStatus' = [stripeStatus EXCEPT ![n] = result]
         /\ amountRefunded' = amountRefunded + call[a].amount
         /\ lastRefund' = n
         /\ emitted' \subseteq emitted \cup {"refunded"} /\ emitted \subseteq emitted'
         /\ \A b \in Admins \ {a} : call'[b] = call[b]
         /\ call'[a].request = n /\ call'[a].amount = call[a].amount
         /\ \/ call'[a].pc = "audit" /\ call'[a].result = result
            \/ call'[a].pc = "failing"
         /\ UNCHANGED <<auditVars, ledgerVars, orderVars, hook>>
<1>1. call[a].pc = "provider"
  BY DEF Answered, ProviderAnswers, AnswerLost
<1>2. call[a].request \in Attempt /\ call[a].amount \in Nat
  BY <1>1, CallFact
<1>3. /\ call[a].request = attempts /\ requestStatus[attempts] = "PROCESSING"
      /\ requestAmount[attempts] = call[a].amount
  BY <1>1 DEF LockInv, InFlightIsLatest, InFlight
<1>4. stripeStatus[call[a].request] = "none"
  BY <1>1 DEF Fresh
<1>5. CreateRefund(call[a].request, call[a].amount, result)
  BY DEF Answered, ProviderAnswers, AnswerLost
<1>6. /\ \A b \in Admins \ {a} : call'[b] = call[b]
      /\ call'[a].request = call[a].request /\ call'[a].amount = call[a].amount
      /\ \/ call'[a].pc = "audit" /\ call'[a].result = result
         \/ call'[a].pc = "failing"
      /\ UNCHANGED <<auditVars, ledgerVars, orderVars, hook>>
  BY DEF Answered, ProviderAnswers, AnswerLost, Goto, LockInv, TypeOK, CallTypeOK
<1> QED  BY <1>1, <1>2, <1>3, <1>4, <1>5, <1>6 DEF CreateRefund

\* What a step that records an answer changes: the status of its request.
LEMMA RecordFact ==
  ASSUME LockInv, NEW a \in Admins, RecordStep(a)
  PROVE  LET n == call[a].request IN
         /\ call[a].pc # "idle" /\ n \in Attempt /\ n <= attempts
         /\ \A b \in Admins \ {a} : call'[b] = call[b]
         /\ call'[a].pc \in {"idle", "ledger", "order", "failing"}
         /\ call'[a].pc \in {"ledger", "order"} => call[a].pc \in {"audit", "ledger"}
         /\ call'[a].pc # "idle" =>
              call'[a].request = n /\ call'[a].amount = call[a].amount
         /\ UNCHANGED <<stripeVars, attempts, requestAmount, hook>>
         /\ \A m \in Attempt \ {n} : requestStatus'[m] = requestStatus[m]
         /\ \/ UNCHANGED <<refundedAmount, requestStatus>>
            \/ /\ call[a].pc = "audit" /\ call[a].result = "succeeded"
               /\ requestStatus'[n] = "COMPLETED"
               /\ refundedAmount' = refundedAmount + call[a].amount
            \/ /\ call[a].pc = "audit" /\ call[a].result = "pending"
               /\ requestStatus'[n] = "PENDING"
               /\ refundedAmount' = refundedAmount
            \/ /\ call[a].pc = "failing" /\ requestStatus'[n] = "FAILED"
               /\ refundedAmount' = refundedAmount
<1> USE DEF LockInv, TypeOK, AuditTypeOK, CallTypeOK
<1>1. call[a].pc # "idle"
  BY DEF RecordStep, SaveResult, WriteRefundLedger, MarkOrderRefunded, StoreThrows,
         RecordFailure, CallDies
<1>2. /\ call[a].request \in Attempt /\ call[a].request <= attempts
      /\ refundedAmount \in Nat /\ call[a].amount \in Nat
      /\ requestStatus \in [Attempt -> RequestStatus \cup {"NONE"}]
      /\ call[a].result \in {"succeeded", "pending"}
  BY <1>1, CallFact
<1>3. /\ \A b \in Admins \ {a} : call'[b] = call[b]
      /\ call'[a].pc \in {"idle", "ledger", "order", "failing"}
      /\ call'[a].pc \in {"ledger", "order"} => call[a].pc \in {"audit", "ledger"}
      /\ call'[a].pc # "idle" =>
           call'[a].request = call[a].request /\ call'[a].amount = call[a].amount
      /\ UNCHANGED <<stripeVars, attempts, requestAmount, hook>>
  BY DEF RecordStep, SaveResult, WriteRefundLedger, MarkOrderRefunded, StoreThrows,
         RecordFailure, CallDies, Goto, Return, IdleCall, auditVars, SaveResultWrite,
         UpdateAuditRequest
<1>4. \/ UNCHANGED <<refundedAmount, requestStatus>>
      \/ call[a].pc = "audit" /\ SaveResultWrite(a)
      \/ call[a].pc = "failing" /\ UpdateAuditRequest(call[a].request, "FAILED", 0)
  BY DEF RecordStep, SaveResult, WriteRefundLedger, MarkOrderRefunded, StoreThrows,
         RecordFailure, CallDies, auditVars
<1>5. CASE call[a].pc = "audit" /\ SaveResultWrite(a)
  BY <1>1, <1>2, <1>3, <1>5 DEF SaveResultWrite, UpdateAuditRequest
<1>6. CASE call[a].pc = "failing" /\ UpdateAuditRequest(call[a].request, "FAILED", 0)
  BY <1>1, <1>2, <1>3, <1>6 DEF UpdateAuditRequest
<1>7. CASE UNCHANGED <<refundedAmount, requestStatus>>
  BY <1>1, <1>2, <1>3, <1>7
<1> QED  BY <1>4, <1>5, <1>6, <1>7

\* What a validation changes: it adds a request that Stripe does not know.
LEMMA ValidateFact ==
  ASSUME LockInv, NEW a \in Admins, NEW amount \in Amounts, Validate(a, amount)
  PROVE  LET n == attempts + 1 IN
         /\ n \in Attempt /\ stripeStatus[n] = "none"
         /\ amount \in Nat /\ amount <= Total
         /\ attempts' = n
         /\ requestAmount' = [requestAmount EXCEPT ![n] = amount]
         /\ requestStatus' = [requestStatus EXCEPT ![n] = "PROCESSING"]
         /\ \A b \in Admins \ {a} : call'[b] = call[b]
         /\ call'[a].pc = "provider" /\ call'[a].request = n /\ call'[a].amount = amount
         /\ UNCHANGED <<refundedAmount, stripeVars, ledgerVars, orderVars, hook>>
<1> USE DEF LockInv, TypeOK, AuditTypeOK, CallTypeOK, Attempt
<1>1. attempts + 1 \in Attempt /\ amount \in Nat /\ amount <= Total
  BY RefundAssumption DEF Validate, Remaining
<1>2. stripeStatus[attempts + 1] = "none"
  BY <1>1 DEF RefundHasRequest
<1> QED  BY <1>1, <1>2 DEF Validate

\* What the provider's own steps and the deliveries leave alone.
LEMMA EnvironmentFact ==
  ASSUME LockInv,
         \/ StripeStep
         \/ \E w \in Webhooks : (\E e \in Events : Receive(w, e)) \/ HookStep(w)
  PROVE  /\ UNCHANGED <<auditVars, call, stripeAmount, lastRefund, setting>>
         /\ \A n \in Attempt :
              \/ stripeStatus'[n] = stripeStatus[n]
              \/ stripeStatus[n] = "pending" /\ stripeStatus'[n] \in {"succeeded", "failed"}
<1>1. CASE StripeStep
  BY <1>1 DEF LockInv, TypeOK, StripeTypeOK, StripeStep, IntentProceeds, RefundSettles,
     RefundReversed, orderVars, refundVars, stripeVars
<1>2. ASSUME NEW w \in Webhooks, (\E e \in Events : Receive(w, e)) \/ HookStep(w)
      PROVE  UNCHANGED <<auditVars, call, refundVars, setting>>
  BY <1>2 DEF HookStep, Receive, LinkIntent, WriteEventLedger, ApplyStatus, ApplyStatusWrite,
     HookFails, orderVars, stripeVars
<1> QED  BY <1>1, <1>2 DEF refundVars, stripeVars

LEMMA HistoryNext ==
  ASSUME LockInv, Fresh, HistoryInv, [Next]_vars
  PROVE  HistoryInv'
<1>0. /\ attempts \in Nat /\ \A n \in Attempt : n \in Nat
      /\ stripeStatus \in [Attempt -> {"none", "pending", "succeeded", "failed"}]
      /\ requestStatus \in [Attempt -> RequestStatus \cup {"NONE"}]
      /\ requestAmount \in [Attempt -> Nat]
      /\ \A a \in Admins : call[a].pc # "idle" => call[a].request \in Attempt
  BY CallFact DEF LockInv, TypeOK, AuditTypeOK, StripeTypeOK, Attempt
<1>1. CASE UNCHANGED vars
  BY <1>1 DEF vars, auditVars, refundVars, stripeVars, HistoryInv
<1>2. ASSUME NEW a \in Admins, NEW amount \in Amounts, Validate(a, amount)
      PROVE  HistoryInv'
  <2> DEFINE n == attempts + 1
  <2>1. /\ n \in Attempt /\ stripeStatus[n] = "none" /\ amount <= Total
        /\ attempts' = n
        /\ requestAmount' = [requestAmount EXCEPT ![n] = amount]
        /\ requestStatus' = [requestStatus EXCEPT ![n] = "PROCESSING"]
        /\ \A b \in Admins \ {a} : call'[b] = call[b]
        /\ call'[a].pc = "provider" /\ call'[a].request = n /\ call'[a].amount = amount
        /\ UNCHANGED <<stripeStatus, stripeAmount>>
    BY <1>2, ValidateFact DEF refundVars, stripeVars
  <2>2. \A b \in Admins \ {a} : call[b].pc # "idle" => call[b].request # n
    BY <1>0, CallFact
  <2> HIDE DEF n
  <2>3. /\ \A m \in Attempt \ {n} : requestAmount'[m] = requestAmount[m]
                                    /\ requestStatus'[m] = requestStatus[m]
        /\ requestAmount'[n] = amount /\ requestStatus'[n] = "PROCESSING"
    BY <1>0, <2>1
  <2>4. \A m \in Attempt : m > n => requestStatus'[m] = "NONE"
    <3>1. \A m \in Attempt : m > n => m > attempts /\ m # n
      BY <1>0 DEF n
    <3> QED  BY <2>3, <3>1 DEF HistoryInv
  <2> QED  BY <1>0, <2>1, <2>2, <2>3, <2>4 DEF HistoryInv
<1>3. ASSUME NEW a \in Admins, NEW result \in {"succeeded", "pending"}, Answered(a, result)
      PROVE  HistoryInv'
  <2> DEFINE n == call[a].request
  <2>1. /\ n \in Attempt /\ call[a].pc = "provider"
        /\ stripeStatus' = [stripeStatus EXCEPT ![n] = result]
        /\ \A b \in Admins \ {a} : call'[b] = call[b]
        /\ call'[a].request = n /\ call'[a].amount = call[a].amount
        /\ \/ call'[a].pc = "audit" /\ call'[a].result = result
           \/ call'[a].pc = "failing"
        /\ UNCHANGED <<requestAmount, requestStatus, attempts>>
    BY <1>3, AnsweredFact DEF auditVars
  <2>2. \A b \in Admins \ {a} : call[b].pc # "idle" => call[b].request # n
    BY <2>1 DEF LockInv, RequestOwned
  <2> HIDE DEF n
  <2>3. stripeStatus'[n] = result /\ \A m \in Attempt \ {n} : stripeStatus'[m] = stripeStatus[m]
    BY <1>0, <2>1
  <2> QED  BY <1>0, <2>1, <2>2, <2>3 DEF HistoryInv, n
<1>4. ASSUME NEW a \in Admins, ProviderDeclines(a) PROVE HistoryInv'
  <2>1. /\ call' = [call EXCEPT ![a].pc = "failing"]
        /\ call[a].pc = "provider"
        /\ UNCHANGED <<auditVars, stripeVars>>
    BY <1>4 DEF ProviderDeclines, Goto
  <2>2. /\ \A b \in Admins \ {a} : call'[b] = call[b]
        /\ call'[a].pc = "failing" /\ call'[a].request = call[a].request
        /\ call'[a].amount = call[a].amount
    BY <2>1 DEF LockInv, TypeOK, CallTypeOK
  <2> QED  BY <2>1, <2>2 DEF HistoryInv, auditVars, refundVars, stripeVars
<1>5. ASSUME NEW a \in Admins, RecordStep(a) PROVE HistoryInv'
  <2> DEFINE n == call[a].request
  <2>1. /\ call[a].pc # "idle" /\ n \in Attempt /\ n <= attempts
        /\ \A b \in Admins \ {a} : call'[b] = call[b]
        /\ call'[a].pc \in {"idle", "ledger", "order", "failing"}
        /\ call'[a].pc \in {"ledger", "order"} => call[a].pc \in {"audit", "ledger"}
        /\ call'[a].pc # "idle" =>
             call'[a].request = n /\ call'[a].amount = call[a].amount
        /\ UNCHANGED <<stripeStatus, attempts, requestAmount>>
        /\ \A m \in Attempt \ {n} : requestStatus'[m] = requestStatus[m]
        /\ \/ requestStatus' = requestStatus
           \/ requestStatus'[n] = "FAILED"
           \/ call[a].pc = "audit"
    BY <1>5, RecordFact DEF refundVars, stripeVars
  <2>2. n <= attempts => ~ (n > attempts)
    BY <1>0, <2>1
  <2> HIDE DEF n
  <2>3. \A m \in Attempt : m > attempts => requestStatus'[m] = "NONE"
    BY <2>1, <2>2 DEF HistoryInv
  <2>4. \A m \in Attempt : requestStatus'[m] \in {"COMPLETED", "PENDING"} => stripeStatus[m] # "none"
    BY <2>1 DEF HistoryInv, n
  <2>5. \A b \in Admins : call'[b].pc # "idle" => requestAmount'[call'[b].request] = call'[b].amount
    BY <2>1 DEF HistoryInv, n
  <2>6. \A b \in Admins : call'[b].pc \in {"audit", "ledger", "order"} =>
          stripeStatus'[call'[b].request] # "none"
    BY <2>1 DEF HistoryInv, n
  <2>7. \A b \in Admins : call'[b].pc = "audit" /\ call'[b].result = "succeeded" =>
          stripeStatus'[call'[b].request] = "succeeded"
    BY <2>1 DEF HistoryInv
  <2>8. (\A m \in Attempt : requestAmount[m] <= Total)'
    BY <2>1 DEF HistoryInv
  <2> QED  BY <2>1, <2>3, <2>4, <2>5, <2>6, <2>7, <2>8 DEF HistoryInv
<1>6. CASE \/ StripeStep
           \/ \E w \in Webhooks : (\E e \in Events : Receive(w, e)) \/ HookStep(w)
  BY <1>0, <1>6, EnvironmentFact DEF HistoryInv, auditVars
<1> QED
  BY <1>1, <1>2, <1>3, <1>4, <1>5, <1>6 DEF Next, CallStep, RecordStep, Answered

\* The circumstances of an order do not change.
LEMMA SettingStays == [Next]_vars => setting' = setting
BY DEF Next, CallStep, StripeStep, HookStep, Validate, ProviderAnswers, AnswerLost,
   ProviderDeclines, SaveResult, WriteRefundLedger, MarkOrderRefunded, StoreThrows,
   RecordFailure, CallDies, OrderRefundedWrite, IntentProceeds, RefundSettles,
   RefundReversed, Receive, LinkIntent, WriteEventLedger, ApplyStatus, ApplyStatusWrite, HookFails, vars,
   orderVars

\* While the store works, a call whose request failed has not recorded that
\* yet, and what Stripe made is on record or about to be recorded.
StoreInv ==
  StoreWorks =>
    /\ \A a \in Admins : call[a].pc = "failing" => requestStatus[call[a].request] = "PROCESSING"
    /\ \A n \in Attempt : stripeStatus[n] # "none" =>
         \/ requestStatus[n] \in {"COMPLETED", "PENDING", "FAILED"}
         \/ \E a \in Admins : call[a].pc \in {"audit", "failing"} /\ call[a].request = n

\* While the store works, recording changes no status but that of a request
\* that is still PROCESSING, and ends it.
LEMMA RecordStore ==
  ASSUME LockInv, StoreInv, StoreWorks, NEW a \in Admins, RecordStep(a)
  PROVE  LET n == call[a].request IN
         /\ call'[a].pc # "failing"
         /\ \/ requestStatus' = requestStatus /\ call[a].pc \notin {"audit", "failing"}
            \/ /\ requestStatus[n] = "PROCESSING"
               /\ requestStatus'[n] \in {"COMPLETED", "PENDING", "FAILED"}
<1> USE DEF LockInv, TypeOK, AuditTypeOK, CallTypeOK
<1>1. ~ StoreThrows(a) /\ ~ CallDies(a)
  BY DEF StoreWorks, StoreThrows, CallDies
<1>2. /\ call[a].request \in Attempt
      /\ requestStatus \in [Attempt -> RequestStatus \cup {"NONE"}]
  BY RecordFact
<1>3. CASE SaveResult(a)
  <2>1. requestStatus[call[a].request] = "PROCESSING"
    BY <1>3 DEF SaveResult, InFlightIsLatest, InFlight
  <2> QED
    BY <1>2, <1>3, <2>1 DEF SaveResult, SaveResultWrite, UpdateAuditRequest, Goto, Return, IdleCall
<1>4. CASE WriteRefundLedger(a) \/ MarkOrderRefunded(a)
  BY <1>4 DEF WriteRefundLedger, MarkOrderRefunded, Goto, Return, IdleCall, auditVars
<1>5. CASE RecordFailure(a)
  BY <1>2, <1>5 DEF RecordFailure, UpdateAuditRequest, StoreInv, Return, IdleCall
<1> QED  BY <1>1, <1>3, <1>4, <1>5 DEF RecordStep

LEMMA StoreNext ==
  ASSUME LockInv, Fresh, StoreInv, StoreWorks, [Next]_vars
  PROVE  StoreInv'
<1>0. /\ stripeStatus \in [Attempt -> {"none", "pending", "succeeded", "failed"}]
      /\ requestStatus \in [Attempt -> RequestStatus \cup {"NONE"}]
      /\ \A a \in Admins : call[a].pc # "idle" => call[a].request \in Attempt
      /\ \A a, b \in Admins : call[a].pc # "idle" /\ call[b].pc # "idle"
                              /\ call[a].request = call[b].request => a = b
  BY CallFact DEF LockInv, TypeOK, AuditTypeOK, StripeTypeOK, RequestOwned
<1> DEFINE Known(n) == \/ requestStatus[n] \in {"COMPLETED", "PENDING", "FAILED"}
                       \/ \E a \in Admins : call[a].pc \in {"audit", "failing"} /\ call[a].request = n
<1>10. /\ \A a \in Admins : call[a].pc = "failing" => requestStatus[call[a].request] = "PROCESSING"
       /\ \A n \in Attempt : stripeStatus[n] # "none" => Known(n)
  BY DEF StoreInv
<1> SUFFICES
      /\ \A a \in Admins : call'[a].pc = "failing" => requestStatus'[call'[a].request] = "PROCESSING"
      /\ \A n \in Attempt : stripeStatus'[n] # "none" =>
           \/ requestStatus'[n] \in {"COMPLETED", "PENDING", "FAILED"}
           \/ \E a \in Admins : call'[a].pc \in {"audit", "failing"} /\ call'[a].request = n
  BY DEF StoreInv
<1>1. CASE UNCHANGED vars
  BY <1>1, <1>10 DEF vars, auditVars, refundVars, stripeVars
<1>2. ASSUME NEW a \in Admins, NEW amount \in Amounts, Validate(a, amount)
      PROVE  /\ \A b \in Admins : call'[b].pc = "failing" => requestStatus'[call'[b].request] = "PROCESSING"
             /\ \A m \in Attempt : stripeStatus'[m] # "none" => Known(m)'
  <2> DEFINE n == attempts + 1
  <2>1. /\ n \in Attempt /\ stripeStatus[n] = "none"
        /\ requestStatus' = [requestStatus EXCEPT ![n] = "PROCESSING"]
        /\ \A b \in Admins \ {a} : call'[b] = call[b]
        /\ call'[a].pc = "provider" /\ call[a].pc = "idle"
        /\ UNCHANGED stripeStatus
    BY <1>2, ValidateFact DEF refundVars, stripeVars, Validate
  <2> HIDE DEF n
  <2>2. requestStatus'[n] = "PROCESSING" /\ \A m \in Attempt \ {n} : requestStatus'[m] = requestStatus[m]
    BY <1>0, <2>1
  <2>3. \A b \in Admins : call'[b].pc = "failing" => requestStatus'[call'[b].request] = "PROCESSING"
    BY <1>0, <1>10, <2>1, <2>2
  <2>4. \A m \in Attempt : stripeStatus'[m] # "none" => Known(m)'
    BY <1>10, <2>1, <2>2
  <2> QED  BY <2>3, <2>4
<1>3. ASSUME NEW a \in Admins, NEW result \in {"succeeded", "pending"}, Answered(a, result)
      PROVE  /\ \A b \in Admins : call'[b].pc = "failing" => requestStatus'[call'[b].request] = "PROCESSING"
             /\ \A m \in Attempt : stripeStatus'[m] # "none" => Known(m)'
  <2> DEFINE n == call[a].request
  <2>1. /\ n \in Attempt /\ call[a].pc = "provider" /\ requestStatus[n] = "PROCESSING"
        /\ stripeStatus' = [stripeStatus EXCEPT ![n] = result]
        /\ \A b \in Admins \ {a} : call'[b] = call[b]
        /\ call'[a].request = n /\ call'[a].pc \in {"audit", "failing"}
        /\ UNCHANGED requestStatus
    BY <1>3, AnsweredFact DEF auditVars
  <2> HIDE DEF n
  <2>2. \A m \in Attempt \ {n} : stripeStatus'[m] = stripeStatus[m]
    BY <1>0, <2>1
  <2> QED  BY <1>10, <2>1, <2>2
<1>4. ASSUME NEW a \in Admins, ProviderDeclines(a)
      PROVE  /\ \A b \in Admins : call'[b].pc = "failing" => requestStatus'[call'[b].request] = "PROCESSING"
             /\ \A m \in Attempt : stripeStatus'[m] # "none" => Known(m)'
  <2>1. /\ call' = [call EXCEPT ![a].pc = "failing"]
        /\ call[a].pc = "provider"
        /\ UNCHANGED <<requestStatus, stripeStatus>>
    BY <1>4 DEF ProviderDeclines, Goto, auditVars, refundVars, stripeVars
  <2>2. /\ \A b \in Admins \ {a} : call'[b] = call[b]
        /\ call'[a].pc = "failing" /\ call'[a].request = call[a].request
    BY <2>1 DEF LockInv, TypeOK, CallTypeOK
  <2>3. requestStatus[call[a].request] = "PROCESSING"
    BY <2>1 DEF LockInv, InFlightIsLatest, InFlight
  <2> QED  BY <1>10, <2>1, <2>2, <2>3
<1>5. ASSUME NEW a \in Admins, RecordStep(a)
      PROVE  /\ \A b \in Admins : call'[b].pc = "failing" => requestStatus'[call'[b].request] = "PROCESSING"
             /\ \A m \in Attempt : stripeStatus'[m] # "none" => Known(m)'
  <2> DEFINE n == call[a].request
  <2>1. /\ call[a].pc # "idle" /\ n \in Attempt
        /\ \A b \in Admins \ {a} : call'[b] = call[b]
        /\ UNCHANGED stripeStatus
        /\ \A m \in Attempt \ {n} : requestStatus'[m] = requestStatus[m]
    BY <1>5, RecordFact DEF refundVars, stripeVars
  <2>2. /\ call'[a].pc # "failing"
        /\ \/ requestStatus' = requestStatus /\ call[a].pc \notin {"audit", "failing"}
           \/ requestStatus'[n] \in {"COMPLETED", "PENDING", "FAILED"}
    BY <1>5, RecordStore
  <2>3. \A b \in Admins \ {a} : call[b].pc # "idle" => call[b].request # n
    BY <1>0, <2>1
  <2> HIDE DEF n
  <2>4. \A b \in Admins : call'[b].pc = "failing" => requestStatus'[call'[b].request] = "PROCESSING"
    BY <1>0, <1>10, <2>1, <2>2, <2>3
  <2>5. ASSUME NEW m \in Attempt, stripeStatus'[m] # "none"
        PROVE  Known(m)'
    <3>1. Known(m)
      BY <1>10, <2>1, <2>5
    <3>2. CASE requestStatus[m] \in {"COMPLETED", "PENDING", "FAILED"}
      BY <2>1, <2>2, <3>2
    <3>3. ASSUME NEW b \in Admins, call[b].pc \in {"audit", "failing"}, call[b].request = m
          PROVE  Known(m)'
      BY <2>1, <2>2, <3>3 DEF n
    <3> QED  BY <3>1, <3>2, <3>3
  <2> QED  BY <2>4, <2>5
<1>6. CASE \/ StripeStep
           \/ \E w \in Webhooks : (\E e \in Events : Receive(w, e)) \/ HookStep(w)
  BY <1>0, <1>6, <1>10, EnvironmentFact DEF auditVars
<1> QED
  BY <1>1, <1>2, <1>3, <1>4, <1>5, <1>6 DEF Next, CallStep, RecordStep, Answered

LEMMA HistoryIsInvariant == Spec => [](LockInv /\ Fresh /\ HistoryInv /\ StoreInv)
<1>1. Init => HistoryInv
  BY RefundAssumption DEF Init, HistoryInv, IdleCall
<1>2. Init => StoreInv
  BY DEF Init, StoreInv, IdleCall
<1>3. LockInv /\ Fresh /\ HistoryInv /\ [Next]_vars => HistoryInv'
  BY HistoryNext
<1>4. LockInv /\ Fresh /\ StoreInv /\ [Next]_vars => StoreInv'
  BY StoreNext, SettingStays DEF StoreInv, StoreWorks, Faults
<1> QED BY <1>1, <1>2, <1>3, <1>4, FreshIsInvariant, LockIsInvariant, PTL DEF Spec

(***************************************************************************)
(* While the store works, a request that was completed, or shown as        *)
(* failed, keeps its status: no step of any call, of a retry or of a       *)
(* delivery rewrites it.                                                   *)
(***************************************************************************)
THEOREM OutcomesAreFinal == Spec => OutcomeIsFinal
<1> DEFINE Final == StoreWorks => \A n \in Attempt :
             requestStatus[n] \in {"COMPLETED", "FAILED"} => UNCHANGED requestStatus[n]
<1>1. ASSUME LockInv, Fresh, HistoryInv, StoreInv, [Next]_vars
      PROVE  Final
  <2>0. requestStatus \in [Attempt -> RequestStatus \cup {"NONE"}] /\ attempts \in Nat
    BY <1>1 DEF LockInv, TypeOK, AuditTypeOK
  <2>1. ASSUME NEW a \in Admins, NEW amount \in Amounts, Validate(a, amount)
        PROVE  Final
    <3>1. /\ requestStatus' = [requestStatus EXCEPT ![attempts + 1] = "PROCESSING"]
          /\ attempts + 1 \in Attempt
      BY <1>1, <2>1, ValidateFact
    <3>2. requestStatus[attempts + 1] = "NONE"
      BY <1>1, <2>0, <3>1 DEF HistoryInv
    <3> QED  BY <2>0, <3>1, <3>2
  <2>2. ASSUME NEW a \in Admins, RecordStep(a) PROVE Final
    <3> SUFFICES ASSUME StoreWorks,
                        NEW n \in Attempt, requestStatus[n] \in {"COMPLETED", "FAILED"}
                 PROVE  requestStatus'[n] = requestStatus[n]
      OBVIOUS
    <3>1. n # call[a].request => requestStatus'[n] = requestStatus[n]
      BY <1>1, <2>2, RecordFact
    <3>2. n = call[a].request => requestStatus'[n] = requestStatus[n]
      BY <1>1, <2>2, RecordStore
    <3> QED  BY <3>1, <3>2
  <2>3. ASSUME NEW a \in Admins, NEW result \in {"succeeded", "pending"},
               Answered(a, result) \/ ProviderDeclines(a)
        PROVE  Final
    BY <2>3 DEF Answered, ProviderAnswers, AnswerLost, ProviderDeclines, auditVars
  <2>4. CASE \/ StripeStep
             \/ \E w \in Webhooks : (\E e \in Events : Receive(w, e)) \/ HookStep(w)
    BY <1>1, <2>4, EnvironmentFact DEF auditVars
  <2>5. CASE UNCHANGED vars
    BY <2>5 DEF vars, auditVars
  <2> HIDE DEF Final
  <2> QED
    BY <1>1, <2>1, <2>2, <2>3, <2>4, <2>5 DEF Next, CallStep, RecordStep, Answered
<1>2. LockInv /\ Fresh /\ HistoryInv /\ StoreInv /\ [Next]_vars => [Final]_auditVars
  BY <1>1
<1> QED  BY <1>2, HistoryIsInvariant, PTL DEF Spec, OutcomeIsFinal

(***************************************************************************)
(* A settled order is only taken back by a delivery that read it before    *)
(* it was settled: for any number of deliveries that do not, in any order. *)
(***************************************************************************)
THEOREM SettledStays == Spec => SettledNotDowngraded
<1> DEFINE Kept == (paymentStatus \in Settled /\ \A w \in Webhooks : ~ ReadUnsettled(w))
                     => paymentStatus' \in Settled
<1>1. ASSUME TypeOK, [Next]_vars PROVE Kept
  <2>1. ASSUME NEW w \in Webhooks, ApplyStatus(w) \/ HookFails(w) PROVE Kept
    <3> SUFFICES ASSUME paymentStatus \in Settled, ~ ReadUnsettled(w), ApplyStatusWrite(w)
                 PROVE  paymentStatus' \in Settled
      BY <2>1 DEF ApplyStatus, HookFails, orderVars
    <3>1. hook[w].seen \in Settled /\ hook[w].event \in Events
      BY <1>1, <2>1 DEF ReadUnsettled, ApplyStatus, HookFails, TypeOK, HookTypeOK
    <3> QED  BY <3>1 DEF ApplyStatusWrite, ShouldApply, StatusOf, Settled, Events, IntentEvents
  <2>2. CASE UNCHANGED paymentStatus \/ paymentStatus' = "REFUNDED"
    BY <2>2 DEF Settled
  <2>3. ASSUME NEW w \in Webhooks, LinkIntent(w) \/ WriteEventLedger(w)
                                   \/ \E e \in Events : Receive(w, e)
        PROVE  UNCHANGED paymentStatus
    BY <2>3 DEF LinkIntent, WriteEventLedger, Receive, orderVars
  <2>4. ASSUME NEW a \in Admins, CallStep(a) \/ \E amount \in Amounts : Validate(a, amount)
        PROVE  UNCHANGED paymentStatus \/ paymentStatus' = "REFUNDED"
    BY <2>4 DEF CallStep, Validate, ProviderAnswers, AnswerLost, ProviderDeclines, SaveResult,
       WriteRefundLedger, MarkOrderRefunded, StoreThrows, RecordFailure, CallDies,
       OrderRefundedWrite, orderVars
  <2>5. CASE StripeStep \/ UNCHANGED vars
    BY <2>2, <2>5 DEF StripeStep, IntentProceeds, RefundSettles, RefundReversed, vars, orderVars
  <2> HIDE DEF Kept
  <2> QED  BY <1>1, <2>1, <2>2, <2>3, <2>4, <2>5 DEF Next, HookStep
<1>2. TypeOK /\ [Next]_vars => [Kept]_orderVars
  BY <1>1
<1> QED  BY <1>2, TypeCorrect, PTL DEF Spec, SettledNotDowngraded

(***************************************************************************)
(* The money: what Stripe refunded is the sum of its live refunds, and the *)
(* audit counts some of those that succeeded, each once, and all that the  *)
(* history shows as completed.                                             *)
(***************************************************************************)

Live == {n \in Attempt : stripeStatus[n] \in {"pending", "succeeded"}}

\* Requests whose answer is about to be recorded.
Unsaved == {call[a].request : a \in {b \in Admins : call[b].pc = "audit"}}

Countable == {n \in Attempt : stripeStatus[n] = "succeeded" /\ n \notin Unsaved}

MoneyInv ==
  /\ amountRefunded = SumFunctionOnSet(stripeAmount, Live)
  /\ amountRefunded <= Total
  /\ refundedAmount <= SumFunctionOnSet(stripeAmount, Countable)
  /\ AmountOf({"COMPLETED"}) <= refundedAmount

\* The requests of an order are finitely many, and so is every set of them.
LEMMA AttemptFinite ==
  ASSUME NEW T, T \subseteq Attempt
  PROVE  IsFiniteSet(T)
<1>1. IsFiniteSet(1..MaxAttempts)
  BY FS_Interval, RefundAssumption
<1> QED  BY <1>1, FS_Subset DEF Attempt

\* What refunds of this order add up to is a number, and no less for more of them.
LEMMA AmountsFact ==
  ASSUME NEW f \in [Attempt -> Nat], NEW T, T \subseteq Attempt, NEW U, U \subseteq T
  PROVE  /\ SumFunctionOnSet(f, T) \in Nat
         /\ SumFunctionOnSet(f, U) \in Nat
         /\ SumFunctionOnSet(f, U) <= SumFunctionOnSet(f, T)
<1>1. IsFiniteSet(T) /\ IsFiniteSet(U)
  BY AttemptFinite
<1>2. Sum(f, T) \in Nat /\ Sum(f, U) \in Nat
  BY <1>1, SumNat
<1>3. Sum(f, U) <= Sum(f, T)
  BY <1>1, SumMonotone
<1> QED  BY <1>2, <1>3 DEF Sum

\* One more refund adds its amount.
LEMMA AmountAdded ==
  ASSUME NEW f \in [Attempt -> Nat], NEW T, T \subseteq Attempt,
         NEW n \in Attempt, n \notin T
  PROVE  SumFunctionOnSet(f, T \cup {n}) = SumFunctionOnSet(f, T) + f[n]
<1>1. IsFiniteSet(T)
  BY AttemptFinite
<1>2. Sum(f, T \cup {n}) = f[n] + Sum(f, T) /\ Sum(f, T) \in Nat /\ f[n] \in Nat
  BY <1>1, SumAdd, SumNat
<1> QED  BY <1>2 DEF Sum

\* The amount of a refund outside of a set does not matter to it.
LEMMA AmountElsewhere ==
  ASSUME NEW f \in [Attempt -> Nat], NEW T, T \subseteq Attempt, NEW n, n \notin T, NEW amount
  PROVE  SumFunctionOnSet([f EXCEPT ![n] = amount], T) = SumFunctionOnSet(f, T)
<1> DEFINE g == [f EXCEPT ![n] = amount]
<1>1. IsFiniteSet(T) /\ \A x \in T : g[x] = f[x]
  BY AttemptFinite
<1> HIDE DEF g
<1>2. Sum(g, T) = Sum(f, T)
  BY <1>1, SumSame
<1> QED  BY <1>2 DEF Sum, g

\* The types the sums rely on.
LEMMA MoneyTypes ==
  ASSUME LockInv
  PROVE  /\ stripeAmount \in [Attempt -> Nat] /\ requestAmount \in [Attempt -> Nat]
         /\ stripeStatus \in [Attempt -> {"none", "pending", "succeeded", "failed"}]
         /\ requestStatus \in [Attempt -> RequestStatus \cup {"NONE"}]
         /\ refundedAmount \in Nat /\ amountRefunded \in Int /\ Total \in Nat
         /\ Live \subseteq Attempt /\ Countable \subseteq Attempt
         /\ \A S : {n \in Attempt : requestStatus[n] \in S} \subseteq Attempt
BY RefundAssumption DEF LockInv, TypeOK, AuditTypeOK, StripeTypeOK, Live, Countable

LEMMA ValidateMoney ==
  ASSUME LockInv, HistoryInv, MoneyInv, NEW a \in Admins, NEW amount \in Amounts,
         Validate(a, amount)
  PROVE  MoneyInv'
<1> DEFINE n == attempts + 1
           Done == {m \in Attempt : requestStatus[m] \in {"COMPLETED"}}
<1>1. /\ n \in Attempt /\ amount \in Nat
      /\ requestAmount' = [requestAmount EXCEPT ![n] = amount]
      /\ requestStatus' = [requestStatus EXCEPT ![n] = "PROCESSING"]
      /\ \A b \in Admins \ {a} : call'[b] = call[b]
      /\ call'[a].pc = "provider" /\ call[a].pc = "idle"
      /\ UNCHANGED <<refundedAmount, stripeAmount, stripeStatus, amountRefunded>>
  BY ValidateFact DEF refundVars, stripeVars, Validate
<1>2. requestStatus[n] = "NONE"
  BY <1>1 DEF HistoryInv, LockInv, TypeOK, AuditTypeOK, Attempt
<1> HIDE DEF n
<1>3. Live' = Live
  BY <1>1 DEF Live
<1>4. Unsaved' = Unsaved
  BY <1>1 DEF Unsaved
<1>5. Countable' = Countable
  BY <1>1, <1>4 DEF Countable
<1>6. {m \in Attempt : requestStatus'[m] \in {"COMPLETED"}} = Done /\ n \notin Done
  BY <1>1, <1>2, MoneyTypes
<1>7. Done \subseteq Attempt
  OBVIOUS
<1> HIDE DEF Done
<1>8. SumFunctionOnSet([requestAmount EXCEPT ![n] = amount], Done)
        = SumFunctionOnSet(requestAmount, Done)
  BY <1>6, <1>7, MoneyTypes, AmountElsewhere
<1>9. AmountOf({"COMPLETED"})' = AmountOf({"COMPLETED"})
  BY <1>1, <1>6, <1>8 DEF AmountOf, Done
<1> QED  BY <1>1, <1>3, <1>5, <1>9 DEF MoneyInv

LEMMA AnsweredMoney ==
  ASSUME LockInv, Fresh, HistoryInv, MoneyInv, NEW a \in Admins,
         NEW result \in {"succeeded", "pending"}, Answered(a, result)
  PROVE  MoneyInv'
<1> DEFINE n == call[a].request
           amount == call[a].amount
<1>1. /\ n \in Attempt /\ stripeStatus[n] = "none" /\ call[a].pc = "provider" /\ amount \in Nat
      /\ amount <= Total - amountRefunded
      /\ stripeAmount' = [stripeAmount EXCEPT ![n] = amount]
      /\ stripeStatus' = [stripeStatus EXCEPT ![n] = result]
      /\ amountRefunded' = amountRefunded + amount
      /\ \A b \in Admins \ {a} : call'[b] = call[b]
      /\ call'[a].request = n /\ call'[a].pc \in {"audit", "failing"}
      /\ UNCHANGED <<refundedAmount, requestAmount, requestStatus>>
  BY AnsweredFact DEF auditVars
<1> HIDE DEF n, amount
<1>2. /\ n \notin Live /\ n \notin Countable
      /\ Live' = Live \cup {n}
      /\ Countable \subseteq Countable' /\ Countable' \subseteq Attempt
  <2>1. Unsaved' \subseteq Unsaved \cup {n}
    BY <1>1 DEF Unsaved
  <2>2. n \notin Live /\ n \notin Countable /\ Live' = Live \cup {n}
    BY <1>1, MoneyTypes DEF Live, Countable
  <2>3. Countable' \subseteq Attempt
    BY DEF Countable
  <2>4. Countable \subseteq Countable'
    <3> SUFFICES ASSUME NEW m \in Countable PROVE m \in Countable'
      OBVIOUS
    <3>1. m \in Attempt /\ m # n /\ stripeStatus[m] = "succeeded" /\ m \notin Unsaved
      BY <2>2 DEF Countable
    <3>2. stripeStatus'[m] = "succeeded"
      BY <1>1, <3>1, MoneyTypes
    <3> QED  BY <2>1, <3>1, <3>2 DEF Countable
  <2> QED  BY <2>2, <2>3, <2>4
<1> DEFINE after == [stripeAmount EXCEPT ![n] = amount]
<1>3. after \in [Attempt -> Nat] /\ after[n] = amount
  BY <1>1, MoneyTypes
<1>4. SumFunctionOnSet(after, Live) = SumFunctionOnSet(stripeAmount, Live)
  BY <1>2, MoneyTypes, AmountElsewhere
<1>5. SumFunctionOnSet(after, Countable) = SumFunctionOnSet(stripeAmount, Countable)
  BY <1>2, MoneyTypes, AmountElsewhere
<1>6. stripeAmount' = after
  BY <1>1
<1> HIDE DEF after
<1>7. SumFunctionOnSet(after, Live \cup {n}) = SumFunctionOnSet(after, Live) + after[n]
  BY <1>1, <1>2, <1>3, MoneyTypes, AmountAdded
<1>8. SumFunctionOnSet(after, Countable) <= SumFunctionOnSet(after, Countable')
      /\ SumFunctionOnSet(after, Countable) \in Nat /\ SumFunctionOnSet(after, Countable') \in Nat
  BY <1>2, <1>3, AmountsFact
<1>9. amountRefunded' = SumFunctionOnSet(stripeAmount', Live')
  BY <1>1, <1>2, <1>3, <1>4, <1>6, <1>7 DEF MoneyInv
<1>10. refundedAmount' <= SumFunctionOnSet(stripeAmount', Countable')
  <2>1. refundedAmount <= SumFunctionOnSet(after, Countable)
    BY <1>5 DEF MoneyInv
  <2>2. refundedAmount <= SumFunctionOnSet(after, Countable')
    BY <1>8, <2>1, MoneyTypes
  <2> QED  BY <1>1, <1>6, <2>2
<1>11. amountRefunded' <= Total
  BY <1>1, MoneyTypes
<1>12. AmountOf({"COMPLETED"})' <= refundedAmount'
  BY <1>1 DEF MoneyInv, AmountOf
<1> QED  BY <1>9, <1>10, <1>11, <1>12 DEF MoneyInv

LEMMA RecordMoney ==
  ASSUME LockInv, HistoryInv, MoneyInv, NEW a \in Admins, RecordStep(a)
  PROVE  MoneyInv'
<1> DEFINE n == call[a].request
           amount == call[a].amount
           Done == {m \in Attempt : requestStatus[m] \in {"COMPLETED"}}
           DoneAfter == {m \in Attempt : requestStatus'[m] \in {"COMPLETED"}}
<1>1. /\ call[a].pc # "idle" /\ n \in Attempt /\ n <= attempts
      /\ \A b \in Admins \ {a} : call'[b] = call[b]
      /\ call'[a].pc \in {"idle", "ledger", "order", "failing"}
      /\ UNCHANGED <<stripeAmount, stripeStatus, amountRefunded, requestAmount>>
      /\ \A m \in Attempt \ {n} : requestStatus'[m] = requestStatus[m]
      /\ \/ UNCHANGED <<refundedAmount, requestStatus>>
         \/ /\ call[a].pc = "audit" /\ call[a].result = "succeeded"
            /\ requestStatus'[n] = "COMPLETED"
            /\ refundedAmount' = refundedAmount + amount
         \/ /\ requestStatus'[n] \in {"PENDING", "FAILED"}
            /\ refundedAmount' = refundedAmount
  BY RecordFact DEF refundVars, stripeVars
<1>2. \A b \in Admins \ {a} : call[b].pc # "idle" => call[b].request # n
  BY <1>1 DEF LockInv, RequestOwned
<1>3. amount \in Nat /\ requestAmount[n] = amount
  BY <1>1, CallFact DEF HistoryInv
<1>4. call[a].pc = "audit" => requestStatus[n] = "PROCESSING"
  BY DEF LockInv, InFlightIsLatest, InFlight
<1>5. call[a].pc = "audit" /\ call[a].result = "succeeded" => stripeStatus[n] = "succeeded"
  BY DEF HistoryInv
<1> HIDE DEF n, amount
<1>6. Unsaved' \subseteq Unsaved /\ n \notin Unsaved' /\ (call[a].pc = "audit" => n \in Unsaved)
  BY <1>1, <1>2 DEF Unsaved, n
<1>7. Live' = Live /\ Countable \subseteq Countable' /\ Countable' \subseteq Attempt
  BY <1>1, <1>6 DEF Live, Countable
<1>8. /\ SumFunctionOnSet(stripeAmount, Countable) \in Nat
      /\ SumFunctionOnSet(stripeAmount, Countable') \in Nat
      /\ SumFunctionOnSet(stripeAmount, Countable) <= SumFunctionOnSet(stripeAmount, Countable')
  BY <1>7, MoneyTypes, AmountsFact
<1>9. /\ AmountOf({"COMPLETED"}) = SumFunctionOnSet(requestAmount, Done)
      /\ AmountOf({"COMPLETED"})' = SumFunctionOnSet(requestAmount, DoneAfter)
      /\ Done \subseteq Attempt /\ DoneAfter \subseteq Attempt
  BY <1>1 DEF AmountOf
<1>10. CASE /\ call[a].pc = "audit" /\ call[a].result = "succeeded"
            /\ requestStatus'[n] = "COMPLETED"
            /\ refundedAmount' = refundedAmount + amount
  <2>1. n \notin Countable /\ n \in Countable'
    BY <1>1, <1>5, <1>6, <1>10 DEF Countable
  <2>2. stripeAmount[n] = amount
    BY <1>1, <1>3, <1>5, <1>10 DEF LockInv, RefundHasRequest
  <2>3. SumFunctionOnSet(stripeAmount, Countable \cup {n})
          = SumFunctionOnSet(stripeAmount, Countable) + amount
    BY <1>1, <2>1, <2>2, MoneyTypes, AmountAdded
  <2>4. SumFunctionOnSet(stripeAmount, Countable \cup {n})
          <= SumFunctionOnSet(stripeAmount, Countable')
    <3>1. Countable \cup {n} \subseteq Countable'
      BY <1>7, <2>1
    <3> QED  BY <1>7, <3>1, MoneyTypes, AmountsFact
  <2>5. refundedAmount' <= SumFunctionOnSet(stripeAmount', Countable')
    BY <1>1, <1>3, <1>8, <1>10, <2>3, <2>4, MoneyTypes DEF MoneyInv
  <2>6. n \notin Done /\ DoneAfter = Done \cup {n}
    BY <1>1, <1>4, <1>10
  <2> HIDE DEF Done, DoneAfter
  <2>7. SumFunctionOnSet(requestAmount, DoneAfter) = SumFunctionOnSet(requestAmount, Done) + amount
    BY <1>1, <1>3, <1>9, <2>6, MoneyTypes, AmountAdded
  <2>8. SumFunctionOnSet(requestAmount, Done) \in Nat
    BY <1>9, MoneyTypes, AmountsFact
  <2>9. AmountOf({"COMPLETED"})' <= refundedAmount'
    BY <1>3, <1>9, <1>10, <2>7, <2>8, MoneyTypes DEF MoneyInv
  <2> QED  BY <1>1, <1>7, <2>5, <2>9 DEF MoneyInv
<1>11. CASE /\ refundedAmount' = refundedAmount
            /\ requestStatus' = requestStatus \/ requestStatus'[n] \in {"PENDING", "FAILED"}
  <2>1. refundedAmount' <= SumFunctionOnSet(stripeAmount', Countable')
    BY <1>1, <1>8, <1>11, MoneyTypes DEF MoneyInv
  <2>2. DoneAfter \subseteq Done
    BY <1>1, <1>11
  <2> HIDE DEF Done, DoneAfter
  <2>3. /\ SumFunctionOnSet(requestAmount, DoneAfter) <= SumFunctionOnSet(requestAmount, Done)
        /\ SumFunctionOnSet(requestAmount, DoneAfter) \in Nat
        /\ SumFunctionOnSet(requestAmount, Done) \in Nat
    BY <1>9, <2>2, MoneyTypes, AmountsFact
  <2>4. AmountOf({"COMPLETED"})' <= refundedAmount'
    BY <1>9, <1>11, <2>3, MoneyTypes DEF MoneyInv
  <2> QED  BY <1>1, <1>7, <2>1, <2>4 DEF MoneyInv
<1> QED  BY <1>1, <1>10, <1>11

LEMMA StripeMoney ==
  ASSUME LockInv, MoneyInv, StripeStep
  PROVE  MoneyInv'
<1>1. /\ UNCHANGED <<refundedAmount, requestAmount, requestStatus, stripeAmount, call>>
  BY DEF StripeStep, IntentProceeds, RefundSettles, RefundReversed, auditVars
<1>2. Unsaved' = Unsaved /\ AmountOf({"COMPLETED"})' = AmountOf({"COMPLETED"})
  BY <1>1 DEF Unsaved, AmountOf
<1>3. CASE UNCHANGED <<stripeStatus, amountRefunded>>
  BY <1>1, <1>2, <1>3 DEF MoneyInv, Live, Countable
<1>4. ASSUME NEW n \in Attempt, RefundSettles(n) PROVE MoneyInv'
  <2>1. /\ stripeStatus[n] = "pending" /\ amountRefunded' = amountRefunded
        /\ stripeStatus' = [stripeStatus EXCEPT ![n] = "succeeded"]
    BY <1>4 DEF RefundSettles
  <2>2. Live' = Live /\ Countable \subseteq Countable' /\ Countable' \subseteq Attempt
    BY <1>2, <2>1, MoneyTypes DEF Live, Countable
  <2>3. /\ SumFunctionOnSet(stripeAmount, Countable) <= SumFunctionOnSet(stripeAmount, Countable')
        /\ SumFunctionOnSet(stripeAmount, Countable) \in Nat
        /\ SumFunctionOnSet(stripeAmount, Countable') \in Nat
    BY <2>2, MoneyTypes, AmountsFact
  <2>4. refundedAmount <= SumFunctionOnSet(stripeAmount, Countable')
    BY <2>3, MoneyTypes DEF MoneyInv
  <2> QED  BY <1>1, <1>2, <2>1, <2>2, <2>4 DEF MoneyInv
<1>5. ASSUME NEW n \in Attempt, RefundReversed(n) PROVE MoneyInv'
  <2>1. /\ stripeStatus[n] = "pending"
        /\ amountRefunded' = amountRefunded - stripeAmount[n]
        /\ stripeStatus' = [stripeStatus EXCEPT ![n] = "failed"]
    BY <1>5 DEF RefundReversed
  <2>2. n \in Live /\ Live' = Live \ {n} /\ Countable' = Countable
    BY <1>2, <2>1, MoneyTypes DEF Live, Countable
  <2> DEFINE rest == Live \ {n}
  <2>3. rest \subseteq Attempt /\ n \notin rest /\ Live = rest \cup {n}
    BY <2>2, MoneyTypes
  <2> HIDE DEF rest
  <2>4. SumFunctionOnSet(stripeAmount, rest \cup {n})
          = SumFunctionOnSet(stripeAmount, rest) + stripeAmount[n]
    BY <2>3, MoneyTypes, AmountAdded
  <2>5. SumFunctionOnSet(stripeAmount, rest) \in Nat /\ stripeAmount[n] \in Nat
    BY <2>3, MoneyTypes, AmountsFact
  <2>6. amountRefunded' = SumFunctionOnSet(stripeAmount, rest)
    BY <2>1, <2>3, <2>4, <2>5 DEF MoneyInv
  <2>7. amountRefunded' <= Total
    BY <2>1, <2>5, MoneyTypes DEF MoneyInv
  <2> QED  BY <1>1, <1>2, <2>2, <2>6, <2>7 DEF MoneyInv, rest
<1> QED
  BY <1>3, <1>4, <1>5 DEF StripeStep, IntentProceeds

LEMMA MoneyNext ==
  ASSUME LockInv, Fresh, HistoryInv, MoneyInv, [Next]_vars
  PROVE  MoneyInv'
<1>1. ASSUME UNCHANGED <<refundedAmount, requestAmount, requestStatus, stripeAmount,
                         stripeStatus, amountRefunded>>,
             Unsaved' = Unsaved
      PROVE  MoneyInv'
  BY <1>1 DEF MoneyInv, Live, Countable, AmountOf
<1>2. ASSUME NEW a \in Admins, ProviderDeclines(a) PROVE MoneyInv'
  <2>1. /\ call' = [call EXCEPT ![a].pc = "failing"] /\ call[a].pc = "provider"
        /\ UNCHANGED <<auditVars, stripeVars>>
    BY <1>2 DEF ProviderDeclines, Goto
  <2>2. \A b \in Admins \ {a} : call'[b] = call[b]
    BY <2>1
  <2>3. call'[a].pc = "failing"
    BY <2>1 DEF LockInv, TypeOK, CallTypeOK
  <2>4. Unsaved' = Unsaved
    BY <2>1, <2>2, <2>3 DEF Unsaved
  <2> QED  BY <1>1, <2>1, <2>4 DEF auditVars, refundVars, stripeVars
<1>3. ASSUME NEW w \in Webhooks, (\E e \in Events : Receive(w, e)) \/ HookStep(w)
      PROVE  MoneyInv'
  <2>1. UNCHANGED <<auditVars, refundVars, call>>
    BY <1>3 DEF HookStep, Receive, LinkIntent, WriteEventLedger, ApplyStatus, ApplyStatusWrite,
       HookFails, stripeVars
  <2> QED  BY <1>1, <2>1 DEF auditVars, refundVars, stripeVars, Unsaved
<1>4. CASE UNCHANGED vars
  BY <1>1, <1>4 DEF vars, auditVars, refundVars, stripeVars, Unsaved
<1> QED
  BY <1>2, <1>3, <1>4, ValidateMoney, AnsweredMoney, RecordMoney, StripeMoney
  DEF Next, CallStep, RecordStep, Answered

LEMMA MoneyIsInvariant == Spec => [](LockInv /\ Fresh /\ HistoryInv /\ StoreInv /\ MoneyInv)
<1>1. Init => MoneyInv
  <2> SUFFICES ASSUME Init PROVE MoneyInv
    OBVIOUS
  <2>1. SumFunctionOnSet(stripeAmount, {}) = 0 /\ SumFunctionOnSet(requestAmount, {}) = 0
    BY SumEmpty DEF Sum
  <2>2. Live = {} /\ Countable = {} /\ {n \in Attempt : requestStatus[n] \in {"COMPLETED"}} = {}
    BY DEF Init, Live, Countable
  <2>3. amountRefunded = 0 /\ refundedAmount = 0 /\ Total \in Nat
    BY RefundAssumption DEF Init
  <2> QED  BY <2>1, <2>2, <2>3 DEF MoneyInv, AmountOf
<1>2. LockInv /\ Fresh /\ HistoryInv /\ MoneyInv /\ [Next]_vars => MoneyInv'
  BY MoneyNext
<1> QED BY <1>1, <1>2, HistoryIsInvariant, PTL DEF Spec

(***************************************************************************)
(* Whatever answers, writes or invocations are lost, and whatever pending  *)
(* refunds are reversed, nothing is counted that Stripe did not refund.    *)
(***************************************************************************)
THEOREM AuditBacked == Spec => []AuditBackedByStripe
<1>1. LockInv /\ MoneyInv => AuditBackedByStripe
  <2> SUFFICES ASSUME LockInv, MoneyInv PROVE refundedAmount <= amountRefunded
    BY DEF AuditBackedByStripe
  <2>1. Countable \subseteq Live
    BY DEF Countable, Live
  <2>2. /\ SumFunctionOnSet(stripeAmount, Countable) <= SumFunctionOnSet(stripeAmount, Live)
        /\ SumFunctionOnSet(stripeAmount, Countable) \in Nat
        /\ SumFunctionOnSet(stripeAmount, Live) \in Nat
    BY <2>1, MoneyTypes, AmountsFact
  <2> QED  BY <2>2, MoneyTypes DEF MoneyInv
<1> QED BY <1>1, MoneyIsInvariant, PTL

(***************************************************************************)
(* Every request the history shows as completed is counted, though the     *)
(* history and the count are written by read-modify-writes of their own.   *)
(***************************************************************************)
THEOREM CompletedAreCounted == Spec => []CompletedIsCounted
<1>1. MoneyInv => CompletedIsCounted
  BY DEF MoneyInv, CompletedIsCounted
<1> QED BY <1>1, MoneyIsInvariant, PTL

(***************************************************************************)
(* While the store works, the history accounts for all that Stripe         *)
(* refunded once no call is running.                                       *)
(***************************************************************************)
THEOREM RefundsAreRecorded == Spec => []EveryRefundRecorded
<1>1. LockInv /\ HistoryInv /\ StoreInv /\ MoneyInv => EveryRefundRecorded
  <2> SUFFICES ASSUME LockInv, HistoryInv, StoreInv, MoneyInv,
                      StoreWorks, ~ SomeReversed, NoCall,
                      \A n \in Attempt : requestStatus[n] = "FAILED" =>
                        stripeStatus[n] \notin {"pending", "succeeded"}
               PROVE  amountRefunded = AmountOf({"COMPLETED", "PENDING"})
    BY DEF EveryRefundRecorded
  <2>1. Live = {n \in Attempt : requestStatus[n] \in {"COMPLETED", "PENDING"}}
    BY MoneyTypes DEF Live, HistoryInv, StoreInv, SomeReversed, NoCall
  <2>2. \A n \in Live : stripeAmount[n] = requestAmount[n]
    BY DEF Live, LockInv, RefundHasRequest
  <2>3. IsFiniteSet(Live)
    BY MoneyTypes, AttemptFinite
  <2>4. Sum(stripeAmount, Live) = Sum(requestAmount, Live)
    BY <2>2, <2>3, SumSame
  <2> QED  BY <2>1, <2>4 DEF MoneyInv, AmountOf, Sum
<1> QED BY <1>1, MoneyIsInvariant, PTL

(***************************************************************************)
(* The REFUND entries of the ledger are those of refunds that Stripe made, *)
(* and the one of the event that announces a full refund.                  *)
(***************************************************************************)

\* The most the entry r shows: the event's the total once there is one, a
\* refund's what Stripe refunded.
EntryLimit(r) ==
  IF "refunded" \in emitted /\ r = RefundEntryId THEN Total
  ELSE IF r = 0 \/ stripeStatus[r] = "none" THEN 0
  ELSE stripeAmount[r]

EntryInv ==
  /\ "refunded" \in emitted => lastRefund # 0 /\ stripeStatus[lastRefund] # "none"
  /\ \A w \in Webhooks : hook[w].event = "refunded" => "refunded" \in emitted
  /\ \A a \in Admins : call[a].pc = "provider" => call[a].amount > 0
  /\ ~ SomeReversed => \A r \in RefundId : refundEntry[r] <= EntryLimit(r)

\* Entries are numbered by the refunds, but for the event's own.
LEMMA EntryTypes ==
  ASSUME LockInv
  PROVE  /\ refundEntry \in [RefundId -> Nat]
         /\ Attempt \subseteq RefundId /\ 0 \in RefundId /\ 0 \notin Attempt
         /\ \A r \in RefundId : r # 0 => r \in Attempt
         /\ lastRefund \in RefundId /\ RefundEntryId \in RefundId
BY RefundAssumption
DEF LockInv, TypeOK, LedgerTypeOK, StripeTypeOK, RefundEntryId, RefundId, Attempt

\* A refund is made only while the charge is not refunded in full, unless one
\* was reversed: which refund the event names is settled when it is sent.
LEMMA AnsweredEntry ==
  ASSUME LockInv, Fresh, BackedInv \/ SomeReversed, EntryInv, NEW a \in Admins,
         SomeReversed => SomeReversed',
         NEW result \in {"succeeded", "pending"}, Answered(a, result)
  PROVE  EntryInv'
<1> DEFINE n == call[a].request
<1>1. /\ n \in Attempt /\ n # 0 /\ stripeStatus[n] = "none"
      /\ stripeStatus' = [stripeStatus EXCEPT ![n] = result]
      /\ stripeAmount' = [stripeAmount EXCEPT ![n] = call[a].amount]
      /\ call[a].amount <= Total - amountRefunded /\ call[a].amount \in Nat
      /\ lastRefund' = n /\ emitted \subseteq emitted'
      /\ call[a].pc = "provider" /\ call'[a].pc \in {"audit", "failing"}
      /\ \A b \in Admins \ {a} : call'[b] = call[b]
      /\ UNCHANGED <<refundEntry, hook, setting>>
  BY AnsweredFact, RefundAssumption DEF ledgerVars, orderVars, Attempt
<1>2. call[a].amount > 0
  BY <1>1 DEF EntryInv
<1> HIDE DEF n
<1>3. /\ stripeStatus'[n] # "none" /\ stripeAmount'[n] \in Nat
      /\ \A m \in Attempt : m # n => stripeStatus'[m] = stripeStatus[m]
                                  /\ stripeAmount'[m] = stripeAmount[m]
  BY <1>1, MoneyTypes
<1>4. ASSUME ~ SomeReversed', NEW r \in RefundId
      PROVE  refundEntry'[r] <= EntryLimit(r)'
  <2>1. ~ SomeReversed /\ "refunded" \notin emitted
    BY <1>1, <1>2, <1>4, MoneyTypes DEF BackedInv
  <2>2. refundEntry[r] <= (IF r = 0 \/ stripeStatus[r] = "none" THEN 0 ELSE stripeAmount[r])
    BY <2>1 DEF EntryInv, EntryLimit
  <2>3. Total \in Nat /\ refundEntry[r] \in Nat
    BY EntryTypes, RefundAssumption
  <2>4. CASE r = 0 \/ r = n
    <3>1. refundEntry[r] <= 0
      BY <1>1, <2>2, <2>4
    <3>2. EntryLimit(r)' \in Nat
      BY <1>1, <1>3, <2>3, <2>4 DEF EntryLimit
    <3> QED  BY <1>1, <2>3, <3>1, <3>2
  <2>5. CASE r # 0 /\ r # n
    <3>1. RefundEntryId' # r
      BY <1>1, <2>5 DEF RefundEntryId
    <3>2. r \in Attempt
      BY <2>5, EntryTypes
    <3> QED  BY <1>1, <1>3, <2>2, <2>5, <3>1, <3>2 DEF EntryLimit
  <2> QED  BY <2>4, <2>5
<1> QED  BY <1>1, <1>3, <1>4 DEF EntryInv

\* A call's entry shows the amount of its own refund.
LEMMA RecordEntry ==
  ASSUME LockInv, HistoryInv, EntryInv, NEW a \in Admins, RecordStep(a)
  PROVE  EntryInv'
<1> DEFINE n == call[a].request
<1>1. /\ n \in Attempt /\ call[a].pc # "idle"
      /\ \A b \in Admins \ {a} : call'[b] = call[b]
      /\ call'[a].pc # "provider"
      /\ UNCHANGED <<stripeVars, hook>>
  BY RecordFact
<1>2. \/ refundEntry' = refundEntry
      \/ call[a].pc = "ledger" /\ refundEntry' = [refundEntry EXCEPT ![n] = call[a].amount]
  BY DEF RecordStep, SaveResult, WriteRefundLedger, MarkOrderRefunded, StoreThrows,
         RecordFailure, CallDies, RefundLedgerWrite, ledgerVars
<1>3. /\ n # 0 /\ call[a].amount = requestAmount[n] /\ requestAmount[n] <= Total
      /\ call[a].pc = "ledger" =>
           stripeStatus[n] # "none" /\ call[a].amount = stripeAmount[n]
  BY <1>1, RefundAssumption DEF HistoryInv, LockInv, RefundHasRequest, Attempt
<1>4. UNCHANGED <<lastRefund, stripeAmount, stripeStatus, emitted, hook>>
  BY <1>1 DEF refundVars, stripeVars
<1>5. setting' = setting
  BY DEF RecordStep, SaveResult, WriteRefundLedger, MarkOrderRefunded, StoreThrows,
         RecordFailure, CallDies, OrderRefundedWrite, orderVars
<1>6. SomeReversed' <=> SomeReversed
  BY <1>4 DEF SomeReversed
<1> HIDE DEF n
<1>7. call[a].pc = "ledger" => call[a].amount <= EntryLimit(n)
  BY <1>1, <1>3, MoneyTypes DEF EntryLimit
<1>8. ASSUME ~ SomeReversed, NEW r \in RefundId
      PROVE  refundEntry'[r] <= EntryLimit(r)
  BY <1>2, <1>7, <1>8, EntryTypes DEF EntryInv
<1>9. \A r \in RefundId : EntryLimit(r)' = EntryLimit(r)
  BY <1>4, <1>5 DEF EntryLimit, RefundEntryId
<1>10. \A b \in Admins : call'[b].pc = "provider" => call'[b].amount > 0
  BY <1>1 DEF EntryInv
<1> QED  BY <1>4, <1>6, <1>8, <1>9, <1>10 DEF EntryInv

\* The event's entry shows the total.
LEMMA HookEntry ==
  ASSUME LockInv, EntryInv, NEW w \in Webhooks,
         (\E e \in Events : Receive(w, e)) \/ HookStep(w)
  PROVE  EntryInv'
<1>1. UNCHANGED <<refundVars, call, setting>>
  BY DEF HookStep, Receive, LinkIntent, WriteEventLedger, ApplyStatus, ApplyStatusWrite,
         HookFails, stripeVars, orderVars
<1>2. \A v \in Webhooks : hook'[v].event = "refunded" => "refunded" \in emitted
  <2>1. \A v \in Webhooks \ {w} : hook'[v] = hook[v]
    BY DEF LockInv, TypeOK, HookTypeOK, HookStep, Receive, LinkIntent, WriteEventLedger,
           ApplyStatus, HookFails
  <2>2. ASSUME NEW e \in Events, Receive(w, e) PROVE hook'[w].event = e /\ e \in emitted
    BY <2>2 DEF LockInv, TypeOK, HookTypeOK, Receive
  <2>3. HookStep(w) => hook'[w].event \in {hook[w].event, "created"}
    BY DEF LockInv, TypeOK, HookTypeOK, HookStep, LinkIntent, WriteEventLedger, ApplyStatus,
           HookFails, IdleHook
  <2> QED  BY <2>1, <2>2, <2>3 DEF EntryInv
<1>3. \/ refundEntry' = refundEntry
      \/ hook[w].event = "refunded" /\ refundEntry' = [refundEntry EXCEPT ![RefundEntryId] = Total]
  BY DEF HookStep, Receive, LinkIntent, WriteEventLedger, ApplyStatus, HookFails, ledgerVars
<1>4. "refunded" \in emitted => EntryLimit(RefundEntryId) = Total
  BY DEF EntryLimit
<1>5. ASSUME ~ SomeReversed, NEW r \in RefundId
      PROVE  refundEntry'[r] <= EntryLimit(r)
  BY <1>3, <1>4, <1>5, EntryTypes, RefundAssumption DEF EntryInv
<1>6. /\ \A r \in RefundId : EntryLimit(r)' = EntryLimit(r)
      /\ SomeReversed' <=> SomeReversed
  BY <1>1 DEF EntryLimit, RefundEntryId, SomeReversed, refundVars
<1> QED  BY <1>1, <1>2, <1>5, <1>6 DEF EntryInv, refundVars

LEMMA EntryNext ==
  ASSUME LockInv, Fresh, HistoryInv, BackedInv \/ SomeReversed, EntryInv, [Next]_vars
  PROVE  EntryInv'
<1>1. ASSUME UNCHANGED <<lastRefund, stripeAmount, stripeStatus, emitted, hook, refundEntry,
                         setting>>,
             \A a \in Admins : call'[a].pc = "provider" => call'[a].amount > 0
      PROVE  EntryInv'
  BY <1>1 DEF EntryInv, EntryLimit, RefundEntryId, SomeReversed
<1>2. SomeReversed => SomeReversed'
  BY ReversedStays
<1>3. ASSUME NEW a \in Admins, ProviderDeclines(a) PROVE EntryInv'
  <2>1. UNCHANGED <<stripeVars, orderVars, ledgerVars, hook>>
        /\ \A b \in Admins : call'[b].pc = "provider" =>
              call[b].pc = "provider" /\ call'[b].amount = call[b].amount
    BY <1>3 DEF ProviderDeclines, Goto, LockInv, TypeOK, CallTypeOK
  <2> QED  BY <1>1, <2>1 DEF refundVars, stripeVars, ledgerVars, orderVars, EntryInv
<1>4. ASSUME NEW a \in Admins, NEW amount \in Amounts, Validate(a, amount) PROVE EntryInv'
  <2>1. /\ UNCHANGED <<stripeVars, orderVars, ledgerVars, hook>>
        /\ call'[a].amount = amount /\ \A b \in Admins \ {a} : call'[b] = call[b]
    BY <1>4, ValidateFact
  <2>2. amount > 0
    BY RefundAssumption
  <2> QED  BY <1>1, <2>1, <2>2 DEF refundVars, stripeVars, ledgerVars, orderVars, EntryInv
<1>5. CASE StripeStep
  <2>1. /\ UNCHANGED <<lastRefund, stripeAmount, hook, refundEntry, call, setting>>
        /\ emitted \subseteq emitted'
        /\ "refunded" \in emitted' => "refunded" \in emitted
    BY <1>5 DEF StripeStep, IntentProceeds, RefundSettles, RefundReversed, ledgerVars,
       orderVars, IntentEvents
  <2>2. \A m \in Attempt : stripeStatus'[m] = "none" <=> stripeStatus[m] = "none"
    BY <1>5, MoneyTypes DEF StripeStep, IntentProceeds, RefundSettles, RefundReversed
  <2>3. RefundEntryId' = RefundEntryId
    BY <2>1 DEF RefundEntryId
  <2>4. \A r \in RefundId : EntryLimit(r)' = EntryLimit(r)
    BY <2>1, <2>2, <2>3, EntryTypes DEF EntryLimit
  <2>5. lastRefund # 0 => lastRefund \in Attempt
    BY EntryTypes
  <2> QED  BY <1>2, <2>1, <2>2, <2>4, <2>5 DEF EntryInv
<1>6. CASE UNCHANGED vars
  BY <1>1, <1>6 DEF vars, refundVars, stripeVars, ledgerVars, orderVars, EntryInv
<1> QED
  BY <1>2, <1>3, <1>4, <1>5, <1>6, AnsweredEntry, RecordEntry, HookEntry
  DEF Next, CallStep, RecordStep, Answered

\* The entries but for some e: those of live refunds, which show no more than
\* what Stripe refunded.
LEMMA OtherEntries ==
  ASSUME LockInv, EntryInv, ~ SomeReversed, NEW e,
         \A r \in RefundId \ {e} : ~ ("refunded" \in emitted /\ r = RefundEntryId)
  PROVE  Sum(refundEntry, RefundId \ {e}) <= Sum(stripeAmount, Live \ {e})
<1> DEFINE T == Live \ {e}
           rest == (RefundId \ {e}) \ Live
<1>1. \A r \in RefundId \ {e} :
        /\ refundEntry[r] \in Nat
        /\ r \in Live => refundEntry[r] <= stripeAmount[r] /\ stripeAmount[r] \in Nat
        /\ r \notin Live => refundEntry[r] = 0
  <2> TAKE r \in RefundId \ {e}
  <2>1. refundEntry[r] <= (IF r = 0 \/ stripeStatus[r] = "none" THEN 0 ELSE stripeAmount[r])
    BY DEF EntryInv, EntryLimit
  <2>2. refundEntry[r] \in Nat
    BY EntryTypes
  <2>3. r \notin Live => r = 0 \/ stripeStatus[r] = "none"
    BY EntryTypes, MoneyTypes DEF Live, SomeReversed
  <2>4. r \in Live => r # 0 /\ stripeStatus[r] # "none" /\ stripeAmount[r] \in Nat
    BY EntryTypes, MoneyTypes DEF Live
  <2> QED  BY <2>1, <2>2, <2>3, <2>4
<1>2. IsFiniteSet(T) /\ IsFiniteSet(rest) /\ T \cap rest = {} /\ T \cup rest = RefundId \ {e}
  <2>1. IsFiniteSet(RefundId)
    BY FS_Interval, RefundAssumption DEF RefundId
  <2>2. Live \subseteq RefundId
    BY EntryTypes, MoneyTypes
  <2> QED  BY <2>1, <2>2, FS_Subset
<1>3. \A r \in T : refundEntry[r] \in Int /\ stripeAmount[r] \in Int
                   /\ refundEntry[r] <= stripeAmount[r]
  BY <1>1, EntryTypes, MoneyTypes
<1>4. (\A r \in rest : refundEntry[r] = 0) /\ \A r \in T \cup rest : refundEntry[r] \in Int
  BY <1>1, <1>2
<1> HIDE DEF T, rest
<1>5. Sum(refundEntry, T \cup rest) = Sum(refundEntry, T) + Sum(refundEntry, rest)
  BY <1>2, <1>4, SumDisjoint
<1>6. Sum(refundEntry, rest) = 0
  BY <1>2, <1>4, SumZero
<1>7. Sum(refundEntry, T) <= Sum(stripeAmount, T)
  BY <1>2, <1>3, SumLeq
<1>8. Sum(refundEntry, T) \in Int
  BY <1>2, <1>3, SumInt
<1>9. Sum(refundEntry, T \cup rest) = Sum(refundEntry, RefundId \ {e})
  BY <1>2, Zenon
<1>10. Sum(stripeAmount, T) = Sum(stripeAmount, Live \ {e})
  BY DEF T
<1> QED  BY <1>5, <1>6, <1>7, <1>8, <1>9, <1>10

(***************************************************************************)
(* The REFUND entries of the ledger show what Stripe refunded and no more, *)
(* but for the entry of charge.refunded, which adds the total once: less   *)
(* the latest refund, whose entry it replaces, if the payload names it.    *)
(***************************************************************************)
THEOREM LedgerIsExplained == Spec => []LedgerRefundsExplained
<1>1. Init => EntryInv
  <2> SUFFICES ASSUME Init PROVE EntryInv
    OBVIOUS
  <2>1. \A r \in RefundId : refundEntry[r] = 0 /\ EntryLimit(r) = 0
    BY RefundAssumption DEF Init, EntryLimit, Announced, RefundId, Attempt
  <2> QED  BY <2>1 DEF Init, EntryInv, IdleHook, IdleCall, Announced
<1>2. LockInv /\ Fresh /\ HistoryInv /\ (BackedInv \/ SomeReversed) /\ EntryInv /\ [Next]_vars
        => EntryInv'
  BY EntryNext
<1>3. LockInv /\ MoneyInv /\ EntryInv => LedgerRefundsExplained
  <2> SUFFICES ASSUME LockInv, MoneyInv, EntryInv, ~ SomeReversed
               PROVE  SumFunction(refundEntry) <=
                        amountRefunded + (IF "refunded" \in emitted THEN EventEntryAdds ELSE 0)
    BY DEF LedgerRefundsExplained
  <2> DEFINE e == IF "refunded" \in emitted THEN RefundEntryId ELSE 0
  <2>1. refundEntry \in [RefundId -> Nat] /\ Total \in Nat /\ e \in RefundId
    BY EntryTypes, RefundAssumption
  <2>2. IsFiniteSet(RefundId) /\ IsFiniteSet(Live)
    BY FS_Interval, RefundAssumption, MoneyTypes, AttemptFinite DEF RefundId
  <2>3. Sum(refundEntry, RefundId \ {e}) <= Sum(stripeAmount, Live \ {e})
    BY OtherEntries
  <2>4. refundEntry[e] <= (IF "refunded" \in emitted THEN Total ELSE 0)
    BY <2>1 DEF EntryInv, EntryLimit
  <2>5. amountRefunded = Sum(stripeAmount, Live)
    BY DEF MoneyInv, Sum
  <2>6. \A n \in Live : stripeAmount[n] \in Int
    BY MoneyTypes
  <2>7. e \in Live => amountRefunded = stripeAmount[e] + Sum(stripeAmount, Live \ {e})
    <3> HIDE DEF e
    <3> QED  BY <2>2, <2>5, <2>6, SumRemove
  <2>8. e \notin Live => amountRefunded = Sum(stripeAmount, Live \ {e})
    <3>1. e \notin Live => Live \ {e} = Live
      OBVIOUS
    <3> QED  BY <2>5, <3>1
  <2>9. "refunded" \in emitted /\ setting.namesRefund => e = lastRefund /\ e \in Live
    BY EntryTypes, MoneyTypes DEF EntryInv, RefundEntryId, Live, SomeReversed
  <2>10. SumFunction(refundEntry) = refundEntry[e] + Sum(refundEntry, RefundId \ {e})
    <3>1. SumFunction(refundEntry) = Sum(refundEntry, RefundId)
      BY <2>1 DEF SumFunction, Sum
    <3>2. \A y \in RefundId : refundEntry[y] \in Int
      BY <2>1
    <3> HIDE DEF e
    <3> QED  BY <2>1, <2>2, <3>1, <3>2, SumRemove
  <2>11. /\ Sum(stripeAmount, Live \ {e}) \in Int /\ refundEntry[e] \in Nat
         /\ Sum(refundEntry, RefundId \ {e}) \in Int
         /\ e \in Live => stripeAmount[e] \in Nat
    <3>1. IsFiniteSet(Live \ {e}) /\ IsFiniteSet(RefundId \ {e})
      BY <2>2, FS_RemoveElement
    <3>2. \A y \in RefundId \ {e} : refundEntry[y] \in Int
      BY <2>1
    <3> HIDE DEF e
    <3> QED  BY <2>1, <2>6, <3>1, <3>2, SumInt, MoneyTypes
  <2> QED
    BY <2>1, <2>3, <2>4, <2>7, <2>8, <2>9, <2>10, <2>11 DEF EventEntryAdds
<1> QED
  BY <1>1, <1>2, <1>3, MoneyIsInvariant, BackedIsInvariant, PTL DEF Spec

(***************************************************************************)
(* The calls implement the audit document that RefundAudit specifies.      *)
(***************************************************************************)

\* The amount that is open in the audit document.
Open == IF HasActiveRequest THEN requestAmount[attempts] ELSE 0

AuditStep == Audit!Next \/ UNCHANGED Audit!auditVars

LEMMA AuditUnchanged == UNCHANGED auditVars => UNCHANGED Audit!auditVars
  BY DEF auditVars, Audit!auditVars, HasActiveRequest

\* A validation asks for its amount.
LEMMA ValidateAsks ==
  ASSUME LockInv, NEW a \in Admins, NEW amount \in Amounts, Validate(a, amount)
  PROVE  Audit!Ask
<1>1. /\ attempts' = attempts + 1 /\ attempts + 1 \in Attempt
      /\ requestAmount'[attempts + 1] = amount
      /\ requestStatus'[attempts + 1] = "PROCESSING"
      /\ attempts + 1 > 0
  BY RefundAssumption DEF Validate, LockInv, TypeOK, AuditTypeOK, Attempt
<1>2. Open' = amount
  BY <1>1 DEF Open, HasActiveRequest
<1>3. amount \in 1..(Total - refundedAmount)
  BY RefundAssumption DEF Validate, Remaining, LockInv, TypeOK, AuditTypeOK
<1>4. Open = 0 /\ refundedAmount' = refundedAmount
  BY DEF Validate, Open
<1> QED  BY <1>2, <1>3, <1>4 DEF Audit!Ask, Open

\* An update of the request that is in flight, or of one that is not the latest
\* and is marked as failed or updated for its status alone.
LEMMA UpdateCounts ==
  ASSUME LockInv, NEW n \in Attempt, NEW status \in {"COMPLETED", "PENDING", "FAILED"},
         NEW increment \in Nat, UpdateAuditRequest(n, status, increment),
         \/ status = "FAILED" /\ increment = 0
         \/ /\ n = attempts /\ requestStatus[attempts] = "PROCESSING"
            /\ \/ status = "PENDING" /\ increment = 0
               \/ status = "COMPLETED" /\ increment = requestAmount[attempts]
  PROVE  AuditStep
<1>1. /\ refundedAmount \in Nat /\ refundedAmount' = refundedAmount + increment
      /\ attempts' = attempts /\ requestAmount' = requestAmount
      /\ \A k \in Attempt : requestStatus'[k] = IF k = n THEN status ELSE requestStatus[k]
      /\ attempts > 0 => attempts \in Attempt
  BY RefundAssumption DEF UpdateAuditRequest, LockInv, TypeOK, AuditTypeOK, Attempt
<1>2. CASE n # attempts
  <2>1. HasActiveRequest' <=> HasActiveRequest
    BY <1>1, <1>2 DEF HasActiveRequest
  <2>2. refundedAmount' = refundedAmount
    BY <1>1, <1>2
  <2> QED  BY <1>1, <2>1, <2>2 DEF AuditStep, Audit!auditVars
<1>3. CASE n = attempts /\ status = "FAILED"
  <2>1. ~ HasActiveRequest'
    BY <1>1, <1>3 DEF HasActiveRequest
  <2>2. refundedAmount' = refundedAmount
    BY <1>1, <1>3
  <2> QED  BY <2>1, <2>2 DEF AuditStep, Audit!Next, Audit!Drop
<1>4. CASE n = attempts /\ status = "PENDING"
  <2>1. HasActiveRequest /\ HasActiveRequest'
    BY <1>1, <1>4, RefundAssumption DEF HasActiveRequest, Attempt
  <2>2. refundedAmount' = refundedAmount
    BY <1>1, <1>4
  <2> QED  BY <1>1, <2>1, <2>2 DEF AuditStep, Audit!auditVars
<1>5. CASE n = attempts /\ status = "COMPLETED"
  <2>1. HasActiveRequest /\ ~ HasActiveRequest'
    BY <1>1, <1>5, RefundAssumption DEF HasActiveRequest, Attempt
  <2>2. refundedAmount' = refundedAmount + requestAmount[attempts]
    BY <1>1, <1>5
  <2> QED  BY <2>1, <2>2 DEF AuditStep, Audit!Next, Audit!Count
<1> QED  BY <1>2, <1>3, <1>4, <1>5

\* Recording Stripe's answer counts what is open once, or keeps it open.
LEMMA SaveCounts ==
  ASSUME LockInv, NEW a \in Admins, call[a].pc = "audit", SaveResultWrite(a)
  PROVE  AuditStep
<1>1. /\ call[a].request = attempts /\ attempts \in Attempt
      /\ requestStatus[attempts] = "PROCESSING"
      /\ requestAmount[attempts] = call[a].amount /\ call[a].amount \in Nat
  BY RefundAssumption
  DEF LockInv, InFlightIsLatest, InFlight, RequestOwned, TypeOK, AuditTypeOK, CallTypeOK, Attempt
<1> QED  BY <1>1, UpdateCounts DEF SaveResultWrite

LEMMA CallKeepsAudit ==
  ASSUME LockInv, NEW a \in Admins, CallStep(a)
  PROVE  AuditStep
<1>1. CASE UNCHANGED auditVars
  BY <1>1, AuditUnchanged DEF AuditStep
<1>2. CASE call[a].pc = "audit" /\ SaveResultWrite(a)
  BY <1>2, SaveCounts
<1>3. CASE RecordFailure(a)
  <2>1. call[a].request \in Attempt
    BY <1>3, RefundAssumption
    DEF RecordFailure, LockInv, RequestOwned, TypeOK, AuditTypeOK, Attempt
  <2> QED  BY <1>3, <2>1, UpdateCounts DEF RecordFailure
<1> QED
  BY <1>1, <1>2, <1>3
  DEF CallStep, ProviderAnswers, AnswerLost, ProviderDeclines, SaveResult,
      WriteRefundLedger, MarkOrderRefunded, StoreThrows, CallDies, auditVars

LEMMA NextKeepsAudit == LockInv /\ [Next]_vars => [Audit!Next]_(Audit!auditVars)
<1> SUFFICES ASSUME LockInv, [Next]_vars PROVE AuditStep
  BY DEF AuditStep
<1>1. CASE UNCHANGED auditVars
  BY <1>1, AuditUnchanged DEF AuditStep
<1>2. ASSUME NEW a \in Admins, NEW amount \in Amounts, Validate(a, amount) PROVE AuditStep
  BY <1>2, ValidateAsks DEF AuditStep, Audit!Next
<1>3. ASSUME NEW a \in Admins, CallStep(a) PROVE AuditStep
  BY <1>3, CallKeepsAudit
<1>4. StripeStep \/ (\E w \in Webhooks : (\E e \in Events : Receive(w, e)) \/ HookStep(w))
        => UNCHANGED auditVars
  BY DEF StripeStep, IntentProceeds, RefundSettles, RefundReversed, HookStep, Receive,
         LinkIntent, WriteEventLedger, ApplyStatus, ApplyStatusWrite, HookFails
<1> QED  BY <1>1, <1>2, <1>3, <1>4 DEF Next, vars

(***************************************************************************)
(* Refinement: however many admins' calls interleave, and whatever fails   *)
(* between their awaits, the audit document behaves like RefundAudit, one  *)
(* request after the other, each counted once or not at all (KeepsAudit).  *)
(***************************************************************************)
THEOREM AuditIsKept == Spec => KeepsAudit
<1>1. Init => Audit!Init
  BY DEF Init, Audit!Init, HasActiveRequest
<1> QED  BY <1>1, LockIsInvariant, NextKeepsAudit, PTL DEF Spec, KeepsAudit, Audit!Spec

(***************************************************************************)
(* What was counted and what is still open are within the order's total:   *)
(* the abstract document's own invariant, which bounds it also while a     *)
(* refund is under way.                                                    *)
(***************************************************************************)
THEOREM OpenWithinTotal == Spec => []Audit!Bounded
<1> USE DEF Audit!Bounded
<1>1. Audit!Init => Audit!Bounded
  BY RefundAssumption DEF Audit!Init
<1>2. Audit!Bounded /\ [Audit!Next]_(Audit!auditVars) => Audit!Bounded'
  <2> SUFFICES ASSUME Audit!Bounded, Audit!Next \/ UNCHANGED Audit!auditVars
               PROVE  Audit!Bounded'
    OBVIOUS
  <2> DEFINE open == IF HasActiveRequest THEN requestAmount[attempts] ELSE 0
             next == IF HasActiveRequest' THEN requestAmount'[attempts'] ELSE 0
  <2>1. /\ refundedAmount \in Nat /\ open \in Nat /\ refundedAmount + open <= Total
        /\ Total \in Nat
    BY RefundAssumption
  <2>2. \/ open = 0 /\ next \in 1..(Total - refundedAmount) /\ refundedAmount' = refundedAmount
        \/ refundedAmount' = refundedAmount + open /\ next = 0
        \/ next = 0 /\ refundedAmount' = refundedAmount
        \/ refundedAmount' = refundedAmount /\ next = open
    BY DEF Audit!Next, Audit!Ask, Audit!Count, Audit!Drop, Audit!auditVars
  <2> HIDE DEF open, next
  <2>3. refundedAmount' \in Nat /\ next \in Nat /\ refundedAmount' + next <= Total
    BY <2>1, <2>2
  <2> QED  BY <2>3 DEF next
<1> QED  BY <1>1, <1>2, AuditIsKept, PTL DEF KeepsAudit, Audit!Spec
=============================================================================
