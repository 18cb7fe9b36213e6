SPECIFICATION FairSpec
CONSTANTS
    a1 = a1
    a2 = a2
    h1 = h1
    h2 = h2
    Admins = {a1, a2}
    Webhooks = {h1, h2}
    Total = 2
    Amounts = {1, 2}
    MaxAttempts = 2
    Environments <- EverySetting
INVARIANTS
    OneRefundInFlight
    RefundHasRequest
    CompletedIsCounted
    AuditBackedByStripe
    RefundedOnlyWhenFull
    LedgerRefundsExplained
    EveryRefundRecorded
PROPERTIES
    KeepsAudit
    OutcomeIsFinal
    SettledNotDowngraded
    RequestSettles
    PaymentArrives
CHECK_DEADLOCK FALSE
