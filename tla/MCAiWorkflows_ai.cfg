SPECIFICATION FairSpec
CONSTANTS
    c1 = c1
    c2 = c2
    m1 = m1
    Calls <- MCCalls
    Limit <- MCLimit
    Estimate = 2
    Actuals = {1}
    Periods = 2
    Circumstances <- MCCircumstances
    Budget = 3
    Price = 2
    Charges = {1}
    MaxTries = 2
    Mails <- MCMails
    Deliveries = {d1, d2}
    StepTries = 2
CHECK_DEADLOCK FALSE
INVARIANTS
    TextWithinWindows
    CountedOnce
    ReservedIsOpen
    BudgetKept
    ChargedOnce
    OneRunPerMail
PROPERTIES
    ReservationSettles
    BudgetFreed
    OutcomeReached
