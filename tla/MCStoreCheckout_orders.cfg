SPECIFICATION Spec
CONSTANTS
    c1 = c1
    c2 = c2
    i1 = i1
    i2 = i2
    Calls = {c1, c2}
    Items = {i1, i2}
    StockTotal = 2
    StockBlocks = TRUE
    OrderLimits = {1, 2}
    Adjustments <- OneTaken
    MaxEntries = 2
    Environments <- AllEnvironments
SYMMETRY Interchangeable
CHECK_DEADLOCK FALSE
INVARIANTS
    CreditConserved
    CartBoughtOnce
    StockKept
    QuotaKept
PROPERTIES
    KeepsAccount
    CartKept
