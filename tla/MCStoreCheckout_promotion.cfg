SPECIFICATION Spec
CONSTANTS
    c1 = c1
    c2 = c2
    i1 = i1
    i2 = i2
    Calls = {c1, c2}
    Items = {i1, i2}
    StockTotal = 2
    StockBlocks = FALSE
    OrderLimits = {2}
    Adjustments <- OneTaken
    MaxEntries = 0
    Environments <- ServiceOnly
CHECK_DEADLOCK FALSE
INVARIANTS
    PromotionUsedOnce
