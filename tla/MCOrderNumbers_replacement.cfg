SPECIFICATION Spec
CONSTANTS
    old1 = old1
    old2 = old2
    s1 = s1
    s2 = s2
    d1 = d1
    d2 = d2
    r1 = r1
    r2 = r2
    Legacy <- LegacyOrders
    LegacyNumber <- NumbersByCount
    ServerOrders = {s1}
    DashboardOrders = {d1}
    ReplacementOrders = {r1}
CHECK_DEADLOCK FALSE
INVARIANTS
    NumbersUnique
