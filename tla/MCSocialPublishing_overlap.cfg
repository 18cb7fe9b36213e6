SPECIFICATION Spec
CONSTANTS
    page1 = page1
    page2 = page2
    insta1 = insta1
    r1 = r1
    r2 = r2
    Runs = {r1, r2}
    Pages <- TwoPages
    Instagram <- OneAccount
    Targets <- OnePage
    MaxTries = 0
    Environments <- OverlapOnly
CHECK_DEADLOCK FALSE
INVARIANTS
    PublishedOnce
