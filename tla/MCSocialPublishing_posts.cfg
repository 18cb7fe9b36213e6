SPECIFICATION LiveSpec
CONSTANTS
    page1 = page1
    page2 = page2
    insta1 = insta1
    r1 = r1
    r2 = r2
    Runs = {r1, r2}
    Pages <- TwoPages
    Instagram <- OneAccount
    Targets <- TwoPages
    MaxTries = 1
    Environments <- AllEnvironments
CHECK_DEADLOCK FALSE
INVARIANTS
    RecordedIsReal
    GuardHolds
    SettledIsTrue
PROPERTIES
    Settles
