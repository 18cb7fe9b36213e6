SPECIFICATION LiveSpec
CONSTANTS
    own = own
    partner = partner
    NoWarehouse = NoWarehouse
    Warehouses = {own, partner}
    OwnWarehouses = {own}
    Environments <- AllEnvironments
    MaxDeaths = 1
CHECK_DEADLOCK FALSE
INVARIANTS
    OneWinner
    AssignedWasAsked
PROPERTIES
    PendingEnds
    FulfilledIsSynced
