SPECIFICATION Spec
CONSTANTS
    own = own
    partner = partner
    NoWarehouse = NoWarehouse
    Warehouses = {own, partner}
    OwnWarehouses = {own}
    Environments <- FormOnly
    MaxDeaths = 1
CHECK_DEADLOCK FALSE
PROPERTIES
    RequestAcceptedKept
