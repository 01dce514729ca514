CONSTANTS
    v1 = v1  v2 = v2  p1 = p1  p2 = p2
    Variants = {v1, v2}
    Products = {p1, p2}
    Requests = {c1, c2}
    NoRow = NoRow
    NoOrder = NoOrder
    MaxLocations = 2
    MaxInt = 2
    PoolSize = 3
    InitialLocations = 2
    ProductOf <- MCProductOf
    Baskets <- CrossedBaskets
    InitialStock <- MCInitialStock
    UpsertRows <- NoInputs
    Deltas <- NoInputs
    AdminQty <- NoInputs
SPECIFICATION FairSpec
INVARIANTS
    ReservedEqualsOrders
PROPERTIES
    EveryCheckoutFinishes
