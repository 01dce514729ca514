CONSTANTS
    v1 = v1  v2 = v2  p1 = p1  p2 = p2
    Variants = {v1, v2}
    Products = {p1, p2}
    Requests = {c1, c2}
    NoRow = NoRow
    NoOrder = NoOrder
    MaxLocations = 1
    MaxInt = 2
    PoolSize = 3
    InitialLocations = 0
    ProductOf <- MCProductOf
    Baskets <- MCBaskets
    InitialStock <- NoStock
    UpsertRows <- MCUpsertRows
    Deltas <- MCDeltas
    AdminQty <- MCAdminQty
SYMMETRY Symmetric
SPECIFICATION Spec
INVARIANTS
    TypeOK
    TxAtomic
    HeldCovered
    TakenMatchesBasket
PROPERTIES
    RefinesLedger
