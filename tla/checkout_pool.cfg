CONSTANTS
    v1 = v1  v2 = v2  p1 = p1  p2 = p2
    Variants = {v1, v2}
    Products = {p1, p2}
    Requests = {c1, c2, c3}
    NoRow = NoRow
    NoOrder = NoOrder
    MaxLocations = 1
    MaxInt = 2
    PoolSize = 3
    InitialLocations = 1
    ProductOf <- MCProductOf
    Baskets <- CrossedBaskets
    InitialStock <- AmpleStock
    UpsertRows <- NoInputs
    Deltas <- NoInputs
    AdminQty <- NoInputs
SYMMETRY Symmetric
SPECIFICATION Spec
INVARIANTS
    StuckOnlyWhenPoolExhausted
