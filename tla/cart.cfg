CONSTANTS
    Requests = {r1, r2, r3}
    Variants = {v1}
    Ops = {"get", "add", "remove", "clear", "checkout"}
    MaxQty = 1
    MaxCarts = 2
    None = None
SPECIFICATION FairSpec
INVARIANTS
    OneActiveCart
    ConvertedWasOrdered
    LostOnlyByCheckout
PROPERTIES
    StaleCacheDisappears
CHECK_DEADLOCK FALSE
