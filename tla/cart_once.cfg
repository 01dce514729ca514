CONSTANTS
    Requests = {r1, r2, r3}
    Variants = {v1}
    Ops = {"add", "checkout"}
    MaxQty = 1
    MaxCarts = 2
    None = None

SPECIFICATION Spec
INVARIANTS
    CartOrderedOnce
CHECK_DEADLOCK FALSE
