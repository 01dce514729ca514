----------------------------- MODULE StockLedger -----------------------------
(***************************************************************************)
(* What order creation promises, with no transactions, locks or            *)
(* connections in sight: an order takes all of its stock in one            *)
(* indivisible step, or nothing happens.  OrderCheckout implements it.     *)
(***************************************************************************)
EXTENDS Inventory

CONSTANTS Requests,   \* checkout requests
          NoOrder     \* a request that has produced no order

VARIABLE placed       \* placed[c]: the units the order of request c took, per row

ledgerVars == <<stock, locations, nextLocation, placed>>

\* Units taken from every row; no column holds more than MaxInt
Taking == [Keys -> Qty]

Init ==
    /\ InventoryTypeOK
    /\ placed = [c \in Requests |-> NoOrder]

\* The order of c takes t[k] units of every row k, all at once
PlaceOrder(c, t) ==
    /\ placed[c] = NoOrder
    /\ \A k \in Keys : t[k] > 0 => CanReserve(stock[k], t[k])
    /\ stock' = [k \in Keys |-> IF t[k] > 0 THEN Reserved(stock[k], t[k]) ELSE stock[k]]
    /\ placed' = [placed EXCEPT ![c] = t]
    /\ UNCHANGED <<locations, nextLocation>>

Administer ==
    /\ \/ CreateLocation
       \/ \E l \in 1..MaxLocations : DeleteLocation(l)
       \/ \E k \in Keys, row \in Row : UpsertItem(k, row)
       \/ \E k \in Keys, d \in -MaxInt..MaxInt : AdjustAvailable(k, d)
       \/ \E k \in Keys, q \in Qty : ReserveStock(k, q) \/ ReleaseStock(k, q)
       \/ \E k \in Keys : DeleteItem(k)
    /\ UNCHANGED placed

Next ==
    \/ \E c \in Requests, t \in Taking : PlaceOrder(c, t)
    \/ Administer

Spec == Init /\ [][Next]_ledgerVars
=============================================================================
