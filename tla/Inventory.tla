------------------------------ MODULE Inventory ------------------------------
(***************************************************************************)
(* The stock tables inventory_locations and inventory_items, and the       *)
(* administrator's operations on them (CatalogService inventory methods    *)
(* over InventoryRepository).  A row of inventory_items is keyed by        *)
(* (variant, location); stock maps every key to its committed row, or to   *)
(* NoRow when the table has none.  Each operation here is one SQL          *)
(* statement, atomic in PostgreSQL.  incoming_qty is written only by the   *)
(* upsert and read by nobody, so it is left out.                           *)
(***************************************************************************)
EXTENDS Integers

CONSTANTS Variants,      \* product variants
          MaxLocations,  \* location ids are drawn from 1..MaxLocations
          MaxInt,        \* largest value of an INT column; beyond it a statement fails
          NoRow          \* stands for a missing row

ASSUME InventoryAssumption ==
    /\ MaxLocations \in Nat \ {0}
    /\ MaxInt \in Nat
    /\ NoRow \notin [available : 0..MaxInt, reserved : 0..MaxInt]

VARIABLES stock,         \* committed rows of inventory_items
          locations,     \* ids present in inventory_locations
          nextLocation   \* next id of the BIGSERIAL sequence of inventory_locations

invVars == <<stock, locations, nextLocation>>

Qty == 0..MaxInt
Row == [available : Qty, reserved : Qty]
Keys == Variants \X (1..MaxLocations)

InventoryTypeOK ==
    /\ stock \in [Keys -> Row \cup {NoRow}]
    /\ locations \subseteq 1..MaxLocations
    /\ nextLocation \in 1..(MaxLocations + 1)

Exists(k) == stock[k] # NoRow

\* The row after qty units move from available_qty to reserved_qty
Reserved(row, qty) ==
    [available |-> row.available - qty, reserved |-> row.reserved + qty]

\* Mutant of CanReserve: the guard on available_qty is dropped
CanReserveUnguarded(row, qty) == row # NoRow /\ row.reserved + qty <= MaxInt

\* reserveTx succeeds on this row: WHERE available_qty >= qty, and the new
\* reserved_qty still fits its column
CanReserve(row, qty) ==
    row # NoRow /\ row.available >= qty /\ row.reserved + qty <= MaxInt

-----------------------------------------------------------------------------
(* Administrator's operations.  A call the code refuses changes nothing and *)
(* is a stuttering step.                                                    *)

CreateLocation ==
    /\ nextLocation <= MaxLocations
    /\ locations' = locations \cup {nextLocation}
    /\ nextLocation' = nextLocation + 1
    /\ UNCHANGED stock

\* ON DELETE CASCADE removes the location's inventory items with it
DeleteLocation(l) ==
    /\ l \in locations
    /\ locations' = locations \ {l}
    /\ stock' = [k \in Keys |-> IF k[2] = l THEN NoRow ELSE stock[k]]
    /\ UNCHANGED nextLocation

\* Writes absolute quantities: whatever was reserved before is overwritten
UpsertItem(k, row) ==
    /\ k[2] \in locations
    /\ stock' = [stock EXCEPT ![k] = row]
    /\ UNCHANGED <<locations, nextLocation>>

AdjustAvailable(k, delta) ==
    /\ Exists(k)
    /\ stock[k].available + delta \in Qty
    /\ stock' = [stock EXCEPT ![k].available = @ + delta]
    /\ UNCHANGED <<locations, nextLocation>>

ReserveStock(k, qty) ==
    /\ qty > 0
    /\ CanReserve(stock[k], qty)
    /\ stock' = [stock EXCEPT ![k] = Reserved(@, qty)]
    /\ UNCHANGED <<locations, nextLocation>>

ReleaseStock(k, qty) ==
    /\ qty > 0
    /\ Exists(k)
    /\ stock[k].reserved >= qty
    /\ stock[k].available + qty <= MaxInt
    /\ stock' = [stock EXCEPT ![k] = Reserved(@, -qty)]
    /\ UNCHANGED <<locations, nextLocation>>

DeleteItem(k) ==
    /\ Exists(k)
    /\ stock' = [stock EXCEPT ![k] = NoRow]
    /\ UNCHANGED <<locations, nextLocation>>
=============================================================================
