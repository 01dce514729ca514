---------------------------- MODULE OrderCheckout ----------------------------
(***************************************************************************)
(* createOrderFromItems: concurrent checkout requests, each of which opens *)
(* one READ COMMITTED transaction, reserves stock line by line, inserts    *)
(* the order and commits, while administrators edit the same stock rows.   *)
(*                                                                         *)
(* stock holds committed rows only.  held[c][k] is what the open           *)
(* transaction of request c has moved from available to reserved in row k; *)
(* it is invisible to everyone else, and a transaction that has updated a  *)
(* row owns the row's lock until it ends.  Quantities are positive, so     *)
(* owning the lock of k and held[c][k] > 0 are the same thing.             *)
(*                                                                         *)
(* A transaction occupies one connection of the pgx pool.  The product and *)
(* variant of every line are read through the pool, outside the            *)
(* transaction, so a request needs a second connection while it holds the  *)
(* first.                                                                  *)
(***************************************************************************)
EXTENDS Inventory, FiniteSets, Functions, Sequences

CONSTANTS Requests,          \* checkout requests of a run
          NoOrder,           \* a request that has produced no order
          Products,
          ProductOf,         \* the product every variant belongs to
          Baskets,           \* item lists a request may carry (empty: from an empty cart)
          PoolSize,          \* MaxConns of the pgx pool
          InitialStock,      \* contents of inventory_items to start from
          InitialLocations,  \* how many locations exist at the start
          UpsertRows, Deltas, AdminQty  \* inputs of the administrator's requests

Line == [product : Products, variant : Variants, quantity : Int]

ASSUME CheckoutAssumption ==
    /\ ProductOf \in [Variants -> Products]
    /\ Baskets \subseteq Seq(Line)
    /\ PoolSize \in Nat \ {0}
    /\ InitialLocations \in 0..MaxLocations
    /\ InitialStock \subseteq [Keys -> Row \cup {NoRow}]
    /\ UpsertRows \subseteq Row
    /\ Deltas \subseteq -MaxInt..MaxInt
    /\ AdminQty \subseteq Qty
    /\ NoOrder \notin [Keys -> Qty]

VARIABLES sellable,  \* variants that exist and are active
          pc,        \* control state of every request
          basket,    \* req.Items, or the lines read from the cart
          line,      \* index of the line being processed
          loc,       \* locationID picked for that line
          held,      \* uncommitted reservations of every request
          placed     \* the units taken by the committed order of a request

txVars == <<pc, basket, line, loc, held, placed>>
vars == <<stock, locations, nextLocation, sellable, pc, basket, line, loc, held, placed>>

NothingHeld == [k \in Keys |-> 0]
InTx == {"lookup", "pick", "reserve", "commit"}
Finished == {"succeeded", "failed"}

Init ==
    /\ stock \in InitialStock
    /\ locations = 1..InitialLocations
    /\ nextLocation = InitialLocations + 1
    /\ sellable = Variants
    /\ pc = [c \in Requests |-> "idle"]
    /\ basket = [c \in Requests |-> <<>>]
    /\ line = [c \in Requests |-> 1]
    /\ loc = [c \in Requests |-> 1]
    /\ held = [c \in Requests |-> NothingHeld]
    /\ placed = [c \in Requests |-> NoOrder]

-----------------------------------------------------------------------------
Current(c) == basket[c][line[c]]
Key(c) == <<Current(c).variant, loc[c]>>

\* The row as the transaction of c sees it: committed, plus its own updates
Visible(c, k) == IF Exists(k) THEN Reserved(stock[k], held[c][k]) ELSE NoRow

\* Mutant of Unlocked: an administrator's update that does not wait for row locks
UnlockedIgnored(k) == TRUE

LockedByOther(c, k) == \E d \in Requests \ {c} : held[d][k] > 0
Unlocked(k) == \A d \in Requests : held[d][k] = 0

\* A connection of the pool is free
PoolFree == Cardinality({c \in Requests : pc[c] \in InTx}) < PoolSize

\* Mutant of AfterLine: the loop stops one line early
AfterLineEarly(c, i) == IF i < Len(basket[c]) THEN "lookup" ELSE "commit"

AfterLine(c, i) == IF i <= Len(basket[c]) THEN "lookup" ELSE "commit"

\* The line passes the checks made before stock is touched
Sellable(l) == l.variant \in sellable /\ ProductOf[l.variant] = l.product

\* UPDATE ... WHERE available_qty >= qty would match the visible row
Sufficient(c) == CanReserve(Visible(c, Key(c)), Current(c).quantity)

\* c waits for the lock of a row that d has updated
WaitsFor(c, d) ==
    /\ c # d
    /\ pc[c] = "reserve"
    /\ Sufficient(c)
    /\ held[d][Key(c)] > 0

\* Mutant of InWaitCycle: the database has no deadlock detector
InWaitCycleUndetected(c) == FALSE

InWaitCycle(c) ==
    \E S \in SUBSET Requests :
        /\ c \in S
        /\ \A x \in S : /\ \E y \in S : WaitsFor(x, y)
                        /\ \E y \in S : WaitsFor(y, x)

\* Mutant of Rollback: an early return forgets the transaction
RollbackForgotten(c) ==
    /\ pc' = [pc EXCEPT ![c] = "failed"]
    /\ UNCHANGED <<stock, locations, nextLocation, sellable, basket, line, loc, held, placed>>

\* Every return of an error runs the deferred tx.Rollback
Rollback(c) ==
    /\ pc' = [pc EXCEPT ![c] = "failed"]
    /\ held' = [held EXCEPT ![c] = NothingHeld]
    /\ UNCHANGED <<stock, locations, nextLocation, sellable, basket, line, loc, placed>>

-----------------------------------------------------------------------------
Submit(c, b) ==
    /\ pc[c] = "idle"
    /\ pc' = [pc EXCEPT ![c] = "begin"]
    /\ basket' = [basket EXCEPT ![c] = b]
    /\ UNCHANGED <<stock, locations, nextLocation, sellable, line, loc, held, placed>>

Begin(c) ==
    /\ pc[c] = "begin"
    /\ PoolFree
    /\ pc' = [pc EXCEPT ![c] = AfterLine(c, 1)]
    /\ UNCHANGED <<stock, locations, nextLocation, sellable, basket, line, loc, held, placed>>

\* GetProductByID and GetVariantByID go through the pool
LookUpLine(c) ==
    /\ pc[c] = "lookup"
    /\ Current(c).quantity > 0
    /\ PoolFree
    /\ Sellable(Current(c))
    /\ pc' = [pc EXCEPT ![c] = "pick"]
    /\ UNCHANGED <<stock, locations, nextLocation, sellable, basket, line, loc, held, placed>>

RejectLine(c) ==
    /\ pc[c] = "lookup"
    /\ \/ Current(c).quantity <= 0
       \/ PoolFree /\ ~Sellable(Current(c))
    /\ Rollback(c)

LocationsOf(v) == {l \in 1..MaxLocations : Exists(<<v, l>>)}

\* ORDER BY location_id ASC LIMIT 1: stock elsewhere is never considered
PickLocation(c) ==
    /\ pc[c] = "pick"
    /\ \E l \in LocationsOf(Current(c).variant) :
          /\ \A m \in LocationsOf(Current(c).variant) : l <= m
          /\ loc' = [loc EXCEPT ![c] = l]
    /\ pc' = [pc EXCEPT ![c] = "reserve"]
    /\ UNCHANGED <<stock, locations, nextLocation, sellable, basket, line, held, placed>>

NoStockRow(c) ==
    /\ pc[c] = "pick"
    /\ LocationsOf(Current(c).variant) = {}
    /\ Rollback(c)

\* Waits while another transaction owns the row; the condition is then
\* evaluated again on the row that transaction left
ReserveLine(c) ==
    /\ pc[c] = "reserve"
    /\ Sufficient(c)
    /\ ~LockedByOther(c, Key(c))
    /\ held' = [held EXCEPT ![c][Key(c)] = @ + Current(c).quantity]
    /\ line' = [line EXCEPT ![c] = @ + 1]
    /\ pc' = [pc EXCEPT ![c] = AfterLine(c, line[c] + 1)]
    /\ UNCHANGED <<stock, locations, nextLocation, sellable, basket, loc, placed>>

\* A row whose committed version does not match is skipped without waiting
OutOfStock(c) ==
    /\ pc[c] = "reserve"
    /\ ~Sufficient(c)
    /\ Rollback(c)

\* PostgreSQL's deadlock detector aborts a member of a wait cycle
DeadlockVictim(c) ==
    /\ InWaitCycle(c)
    /\ Rollback(c)

\* Mutant of CommitEffect: the reservations are made outside the transaction
\* that inserts the order, and are lost
CommitEffectWithoutStock(c) ==
    /\ pc[c] = "commit"
    /\ placed' = [placed EXCEPT ![c] = held[c]]
    /\ held' = [held EXCEPT ![c] = NothingHeld]
    /\ UNCHANGED <<stock, locations, nextLocation, sellable, basket, line, loc>>

\* CreateOrderTx and tx.Commit: the order and its reservations become visible
\* together and the row locks are released
CommitEffect(c) ==
    /\ pc[c] = "commit"
    /\ stock' = [k \in Keys |-> Visible(c, k)]
    /\ placed' = [placed EXCEPT ![c] = held[c]]
    /\ held' = [held EXCEPT ![c] = NothingHeld]
    /\ UNCHANGED <<locations, nextLocation, sellable, basket, line, loc>>

Commit(c) ==
    /\ CommitEffect(c)
    /\ pc' = [pc EXCEPT ![c] = "succeeded"]

\* The server committed, but the acknowledgement never reached the request
CommitUnacknowledged(c) ==
    /\ CommitEffect(c)
    /\ pc' = [pc EXCEPT ![c] = "failed"]

\* The request's context is cancelled, or a statement fails
Cancel(c) ==
    /\ pc[c] \in InTx \cup {"begin"}
    /\ Rollback(c)

-----------------------------------------------------------------------------
\* Administrators' statements also wait for row locks
AdminItem(k) ==
    /\ Unlocked(k)
    /\ \/ \E row \in UpsertRows : UpsertItem(k, row)
       \/ \E d \in Deltas : AdjustAvailable(k, d)
       \/ \E q \in AdminQty : ReserveStock(k, q)
       \/ \E q \in AdminQty : ReleaseStock(k, q)
       \/ DeleteItem(k)

AdminLocation ==
    \/ CreateLocation
    \/ \E l \in 1..MaxLocations :
          /\ \A v \in Variants : Unlocked(<<v, l>>)
          /\ DeleteLocation(l)

Administer ==
    /\ AdminLocation \/ \E k \in Keys : AdminItem(k)
    /\ UNCHANGED <<sellable, txVars>>

\* UpdateVariant: an administrator switches is_active
SetVariantActive(v) ==
    /\ sellable' = IF v \in sellable THEN sellable \ {v} ELSE sellable \cup {v}
    /\ UNCHANGED <<invVars, txVars>>

\* What the service and the database do for c without being asked again
Progress(c) ==
    \/ Begin(c) \/ LookUpLine(c) \/ RejectLine(c) \/ PickLocation(c)
    \/ NoStockRow(c) \/ ReserveLine(c) \/ OutOfStock(c) \/ DeadlockVictim(c)
    \/ Commit(c)

Next ==
    \/ \E c \in Requests :
          \/ \E b \in Baskets : Submit(c, b)
          \/ Progress(c)
          \/ CommitUnacknowledged(c)
          \/ Cancel(c)
    \/ Administer
    \/ \E v \in Variants : SetVariantActive(v)

Spec == Init /\ [][Next]_vars

\* The Go scheduler runs every goroutine, and PostgreSQL answers every
\* statement that is not waiting for a lock
FairSpec == Spec /\ \A c \in Requests : WF_vars(Progress(c))

-----------------------------------------------------------------------------
TypeOK ==
    /\ InventoryTypeOK
    /\ sellable \subseteq Variants
    /\ pc \in [Requests -> {"idle", "begin"} \cup InTx \cup Finished]
    /\ basket \in [Requests -> Seq(Line)]
    /\ line \in [Requests -> Nat \ {0}]
    /\ loc \in [Requests -> 1..MaxLocations]
    /\ held \in [Requests -> [Keys -> Qty]]
    /\ placed \in [Requests -> [Keys -> Qty] \cup {NoOrder}]

\* All or nothing: outside its transaction a request owns no row lock and no
\* reservation, before the transaction ends it has no order, and a request
\* answered with success has one
TxAtomic ==
    \A c \in Requests :
        /\ pc[c] \notin InTx => held[c] = NothingHeld
        /\ pc[c] \notin Finished => placed[c] = NoOrder
        /\ pc[c] = "succeeded" => placed[c] # NoOrder

\* Two transactions never hold uncommitted updates of one stock row
RowLockExclusive ==
    \A c, d \in Requests, k \in Keys : held[c][k] > 0 /\ held[d][k] > 0 => c = d

\* No overselling: while a transaction is open, the units it has reserved in a
\* row are units the committed row has available, whatever administrators and
\* other checkouts did meanwhile
HeldCovered ==
    \A c \in Requests, k \in Keys : held[c][k] > 0 => CanReserve(stock[k], held[c][k])

\* Past its checks, a request works on a line of its basket whose quantity is
\* positive
LineInProgress ==
    \A c \in Requests :
        /\ pc[c] \in {"lookup", "pick", "reserve"} => line[c] \in 1..Len(basket[c])
        /\ pc[c] \in {"pick", "reserve"} => Current(c).quantity > 0
        /\ pc[c] \in {"idle", "begin"} => line[c] = 1

\* The inductive invariant behind the safety theorems and the refinement
Inv == TypeOK /\ TxAtomic /\ RowLockExclusive /\ HeldCovered /\ LineInProgress

\* The detailed transaction implements atomic order placement
Ledger == INSTANCE StockLedger
RefinesLedger == Ledger!Spec

\* Every submitted checkout is answered, whatever locks it meets, as long as the
\* open transactions never occupy the whole pool
EveryCheckoutFinishes ==
    []PoolFree => \A c \in Requests : pc[c] = "begin" ~> pc[c] \in Finished

CanProceed(c) ==
    \/ pc[c] = "begin" /\ PoolFree
    \/ pc[c] = "lookup" /\ (PoolFree \/ Current(c).quantity <= 0)
    \/ pc[c] \in {"pick", "commit"}
    \/ pc[c] = "reserve" /\ (~Sufficient(c) \/ ~LockedByOther(c, Key(c)))
    \/ InWaitCycle(c)

\* Row locks alone never bring checkout to a halt: when requests are in flight
\* and none can proceed, every pool connection is owned by a transaction, at
\* least one of which waits for a second connection
StuckOnlyWhenPoolExhausted ==
    LET InFlight == {c \in Requests : pc[c] \in InTx \cup {"begin"}}
    IN  InFlight # {} /\ (\A c \in InFlight : ~CanProceed(c))
           => /\ Cardinality({c \in Requests : pc[c] \in InTx}) = PoolSize
              /\ \E c \in InFlight : pc[c] = "lookup"

\* What that rests on: every open transaction occupies a connection of its own
PoolBounded ==
    LET Open == {c \in Requests : pc[c] \in InTx}
    IN  IsFiniteSet(Open) /\ Cardinality(Open) <= PoolSize

-----------------------------------------------------------------------------
(* What orders take, in sums *)

Sum(f) == FoldFunction(+, 0, f)

\* The units that h takes from the rows of v
Taken(h, v) == Sum([l \in 1..MaxLocations |-> h[<<v, l>>]])

\* The units of v that the lines of c before the n-th ask for
AskedBefore(c, n, v) ==
    Sum([i \in DOMAIN basket[c] |->
           IF i < n /\ basket[c][i].variant = v THEN basket[c][i].quantity ELSE 0])

\* The units a committed order took from a variant's rows are the units its
\* lines ask for: no line is reserved twice or skipped on the way to commit
TakenMatchesBasket ==
    \A c \in Requests : placed[c] # NoOrder =>
        \A v \in Variants : Taken(placed[c], v) = AskedBefore(c, Len(basket[c]) + 1, v)

\* The inductive invariant behind it: an open transaction has taken what the
\* lines before the current one ask for, and all lines are before it at the commit
Matches(c) ==
    /\ pc[c] \in InTx =>
          \A v \in Variants : Taken(held[c], v) = AskedBefore(c, line[c], v)
    /\ pc[c] = "commit" => line[c] = Len(basket[c]) + 1
    /\ placed[c] # NoOrder =>
          \A v \in Variants : Taken(placed[c], v) = AskedBefore(c, Len(basket[c]) + 1, v)

TakenInv == \A c \in Requests : Matches(c)

\* The units of row k in committed orders
OrderedOf(k) == [c \in Requests |-> IF placed[c] = NoOrder THEN 0 ELSE placed[c][k]]

\* While administrators neither overwrite, reserve nor release by hand, the
\* reserved quantity of every row is the sum of what committed orders took
ReservedEqualsOrders ==
    \A k \in Keys : Exists(k) => stock[k].reserved = Sum(OrderedOf(k))

\* Nothing is reserved at the start, and administrators do not write reserved_qty
HandsOff ==
    /\ \A initial \in InitialStock, k \in Keys :
          initial[k] # NoRow => initial[k].reserved = 0
    /\ UpsertRows = {} /\ AdminQty = {}
=============================================================================
