-------------------------- MODULE OrderCheckoutProofs --------------------------
(***************************************************************************)
(* Safety of the checkout transaction for any number of requests, variants *)
(* and locations, any stock, any baskets and any pool size.                *)
(***************************************************************************)
EXTENDS OrderCheckout, FiniteSetTheorems, WellFoundedInduction, TLAPS

\* Moving qty units inside a row that can give them leaves a well-formed row
\* (reserveTx).
LEMMA ReservedType ==
    ASSUME NEW row \in Row, NEW q \in Nat, CanReserve(row, q)
    PROVE  Reserved(row, q) \in Row
  BY InventoryAssumption DEF Row, Qty, CanReserve, Reserved

\* A row is never the marker of a missing row.
LEMMA RowIsNotNoRow ==
    \A row \in Row : row # NoRow
  BY InventoryAssumption DEF Row, Qty

\* The rows a transaction sees are well-formed rows of the table.
LEMMA VisibleType ==
    ASSUME TypeOK, HeldCovered, NEW c \in Requests, NEW k \in Keys
    PROVE  /\ Visible(c, k) \in Row \cup {NoRow}
           /\ Exists(k) => Visible(c, k) \in Row
  <1>1. CASE ~Exists(k)
    BY <1>1 DEF Visible
  <1>2. CASE Exists(k)
    <2>1. stock[k] \in Row /\ held[c][k] \in Qty
      BY <1>2 DEF TypeOK, InventoryTypeOK, Exists
    <2>2. CASE held[c][k] > 0
      <3>1. CanReserve(stock[k], held[c][k])
        BY <2>2 DEF HeldCovered
      <3>2. held[c][k] \in Nat
        BY <2>1, InventoryAssumption DEF Qty
      <3>3. Reserved(stock[k], held[c][k]) \in Row
        BY <2>1, <3>1, <3>2, ReservedType
      <3> QED
        BY <3>3, <1>2 DEF Visible
    <2>3. CASE held[c][k] = 0
      <3>1. Reserved(stock[k], 0) \in Row
        BY <2>1, InventoryAssumption DEF Reserved, Row, Qty
      <3> QED
        BY <3>1, <2>3, <1>2 DEF Visible
    <2> QED
      BY <2>1, <2>2, <2>3, InventoryAssumption DEF Qty
  <1> QED
    BY <1>1, <1>2

\* The initial state satisfies the inductive invariant.
LEMMA InitInv == Init => Inv
  <1> SUFFICES ASSUME Init PROVE Inv
    OBVIOUS
  <1> USE CheckoutAssumption, InventoryAssumption DEF Init
  <1>1. NothingHeld \in [Keys -> Qty]
    BY DEF NothingHeld, Qty
  <1>2. TypeOK
    <2>1. InventoryTypeOK
      BY DEF InventoryTypeOK
    <2>2. basket \in [Requests -> Seq(Line)]
      OBVIOUS
    <2>3. held \in [Requests -> [Keys -> Qty]]
      BY <1>1
    <2>4. loc \in [Requests -> 1..MaxLocations]
      OBVIOUS
    <2> QED
      BY <2>1, <2>2, <2>3, <2>4 DEF TypeOK, InTx, Finished
  <1>3. TxAtomic
    BY DEF TxAtomic, InTx, Finished
  <1>4. RowLockExclusive /\ HeldCovered
    BY DEF RowLockExclusive, HeldCovered, NothingHeld
  <1>5. LineInProgress
    BY DEF LineInProgress
  <1> QED
    BY <1>2, <1>3, <1>4, <1>5 DEF Inv

-----------------------------------------------------------------------------
\* Rolling back keeps the invariant, from whatever step the code returns
\* (deferred tx.Rollback in createOrderFromItems).
LEMMA RollbackInv ==
    ASSUME Inv, NEW c \in Requests, Rollback(c), pc[c] \in InTx \cup {"begin"}
    PROVE  Inv'
  <1> USE DEF Inv, Rollback
  <1>1. NothingHeld \in [Keys -> Qty]
    BY InventoryAssumption DEF NothingHeld, Qty
  <1>2. TypeOK'
    BY <1>1 DEF TypeOK, InventoryTypeOK, Finished
  <1>3. TxAtomic'
    <2> SUFFICES ASSUME NEW d \in Requests
                 PROVE  /\ pc'[d] \notin InTx => held'[d] = NothingHeld
                        /\ pc'[d] \notin Finished => placed'[d] = NoOrder
                        /\ pc'[d] = "succeeded" => placed'[d] # NoOrder
      BY DEF TxAtomic, NothingHeld, Keys
    <2> QED
      BY DEF TypeOK, TxAtomic, InTx, Finished
  <1>4. RowLockExclusive'
    BY DEF RowLockExclusive, TypeOK, NothingHeld
  <1>5. HeldCovered'
    BY DEF HeldCovered, TypeOK, NothingHeld, CanReserve
  <1>6. LineInProgress'
    BY DEF LineInProgress, TypeOK, Current
  <1> QED
    BY <1>2, <1>3, <1>4, <1>5, <1>6

\* The steps of a request that move only its control state or its pick
\* (Submit, Begin, LookUpLine, PickLocation).
LEMMA ControlInv ==
    ASSUME Inv, NEW c \in Requests,
           \/ \E b \in Baskets : Submit(c, b)
           \/ Begin(c) \/ LookUpLine(c) \/ PickLocation(c)
    PROVE  Inv'
  <1> USE DEF Inv
  <1>1. UNCHANGED <<stock, locations, nextLocation, sellable, line, held, placed>>
    BY DEF Submit, Begin, LookUpLine, PickLocation
  <1>2. \E p \in {"begin"} \cup InTx : pc' = [pc EXCEPT ![c] = p]
    BY DEF Submit, Begin, LookUpLine, PickLocation, InTx, AfterLine
  <1>3. pc[c] \in {"idle", "begin"} \cup InTx /\ (pc'[c] = "begin" => pc[c] = "idle")
    BY DEF Submit, Begin, LookUpLine, PickLocation, InTx, AfterLine, TypeOK
  <1>4. TypeOK'
    <2>1. pc' \in [Requests -> {"idle", "begin"} \cup InTx \cup Finished]
      BY <1>2 DEF TypeOK
    <2>2. basket' \in [Requests -> Seq(Line)]
      BY CheckoutAssumption DEF TypeOK, Submit, Begin, LookUpLine, PickLocation
    <2>3. loc' \in [Requests -> 1..MaxLocations]
      BY DEF TypeOK, Submit, Begin, LookUpLine, PickLocation, LocationsOf
    <2> QED
      BY <1>1, <2>1, <2>2, <2>3 DEF TypeOK, InventoryTypeOK
  <1>5. TxAtomic'
    <2> SUFFICES ASSUME NEW d \in Requests
                 PROVE  /\ pc'[d] \notin InTx => held[d] = NothingHeld
                        /\ pc'[d] \notin Finished => placed[d] = NoOrder
                        /\ pc'[d] = "succeeded" => placed[d] # NoOrder
      BY <1>1 DEF TxAtomic, NothingHeld, Keys
    <2> QED
      BY <1>2, <1>3 DEF TypeOK, TxAtomic, InTx, Finished
  <1>6. RowLockExclusive' /\ HeldCovered'
    BY <1>1 DEF RowLockExclusive, HeldCovered, CanReserve
  <1>7. LineInProgress'
    <2>1. CASE \E b \in Baskets : Submit(c, b)
      BY <2>1 DEF LineInProgress, Submit, Current, TypeOK
    <2>2. CASE Begin(c)
      BY <2>2 DEF LineInProgress, Begin, AfterLine, Current, TypeOK
    <2>3. CASE LookUpLine(c)
      BY <2>3 DEF LineInProgress, LookUpLine, Current, TypeOK
    <2>4. CASE PickLocation(c)
      BY <2>4 DEF LineInProgress, PickLocation, Current, TypeOK
    <2> QED
      BY <2>1, <2>2, <2>3, <2>4
  <1> QED
    BY <1>4, <1>5, <1>6, <1>7

\* Reserving a line keeps the invariant: the row is free or already owned by
\* this transaction, and it covers the units reserved so far plus the new ones
\* (reserveTx inside the order transaction).
LEMMA ReserveLineInv ==
    ASSUME Inv, NEW c \in Requests, ReserveLine(c)
    PROVE  Inv'
  <1> DEFINE key == Key(c)
             qty == Current(c).quantity
  <1> USE DEF Inv
  <1>1. /\ pc[c] = "reserve" /\ Sufficient(c) /\ ~LockedByOther(c, key)
        /\ held' = [held EXCEPT ![c][key] = @ + qty]
        /\ line' = [line EXCEPT ![c] = @ + 1]
        /\ pc' = [pc EXCEPT ![c] = AfterLine(c, line[c] + 1)]
        /\ UNCHANGED <<stock, locations, nextLocation, sellable, basket, loc, placed>>
    BY DEF ReserveLine
  <1>2. Current(c) \in Line /\ qty \in Nat \ {0}
    <2>1. line[c] \in 1..Len(basket[c]) /\ qty > 0
      BY <1>1 DEF LineInProgress
    <2>2. Current(c) \in Line
      BY <2>1 DEF Current, TypeOK
    <2> QED
      BY <2>1, <2>2 DEF Line
  <1>3. key \in Keys
    BY <1>2 DEF Key, Keys, Line, TypeOK
  <1>4. held[c][key] \in Nat
    BY <1>3, InventoryAssumption DEF TypeOK, Qty
  <1>5. CanReserve(stock[key], held[c][key] + qty) /\ held[c][key] + qty \in Qty
    <2>1. CanReserve(Visible(c, key), qty)
      BY <1>1 DEF Sufficient
    <2>2. Exists(key)
      BY <2>1 DEF Visible, CanReserve
    <2>3. stock[key] \in Row
      BY <1>3, <2>2 DEF TypeOK, InventoryTypeOK, Exists
    <2>4. CanReserve(Reserved(stock[key], held[c][key]), qty)
      BY <2>1, <2>2 DEF Visible
    <2> HIDE DEF key, qty
    <2> QED
      BY <1>2, <1>4, <2>2, <2>3, <2>4, InventoryAssumption
      DEF CanReserve, Reserved, Row, Qty, Exists
  <1> HIDE DEF key, qty
  <1>6. held' \in [Requests -> [Keys -> Qty]]
    BY <1>1, <1>3, <1>5 DEF TypeOK
  <1>7. \A d \in Requests, k \in Keys :
           held'[d][k] = IF d = c /\ k = key THEN held[c][key] + qty ELSE held[d][k]
    BY <1>1, <1>3 DEF TypeOK
  <1>8. TypeOK'
    BY <1>1, <1>6 DEF TypeOK, InventoryTypeOK, AfterLine, InTx
  <1>9. TxAtomic'
    <2>1. AfterLine(c, line[c] + 1) \in InTx
      BY DEF AfterLine, InTx
    <2> SUFFICES ASSUME NEW d \in Requests
                 PROVE  /\ pc'[d] \notin InTx => held'[d] = NothingHeld
                        /\ pc'[d] \notin Finished => placed'[d] = NoOrder
                        /\ pc'[d] = "succeeded" => placed'[d] # NoOrder
      BY DEF TxAtomic, NothingHeld, Keys
    <2>2. CASE d = c
      BY <1>1, <2>1, <2>2 DEF TypeOK, TxAtomic, InTx, Finished
    <2>3. CASE d # c
      BY <1>1, <2>3 DEF TypeOK, TxAtomic
    <2> QED
      BY <2>2, <2>3
  <1>10. RowLockExclusive'
    <2>1. \A d \in Requests \ {c} : ~(held[d][key] > 0)
      BY <1>1 DEF LockedByOther
    <2> QED
      BY <1>3, <1>7, <2>1 DEF RowLockExclusive
  <1>11. HeldCovered'
    BY <1>1, <1>3, <1>5, <1>7 DEF HeldCovered, CanReserve
  <1>12. LineInProgress'
    BY <1>1 DEF LineInProgress, AfterLine, Current, TypeOK
  <1> QED
    BY <1>8, <1>9, <1>10, <1>11, <1>12

\* Committing keeps the invariant: the rows of the open transaction become the
\* committed rows, and no other transaction holds an update of any of them
\* (CreateOrderTx and tx.Commit).
LEMMA CommitInv ==
    ASSUME Inv, NEW c \in Requests, Commit(c) \/ CommitUnacknowledged(c)
    PROVE  Inv'
  <1> USE DEF Inv
  <1>1. /\ pc[c] = "commit"
        /\ stock' = [k \in Keys |-> Visible(c, k)]
        /\ placed' = [placed EXCEPT ![c] = held[c]]
        /\ held' = [held EXCEPT ![c] = NothingHeld]
        /\ UNCHANGED <<locations, nextLocation, sellable, basket, line, loc>>
    BY DEF Commit, CommitUnacknowledged, CommitEffect
  <1>2. \E p \in Finished : pc' = [pc EXCEPT ![c] = p]
    BY DEF Commit, CommitUnacknowledged, Finished
  <1>3. NothingHeld \in [Keys -> Qty]
    BY InventoryAssumption DEF NothingHeld, Qty
  <1>4. held' \in [Requests -> [Keys -> Qty]]
    BY <1>1, <1>3 DEF TypeOK
  <1>5. TypeOK'
    <2>1. stock' \in [Keys -> Row \cup {NoRow}]
      BY <1>1, VisibleType
    <2>2. placed' \in [Requests -> [Keys -> Qty] \cup {NoOrder}]
      BY <1>1 DEF TypeOK
    <2>3. pc' \in [Requests -> {"idle", "begin"} \cup InTx \cup Finished]
      BY <1>2 DEF TypeOK
    <2> QED
      BY <1>1, <1>4, <2>1, <2>2, <2>3 DEF TypeOK, InventoryTypeOK
  <1>6. TxAtomic'
    <2> SUFFICES ASSUME NEW d \in Requests
                 PROVE  /\ pc'[d] \notin InTx => held'[d] = NothingHeld
                        /\ pc'[d] \notin Finished => placed'[d] = NoOrder
                        /\ pc'[d] = "succeeded" => placed'[d] # NoOrder
      BY DEF TxAtomic, NothingHeld, Keys
    <2>1. CASE d = c
      <3>1. held[c] \in [Keys -> Qty] /\ NoOrder \notin [Keys -> Qty]
        BY CheckoutAssumption DEF TypeOK
      <3>2. held'[c] = NothingHeld /\ placed'[c] = held[c] /\ pc'[c] \in Finished
        BY <1>1, <1>2 DEF TypeOK
      <3> QED
        BY <2>1, <3>1, <3>2
    <2>2. CASE d # c
      BY <1>1, <1>2, <2>2 DEF TypeOK, TxAtomic
    <2> QED
      BY <2>1, <2>2
  <1>7. \A d \in Requests, k \in Keys : held'[d][k] = IF d = c THEN 0 ELSE held[d][k]
    BY <1>1 DEF TypeOK, NothingHeld
  <1>8. RowLockExclusive'
    BY <1>7 DEF RowLockExclusive
  <1>9. HeldCovered'
    <2> SUFFICES ASSUME NEW d \in Requests, NEW k \in Keys, held'[d][k] > 0
                 PROVE  CanReserve(stock'[k], held'[d][k])
      BY DEF HeldCovered, CanReserve
    <2>1. d # c /\ held'[d][k] = held[d][k] /\ held[d][k] > 0
      BY <1>7
    <2>2. held[c][k] = 0
      BY <2>1, InventoryAssumption DEF RowLockExclusive, TypeOK, Qty
    <2>3. CanReserve(stock[k], held[d][k])
      BY <2>1 DEF HeldCovered
    <2>4. stock[k] \in Row
      BY <2>3 DEF CanReserve, TypeOK, InventoryTypeOK
    <2>5. stock'[k] = stock[k]
      BY <1>1, <2>2, <2>3, <2>4, RowIsNotNoRow DEF Visible, Exists, Reserved, Row, Qty
    <2> QED
      BY <2>1, <2>3, <2>5
  <1>10. LineInProgress'
    BY <1>1, <1>2 DEF LineInProgress, Current, TypeOK, Finished
  <1> QED
    BY <1>5, <1>6, <1>8, <1>9, <1>10

\* One administrator's statement writes well-formed rows, and only rows that no
\* open transaction has updated.
LEMMA AdministerStock ==
    ASSUME Inv, Administer
    PROVE  /\ InventoryTypeOK'
           /\ \A k \in Keys : stock'[k] # stock[k] => Unlocked(k)
  <1> USE DEF Inv
  <1>0. InventoryTypeOK
    BY DEF TypeOK
  <1>1. CASE CreateLocation
    BY <1>0, <1>1, InventoryAssumption DEF CreateLocation, InventoryTypeOK
  <1>2. ASSUME NEW l \in 1..MaxLocations, DeleteLocation(l),
               \A v \in Variants : Unlocked(<<v, l>>)
        PROVE  /\ InventoryTypeOK'
               /\ \A k \in Keys : stock'[k] # stock[k] => Unlocked(k)
    BY <1>0, <1>2 DEF DeleteLocation, InventoryTypeOK, Keys
  <1>3. ASSUME NEW k \in Keys, AdminItem(k)
        PROVE  /\ InventoryTypeOK'
               /\ \A j \in Keys : stock'[j] # stock[j] => Unlocked(j)
    <2> DEFINE Written == \E row \in Row \cup {NoRow} :
                             /\ stock' = [stock EXCEPT ![k] = row]
                             /\ UNCHANGED <<locations, nextLocation>>
    <2>1. Written
      <3>0. /\ stock[k] \in Row \cup {NoRow}
            /\ NoRow \notin Row
        BY <1>0, RowIsNotNoRow DEF InventoryTypeOK
      <3>1. ASSUME NEW row \in UpsertRows, UpsertItem(k, row)
            PROVE  Written
        BY <3>1, CheckoutAssumption DEF UpsertItem
      <3>2. ASSUME NEW d \in Deltas, AdjustAvailable(k, d)
            PROVE  Written
        <4>1. stock[k] \in Row /\ stock[k].available + d \in Qty
          BY <3>0, <3>2 DEF AdjustAvailable, Exists
        <4>2. [stock[k] EXCEPT !.available = @ + d] \in Row
          BY <4>1 DEF Row
        <4>3. stock' = [stock EXCEPT ![k] = [stock[k] EXCEPT !.available = @ + d]]
          BY <1>0, <3>2 DEF AdjustAvailable, InventoryTypeOK
        <4> QED
          BY <3>2, <4>2, <4>3 DEF AdjustAvailable
      <3>3. ASSUME NEW q \in AdminQty, ReserveStock(k, q)
            PROVE  Written
        <4>1. stock[k] \in Row /\ q \in Nat
          BY <3>0, <3>3, CheckoutAssumption, InventoryAssumption
          DEF ReserveStock, CanReserve, Qty
        <4>2. Reserved(stock[k], q) \in Row
          BY <3>3, <4>1, ReservedType DEF ReserveStock
        <4> QED
          BY <3>3, <4>2 DEF ReserveStock
      <3>4. ASSUME NEW q \in AdminQty, ReleaseStock(k, q)
            PROVE  Written
        <4>1. stock[k] \in Row /\ q \in Nat
          BY <3>0, <3>4, CheckoutAssumption, InventoryAssumption
          DEF ReleaseStock, Exists, Qty
        <4>2. Reserved(stock[k], -q) \in Row
          BY <3>4, <4>1, InventoryAssumption DEF ReleaseStock, Reserved, Row, Qty
        <4> QED
          BY <3>4, <4>2 DEF ReleaseStock
      <3>5. ASSUME DeleteItem(k)
            PROVE  Written
        BY <3>5 DEF DeleteItem
      <3> QED
        BY <1>3, <3>1, <3>2, <3>3, <3>4, <3>5 DEF AdminItem
    <2>2. Unlocked(k)
      BY <1>3 DEF AdminItem
    <2> QED
      BY <1>0, <2>1, <2>2 DEF InventoryTypeOK
  <1> QED
    BY <1>1, <1>2, <1>3 DEF Administer, AdminLocation

\* Administrators and the catalogue keep the invariant: they wait for row locks.
LEMMA AdministerInv ==
    ASSUME Inv, Administer \/ \E v \in Variants : SetVariantActive(v)
    PROVE  Inv'
  <1> USE DEF Inv
  <1>1. /\ InventoryTypeOK'
        /\ \A k \in Keys : stock'[k] # stock[k] => Unlocked(k)
    <2>1. CASE Administer
      BY <2>1, AdministerStock
    <2>2. CASE \E v \in Variants : SetVariantActive(v)
      BY <2>2 DEF SetVariantActive, invVars, TypeOK, InventoryTypeOK
    <2> QED
      BY <2>1, <2>2
  <1>2. UNCHANGED txVars /\ sellable' \subseteq Variants
    BY DEF Administer, SetVariantActive, TypeOK
  <1>3. TypeOK'
    BY <1>1, <1>2 DEF TypeOK, txVars
  <1>4. TxAtomic' /\ RowLockExclusive' /\ LineInProgress'
    BY <1>2 DEF txVars, TxAtomic, NothingHeld, Keys, RowLockExclusive, LineInProgress, Current
  <1>5. HeldCovered'
    BY <1>1, <1>2 DEF txVars, HeldCovered, CanReserve, Unlocked
  <1> QED
    BY <1>3, <1>4, <1>5

\* Every step of the system keeps the invariant.
LEMMA NextInv == Inv /\ [Next]_vars => Inv'
  <1> SUFFICES ASSUME Inv, [Next]_vars PROVE Inv'
    OBVIOUS
  <1>1. ASSUME NEW c \in Requests,
               \E b \in Baskets : Submit(c, b)
        PROVE  Inv'
    BY <1>1, ControlInv
  <1>2. ASSUME NEW c \in Requests, Progress(c)
        PROVE  Inv'
    <2>1. CASE Begin(c) \/ LookUpLine(c) \/ PickLocation(c)
      BY <2>1, ControlInv
    <2>2. CASE ReserveLine(c)
      BY <2>2, ReserveLineInv
    <2>3. CASE Commit(c)
      BY <2>3, CommitInv
    <2>4. CASE RejectLine(c) \/ NoStockRow(c) \/ OutOfStock(c) \/ DeadlockVictim(c)
      <3>1. Rollback(c)
        BY <2>4 DEF RejectLine, NoStockRow, OutOfStock, DeadlockVictim
      <3>2. pc[c] \in InTx
        BY <2>4 DEF RejectLine, NoStockRow, OutOfStock, DeadlockVictim,
                    InWaitCycle, WaitsFor, InTx
      <3> QED
        BY <3>1, <3>2, RollbackInv
    <2> QED
      BY <1>2, <2>1, <2>2, <2>3, <2>4 DEF Progress
  <1>3. ASSUME NEW c \in Requests, CommitUnacknowledged(c)
        PROVE  Inv'
    BY <1>3, CommitInv
  <1>4. ASSUME NEW c \in Requests, Cancel(c)
        PROVE  Inv'
    BY <1>4, RollbackInv DEF Cancel
  <1>5. CASE Administer \/ \E v \in Variants : SetVariantActive(v)
    BY <1>5, AdministerInv
  <1>6. CASE UNCHANGED vars
    <2> USE <1>6 DEF vars
    <2>1. TypeOK'
      BY DEF Inv, TypeOK, InventoryTypeOK
    <2>2. TxAtomic'
      BY DEF Inv, TxAtomic, NothingHeld, Keys
    <2>3. RowLockExclusive'
      BY DEF Inv, RowLockExclusive
    <2>4. HeldCovered'
      BY DEF Inv, HeldCovered, CanReserve, Keys
    <2>5. LineInProgress'
      BY DEF Inv, LineInProgress, Current
    <2> QED
      BY <2>1, <2>2, <2>3, <2>4, <2>5 DEF Inv
  <1> QED
    BY <1>1, <1>2, <1>3, <1>4, <1>5, <1>6 DEF Next

-----------------------------------------------------------------------------
\* The inductive invariant holds in every reachable state of
\* createOrderFromItems and the stock operations.
THEOREM InvAlways == Spec => []Inv
  BY InitInv, NextInv, PTL DEF Spec

\* Every variable of the checkout keeps its type; in particular no quantity of
\* a stock row is ever negative or too large for its column.
THEOREM TypeCorrect == Spec => []TypeOK
  BY InvAlways, PTL DEF Inv

\* Two order transactions never hold uncommitted updates of one stock row.
THEOREM RowLocksExclude == Spec => []RowLockExclusive
  BY InvAlways, PTL DEF Inv

\* No overselling: what an open transaction has reserved is still available in
\* the committed row when the transaction comes to commit.
THEOREM NoOverselling == Spec => []HeldCovered
  BY InvAlways, PTL DEF Inv

\* An order transaction is all or nothing.
THEOREM TransactionsAtomic == Spec => []TxAtomic
  BY InvAlways, PTL DEF Inv

-----------------------------------------------------------------------------
\* A commit, acknowledged or not, is one placement of the abstract ledger.
LEMMA CommitPlaces ==
    ASSUME Inv, NEW c \in Requests, CommitEffect(c)
    PROVE  Ledger!Next
  <1> USE DEF Inv
  <1>1. held[c] \in Ledger!Taking
    BY DEF TypeOK, Ledger!Taking, Ledger!Keys, Ledger!Qty, Keys, Qty
  <1>2. placed[c] = NoOrder
    BY DEF CommitEffect, TxAtomic, Finished
  <1>3. \A k \in Keys : held[c][k] > 0 => CanReserve(stock[k], held[c][k])
    BY DEF HeldCovered
  <1>4. \A k \in Keys :
           Visible(c, k) = IF held[c][k] > 0 THEN Reserved(stock[k], held[c][k]) ELSE stock[k]
    <2> SUFFICES ASSUME NEW k \in Keys
                 PROVE  Visible(c, k) = IF held[c][k] > 0
                                        THEN Reserved(stock[k], held[c][k]) ELSE stock[k]
      OBVIOUS
    <2>1. held[c][k] \in Nat /\ stock[k] \in Row \cup {NoRow}
      BY InventoryAssumption DEF TypeOK, InventoryTypeOK, Qty
    <2>2. CASE held[c][k] > 0
      BY <1>3, <2>2 DEF Visible, Exists, CanReserve
    <2>3. CASE held[c][k] = 0 /\ Exists(k)
      <3>1. stock[k] \in Row
        BY <2>1, <2>3 DEF Exists
      <3>2. Reserved(stock[k], 0) = stock[k]
        BY <3>1 DEF Reserved, Row, Qty
      <3> QED
        BY <2>3, <3>2 DEF Visible
    <2>4. CASE held[c][k] = 0 /\ ~Exists(k)
      BY <2>4 DEF Visible, Exists
    <2> QED
      BY <2>1, <2>2, <2>3, <2>4
  <1>5. Ledger!PlaceOrder(c, held[c])
    BY <1>2, <1>3, <1>4
    DEF CommitEffect, Ledger!PlaceOrder, Ledger!Keys, Ledger!CanReserve, Ledger!Reserved,
        Keys, CanReserve, Reserved
  <1> QED
    BY <1>1, <1>5 DEF Ledger!Next

\* An administrator's statement is the same statement of the abstract ledger.
LEMMA AdministerMaps ==
    ASSUME Inv, Administer
    PROVE  Ledger!Next
  <1>1. UNCHANGED placed
    BY DEF Administer, txVars
  <1>2. CASE CreateLocation
    BY <1>1, <1>2 DEF Ledger!Next, Ledger!Administer, CreateLocation, Ledger!CreateLocation
  <1>3. ASSUME NEW l \in 1..MaxLocations, DeleteLocation(l)
        PROVE  Ledger!Next
    BY <1>1, <1>3
    DEF Ledger!Next, Ledger!Administer, DeleteLocation, Ledger!DeleteLocation,
        Keys, Ledger!Keys
  <1>4. ASSUME NEW k \in Keys, AdminItem(k)
        PROVE  Ledger!Next
    <2>1. ASSUME NEW row \in UpsertRows, UpsertItem(k, row)
          PROVE  Ledger!Administer
      BY <1>1, <2>1, CheckoutAssumption
      DEF Ledger!Administer, UpsertItem, Ledger!UpsertItem, Keys, Ledger!Keys,
          Row, Ledger!Row, Qty, Ledger!Qty
    <2>2. ASSUME NEW d \in Deltas, AdjustAvailable(k, d)
          PROVE  Ledger!Administer
      BY <1>1, <2>2, CheckoutAssumption
      DEF Ledger!Administer, AdjustAvailable, Ledger!AdjustAvailable, Exists, Ledger!Exists,
          Keys, Ledger!Keys, Qty, Ledger!Qty
    <2>3. ASSUME NEW q \in AdminQty, ReserveStock(k, q) \/ ReleaseStock(k, q)
          PROVE  Ledger!Administer
      BY <1>1, <2>3, CheckoutAssumption
      DEF Ledger!Administer, ReserveStock, Ledger!ReserveStock, ReleaseStock,
          Ledger!ReleaseStock, Exists, Ledger!Exists, CanReserve, Ledger!CanReserve,
          Reserved, Ledger!Reserved, Keys, Ledger!Keys, Qty, Ledger!Qty
    <2>4. ASSUME DeleteItem(k)
          PROVE  Ledger!Administer
      BY <1>1, <2>4
      DEF Ledger!Administer, DeleteItem, Ledger!DeleteItem, Exists, Ledger!Exists,
          Keys, Ledger!Keys
    <2> QED
      BY <1>4, <2>1, <2>2, <2>3, <2>4 DEF AdminItem, Ledger!Next
  <1> QED
    BY <1>2, <1>3, <1>4 DEF Administer, AdminLocation

\* Order creation, with its row locks, rollbacks and lost acknowledgements,
\* implements the ledger in which an order takes all of its stock in one step.
THEOREM CheckoutImplementsLedger == Spec => RefinesLedger
  <1>1. Init => Ledger!Init
    <2> SUFFICES ASSUME Init PROVE Ledger!Init
      OBVIOUS
    <2>1. InventoryTypeOK
      BY InitInv DEF Inv, TypeOK
    <2> QED
      BY <2>1 DEF Init, Ledger!Init, InventoryTypeOK, Ledger!InventoryTypeOK,
                  Keys, Ledger!Keys, Row, Ledger!Row, Qty, Ledger!Qty
  <1>2. Inv /\ [Next]_vars => [Ledger!Next]_(Ledger!ledgerVars)
    <2> SUFFICES ASSUME Inv, Next
                 PROVE  Ledger!Next \/ UNCHANGED Ledger!ledgerVars
      BY DEF vars, Ledger!ledgerVars
    <2>1. ASSUME NEW c \in Requests, Commit(c) \/ CommitUnacknowledged(c)
          PROVE  Ledger!Next
      BY <2>1, CommitPlaces DEF Commit, CommitUnacknowledged
    <2>2. CASE Administer
      BY <2>2, AdministerMaps
    <2>3. CASE \E v \in Variants : SetVariantActive(v)
      BY <2>3 DEF SetVariantActive, invVars, txVars, Ledger!ledgerVars
    <2>4. ASSUME NEW c \in Requests,
                 \/ \E b \in Baskets : Submit(c, b)
                 \/ Begin(c) \/ LookUpLine(c) \/ PickLocation(c) \/ ReserveLine(c)
          PROVE  UNCHANGED Ledger!ledgerVars
      BY <2>4 DEF Submit, Begin, LookUpLine, PickLocation, ReserveLine, Ledger!ledgerVars
    <2>5. ASSUME NEW c \in Requests,
                 \/ RejectLine(c) \/ NoStockRow(c) \/ OutOfStock(c)
                 \/ DeadlockVictim(c) \/ Cancel(c)
          PROVE  UNCHANGED Ledger!ledgerVars
      BY <2>5 DEF RejectLine, NoStockRow, OutOfStock, DeadlockVictim, Cancel,
                  Rollback, Ledger!ledgerVars
    <2> QED
      BY <2>1, <2>2, <2>3, <2>4, <2>5 DEF Next, Progress
  <1> QED
    BY <1>1, <1>2, InvAlways, PTL DEF Spec, RefinesLedger, Ledger!Spec

-----------------------------------------------------------------------------
(* Finite sets and sums *)

\* A non-empty set of natural numbers has a least element.
LEMMA SmallestExists ==
    ASSUME NEW S, S \subseteq Nat, S # {}
    PROVE  \E n \in S : \A m \in S : n <= m
  <1> DEFINE R == {ss \in Nat \X Nat : ss[1] < ss[2]}
  <1>1. R = OpToRel(<, Nat)
    BY Zenon DEF OpToRel
  <1>2. IsWellFoundedOn(R, Nat)
    BY <1>1, NatLessThanWellFounded, Zenon
  <1> HIDE DEF R
  <1>3. PICK n \in S : \A m \in S : <<m, n>> \notin R
    BY <1>2, WFMin
  <1>4. ASSUME NEW m \in S PROVE n <= m
    <2>1. m \in Nat /\ n \in Nat
      OBVIOUS
    <2>2. m < n => <<m, n>> \in R
      BY <2>1 DEF R
    <2> QED
      BY <1>3, <2>1, <2>2
  <1> QED
    BY <1>4

\* Of some finite sets one has the fewest elements.
LEMMA FewestExists ==
    ASSUME NEW S, IsFiniteSet(S), NEW Sets \in SUBSET (SUBSET S), Sets # {}
    PROVE  \E s \in Sets : \A t \in Sets : Cardinality(s) <= Cardinality(t)
  <1> DEFINE Cards == {Cardinality(s) : s \in Sets}
  <1>1. \A s \in Sets : Cardinality(s) \in Nat
    BY FS_Subset, FS_CardinalityType
  <1>2. Cards \subseteq Nat /\ Cards # {}
    BY <1>1
  <1>3. \E n \in Cards : \A m \in Cards : n <= m
    <2> HIDE DEF Cards
    <2> QED
      BY <1>2, SmallestExists
  <1> QED
    BY <1>3

\* The element that the folds of the library take out of a set first.
Pick(s) == CHOOSE x \in s : TRUE

\* The element that the library's fold takes next is one of the set.
LEMMA PickIn ==
    ASSUME NEW s, s # {}
    PROVE  Pick(s) \in s
  BY DEF Pick

\* Without it the set has one element less.
LEMMA PickFewer ==
    ASSUME NEW s, IsFiniteSet(s), s # {}
    PROVE  /\ IsFiniteSet(s \ {Pick(s)})
           /\ Cardinality(s \ {Pick(s)}) = Cardinality(s) - 1
           /\ Cardinality(s) \in Nat \ {0}
           /\ Cardinality(s \ {Pick(s)}) \in Nat
  <1>1. Pick(s) \in s
    BY PickIn
  <1>2. IsFiniteSet(s \ {Pick(s)}) /\ Cardinality(s \ {Pick(s)}) = Cardinality(s) - 1
    BY <1>1, FS_RemoveElement
  <1> QED
    BY <1>2, FS_CardinalityType, FS_EmptySet

\* Induction over the subsets of a finite set.
LEMMA SubsetInduction ==
    ASSUME NEW S, IsFiniteSet(S), NEW Good, {} \in Good,
           \A s \in SUBSET S : s # {} /\ s \ {Pick(s)} \in Good => s \in Good
    PROVE  SUBSET S \subseteq Good
  <1> SUFFICES ASSUME (SUBSET S) \ Good # {} PROVE FALSE
    OBVIOUS
  <1>1. PICK s \in (SUBSET S) \ Good :
            \A t \in (SUBSET S) \ Good : Cardinality(s) <= Cardinality(t)
    BY FewestExists
  <1>2. s # {} /\ IsFiniteSet(s)
    BY FS_Subset
  <1>3. s \ {Pick(s)} \in (SUBSET S) \ Good
    BY <1>2
  <1>4. Cardinality(s) <= Cardinality(s \ {Pick(s)})
    BY <1>1, <1>3
  <1>5. Cardinality(s \ {Pick(s)}) = Cardinality(s) - 1 /\ Cardinality(s) \in Nat
    BY <1>2, PickFewer
  <1> QED
    BY <1>4, <1>5

\* The sums over the subsets of S that Sum is defined from.
IsSubSum(h, f, S) ==
    h = [s \in SUBSET S |-> IF s = {} THEN 0 ELSE f[Pick(s)] + h[s \ {Pick(s)}]]

SubSum(f, S) == CHOOSE h : IsSubSum(h, f, S)

\* The library's fold over a function is the recursion on subsets of its domain.
LEMMA SumIs ==
    ASSUME NEW f
    PROVE  Sum(f) = SubSum(f, DOMAIN f)[DOMAIN f]
  BY DEF Sum, FoldFunction, FoldFunctionOnSet, MapThenFoldSet, SubSum, IsSubSum, Pick

\* There is such a function: the recursion ends, as the set is finite.
LEMMA SubSumExists ==
    ASSUME NEW S, IsFiniteSet(S), NEW f
    PROVE  \E h : IsSubSum(h, f, S)
  <1> DEFINE Small(n) == {s \in SUBSET S : Cardinality(s) <= n}
             Step(g, s) == IF s = {} THEN 0 ELSE f[Pick(s)] + g[s \ {Pick(s)}]
             Good(g, n) == g = [s \in Small(n) |-> Step(g, s)]
             Bad == {n \in Nat : ~\E g : Good(g, n)}
  <1>0. \A s \in SUBSET S : IsFiniteSet(s) /\ Cardinality(s) \in Nat
                            /\ Cardinality(s) <= Cardinality(S)
    BY FS_Subset, FS_CardinalityType
  <1>1. ASSUME NEW n \in Nat, NEW g, n > 0 => Good(g, n - 1)
        PROVE  Good([s \in Small(n) |-> Step(g, s)], n)
    <2> DEFINE h == [s \in Small(n) |-> Step(g, s)]
    <2> SUFFICES ASSUME NEW s \in Small(n) PROVE Step(g, s) = Step(h, s)
      BY Zenon
    <2> SUFFICES ASSUME s # {} PROVE g[s \ {Pick(s)}] = h[s \ {Pick(s)}]
      OBVIOUS
    <2> DEFINE t == s \ {Pick(s)}
    <2>1. t \in Small(n) /\ n > 0 /\ t \in Small(n - 1)
      BY <1>0, PickFewer
    <2>2. g[t] = Step(g, t)
      BY <1>1, <2>1, Zenon
    <2>3. h[t] = Step(g, t)
      BY <2>1, Zenon
    <2> QED
      BY <2>2, <2>3, Zenon
  <1>2. Bad = {}
    <2> SUFFICES ASSUME Bad # {} PROVE FALSE
      OBVIOUS
    <2>1. PICK n \in Bad : \A m \in Bad : n <= m
      <3>1. Bad \subseteq Nat
        OBVIOUS
      <3> HIDE DEF Bad
      <3> QED
        BY <3>1, SmallestExists
    <2>2. \E g : n > 0 => Good(g, n - 1)
      <3>1. CASE n = 0
        BY <3>1
      <3>2. CASE n > 0
        <4>0. n \in Nat
          BY <2>1
        <4>1. n - 1 \in Nat /\ ~(n <= n - 1)
          BY <3>2, <4>0
        <4>2. n - 1 \notin Bad
          BY <2>1, <4>1, Zenon
        <4> QED
          BY <4>1, <4>2, Zenon
      <3> QED
        BY <3>1, <3>2
    <2>3. PICK g : n > 0 => Good(g, n - 1)
      BY <2>2, Zenon
    <2>4. Good([s \in Small(n) |-> Step(g, s)], n)
      BY <1>1, <2>3, Zenon
    <2> QED
      BY <2>4, Zenon
  <1>3. Cardinality(S) \in Nat /\ Cardinality(S) \notin Bad
    BY <1>2, FS_CardinalityType
  <1>4. PICK g : Good(g, Cardinality(S))
    BY <1>3, Zenon
  <1>5. Small(Cardinality(S)) = SUBSET S
    BY <1>0
  <1> QED
    BY <1>4, <1>5, Zenon DEF IsSubSum

\* The recursion's equations.
LEMMA SubSumDef ==
    ASSUME NEW S, IsFiniteSet(S), NEW f
    PROVE  /\ SubSum(f, S)[{}] = 0
           /\ \A s \in SUBSET S : s # {} =>
                 SubSum(f, S)[s] = f[Pick(s)] + SubSum(f, S)[s \ {Pick(s)}]
  <1> DEFINE h == SubSum(f, S)
  <1>1. IsSubSum(h, f, S)
    BY SubSumExists DEF SubSum
  <1> HIDE DEF h
  <1>2. \A s \in SUBSET S : h[s] = IF s = {} THEN 0 ELSE f[Pick(s)] + h[s \ {Pick(s)}]
    BY <1>1 DEF IsSubSum
  <1>3. {} \in SUBSET S
    OBVIOUS
  <1> QED
    BY <1>2, <1>3 DEF h

\* A sum of integers is one.
LEMMA SubSumInt ==
    ASSUME NEW S, IsFiniteSet(S), NEW f \in [S -> Int]
    PROVE  \A s \in SUBSET S : SubSum(f, S)[s] \in Int
  <1> DEFINE Good == {s \in SUBSET S : SubSum(f, S)[s] \in Int}
  <1>1. {} \in Good
    BY SubSumDef
  <1>2. ASSUME NEW s \in SUBSET S, s # {}, s \ {Pick(s)} \in Good PROVE s \in Good
    BY <1>2, SubSumDef, PickIn
  <1>3. SUBSET S \subseteq Good
    <2> HIDE DEF Good
    <2> QED
      BY <1>1, <1>2, SubsetInduction
  <1> QED
    BY <1>3

\* A sum of zeros is zero.
LEMMA SumZero ==
    ASSUME NEW S, IsFiniteSet(S), NEW f \in [S -> Int], \A x \in S : f[x] = 0
    PROVE  Sum(f) = 0
  <1> DEFINE Good == {s \in SUBSET S : SubSum(f, S)[s] = 0}
  <1>1. {} \in Good
    BY SubSumDef
  <1>2. ASSUME NEW s \in SUBSET S, s # {}, s \ {Pick(s)} \in Good PROVE s \in Good
    <2>1. SubSum(f, S)[s] = f[Pick(s)] + SubSum(f, S)[s \ {Pick(s)}]
      BY <1>2, SubSumDef
    <2> QED
      BY <1>2, <2>1, PickIn
  <1>3. S \in Good
    <2> HIDE DEF Good
    <2>1. SUBSET S \subseteq Good
      BY <1>1, <1>2, SubsetInduction
    <2> QED
      BY <2>1
  <1> QED
    BY <1>3, SumIs

\* Where one term changes by d, so does the sum.
LEMMA SumChange ==
    ASSUME NEW S, IsFiniteSet(S), NEW f \in [S -> Int], NEW g \in [S -> Int],
           NEW x \in S, NEW d \in Int, g[x] = f[x] + d,
           \A y \in S \ {x} : g[y] = f[y]
    PROVE  Sum(g) = Sum(f) + d /\ Sum(f) \in Int
  <1> DEFINE F == SubSum(f, S)
             G == SubSum(g, S)
             Good == {s \in SUBSET S : G[s] = F[s] + (IF x \in s THEN d ELSE 0)}
  <1>0. \A s \in SUBSET S : F[s] \in Int /\ G[s] \in Int
    BY SubSumInt
  <1>1. {} \in Good
    BY SubSumDef
  <1>2. ASSUME NEW s \in SUBSET S, s # {}, s \ {Pick(s)} \in Good PROVE s \in Good
    <2> DEFINE p == Pick(s)
               t == s \ {p}
    <2>1. F[s] = f[p] + F[t] /\ G[s] = g[p] + G[t]
      <3>1. \A u \in SUBSET S : u # {} => F[u] = f[Pick(u)] + F[u \ {Pick(u)}]
        BY SubSumDef
      <3>2. \A u \in SUBSET S : u # {} => G[u] = g[Pick(u)] + G[u \ {Pick(u)}]
        BY SubSumDef
      <3> HIDE DEF F, G
      <3> QED
        BY <1>2, <3>1, <3>2
    <2>2. G[t] = F[t] + (IF x \in t THEN d ELSE 0)
      BY <1>2
    <2>3. p \in s /\ p \in S /\ f[p] \in Int /\ g[p] \in Int /\ F[t] \in Int
      BY <1>0, <1>2, PickIn
    <2> HIDE DEF p, F, G
    <2>4. CASE p = x
      <3>1. x \notin t /\ x \in s
        BY <2>3, <2>4
      <3> QED
        BY <2>1, <2>2, <2>3, <2>4, <3>1
    <2>5. CASE p # x
      <3>1. (x \in t <=> x \in s) /\ g[p] = f[p]
        BY <2>3, <2>5
      <3> QED
        BY <2>1, <2>2, <2>3, <3>1
    <2> QED
      BY <2>4, <2>5
  <1>3. S \in Good
    <2> HIDE DEF Good
    <2>1. SUBSET S \subseteq Good
      BY <1>1, <1>2, SubsetInduction
    <2> QED
      BY <2>1
  <1>4. DOMAIN f = S /\ DOMAIN g = S
    OBVIOUS
  <1>5. Sum(f) = F[S] /\ Sum(g) = G[S]
    BY <1>4, SumIs
  <1> QED
    BY <1>0, <1>3, <1>5

-----------------------------------------------------------------------------
(* What orders take *)

\* Outside its transactions a request has nothing, so no units are taken.
LEMMA NothingTaken ==
    ASSUME NEW v \in Variants
    PROVE  Taken(NothingHeld, v) = 0
  <1> DEFINE f == [l \in 1..MaxLocations |-> NothingHeld[<<v, l>>]]
  <1>1. IsFiniteSet(1..MaxLocations)
    BY FS_Interval, InventoryAssumption
  <1>2. \A l \in 1..MaxLocations : f[l] = 0
    BY DEF NothingHeld, Keys
  <1>3. f \in [1..MaxLocations -> Int]
    BY <1>2
  <1> HIDE DEF f
  <1>4. Sum(f) = 0
    BY <1>1, <1>2, <1>3, SumZero
  <1> QED
    BY <1>4 DEF f, Taken

\* Before the first line nothing is asked for.
LEMMA NothingAsked ==
    ASSUME TypeOK, NEW c \in Requests, NEW v \in Variants
    PROVE  AskedBefore(c, 1, v) = 0
  <1> DEFINE f == [i \in DOMAIN basket[c] |->
                     IF i < 1 /\ basket[c][i].variant = v THEN basket[c][i].quantity ELSE 0]
             S == 1..Len(basket[c])
  <1>0. basket[c] \in Seq(Line) /\ DOMAIN basket[c] = S /\ Len(basket[c]) \in Nat
    BY DEF TypeOK
  <1>1. IsFiniteSet(S)
    BY <1>0, FS_Interval
  <1>2. \A i \in S : f[i] = 0
    BY <1>0
  <1>3. f \in [S -> Int]
    BY <1>0, <1>2
  <1> HIDE DEF f, S
  <1>4. Sum(f) = 0
    BY <1>1, <1>2, <1>3, SumZero
  <1> QED
    BY <1>4 DEF f, AskedBefore

\* A line that is reserved adds its quantity to what is taken of its variant
\* and to what the lines before the next one ask for, and to nothing else.
LEMMA LineTaken ==
    ASSUME Inv, NEW c \in Requests, ReserveLine(c), NEW v \in Variants,
           Taken(held[c], v) = AskedBefore(c, line[c], v)
    PROVE  (Taken(held[c], v) = AskedBefore(c, line[c], v))'
  <1> DEFINE qty == Current(c).quantity
             w == Current(c).variant
             S == 1..Len(basket[c])
             L == 1..MaxLocations
             i0 == line[c]
             f == [l \in L |-> held[c][<<v, l>>]]
             f1 == [l \in L |-> held'[c][<<v, l>>]]
             g == [i \in S |-> IF i < i0 /\ basket[c][i].variant = v
                               THEN basket[c][i].quantity ELSE 0]
             g1 == [i \in S |-> IF i < i0 + 1 /\ basket[c][i].variant = v
                                THEN basket[c][i].quantity ELSE 0]
  <1>1. /\ pc[c] = "reserve"
        /\ held' = [held EXCEPT ![c][<<w, loc[c]>>] = @ + qty]
        /\ line' = [line EXCEPT ![c] = @ + 1]
        /\ basket' = basket
    BY DEF ReserveLine, Key
  <1>2. /\ basket[c] \in Seq(Line) /\ DOMAIN basket[c] = S /\ i0 \in S /\ loc[c] \in L
        /\ held \in [Requests -> [Keys -> Qty]] /\ line \in [Requests -> Nat \ {0}]
    BY <1>1 DEF Inv, TypeOK, LineInProgress
  <1>3. /\ Current(c) = basket[c][i0]
        /\ qty = basket[c][i0].quantity /\ w = basket[c][i0].variant
        /\ qty \in Int /\ w \in Variants
    <2>1. \A i \in S : basket[c][i] \in Line
      BY <1>2
    <2>2. Current(c) = basket[c][i0] /\ Current(c) \in Line
      BY <1>2, <2>1 DEF Current
    <2> QED
      BY <2>2 DEF Line
  <1>4. IsFiniteSet(S) /\ IsFiniteSet(L)
    <2>1. Len(basket[c]) \in Int /\ MaxLocations \in Int
      BY <1>2, InventoryAssumption
    <2>2. IsFiniteSet(S)
      BY <2>1, FS_Interval
    <2>3. IsFiniteSet(L)
      BY <2>1, FS_Interval
    <2> QED
      BY <2>2, <2>3
  <1>5. \A l \in L : <<v, l>> \in Keys /\ held[c][<<v, l>>] \in Int
    <2>1. \A l \in L : <<v, l>> \in Keys
      BY DEF Keys
    <2>2. held[c] \in [Keys -> Qty]
      BY <1>2
    <2>3. Qty \subseteq Int
      BY InventoryAssumption DEF Qty
    <2> HIDE DEF L
    <2> QED
      BY <2>1, <2>2, <2>3
  <1>6. \A k \in Keys :
           held'[c][k] = IF k = <<w, loc[c]>> THEN held[c][k] + qty ELSE held[c][k]
    <2> HIDE DEF qty, w
    <2> QED
      BY <1>1, <1>2, <1>3
  <1>7. \A i \in S : basket[c][i].quantity \in Int
    <2>1. \A i \in S : basket[c][i] \in Line
      BY <1>2
    <2> QED
      BY <2>1 DEF Line
  <1>8. f \in [L -> Int] /\ g \in [S -> Int] /\ g1 \in [S -> Int]
    BY <1>5, <1>7
  <1>9. Taken(held[c], v) = Sum(f) /\ Taken(held[c], v)' = Sum(f1)
    BY DEF Taken
  <1>10. line'[c] = i0 + 1
    BY <1>1, <1>2
  <1>11. AskedBefore(c, line[c], v) = Sum(g) /\ AskedBefore(c, line[c], v)' = Sum(g1)
    BY <1>1, <1>2, <1>10 DEF AskedBefore
  <1>12. CASE v = w
    <2>1. f1 \in [L -> Int] /\ f1[loc[c]] = f[loc[c]] + qty
          /\ \A l \in L \ {loc[c]} : f1[l] = f[l]
      <3> HIDE DEF qty, w
      <3> QED
        BY <1>2, <1>3, <1>5, <1>6, <1>12
    <2>2. g1[i0] = g[i0] + qty /\ \A i \in S \ {i0} : g1[i] = g[i]
      <3> HIDE DEF qty, w
      <3> QED
        BY <1>2, <1>3, <1>12
    <2>0. qty \in Int /\ loc[c] \in L /\ i0 \in S
      BY <1>2, <1>3
    <2> HIDE DEF f, f1, g, g1, S, L, qty, i0
    <2>3. Sum(f1) = Sum(f) + qty
      BY <1>4, <1>8, <2>0, <2>1, SumChange
    <2>4. Sum(g1) = Sum(g) + qty
      BY <1>4, <1>8, <2>0, <2>2, SumChange
    <2> QED
      BY <1>9, <1>11, <2>3, <2>4
  <1>13. CASE v # w
    <2>1. f1 = f
      <3> HIDE DEF qty, w
      <3> QED
        BY <1>5, <1>6, <1>13
    <2>2. g1 = g
      <3> HIDE DEF qty, w
      <3> QED
        BY <1>2, <1>3, <1>13
    <2> QED
      BY <1>9, <1>11, <2>1, <2>2, Zenon
  <1> QED
    BY <1>12, <1>13

\* What a step does not touch of a request stays as it was.
LEMMA MatchesKept ==
    ASSUME NEW d \in Requests, Matches(d),
           pc'[d] = pc[d] \/ pc'[d] \notin InTx \/ (pc[d] \in InTx /\ pc'[d] \in InTx \ {"commit"}),
           UNCHANGED <<basket[d], line[d], placed[d]>>,
           pc'[d] \in InTx => held'[d] = held[d]
    PROVE  Matches(d)'
  <1>1. \A n, v : AskedBefore(d, n, v)' = AskedBefore(d, n, v)
    BY DEF AskedBefore
  <1>2. ASSUME pc'[d] \in InTx, NEW v \in Variants
        PROVE  Taken(held[d], v)' = AskedBefore(d, line[d], v)'
    <2>1. Taken(held[d], v)' = Taken(held[d], v)
      BY <1>2 DEF Taken
    <2>2. Taken(held[d], v) = AskedBefore(d, line[d], v)
      BY <1>2 DEF Matches
    <2>3. AskedBefore(d, line[d], v)' = AskedBefore(d, line[d], v)
      BY DEF AskedBefore
    <2> QED
      BY <2>1, <2>2, <2>3
  <1>3. ASSUME pc'[d] = "commit" PROVE line'[d] = Len(basket'[d]) + 1
    BY <1>3 DEF Matches, InTx
  <1>4. ASSUME placed'[d] # NoOrder, NEW v \in Variants
        PROVE  Taken(placed[d], v)' = AskedBefore(d, Len(basket[d]) + 1, v)'
    <2>1. Taken(placed[d], v)' = Taken(placed[d], v)
      BY DEF Taken
    <2>2. AskedBefore(d, Len(basket[d]) + 1, v)' = AskedBefore(d, Len(basket[d]) + 1, v)
      BY DEF AskedBefore
    <2> QED
      BY <1>4, <2>1, <2>2 DEF Matches
  <1> QED
    BY <1>2, <1>3, <1>4 DEF Matches

\* A step changes what one request has done so far, or none.
LEMMA MatchesStep ==
    ASSUME Inv, [Next]_vars, NEW d \in Requests, Matches(d)
    PROVE  Matches(d)'
  <1>0. /\ pc \in [Requests -> {"idle", "begin"} \cup InTx \cup Finished]
        /\ basket \in [Requests -> Seq(Line)]
        /\ line \in [Requests -> Nat \ {0}]
        /\ held \in [Requests -> [Keys -> Qty]]
        /\ placed \in [Requests -> [Keys -> Qty] \cup {NoOrder}]
    BY DEF Inv, TypeOK
  <1>1. ASSUME NEW c \in Requests, NEW b \in Baskets, Submit(c, b) PROVE Matches(d)'
    <2>1. CASE d # c
      BY <1>0, <1>1, <2>1, MatchesKept DEF Submit
    <2>2. CASE d = c
      <3>1. placed[d] = NoOrder
        BY <1>1, <2>2 DEF Submit, Inv, TxAtomic, Finished
      <3> QED
        BY <1>0, <1>1, <2>2, <3>1 DEF Submit, Matches, InTx
    <2> QED
      BY <2>1, <2>2
  <1>2. ASSUME NEW c \in Requests, Begin(c) PROVE Matches(d)'
    <2>1. CASE d # c
      BY <1>0, <1>2, <2>1, MatchesKept DEF Begin
    <2>2. CASE d = c
      <3>1. /\ placed[d] = NoOrder /\ line[d] = 1 /\ held[d] = NothingHeld
            /\ pc'[d] = AfterLine(d, 1)
            /\ UNCHANGED <<basket, line, held, placed>>
        BY <1>0, <1>2, <2>2 DEF Begin, Inv, TxAtomic, LineInProgress, Finished, InTx
      <3>2. ASSUME NEW v \in Variants
            PROVE  Taken(held[d], v)' = AskedBefore(d, line[d], v)'
        <4>1. Taken(held[d], v) = 0
          BY <3>1, NothingTaken
        <4>2. AskedBefore(d, 1, v) = 0
          BY NothingAsked DEF Inv
        <4>3. Taken(held[d], v)' = Taken(held[d], v)
          BY <3>1 DEF Taken
        <4>4. AskedBefore(d, line[d], v)' = AskedBefore(d, 1, v)
          BY <3>1 DEF AskedBefore
        <4> QED
          BY <4>1, <4>2, <4>3, <4>4
      <3>3. pc'[d] = "commit" => line'[d] = Len(basket'[d]) + 1
        <4>1. Len(basket[d]) \in Nat
          BY <1>0
        <4>2. pc'[d] = "commit" => ~(1 <= Len(basket[d]))
          BY <3>1 DEF AfterLine
        <4> QED
          BY <3>1, <4>1, <4>2
      <3> QED
        BY <3>1, <3>2, <3>3 DEF Matches
    <2> QED
      BY <2>1, <2>2
  <1>3. ASSUME NEW c \in Requests, LookUpLine(c) \/ PickLocation(c) PROVE Matches(d)'
    BY <1>0, <1>3, MatchesKept DEF LookUpLine, PickLocation, InTx
  <1>4. ASSUME NEW c \in Requests, ReserveLine(c) PROVE Matches(d)'
    <2>1. CASE d # c
      BY <1>0, <1>4, <2>1, MatchesKept DEF ReserveLine
    <2>2. CASE d = c
      <3>1. /\ pc[d] = "reserve" /\ placed[d] = NoOrder /\ placed' = placed /\ basket' = basket
            /\ line'[d] = line[d] + 1 /\ pc'[d] = AfterLine(d, line[d] + 1)
            /\ line[d] \in 1..Len(basket[d])
        BY <1>0, <1>4, <2>2 DEF ReserveLine, Inv, TxAtomic, LineInProgress, Finished
      <3>2. \A v \in Variants : Taken(held[d], v) = AskedBefore(d, line[d], v)
        BY <3>1 DEF Matches, InTx
      <3>3. \A v \in Variants : (Taken(held[d], v) = AskedBefore(d, line[d], v))'
        BY <1>4, <2>2, <3>2, LineTaken
      <3>4. pc'[d] = "commit" => line'[d] = Len(basket'[d]) + 1
        <4>1. Len(basket[d]) \in Nat
          BY <1>0
        <4>2. pc'[d] = "commit" => ~(line[d] + 1 <= Len(basket[d]))
          BY <3>1 DEF AfterLine
        <4> QED
          BY <3>1, <4>1, <4>2
      <3> QED
        BY <3>1, <3>3, <3>4 DEF Matches
    <2> QED
      BY <2>1, <2>2
  <1>5. ASSUME NEW c \in Requests, Rollback(c) PROVE Matches(d)'
    BY <1>0, <1>5, MatchesKept DEF Rollback, InTx
  <1>6. ASSUME NEW c \in Requests, Commit(c) \/ CommitUnacknowledged(c) PROVE Matches(d)'
    <2>0. /\ CommitEffect(c)
          /\ \E p \in Finished : pc' = [pc EXCEPT ![c] = p]
      BY <1>6 DEF Commit, CommitUnacknowledged, Finished
    <2>1. CASE d # c
      BY <1>0, <2>0, <2>1, MatchesKept DEF CommitEffect
    <2>2. CASE d = c
      <3>1. /\ pc[d] = "commit" /\ placed'[d] = held[d] /\ UNCHANGED <<basket, line>>
            /\ pc'[d] \in Finished
        BY <1>0, <2>0, <2>2 DEF CommitEffect
      <3>2. line[d] = Len(basket[d]) + 1
        BY <3>1 DEF Matches
      <3>3. ASSUME NEW v \in Variants
            PROVE  Taken(placed[d], v)' = AskedBefore(d, Len(basket[d]) + 1, v)'
        <4>1. Taken(held[d], v) = AskedBefore(d, line[d], v)
          BY <3>1 DEF Matches, InTx
        <4>2. Taken(placed[d], v)' = Taken(held[d], v)
          BY <3>1 DEF Taken
        <4>3. AskedBefore(d, Len(basket[d]) + 1, v)' = AskedBefore(d, Len(basket[d]) + 1, v)
          BY <3>1 DEF AskedBefore
        <4> QED
          BY <3>2, <4>1, <4>2, <4>3
      <3> QED
        BY <3>1, <3>3 DEF Matches, InTx, Finished
    <2> QED
      BY <2>1, <2>2
  <1>7. CASE Administer \/ \E v \in Variants : SetVariantActive(v)
    BY <1>7, MatchesKept DEF Administer, SetVariantActive, txVars
  <1>8. CASE UNCHANGED vars
    BY <1>8, MatchesKept DEF vars
  <1> QED
    BY <1>1, <1>2, <1>3, <1>4, <1>5, <1>6, <1>7, <1>8
    DEF Next, Progress, RejectLine, NoStockRow, OutOfStock, DeadlockVictim, Cancel

\* An order takes exactly the units its lines ask for, however the request was
\* interleaved with others and whether or not its success was acknowledged
\* (createOrderFromItems, reserveTx).
THEOREM OrdersTakeTheirLines == Spec => []TakenMatchesBasket
  <1>1. Init => TakenInv
    <2> SUFFICES ASSUME Init, NEW c \in Requests PROVE Matches(c)
      BY DEF TakenInv
    <2> QED
      BY DEF Init, Matches, InTx
  <1>2. Inv /\ TakenInv /\ [Next]_vars => TakenInv'
    BY MatchesStep DEF TakenInv
  <1>3. TakenInv => TakenMatchesBasket
    BY DEF TakenInv, Matches, TakenMatchesBasket
  <1> QED
    BY <1>1, <1>2, <1>3, InvAlways, PTL DEF Spec

\* When administrators do not write reserved_qty, a committed row's changes only
\* where an order is placed.
LEMMA ReservedStep ==
    ASSUME Inv, [Next]_vars, HandsOff, IsFiniteSet(Requests), ReservedEqualsOrders
    PROVE  ReservedEqualsOrders'
  <1>0. /\ stock \in [Keys -> Row \cup {NoRow}]
        /\ held \in [Requests -> [Keys -> Qty]]
        /\ placed \in [Requests -> [Keys -> Qty] \cup {NoOrder}]
        /\ NoOrder \notin [Keys -> Qty]
    BY CheckoutAssumption DEF Inv, TypeOK, InventoryTypeOK
  <1>1. ASSUME UNCHANGED placed,
               \A k \in Keys : stock'[k] # NoRow =>
                  stock[k] # NoRow /\ stock'[k].reserved = stock[k].reserved
        PROVE  ReservedEqualsOrders'
    <2> SUFFICES ASSUME NEW k \in Keys, Exists(k)'
                 PROVE  stock'[k].reserved = Sum(OrderedOf(k))'
      BY DEF ReservedEqualsOrders
    <2>1. stock'[k] # NoRow
      BY DEF Exists
    <2>2. stock[k].reserved = Sum(OrderedOf(k))
      BY <1>1, <2>1 DEF ReservedEqualsOrders, Exists
    <2>3. Sum(OrderedOf(k))' = Sum(OrderedOf(k))
      BY <1>1 DEF OrderedOf
    <2> QED
      BY <1>1, <2>1, <2>2, <2>3
  <1>2. ASSUME NEW c \in Requests, CommitEffect(c) PROVE ReservedEqualsOrders'
    <2> SUFFICES ASSUME NEW k \in Keys, Exists(k)'
                 PROVE  stock'[k].reserved = Sum(OrderedOf(k))'
      BY DEF ReservedEqualsOrders
    <2> DEFINE f == OrderedOf(k)
               g == OrderedOf(k)'
    <2>1. /\ placed[c] = NoOrder
          /\ placed' = [placed EXCEPT ![c] = held[c]]
          /\ stock'[k] = Visible(c, k)
      BY <1>2 DEF CommitEffect, Inv, TxAtomic, Finished
    <2>2. Exists(k) /\ stock'[k].reserved = stock[k].reserved + held[c][k]
      BY <2>1 DEF Exists, Visible, Reserved
    <2>3. f \in [Requests -> Int] /\ g \in [Requests -> Int]
      <3>0. \A t \in [Keys -> Qty] : t[k] \in Int
        BY InventoryAssumption DEF Qty
      <3>1. \A d \in Requests : placed[d] # NoOrder => placed[d][k] \in Int
        BY <1>0, <3>0
      <3>2. \A d \in Requests : placed'[d] # NoOrder => placed'[d][k] \in Int
        BY <1>0, <2>1, <3>0
      <3> QED
        BY <3>1, <3>2 DEF OrderedOf
    <2>4. /\ f[c] = 0 /\ g[c] = held[c][k] /\ held[c][k] \in Int
          /\ \A d \in Requests \ {c} : g[d] = f[d]
      <3>1. held[c] \in [Keys -> Qty] /\ held[c] # NoOrder
        BY <1>0
      <3>2. held[c][k] \in Int
        BY <3>1, InventoryAssumption DEF Qty
      <3> QED
        BY <1>0, <2>1, <3>1, <3>2 DEF OrderedOf
    <2> HIDE DEF f, g
    <2>5. g[c] = f[c] + held[c][k]
      BY <2>4
    <2>6. Sum(g) = Sum(f) + held[c][k]
      BY <2>3, <2>4, <2>5, SumChange
    <2>7. stock[k].reserved = Sum(f)
      BY <2>2 DEF ReservedEqualsOrders, f
    <2>8. Sum(OrderedOf(k))' = Sum(g)
      BY DEF g
    <2> QED
      BY <2>2, <2>6, <2>7, <2>8
  <1>3. CASE Administer
    <2>0. UNCHANGED placed
      BY <1>3 DEF Administer, txVars
    <2>1. CASE CreateLocation
      BY <1>1, <2>0, <2>1 DEF CreateLocation
    <2>2. ASSUME NEW l \in 1..MaxLocations, DeleteLocation(l) PROVE ReservedEqualsOrders'
      BY <1>1, <2>0, <2>2 DEF DeleteLocation
    <2>3. ASSUME NEW i \in Keys, DeleteItem(i) PROVE ReservedEqualsOrders'
      BY <1>0, <1>1, <2>0, <2>3 DEF DeleteItem
    <2>4. ASSUME NEW i \in Keys, NEW d \in Deltas, AdjustAvailable(i, d)
          PROVE  ReservedEqualsOrders'
      <3>1. /\ stock[i] \in Row /\ stock[i] # NoRow
            /\ stock' = [stock EXCEPT ![i] = [stock[i] EXCEPT !.available = @ + d]]
        BY <1>0, <2>4 DEF AdjustAvailable, Exists
      <3>2. [stock[i] EXCEPT !.available = @ + d].reserved = stock[i].reserved
        BY <3>1 DEF Row
      <3>3. \A k \in Keys : stock'[k] # NoRow =>
               stock[k] # NoRow /\ stock'[k].reserved = stock[k].reserved
        BY <1>0, <3>1, <3>2
      <3> QED
        BY <1>1, <2>0, <3>3
    <2> QED
      BY <1>3, <2>1, <2>2, <2>3, <2>4 DEF Administer, AdminLocation, AdminItem, HandsOff
  <1>4. ASSUME UNCHANGED <<stock, placed>> PROVE ReservedEqualsOrders'
    BY <1>1, <1>4
  <1> QED
    <2>1. ASSUME NEW c \in Requests, Rollback(c) PROVE ReservedEqualsOrders'
      BY <1>4, <2>1 DEF Rollback
    <2>2. ASSUME NEW c \in Requests,
                 \/ \E b \in Baskets : Submit(c, b)
                 \/ Begin(c) \/ LookUpLine(c) \/ PickLocation(c) \/ ReserveLine(c)
          PROVE  ReservedEqualsOrders'
      BY <1>4, <2>2 DEF Submit, Begin, LookUpLine, PickLocation, ReserveLine
    <2>3. CASE (\E v \in Variants : SetVariantActive(v)) \/ UNCHANGED vars
      BY <1>4, <2>3 DEF SetVariantActive, invVars, txVars, vars
    <2> QED
      BY <1>2, <1>3, <2>1, <2>2, <2>3
      DEF Next, Progress, RejectLine, NoStockRow, OutOfStock, DeadlockVictim, Cancel,
          Commit, CommitUnacknowledged

\* What is reserved of a row is what committed orders have taken of it: no
\* reservation is lost, made twice, or left behind by a rollback
\* (reserveTx, tx.Rollback, tx.Commit).
THEOREM ReservedIsOrdered ==
    ASSUME HandsOff, IsFiniteSet(Requests)
    PROVE  Spec => []ReservedEqualsOrders
  <1>1. Init => ReservedEqualsOrders
    <2> SUFFICES ASSUME Init, NEW k \in Keys, Exists(k)
                 PROVE  stock[k].reserved = Sum(OrderedOf(k))
      BY DEF ReservedEqualsOrders
    <2>1. stock[k].reserved = 0
      BY DEF HandsOff, Init, Exists
    <2>2. OrderedOf(k) \in [Requests -> Int] /\ \A c \in Requests : OrderedOf(k)[c] = 0
      BY DEF OrderedOf, Init
    <2>3. Sum(OrderedOf(k)) = 0
      BY <2>2, SumZero
    <2> QED
      BY <2>1, <2>3
  <1>2. Inv /\ ReservedEqualsOrders /\ [Next]_vars => ReservedEqualsOrders'
    BY ReservedStep
  <1> QED
    BY <1>1, <1>2, InvAlways, PTL DEF Spec

-----------------------------------------------------------------------------
(* Row locks and the pool *)

Open == {c \in Requests : pc[c] \in InTx}

\* A connection is taken by Begin alone, when one is free (pgxpool).
LEMMA PoolStep ==
    ASSUME Inv, PoolBounded, [Next]_vars
    PROVE  PoolBounded'
  <1> DEFINE Fewer == Open' \subseteq Open
  <1>0. /\ pc \in [Requests -> {"idle", "begin"} \cup InTx \cup Finished]
        /\ IsFiniteSet(Open) /\ Cardinality(Open) <= PoolSize /\ Cardinality(Open) \in Nat
        /\ PoolSize \in Nat
    BY FS_CardinalityType, CheckoutAssumption DEF Inv, TypeOK, PoolBounded, Open
  <1>1. ASSUME Fewer PROVE PoolBounded'
    <2>1. IsFiniteSet(Open') /\ Cardinality(Open') <= Cardinality(Open)
          /\ Cardinality(Open') \in Nat
      BY <1>0, <1>1, FS_Subset, FS_CardinalityType
    <2> QED
      BY <1>0, <2>1 DEF PoolBounded, Open
  <1>2. ASSUME NEW c \in Requests, Begin(c) PROVE PoolBounded'
    <2>1. Cardinality(Open) < PoolSize
      BY <1>2 DEF Begin, PoolFree, Open
    <2>2. Open' \subseteq Open \cup {c}
      BY <1>0, <1>2 DEF Begin, Open
    <2>3. IsFiniteSet(Open \cup {c}) /\ Cardinality(Open \cup {c}) <= Cardinality(Open) + 1
          /\ Cardinality(Open \cup {c}) \in Nat
      <3>1. /\ IsFiniteSet(Open \cup {c})
            /\ Cardinality(Open \cup {c}) \in Nat
            /\ \/ Cardinality(Open \cup {c}) = Cardinality(Open)
               \/ Cardinality(Open \cup {c}) = Cardinality(Open) + 1
        BY <1>0, FS_AddElement, FS_CardinalityType
      <3> QED
        BY <1>0, <3>1
    <2>4. IsFiniteSet(Open') /\ Cardinality(Open') <= Cardinality(Open \cup {c})
          /\ Cardinality(Open') \in Nat
      BY <2>2, <2>3, FS_Subset, FS_CardinalityType
    <2>5. Cardinality(Open') <= PoolSize
      BY <1>0, <2>1, <2>3, <2>4
    <2> QED
      BY <2>4, <2>5 DEF PoolBounded, Open
  <1>3. ASSUME NEW c \in Requests,
               \/ \E b \in Baskets : Submit(c, b)
               \/ LookUpLine(c) \/ PickLocation(c) \/ ReserveLine(c)
               \/ Commit(c) \/ CommitUnacknowledged(c)
        PROVE  Fewer
    BY <1>0, <1>3 DEF Submit, LookUpLine, PickLocation, ReserveLine, Commit,
                      CommitUnacknowledged, CommitEffect, Open, InTx
  <1>4. ASSUME NEW c \in Requests, Rollback(c) PROVE Fewer
    BY <1>0, <1>4 DEF Rollback, Open, InTx
  <1>5. CASE Administer \/ (\E v \in Variants : SetVariantActive(v)) \/ UNCHANGED vars
    BY <1>1, <1>5 DEF Administer, SetVariantActive, txVars, vars, Open
  <1> QED
    BY <1>1, <1>2, <1>3, <1>4, <1>5
    DEF Next, Progress, RejectLine, NoStockRow, OutOfStock, DeadlockVictim, Cancel

\* Whoever waits for a row lock waits for an open transaction.
LEMMA WaitsForOpen ==
    ASSUME Inv, NEW c \in Requests, pc[c] = "reserve", Sufficient(c), LockedByOther(c, Key(c))
    PROVE  \E d \in Open : WaitsFor(c, d)
  <1>1. Key(c) \in Keys
    <2>1. line[c] \in 1..Len(basket[c]) /\ basket[c] \in Seq(Line) /\ loc[c] \in 1..MaxLocations
      BY DEF Inv, TypeOK, LineInProgress
    <2>2. Current(c) \in Line
      BY <2>1 DEF Current
    <2> QED
      BY <2>1, <2>2 DEF Key, Keys, Line
  <1>2. PICK d \in Requests \ {c} : held[d][Key(c)] > 0
    BY DEF LockedByOther
  <1>3. held[d] # NothingHeld
    BY <1>1, <1>2 DEF NothingHeld
  <1>4. d \in Open
    BY <1>3 DEF Inv, TxAtomic, Open
  <1> QED
    BY <1>2, <1>4 DEF WaitsFor

\* When every open transaction waits for another, some of them wait in a cycle:
\* the fewest that wait for each other all have somebody waiting for them.
LEMMA WaitersMakeACycle ==
    ASSUME IsFiniteSet(Open), Open # {},
           \A c \in Open : \E d \in Open : WaitsFor(c, d)
    PROVE  \E c \in Open : InWaitCycle(c)
  <1> DEFINE Waiting(T) == \A x \in T : \E y \in T : WaitsFor(x, y)
             Groups == {T \in SUBSET Open : T # {} /\ Waiting(T)}
  <1>1. Groups \in SUBSET (SUBSET Open) /\ Open \in Groups
    OBVIOUS
  <1>2. PICK T \in Groups : \A U \in Groups : Cardinality(T) <= Cardinality(U)
    <2> HIDE DEF Groups
    <2> QED
      BY <1>1, FewestExists
  <1>3. ASSUME NEW y \in T PROVE \E x \in T : WaitsFor(x, y)
    <2> SUFFICES ASSUME \A x \in T : ~WaitsFor(x, y) PROVE FALSE
      OBVIOUS
    <2>1. T \ {y} \in Groups
      <3>1. PICK z \in T : WaitsFor(y, z)
        BY <1>2
      <3>2. z # y
        BY <3>1
      <3>3. Waiting(T \ {y})
        BY <1>2
      <3> QED
        BY <1>2, <3>1, <3>2, <3>3
    <2>2. IsFiniteSet(T)
      BY <1>2, FS_Subset
    <2>3. Cardinality(T \ {y}) = Cardinality(T) - 1 /\ Cardinality(T) \in Nat
      BY <2>2, FS_RemoveElement, FS_CardinalityType
    <2>4. Cardinality(T) <= Cardinality(T \ {y})
      BY <1>2, <2>1
    <2> QED
      BY <2>3, <2>4
  <1>4. PICK c \in T : TRUE
    BY <1>2
  <1>5. T \in SUBSET Requests /\ c \in Open
    BY <1>2 DEF Open
  <1>6. InWaitCycle(c)
    BY <1>2, <1>3, <1>5 DEF InWaitCycle
  <1> QED
    BY <1>5, <1>6

\* Requests that are in flight and cannot proceed have used up the pool.
LEMMA StuckInPool ==
    ASSUME Inv, PoolBounded
    PROVE  StuckOnlyWhenPoolExhausted
  <1> DEFINE InFlight == {c \in Requests : pc[c] \in InTx \cup {"begin"}}
  <1> SUFFICES ASSUME InFlight # {}, \A c \in InFlight : ~CanProceed(c)
               PROVE  Cardinality(Open) = PoolSize /\ \E c \in InFlight : pc[c] = "lookup"
    BY Zenon DEF StuckOnlyWhenPoolExhausted, Open
  <1>0. /\ IsFiniteSet(Open) /\ Cardinality(Open) <= PoolSize /\ Cardinality(Open) \in Nat
        /\ PoolSize \in Nat \ {0}
    BY FS_CardinalityType, CheckoutAssumption DEF PoolBounded, Open
  <1>1. ASSUME ~PoolFree PROVE Cardinality(Open) = PoolSize /\ Open # {}
    <2>1. ~(Cardinality(Open) < PoolSize)
      BY <1>1 DEF PoolFree, Open
    <2> QED
      BY <1>0, <2>1, FS_EmptySet
  <1>2. Open # {}
    <2>1. PICK c \in InFlight : TRUE
      OBVIOUS
    <2>2. CASE pc[c] = "begin"
      BY <1>1, <2>1, <2>2 DEF CanProceed
    <2>3. CASE pc[c] # "begin"
      BY <2>1, <2>3 DEF Open
    <2> QED
      BY <2>2, <2>3
  <1>3. Open \subseteq InFlight
    BY DEF Open
  <1>4. \E c \in Open : pc[c] = "lookup"
    <2> SUFFICES ASSUME \A c \in Open : pc[c] # "lookup" PROVE FALSE
      OBVIOUS
    <2>1. ASSUME NEW c \in Open PROVE \E d \in Open : WaitsFor(c, d)
      <3>1. ~CanProceed(c) /\ c \in Requests /\ pc[c] \in InTx /\ pc[c] # "lookup"
        BY <1>3 DEF Open
      <3>2. pc[c] = "reserve" /\ Sufficient(c) /\ LockedByOther(c, Key(c))
        BY <3>1 DEF CanProceed, InTx
      <3> QED
        BY <3>1, <3>2, WaitsForOpen
    <2>2. \E c \in Open : InWaitCycle(c)
      BY <1>0, <1>2, <2>1, WaitersMakeACycle
    <2> QED
      BY <1>3, <2>2 DEF CanProceed
  <1>5. ~PoolFree
    BY <1>3, <1>4 DEF CanProceed
  <1> QED
    BY <1>1, <1>3, <1>4, <1>5

\* Row locks alone never bring checkout to a halt, whatever the number of
\* requests, the baskets and the size of the pool: somebody can always proceed,
\* unless transactions that need a second connection own the whole pool
\* (createOrderFromItems, pgxpool).
THEOREM LocksNeverHalt == Spec => []StuckOnlyWhenPoolExhausted
  <1>1. Init => PoolBounded
    <2> SUFFICES ASSUME Init PROVE PoolBounded
      OBVIOUS
    <2>1. {c \in Requests : pc[c] \in InTx} = {}
      BY DEF Init, InTx
    <2> QED
      <3>1. IsFiniteSet({}) /\ Cardinality({}) = 0
        BY FS_EmptySet
      <3>2. 0 <= PoolSize
        BY CheckoutAssumption
      <3> QED
        BY <2>1, <3>1, <3>2 DEF PoolBounded
  <1>2. Inv /\ PoolBounded /\ [Next]_vars => PoolBounded'
    BY PoolStep
  <1>3. Inv /\ PoolBounded => StuckOnlyWhenPoolExhausted
    BY StuckInPool
  <1> QED
    BY <1>1, <1>2, <1>3, InvAlways, PTL DEF Spec
=============================================================================
