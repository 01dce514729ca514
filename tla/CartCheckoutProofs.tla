------------------------- MODULE CartCheckoutProofs -------------------------
(***************************************************************************)
(* Safety of the cart for any number of concurrent requests of the user.   *)
(***************************************************************************)
EXTENDS CartCheckout, TLAPS

\* A quantity of zero is a quantity, and None is not a cart.
LEMMA ConstantFacts == /\ Empty \in Items
                       /\ 1 \in 1..MaxQty
                       /\ None \notin CartIds
                       /\ \A q \in 1..MaxQty : q \in 0..MaxQty
                       /\ 0 \in 0..MaxQty
  BY CartAssumption DEF Empty, Items

\* No cart, no request: the invariant holds at the start.
LEMMA InitInv == Init => Inv
  <1> SUFFICES ASSUME Init PROVE Inv
    OBVIOUS
  <1>1. TypeOK
    BY ConstantFacts DEF Init, TypeOK
  <1>2. OneActiveCart /\ ConvertedWasOrdered /\ ReadBeforeUse
    BY CartAssumption DEF Init, OneActiveCart, Active, ConvertedWasOrdered, ReadBeforeUse
  <1> QED
    BY <1>1, <1>2 DEF Inv

\* The steps that touch neither carts, orders nor what requests have read keep
\* the invariant.
LEMMA LocalInv ==
    ASSUME Inv, NEW r \in Requests,
           \/ \E o \in Ops, q \in 1 .. MaxQty : Start(r, o, q)
           \/ CacheHit(r) \/ CacheMiss(r) \/ NoCart(r) \/ FillCache(r)
           \/ Invalidate(r) \/ OrderFails(r) \/ Fail(r)
    PROVE  Inv'
  <1> USE DEF Inv
  <1>1. UNCHANGED <<status, items, variant, found, seen, order, owed>>
    BY DEF Start, CacheHit, CacheMiss, NoCart, FillCache, Invalidate, OrderFails, Fail
  <1>2. PICK m \in {"lookup", "find", "readCart", "getCart", "done", "failed"} :
           pc' = [pc EXCEPT ![r] = m]
    BY DEF Start, CacheHit, CacheMiss, NoCart, FillCache, Invalidate, OrderFails, Fail, Goto
  <1>3. m \notin {"done", "failed"} => order[r] = None
    BY <1>2 DEF Start, CacheHit, CacheMiss, NoCart, FillCache, Invalidate, OrderFails, Fail,
                Goto, At, ReadBeforeUse, TypeOK
  <1>4. op' \in [Requests -> {"get", "add", "remove", "clear", "checkout"}]
    BY CartAssumption DEF Start, CacheHit, CacheMiss, NoCart, FillCache, Invalidate,
                          OrderFails, Fail, TypeOK
  <1>5. qty' \in [Requests -> 1 .. MaxQty]
    BY DEF Start, CacheHit, CacheMiss, NoCart, FillCache, Invalidate, OrderFails, Fail, TypeOK
  <1>6. cache' \in Contents \cup {None} /\ answer' \in [Requests -> Contents \cup {None}]
    BY DEF Start, CacheHit, CacheMiss, NoCart, FillCache, Invalidate, OrderFails, Fail,
           TypeOK, Read, Contents, ReadBeforeUse, At
  <1>7. m = "readCart" => op'[r] \in {"remove", "clear", "checkout"}
    <2>1. ASSUME NEW o \in Ops, NEW q \in 1 .. MaxQty, Start(r, o, q)
          PROVE  m = "readCart" => op'[r] \in {"remove", "clear", "checkout"}
      <3>1. op'[r] = o
        BY <2>1 DEF Start, TypeOK
      <3>2. m = (CASE o = "get" -> "lookup" [] o = "add" -> "find" [] OTHER -> "readCart")
        BY <1>2, <2>1 DEF Start, Goto, TypeOK
      <3>3. o \in {"get", "add", "remove", "clear", "checkout"}
        BY CartAssumption
      <3> QED
        BY <3>1, <3>2, <3>3
    <2>2. CASE ~ \E o \in Ops, q \in 1 .. MaxQty : Start(r, o, q)
      <3>1. PICK l \in {"done", "getCart", "failed", "lookup"} : pc' = [pc EXCEPT ![r] = l]
        BY <2>2 DEF CacheHit, CacheMiss, NoCart, FillCache, Invalidate, OrderFails, Fail, Goto
      <3> QED
        BY <1>2, <3>1 DEF TypeOK
    <2> QED
      BY <2>1, <2>2
  <1>8. \A s \in Requests \ {r} : op'[s] = op[s]
    BY DEF Start, CacheHit, CacheMiss, NoCart, FillCache, Invalidate, OrderFails, Fail, TypeOK
  <1>9. TypeOK'
    BY <1>1, <1>2, <1>4, <1>5, <1>6 DEF TypeOK
  <1>10. OneActiveCart' /\ ConvertedWasOrdered'
    BY <1>1, <1>2 DEF OneActiveCart, Active, ConvertedWasOrdered, Read, TypeOK
  <1>11. ReadBeforeUse'
    BY <1>1, <1>2, <1>3, <1>7, <1>8 DEF ReadBeforeUse, TypeOK
  <1> QED
    BY <1>9, <1>10, <1>11

\* Reading the tables keeps the invariant: an active cart is a cart.
LEMMA ReadInv ==
    ASSUME Inv, NEW r \in Requests, ReadCart(r) \/ ReadItems(r) \/ FindCart(r)
    PROVE  Inv'
  <1> USE DEF Inv
  <1>1. UNCHANGED <<status, items, cache, op, variant, qty, answer, order, owed>>
    BY DEF ReadCart, ReadItems, FindCart
  <1>2. /\ order[r] = None
        /\ pc[r] \in {"getCart", "readCart", "getItems", "readItems", "find"}
    BY DEF ReadCart, ReadItems, FindCart, At, ReadBeforeUse
  <1>3. PICK m \in {"getItems", "readItems", "fill", "delete", "deleteAll", "order",
                    "upsert", "insert"} : pc' = [pc EXCEPT ![r] = m]
    BY DEF ReadCart, ReadItems, FindCart, Goto, At, AfterRead, ReadBeforeUse
  <1>4. PICK c \in CartIds \cup {None} : found' = [found EXCEPT ![r] = c]
    BY DEF ReadCart, ReadItems, FindCart, Active, TypeOK
  <1>5. m # "insert" => c \in CartIds
    BY <1>3, <1>4 DEF ReadCart, ReadItems, FindCart, Active, Goto, At, TypeOK, ReadBeforeUse
  <1>6. PICK i \in Items : seen' = [seen EXCEPT ![r] = i]
    BY DEF ReadCart, ReadItems, FindCart, TypeOK, ReadBeforeUse
  <1>7. m = "readItems" => op[r] \in {"remove", "clear", "checkout"}
    BY <1>3 DEF ReadCart, ReadItems, FindCart, Goto, At, TypeOK, ReadBeforeUse, AfterRead
  <1>8. TypeOK'
    BY <1>1, <1>3, <1>4, <1>6 DEF TypeOK
  <1>9. OneActiveCart'
    BY <1>1 DEF OneActiveCart, Active
  <1>10. ConvertedWasOrdered'
    BY <1>1, <1>2, <1>3, <1>4, <1>6 DEF ConvertedWasOrdered, Read, TypeOK
  <1>11. ReadBeforeUse'
    BY <1>1, <1>2, <1>3, <1>4, <1>5, <1>7 DEF ReadBeforeUse, TypeOK
  <1> QED
    BY <1>8, <1>9, <1>10, <1>11

\* The unique index admits a new active cart only when there is none.
LEMMA InsertInv ==
    ASSUME Inv, NEW r \in Requests, InsertCart(r)
    PROVE  Inv'
  <1> USE DEF Inv
  <1>1. PICK c \in CartIds : /\ status[c] = None
                             /\ status' = [status EXCEPT ![c] = "active"]
                             /\ found' = [found EXCEPT ![r] = c]
    BY DEF InsertCart, Unused
  <1>2. /\ pc[r] = "insert" /\ order[r] = None /\ Active = {}
        /\ pc' = [pc EXCEPT ![r] = "upsert"]
        /\ UNCHANGED <<items, cache, op, variant, qty, seen, answer, order, owed>>
    BY DEF InsertCart, At, Goto, ReadBeforeUse
  <1>3. TypeOK'
    BY <1>1, <1>2 DEF TypeOK
  <1>4. OneActiveCart'
    BY <1>1, <1>2 DEF OneActiveCart, Active, TypeOK
  <1>5. ConvertedWasOrdered'
    BY <1>1, <1>2 DEF ConvertedWasOrdered, Read, TypeOK
  <1>6. ReadBeforeUse'
    BY <1>1, <1>2 DEF ReadBeforeUse, TypeOK
  <1> QED
    BY <1>3, <1>4, <1>5, <1>6

\* Changing the items keeps the invariant.
LEMMA ItemsInv ==
    ASSUME Inv, NEW r \in Requests,
           UpsertItem(r) \/ DeleteItem(r) \/ ClearActiveCart(r) \/ ClearCart(r)
    PROVE  Inv'
  <1> USE DEF Inv
  <1>1. UNCHANGED <<status, cache, op, variant, qty, found, seen, answer, order>>
    BY DEF UpsertItem, DeleteItem, ClearActiveCart, ClearCart
  <1>2. \/ pc[r] \in {"upsert", "delete", "deleteAll"} /\ pc' = [pc EXCEPT ![r] = "invalidate"]
        \/ pc[r] = "clearCart" /\ pc' = [pc EXCEPT ![r] = "convert"]
    BY DEF UpsertItem, DeleteItem, ClearActiveCart, ClearCart, At, Goto
  <1>3. items' \in [CartIds -> Items] /\ owed' \in Items
    <2>1. found[r] \in CartIds
      BY <1>2 DEF ReadBeforeUse
    <2>2. CASE UpsertItem(r)
      BY <2>1, <2>2, ConstantFacts DEF UpsertItem, TypeOK, Items
    <2>3. CASE DeleteItem(r)
      BY <2>1, <2>3, ConstantFacts DEF DeleteItem, TypeOK, Items
    <2>4. CASE ClearActiveCart(r) \/ ClearCart(r)
      BY <2>1, <2>4, ConstantFacts DEF ClearActiveCart, ClearCart, TypeOK
    <2> QED
      BY <2>2, <2>3, <2>4
  <1>4. TypeOK'
    BY <1>1, <1>2, <1>3 DEF TypeOK
  <1>5. OneActiveCart'
    BY <1>1 DEF OneActiveCart, Active
  <1>6. ConvertedWasOrdered'
    BY <1>1, <1>2 DEF ConvertedWasOrdered, Read, TypeOK
  <1>7. ReadBeforeUse'
    BY <1>1, <1>2 DEF ReadBeforeUse, TypeOK
  <1> QED
    BY <1>4, <1>5, <1>6, <1>7

\* The order records what was read, and only a request with an order converts.
LEMMA OrderInv ==
    ASSUME Inv, NEW r \in Requests, PlaceOrder(r) \/ MarkCartConverted(r)
    PROVE  Inv'
  <1> USE DEF Inv
  <1>1. CASE PlaceOrder(r)
    <2>1. /\ pc[r] = "order" /\ order[r] = None /\ found[r] \in CartIds
          /\ order' = [order EXCEPT ![r] = Read(r)]
          /\ Read(r) \in Contents
          /\ UNCHANGED <<status, items, cache, op, variant, qty, found, seen, answer>>
      BY <1>1 DEF PlaceOrder, At, ReadBeforeUse, Read, Contents, TypeOK
    <2>2. PICK m \in {"clearCart", "failed"} : pc' = [pc EXCEPT ![r] = m]
      BY <1>1 DEF PlaceOrder, Goto
    <2>3. owed' \in Items
      BY <1>1, ConstantFacts DEF PlaceOrder, TypeOK, Items
    <2>4. TypeOK'
      BY <2>1, <2>2, <2>3 DEF TypeOK
    <2>5. OneActiveCart'
      BY <2>1 DEF OneActiveCart, Active
    <2>6. ConvertedWasOrdered'
      <3>1. \A s \in Requests : Read(s)' = Read(s)
        BY <2>1 DEF Read
      <3>2. \A s \in Requests : order[s] # None => order'[s] = order[s]
        BY <2>1 DEF TypeOK
      <3>3. ASSUME NEW c \in CartIds, status'[c] = "converted"
            PROVE  \E s \in Requests : order'[s] # None /\ order'[s].cart = c
        BY <2>1, <3>2, <3>3 DEF ConvertedWasOrdered
      <3>4. ASSUME NEW s \in Requests, pc'[s] \in {"clearCart", "convert"}
            PROVE  order'[s] = Read(s)'
        BY <2>1, <2>2, <3>1, <3>4 DEF ConvertedWasOrdered, TypeOK
      <3> QED
        BY <3>3, <3>4 DEF ConvertedWasOrdered
    <2>7. ReadBeforeUse'
      BY <2>1, <2>2 DEF ReadBeforeUse, TypeOK
    <2> QED
      BY <2>4, <2>5, <2>6, <2>7
  <1>2. CASE MarkCartConverted(r)
    <2>1. /\ pc[r] = "convert" /\ found[r] \in CartIds
          /\ pc' = [pc EXCEPT ![r] = "done"]
          /\ status' = status \/ status' = [status EXCEPT ![found[r]] = "converted"]
          /\ UNCHANGED <<items, cache, op, variant, qty, found, seen, answer, order, owed>>
      BY <1>2 DEF MarkCartConverted, At, Goto, ReadBeforeUse
    <2>2. order[r] # None /\ order[r].cart = found[r]
      <3>1. order[r] = Read(r) /\ Read(r) \in Contents
        BY <2>1 DEF ConvertedWasOrdered, Read, Contents, TypeOK
      <3> QED
        BY <3>1, CartAssumption DEF Read
    <2>3. TypeOK'
      BY <2>1 DEF TypeOK
    <2>4. OneActiveCart'
      BY <2>1 DEF OneActiveCart, Active, TypeOK
    <2>5. ConvertedWasOrdered'
      BY <2>1, <2>2 DEF ConvertedWasOrdered, Read, TypeOK
    <2>6. ReadBeforeUse'
      BY <2>1 DEF ReadBeforeUse, TypeOK
    <2> QED
      BY <2>3, <2>4, <2>5, <2>6
  <1> QED
    BY <1>1, <1>2

\* Every step keeps the invariant.
LEMMA NextInv == Inv /\ [Next]_vars => Inv'
  <1> SUFFICES ASSUME Inv, [Next]_vars PROVE Inv'
    OBVIOUS
  <1>1. CASE ExpireCache
    BY <1>1 DEF ExpireCache, Inv, TypeOK, OneActiveCart, Active, ConvertedWasOrdered, Read,
                ReadBeforeUse
  <1>2. CASE UNCHANGED vars
    BY <1>2 DEF vars, Inv, TypeOK, OneActiveCart, Active, ConvertedWasOrdered, Read,
                ReadBeforeUse
  <1>3. ASSUME NEW r \in Requests,
               Step(r) \/ \E o \in Ops, q \in 1 .. MaxQty : Start(r, o, q)
        PROVE  Inv'
    BY <1>3, LocalInv, ReadInv, InsertInv, ItemsInv, OrderInv DEF Step
  <1> QED
    BY <1>1, <1>2, <1>3 DEF Next

\* The inductive invariant of the cart holds in every reachable state.
THEOREM InvAlways == Spec => []Inv
  BY InitInv, NextInv, PTL DEF Spec

\* A user never has two active carts (GetOrCreateActiveCartForUser,
\* MarkCartConverted), for any number of concurrent requests.
THEOREM SingleActiveCart == Spec => []OneActiveCart
  BY InvAlways, PTL DEF Inv

\* Only a cart that a committed order was made from is converted, and a checkout
\* deletes items only after its order (CreateUserOrder).
THEOREM ConversionFollowsOrder == Spec => []ConvertedWasOrdered
  BY InvAlways, PTL DEF Inv

-----------------------------------------------------------------------------
(* What the user is owed *)

\* No cart is in use and nothing is owed.
LEMMA InitOwed == Init => OwedInv
  BY ConstantFacts DEF Init, OwedInv, CartsInUse, OwedIsThere, Unused, Active

\* Before the first order the cart a request holds is the active one.
LEMMA HeldIsActive ==
    ASSUME Inv, OwedInv, NEW r \in Requests, found[r] \in CartIds,
           \A s \in Requests : order[s] = None
    PROVE  Active = {found[r]} /\ items[found[r]] = owed
  <1>1. status[found[r]] = "active"
    BY DEF Inv, TypeOK, ConvertedWasOrdered, OwedInv, CartsInUse
  <1>2. Active = {found[r]}
    BY <1>1 DEF Inv, OneActiveCart, Active
  <1> QED
    BY <1>2 DEF OwedInv, OwedIsThere

\* Steps that leave carts and orders alone, and may find a cart that is active.
LEMMA ControlOwed ==
    ASSUME Inv, OwedInv, UNCHANGED <<status, items, order, owed>>,
           \A r \in Requests : found'[r] = found[r] \/ found'[r] \in Active
    PROVE  OwedInv'
  <1>1. CartsInUse'
    BY CartAssumption DEF OwedInv, CartsInUse, Unused, Active
  <1>2. OwedIsThere'
    BY DEF OwedInv, OwedIsThere, Active
  <1> QED
    BY <1>1, <1>2 DEF OwedInv

\* A new cart is empty, and without an active one nothing was owed.
LEMMA InsertOwed ==
    ASSUME Inv, OwedInv, NEW r \in Requests, InsertCart(r)
    PROVE  OwedInv'
  <1>1. PICK c \in CartIds : /\ status[c] = None
                             /\ status' = [status EXCEPT ![c] = "active"]
                             /\ found' = [found EXCEPT ![r] = c]
    BY DEF InsertCart, Unused
  <1>2. Active = {} /\ UNCHANGED <<items, order, owed>>
    BY DEF InsertCart
  <1>3. \A d \in CartIds : status'[d] = IF d = c THEN "active" ELSE status[d]
    BY <1>1 DEF Inv, TypeOK
  <1>4. \A s \in Requests : found'[s] = IF s = r THEN c ELSE found[s]
    BY <1>1 DEF Inv, TypeOK
  <1>5. CartsInUse'
    BY <1>2, <1>3, <1>4, CartAssumption DEF OwedInv, CartsInUse, Unused
  <1>6. Active' = {c}
    BY <1>2, <1>3 DEF Active
  <1>7. items[c] = Empty
    BY <1>1 DEF OwedInv, CartsInUse, Unused
  <1>8. OwedIsThere'
    BY <1>2, <1>6, <1>7 DEF OwedInv, OwedIsThere
  <1> QED
    BY <1>5, <1>8 DEF OwedInv

\* What a request changes in the cart it holds it changes in what is owed.
LEMMA ItemsOwed ==
    ASSUME Inv, OwedInv, NEW r \in Requests,
           UpsertItem(r) \/ DeleteItem(r) \/ ClearActiveCart(r)
    PROVE  OwedInv'
  <1> DEFINE c == found[r]
  <1>1. c \in CartIds /\ status[c] # None
    BY DEF UpsertItem, DeleteItem, ClearActiveCart, At, Inv, ReadBeforeUse, OwedInv, CartsInUse
  <1>2. UNCHANGED <<status, found, order>>
    BY DEF UpsertItem, DeleteItem, ClearActiveCart
  <1>3. items \in [CartIds -> Items] /\ owed \in Items
    BY DEF Inv, TypeOK
  <1>4. \A d \in CartIds \ {c} : items'[d] = items[d]
    BY <1>3 DEF UpsertItem, DeleteItem, ClearActiveCart
  <1>5. items[c] = owed => items'[c] = owed'
    <2>1. CASE UpsertItem(r)
      <3>1. /\ items'[c] = [items[c] EXCEPT ![variant[r]] = qty[r]]
            /\ owed' = [owed EXCEPT ![variant[r]] = qty[r]]
        BY <1>1, <1>3, <2>1 DEF UpsertItem
      <3> QED
        BY <3>1
    <2>2. CASE DeleteItem(r)
      <3>1. /\ items'[c] = [items[c] EXCEPT ![variant[r]] = 0]
            /\ owed' = [owed EXCEPT ![variant[r]] = 0]
        BY <1>1, <1>3, <2>2 DEF DeleteItem
      <3> QED
        BY <3>1
    <2>3. CASE ClearActiveCart(r)
      BY <1>1, <1>3, <2>3 DEF ClearActiveCart
    <2> QED
      BY <2>1, <2>2, <2>3
  <1>6. CartsInUse'
    BY <1>1, <1>2, <1>4 DEF OwedInv, CartsInUse, Unused
  <1>7. OwedIsThere'
    <2> SUFFICES ASSUME \A s \in Requests : order[s] = None
                 PROVE  Active' = {c} /\ items'[c] = owed'
      BY <1>2 DEF OwedIsThere
    <2>1. Active = {c} /\ items[c] = owed
      BY <1>1, HeldIsActive
    <2> QED
      BY <1>2, <1>5, <2>1 DEF Active
  <1> QED
    BY <1>6, <1>7 DEF OwedInv

\* A request that places an order or has placed one ends the promise.
LEMMA OrderOwed ==
    ASSUME Inv, OwedInv, NEW r \in Requests,
           PlaceOrder(r) \/ ClearCart(r) \/ MarkCartConverted(r)
    PROVE  OwedInv'
  <1>1. found[r] \in CartIds /\ status[found[r]] # None
    BY DEF PlaceOrder, ClearCart, MarkCartConverted, At, Inv, ReadBeforeUse, OwedInv, CartsInUse
  <1>2. Read(r) \in Contents
    BY <1>1 DEF Read, Contents, Inv, TypeOK
  <1>3. order'[r] # None
    <2>1. CASE PlaceOrder(r)
      BY <1>2, <2>1, CartAssumption DEF PlaceOrder, Inv, TypeOK
    <2>2. CASE ClearCart(r) \/ MarkCartConverted(r)
      <3>1. order[r] = Read(r) /\ order' = order
        BY <2>2 DEF ClearCart, MarkCartConverted, At, Inv, ConvertedWasOrdered
      <3> QED
        BY <1>2, <3>1, CartAssumption
    <2> QED
      BY <2>1, <2>2
  <1>4. found' = found
    BY DEF PlaceOrder, ClearCart, MarkCartConverted
  <1>5. \A c \in CartIds : status'[c] = None <=> status[c] = None
    <2>1. CASE PlaceOrder(r) \/ ClearCart(r)
      BY <2>1 DEF PlaceOrder, ClearCart
    <2>2. CASE MarkCartConverted(r)
      BY <1>1, <2>2, CartAssumption DEF MarkCartConverted, Inv, TypeOK
    <2> QED
      BY <2>1, <2>2
  <1>6. \A c \in CartIds : items'[c] = items[c] \/ items'[c] = Empty
    <2>1. CASE PlaceOrder(r) \/ MarkCartConverted(r)
      BY <2>1 DEF PlaceOrder, MarkCartConverted
    <2>2. CASE ClearCart(r)
      BY <1>1, <2>2 DEF ClearCart, Inv, TypeOK
    <2> QED
      BY <2>1, <2>2
  <1>7. CartsInUse'
    BY <1>4, <1>5, <1>6 DEF OwedInv, CartsInUse, Unused
  <1>8. OwedIsThere'
    BY <1>3 DEF OwedIsThere
  <1> QED
    BY <1>7, <1>8 DEF OwedInv

\* Every step keeps both invariants.
LEMMA OwedNext == Inv /\ OwedInv /\ [Next]_vars => OwedInv'
  <1> SUFFICES ASSUME Inv, OwedInv, [Next]_vars PROVE OwedInv'
    OBVIOUS
  <1>1. CASE UNCHANGED vars
    BY <1>1, ControlOwed DEF vars
  <1>2. CASE ExpireCache
    BY <1>2, ControlOwed DEF ExpireCache
  <1>3. ASSUME NEW r \in Requests,
               \/ \E o \in Ops, q \in 1 .. MaxQty : Start(r, o, q)
               \/ CacheHit(r) \/ CacheMiss(r) \/ NoCart(r) \/ ReadItems(r) \/ FillCache(r)
               \/ Invalidate(r) \/ OrderFails(r) \/ Fail(r)
        PROVE  OwedInv'
    <2>1. UNCHANGED <<status, items, order, owed, found>>
      BY <1>3 DEF Start, CacheHit, CacheMiss, NoCart, ReadItems, FillCache, Invalidate,
                  OrderFails, Fail
    <2> QED
      BY <2>1, ControlOwed
  <1>4. ASSUME NEW r \in Requests, ReadCart(r) \/ FindCart(r)
        PROVE  OwedInv'
    <2>1. /\ UNCHANGED <<status, items, order, owed>>
          /\ found' = found \/ \E c \in Active : found' = [found EXCEPT ![r] = c]
      BY <1>4 DEF ReadCart, FindCart
    <2>2. \A s \in Requests : found'[s] = found[s] \/ found'[s] \in Active
      BY <2>1 DEF Inv, TypeOK
    <2> QED
      BY <2>1, <2>2, ControlOwed
  <1> QED
    BY <1>1, <1>2, <1>3, <1>4, InsertOwed, ItemsOwed, OrderOwed DEF Next, Step

\* An item the user has added stays in the active cart until it is taken out or
\* ordered, for any number of concurrent requests, carts and variants; only a
\* checkout that commits an order can lose it (AddOrUpdateItem, RemoveItem,
\* ClearCart, CreateUserOrder).
THEOREM OnlyCheckoutLoses == Spec => []LostOnlyByCheckout
  <1>1. Inv /\ OwedInv => LostOnlyByCheckout
    <2> SUFFICES ASSUME OwedInv, \A r \in Requests : order[r] = None,
                        NEW v \in Variants, owed[v] > 0
                 PROVE  \E c \in Active : items[c][v] = owed[v]
      BY DEF LostOnlyByCheckout
    <2>1. Active # {}
      BY DEF OwedInv, OwedIsThere, Empty
    <2> QED
      BY <2>1 DEF OwedInv, OwedIsThere
  <1> QED
    BY <1>1, InitInv, InitOwed, NextInv, OwedNext, PTL DEF Spec
=============================================================================
