---------------------------- MODULE CartCheckout ----------------------------
(***************************************************************************)
(* The cart of one user: the cart service with its Redis cache, the carts  *)
(* and cart_items tables, and checkout from the cart (CreateUserOrder,     *)
(* scenario A).  The user's requests run concurrently (two tabs, a retry). *)
(* One step is one SQL statement, one Redis command, or the order          *)
(* transaction, whose inside is OrderCheckout.                             *)
(*                                                                         *)
(* Errors of Redis are ignored by the service: a GET that fails is a miss, *)
(* a SET or a DEL that fails has no effect.                                *)
(***************************************************************************)
EXTENDS Integers

CONSTANTS Requests, Variants,
          Ops,       \* operations a request may be
          MaxQty,    \* bound: quantity of an item
          MaxCarts,  \* bound: carts created in a run
          None

CartIds == 1 .. MaxCarts
Items == [Variants -> 0 .. MaxQty]    \* 0: no such row
Contents == [cart : CartIds, items : Items]
Empty == [v \in Variants |-> 0]

ASSUME CartAssumption ==
    /\ Ops \subseteq {"get", "add", "remove", "clear", "checkout"}
    /\ MaxQty \in Nat \ {0}
    /\ MaxCarts \in Nat \ {0}
    /\ None \notin CartIds \cup Contents \cup {"active", "converted"}

VARIABLES status,  \* carts.status of every id, None before it is inserted
          items,   \* cart_items
          cache,   \* the Redis entry, or None
          pc,      \* next step of every request
          op, variant, qty,  \* what the request is, and its argument
          found,   \* the cart a request has read: id, or None
          seen,    \* the items it has read
          answer,  \* the cart it answers with
          order,   \* the order it has committed, or None
          owed     \* history: quantities accepted from the user and neither taken
                   \* out by the user nor ordered

vars == <<status, items, cache, pc, op, variant, qty, found, seen, answer, order, owed>>

Init ==
    /\ status = [c \in CartIds |-> None]
    /\ items = [c \in CartIds |-> Empty]
    /\ cache = None
    /\ pc = [r \in Requests |-> "idle"]
    /\ op = [r \in Requests |-> "get"]
    /\ variant \in [Requests -> Variants]
    /\ qty = [r \in Requests |-> 1]
    /\ found = [r \in Requests |-> None]
    /\ seen = [r \in Requests |-> Empty]
    /\ answer = [r \in Requests |-> None]
    /\ order = [r \in Requests |-> None]
    /\ owed = Empty

-----------------------------------------------------------------------------
Active == {c \in CartIds : status[c] = "active"}
Unused == {c \in CartIds : status[c] = None}
At(r, label) == pc[r] = label
Goto(r, label) == pc' = [pc EXCEPT ![r] = label]

\* What a request does with the cart it has read
AfterRead(o) ==
    CASE o = "remove" -> "delete"
      [] o = "clear" -> "deleteAll"
      [] o = "checkout" -> "order"

Start(r, o, q) ==
    /\ At(r, "idle")
    /\ op' = [op EXCEPT ![r] = o]
    /\ qty' = [qty EXCEPT ![r] = q]
    /\ Goto(r, CASE o = "get" -> "lookup" [] o = "add" -> "find" [] OTHER -> "readCart")
    /\ UNCHANGED <<status, items, cache, variant, found, seen, answer, order, owed>>

-----------------------------------------------------------------------------
\* GetActiveCart, which also ends AddOrUpdateItem and RemoveItem
CacheHit(r) ==
    /\ At(r, "lookup")
    /\ cache # None
    /\ answer' = [answer EXCEPT ![r] = cache]
    /\ Goto(r, "done")
    /\ UNCHANGED <<status, items, cache, op, variant, qty, found, seen, order, owed>>

\* No entry, or Redis failed
CacheMiss(r) ==
    /\ At(r, "lookup")
    /\ Goto(r, "getCart")
    /\ UNCHANGED <<status, items, cache, op, variant, qty, found, seen, answer, order, owed>>

\* GetActiveCartWithItemsForUser, called by GetActiveCart ("getCart") or by an
\* operation that goes on to change the cart ("readCart"): two statements
ReadCart(r) ==
    /\ pc[r] \in {"getCart", "readCart"}
    /\ \E c \in Active :
          /\ \A d \in Active : d <= c
          /\ found' = [found EXCEPT ![r] = c]
    /\ Goto(r, IF At(r, "getCart") THEN "getItems" ELSE "readItems")
    /\ UNCHANGED <<status, items, cache, op, variant, qty, seen, answer, order, owed>>

\* Without an active cart the answer is empty and a clear has nothing to do; a
\* remove and a checkout fail
NoCart(r) ==
    /\ pc[r] \in {"getCart", "readCart"}
    /\ Active = {}
    /\ Goto(r, IF At(r, "getCart") \/ op[r] = "clear" THEN "done" ELSE "failed")
    /\ UNCHANGED <<status, items, cache, op, variant, qty, found, seen, answer, order, owed>>

ReadItems(r) ==
    /\ pc[r] \in {"getItems", "readItems"}
    /\ seen' = [seen EXCEPT ![r] = items[found[r]]]
    /\ Goto(r, IF At(r, "getItems") THEN "fill" ELSE AfterRead(op[r]))
    /\ UNCHANGED <<status, items, cache, op, variant, qty, found, answer, order, owed>>

Read(r) == [cart |-> found[r], items |-> seen[r]]

FillCache(r) ==
    /\ At(r, "fill")
    /\ cache' \in {Read(r), cache}
    /\ answer' = [answer EXCEPT ![r] = Read(r)]
    /\ Goto(r, "done")
    /\ UNCHANGED <<status, items, op, variant, qty, found, seen, order, owed>>

\* Mutant of ExpireCache: the entry is stored without a TTL
ExpireCacheNever ==
    /\ cache = None
    /\ UNCHANGED vars

\* cartTTL has passed, or Redis evicts the key
ExpireCache ==
    /\ cache # None
    /\ cache' = None
    /\ UNCHANGED <<status, items, pc, op, variant, qty, found, seen, answer, order, owed>>

-----------------------------------------------------------------------------
\* GetOrCreateActiveCartForUser, a SERIALIZABLE transaction
FindCart(r) ==
    /\ At(r, "find")
    /\ \/ /\ \E c \in Active : found' = [found EXCEPT ![r] = c]
          /\ Goto(r, "upsert")
       \/ /\ Active = {}
          /\ Goto(r, "insert")
          /\ UNCHANGED found
    /\ UNCHANGED <<status, items, cache, op, variant, qty, seen, answer, order, owed>>

\* Mutant of InsertCart: without the unique index ux_carts_user_active and with
\* the default isolation level
InsertCartUnchecked(r) ==
    /\ At(r, "insert")
    /\ \E c \in Unused :
          /\ \A d \in Unused : c <= d
          /\ status' = [status EXCEPT ![c] = "active"]
          /\ found' = [found EXCEPT ![r] = c]
    /\ Goto(r, "upsert")
    /\ UNCHANGED <<items, cache, op, variant, qty, seen, answer, order, owed>>

\* A second active cart of the user violates the unique index
InsertCart(r) ==
    /\ At(r, "insert")
    /\ Active = {}
    /\ \E c \in Unused :
          /\ \A d \in Unused : c <= d
          /\ status' = [status EXCEPT ![c] = "active"]
          /\ found' = [found EXCEPT ![r] = c]
    /\ Goto(r, "upsert")
    /\ UNCHANGED <<items, cache, op, variant, qty, seen, answer, order, owed>>

\* The cart may have been converted since it was found
UpsertItem(r) ==
    /\ At(r, "upsert")
    /\ items' = [items EXCEPT ![found[r]][variant[r]] = qty[r]]
    /\ owed' = [owed EXCEPT ![variant[r]] = qty[r]]
    /\ Goto(r, "invalidate")
    /\ UNCHANGED <<status, cache, op, variant, qty, found, seen, answer, order>>

DeleteItem(r) ==
    /\ At(r, "delete")
    /\ items[found[r]][variant[r]] > 0
    /\ items' = [items EXCEPT ![found[r]][variant[r]] = 0]
    /\ owed' = [owed EXCEPT ![variant[r]] = 0]
    /\ Goto(r, "invalidate")
    /\ UNCHANGED <<status, cache, op, variant, qty, found, seen, answer, order>>

ClearActiveCart(r) ==
    /\ At(r, "deleteAll")
    /\ items' = [items EXCEPT ![found[r]] = Empty]
    /\ owed' = Empty
    /\ Goto(r, "invalidate")
    /\ UNCHANGED <<status, cache, op, variant, qty, found, seen, answer, order>>

Invalidate(r) ==
    /\ At(r, "invalidate")
    /\ cache' \in {None, cache}
    /\ Goto(r, IF op[r] = "clear" THEN "done" ELSE "lookup")
    /\ UNCHANGED <<status, items, op, variant, qty, found, seen, answer, order, owed>>

-----------------------------------------------------------------------------
\* createOrderFromItems commits an order for the items read before, provided the
\* cart read is the one the request names.  The acknowledgement may be lost.
PlaceOrder(r) ==
    /\ At(r, "order")
    /\ order' = [order EXCEPT ![r] = Read(r)]
    /\ owed' = [v \in Variants |-> IF seen[r][v] = owed[v] THEN 0 ELSE owed[v]]
    /\ Goto(r, "clearCart") \/ Goto(r, "failed")
    /\ UNCHANGED <<status, items, cache, op, variant, qty, found, seen, answer>>

\* Mutant of OrderFails: the cart is cleared all the same
OrderFailsCleared(r) ==
    /\ At(r, "order")
    /\ Goto(r, "clearCart")
    /\ UNCHANGED <<status, items, cache, op, variant, qty, found, seen, answer, order, owed>>

\* The request named another cart than the active one, or the order transaction
\* rolled back
OrderFails(r) ==
    /\ At(r, "order")
    /\ Goto(r, "failed")
    /\ UNCHANGED <<status, items, cache, op, variant, qty, found, seen, answer, order, owed>>

\* The error of either statement is ignored, and the cache keeps its entry
ClearCart(r) ==
    /\ At(r, "clearCart")
    /\ items' \in {items, [items EXCEPT ![found[r]] = Empty]}
    /\ Goto(r, "convert")
    /\ UNCHANGED <<status, cache, op, variant, qty, found, seen, answer, order, owed>>

MarkCartConverted(r) ==
    /\ At(r, "convert")
    /\ status' \in {status, [status EXCEPT ![found[r]] = "converted"]}
    /\ Goto(r, "done")
    /\ UNCHANGED <<items, cache, op, variant, qty, found, seen, answer, order, owed>>

\* A statement fails, the cart or the item named is not there, or PostgreSQL
\* reports a serialization failure or a duplicate key
Fail(r) ==
    /\ pc[r] \in {"find", "insert", "upsert", "getCart", "getItems",
                "readCart", "readItems", "delete", "deleteAll"}
    /\ Goto(r, "failed")
    /\ UNCHANGED <<status, items, cache, op, variant, qty, found, seen, answer, order, owed>>

Step(r) ==
    \/ CacheHit(r) \/ CacheMiss(r) \/ ReadCart(r) \/ NoCart(r) \/ ReadItems(r)
    \/ FillCache(r) \/ FindCart(r) \/ InsertCart(r) \/ UpsertItem(r)
    \/ DeleteItem(r) \/ ClearActiveCart(r) \/ Invalidate(r)
    \/ PlaceOrder(r) \/ OrderFails(r) \/ ClearCart(r) \/ MarkCartConverted(r)
    \/ Fail(r)

Next ==
    \/ \E r \in Requests : Step(r) \/ \E o \in Ops, q \in 1 .. MaxQty : Start(r, o, q)
    \/ ExpireCache

Spec == Init /\ [][Next]_vars

\* Requests are scheduled, and a cache entry expires
FairSpec == Spec /\ WF_vars(ExpireCache) /\ \A r \in Requests : WF_vars(Step(r))

-----------------------------------------------------------------------------
TypeOK ==
    /\ status \in [CartIds -> {None, "active", "converted"}]
    /\ items \in [CartIds -> Items]
    /\ cache \in Contents \cup {None}
    /\ pc \in [Requests -> {"idle", "lookup", "getCart", "getItems", "readCart", "readItems", "fill", "find",
                            "insert", "upsert", "delete", "deleteAll", "invalidate",
                            "order", "clearCart", "convert", "done", "failed"}]
    /\ op \in [Requests -> {"get", "add", "remove", "clear", "checkout"}]
    /\ variant \in [Requests -> Variants]
    /\ qty \in [Requests -> 1 .. MaxQty]
    /\ found \in [Requests -> CartIds \cup {None}]
    /\ seen \in [Requests -> Items]
    /\ answer \in [Requests -> Contents \cup {None}]
    /\ order \in [Requests -> Contents \cup {None}]
    /\ owed \in Items

\* A user never has two active carts, however many requests create one at once
\* and however they interleave with the conversion of the old one.
OneActiveCart == \A c, d \in Active : c = d

\* A cart is converted, and its items deleted by a checkout, only after an order
\* with the items the checkout read is committed.
ConvertedWasOrdered ==
    /\ \A c \in CartIds : status[c] = "converted" =>
          \E r \in Requests : order[r] # None /\ order[r].cart = c
    /\ \A r \in Requests : pc[r] \in {"clearCart", "convert"} => order[r] = Read(r)

\* A request has read a cart before it uses it, and has no order before the
\* order step.
ReadBeforeUse ==
    \A r \in Requests :
        /\ pc[r] \in {"getItems", "readItems", "fill", "upsert", "delete", "deleteAll",
                      "order", "clearCart", "convert"} => found[r] \in CartIds
        /\ pc[r] \notin {"clearCart", "convert", "done", "failed"} => order[r] = None
        /\ pc[r] \in {"readCart", "readItems"} => op[r] \in {"remove", "clear", "checkout"}

\* The inductive invariant behind the safety theorems
Inv == TypeOK /\ OneActiveCart /\ ConvertedWasOrdered /\ ReadBeforeUse

\* When the user's requests have ended, the cache comes to agree with the
\* tables and stays so, although no checkout invalidates it, a slow reader may
\* fill it after an invalidation, and a DEL may be lost.
StaleCacheDisappears ==
    <>[](cache # None => cache.cart \in Active /\ cache.items = items[cache.cart])

\* "outside of tx OK since order is already committed": a cart becomes at most
\* one order.
CartOrderedOnce ==
    \A r, s \in Requests :
        order[r] # None /\ order[s] # None /\ r # s => order[r].cart # order[s].cart

\* An item the user has added stays in the active cart until it is taken out or
\* ordered, however adds, removals, clears and cart creations interleave: only
\* a checkout that commits an order can lose it, by clearing or converting the
\* cart after the items of the order were read.
LostOnlyByCheckout ==
    (\A r \in Requests : order[r] = None) =>
        \A v \in Variants : owed[v] > 0 => \E c \in Active : items[c][v] = owed[v]

-----------------------------------------------------------------------------
(* The inductive invariant behind LostOnlyByCheckout, beside Inv *)

\* A cart that a request holds has been inserted, and one that was not has no
\* items.
CartsInUse ==
    /\ \A r \in Requests : found[r] \in CartIds => status[found[r]] # None
    /\ \A c \in Unused : items[c] = Empty

\* Before the first order the active cart holds just what the user put there.
OwedIsThere ==
    (\A r \in Requests : order[r] = None) =>
        /\ \A c \in Active : items[c] = owed
        /\ Active = {} => owed = Empty

OwedInv == CartsInUse /\ OwedIsThere
=============================================================================
