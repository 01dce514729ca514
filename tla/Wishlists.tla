----------------------------- MODULE Wishlists -----------------------------
(***************************************************************************)
(* The wishlist of one user and its copy in Redis (wishlist Service and    *)
(* WishlistRepository).                                                    *)
(*                                                                         *)
(* A request reads the copy, or the tables and then stores a copy, or      *)
(* changes the tables and then deletes the copy.  Every statement and      *)
(* command is a step.  An item is a product with a variant; it goes when   *)
(* one of the two is deleted from the catalog.  The analytics event that   *)
(* an addition records is left out.                                        *)
(***************************************************************************)
EXTENDS FiniteSets

CONSTANTS
    Items,    \* what may be wished for
    Workers   \* request slots

VARIABLES
    row,      \* the user has a row in wishlists
    items,    \* wishlist_items
    cache,    \* zentora:wishlist:user:<id>, or NoCopy
    deleted,  \* items whose product or variant the catalog has no more
    job,      \* the request in each slot
    excused   \* history: why the copy may be out of date

vars == <<row, items, cache, deleted, job, excused>>

NoCopy == {}
CopyOf(list) == {list}
Free == [pc |-> "idle", item |-> "none", copy |-> {}, raced |-> FALSE]

Init ==
    /\ row = FALSE /\ items = {} /\ cache = NoCopy /\ deleted = {} /\ excused = FALSE
    /\ job = [w \in Workers |-> Free]

At(w, label) == job[w].pc = label
Goto(w, label) == job' = [job EXCEPT ![w].pc = label]
Done(w) == job' = [job EXCEPT ![w] = Free]

\* Who has read the items before they changed has read the wrong ones
Overtaken ==
    [v \in Workers |-> IF job[v].pc = "fill" THEN [job[v] EXCEPT !.raced = TRUE] ELSE job[v]]

\* The request goes on to delete the copy, unless the statement's answer is
\* lost: that is an error, and the copy stays
Changed(w) ==
    \/ /\ job' = [Overtaken EXCEPT ![w] = [Free EXCEPT !.pc = "invalidate"]]
       /\ UNCHANGED excused
    \/ /\ job' = [Overtaken EXCEPT ![w] = Free]
       /\ excused' = (cache # NoCopy)

-----------------------------------------------------------------------------
(* GetMyWishlist *)

\* A copy is answered at once
GetMyWishlist(w) ==
    /\ At(w, "idle")
    /\ cache = NoCopy
    /\ Goto(w, "find")
    /\ UNCHANGED <<row, items, cache, deleted, excused>>

\* Two SELECTs.  Without a row the list is empty.
GetByUserWithItems(w) ==
    /\ \/ At(w, "find") /\ Goto(w, IF row THEN "select" ELSE "fill")
       \/ At(w, "select") /\ job' = [job EXCEPT ![w].pc = "fill", ![w].copy = items]
    /\ UNCHANGED <<row, items, cache, deleted, excused>>

\* The error of the SET is ignored
FillCache(w) ==
    /\ At(w, "fill")
    /\ \/ cache' = CopyOf(job[w].copy) /\ excused' = job[w].raced
       \/ UNCHANGED <<cache, excused>>
    /\ Done(w)
    /\ UNCHANGED <<row, items, deleted>>

-----------------------------------------------------------------------------
(* Changes *)

Add(w, i) ==
    /\ At(w, "idle")
    /\ job' = [job EXCEPT ![w] = [Free EXCEPT !.pc = IF row THEN "add" ELSE "create", !.item = i]]
    /\ UNCHANGED <<row, items, cache, deleted, excused>>

\* SELECT ... FOR UPDATE locks no row that is not there: of two requests that
\* found none, the second violates UNIQUE (user_id) and fails.  The first fails
\* as well when the answer of its commit is lost.
GetOrCreateByUser(w) ==
    /\ At(w, "create")
    /\ Done(w) \/ (~row /\ Goto(w, "add"))
    /\ row' = TRUE
    /\ UNCHANGED <<items, cache, deleted, excused>>

\* Product and variant are foreign keys: the insertion fails without them
AddItem(w) ==
    /\ At(w, "add") /\ job[w].item \notin deleted
    /\ items' = items \cup {job[w].item}
    /\ Changed(w)
    /\ UNCHANGED <<row, cache, deleted>>

RemoveItem(i) ==
    /\ i \in items    \* or 404
    /\ items' = items \ {i}

Remove(w, i) ==
    /\ At(w, "idle")
    /\ RemoveItem(i)
    /\ Changed(w)
    /\ UNCHANGED <<row, cache, deleted>>

ClearItems == items' = {}

\* Mutant of Clear: the copy is left to expire
ClearQuietly(w) ==
    /\ At(w, "idle")
    /\ ClearItems
    /\ UNCHANGED <<row, cache, deleted, excused, job>>

Clear(w) ==
    /\ At(w, "idle")
    /\ ClearItems
    /\ Changed(w)
    /\ UNCHANGED <<row, cache, deleted>>

\* The error of the DEL is ignored
invalidate(w) ==
    /\ At(w, "invalidate")
    /\ \/ cache' = NoCopy /\ excused' = FALSE
       \/ excused' = (cache # NoCopy) /\ UNCHANGED cache
    /\ Done(w)
    /\ UNCHANGED <<row, items, deleted>>

-----------------------------------------------------------------------------
(* What the requests of others and time do *)

\* The foreign keys are ON DELETE CASCADE.  Nobody deletes the copy.
Cascade(gone) ==
    /\ gone \cap deleted = {}
    /\ deleted' = deleted \cup gone
    /\ items' = items \ gone
    /\ UNCHANGED <<row, cache, excused, job>>

DeleteVariant(i) == Cascade({i})

\* With all of its variants
DeleteProduct(variants) == Cascade(variants)

\* After thirty seconds
ExpireCache ==
    /\ cache # NoCopy
    /\ cache' = NoCopy /\ excused' = FALSE
    /\ UNCHANGED <<row, items, deleted, job>>

\* A statement fails and the request with it
Fail(w) ==
    /\ job[w].pc \in {"find", "select", "create", "add"}
    /\ Done(w)
    /\ UNCHANGED <<row, items, cache, deleted, excused>>

WishlistHandlers(w) ==
    \/ GetMyWishlist(w) \/ Clear(w)
    \/ \E i \in Items : Add(w, i) \/ Remove(w, i)

Next ==
    \/ ExpireCache
    \/ \E i \in Items : DeleteVariant(i)
    \/ \E variants \in SUBSET Items : DeleteProduct(variants)
    \/ \E w \in Workers :
          \/ WishlistHandlers(w) \/ GetByUserWithItems(w) \/ FillCache(w)
          \/ GetOrCreateByUser(w) \/ AddItem(w) \/ invalidate(w) \/ Fail(w)

Spec == Init /\ [][Next]_vars

-----------------------------------------------------------------------------
(* Properties *)

TypeOK ==
    /\ row \in BOOLEAN /\ items \subseteq Items /\ (items # {} => row)
    /\ cache \in {NoCopy} \cup {CopyOf(list) : list \in SUBSET Items}
    /\ deleted \subseteq Items /\ excused \in BOOLEAN
    /\ job \in [Workers ->
          [pc : {"idle", "find", "select", "fill", "create", "add", "invalidate"},
           item : Items \cup {"none"}, copy : SUBSET Items, raced : BOOLEAN]]

\* The copy that GetMyWishlist answers from is the wishlist, but for items that
\* the catalog has no more (DeleteProduct and DeleteVariant leave the copy),
\* unless a change has its deletion still to come or lost it or its own answer,
\* or the copy was stored by a reader that a change overtook (GetMyWishlist,
\* Add, Remove, Clear, invalidate).
CopyIsWishlist ==
    \/ \A copy \in cache : copy \ deleted = items
    \/ excused
    \/ \E w \in Workers : At(w, "invalidate")

-----------------------------------------------------------------------------
(* The inductive invariant behind CopyIsWishlist *)

\* Items are products and variants of the catalog.
ItemsExist == items \cap deleted = {}

\* Where a request stands says what it holds; items are only added to a row.
JobsFit ==
    \A w \in Workers :
        /\ job[w].pc \in {"idle", "find"} => job[w].copy = {}
        /\ job[w].pc \in {"create", "add"} => job[w].item \in Items
        /\ job[w].pc = "add" => row

\* What a reader is about to store is the list, unless a change overtook it.
FillsAreFresh ==
    \A w \in Workers :
        job[w].pc = "fill" => job[w].copy \ deleted = items \/ job[w].raced

Inv == TypeOK /\ ItemsExist /\ JobsFit /\ FillsAreFresh /\ CopyIsWishlist
=============================================================================
