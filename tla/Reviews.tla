------------------------------ MODULE Reviews ------------------------------
(***************************************************************************)
(* Reviews of ordered products (review Handler, Service,                   *)
(* ReviewRepository).                                                      *)
(*                                                                         *)
(* A review is allowed for an item of an order of the user's own that is   *)
(* delivered or completed, for Window days.  The order has no column for   *)
(* the time of its completion: updated_at stands in for it, and any change *)
(* of status starts the days anew.  The order is read first, the review    *)
(* inserted later, and orders change in between.  The days are counted in  *)
(* whole ones, capped once the window is over.                             *)
(***************************************************************************)
EXTENDS Naturals

CONSTANTS
    OrderItem, \* order_items: per item its order, that order's user and the product
    Users,     \* users who ask, owners of orders among them
    Statuses,  \* what administrators set an order to
    Window,    \* days after updated_at in which a review is taken
    Workers    \* request slots

VARIABLES
    status,    \* orders.status
    age,       \* days since orders.updated_at
    review,    \* reviews: per user and product, the item reviewed
    earned,    \* history: was that review allowed at some moment of its request?
    job        \* the request in each slot

vars == <<status, age, review, earned, job>>

None == "none"
Items == DOMAIN OrderItem
Orders == {OrderItem[i].order : i \in Items}
Products == {OrderItem[i].product : i \in Items}
Keys == Users \X Products     \* UNIQUE(user_id, product_id)

\* chance is history: the review was allowed at some moment since the request came
Free == [pc |-> "idle", user |-> None, product |-> None, item |-> None,
         chance |-> FALSE]

Init ==
    /\ status = [o \in Orders |-> "pending"]
    /\ age = [o \in Orders |-> 0]
    /\ review = [k \in Keys |-> None]
    /\ earned = [k \in Keys |-> FALSE]
    /\ job = [w \in Workers |-> Free]

Completed == {"delivered", "completed"}

\* What the rule asks for, were it asked in one step
Allowed(st, ag, j) ==
    /\ j.item \in Items
    /\ LET i == OrderItem[j.item] IN
           /\ i.user = j.user /\ i.product = j.product
           /\ st[i.order] \in Completed /\ ag[i.order] <= Window

-----------------------------------------------------------------------------
(* ReviewRepository *)

GetOrderItemForReview(i) ==
    LET oi == OrderItem[i]
    IN  [user |-> oi.user, product |-> oi.product, status |-> status[oi.order], age |-> age[oi.order]]

Create(k, i, chance) ==
    /\ review[k] = None
    /\ review' = [review EXCEPT ![k] = i]
    /\ earned' = [earned EXCEPT ![k] = chance]

-----------------------------------------------------------------------------
(* Service *)

\* Mutant of Reviewable: the window is not looked at
ReviewableAlways(info, u, p) ==
    info.user = u /\ info.product = p /\ info.status \in Completed

\* The checks of AddReview on what it has read: ownership, product, completion, window
Reviewable(info, u, p) ==
    /\ info.user = u
    /\ info.product = p
    /\ info.status \in Completed
    /\ info.age <= Window

-----------------------------------------------------------------------------
(* Handler: the request arrives, is checked, and inserts its review *)

Add(w, u, p, i) ==
    /\ job[w] = Free
    /\ LET j == [Free EXCEPT !.pc = "read", !.user = u, !.product = p, !.item = i]
       IN  job' = [job EXCEPT ![w] = [j EXCEPT !.chance = Allowed(status, age, j)]]
    /\ UNCHANGED <<status, age, review, earned>>

AddReview(w) ==
    /\ job[w].pc = "read"
    /\ job[w].item # None
    /\ Reviewable(GetOrderItemForReview(job[w].item), job[w].user, job[w].product)
    /\ job' = [job EXCEPT ![w].pc = "insert"]
    /\ UNCHANGED <<status, age, review, earned>>

InsertReview(w) ==
    /\ job[w].pc = "insert"
    /\ Create(<<job[w].user, job[w].product>>, job[w].item, job[w].chance)
    /\ job' = [job EXCEPT ![w] = Free]
    /\ UNCHANGED <<status, age>>

\* A request is refused (an invalid rating, no such item, one of the checks, the
\* unique key), or a statement of it fails: nothing is left of it
handleErr(w) ==
    /\ job[w] # Free
    /\ job' = [job EXCEPT ![w] = Free]
    /\ UNCHANGED <<status, age, review, earned>>

\* History: what the requests under way could have been allowed
Chances(st, ag) ==
    [w \in Workers |-> [job[w] EXCEPT !.chance = @ \/ Allowed(st, ag, job[w])]]

\* Any status may follow any other; updated_at is always set
AdminUpdateOrderStatus(o, s) ==
    /\ status' = [status EXCEPT ![o] = s]
    /\ age' = [age EXCEPT ![o] = 0]
    /\ job' = Chances(status', age')
    /\ UNCHANGED <<review, earned>>

PassTime ==
    /\ \E o \in Orders : age[o] <= Window
    /\ age' = [o \in Orders |-> IF age[o] <= Window THEN age[o] + 1 ELSE age[o]]
    /\ UNCHANGED <<status, review, earned, job>>

-----------------------------------------------------------------------------
Next ==
    \/ \E w \in Workers, u \in Users, p \in Products, i \in Items \cup {None} : Add(w, u, p, i)
    \/ \E w \in Workers : AddReview(w) \/ InsertReview(w) \/ handleErr(w)
    \/ \E o \in Orders, s \in Statuses : AdminUpdateOrderStatus(o, s)
    \/ PassTime

Spec == Init /\ [][Next]_vars

-----------------------------------------------------------------------------
TypeOK ==
    /\ status \in [Orders -> Statuses]
    /\ age \in [Orders -> 0..Window + 1]
    /\ review \in [Keys -> Items \cup {None}]
    /\ earned \in [Keys -> BOOLEAN]
    /\ job \in [Workers -> [pc : {"idle", "read", "insert"}, user : Users \cup {None},
                            product : Products \cup {None}, item : Items \cup {None},
                            chance : BOOLEAN]]

\* A review is of an item its author bought, and was allowed at some moment of
\* the request that left it, however its order was changed between the check and
\* the insert (AddReview, Create).
ReviewsWereEarned ==
    \A k \in Keys : review[k] # None =>
        /\ earned[k]
        /\ OrderItem[review[k]].user = k[1] /\ OrderItem[review[k]].product = k[2]

-----------------------------------------------------------------------------
(* The inductive invariant behind ReviewsWereEarned *)

\* A request whose checks would succeed now has been allowed: PassTime only ends
\* windows, and what a change of status opens it records in Chances.
ChanceIsSeen ==
    \A w \in Workers :
        job[w].pc = "read" /\ Allowed(status, age, job[w]) => job[w].chance

\* Past its checks a request is for an item of its user's and was allowed.
CheckedWasAllowed ==
    \A w \in Workers : job[w].pc = "insert" =>
        /\ job[w].chance
        /\ job[w].item \in Items
        /\ OrderItem[job[w].item].user = job[w].user
        /\ OrderItem[job[w].item].product = job[w].product

Inv == TypeOK /\ ChanceIsSeen /\ CheckedWasAllowed /\ ReviewsWereEarned
=============================================================================
