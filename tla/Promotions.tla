----------------------------- MODULE Promotions -----------------------------
(***************************************************************************)
(* One discount: what administrators do to it, and its redemption against  *)
(* orders (CatalogService, DiscountRepository, CatalogHandler).            *)
(*                                                                         *)
(* Creating, editing and deleting are single transactions.  A redemption   *)
(* reads the row, counts and records in three (ValidateAndRedeem passes no *)
(* transaction on), so requests come between them.  Every order is worth   *)
(* OrderAmount.  Like is_active, the code and min_order_amount are columns *)
(* that a patch changes and a redemption checks: is_active stands for all. *)
(***************************************************************************)
EXTENDS Naturals, FiniteSets

CONSTANTS
    Orders,       \* orders the discount may be redeemed against
    Workers,      \* request slots for redemptions
    OrderAmount,  \* what an order is worth, also the bound of a percentage (100)
    Values        \* values a request may ask for

VARIABLES
    discount,  \* the row, or NoRow
    targets,   \* discount_targets of the row, by type
    redeemed,  \* discount_redemptions, with how they came about
    job,       \* the redemption in each slot
    loose      \* history: type and value were last set by different requests

vars == <<discount, targets, redeemed, job, loose>>

None == "none"
NoRow == <<>>
Types == {"percentage", "fixed"}
NoLimit == 0  \* max_redemptions is NULL (a limit of zero is not modelled)
Limits == {NoLimit, 1}
Windows == {"future", "running", "over"}
TargetTypes == {"product"}
Free == [pc |-> "idle", order |-> None, row |-> NoRow, loose |-> FALSE, raced |-> FALSE]

Init ==
    /\ discount = NoRow /\ targets = {} /\ loose = FALSE
    /\ redeemed = [o \in Orders |-> None]
    /\ job = [w \in Workers |-> Free]

\* Whoever has counted no longer knows what the row and its redemptions say
Overtake(pcs, j) ==
    [w \in Workers |-> IF j[w].pc \in pcs THEN [j[w] EXCEPT !.raced = TRUE] ELSE j[w]]

-----------------------------------------------------------------------------
(* Requests of administrators *)

\* CreateRequest.Validate: names, codes and dates are well formed here
ValidateCreate(kind, value) == value > 0 /\ (kind = "percentage" => value <= 100)

buildDiscountEntity(kind, value, max, active, window) ==
    [kind |-> kind, value |-> value, max |-> max, active |-> active, window |-> window]

\* One transaction of DiscountRepository.CreateDiscount
insertDiscountGraph(row, chosen) == discount' = row /\ targets' = chosen

CreateDiscount(kind, value, max, active, window, chosen) ==
    /\ discount = NoRow
    /\ ValidateCreate(kind, value)
    /\ insertDiscountGraph(buildDiscountEntity(kind, value, max, active, window), chosen)
    /\ UNCHANGED <<redeemed, job, loose>>

\* A request names the columns it wants changed; it cannot take a limit back
Patches ==
    [kind : Types] \cup [value : Values] \cup [kind : Types, value : Values]
    \cup [max : Limits \ {NoLimit}] \cup [active : BOOLEAN] \cup [window : Windows]

\* UpdateRequest.Validate looks at a percentage only if the request names both
ValidateUpdate(patch) ==
    ({"kind", "value"} \subseteq DOMAIN patch /\ patch.kind = "percentage") => patch.value <= 100

\* The columns a request names replace those of the row
patched(row, patch) ==
    [c \in DOMAIN row |-> IF c \in DOMAIN patch THEN patch[c] ELSE row[c]]

UpdateRow(row) == discount' = row

\* The row is read, patched and written as a whole; edits that overlap are the
\* subject of Edits
UpdateDiscount(patch) ==
    /\ discount # NoRow
    /\ ValidateUpdate(patch)
    /\ UpdateRow(patched(discount, patch))
    /\ loose' = CASE {"kind", "value"} \subseteq DOMAIN patch -> FALSE
                  [] {"kind", "value"} \cap DOMAIN patch = {} -> loose
                  [] OTHER -> TRUE
    /\ job' = Overtake({"count", "record"}, job)
    /\ UNCHANGED <<targets, redeemed>>

\* The old targets are deleted and the new ones inserted in one transaction
setTargetsTx(chosen) == targets' = chosen

SetDiscountTargets(chosen) ==
    /\ discount # NoRow
    /\ setTargetsTx(chosen)
    /\ UNCHANGED <<discount, redeemed, job, loose>>

\* Targets and redemptions go with the row, and a redemption under way has no
\* row left to be recorded against
DeleteDiscount ==
    /\ discount # NoRow    \* or 404
    /\ discount' = NoRow /\ targets' = {} /\ loose' = FALSE
    /\ redeemed' = [o \in Orders |-> None]
    /\ job' = [w \in Workers |-> Free]

\* starts_at and ends_at pass
PassTime ==
    /\ discount # NoRow
    /\ \/ discount.window = "future" /\ discount' = [discount EXCEPT !.window = "running"]
       \/ discount.window = "running" /\ discount' = [discount EXCEPT !.window = "over"]
    /\ UNCHANGED <<targets, redeemed, job, loose>>

-----------------------------------------------------------------------------
(* ValidateAndRedeem *)

validateDiscount(d) == d.active /\ d.window = "running"

\* Mutant of calculateDiscount: a fixed discount is not capped
calculateDiscountUncapped(d, amount) ==
    IF d.kind = "percentage" THEN (amount * d.value) \div 100 ELSE d.value

calculateDiscount(d, amount) ==
    IF d.kind = "percentage" THEN (amount * d.value) \div 100
    ELSE IF d.value > amount THEN amount ELSE d.value

\* GetDiscountByCode finds the row, and the request goes on with its copy
FindByCode(w, o) ==
    /\ job[w] = Free
    /\ discount # NoRow
    /\ validateDiscount(discount)
    /\ job' = [job EXCEPT ![w] =
          [pc |-> IF discount.max = NoLimit THEN "record" ELSE "count",
           order |-> o, row |-> discount, loose |-> loose, raced |-> FALSE]]
    /\ UNCHANGED <<discount, targets, redeemed, loose>>

Redemptions == {o \in Orders : redeemed[o] # None}

\* Mutant of UnderLimit: one redemption too many
UnderLimitByOne(max) == Cardinality(Redemptions) <= max

UnderLimit(max) == Cardinality(Redemptions) < max

CountRedemptions(w) ==
    /\ job[w].pc = "count"
    /\ job' = [job EXCEPT ![w] = IF UnderLimit(job[w].row.max) THEN [job[w] EXCEPT !.pc = "record"]
                                                              ELSE Free]
    /\ UNCHANGED <<discount, targets, redeemed, loose>>

\* insertRedemptionTx: an order takes a discount once.  "beyond": over the limit, and not because
\* something came between the count and this.
RecordRedemption(w) ==
    LET j == job[w]
        over == discount.max # NoLimit /\ Cardinality(Redemptions) >= discount.max
    IN
    /\ j.pc = "record"
    /\ redeemed' = IF j.order \in Redemptions THEN redeemed    \* 409
                   ELSE [redeemed EXCEPT ![j.order] =
                      IF ~over THEN "within" ELSE IF j.raced THEN "raced" ELSE "beyond"]
    /\ job' = Overtake({"record"}, [job EXCEPT ![w] = Free])
    /\ UNCHANGED <<discount, targets, loose>>

\* A statement fails; what was stored stays
Fail(w) ==
    /\ job[w] # Free
    /\ job' = [job EXCEPT ![w] = Free]
    /\ UNCHANGED <<discount, targets, redeemed, loose>>

\* What the handlers let through; the others only read, or answer an error
DiscountHandlers ==
    \/ \E k \in Types, v \in Values, m \in Limits, a \in BOOLEAN,
          u \in {"future", "running"}, t \in SUBSET TargetTypes : CreateDiscount(k, v, m, a, u, t)
    \/ \E p \in Patches : UpdateDiscount(p)
    \/ \E t \in SUBSET TargetTypes : SetDiscountTargets(t)
    \/ DeleteDiscount

ValidateAndRedeem(w) ==
    \/ \E o \in Orders : FindByCode(w, o)
    \/ CountRedemptions(w) \/ RecordRedemption(w) \/ Fail(w)

Next == DiscountHandlers \/ PassTime \/ \E w \in Workers : ValidateAndRedeem(w)

Spec == Init /\ [][Next]_vars

-----------------------------------------------------------------------------
(* Properties *)

Rows == [kind : Types, value : Values, max : Limits, active : BOOLEAN, window : Windows]

TypeOK ==
    /\ discount \in Rows \cup {NoRow}
    /\ targets \subseteq TargetTypes /\ loose \in BOOLEAN
    /\ redeemed \in [Orders -> {None, "within", "raced", "beyond"}]
    /\ job \in [Workers -> [pc : {"idle", "count", "record"}, order : Orders \cup {None},
                            row : Rows \cup {NoRow}, loose : BOOLEAN, raced : BOOLEAN]]

\* Redemptions are counted and recorded by separate statements: one goes beyond
\* max_redemptions only if another redemption or an edit came in between
\* (ValidateAndRedeem, CountRedemptions, RecordRedemption).
BeyondLimitOnlyRaced == \A o \in Redemptions : redeemed[o] # "beyond"

\* No redemption is worth more than the order, except a percentage above 100 that
\* UpdateRequest.Validate let through because a request named the type or the
\* value alone (calculateDiscount).
DiscountWithinOrder ==
    \A w \in Workers : job[w].pc = "record" =>
       calculateDiscount(job[w].row, OrderAmount) <= OrderAmount \/ job[w].loose

-----------------------------------------------------------------------------
(* The inductive invariant behind both *)

\* Only a percentage above 100 is worth more than an order.
Sound(row) == row.kind = "percentage" => row.value <= 100

\* A row whose type and value one request set is sound.
RowIsSound == discount # NoRow => loose \/ Sound(discount)

\* A redemption goes on with a copy of a row that is still there, and knows
\* whether that copy's type and value came from one request.
CopiesAreSound ==
    \A w \in Workers : job[w].pc # "idle" =>
        /\ discount # NoRow
        /\ job[w].row \in Rows
        /\ job[w].loose \/ Sound(job[w].row)

\* Until it is overtaken a redemption knows the limit, and once it has counted,
\* that there is room below it.
KnowsTheLimit ==
    \A w \in Workers : ~job[w].raced =>
        /\ job[w].pc = "count" => discount.max = job[w].row.max
        /\ job[w].pc = "record" => discount.max = NoLimit \/ UnderLimit(discount.max)

Inv == TypeOK /\ RowIsSound /\ CopiesAreSound /\ KnowsTheLimit /\ BeyondLimitOnlyRaced
=============================================================================
