--------------------------- MODULE MCOrderCheckout ---------------------------
(* Instances of OrderCheckout for TLC.                                      *)
EXTENDS OrderCheckout, Functions, SequencesExt

CONSTANTS v1, v2, p1, p2

\* v1 belongs to p1, v2 to p2
MCProductOf == [v \in Variants |-> IF v = v1 THEN p1 ELSE p2]

Item(v, q) == [product |-> MCProductOf[v], variant |-> v, quantity |-> q]

\* Two lines in either order, one variant twice, a line that names the wrong
\* product, a line with no quantity, and the empty cart
MCBaskets ==
    {<<Item(v1, 1), Item(v2, 1)>>, <<Item(v2, 1), Item(v1, 1)>>,
     <<Item(v1, 1), Item(v1, 1)>>, <<Item(v2, 1), [Item(v1, 1) EXCEPT !.product = p2]>>,
     <<Item(v2, 1), Item(v1, 0)>>, <<>>}

\* Only the lock orders that matter
CrossedBaskets == {<<Item(v1, 1), Item(v2, 1)>>, <<Item(v2, 1), Item(v1, 1)>>}

Stocked(a) == [available |-> a, reserved |-> 0]

\* Every variant has a units in every location that exists
Everywhere(a) == [k \in Keys |-> IF k[2] <= InitialLocations THEN Stocked(a) ELSE NoRow]
MCInitialStock == {Everywhere(1), Everywhere(2)}
AmpleStock == {Everywhere(2)}
\* Administrators create the location and stock it
NoStock == {[k \in Keys |-> NoRow]}

MCUpsertRows == {Stocked(1)}
MCDeltas == {-1, 1}
MCAdminQty == {1}
NoInputs == {}

Symmetric == Permutations(Requests)
=============================================================================
