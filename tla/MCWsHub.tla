------------------------------- MODULE MCWsHub -------------------------------
(* Small instances of WsHub. *)
EXTENDS WsHub, TLC

CONSTANTS c1, c2, i1, i2

One == c1 :> i1
TwoOfOne == (c1 :> i1) @@ (c2 :> i1)
OneEach == (c1 :> i1) @@ (c2 :> i2)
=============================================================================
