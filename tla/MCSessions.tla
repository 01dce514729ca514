----------------------------- MODULE MCSessions -----------------------------
(* An instance of Sessions for TLC.                                         *)
EXTENDS Sessions, TLC

\* Tokens are alike, and so are request slots
Symmetric == Permutations(Tokens) \cup Permutations(Requests)
=============================================================================
