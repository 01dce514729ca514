-------------------------- MODULE TokenRevocation --------------------------
(***************************************************************************)
(* What a logout promises: once a token is revoked, no check of it that    *)
(* begins afterwards is granted.  How sessions are stored, cached and      *)
(* blacklisted is the business of Sessions, which implements this.         *)
(***************************************************************************)
CONSTANTS Tokens, Requests

VARIABLES
    revoked,  \* tokens whose logout was confirmed
    check     \* what became of the check each request makes

Init ==
    /\ revoked = {}
    /\ check = [r \in Requests |-> "none"]

\* A granted request ends by revoking a token, its own or another
Revoke(r, t) ==
    /\ check[r] = "granted"
    /\ revoked' = revoked \cup {t}
    /\ check' = [check EXCEPT ![r] = "none"]

\* A check that begins after the revocation is lost from the start
Begin(r, t) ==
    /\ check[r] = "none"
    /\ check' = [check EXCEPT ![r] = IF t \in revoked THEN "lost" ELSE "open"]
    /\ UNCHANGED revoked

Grant(r) ==
    /\ check[r] = "open"
    /\ check' = [check EXCEPT ![r] = "granted"]
    /\ UNCHANGED revoked

Finish(r) ==
    /\ check[r] # "none"
    /\ check' = [check EXCEPT ![r] = "none"]
    /\ UNCHANGED revoked

Next ==
    \E r \in Requests :
       \/ Grant(r) \/ Finish(r)
       \/ \E t \in Tokens : Begin(r, t) \/ Revoke(r, t)

vars == <<revoked, check>>
Spec == Init /\ [][Next]_vars
=============================================================================
