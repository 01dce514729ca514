---------------------------- MODULE PasswordGuard ----------------------------
(***************************************************************************)
(* What limits the guesses at the password of one account: a Redis counter *)
(* per address and e-mail, and a failure count and a lock in the row       *)
(* (Login of AuthService, RateLimiter, AuthRepository).  A guess is right  *)
(* or wrong: the password itself, how it changes and the sessions opened   *)
(* with it are PasswordSessions.                                           *)
(***************************************************************************)
EXTENDS Naturals, FiniteSets

CONSTANTS
    Workers,      \* request slots
    LoginLimit,   \* attempts per window (5 in the code)
    LockAfter     \* failures that lock the row (5 in the code)

VARIABLES
    counter,   \* ratelimit:login:<ip>:<email>: its value, and whether it has a TTL
    failed,    \* auth_identities.failed_login_attempts, as far as the lock tells
    locked,    \* locked_until is in the future
    job,       \* where the request in each slot stands
    tries,     \* history: recorded failures since the last success or unlock
    lost       \* history: an EXPIRE was lost, or the answer it waits for

vars == <<counter, failed, locked, job, tries, lost>>
row == <<failed, locked, tries>>
redis == <<counter, lost>>

NoCounter == [n |-> 0, ttl |-> FALSE]

Init ==
    /\ counter = NoCounter
    /\ failed = 0 /\ locked = FALSE /\ tries = 0 /\ lost = FALSE
    /\ job = [w \in Workers |-> "idle"]

At(w, label) == job[w] = label
Goto(w, label) == job' = [job EXCEPT ![w] = label]

-----------------------------------------------------------------------------
(* RateLimiter *)

\* The n of an INCR: beyond the limit all values are alike
Incr(n) == IF n > LoginLimit THEN n ELSE n + 1

\* Login begins with the INCR of CheckLoginAttempt; without its answer there is
\* no EXPIRE after it
CheckLoginAttempt(w) ==
    LET n == Incr(counter.n) IN
    /\ At(w, "idle")
    /\ counter' = [counter EXCEPT !.n = n]
    /\ \/ /\ Goto(w, IF n = 1 THEN "expire" ELSE IF n > LoginLimit THEN "idle" ELSE "find")
          /\ UNCHANGED lost
       \/ Goto(w, "idle") /\ lost' = (lost \/ n = 1)
    /\ UNCHANGED row

\* Mutant of SetExpiry: only a key that is at its limit gets a TTL
SetExpiryAtLimit(w) ==
    /\ At(w, "expire")
    /\ \/ counter' = [counter EXCEPT !.ttl = counter.n > LoginLimit] /\ UNCHANGED lost
       \/ UNCHANGED counter /\ lost' = TRUE
    /\ Goto(w, "find")
    /\ UNCHANGED row

\* The EXPIRE after the first INCR, whose error is ignored; without a key it
\* does nothing
SetExpiry(w) ==
    /\ At(w, "expire")
    /\ \/ counter' = [counter EXCEPT !.ttl = counter.n > 0] /\ UNCHANGED lost
       \/ UNCHANGED counter /\ lost' = TRUE
    /\ Goto(w, "find")
    /\ UNCHANGED row

\* Redis drops the key at the end of its window
WindowEnds ==
    /\ counter.ttl
    /\ counter' = NoCounter
    /\ UNCHANGED <<row, lost, job>>

-----------------------------------------------------------------------------
(* Login *)

\* Mutant of NotLocked: the lock is not looked at
NeverLocked == TRUE

NotLocked == ~locked

\* FindIdentityByEmail: the lock is judged by what this row said
FindIdentity(w) ==
    /\ At(w, "find")
    /\ Goto(w, IF NotLocked THEN "compare" ELSE "idle")
    /\ UNCHANGED <<row, redis>>

\* FindProviderByIdentityAndType, and bcrypt
Compare(w) ==
    /\ At(w, "compare")
    /\ Goto(w, "success") \/ Goto(w, "miss")
    /\ UNCHANGED <<row, redis>>

\* The count is one statement; its error is ignored
IncrementFailedLoginAttempts(w) ==
    /\ At(w, "miss")
    /\ \/ /\ failed' = IF failed < LockAfter THEN failed + 1 ELSE failed
          /\ locked' = (failed + 1 >= LockAfter)
          /\ tries' = tries + 1
       \/ UNCHANGED row
    /\ Goto(w, "idle")
    /\ UNCHANGED redis

\* A success takes back the failures and the lock; its error is logged
UpdateIdentityLastLogin(w) ==
    /\ At(w, "success")
    /\ \/ failed' = 0 /\ locked' = FALSE /\ tries' = 0
       \/ UNCHANGED row
    /\ Goto(w, "reset")
    /\ UNCHANGED redis

\* Its error is ignored; loginWithIdentity follows
ResetLoginAttempts(w) ==
    /\ At(w, "reset")
    /\ counter' \in {NoCounter, counter}
    /\ Goto(w, "idle")
    /\ UNCHANGED <<row, lost>>

LockEnds ==
    /\ locked
    /\ locked' = FALSE /\ tries' = 0
    /\ UNCHANGED <<failed, redis, job>>

\* An error before a step is answered, and what was done stays
Fail(w) ==
    /\ At(w, "find") \/ At(w, "compare")
    /\ Goto(w, "idle")
    /\ UNCHANGED <<row, redis>>

-----------------------------------------------------------------------------
(* The functions these are the steps of *)

Login(w) ==
    \/ CheckLoginAttempt(w) \/ SetExpiry(w) \/ FindIdentity(w) \/ Compare(w)
    \/ IncrementFailedLoginAttempts(w) \/ UpdateIdentityLastLogin(w) \/ ResetLoginAttempts(w)

LoginHandler(w) == Login(w) \/ Fail(w)

Next == WindowEnds \/ LockEnds \/ \E w \in Workers : LoginHandler(w)

Spec == Init /\ [][Next]_vars

-----------------------------------------------------------------------------
(* Properties *)

Counters == [n : 0..(LoginLimit + 1), ttl : BOOLEAN]

TypeOK ==
    /\ counter \in Counters
    /\ failed \in 0..LockAfter /\ tries \in Nat
    /\ locked \in BOOLEAN /\ lost \in BOOLEAN
    /\ job \in [Workers -> {"idle", "expire", "find", "compare", "miss", "success", "reset"}]

\* Requests that passed the lock's check and have not recorded a failure yet
Guessing == {w \in Workers : job[w] \in {"compare", "miss"}}

\* The lock is read, the password compared and the failure counted in three
\* statements: requests that read the row before the lock was set still
\* compare, but no more than one guess each, and what they will add is bounded
\* with what was added (Login, IncrementFailedLoginAttempts).
TriesBounded ==
    tries + Cardinality(Guessing) <= LockAfter - 1 + Cardinality(Workers)

\* INCR and EXPIRE are two commands: a counter that lives without a TTL, and
\* would lock the address out for ever, has its EXPIRE still to come or lost
\* it (CheckLoginAttempt ignores the error, and gives up on that of the INCR),
\* whatever resets and windows came between the two.
CounterEnds ==
    counter.n > 0 /\ ~counter.ttl => lost \/ \E w \in Workers : At(w, "expire")

-----------------------------------------------------------------------------
(* The inductive invariant behind the two *)

\* The row is locked by the failure that reaches LockAfter; until then the
\* failures since the last unlock are among those it counts
LockFits(f, l, t) ==
    /\ l => f = LockAfter
    /\ ~l => t = 0 \/ (t <= f /\ f < LockAfter)

Inv ==
    /\ TypeOK
    /\ LockFits(failed, locked, tries)
    /\ TriesBounded
    /\ CounterEnds
=============================================================================
