-------------------------- MODULE PasswordSessions --------------------------
(***************************************************************************)
(* What becomes of the sessions of an account when its password changes:   *)
(* logins, uses of their tokens with the background jobs these start,      *)
(* ChangePassword, ForgotPassword and ResetPassword, and LogoutAllSessions *)
(* at the end of a change (AuthService, session.Manager, AuthRepository).  *)
(*                                                                         *)
(* A slot is a goroutine, every Redis command and every statement a step.  *)
(* Logins have passed PasswordGuard.  The logout of one session, the       *)
(* blacklist, which the change of a password never writes, and the expiry  *)
(* of tokens are in Sessions.                                              *)
(***************************************************************************)

CONSTANTS
    Passwords,    \* what may be the password
    Tokens,       \* access tokens that logins may issue
    ResetTokens,  \* tokens that ForgotPassword may mail
    Workers       \* slots: requests and background jobs in progress

VARIABLES
    password,  \* the password whose hash is stored
    reset,     \* auth_verification_tokens of type password_reset
    opened,    \* the password that each token's login was accepted with
    known,     \* tokens handed to the client
    row,       \* auth_sessions.status per token
    copy,      \* tokens with a session:<identity>:<jti> key in Redis
    job,       \* the goroutine in each slot
    spared     \* history: tokens that no ending is sure to have reached since
               \* the password last changed

vars == <<password, reset, opened, known, row, copy, job, spared>>
sessions == <<opened, known, row, copy>>

None == "none"

\* todo: copies that SCAN found; missed: tokens that this ending may not reach
Free == [pc |-> "idle", token |-> None, new |-> None, todo |-> {}, missed |-> {}]

Init ==
    /\ password \in Passwords
    /\ reset = [r \in ResetTokens |-> None]
    /\ opened = [t \in Tokens |-> None] /\ known = {}
    /\ row = [t \in Tokens |-> None] /\ copy = {}
    /\ job = [w \in Workers |-> Free]
    /\ spared = {}

At(w, label) == job[w].pc = label
Goto(w, label) == job' = [job EXCEPT ![w].pc = label]
Begin(w, label, t) == [Free EXCEPT !.pc = label, !.token = t]
Done(w) == job' = [job EXCEPT ![w] = Free]

\* An ending has looked for the copies and not yet revoked the rows
Ending(w) == At(w, "end")

\* A login, or a background job, that may yet store the session of t
Stores(j, t) ==
    j.token = t /\ j.pc \in {"openRow", "openCopy", "touch", "touched", "restore"}

-----------------------------------------------------------------------------
(* Login and loginWithIdentity *)

\* FindProviderByIdentityAndType, and bcrypt
Login(w, t) ==
    /\ At(w, "idle")
    /\ opened[t] = None
    /\ opened' = [opened EXCEPT ![t] = password]
    /\ job' = [job EXCEPT ![w] = Begin(w, "openRow", t)]
    /\ UNCHANGED <<password, reset, known, row, copy, spared>>

\* CreateSession of AuthRepository
OpenRow(w) ==
    /\ At(w, "openRow")
    /\ row' = [row EXCEPT ![job[w].token] = "active"]
    /\ Goto(w, "openCopy")
    /\ UNCHANGED <<password, reset, opened, known, copy, spared>>

\* CreateSession of Manager: without the answer of its SET the login fails, and
\* what was stored stays
OpenCopy(w) ==
    /\ At(w, "openCopy")
    /\ \/ copy' = copy \cup {job[w].token} /\ known' \in {known, known \cup {job[w].token}}
       \/ UNCHANGED <<copy, known>>
    /\ Done(w)
    /\ UNCHANGED <<password, reset, opened, row, spared>>

-----------------------------------------------------------------------------
(* GetSession, for a request that presents a token *)

\* Slot w goes on as j; an ending in progress may come too early for its token
Overtake(w, j) ==
    job' = [v \in Workers |->
        IF v = w THEN j
        ELSE IF Ending(v) THEN [job[v] EXCEPT !.missed = @ \cup {j.token}]
        ELSE job[v]]

\* A copy is found, and touched in the background
FindCopy(w, t) ==
    /\ At(w, "idle")
    /\ t \in known /\ t \in copy
    /\ Overtake(w, Begin(w, "touch", t))
    /\ UNCHANGED <<password, reset, sessions, spared>>

\* There is none, or Redis failed
MissCopy(w, t) ==
    /\ At(w, "idle")
    /\ t \in known
    /\ job' = [job EXCEPT ![w] = Begin(w, "fallback", t)]
    /\ UNCHANGED <<password, reset, sessions, spared>>

\* The row stands in, and its copy is restored in the background
FindRow(w) ==
    /\ At(w, "fallback")
    /\ row[job[w].token] = "active"
    /\ Overtake(w, Begin(w, "restore", job[w].token))
    /\ UNCHANGED <<password, reset, sessions, spared>>

\* UpdateSessionActivity reads the copy and stores it again
TouchRead(w) ==
    /\ At(w, "touch")
    /\ job[w].token \in copy
    /\ Goto(w, "touched")
    /\ UNCHANGED <<password, reset, sessions, spared>>

StoreCopy(w) ==
    /\ copy' = copy \cup {job[w].token}
    /\ Done(w)
    /\ UNCHANGED <<password, reset, opened, known, row, spared>>

TouchWrite(w) == At(w, "touched") /\ StoreCopy(w)
restoreToRedis(w) == At(w, "restore") /\ StoreCopy(w)

-----------------------------------------------------------------------------
(* Changing the password *)

\* The token is mailed; its Redis copy is never read
ForgotPassword(r) ==
    /\ reset[r] = None
    /\ reset' = [reset EXCEPT ![r] = "live"]
    /\ UNCHANGED <<password, sessions, job, spared>>

\* A token that expired is as good as used
ExpireReset(r) ==
    /\ reset[r] = "live"
    /\ reset' = [reset EXCEPT ![r] = "used"]
    /\ UNCHANGED <<password, sessions, job, spared>>

\* Behind Auth, by a client with a token, who knows the password
ChangePassword(w, old, new) ==
    /\ At(w, "idle")
    /\ known # {} /\ old = password
    /\ job' = [job EXCEPT ![w] = [Begin(w, "update", None) EXCEPT !.new = new]]
    /\ UNCHANGED <<password, reset, sessions, spared>>

FindVerificationToken(r) == reset[r] = "live"

ResetPassword(w, r, new) ==
    /\ At(w, "idle")
    /\ FindVerificationToken(r)
    /\ job' = [job EXCEPT ![w] = [Begin(w, "update", r) EXCEPT !.new = new]]
    /\ UNCHANGED <<password, reset, sessions, spared>>

\* Endings that have begun are no longer sure to reach the sessions of what was
\* the password.  When the answer is lost there is no ending after the change.
UpdateProviderPassword(w) ==
    LET next == [job[w] EXCEPT !.pc = IF job[w].token = None THEN "scan" ELSE "mark"]
    IN
    /\ At(w, "update")
    /\ password' = job[w].new
    /\ spared' = Tokens
    /\ \E j \in {next, Free} :
          job' = [v \in Workers |-> IF v = w THEN j ELSE [job[v] EXCEPT !.missed = Tokens]]
    /\ UNCHANGED <<reset, sessions>>

\* The error is logged
MarkTokenAsUsed(w) ==
    /\ At(w, "mark")
    /\ reset' \in {[reset EXCEPT ![job[w].token] = "used"], reset}
    /\ job' = [job EXCEPT ![w] = Begin(w, "scan", None)]
    /\ UNCHANGED <<password, sessions, spared>>

-----------------------------------------------------------------------------
(* LogoutAllSessions *)

\* The client asks for it, without a change of the password
LogoutAll(w) ==
    /\ At(w, "idle")
    /\ known # {}
    /\ job' = [job EXCEPT ![w] = Begin(w, "scan", None)]
    /\ UNCHANGED <<password, reset, sessions, spared>>

\* InvalidateAllUserSessions of Manager finds the keys that are there, or, when
\* the SCAN fails on its way, a part of them
ScanCopies(w) ==
    /\ At(w, "scan")
    /\ \E found \in SUBSET copy :
          job' = [job EXCEPT ![w] = [Begin(w, "end", None) EXCEPT
              !.todo = found,
              !.missed = (copy \ found) \cup {t \in Tokens : \E v \in Workers : Stores(job[v], t)}]]
    /\ UNCHANGED <<password, reset, sessions, spared>>

\* One DEL per key; its error is printed only
DeleteFound(w) ==
    /\ Ending(w)
    /\ \E t \in job[w].todo :
          \/ /\ copy' = copy \ {t}
             /\ job' = [job EXCEPT ![w].todo = @ \ {t}]
          \/ /\ UNCHANGED copy
             /\ job' = [job EXCEPT ![w].todo = @ \ {t}, ![w].missed = @ \cup {t}]
    /\ UNCHANGED <<password, reset, opened, known, row, spared>>

\* Mutant of InvalidateAllUserSessions: rows are left to the expiry
KeepRows(w) ==
    /\ Ending(w) /\ job[w].todo = {}
    /\ spared' = spared \cap job[w].missed
    /\ Done(w)
    /\ UNCHANGED <<password, reset, sessions>>

\* That of AuthRepository: one UPDATE.  Its answer, or that of the SCAN, may
\* still be an error; what was ended is.
InvalidateAllUserSessions(w) ==
    /\ Ending(w) /\ job[w].todo = {}
    /\ row' = [t \in Tokens |-> IF row[t] = "active" THEN "revoked" ELSE row[t]]
    /\ spared' = spared \cap job[w].missed
    /\ Done(w)
    /\ UNCHANGED <<password, reset, opened, known, copy>>

\* A statement or a command fails, or finds nothing, or the process stops:
\* what was done stays
Fail(w) ==
    /\ ~At(w, "idle")
    /\ Done(w)
    /\ UNCHANGED <<password, reset, sessions, spared>>

-----------------------------------------------------------------------------
(* The functions these are the steps of *)

loginWithIdentity(w) == (\E t \in Tokens : Login(w, t)) \/ OpenRow(w) \/ OpenCopy(w)

GetSession(w) == (\E t \in Tokens : FindCopy(w, t) \/ MissCopy(w, t)) \/ FindRow(w)

UpdateSessionActivity(w) == TouchRead(w) \/ TouchWrite(w)

ChangePasswordHandler(w) == \E p, q \in Passwords : ChangePassword(w, p, q)

ResetPasswordHandler(w) ==
    (\E r \in ResetTokens, p \in Passwords : ResetPassword(w, r, p)) \/ MarkTokenAsUsed(w)

ForgotPasswordHandler == \E r \in ResetTokens : ForgotPassword(r)

LogoutAllSessions(w) == ScanCopies(w) \/ DeleteFound(w) \/ InvalidateAllUserSessions(w)

Next ==
    \/ ForgotPasswordHandler
    \/ \E r \in ResetTokens : ExpireReset(r)
    \/ \E w \in Workers :
          \/ loginWithIdentity(w)
          \/ GetSession(w) \/ UpdateSessionActivity(w) \/ restoreToRedis(w)
          \/ ChangePasswordHandler(w) \/ ResetPasswordHandler(w) \/ UpdateProviderPassword(w)
          \/ LogoutAll(w) \/ LogoutAllSessions(w) \/ Fail(w)

Spec == Init /\ [][Next]_vars

-----------------------------------------------------------------------------
(* Properties *)

Jobs == [pc : {"idle", "openRow", "openCopy", "fallback", "touch", "touched", "restore",
               "update", "mark", "scan", "end"},
         token : Tokens \cup ResetTokens \cup {None}, new : Passwords \cup {None},
         todo : SUBSET Tokens, missed : SUBSET Tokens]

TypeOK ==
    /\ password \in Passwords
    /\ reset \in [ResetTokens -> {None, "live", "used"}]
    /\ opened \in [Tokens -> Passwords \cup {None}]
    /\ known \subseteq Tokens /\ copy \subseteq Tokens /\ spared \subseteq Tokens
    /\ row \in [Tokens -> {None, "active", "revoked"}]
    /\ job \in [Workers -> Jobs]

\* GetSession would let the token in
Usable(t) == t \in copy \/ row[t] = "active"

\* Opened with what is not the password
Old(t) == opened[t] \notin {None, password}

\* ChangePassword and ResetPassword end all sessions: one that was opened with
\* an older password can be used only as long as no ending that began after the
\* change is through, or when each of those missed it: its SCAN or the DEL of
\* the copy failed, or a login, a touch or a restore of that very session was
\* under way when it looked for copies, or began before it revoked the rows
\* (InvalidateAllUserSessions, GetSession, UpdateSessionActivity).
OldSessionsRaced == \A t \in Tokens : Old(t) /\ Usable(t) => t \in spared

-----------------------------------------------------------------------------
(* The inductive invariant behind it *)

\* Who goes on with a token has one of the account's
JobFits(j) ==
    /\ j.pc \in {"openRow", "openCopy", "fallback", "touch", "touched", "restore"} =>
          j.token \in Tokens
    /\ j.pc = "update" => j.new \in Passwords /\ j.token \in ResetTokens \cup {None}
    /\ j.pc = "mark" => j.token \in ResetTokens

\* What was not spared is gone, and nobody stores it again
OldAreGone ==
    \A t \in Tokens :
        Old(t) /\ t \notin spared => ~Usable(t) /\ \A w \in Workers : ~Stores(job[w], t)

\* What an ending in progress does not miss it still has to delete, and nobody
\* stores it again
EndingsReach ==
    \A w \in Workers, t \in Tokens :
        Ending(w) /\ Old(t) /\ t \notin job[w].missed =>
            /\ t \in copy => t \in job[w].todo
            /\ \A v \in Workers : ~Stores(job[v], t)

Inv == TypeOK /\ (\A w \in Workers : JobFits(job[w])) /\ OldAreGone /\ EndingsReach
=============================================================================
