------------------------------ MODULE Sessions ------------------------------
(***************************************************************************)
(* The sessions of one account: a row in auth_sessions, a copy in Redis    *)
(* and a blacklist entry per access token (session.Manager, AuthService,   *)
(* the Auth middleware and the handlers behind it).                        *)
(*                                                                         *)
(* A request is a goroutine that shares nothing but the two stores with    *)
(* the others, and so is the background job a lookup starts: every Redis   *)
(* command and every statement is a step.  A step that the code lets fail  *)
(* may fail.  The JWT, the row and the Redis key of a token expire at the  *)
(* same instant; a blacklist entry lives a full Ttl from the logout.       *)
(***************************************************************************)
EXTENDS Naturals, FiniteSets

CONSTANTS
    Tokens,    \* the access tokens (ULIDs) that logins may issue
    Requests,  \* request slots: bounds the requests in progress at a time
    MaxJobs    \* bounds the background jobs in progress at a time

VARIABLES
    row,        \* auth_sessions.status per session_token; "none": no row
    copy,       \* tokens with a session:<identity>:<jti> key in Redis
    blacklist,  \* tokens with a blacklist:<jti> key in Redis
    expired,    \* tokens whose expiry has passed
    known,      \* tokens a login has handed to the client
    deleted,    \* auth_identities.deleted_at is set
    jobs,       \* background jobs: touch before and after its GET, restore
    req,        \* the request in each slot
    ended       \* history: tokens whose logout was answered 200

stores == <<row, copy, blacklist, expired, known, deleted>>
vars == <<stores, jobs, req, ended>>

\* Behind Auth: "logout" ends one session (Logout, RevokeSession), "logoutAll"
\* all of them (LogoutAllSessions, also at the end of ChangePassword)
AuthOps == {"use", "logout", "logoutAll"}
Job(kind, t) == [kind |-> kind, token |-> t]

\* late: the request began after its token's logout was confirmed
Idle == [pc |-> "idle", op |-> "none", token |-> {}, target |-> {}, todo |-> {},
         late |-> FALSE]

Init ==
    /\ row = [t \in Tokens |-> "none"]
    /\ copy = {} /\ blacklist = {} /\ expired = {} /\ known = {} /\ ended = {}
    /\ deleted = FALSE
    /\ jobs = {}
    /\ req = [r \in Requests |-> Idle]

At(r, label) == req[r].pc = label
Goto(r, label) == req' = [req EXCEPT ![r].pc = label]

\* The answer frees the slot; a logout answered 200 is one the client relies on
Answer(r, code) ==
    /\ req' = [req EXCEPT ![r] = Idle]
    /\ ended' = IF req[r].op = "logout" /\ code = 200
                THEN ended \cup {req[r].target} ELSE ended

-----------------------------------------------------------------------------
(* Tokens *)

Generate(purpose, temp) == [purpose |-> purpose, temp |-> temp]
GenerateAccessToken == Generate("access", FALSE)
GenerateRefreshToken == Generate("refresh", FALSE)

\* Signature, issuer and audience are those of the generator: a presented
\* token fails only by its expiry
Verify(t) == t \notin expired
VerifyAccessToken(t, claims) == Verify(t) /\ claims.purpose = "access" /\ ~claims.temp

-----------------------------------------------------------------------------
(* Login, once the password has been accepted *)

Login(r) ==
    /\ At(r, "idle") /\ ~deleted
    /\ \E t \in Tokens :
          /\ row[t] = "none" /\ \A s \in Requests : req[s].token # t
          /\ req' = [req EXCEPT ![r] = [Idle EXCEPT !.op = "login", !.token = t,
                                                    !.pc = "openRow"]]
    /\ UNCHANGED <<stores, jobs, ended>>

\* CreateSession of AuthRepository
InsertRow(t) == row' = [row EXCEPT ![t] = "active"]

OpenRow(r) ==
    /\ At(r, "openRow")
    /\ \/ InsertRow(req[r].token) /\ Goto(r, "openCopy") /\ UNCHANGED ended
       \/ UNCHANGED row /\ Answer(r, 401)
    /\ UNCHANGED <<copy, blacklist, expired, known, deleted, jobs>>

\* CreateSession of Manager: nothing is stored once the session has expired
CreateSession(t, ok) ==
    copy' = IF ok /\ t \notin expired THEN copy \cup {t} ELSE copy

\* Without its copy a login fails, and its row stays
OpenCopy(r) ==
    LET t == req[r].token IN
    /\ At(r, "openCopy")
    /\ \E ok \in BOOLEAN :
          /\ CreateSession(t, ok)
          /\ known' = IF ok /\ t \notin expired THEN known \cup {t} ELSE known
          /\ Answer(r, IF ok /\ t \notin expired THEN 200 ELSE 401)
    /\ UNCHANGED <<row, blacklist, expired, deleted, jobs>>

-----------------------------------------------------------------------------
(* ValidateToken, through the Auth middleware *)

\* A token reaches the server in the header or in the query
extractToken == known

\* The sessions the handlers Logout and RevokeSession ask to end: that of the
\* token they came with, and the one that the request names
LogoutTarget(t) == {t}
RevokeTarget == known

Present(r, t, op, target, claims) ==
    /\ At(r, "idle")
    /\ t \in extractToken
    /\ target \in IF op = "logout" THEN LogoutTarget(t) \cup RevokeTarget ELSE {{}}
    /\ VerifyAccessToken(t, claims)    \* or 401, and nothing happens
    /\ req' = [req EXCEPT ![r] = [pc |-> "blacklist", op |-> op, token |-> t,
                                  target |-> target, todo |-> {}, late |-> t \in ended]]
    /\ UNCHANGED <<stores, jobs, ended>>

\* Mutant of IsTokenBlacklisted: an entry is not looked up
NeverBlacklisted(t) == FALSE

IsTokenBlacklisted(t) == t \in blacklist

CheckBlacklist(r) ==
    /\ At(r, "blacklist")
    /\ \/ ~IsTokenBlacklisted(req[r].token) /\ Goto(r, "lookup") /\ UNCHANGED ended
       \/ Answer(r, 401)    \* revoked, or Redis failed
    /\ UNCHANGED <<stores, jobs>>

StartJob(kind, t) ==
    /\ Cardinality(jobs) < MaxJobs
    /\ jobs' = jobs \cup {Job(kind, t)}

\* The handler no longer needs the token it was presented with
Grant(r) == req' = [req EXCEPT ![r].pc = "granted", ![r].token = {}, ![r].late = FALSE]

\* GetSession finds the copy and starts a touch of it
FindCopy(r) ==
    /\ At(r, "lookup") /\ req[r].token \in copy
    /\ StartJob("touch", req[r].token)
    /\ Grant(r)
    /\ UNCHANGED <<stores, ended>>

\* No copy, or Redis failed
MissCopy(r) ==
    /\ At(r, "lookup")
    /\ Goto(r, "fallback")
    /\ UNCHANGED <<stores, jobs, ended>>

FindSessionByToken(t) == row[t] = "active" /\ t \notin expired

\* The row stands in for the copy, which is restored behind the request's back
FindRow(r) ==
    /\ At(r, "fallback")
    /\ \/ /\ FindSessionByToken(req[r].token)
          /\ StartJob("restore", req[r].token)
          /\ Grant(r) /\ UNCHANGED ended
       \/ Answer(r, 401) /\ UNCHANGED jobs    \* no active row, or a failed query
    /\ UNCHANGED stores

-----------------------------------------------------------------------------
(* The background jobs of GetSession *)

\* UpdateSessionActivity reads the copy ...
TouchRead(t) ==
    /\ Job("touch", t) \in jobs
    /\ jobs' = (jobs \ {Job("touch", t)}) \cup
               (IF t \in copy THEN {Job("touched", t)} ELSE {})
    /\ UNCHANGED <<stores, req, ended>>

\* ... and stores it again, unless its time has passed
TouchWrite(t) ==
    /\ Job("touched", t) \in jobs
    /\ \E ok \in BOOLEAN : CreateSession(t, ok)
    /\ jobs' = jobs \ {Job("touched", t)}
    /\ UNCHANGED <<row, blacklist, expired, known, deleted, req, ended>>

restoreToRedis(t) ==
    /\ Job("restore", t) \in jobs
    /\ \E ok \in BOOLEAN : CreateSession(t, ok)
    /\ jobs' = jobs \ {Job("restore", t)}
    /\ UNCHANGED <<row, blacklist, expired, known, deleted, req, ended>>

-----------------------------------------------------------------------------
(* Handlers behind Auth *)

UseHandler(r) ==
    /\ At(r, "granted") /\ req[r].op = "use"
    /\ Answer(r, 200)
    /\ UNCHANGED <<stores, jobs>>

\* InvalidateSession of Manager: the error of the DEL is only logged
DeleteCopy(r) ==
    /\ At(r, "granted") /\ req[r].op = "logout"
    /\ copy' \in {copy \ {req[r].target}, copy}
    /\ Goto(r, "findRow")
    /\ UNCHANGED <<row, blacklist, expired, known, deleted, jobs, ended>>

\* InvalidateSession of AuthRepository
RevokeRow(t) == row' = [row EXCEPT ![t] = "revoked"]

\* The row is read and then updated; no row is no error.  A failed read is taken
\* for a missing row, a failed update is an error.
EndRow(r) ==
    LET t == req[r].target IN
    /\ At(r, "findRow")
    /\ \/ /\ FindSessionByToken(t) /\ RevokeRow(t)
          /\ Goto(r, "blacklistIt") /\ UNCHANGED ended
       \/ UNCHANGED <<row, ended>> /\ Goto(r, "blacklistIt")
       \/ FindSessionByToken(t) /\ UNCHANGED row /\ Answer(r, 500)
    /\ UNCHANGED <<copy, blacklist, expired, known, deleted, jobs>>

BlacklistToken(t, ok) == blacklist' = IF ok THEN blacklist \cup {t} ELSE blacklist

BlacklistTarget(r) ==
    /\ At(r, "blacklistIt")
    /\ \E ok \in BOOLEAN :
          /\ BlacklistToken(req[r].target, ok)
          /\ Answer(r, IF ok THEN 200 ELSE 500)
    /\ UNCHANGED <<row, copy, expired, known, deleted, jobs>>


\* ChangePassword: the current password is wrong, or a statement failed
PasswordRefused(r) ==
    /\ At(r, "granted") /\ req[r].op = "logoutAll"
    /\ Answer(r, 400)
    /\ UNCHANGED <<stores, jobs>>

\* AdminDeleteUser, on behalf of an administrator whose own session is not one
\* of these: the account is marked before its sessions are ended
AdminDeleteUser(r) ==
    /\ At(r, "idle") /\ ~deleted
    /\ deleted' = TRUE
    /\ req' = [req EXCEPT ![r] = [Idle EXCEPT !.op = "delete", !.pc = "granted"]]
    /\ UNCHANGED <<row, copy, blacklist, expired, known, jobs, ended>>

\* InvalidateAllUserSessions of Manager: SCAN, then one DEL per key found
ScanCopies(r) ==
    /\ At(r, "granted") /\ req[r].op \in {"logoutAll", "delete"}
    /\ \E found \in {copy, {}} :
          req' = [req EXCEPT ![r].pc = "deleteAll", ![r].todo = found]
    /\ UNCHANGED <<stores, jobs, ended>>

DeleteFound(r) ==
    /\ At(r, "deleteAll")
    /\ \E t \in req[r].todo :
          /\ req' = [req EXCEPT ![r].todo = @ \ {t}]
          /\ copy' \in {copy \ {t}, copy}
    /\ UNCHANGED <<row, blacklist, expired, known, deleted, jobs, ended>>

\* InvalidateAllUserSessions of AuthRepository
RevokeRows ==
    row' = [t \in Tokens |-> IF row[t] = "active" THEN "revoked" ELSE row[t]]

\* No token is blacklisted
LogoutAllSessions(r) ==
    /\ At(r, "deleteAll") /\ req[r].todo = {}
    /\ \/ RevokeRows /\ Answer(r, 200)
       \/ UNCHANGED row /\ Answer(r, 500)
    /\ UNCHANGED <<copy, blacklist, expired, known, deleted, jobs>>

-----------------------------------------------------------------------------
(* Time *)

Expire(t) ==
    /\ row[t] # "none" /\ t \notin expired
    /\ expired' = expired \cup {t}
    /\ copy' = copy \ {t}
    /\ UNCHANGED <<row, blacklist, known, deleted, jobs, req, ended>>

\* The entry was stored for a full Ttl, more than the token has left
ForgetBlacklist(t) ==
    /\ t \in blacklist /\ t \in expired
    /\ blacklist' = blacklist \ {t}
    /\ UNCHANGED <<row, copy, expired, known, deleted, jobs, req, ended>>

-----------------------------------------------------------------------------
(* The functions these are the steps of *)

loginWithIdentity(r) == Login(r) \/ OpenRow(r) \/ OpenCopy(r)

GetSession(r) == FindCopy(r) \/ MissCopy(r) \/ FindRow(r)

ValidateToken(r) == CheckBlacklist(r) \/ GetSession(r)

Auth(r) ==
    \/ \E t \in Tokens, s \in Tokens \cup {{}}, op \in AuthOps,
          c \in {GenerateAccessToken, GenerateRefreshToken} : Present(r, t, op, s, c)
    \/ ValidateToken(r)

UpdateSessionActivity(t) == TouchRead(t) \/ TouchWrite(t)

InvalidateSession(r) == DeleteCopy(r) \/ EndRow(r)

\* And RevokeSession
Logout(r) == InvalidateSession(r) \/ BlacklistTarget(r)

InvalidateAllUserSessions(r) == ScanCopies(r) \/ DeleteFound(r)

\* Handlers LogoutAll and ChangePassword
LogoutAllHandlers(r) == PasswordRefused(r) \/ InvalidateAllUserSessions(r) \/ LogoutAllSessions(r)

Next ==
    \/ \E r \in Requests :
          \/ loginWithIdentity(r) \/ Auth(r) \/ UseHandler(r)
          \/ Logout(r) \/ LogoutAllHandlers(r)
          \/ AdminDeleteUser(r)
    \/ \E t \in Tokens :
          UpdateSessionActivity(t) \/ restoreToRedis(t) \/ Expire(t) \/ ForgetBlacklist(t)

Spec == Init /\ [][Next]_vars

-----------------------------------------------------------------------------
(* Properties *)

Reqs == [pc : {"idle", "openRow", "openCopy", "blacklist", "lookup", "fallback",
               "granted", "findRow", "blacklistIt", "deleteAll"},
         op : AuthOps \cup {"login", "delete", "none"},
         token : Tokens \cup {{}}, target : Tokens \cup {{}}, todo : SUBSET Tokens,
         late : BOOLEAN]

TypeOK ==
    /\ row \in [Tokens -> {"none", "active", "revoked"}]
    /\ copy \subseteq Tokens /\ blacklist \subseteq Tokens /\ expired \subseteq Tokens
    /\ known \subseteq Tokens /\ ended \subseteq Tokens
    /\ deleted \in BOOLEAN
    /\ jobs \subseteq [kind : {"touch", "touched", "restore"}, token : Tokens]
    /\ req \in [Requests -> Reqs]

\* What became of the check of a request
Checking(q) ==
    IF q.op \notin AuthOps THEN "none"
    ELSE IF q.pc \notin {"blacklist", "lookup", "fallback"} THEN "granted"
    ELSE IF q.late THEN "lost" ELSE "open"
check == [r \in Requests |-> Checking(req[r])]

Revocation == INSTANCE TokenRevocation WITH revoked <- ended, check <- check

\* Logout and RevokeSession: a token whose logout was answered with 200 is
\* refused by every request that presents it afterwards, whatever background
\* job restores its copy (ValidateToken checks the blacklist first).  The
\* sessions keep their types and implement TokenRevocation.
RefinesRevocation == []TypeOK /\ Revocation!Spec

-----------------------------------------------------------------------------
(* The inductive invariant behind it *)

\* The steps of a request are those of its operation
RequestFits(q) ==
    /\ q.pc = "idle" => q.op = "none"
    /\ q.pc \in {"openRow", "openCopy"} => q.op = "login" /\ q.token \in Tokens
    /\ q.pc \in {"blacklist", "lookup", "fallback"} => q.op \in AuthOps /\ q.token \in Tokens
    /\ q.pc \in {"findRow", "blacklistIt"} => q.op = "logout"
    /\ q.pc = "deleteAll" => q.op \in {"logoutAll", "delete"}
    /\ q.pc = "granted" => q.op \in AuthOps \cup {"delete"}
    /\ q.op = "logout" => q.target \in Tokens

\* Who comes with a revoked token gets past the blacklist only once the entry
\* was forgotten, and then the token has expired
LateFits(q, out, gone) ==
    q.late => /\ q.pc \in {"blacklist", "lookup", "fallback"}
              /\ q.token \in out
              /\ q.pc # "blacklist" => q.token \in gone

Inv ==
    /\ TypeOK
    /\ \A r \in Requests : RequestFits(req[r]) /\ LateFits(req[r], ended, expired)
    /\ ended \subseteq blacklist \cup expired
    /\ copy \cap expired = {}
=============================================================================
