------------------------------ MODULE Accounts ------------------------------
(***************************************************************************)
(* Accounts and what they may do: registration with or without a verified  *)
(* e-mail address, the administrators a super admin creates, the super     *)
(* admin every start of the server makes sure of, and the role checks of   *)
(* the router (AuthService, AuthRepository, AuthMiddleware).               *)
(*                                                                         *)
(* An account is made by four statements in no transaction: identity,      *)
(* provider, profile, role.  Each is a step, and a request may stop after  *)
(* any of them.  A password is always right here (see PasswordGuard) and a *)
(* token always live (see Sessions).                                       *)
(***************************************************************************)
EXTENDS Naturals, FiniteSets

CONSTANTS
    Emails, Root,  \* addresses; Root, one of them, is the configured super admin's
    MaxIdentities, \* bounds the rows of auth_identities
    Vouchers,      \* verification tokens that VerifyEmailOTP may hand out
    Workers        \* request slots

VARIABLES
    identity,   \* auth_identities with their provider, profile and roles
    verified,   \* email_verified:<voucher> in Redis
    claims,     \* access tokens issued: whose, with which roles
    job,        \* the request in each slot
    confirmed   \* history: identities whose creation was answered 201

vars == <<identity, verified, claims, job, confirmed>>

Ids == 1..MaxIdentities
None == "none"
NoRow == [email |-> None, status |-> None, deleted |-> FALSE, provider |-> FALSE,
          profile |-> FALSE, roles |-> {}, by |-> None]
Free == [pc |-> "idle", kind |-> None, email |-> None, voucher |-> None, id |-> 0]

Init ==
    /\ identity = [i \in Ids |-> NoRow]
    /\ verified = [v \in Vouchers |-> None]
    /\ claims = {}
    /\ job = [w \in Workers |-> Free]
    /\ confirmed = {}

At(w, label) == job[w].pc = label
Goto(w, label) == job' = [job EXCEPT ![w].pc = label]
Live(i) == identity[i].email # None /\ ~identity[i].deleted

\* An error, a duplicate phone number or a crash: what was stored stays
Fail(w) ==
    /\ ~At(w, "idle")
    /\ job' = [job EXCEPT ![w] = Free]
    /\ UNCHANGED <<identity, verified, claims, confirmed>>

-----------------------------------------------------------------------------
(* Role checks *)

RequireRole(c, roles) == c.roles \cap roles # {}
AdminOnly(c) == RequireRole(c, {"admin", "super_admin"})
SuperAdminOnly(c) == RequireRole(c, {"super_admin"})
IsSuperAdmin(c) == "super_admin" \in c.roles

\* The router's groups, by what is in front of them
OpenRoutes == {"auth", "orders/guest", "catalog", "discovery", "delivery-policy"}
UserRoutes == {"auth/me", "notifications", "orders", "me"}
AdminRoutes == {"admin/auth", "admin/notifications", "admin/orders", "admin/delivery-policy",
                "admin/catalog", "admin/discovery", "admin/merchant"}
SuperAdminRoutes == {"admin"}

\* The groups whose handlers a request with claims c reaches
SetupRouter(c) ==
    OpenRoutes \cup UserRoutes \cup {g \in AdminRoutes : AdminOnly(c)}
               \cup {g \in SuperAdminRoutes : SuperAdminOnly(c)}

GetUserRoles(i) == identity[i].roles

\* Mutant of getUserRolesAndPermissions: the default is not the weakest role
DefaultsToAdmin(i) == IF GetUserRoles(i) = {} THEN {"admin"} ELSE GetUserRoles(i)

getUserRolesAndPermissions(i) == IF GetUserRoles(i) = {} THEN {"user"} ELSE GetUserRoles(i)

-----------------------------------------------------------------------------
(* Beginnings *)

\* The code was right: the address is verified for an hour
VerifyEmailOTP(v, e) ==
    /\ verified[v] = None
    /\ verified' = [verified EXCEPT ![v] = e]
    /\ UNCHANGED <<identity, claims, job, confirmed>>

\* Register, with a voucher or without
Register(w, e, v) ==
    /\ At(w, "idle")
    /\ job' = [job EXCEPT ![w] = [Free EXCEPT
          !.pc = IF v = None THEN "exists" ELSE "validate",
          !.kind = "register", !.email = e, !.voucher = v]]
    /\ UNCHANGED <<identity, verified, claims, confirmed>>

ValidateVerificationToken(w) ==
    /\ At(w, "validate")
    /\ verified[job[w].voucher] = job[w].email
    /\ Goto(w, "consume")
    /\ UNCHANGED <<identity, verified, claims, confirmed>>

\* The error of the DEL is ignored, and the address is not looked up again
ConsumeToken(w) ==
    /\ At(w, "consume")
    /\ verified' \in {[verified EXCEPT ![job[w].voucher] = None], verified}
    /\ Goto(w, "identity")
    /\ UNCHANGED <<identity, claims, confirmed>>

\* A super admin's request, which the service checks once more
CreateAdmin(w, c, e) ==
    /\ At(w, "idle")
    /\ c \in claims /\ "admin" \in SetupRouter(c) /\ IsSuperAdmin(c)
    /\ job' = [job EXCEPT ![w] = [Free EXCEPT !.pc = "exists", !.kind = "admin", !.email = e]]
    /\ UNCHANGED <<identity, verified, claims, confirmed>>

\* Deleted identities count: their role rows stay
SuperAdminExists == \E i \in Ids : "super_admin" \in identity[i].roles

\* At every start of a server process
EnsureSuperAdminExists(w) ==
    /\ At(w, "idle")
    /\ ~SuperAdminExists
    /\ job' = [job EXCEPT ![w] = [Free EXCEPT !.pc = "exists", !.kind = "super_admin",
                                              !.email = Root]]
    /\ UNCHANGED <<identity, verified, claims, confirmed>>

ExistsByEmail(e) == \E i \in Ids : Live(i) /\ identity[i].email = e

CheckEmail(w) ==
    /\ At(w, "exists")
    /\ ~ExistsByEmail(job[w].email)
    /\ Goto(w, "identity")
    /\ UNCHANGED <<identity, verified, claims, confirmed>>

-----------------------------------------------------------------------------
(* The four statements *)

\* The unique index on email WHERE deleted_at IS NULL
UniqueEmail(e) == ~ExistsByEmail(e)

CreateIdentity(w) ==
    LET j == job[w]
        free == {i \in Ids : identity[i].email = None}
        i == CHOOSE n \in free : \A m \in free : n <= m
    IN
    /\ At(w, "identity")
    /\ free # {} /\ UniqueEmail(j.email)
    /\ identity' = [identity EXCEPT ![i] = [NoRow EXCEPT
          !.email = j.email, !.by = j.kind,
          !.status = IF j.kind = "register" /\ j.voucher = None
                     THEN "pending_verification" ELSE "active"]]
    /\ job' = [job EXCEPT ![w].pc = "provider", ![w].id = i]
    /\ UNCHANGED <<verified, claims, confirmed>>

CreateProvider(w) ==
    /\ At(w, "provider")
    /\ identity' = [identity EXCEPT ![job[w].id].provider = TRUE]
    /\ Goto(w, "profile")
    /\ UNCHANGED <<verified, claims, confirmed>>

\* Mutant of CreateUserProfile: its error is logged only, like the role's
CreateUserProfileLogged(w) ==
    /\ At(w, "profile")
    /\ \E ok \in BOOLEAN : identity' = [identity EXCEPT ![job[w].id].profile = ok]
    /\ Goto(w, "role")
    /\ UNCHANGED <<verified, claims, confirmed>>

CreateUserProfile(w) ==
    /\ At(w, "profile")
    /\ identity' = [identity EXCEPT ![job[w].id].profile = TRUE]
    /\ Goto(w, "role")
    /\ UNCHANGED <<verified, claims, confirmed>>

RoleOf(kind) == IF kind = "register" THEN "user" ELSE kind

\* A failure is logged only.  The creation of an administrator ends here.
AssignRoleByName(w) ==
    LET j == job[w] IN
    /\ At(w, "role")
    /\ \/ identity' = [identity EXCEPT ![j.id].roles = @ \cup {RoleOf(j.kind)}]
       \/ UNCHANGED identity
    /\ IF j.kind = "register"
       THEN Goto(w, IF j.voucher = None THEN "mail" ELSE "login") /\ UNCHANGED confirmed
       ELSE /\ job' = [job EXCEPT ![w] = Free]
            /\ confirmed' = confirmed \cup {j.id}
    /\ UNCHANGED <<verified, claims>>

\* The token for VerifyEmail, stored and mailed.  An error is logged only, and
\* another token is to be had at any time, so those that are out are not kept.
SendEmailVerification(w) ==
    /\ At(w, "mail")
    /\ Goto(w, "login")
    /\ UNCHANGED <<identity, verified, claims, confirmed>>

Token(i) == [id |-> i, roles |-> getUserRolesAndPermissions(i)]

\* Whether there is a profile to look at: no row, or a query that is not
\* answered, makes it nil, and the error is ignored
GetUserProfile(i, answered) == identity[i].profile /\ answered

\* loginWithIdentity at the end of Register.  A panic answers 500 for an account
\* that is there.
AutoLogin(w) ==
    LET i == job[w].id IN
    /\ At(w, "login")
    /\ \E answered \in BOOLEAN :
          IF GetUserProfile(i, answered)
          THEN claims' = claims \cup {Token(i)} /\ confirmed' = confirmed \cup {i}
          ELSE UNCHANGED <<claims, confirmed>>
    /\ job' = [job EXCEPT ![w] = Free]
    /\ UNCHANGED <<identity, verified>>

-----------------------------------------------------------------------------
(* Later *)

\* Whom Login lets as far as the password and the session
CanLogin(i) == Live(i) /\ identity[i].status \notin {"inactive", "suspended"}
               /\ identity[i].provider

\* A nil profile is dereferenced: that panics, after the session was opened, and
\* nobody gets its token
LoginPanics(i, answered) == CanLogin(i) /\ ~GetUserProfile(i, answered)

loginWithIdentity(i) ==
    /\ CanLogin(i)
    /\ \E answered \in BOOLEAN : ~LoginPanics(i, answered)
    /\ claims' = claims \cup {Token(i)}
    /\ UNCHANGED <<identity, verified, job, confirmed>>

\* email_verified is never written, so a new token is never refused
ResendEmailVerification(i) == Live(i)

\* One that is still live: whether it is marked as used makes no difference
VerifyEmail(i) ==
    /\ ResendEmailVerification(i)
    /\ identity' = [identity EXCEPT ![i].status = "active"]
    /\ UNCHANGED <<verified, claims, job, confirmed>>

\* Ending the sessions is best effort
AdminDeleteUser(c, i) ==
    /\ c \in claims /\ "admin/auth" \in SetupRouter(c)
    /\ Live(i)
    /\ identity' = [identity EXCEPT ![i].deleted = TRUE, ![i].status = "inactive"]
    /\ claims' \in {claims, {d \in claims : d.id # i}}
    /\ UNCHANGED <<verified, job, confirmed>>

ExpireVoucher(v) ==
    /\ verified[v] # None
    /\ verified' = [verified EXCEPT ![v] = None]
    /\ UNCHANGED <<identity, claims, job, confirmed>>

-----------------------------------------------------------------------------
(* The handlers *)

\* What a creation does once it is accepted, in the server or in EnsureSuperAdminExists
Create(w) ==
    \/ CheckEmail(w) \/ CreateIdentity(w) \/ CreateProvider(w) \/ CreateUserProfile(w)
    \/ AssignRoleByName(w) \/ Fail(w)

RegisterHandler(w) ==
    \/ \E e \in Emails, v \in Vouchers \cup {None} : Register(w, e, v)
    \/ ValidateVerificationToken(w) \/ ConsumeToken(w)
    \/ SendEmailVerification(w) \/ AutoLogin(w)

CreateAdminHandler(w) == \E c \in claims, e \in Emails : CreateAdmin(w, c, e)

VerificationHandlers ==
    \/ \E v \in Vouchers, e \in Emails : VerifyEmailOTP(v, e)
    \/ \E i \in Ids : VerifyEmail(i)

\* Of the user management, the rest only reads
UserManagementHandlers == \E c \in claims, i \in Ids : AdminDeleteUser(c, i)

Next ==
    \/ VerificationHandlers \/ UserManagementHandlers
    \/ \E v \in Vouchers : ExpireVoucher(v)
    \/ \E i \in Ids : loginWithIdentity(i)
    \/ \E w \in Workers :
          RegisterHandler(w) \/ CreateAdminHandler(w) \/ EnsureSuperAdminExists(w) \/ Create(w)

Spec == Init /\ [][Next]_vars

-----------------------------------------------------------------------------
(* Properties *)

Roles == {"user", "admin", "super_admin"}
Kinds == {None, "register", "admin", "super_admin"}
Rows == [email : Emails \cup {None}, deleted : BOOLEAN,
         status : {None, "pending_verification", "active", "inactive"},
         provider : BOOLEAN, profile : BOOLEAN, roles : SUBSET Roles, by : Kinds]
Jobs == [pc : {"idle", "validate", "consume", "exists", "identity", "provider", "profile",
               "role", "mail", "login"},
         kind : Kinds, email : Emails \cup {None}, voucher : Vouchers \cup {None},
         id : Ids \cup {0}]

TypeOK ==
    /\ identity \in [Ids -> Rows]
    /\ verified \in [Vouchers -> Emails \cup {None}]
    /\ claims \subseteq [id : Ids, roles : SUBSET Roles]
    /\ confirmed \subseteq Ids
    /\ job \in [Workers -> Jobs]

\* An administrative route (AdminOnly, SuperAdminOnly of the router) opens only
\* for tokens of identities that a super admin, or the server's start,
\* appointed, whichever creations stopped half-way and whichever identities
\* were deleted and registered again in between.
AdminsWereAppointed ==
    \A c \in claims :
       /\ SetupRouter(c) \cap AdminRoutes # {} => identity[c.id].by \in {"admin", "super_admin"}
       /\ SetupRouter(c) \cap SuperAdminRoutes # {} =>
             identity[c.id].by = "super_admin" /\ identity[c.id].email = Root

\* The nil profile that makes Login panic (loginWithIdentity ignores the error
\* of GetUserProfile) is met in an account whose creation was confirmed only
\* when the query for its profile fails: creations that stop half-way, which
\* leave accounts that panic at every login, never confirm one of those.
ConfirmedPanicOnErrorOnly ==
    \A i \in confirmed, answered \in BOOLEAN : LoginPanics(i, answered) => ~answered

-----------------------------------------------------------------------------
(* The inductive invariant behind the two *)

\* Administrative roles are had by identities created with them
Appointed(r, roles) ==
    /\ "admin" \in roles => r.by = "admin"
    /\ "super_admin" \in roles => r.by = "super_admin"

RolesFitCreation ==
    /\ \A i \in Ids : Appointed(identity[i], identity[i].roles)
    /\ \A c \in claims : Appointed(identity[c.id], c.roles)

\* The row of an address is created once; a super admin's is the configured one
RowFits(r) ==
    /\ r.email = None => r.by = None /\ ~r.profile
    /\ r.by = "super_admin" => r.email = Root

\* A request goes on with the row it has created
JobFits(rows, j) ==
    /\ j.pc # "idle" => j.kind # None /\ j.email \in Emails
    /\ j.kind = "super_admin" => j.email = Root
    /\ j.pc \in {"provider", "profile", "role", "mail", "login"} =>
          j.id \in Ids /\ rows[j.id].by = j.kind
    /\ j.pc \in {"role", "mail", "login"} => rows[j.id].profile

ConfirmedHaveProfiles == \A i \in confirmed : identity[i].profile

Inv ==
    /\ TypeOK
    /\ RolesFitCreation
    /\ \A i \in Ids : RowFits(identity[i])
    /\ \A w \in Workers : JobFits(identity, job[w])
    /\ ConfirmedHaveProfiles
=============================================================================
