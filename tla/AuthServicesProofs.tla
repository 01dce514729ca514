------------------------- MODULE AuthServicesProofs -------------------------
(***************************************************************************)
(* Safety of the services behind the login, for any number of requests:    *)
(* accounts, what guards their passwords, and the codes that prove an      *)
(* e-mail address.                                                         *)
(* A behaviour of MCServices is one of one service (component), whose own  *)
(* invariant Inv is shown to be inductive.                                 *)
(***************************************************************************)
EXTENDS MCServices, TLAPS, WellFoundedInduction, FiniteSetTheorems

\* A non-empty set of natural numbers has a least element.
LEMMA SmallestExists ==
    ASSUME NEW S, S \subseteq Nat, S # {}
    PROVE  \E n \in S : \A m \in S : n <= m
  <1> DEFINE R == {ss \in Nat \X Nat : ss[1] < ss[2]}
  <1>1. R = OpToRel(<, Nat)
    BY Zenon DEF OpToRel
  <1>2. IsWellFoundedOn(R, Nat)
    BY <1>1, NatLessThanWellFounded, Zenon
  <1> HIDE DEF R
  <1>3. PICK n \in S : \A m \in S : <<m, n>> \notin R
    BY <1>2, WFMin
  <1>4. ASSUME NEW m \in S PROVE n <= m
    <2>1. m \in Nat /\ n \in Nat
      OBVIOUS
    <2>2. m < n => <<m, n>> \in R
      BY <2>1 DEF R
    <2> QED
      BY <1>3, <2>1, <2>2
  <1> QED
    BY <1>4

\* The cardinality of the modules that count is the library's.
LEMMA GuardCardinality == \A S : Guard!Cardinality(S) = Cardinality(S)
  BY DEF Guard!Cardinality, Cardinality

-----------------------------------------------------------------------------
(* Accounts: identity is x1, verified x2, claims x3, confirmed x4 *)

\* Nobody has registered: the invariant holds at the start.
LEMMA AccountInit == Account!Init => Account!Inv
  <1> SUFFICES ASSUME Account!Init PROVE Account!Inv
    OBVIOUS
  <1> USE DEF Account!Init
  <1>1. Account!NoRow \in Account!Rows /\ Account!RowFits(Account!NoRow)
        /\ Account!NoRow.roles = {}
    BY DEF Account!NoRow, Account!Rows, Account!None, Account!Kinds, Account!RowFits
  <1>2. Account!Free \in Account!Jobs /\ \A rows : Account!JobFits(rows, Account!Free)
    BY DEF Account!Free, Account!Jobs, Account!None, Account!Kinds, Account!JobFits
  <1>3. Account!TypeOK
    BY <1>1, <1>2 DEF Account!TypeOK
  <1> QED
    BY <1>1, <1>2, <1>3 DEF Account!Inv, Account!RolesFitCreation, Account!Appointed,
                            Account!ConfirmedHaveProfiles

\* What a step may do to a row: create it, or leave its address, its creator
\* and its profile alone.
AccountRowKept(old, new) ==
    /\ new \in Account!Rows
    /\ Account!RowFits(new)
    /\ Account!Appointed(new, new.roles)
    /\ old.email # "none" =>
          /\ new.by = old.by
          /\ old.profile => new.profile

\* A step that changes rows so, and requests, tokens and confirmations in a way
\* that fits the rows, keeps the invariant.
LEMMA AccountStep ==
    ASSUME Account!Inv, x1' \in [Account!Ids -> Account!Rows],
           \A i \in Account!Ids : x1'[i] = x1[i] \/ AccountRowKept(x1[i], x1'[i]),
           x2' \in [Vouchers -> Emails \cup {"none"}],
           x3' \subseteq [id : Account!Ids, roles : SUBSET Account!Roles],
           \A c \in x3' \ x3 : Account!Appointed(x1'[c.id], c.roles),
           job' \in [Workers -> Account!Jobs],
           \A w \in Workers : job'[w] = job[w] \/ Account!JobFits(x1', job'[w]),
           x4' \subseteq Account!Ids, \A i \in x4' \ x4 : x1'[i].profile
    PROVE  Account!Inv'
  <1>1. Account!TypeOK'
    BY DEF Account!TypeOK, Account!None
  <1>2. \A i \in Account!Ids : /\ Account!RowFits(x1'[i])
                               /\ Account!Appointed(x1'[i], x1'[i].roles)
    BY DEF Account!Inv, Account!RolesFitCreation, AccountRowKept
  <1>3. \A i \in Account!Ids : x1[i].email # "none" =>
            x1'[i].by = x1[i].by /\ (x1[i].profile => x1'[i].profile)
    BY DEF AccountRowKept
  <1>4. \A i \in Account!Ids : x1[i].by # "none" \/ x1[i].profile => x1[i].email # "none"
    BY DEF Account!Inv, Account!RowFits, Account!None
  <1>5. \A c \in x3' : Account!Appointed(x1'[c.id], c.roles)
    <2> SUFFICES ASSUME NEW c \in x3, c \in x3' PROVE Account!Appointed(x1'[c.id], c.roles)
      OBVIOUS
    <2>1. Account!Appointed(x1[c.id], c.roles) /\ c.id \in Account!Ids
      BY DEF Account!Inv, Account!RolesFitCreation
    <2> QED
      BY <1>3, <1>4, <2>1 DEF Account!Appointed
  <1>6. \A w \in Workers : Account!JobFits(x1', job'[w])
    <2> SUFFICES ASSUME NEW w \in Workers, job'[w] = job[w] PROVE Account!JobFits(x1', job[w])
      OBVIOUS
    <2>1. Account!JobFits(x1, job[w]) /\ job[w] \in Account!Jobs
      BY DEF Account!Inv, Account!TypeOK
    <2> QED
      BY <1>3, <1>4, <2>1 DEF Account!JobFits, Account!None, Account!Jobs
  <1>7. \A i \in x4' : x1'[i].profile
    <2> SUFFICES ASSUME NEW i \in x4, i \in x4' PROVE x1'[i].profile
      OBVIOUS
    <2>1. x1[i].profile /\ i \in Account!Ids
      BY DEF Account!Inv, Account!ConfirmedHaveProfiles
    <2> QED
      BY <1>3, <1>4, <2>1
  <1> QED
    BY <1>1, <1>2, <1>5, <1>6, <1>7
       DEF Account!Inv, Account!RolesFitCreation, Account!ConfirmedHaveProfiles

\* A step of one request that leaves the rows, the tokens and what was confirmed.
LEMMA AccountJobStep ==
    ASSUME Account!Inv, NEW w \in Workers, NEW j \in Account!Jobs, Account!JobFits(x1, j),
           job' = [job EXCEPT ![w] = j], UNCHANGED <<x1, x3, x4>>,
           x2' \in [Vouchers -> Emails \cup {"none"}]
    PROVE  Account!Inv'
  <1>1. /\ x1' \in [Account!Ids -> Account!Rows] /\ x4' \subseteq Account!Ids
        /\ x3' \subseteq [id : Account!Ids, roles : SUBSET Account!Roles]
        /\ job' \in [Workers -> Account!Jobs]
    BY DEF Account!Inv, Account!TypeOK
  <1>2. \A v \in Workers : job'[v] = job[v] \/ Account!JobFits(x1', job'[v])
    BY DEF Account!Inv, Account!TypeOK
  <1>3. \A i \in Account!Ids : x1'[i] = x1[i]
    OBVIOUS
  <1> QED
    BY <1>1, <1>2, <1>3, AccountStep

\* A request comes in, is looked at, or ends with an error.
LEMMA AccountBegins ==
    ASSUME Account!Inv, NEW w \in Workers,
           \/ \E e \in Emails, v \in Vouchers \cup {"none"} : Account!Register(w, e, v)
           \/ \E c \in x3, e \in Emails : Account!CreateAdmin(w, c, e)
           \/ Account!EnsureSuperAdminExists(w)
           \/ Account!ValidateVerificationToken(w) \/ Account!ConsumeToken(w)
           \/ Account!CheckEmail(w) \/ Account!SendEmailVerification(w) \/ Account!Fail(w)
    PROVE  Account!Inv'
  <1>1. /\ UNCHANGED <<x1, x3, x4>>
        /\ x2' \in [Vouchers -> Emails \cup {"none"}]
    BY DEF Account!Inv, Account!TypeOK, Account!None, Account!Register, Account!CreateAdmin,
           Account!EnsureSuperAdminExists, Account!ValidateVerificationToken,
           Account!ConsumeToken, Account!CheckEmail, Account!SendEmailVerification, Account!Fail
  <1>2. Account!Free \in Account!Jobs /\ Account!JobFits(x1, Account!Free)
        /\ Account!Free.id = 0
    BY DEF Account!Free, Account!Jobs, Account!None, Account!Kinds, Account!JobFits
  <1>3. job[w] \in Account!Jobs /\ Account!JobFits(x1, job[w])
    BY DEF Account!Inv, Account!TypeOK
  <1>4. \E j \in Account!Jobs : Account!JobFits(x1, j) /\ job' = [job EXCEPT ![w] = j]
    <2>1. ASSUME NEW j \in Account!Jobs, j.pc \in {"exists", "validate"}, j.kind # "none",
                 j.email \in Emails, j.kind = "super_admin" => j.email = Root
          PROVE  Account!JobFits(x1, j)
      BY <2>1 DEF Account!JobFits, Account!None
    <2>2. CASE \E e \in Emails, v \in Vouchers \cup {"none"} : Account!Register(w, e, v)
      <3>1. PICK e \in Emails, v \in Vouchers \cup {"none"} : Account!Register(w, e, v)
        BY <2>2
      <3> DEFINE l == IF v = "none" THEN "exists" ELSE "validate"
                 j == [Account!Free EXCEPT !.pc = l, !.kind = "register", !.email = e, !.voucher = v]
      <3>2. l \in {"exists", "validate"}
        OBVIOUS
      <3>3. job' = [job EXCEPT ![w] = j]
        BY <3>1 DEF Account!Register, Account!None
      <3> HIDE DEF l
      <3>4. j \in Account!Jobs /\ j.pc = l /\ j.kind = "register" /\ j.email = e
        BY <1>2, <3>2 DEF Account!Jobs, Account!Kinds, Account!None
      <3> HIDE DEF j
      <3> QED
        BY <2>1, <3>2, <3>3, <3>4
    <2>3. ASSUME NEW e \in Emails, NEW k \in {"admin", "super_admin"}, k = "super_admin" => e = Root,
                 job' = [job EXCEPT ![w] = [Account!Free EXCEPT !.pc = "exists", !.kind = k, !.email = e]]
          PROVE  \E j \in Account!Jobs : Account!JobFits(x1, j) /\ job' = [job EXCEPT ![w] = j]
      <3> DEFINE j == [Account!Free EXCEPT !.pc = "exists", !.kind = k, !.email = e]
      <3>1. job' = [job EXCEPT ![w] = j]
        BY <2>3
      <3>2. j \in Account!Jobs /\ j.pc = "exists" /\ j.kind = k /\ j.email = e
        BY <1>2 DEF Account!Jobs, Account!Kinds, Account!None
      <3> HIDE DEF j
      <3> QED
        BY <2>1, <2>3, <3>1, <3>2
    <2>4. CASE \E l \in {"consume", "identity", "login"} :
                  /\ job' = [job EXCEPT ![w].pc = l]
                  /\ job[w].pc # "idle" /\ (l = "login" => job[w].pc = "mail")
      <3>1. PICK l \in {"consume", "identity", "login"} :
                  /\ job' = [job EXCEPT ![w].pc = l]
                  /\ job[w].pc # "idle" /\ (l = "login" => job[w].pc = "mail")
        BY <2>4
      <3> DEFINE j == [job[w] EXCEPT !.pc = l]
      <3>2. j \in Account!Jobs /\ j.pc = l /\ j.kind = job[w].kind /\ j.email = job[w].email
            /\ j.id = job[w].id
        BY <1>3 DEF Account!Jobs
      <3> HIDE DEF j
      <3>3. Account!JobFits(x1, j)
        BY <1>3, <3>1, <3>2 DEF Account!JobFits
      <3>4. job' = [job EXCEPT ![w] = j]
        BY <3>1 DEF j
      <3> QED
        BY <3>2, <3>3, <3>4
    <2>5. CASE Account!Fail(w)
      BY <1>2, <2>5 DEF Account!Fail
    <2>6. CASE Account!EnsureSuperAdminExists(w) \/ \E c \in x3, e \in Emails : Account!CreateAdmin(w, c, e)
      BY <2>3, <2>6, ServicesAssumption DEF Account!CreateAdmin, Account!EnsureSuperAdminExists
    <2> QED
      BY <2>2, <2>4, <2>5, <2>6
         DEF Account!ValidateVerificationToken, Account!ConsumeToken, Account!CheckEmail,
             Account!SendEmailVerification, Account!Goto, Account!At
  <1> QED
    BY <1>1, <1>4, AccountJobStep

\* A row is created for a new address.
LEMMA AccountCreates ==
    ASSUME Account!Inv, NEW w \in Workers, Account!CreateIdentity(w)
    PROVE  Account!Inv'
  <1> DEFINE free == {i \in Account!Ids : x1[i].email = "none"}
             i == CHOOSE n \in free : \A m \in free : n <= m
             row == [Account!NoRow EXCEPT
                       !.email = job[w].email, !.by = job[w].kind,
                       !.status = IF job[w].kind = "register" /\ job[w].voucher = "none"
                                  THEN "pending_verification" ELSE "active"]
             j == [job[w] EXCEPT !.pc = "provider", !.id = i]
  <1>1. /\ free # {} /\ job[w].pc = "identity"
        /\ x1' = [x1 EXCEPT ![i] = row]
        /\ job' = [job EXCEPT ![w] = j]
        /\ UNCHANGED <<x2, x3, x4>>
    <2>1. free # {} /\ job[w].pc = "identity" /\ UNCHANGED <<x2, x3, x4>>
      BY DEF Account!CreateIdentity, Account!At, Account!None
    <2>2. x1' = [x1 EXCEPT ![i] = row]
      BY DEF Account!CreateIdentity, Account!None
    <2>3. job' = [job EXCEPT ![w].pc = "provider", ![w].id = i]
      BY DEF Account!CreateIdentity, Account!None
    <2> HIDE DEF i, row
    <2> QED
      BY <2>1, <2>2, <2>3
  <1>2. free \subseteq Nat
    BY ServicesAssumption DEF Account!Ids
  <1>3. i \in free
    BY <1>1, <1>2, SmallestExists
  <1>4. i \in Account!Ids /\ x1[i].email = "none"
    BY <1>3
  <1>5. /\ job[w] \in Account!Jobs /\ job[w].email \in Emails
        /\ job[w].kind \in Account!Kinds \ {"none"}
        /\ job[w].kind = "super_admin" => job[w].email = Root
    BY <1>1 DEF Account!Inv, Account!TypeOK, Account!JobFits, Account!Jobs, Account!None
  <1> HIDE DEF free, i
  <1>6. Account!NoRow \in Account!Rows /\ Account!NoRow.roles = {}
    BY DEF Account!NoRow, Account!Rows, Account!None, Account!Kinds
  <1>7. row \in Account!Rows /\ row.by = job[w].kind /\ row.email = job[w].email /\ row.roles = {}
    BY <1>5, <1>6 DEF Account!Rows, Account!None
  <1>8. j \in Account!Jobs /\ j.pc = "provider" /\ j.id = i /\ j.kind = job[w].kind
        /\ j.email = job[w].email
    BY <1>4, <1>5 DEF Account!Jobs
  <1> HIDE DEF row, j
  <1>9. AccountRowKept(x1[i], row)
    BY <1>4, <1>5, <1>7, ServicesAssumption
       DEF AccountRowKept, Account!RowFits, Account!Appointed, Account!None
  <1>10. /\ x1' \in [Account!Ids -> Account!Rows] /\ x1'[i] = row
         /\ \A n \in Account!Ids \ {i} : x1'[n] = x1[n]
         /\ job' \in [Workers -> Account!Jobs] /\ job'[w] = j
         /\ \A v \in Workers \ {w} : job'[v] = job[v]
    BY <1>1, <1>4, <1>7, <1>8 DEF Account!Inv, Account!TypeOK
  <1>11. Account!JobFits(x1', j)
    BY <1>4, <1>5, <1>7, <1>8, <1>10 DEF Account!JobFits, Account!None
  <1>12. /\ x2' \in [Vouchers -> Emails \cup {"none"}]
         /\ x3' \subseteq [id : Account!Ids, roles : SUBSET Account!Roles] /\ x3' \ x3 = {}
         /\ x4' \subseteq Account!Ids /\ x4' \ x4 = {}
    BY <1>1 DEF Account!Inv, Account!TypeOK, Account!None
  <1>13. /\ \A n \in Account!Ids : x1'[n] = x1[n] \/ AccountRowKept(x1[n], x1'[n])
         /\ \A v \in Workers : job'[v] = job[v] \/ Account!JobFits(x1', job'[v])
    BY <1>9, <1>10, <1>11
  <1> QED
    BY <1>10, <1>12, <1>13, AccountStep

\* One row changes, in a way that keeps it.
LEMMA AccountRow ==
    ASSUME Account!Inv, NEW i \in Account!Ids, NEW row, AccountRowKept(x1[i], row),
           x1' = [x1 EXCEPT ![i] = row]
    PROVE  /\ x1' \in [Account!Ids -> Account!Rows] /\ x1'[i] = row
           /\ \A n \in Account!Ids : x1'[n] = x1[n] \/ AccountRowKept(x1[n], x1'[n])
  BY DEF Account!Inv, Account!TypeOK, AccountRowKept

\* What is left alone keeps its type and has nothing new.
LEMMA AccountUntouched ==
    ASSUME Account!Inv
    PROVE  /\ x1' = x1 => /\ x1' \in [Account!Ids -> Account!Rows]
                          /\ \A n \in Account!Ids : x1'[n] = x1[n]
           /\ x2' = x2 => x2' \in [Vouchers -> Emails \cup {"none"}]
           /\ x3' = x3 => /\ x3' \subseteq [id : Account!Ids, roles : SUBSET Account!Roles]
                          /\ x3' \ x3 = {}
           /\ x4' = x4 => x4' \subseteq Account!Ids /\ x4' \ x4 = {}
           /\ job' = job => /\ job' \in [Workers -> Account!Jobs]
                            /\ \A w \in Workers : job'[w] = job[w]
  BY DEF Account!Inv, Account!TypeOK, Account!None

\* The provider, the profile and the role of a new row.
LEMMA AccountCompletes ==
    ASSUME Account!Inv, NEW w \in Workers,
           \/ Account!CreateProvider(w) \/ Account!CreateUserProfile(w)
           \/ Account!AssignRoleByName(w)
    PROVE  Account!Inv'
  <1> DEFINE i == job[w].id
  <1>1. /\ job[w] \in Account!Jobs /\ job[w].kind \in Account!Kinds \ {"none"}
        /\ job[w].email \in Emails
        /\ job[w].kind = "super_admin" => job[w].email = Root
        /\ i \in Account!Ids /\ x1[i].by = job[w].kind
        /\ job[w].pc = "role" => x1[i].profile
    BY DEF Account!Inv, Account!TypeOK, Account!JobFits, Account!None, Account!Jobs,
           Account!CreateProvider, Account!CreateUserProfile, Account!AssignRoleByName, Account!At
  <1>2. /\ x1[i] \in Account!Rows /\ x1[i].email # "none"
        /\ Account!RowFits(x1[i]) /\ Account!Appointed(x1[i], x1[i].roles)
    BY <1>1 DEF Account!Inv, Account!TypeOK, Account!RowFits, Account!None,
                Account!RolesFitCreation
  <1> HIDE DEF i
  <1>3. \E row : /\ AccountRowKept(x1[i], row) /\ x1' = [x1 EXCEPT ![i] = row]
                 /\ row.by = job[w].kind
                 /\ job[w].pc # "provider" => row.profile
    <2>1. CASE Account!CreateProvider(w)
      <3> DEFINE row == [x1[i] EXCEPT !.provider = TRUE]
      <3>1. x1' = [x1 EXCEPT ![i] = row] /\ job[w].pc = "provider"
        BY <2>1 DEF Account!CreateProvider, Account!At, i
      <3>2. row \in Account!Rows /\ row.by = x1[i].by /\ row.email = x1[i].email
            /\ row.roles = x1[i].roles /\ row.profile = x1[i].profile
        BY <1>2 DEF Account!Rows
      <3> HIDE DEF row
      <3>3. AccountRowKept(x1[i], row)
        BY <1>2, <3>2 DEF AccountRowKept, Account!RowFits, Account!Appointed, Account!None
      <3> QED
        BY <1>1, <3>1, <3>2, <3>3 DEF i
    <2>2. CASE Account!CreateUserProfile(w)
      <3> DEFINE row == [x1[i] EXCEPT !.profile = TRUE]
      <3>1. x1' = [x1 EXCEPT ![i] = row]
        BY <2>2 DEF Account!CreateUserProfile, i
      <3>2. row \in Account!Rows /\ row.by = x1[i].by /\ row.email = x1[i].email
            /\ row.roles = x1[i].roles /\ row.profile
        BY <1>2 DEF Account!Rows
      <3> HIDE DEF row
      <3>3. AccountRowKept(x1[i], row)
        BY <1>2, <3>2 DEF AccountRowKept, Account!RowFits, Account!Appointed, Account!None
      <3> QED
        BY <1>1, <3>1, <3>2, <3>3 DEF i
    <2>3. CASE Account!AssignRoleByName(w) /\ x1' = x1
      <3>1. AccountRowKept(x1[i], x1[i])
        BY <1>2 DEF AccountRowKept
      <3>2. x1' = [x1 EXCEPT ![i] = x1[i]]
        BY <2>3 DEF Account!Inv, Account!TypeOK
      <3>3. job[w].pc = "role"
        BY <2>3 DEF Account!AssignRoleByName, Account!At
      <3> QED
        BY <1>1, <3>1, <3>2, <3>3 DEF i
    <2>4. CASE Account!AssignRoleByName(w) /\ x1' # x1
      <3> DEFINE r == Account!RoleOf(job[w].kind)
                 row == [x1[i] EXCEPT !.roles = @ \cup {r}]
      <3>1. x1' = [x1 EXCEPT ![i] = row] /\ job[w].pc = "role"
        BY <2>4 DEF Account!AssignRoleByName, Account!At, i
      <3>2. /\ r \in Account!Roles
            /\ r = "admin" => job[w].kind = "admin"
            /\ r = "super_admin" => job[w].kind = "super_admin"
        BY <1>1 DEF Account!RoleOf, Account!Roles, Account!Kinds, Account!None
      <3> HIDE DEF r
      <3>3. row \in Account!Rows /\ row.by = x1[i].by /\ row.email = x1[i].email
            /\ row.roles = x1[i].roles \cup {r} /\ row.profile = x1[i].profile
        BY <1>2, <3>2 DEF Account!Rows
      <3> HIDE DEF row
      <3>4. AccountRowKept(x1[i], row)
        <4>1. Account!Appointed(row, row.roles)
          BY <1>1, <1>2, <3>2, <3>3 DEF Account!Appointed, i
        <4>2. Account!RowFits(row)
          BY <1>2, <3>3 DEF Account!RowFits, Account!None
        <4> QED
          BY <3>3, <4>1, <4>2 DEF AccountRowKept
      <3> QED
        BY <1>1, <3>1, <3>3, <3>4 DEF i
    <2> QED
      BY <2>1, <2>2, <2>3, <2>4
  <1>4. PICK row : /\ AccountRowKept(x1[i], row) /\ x1' = [x1 EXCEPT ![i] = row]
                   /\ row.by = job[w].kind
                   /\ job[w].pc # "provider" => row.profile
    BY <1>3
  <1>5. /\ x1' \in [Account!Ids -> Account!Rows] /\ x1'[i] = row
        /\ \A n \in Account!Ids : x1'[n] = x1[n] \/ AccountRowKept(x1[n], x1'[n])
    BY <1>1, <1>4, AccountRow DEF i
  <1>6. \E j \in Account!Jobs : job' = [job EXCEPT ![w] = j] /\ Account!JobFits(x1', j)
    <2>1. CASE job' = [job EXCEPT ![w] = Account!Free]
      <3>1. Account!Free \in Account!Jobs /\ Account!JobFits(x1', Account!Free)
        BY DEF Account!Free, Account!Jobs, Account!None, Account!Kinds, Account!JobFits
      <3> QED
        BY <2>1, <3>1
    <2>2. CASE \E l \in {"profile", "role", "mail", "login"} :
                  job' = [job EXCEPT ![w].pc = l] /\ (l # "profile" => job[w].pc # "provider")
      <3>1. PICK l \in {"profile", "role", "mail", "login"} :
                  job' = [job EXCEPT ![w].pc = l] /\ (l # "profile" => job[w].pc # "provider")
        BY <2>2
      <3> DEFINE j == [job[w] EXCEPT !.pc = l]
      <3>2. j \in Account!Jobs /\ j.pc = l /\ j.kind = job[w].kind /\ j.email = job[w].email
            /\ j.id = i
        BY <1>1 DEF Account!Jobs, i
      <3>3. job' = [job EXCEPT ![w] = j]
        BY <3>1
      <3> HIDE DEF j
      <3>4. Account!JobFits(x1', j)
        BY <1>1, <1>4, <1>5, <3>1, <3>2 DEF Account!JobFits, Account!None, i
      <3> QED
        BY <3>2, <3>3, <3>4
    <2> QED
      BY <2>1, <2>2 DEF Account!CreateProvider, Account!CreateUserProfile,
            Account!AssignRoleByName, Account!Goto, Account!At
  <1>7. PICK j \in Account!Jobs : job' = [job EXCEPT ![w] = j] /\ Account!JobFits(x1', j)
    BY <1>6
  <1>8. /\ job' \in [Workers -> Account!Jobs]
        /\ \A v \in Workers : job'[v] = job[v] \/ Account!JobFits(x1', job'[v])
    BY <1>7 DEF Account!Inv, Account!TypeOK
  <1>9. /\ x4' \subseteq Account!Ids
        /\ \A n \in x4' \ x4 : x1'[n].profile
    <2>1. x4' = x4 \/ (x4' = x4 \cup {i} /\ job[w].pc # "provider")
      BY DEF Account!CreateProvider, Account!CreateUserProfile, Account!AssignRoleByName,
             Account!At, i
    <2>2. x4 \subseteq Account!Ids /\ i \in Account!Ids
      BY <1>1 DEF Account!Inv, Account!TypeOK, i
    <2> QED
      BY <1>4, <1>5, <2>1, <2>2
  <1>10. /\ x2' \in [Vouchers -> Emails \cup {"none"}]
         /\ x3' \subseteq [id : Account!Ids, roles : SUBSET Account!Roles] /\ x3' \ x3 = {}
    BY AccountUntouched DEF Account!CreateProvider, Account!CreateUserProfile,
       Account!AssignRoleByName
  <1> QED
    BY <1>5, <1>8, <1>9, <1>10, AccountStep

\* A token carries the roles of its row, or the weakest one.
LEMMA AccountToken ==
    ASSUME Account!Inv, NEW i \in Account!Ids
    PROVE  /\ Account!Token(i) \in [id : Account!Ids, roles : SUBSET Account!Roles]
           /\ Account!Token(i).id = i
           /\ Account!Appointed(x1[i], Account!Token(i).roles)
  <1>1. x1[i].roles \in SUBSET Account!Roles /\ Account!Appointed(x1[i], x1[i].roles)
    BY DEF Account!Inv, Account!TypeOK, Account!RolesFitCreation, Account!Rows
  <1>2. {"user"} \in SUBSET Account!Roles /\ Account!Appointed(x1[i], {"user"})
    BY DEF Account!Roles, Account!Appointed
  <1>3. PICK roles \in SUBSET Account!Roles :
           Account!Appointed(x1[i], roles) /\ Account!Token(i) = [id |-> i, roles |-> roles]
    BY <1>1, <1>2 DEF Account!Token, Account!getUserRolesAndPermissions, Account!GetUserRoles
  <1> QED
    BY <1>3

\* A registration ends with a login, and identities log in later.
LEMMA AccountLogin ==
    ASSUME Account!Inv,
           \/ \E w \in Workers : Account!AutoLogin(w)
           \/ \E i \in Account!Ids : Account!loginWithIdentity(i)
    PROVE  Account!Inv'
  <1>1. PICK i \in Account!Ids :
           /\ x3' \in {x3, x3 \cup {Account!Token(i)}}
           /\ x1' = x1 /\ x2' = x2
           /\ x4' = x4 \/ (x4' = x4 \cup {i} /\ x1[i].profile)
           /\ \/ job' = job
              \/ \E w \in Workers : job' = [job EXCEPT ![w] = Account!Free]
    BY DEF Account!AutoLogin, Account!GetUserProfile, Account!loginWithIdentity,
           Account!Inv, Account!TypeOK, Account!JobFits, Account!At
  <1>2. Account!Free \in Account!Jobs /\ Account!JobFits(x1', Account!Free)
    BY DEF Account!Free, Account!Jobs, Account!None, Account!Kinds, Account!JobFits
  <1>3. /\ job' \in [Workers -> Account!Jobs]
        /\ \A v \in Workers : job'[v] = job[v] \/ Account!JobFits(x1', job'[v])
    BY <1>1, <1>2 DEF Account!Inv, Account!TypeOK
  <1>4. /\ x3' \subseteq [id : Account!Ids, roles : SUBSET Account!Roles]
        /\ \A c \in x3' \ x3 : Account!Appointed(x1'[c.id], c.roles)
    <2>1. x3 \subseteq [id : Account!Ids, roles : SUBSET Account!Roles]
      BY DEF Account!Inv, Account!TypeOK
    <2> QED
      BY <1>1, <2>1, AccountToken
  <1>5. x4' \subseteq Account!Ids /\ \A n \in x4' \ x4 : x1'[n].profile
    BY <1>1 DEF Account!Inv, Account!TypeOK
  <1> QED
    BY <1>1, <1>3, <1>4, <1>5, AccountUntouched, AccountStep

\* An account is activated or deleted, a voucher handed out or forgotten.
LEMMA AccountLater ==
    ASSUME Account!Inv,
           \/ \E i \in Account!Ids : Account!VerifyEmail(i)
           \/ \E c \in x3, i \in Account!Ids : Account!AdminDeleteUser(c, i)
           \/ \E v \in Vouchers, e \in Emails : Account!VerifyEmailOTP(v, e)
           \/ \E v \in Vouchers : Account!ExpireVoucher(v)
    PROVE  Account!Inv'
  <1>1. /\ x2' \in [Vouchers -> Emails \cup {"none"}]
        /\ x3' \subseteq x3 /\ x4' = x4 /\ job' = job
    BY DEF Account!Inv, Account!TypeOK, Account!None, Account!VerifyEmail,
           Account!AdminDeleteUser, Account!VerifyEmailOTP, Account!ExpireVoucher
  <1> DEFINE kept == /\ x1' \in [Account!Ids -> Account!Rows]
                     /\ \A n \in Account!Ids :
                           x1'[n] = x1[n] \/ AccountRowKept(x1[n], x1'[n])
  <1>2. kept
    <2>1. ASSUME NEW i \in Account!Ids, NEW d \in BOOLEAN, NEW st \in {"active", "inactive"},
                 Account!Live(i),
                 x1' = [x1 EXCEPT ![i] = [x1[i] EXCEPT !.deleted = d, !.status = st]]
          PROVE  kept
      <3> DEFINE row == [x1[i] EXCEPT !.deleted = d, !.status = st]
      <3>1. /\ x1[i] \in Account!Rows /\ Account!RowFits(x1[i])
            /\ Account!Appointed(x1[i], x1[i].roles)
        BY DEF Account!Inv, Account!TypeOK, Account!RolesFitCreation
      <3>2. row \in Account!Rows /\ row.by = x1[i].by /\ row.email = x1[i].email
            /\ row.roles = x1[i].roles /\ row.profile = x1[i].profile
        BY <3>1 DEF Account!Rows
      <3>3. x1' = [x1 EXCEPT ![i] = row]
        BY <2>1
      <3> HIDE DEF row
      <3>4. AccountRowKept(x1[i], row)
        BY <3>1, <3>2 DEF AccountRowKept, Account!RowFits, Account!Appointed, Account!None
      <3> QED
        BY <3>3, <3>4, AccountRow
    <2>2. ASSUME NEW i \in Account!Ids, Account!VerifyEmail(i)
          PROVE  kept
      <3>1. x1[i] \in Account!Rows
        BY DEF Account!Inv, Account!TypeOK
      <3>2. PICK d \in BOOLEAN : d = x1[i].deleted
        BY <3>1 DEF Account!Rows
      <3>3. [x1[i] EXCEPT !.status = "active"] = [x1[i] EXCEPT !.deleted = d, !.status = "active"]
        BY <3>1, <3>2 DEF Account!Rows
      <3> QED
        BY <2>1, <2>2, <3>3 DEF Account!VerifyEmail, Account!ResendEmailVerification
    <2>3. ASSUME NEW c \in x3, NEW i \in Account!Ids, Account!AdminDeleteUser(c, i)
          PROVE  kept
      BY <2>1, <2>3 DEF Account!AdminDeleteUser
    <2>4. CASE x1' = x1
      BY <2>4, AccountUntouched
    <2> QED
      BY <2>2, <2>3, <2>4 DEF Account!VerifyEmailOTP, Account!ExpireVoucher
  <1>3. x3' \subseteq [id : Account!Ids, roles : SUBSET Account!Roles] /\ x3' \ x3 = {}
    BY <1>1 DEF Account!Inv, Account!TypeOK
  <1> QED
    BY <1>1, <1>2, <1>3, AccountUntouched, AccountStep

\* Every step of Accounts keeps the invariant.
LEMMA AccountNext == Account!Inv /\ [Account!Next]_(Account!vars) => Account!Inv'
  <1> SUFFICES ASSUME Account!Inv, [Account!Next]_(Account!vars) PROVE Account!Inv'
    OBVIOUS
  <1>1. CASE UNCHANGED Account!vars
    BY <1>1, AccountUntouched, AccountStep DEF Account!vars
  <1>2. ASSUME NEW w \in Workers,
               \/ Account!RegisterHandler(w) \/ Account!CreateAdminHandler(w)
               \/ Account!EnsureSuperAdminExists(w) \/ Account!Create(w)
        PROVE  Account!Inv'
    BY <1>2, AccountBegins, AccountCreates, AccountCompletes, AccountLogin
       DEF Account!RegisterHandler, Account!CreateAdminHandler, Account!Create, Account!None
  <1>3. CASE \/ Account!VerificationHandlers \/ Account!UserManagementHandlers
             \/ \E v \in Vouchers : Account!ExpireVoucher(v)
             \/ \E i \in Account!Ids : Account!loginWithIdentity(i)
    BY <1>3, AccountLater, AccountLogin
       DEF Account!VerificationHandlers, Account!UserManagementHandlers
  <1> QED
    BY <1>1, <1>2, <1>3 DEF Account!Next

\* The invariant of Accounts in every behaviour of the services.
THEOREM AccountSafe == Spec => [](component = "accounts" => Account!Inv)
  <1>1. Init => (component = "accounts" => Account!Inv)
    BY AccountInit DEF Init
  <1>2. (component = "accounts" => Account!Inv) /\ [Next]_vars
            => (component = "accounts" => Account!Inv)'
    <2> SUFFICES ASSUME component = "accounts" => Account!Inv, [Next]_vars,
                        component' = "accounts"
                 PROVE  Account!Inv'
      OBVIOUS
    <2>1. component = "accounts" /\ [Account!Next]_(Account!vars)
      BY DEF Next, vars, Account!vars
    <2> QED
      BY <2>1, AccountNext
  <1> QED
    BY <1>1, <1>2, PTL DEF Spec

\* Administrative routes open only to the tokens of identities that a super
\* admin, or the start of a server, appointed: creations of accounts stop
\* half-way and interleave as they like (AdminOnly, SuperAdminOnly,
\* getUserRolesAndPermissions).
THEOREM OnlyAppointedAdmins == Spec => []AdminsWereAppointed
  <1>1. (component = "accounts" => Account!Inv) => AdminsWereAppointed
    <2> SUFFICES ASSUME component = "accounts", Account!Inv, NEW c \in x3
                 PROVE  /\ Account!SetupRouter(c) \cap Account!AdminRoutes # {} =>
                              x1[c.id].by \in {"admin", "super_admin"}
                        /\ Account!SetupRouter(c) \cap Account!SuperAdminRoutes # {} =>
                              x1[c.id].by = "super_admin" /\ x1[c.id].email = Root
      BY DEF AdminsWereAppointed, Account!AdminsWereAppointed
    <2>1. Account!SetupRouter(c) \cap Account!AdminRoutes # {} => Account!AdminOnly(c)
      BY DEF Account!SetupRouter, Account!AdminRoutes, Account!OpenRoutes,
             Account!UserRoutes, Account!SuperAdminRoutes
    <2>2. Account!SetupRouter(c) \cap Account!SuperAdminRoutes # {} => Account!SuperAdminOnly(c)
      BY DEF Account!SetupRouter, Account!AdminRoutes, Account!OpenRoutes,
             Account!UserRoutes, Account!SuperAdminRoutes
    <2>3. Account!Appointed(x1[c.id], c.roles) /\ Account!RowFits(x1[c.id])
      BY DEF Account!Inv, Account!TypeOK, Account!RolesFitCreation
    <2>4. /\ Account!AdminOnly(c) => x1[c.id].by \in {"admin", "super_admin"}
          /\ Account!SuperAdminOnly(c) => x1[c.id].by = "super_admin"
      BY <2>3 DEF Account!AdminOnly, Account!SuperAdminOnly, Account!RequireRole,
                  Account!Appointed
    <2> QED
      BY <2>1, <2>2, <2>3, <2>4 DEF Account!RowFits
  <1> QED
    BY <1>1, AccountSafe, PTL

\* An account whose creation was confirmed has a profile: Login, which ignores
\* the error of GetUserProfile, meets a nil one in it only when the query fails.
THEOREM ConfirmedPanicsAreErrors == Spec => []ConfirmedPanicOnErrorOnly
  <1>1. (component = "accounts" => Account!Inv) => ConfirmedPanicOnErrorOnly
    BY DEF ConfirmedPanicOnErrorOnly, Account!ConfirmedPanicOnErrorOnly,
           Account!LoginPanics, Account!GetUserProfile, Account!Inv,
           Account!ConfirmedHaveProfiles
  <1> QED
    BY <1>1, AccountSafe, PTL

-----------------------------------------------------------------------------
(* Logins: counter is x1, failed x2, locked x3, tries x4, lost x5 *)

GuardLabels == {"idle", "expire", "find", "compare", "miss", "success", "reset"}

\* The invariant holds at the start.
LEMMA GuardInit == Guard!Init => Guard!Inv
  <1> SUFFICES ASSUME Guard!Init PROVE Guard!Inv
    OBVIOUS
  <1> USE DEF Guard!Init
  <1>1. Guard!NoCounter \in Guard!Counters /\ Guard!NoCounter.n = 0
    BY ServicesAssumption DEF Guard!NoCounter, Guard!Counters
  <1>2. Guard!TypeOK
    <2>1. x2 \in 0..LockAfter /\ x4 \in Nat
      BY ServicesAssumption
    <2>2. x3 \in BOOLEAN /\ x5 \in BOOLEAN
      OBVIOUS
    <2> QED
      BY <1>1, <2>1, <2>2 DEF Guard!TypeOK
  <1>3. Guard!Guessing = {}
    BY DEF Guard!Guessing
  <1>4. Guard!TriesBounded
    <2>1. /\ Guard!Cardinality(Guard!Guessing) = 0 /\ x4 = 0
          /\ Guard!Cardinality(Workers) \in Nat /\ LockAfter \in Nat \ {0}
      BY <1>3, FS_EmptySet, FS_CardinalityType, GuardCardinality, ServicesAssumption
    <2> QED
      BY <2>1 DEF Guard!TriesBounded
  <1> QED
    BY <1>1, <1>2, <1>4, ServicesAssumption DEF Guard!Inv, Guard!LockFits, Guard!CounterEnds

\* What a step may do to the failures and the lock, and to the requests that
\* passed it: nothing, or fewer requests; open the lock; record one failure.
GuardRowSteps ==
    \/ /\ UNCHANGED <<x2, x3, x4>>
       /\ Guard!Guessing' \subseteq Guard!Guessing \/ ~x3
    \/ x2' \in {x2, 0} /\ x3' = FALSE /\ x4' = 0
    \/ /\ x2' = IF x2 < LockAfter THEN x2 + 1 ELSE x2
       /\ \/ x3' = TRUE /\ x2 + 1 >= LockAfter
          \/ x3' = FALSE /\ x2 + 1 < LockAfter
       /\ x4' = x4 + 1
       /\ \E w \in Guard!Guessing : Guard!Guessing' = Guard!Guessing \ {w}

\* Such a step keeps the row typed and the tries bounded.
LEMMA GuardTries ==
    ASSUME Guard!Inv, GuardRowSteps
    PROVE  /\ x2' \in 0..LockAfter /\ x3' \in BOOLEAN /\ x4' \in Nat
           /\ Guard!LockFits(x2', x3', x4')
           /\ Guard!TriesBounded'
  <1>1. LockAfter \in Nat \ {0} /\ x2 \in 0..LockAfter /\ x4 \in Nat
    BY ServicesAssumption DEF Guard!Inv, Guard!TypeOK
  <1>2. x3 \in BOOLEAN /\ x3' \in BOOLEAN
    BY DEF Guard!Inv, Guard!TypeOK, GuardRowSteps
  <1>3. x2' \in 0..LockAfter /\ x4' \in Nat
    BY <1>1 DEF GuardRowSteps
  <1>4. /\ x3 => x2 = LockAfter
        /\ ~x3 => x4 <= LockAfter - 1 /\ (x4 = 0 \/ (x4 <= x2 /\ x2 < LockAfter))
    BY <1>1, ServicesAssumption DEF Guard!Inv, Guard!LockFits
  <1>5. /\ x3' => x2' = LockAfter
        /\ ~x3' => x4' <= LockAfter - 1 /\ (x4' = 0 \/ (x4' <= x2' /\ x2' < LockAfter))
    <2>1. CASE UNCHANGED <<x2, x3, x4>>
      BY <1>4, <2>1
    <2>2. CASE x2' \in {x2, 0} /\ x3' = FALSE /\ x4' = 0
      BY <1>1, <2>2
    <2>3. CASE /\ x2' = IF x2 < LockAfter THEN x2 + 1 ELSE x2
               /\ \/ x3' = TRUE /\ x2 + 1 >= LockAfter
                  \/ x3' = FALSE /\ x2 + 1 < LockAfter
               /\ x4' = x4 + 1
      <3>1. CASE x3
        BY <1>1, <1>4, <2>3, <3>1
      <3>2. CASE ~x3
        BY <1>1, <1>4, <2>3, <3>2
      <3> QED
        BY <3>1, <3>2
    <2> QED
      BY <2>1, <2>2, <2>3 DEF GuardRowSteps
  <1>6. Guard!Guessing \subseteq Workers /\ Guard!Guessing' \subseteq Workers
    BY DEF Guard!Guessing
  <1> DEFINE n == Cardinality(Guard!Guessing)
             m == Cardinality(Guard!Guessing')
             all == Cardinality(Workers)
  <1>7. /\ n \in Nat /\ m \in Nat /\ all \in Nat /\ m <= all
        /\ IsFiniteSet(Guard!Guessing)
        /\ Guard!Guessing' \subseteq Guard!Guessing => m <= n
    BY <1>6, FS_Subset, FS_CardinalityType, ServicesAssumption
  <1>8. ASSUME NEW w \in Guard!Guessing, Guard!Guessing' = Guard!Guessing \ {w}
        PROVE  m = n - 1
    BY <1>7, <1>8, FS_RemoveElement
  <1>9. x4 + n <= LockAfter - 1 + all
    BY GuardCardinality DEF Guard!Inv, Guard!TriesBounded
  <1> HIDE DEF n, m, all
  <1>10. x4' + m <= LockAfter - 1 + all
    <2>1. CASE x4' <= LockAfter - 1
      <3>1. /\ x4' \in Int /\ m \in Int /\ all \in Int /\ LockAfter - 1 \in Int
            /\ m <= all
        BY <1>1, <1>3, <1>7
      <3> QED
        BY <2>1, <3>1
    <2>2. CASE UNCHANGED <<x2, x3, x4>> /\ Guard!Guessing' \subseteq Guard!Guessing
      BY <1>1, <1>7, <1>9, <2>2
    <2>3. CASE x4' = x4 + 1 /\ m = n - 1
      BY <1>1, <1>7, <1>9, <2>3
    <2> QED
      BY <1>5, <1>8, <2>1, <2>2, <2>3 DEF GuardRowSteps
  <1> QED
    BY <1>2, <1>3, <1>5, <1>10, GuardCardinality
       DEF Guard!LockFits, Guard!TriesBounded, m, all

\* What a step of a request that goes on at l does to the login counter: one
\* without a TTL was there before, or has its EXPIRE next, or lost it.
GuardCounterSteps(w, l) ==
    /\ x1' \in Guard!Counters /\ x5' \in BOOLEAN
    /\ x1'.n > 0 /\ ~x1'.ttl =>
          \/ x5'
          \/ l = "expire"
          \/ x1.n > 0 /\ ~x1.ttl /\ x5' = x5 /\ job[w] # "expire"

\* A step that changes one request so keeps the invariant.
LEMMA GuardStep ==
    ASSUME Guard!Inv, NEW w \in Workers, NEW l \in GuardLabels, Guard!Goto(w, l),
           GuardRowSteps, GuardCounterSteps(w, l)
    PROVE  Guard!Inv'
  <1>1. job \in [Workers -> GuardLabels] /\ Guard!CounterEnds
    BY DEF Guard!Inv, Guard!TypeOK, GuardLabels
  <1>2. /\ job' \in [Workers -> GuardLabels] /\ job'[w] = l
        /\ \A v \in Workers \ {w} : job'[v] = job[v]
    BY <1>1 DEF Guard!Goto
  <1>3. Guard!TypeOK'
    BY <1>2, GuardTries DEF Guard!TypeOK, GuardCounterSteps, GuardLabels
  <1>4. Guard!CounterEnds'
    <2>1. ASSUME NEW v \in Workers, job[v] = "expire", job[w] # "expire"
          PROVE  job'[v] = "expire"
      BY <1>2, <2>1
    <2> QED
      BY <1>1, <1>2, <2>1 DEF Guard!CounterEnds, GuardCounterSteps, Guard!At
  <1> QED
    BY <1>3, <1>4, GuardTries DEF Guard!Inv

\* A step of one request that records nothing: its next label passes the lock's
\* check only where the row is not locked.
LEMMA GuardRowKept ==
    ASSUME Guard!Inv, NEW w \in Workers, NEW l \in GuardLabels, Guard!Goto(w, l),
           UNCHANGED <<x2, x3, x4>>,
           l \in {"compare", "miss"} => ~x3 \/ job[w] \in {"compare", "miss"}
    PROVE  GuardRowSteps
  BY DEF Guard!Inv, Guard!TypeOK, Guard!Guessing, GuardRowSteps, Guard!Goto

\* A counter that a step leaves alone it changes in no wrong way.
LEMMA GuardCounterKept ==
    ASSUME Guard!Inv, NEW w \in Workers, NEW l, x1' = x1, x5' = x5, job[w] # "expire"
    PROVE  GuardCounterSteps(w, l)
  <1>1. x1' \in Guard!Counters /\ x5' \in BOOLEAN
    BY DEF Guard!Inv, Guard!TypeOK
  <1>2. x1'.n > 0 /\ ~x1'.ttl => x1.n > 0 /\ ~x1.ttl
    OBVIOUS
  <1> QED
    BY <1>1, <1>2 DEF GuardCounterSteps

\* The attempt is counted, and a first one gets its EXPIRE, unless that is lost.
LEMMA GuardCounted ==
    ASSUME Guard!Inv, NEW w \in Workers, Guard!CheckLoginAttempt(w) \/ Guard!SetExpiry(w)
    PROVE  Guard!Inv'
  <1>1. x1 \in Guard!Counters /\ x5 \in BOOLEAN
    BY DEF Guard!Inv, Guard!TypeOK
  <1>2. UNCHANGED <<x2, x3, x4>>
    BY DEF Guard!CheckLoginAttempt, Guard!SetExpiry, Guard!row
  <1>3. ASSUME NEW l \in {"idle", "expire", "find"}, Guard!Goto(w, l), GuardCounterSteps(w, l)
        PROVE  Guard!Inv'
    <2>1. l \in GuardLabels
      BY DEF GuardLabels
    <2> QED
      BY <1>2, <1>3, <2>1, GuardRowKept, GuardStep
  <1>4. CASE Guard!CheckLoginAttempt(w)
    <2> DEFINE n == Guard!Incr(x1.n)
               l == IF n = 1 THEN "expire" ELSE IF n > LoginLimit THEN "idle" ELSE "find"
    <2>1. /\ job[w] = "idle" /\ x1' = [x1 EXCEPT !.n = n]
          /\ \/ Guard!Goto(w, l) /\ x5' = x5
             \/ Guard!Goto(w, "idle") /\ x5' = (x5 \/ n = 1)
      BY <1>4 DEF Guard!CheckLoginAttempt, Guard!At
    <2>2. n \in 0..(LoginLimit + 1) /\ n > 0 /\ (n # 1 => x1.n > 0)
      BY <1>1, ServicesAssumption DEF Guard!Incr, Guard!Counters
    <2>3. l \in {"expire", "find", "idle"} /\ (n = 1 => l = "expire")
      OBVIOUS
    <2>4. x1' \in Guard!Counters /\ x1'.n = n /\ x1'.ttl = x1.ttl
      BY <1>1, <2>1, <2>2 DEF Guard!Counters
    <2> HIDE DEF n, l
    <2>5. CASE Guard!Goto(w, l) /\ x5' = x5
      <3>1. GuardCounterSteps(w, l)
        BY <1>1, <2>1, <2>2, <2>3, <2>4, <2>5 DEF GuardCounterSteps
      <3> QED
        BY <1>3, <2>3, <2>5, <3>1
    <2>6. CASE Guard!Goto(w, "idle") /\ x5' = (x5 \/ n = 1)
      <3> DEFINE first == n = 1
      <3>1. x5' = (x5 \/ first)
        BY <2>6
      <3>2. first => x5'
        BY <3>1
      <3>3. ~first => x5' = x5
        BY <1>1, <3>1
      <3>4. x5' \in BOOLEAN
        BY <3>1
      <3> HIDE DEF first
      <3>5. ~first => x1.n > 0
        BY <2>2 DEF first
      <3>6. GuardCounterSteps(w, "idle")
        BY <2>1, <2>4, <3>2, <3>3, <3>4, <3>5 DEF GuardCounterSteps
      <3> QED
        BY <1>3, <2>6, <3>6
    <2> QED
      BY <2>1, <2>5, <2>6
  <1>5. CASE Guard!SetExpiry(w)
    <2>1. GuardCounterSteps(w, "find")
      <3>1. CASE x1' = x1 /\ x5' = TRUE
        BY <1>1, <3>1 DEF GuardCounterSteps
      <3>2. CASE x1' = [x1 EXCEPT !.ttl = x1.n > 0] /\ x5' = x5
        <4> DEFINE alive == x1.n > 0
        <4>1. x1' = [x1 EXCEPT !.ttl = alive] /\ alive \in BOOLEAN
          BY <3>2
        <4> HIDE DEF alive
        <4>2. x1' \in Guard!Counters /\ x1'.n = x1.n /\ x1'.ttl = alive
          BY <1>1, <4>1 DEF Guard!Counters
        <4> QED
          BY <1>1, <3>2, <4>2 DEF GuardCounterSteps, alive
      <3> QED
        BY <1>5, <3>1, <3>2 DEF Guard!SetExpiry
    <2> QED
      BY <1>3, <1>5, <2>1 DEF Guard!SetExpiry
  <1> QED
    BY <1>4, <1>5

\* A guess passes the lock or not, is right or wrong, and an error ends it.
LEMMA GuardGuesses ==
    ASSUME Guard!Inv, NEW w \in Workers,
           Guard!FindIdentity(w) \/ Guard!Compare(w) \/ Guard!Fail(w)
    PROVE  Guard!Inv'
  <1>1. /\ UNCHANGED <<x1, x2, x3, x4, x5>> /\ job[w] # "expire"
    BY DEF Guard!FindIdentity, Guard!Compare, Guard!Fail, Guard!row, Guard!redis, Guard!At
  <1>2. PICK l \in GuardLabels :
            /\ Guard!Goto(w, l)
            /\ l \in {"compare", "miss"} => ~x3 \/ job[w] \in {"compare", "miss"}
    BY DEF Guard!FindIdentity, Guard!Compare, Guard!Fail, Guard!NotLocked, Guard!At,
           GuardLabels
  <1> QED
    BY <1>1, <1>2, GuardRowKept, GuardCounterKept, GuardStep

\* A failure is recorded, or its record is lost.
LEMMA GuardFailure ==
    ASSUME Guard!Inv, NEW w \in Workers, Guard!IncrementFailedLoginAttempts(w)
    PROVE  Guard!Inv'
  <1>1. /\ job \in [Workers -> GuardLabels] /\ job[w] = "miss" /\ Guard!Goto(w, "idle")
        /\ x1' = x1 /\ x5' = x5 /\ "idle" \in GuardLabels
    BY DEF Guard!Inv, Guard!TypeOK, Guard!IncrementFailedLoginAttempts, Guard!At,
           Guard!redis, GuardLabels
  <1>2. GuardRowSteps
    <2>1. CASE UNCHANGED <<x2, x3, x4>>
      BY <1>1, <2>1, GuardRowKept
    <2>2. CASE /\ x2' = IF x2 < LockAfter THEN x2 + 1 ELSE x2
               /\ x3' = (x2 + 1 >= LockAfter)
               /\ x4' = x4 + 1
      <3>1. w \in Guard!Guessing /\ Guard!Guessing' = Guard!Guessing \ {w}
        BY <1>1 DEF Guard!Guessing, Guard!Goto
      <3>2. \/ x3' = TRUE /\ x2 + 1 >= LockAfter
            \/ x3' = FALSE /\ x2 + 1 < LockAfter
        <4>1. x2 \in Nat /\ LockAfter \in Nat
          BY ServicesAssumption DEF Guard!Inv, Guard!TypeOK
        <4> DEFINE last == x2 + 1 >= LockAfter
        <4>2. x3' = last /\ last \in BOOLEAN
          BY <2>2
        <4>3. last \/ x2 + 1 < LockAfter
          BY <4>1
        <4> HIDE DEF last
        <4>4. (x3' = TRUE /\ last) \/ (x3' = FALSE /\ ~last)
          BY <4>2
        <4> QED
          BY <4>3, <4>4 DEF last
      <3> QED
        BY <2>2, <3>1, <3>2 DEF GuardRowSteps
    <2> QED
      BY <2>1, <2>2 DEF Guard!IncrementFailedLoginAttempts, Guard!row
  <1> QED
    BY <1>1, <1>2, GuardCounterKept, GuardStep

\* A login whose password was right takes failures, lock and counter back.
LEMMA GuardSuccess ==
    ASSUME Guard!Inv, NEW w \in Workers,
           Guard!UpdateIdentityLastLogin(w) \/ Guard!ResetLoginAttempts(w)
    PROVE  Guard!Inv'
  <1>1. CASE Guard!UpdateIdentityLastLogin(w)
    <2>1. /\ job[w] # "expire" /\ Guard!Goto(w, "reset") /\ x1' = x1 /\ x5' = x5
          /\ "reset" \in GuardLabels
          /\ UNCHANGED <<x2, x3, x4>> \/ (x2' = 0 /\ x3' = FALSE /\ x4' = 0)
      BY <1>1 DEF Guard!UpdateIdentityLastLogin, Guard!At, Guard!row, Guard!redis,
                  GuardLabels
    <2>2. GuardRowSteps
      BY <2>1, GuardRowKept DEF GuardRowSteps
    <2> QED
      BY <2>1, <2>2, GuardCounterKept, GuardStep
  <1>2. CASE Guard!ResetLoginAttempts(w)
    <2>1. /\ job[w] # "expire" /\ Guard!Goto(w, "idle") /\ x5' = x5
          /\ "idle" \in GuardLabels /\ UNCHANGED <<x2, x3, x4>>
          /\ x1' = x1 \/ x1' = Guard!NoCounter
      BY <1>2 DEF Guard!ResetLoginAttempts, Guard!At, Guard!row, GuardLabels
    <2>2. GuardCounterSteps(w, "idle")
      <3>1. Guard!NoCounter \in Guard!Counters /\ Guard!NoCounter.n = 0
        BY ServicesAssumption DEF Guard!NoCounter, Guard!Counters
      <3>2. x5' \in BOOLEAN
        BY <2>1 DEF Guard!Inv, Guard!TypeOK
      <3>3. x1' = Guard!NoCounter => GuardCounterSteps(w, "idle")
        BY <3>1, <3>2 DEF GuardCounterSteps
      <3> QED
        BY <2>1, <3>3, GuardCounterKept
    <2> QED
      BY <2>1, <2>2, GuardRowKept, GuardStep
  <1> QED
    BY <1>1, <1>2

\* Keys and locks end while requests stand still.
LEMMA GuardBetween ==
    ASSUME Guard!Inv, Guard!WindowEnds \/ Guard!LockEnds \/ UNCHANGED Guard!vars
    PROVE  Guard!Inv'
  <1> USE DEF Guard!row, Guard!redis, Guard!WindowEnds, Guard!LockEnds, Guard!vars
  <1>1. UNCHANGED <<job, x5>>
    OBVIOUS
  <1>2. Guard!NoCounter \in Guard!Counters /\ Guard!NoCounter.n = 0
    BY ServicesAssumption DEF Guard!NoCounter, Guard!Counters
  <1>3. x1' = Guard!NoCounter \/ x1' = x1
    OBVIOUS
  <1>4. GuardRowSteps
    <2>1. Guard!Guessing' = Guard!Guessing
      BY <1>1 DEF Guard!Guessing
    <2>2. \/ UNCHANGED <<x2, x3, x4>>
          \/ x2' = x2 /\ x3' = FALSE /\ x4' = 0
      OBVIOUS
    <2> QED
      BY <2>1, <2>2 DEF GuardRowSteps
  <1> HIDE DEF Guard!WindowEnds, Guard!LockEnds, Guard!vars
  <1>5. Guard!TypeOK'
    BY <1>1, <1>2, <1>3, <1>4, GuardTries DEF Guard!Inv, Guard!TypeOK
  <1>6. Guard!CounterEnds'
    BY <1>1, <1>2, <1>3 DEF Guard!Inv, Guard!CounterEnds, Guard!At
  <1> QED
    BY <1>4, <1>5, <1>6, GuardTries DEF Guard!Inv

\* Every step of PasswordGuard keeps the invariant.
LEMMA GuardNext == Guard!Inv /\ [Guard!Next]_(Guard!vars) => Guard!Inv'
  <1> SUFFICES ASSUME Guard!Inv, [Guard!Next]_(Guard!vars) PROVE Guard!Inv'
    OBVIOUS
  <1>1. ASSUME NEW w \in Workers, Guard!LoginHandler(w)
        PROVE  Guard!Inv'
    BY <1>1, GuardCounted, GuardGuesses, GuardFailure, GuardSuccess
       DEF Guard!LoginHandler, Guard!Login
  <1> QED
    BY <1>1, GuardBetween DEF Guard!Next

\* The invariant of PasswordGuard in every behaviour of the services.
THEOREM GuardSafe == Spec => [](component = "logins" => Guard!Inv)
  <1>1. Init => (component = "logins" => Guard!Inv)
    BY GuardInit DEF Init
  <1>2. (component = "logins" => Guard!Inv) /\ [Next]_vars
            => (component = "logins" => Guard!Inv)'
    <2> SUFFICES ASSUME component = "logins" => Guard!Inv, [Next]_vars,
                        component' = "logins"
                 PROVE  Guard!Inv'
      OBVIOUS
    <2>1. component = "logins" /\ [Guard!Next]_(Guard!vars)
      BY DEF Next, vars, Guard!vars
    <2> QED
      BY <2>1, GuardNext
  <1> QED
    BY <1>1, <1>2, PTL DEF Spec

\* Requests that read the row before the lock was set guess once more each, and
\* no more, for any number of them: what was tried since the last unlock and
\* what the requests that passed the check will add stay below LockAfter and
\* one for each further request (Login, IncrementFailedLoginAttempts).
THEOREM GuessesAreBounded == Spec => []TriesBounded
  <1>1. (component = "logins" => Guard!Inv) => TriesBounded
    BY DEF TriesBounded, Guard!Inv
  <1> QED
    BY <1>1, GuardSafe, PTL

\* An attempt counter without a TTL has its EXPIRE still to come, or lost it: no
\* order of attempts, resets and windows leaves another (CheckLoginAttempt).
THEOREM CountersExpire == Spec => []CounterEnds
  <1>1. (component = "logins" => Guard!Inv) => CounterEnds
    BY DEF CounterEnds, Guard!Inv
  <1> QED
    BY <1>1, GuardSafe, PTL

-----------------------------------------------------------------------------
(* Passwords: password is x1, reset x2, opened x3, known x4, row x5,         *)
(* copy x6, spared x7                                                        *)

\* A free slot stores nothing and ends nothing.
LEMMA PasswordFree ==
    /\ Password!Free \in Password!Jobs /\ Password!Free.pc = "idle"
    /\ Password!JobFits(Password!Free)
    /\ \A t \in Pair : ~Password!Stores(Password!Free, t)
  BY DEF Password!Free, Password!Jobs, Password!None, Password!JobFits, Password!Stores

\* A slot that begins with some token does so at the label and with nothing else.
LEMMA PasswordBegins ==
    ASSUME NEW w, NEW t \in Pair \cup Vouchers \cup {Password!None},
           NEW l \in {"openRow", "fallback", "touch", "restore", "update", "scan", "end"}
    PROVE  /\ Password!Begin(w, l, t) \in Password!Jobs
           /\ Password!Begin(w, l, t).pc = l /\ Password!Begin(w, l, t).token = t
  BY DEF Password!Begin, Password!Free, Password!Jobs, Password!None

\* The invariant holds at the start: nothing is open.
LEMMA PasswordInit == Password!Init => Password!Inv
  <1> SUFFICES ASSUME Password!Init PROVE Password!Inv
    OBVIOUS
  <1> USE DEF Password!Init
  <1>1. \A w \in Workers : job[w] = Password!Free
    OBVIOUS
  <1>2. Password!TypeOK
    BY PasswordFree DEF Password!TypeOK
  <1>3. Password!OldAreGone
    BY DEF Password!OldAreGone, Password!Old
  <1>4. Password!EndingsReach
    BY DEF Password!EndingsReach, Password!Old
  <1> QED
    BY <1>1, <1>2, <1>3, <1>4, PasswordFree DEF Password!Inv

\* What a step may do to the tables besides the password and its history.
PasswordTables ==
    /\ x2' \in [Vouchers -> {Password!None, "live", "used"}]
    /\ x4' \subseteq Pair /\ x6' \subseteq Pair
    /\ x5' \in [Pair -> {Password!None, "active", "revoked"}]

\* What a step leaves alone stays of its type.
LEMMA PasswordTablesKept ==
    ASSUME Password!Inv
    PROVE  /\ x2' = x2 /\ UNCHANGED Password!sessions => PasswordTables
           /\ x2' = x2 => x2' \in [Vouchers -> {Password!None, "live", "used"}]
           /\ x4' = x4 => x4' \subseteq Pair
           /\ x6' = x6 => x6' \subseteq Pair
           /\ x5' = x5 => x5' \in [Pair -> {Password!None, "active", "revoked"}]
  BY DEF Password!Inv, Password!TypeOK, PasswordTables, Password!sessions

\* A step of one slot that makes usable, or stores, only what the slot was about
\* to store, begins to store nothing, and begins no ending: one in progress goes
\* on to delete what it does not miss.
LEMMA PasswordStep ==
    ASSUME Password!Inv, NEW w \in Workers, NEW j \in Password!Jobs,
           job' = [job EXCEPT ![w] = j], Password!JobFits(j),
           PasswordTables, x1' = x1, x3' = x3, x7' = x7,
           \A t \in Pair : Password!Stores(j, t) => Password!Stores(job[w], t),
           \A t \in x6' : t \in x6 \/ Password!Stores(job[w], t),
           \A t \in Pair : x5'[t] = "active" =>
               x5[t] = "active" \/ Password!Stores(job[w], t),
           j.pc = "end" => /\ job[w].pc = "end" /\ job[w].missed \subseteq j.missed
                           /\ \A t \in x6' \cap job[w].todo : t \in j.todo \cup j.missed
    PROVE  Password!Inv'
  <1>1. job \in [Workers -> Password!Jobs]
    BY DEF Password!Inv, Password!TypeOK
  <1>2. /\ job' \in [Workers -> Password!Jobs] /\ job'[w] = j
        /\ \A v \in Workers \ {w} : job'[v] = job[v]
    BY <1>1
  <1>3. Password!TypeOK'
    BY <1>2 DEF Password!Inv, Password!TypeOK, PasswordTables
  <1>4. \A v \in Workers : Password!JobFits(job'[v])
    BY <1>2 DEF Password!Inv
  <1>5. \A t \in Pair : Password!Old(t)' = Password!Old(t)
    BY DEF Password!Old
  <1>6. Password!OldAreGone'
    <2> SUFFICES ASSUME NEW t \in Pair, Password!Old(t), t \notin x7
                 PROVE  ~Password!Usable(t)' /\ \A v \in Workers : ~Password!Stores(job'[v], t)
      BY <1>5 DEF Password!OldAreGone
    <2>1. ~Password!Usable(t) /\ \A v \in Workers : ~Password!Stores(job[v], t)
      BY DEF Password!Inv, Password!OldAreGone
    <2>2. ~Password!Usable(t)'
      BY <2>1 DEF Password!Usable
    <2> QED
      BY <1>2, <2>1, <2>2
  <1>7. Password!EndingsReach'
    <2> SUFFICES ASSUME NEW v \in Workers, NEW t \in Pair, job'[v].pc = "end",
                        Password!Old(t), t \notin job'[v].missed
                 PROVE  /\ t \in x6' => t \in job'[v].todo
                        /\ \A u \in Workers : ~Password!Stores(job'[u], t)
      BY <1>5 DEF Password!EndingsReach, Password!Ending, Password!At
    <2>1. job[v].pc = "end" /\ t \notin job[v].missed
      BY <1>2
    <2>2. /\ t \in x6 => t \in job[v].todo
          /\ \A u \in Workers : ~Password!Stores(job[u], t)
      BY <2>1 DEF Password!Inv, Password!EndingsReach, Password!Ending, Password!At
    <2>3. t \in x6' => t \in x6
      BY <2>2
    <2> QED
      BY <1>2, <2>2, <2>3
  <1> QED
    BY <1>3, <1>4, <1>6, <1>7 DEF Password!Inv

\* A login begins: what it opens is of the password.
LEMMA PasswordLogin ==
    ASSUME Password!Inv, NEW w \in Workers, NEW t \in Pair, Password!Login(w, t)
    PROVE  Password!Inv'
  <1> DEFINE j == Password!Begin(w, "openRow", t)
  <1>1. /\ job' = [job EXCEPT ![w] = j] /\ x3' = [x3 EXCEPT ![t] = x1]
        /\ x1' = x1 /\ x2' = x2 /\ x4' = x4 /\ x5' = x5 /\ x6' = x6 /\ x7' = x7
    BY DEF Password!Login
  <1>2. j \in Password!Jobs /\ j.pc = "openRow" /\ j.token = t
    BY PasswordBegins
  <1> HIDE DEF j
  <1>3. job \in [Workers -> Password!Jobs] /\ x3 \in [Pair -> Pair \cup {Password!None}]
        /\ x1 \in Pair
    BY DEF Password!Inv, Password!TypeOK
  <1>4. /\ job' \in [Workers -> Password!Jobs] /\ job'[w] = j
        /\ \A v \in Workers \ {w} : job'[v] = job[v]
    BY <1>1, <1>2, <1>3
  <1>5. Password!TypeOK'
    BY <1>1, <1>3, <1>4 DEF Password!Inv, Password!TypeOK
  <1>6. \A v \in Workers : Password!JobFits(job'[v])
    BY <1>2, <1>4 DEF Password!Inv, Password!JobFits
  <1>7. \A u \in Pair : Password!Old(u)' => u # t /\ Password!Old(u)
    BY <1>1, <1>3 DEF Password!Old
  <1>8. \A u \in Pair : u # t => ~Password!Stores(job'[w], u)
    BY <1>2, <1>4 DEF Password!Stores
  <1>9. Password!OldAreGone'
    BY <1>1, <1>4, <1>7, <1>8 DEF Password!Inv, Password!OldAreGone, Password!Usable
  <1>10. Password!EndingsReach'
    BY <1>1, <1>2, <1>4, <1>7, <1>8
       DEF Password!Inv, Password!EndingsReach, Password!Ending, Password!At
  <1> QED
    BY <1>5, <1>6, <1>9, <1>10 DEF Password!Inv

\* A use of a session that is usable starts a job that stores it: the endings in
\* progress may come too early for it.
LEMMA PasswordOvertake ==
    ASSUME Password!Inv, NEW w \in Workers, NEW t \in Pair, Password!Usable(t),
           NEW l \in {"touch", "restore"}, Password!Overtake(w, Password!Begin(w, l, t)),
           UNCHANGED <<x1, x2, x3, x4, x5, x6, x7>>
    PROVE  Password!Inv'
  <1> DEFINE j == Password!Begin(w, l, t)
  <1>1. j \in Password!Jobs /\ j.pc = l /\ j.token = t
    BY PasswordBegins
  <1>2. job' = [v \in Workers |->
            IF v = w THEN j
            ELSE IF job[v].pc = "end" THEN [job[v] EXCEPT !.missed = @ \cup {j.token}]
            ELSE job[v]]
    BY DEF Password!Overtake, Password!Ending, Password!At
  <1> HIDE DEF j
  <1>3. job \in [Workers -> Password!Jobs]
    BY DEF Password!Inv, Password!TypeOK
  <1>4. ASSUME NEW v \in Workers
        PROVE  /\ job'[v] \in Password!Jobs
               /\ v = w => job'[v] = j
               /\ v # w => /\ job'[v].pc = job[v].pc /\ job'[v].token = job[v].token
                           /\ job'[v].new = job[v].new /\ job'[v].todo = job[v].todo
                           /\ job[v].missed \subseteq job'[v].missed
                           /\ job[v].pc = "end" => t \in job'[v].missed
    <2>1. job[v] \in Password!Jobs
      BY <1>3
    <2>2. CASE v = w
      BY <1>1, <1>2, <2>2
    <2>3. CASE v # w /\ job[v].pc = "end"
      <3>1. job'[v] = [job[v] EXCEPT !.missed = @ \cup {t}]
        BY <1>1, <1>2, <2>3
      <3> QED
        BY <2>1, <2>3, <3>1 DEF Password!Jobs
    <2>4. CASE v # w /\ job[v].pc # "end"
      BY <1>2, <2>1, <2>4
    <2> QED
      BY <2>2, <2>3, <2>4
  <1>5. Password!TypeOK'
    <2>1. job' \in [Workers -> Password!Jobs]
      BY <1>2, <1>4
    <2> QED
      BY <2>1 DEF Password!Inv, Password!TypeOK
  <1>6. \A v \in Workers : Password!JobFits(job'[v])
    BY <1>1, <1>4 DEF Password!Inv, Password!JobFits
  <1>7. \A u \in Pair : Password!Old(u)' = Password!Old(u)
    BY DEF Password!Old
  <1>8. \A u \in Pair, v \in Workers :
            Password!Stores(job'[v], u) => u = t \/ Password!Stores(job[v], u)
    BY <1>1, <1>4 DEF Password!Stores
  <1>9. Password!Old(t) => t \in x7
    BY DEF Password!Inv, Password!OldAreGone
  <1>10. Password!OldAreGone'
    BY <1>7, <1>8, <1>9 DEF Password!Inv, Password!OldAreGone, Password!Usable
  <1>11. Password!EndingsReach'
    <2> SUFFICES ASSUME NEW v \in Workers, NEW u \in Pair, job'[v].pc = "end",
                        Password!Old(u), u \notin job'[v].missed
                 PROVE  /\ u \in x6 => u \in job'[v].todo
                        /\ \A o \in Workers : ~Password!Stores(job'[o], u)
      BY <1>7 DEF Password!EndingsReach, Password!Ending, Password!At
    <2>1. v # w
      BY <1>1, <1>4
    <2>2. job[v].pc = "end" /\ u \notin job[v].missed /\ u # t /\ job'[v].todo = job[v].todo
      BY <1>4, <2>1
    <2> QED
      BY <1>8, <2>2 DEF Password!Inv, Password!EndingsReach, Password!Ending, Password!At
  <1> QED
    BY <1>5, <1>6, <1>10, <1>11 DEF Password!Inv

\* The password changes: every session is due, and no ending in progress counts.
LEMMA PasswordUpdated ==
    ASSUME Password!Inv, NEW w \in Workers, Password!UpdateProviderPassword(w)
    PROVE  Password!Inv'
  <1>1. job \in [Workers -> Password!Jobs] /\ Password!JobFits(job[w])
    BY DEF Password!Inv, Password!TypeOK
  <1>2. /\ job[w].pc = "update" /\ x1' = job[w].new /\ x7' = Pair
        /\ UNCHANGED <<x2, x3, x4, x5, x6>>
    BY DEF Password!UpdateProviderPassword, Password!At, Password!sessions
  <1>3. PICK j \in Password!Jobs :
            /\ job' = [v \in Workers |-> IF v = w THEN j ELSE [job[v] EXCEPT !.missed = Pair]]
            /\ j.pc # "end" /\ Password!JobFits(j)
    <2> DEFINE l == IF job[w].token = Password!None THEN "scan" ELSE "mark"
               next == [job[w] EXCEPT !.pc = l]
    <2>1. l \in {"scan", "mark"}
      OBVIOUS
    <2>2. \E j \in {next, Password!Free} :
              job' = [v \in Workers |-> IF v = w THEN j ELSE [job[v] EXCEPT !.missed = Pair]]
      BY DEF Password!UpdateProviderPassword
    <2> HIDE DEF l
    <2>3. next \in Password!Jobs /\ next.pc = l /\ next.token = job[w].token
      BY <1>1, <2>1 DEF Password!Jobs
    <2>4. l = "mark" => job[w].token \in Vouchers
      <3>1. job[w].token \in Vouchers \cup {Password!None}
        BY <1>1, <1>2 DEF Password!JobFits
      <3> QED
        BY <3>1 DEF l
    <2>5. Password!JobFits(next)
      BY <2>1, <2>3, <2>4 DEF Password!JobFits
    <2> HIDE DEF next
    <2> QED
      BY <2>1, <2>2, <2>3, <2>5, PasswordFree
  <1>4. ASSUME NEW v \in Workers
        PROVE  /\ job'[v] \in Password!Jobs /\ Password!JobFits(job'[v])
               /\ job'[v].pc = "end" => job'[v].missed = Pair
    <2>1. CASE v = w
      BY <1>3, <2>1
    <2>2. CASE v # w
      <3>1. job[v] \in Password!Jobs /\ Password!JobFits(job[v])
        BY <1>1 DEF Password!Inv
      <3>2. job'[v] = [job[v] EXCEPT !.missed = Pair]
        BY <1>3, <2>2
      <3> QED
        BY <3>1, <3>2 DEF Password!Jobs, Password!JobFits
    <2> QED
      BY <2>1, <2>2
  <1>5. Password!TypeOK'
    <2>1. job' \in [Workers -> Password!Jobs] /\ x1' \in Pair
      BY <1>1, <1>2, <1>3, <1>4 DEF Password!JobFits
    <2> QED
      BY <1>2, <2>1 DEF Password!Inv, Password!TypeOK
  <1>6. Password!OldAreGone'
    BY <1>2 DEF Password!OldAreGone
  <1>7. Password!EndingsReach'
    BY <1>4 DEF Password!EndingsReach, Password!Ending, Password!At
  <1> QED
    BY <1>4, <1>5, <1>6, <1>7 DEF Password!Inv

\* A login stores its row and its copy, a background job its copy.
LEMMA PasswordStores ==
    ASSUME Password!Inv, NEW w \in Workers,
           \/ Password!OpenRow(w) \/ Password!OpenCopy(w)
           \/ Password!TouchRead(w) \/ Password!TouchWrite(w) \/ Password!restoreToRedis(w)
    PROVE  Password!Inv'
  <1> USE DEF Password!At, Password!Goto, Password!Done
  <1>1. /\ job[w] \in Password!Jobs
        /\ job[w].pc \in {"openRow", "openCopy", "touch", "touched", "restore"}
        /\ job[w].token \in Pair
    BY DEF Password!Inv, Password!TypeOK, Password!JobFits, Password!OpenRow,
           Password!OpenCopy, Password!TouchRead, Password!TouchWrite, Password!restoreToRedis
  <1>2. Password!Stores(job[w], job[w].token)
    BY <1>1 DEF Password!Stores
  <1>3. /\ x1' = x1 /\ x2' = x2 /\ x3' = x3 /\ x7' = x7
        /\ x4' \in {x4, x4 \cup {job[w].token}}
        /\ x6' \in {x6, x6 \cup {job[w].token}}
        /\ x5' \in {x5, [x5 EXCEPT ![job[w].token] = "active"]}
    BY DEF Password!OpenRow, Password!OpenCopy, Password!TouchRead, Password!TouchWrite,
           Password!restoreToRedis, Password!StoreCopy, Password!sessions
  <1>4. PasswordTables
    BY <1>1, <1>3 DEF Password!Inv, Password!TypeOK, PasswordTables
  <1>5. \A t \in Pair : x5'[t] = "active" => x5[t] = "active" \/ Password!Stores(job[w], t)
    BY <1>1, <1>2, <1>3 DEF Password!Inv, Password!TypeOK
  <1>6. \A t \in x6' : t \in x6 \/ Password!Stores(job[w], t)
    BY <1>2, <1>3
  <1>7. CASE job' = [job EXCEPT ![w] = Password!Free]
    BY <1>3, <1>4, <1>5, <1>6, <1>7, PasswordFree, PasswordStep
  <1>8. ASSUME NEW l \in {"openCopy", "touched"}, job' = [job EXCEPT ![w].pc = l]
        PROVE  Password!Inv'
    <2> DEFINE j == [job[w] EXCEPT !.pc = l]
    <2>1. job' = [job EXCEPT ![w] = j]
      BY <1>8
    <2>2. j \in Password!Jobs /\ j.pc = l /\ j.token = job[w].token
      BY <1>1 DEF Password!Jobs
    <2> HIDE DEF j
    <2>3. Password!JobFits(j)
      BY <1>1, <2>2 DEF Password!JobFits
    <2>4. \A t \in Pair : Password!Stores(j, t) => Password!Stores(job[w], t)
      BY <1>1, <2>2 DEF Password!Stores
    <2> QED
      BY <1>3, <1>4, <1>5, <1>6, <2>1, <2>2, <2>3, <2>4, PasswordStep
  <1> QED
    BY <1>7, <1>8
       DEF Password!OpenRow, Password!OpenCopy, Password!TouchRead, Password!TouchWrite,
           Password!restoreToRedis, Password!StoreCopy

\* Requests that begin, and come to where the sessions are ended, store nothing.
LEMMA PasswordAsked ==
    ASSUME Password!Inv, NEW w \in Workers,
           \/ \E t \in Pair : Password!MissCopy(w, t)
           \/ \E p, q \in Pair : Password!ChangePassword(w, p, q)
           \/ \E r \in Vouchers, p \in Pair : Password!ResetPassword(w, r, p)
           \/ Password!MarkTokenAsUsed(w) \/ Password!LogoutAll(w) \/ Password!Fail(w)
    PROVE  Password!Inv'
  <1>1. /\ x1' = x1 /\ x7' = x7 /\ UNCHANGED Password!sessions
        /\ x2' = x2 \/ x2' = [x2 EXCEPT ![job[w].token] = "used"]
    BY DEF Password!MissCopy, Password!ChangePassword, Password!ResetPassword,
           Password!MarkTokenAsUsed, Password!LogoutAll, Password!Fail
  <1>2. PasswordTables
    BY <1>1, PasswordTablesKept
       DEF Password!Inv, Password!TypeOK, PasswordTables, Password!sessions
  <1>3. PICK j \in Password!Jobs :
            /\ job' = [job EXCEPT ![w] = j] /\ Password!JobFits(j)
            /\ j.pc \in {"idle", "fallback", "update", "scan"}
    <2>1. ASSUME NEW t \in Pair, Password!MissCopy(w, t)
          PROVE  job' = [job EXCEPT ![w] = Password!Begin(w, "fallback", t)]
      BY <2>1 DEF Password!MissCopy
    <2>2. ASSUME NEW t \in Pair
          PROVE  /\ Password!Begin(w, "fallback", t) \in Password!Jobs
                 /\ Password!Begin(w, "fallback", t).pc = "fallback"
                 /\ Password!JobFits(Password!Begin(w, "fallback", t))
      BY PasswordBegins DEF Password!JobFits
    <2>3. ASSUME NEW r \in Vouchers \cup {Password!None}, NEW p \in Pair,
                 job' = [job EXCEPT ![w] = [Password!Begin(w, "update", r) EXCEPT !.new = p]]
          PROVE  \E j \in Password!Jobs :
                    /\ job' = [job EXCEPT ![w] = j] /\ Password!JobFits(j) /\ j.pc = "update"
      <3> DEFINE j == [Password!Begin(w, "update", r) EXCEPT !.new = p]
      <3>1. j \in Password!Jobs /\ j.pc = "update" /\ j.new = p /\ j.token = r
        BY PasswordBegins DEF Password!Jobs
      <3>2. job' = [job EXCEPT ![w] = j]
        BY <2>3
      <3> HIDE DEF j
      <3>3. Password!JobFits(j)
        BY <3>1 DEF Password!JobFits
      <3> QED
        BY <3>1, <3>2, <3>3
    <2>4. /\ Password!Begin(w, "scan", Password!None) \in Password!Jobs
          /\ Password!Begin(w, "scan", Password!None).pc = "scan"
          /\ Password!JobFits(Password!Begin(w, "scan", Password!None))
      BY PasswordBegins DEF Password!JobFits
    <2>5. CASE \E t \in Pair : Password!MissCopy(w, t)
      BY <2>1, <2>2, <2>5
    <2>6. CASE \E p, q \in Pair : Password!ChangePassword(w, p, q)
      BY <2>3, <2>6 DEF Password!ChangePassword
    <2>7. CASE \E r \in Vouchers, p \in Pair : Password!ResetPassword(w, r, p)
      BY <2>3, <2>7 DEF Password!ResetPassword
    <2>8. CASE Password!MarkTokenAsUsed(w) \/ Password!LogoutAll(w)
      BY <2>4, <2>8 DEF Password!MarkTokenAsUsed, Password!LogoutAll
    <2>9. CASE Password!Fail(w)
      BY <2>9, PasswordFree DEF Password!Fail, Password!Done
    <2> QED
      BY <2>5, <2>6, <2>7, <2>8, <2>9
  <1>4. \A t \in Pair : ~Password!Stores(j, t)
    BY <1>3 DEF Password!Stores
  <1> QED
    BY <1>1, <1>2, <1>3, <1>4, PasswordStep DEF Password!sessions

\* An ending looks for the copies: what it finds it will delete, and what it does
\* not, or somebody stores, it misses.
LEMMA PasswordScanned ==
    ASSUME Password!Inv, NEW w \in Workers, Password!ScanCopies(w)
    PROVE  Password!Inv'
  <1>1. UNCHANGED <<x1, x2, x3, x4, x5, x6, x7>>
    BY DEF Password!ScanCopies, Password!sessions
  <1>2. job \in [Workers -> Password!Jobs] /\ x6 \subseteq Pair
    BY DEF Password!Inv, Password!TypeOK
  <1> DEFINE moving == {t \in Pair : \E v \in Workers : Password!Stores(job[v], t)}
  <1>3. PICK found \in SUBSET x6 :
            job' = [job EXCEPT ![w] = [Password!Begin(w, "end", Password!None) EXCEPT
                !.todo = found, !.missed = (x6 \ found) \cup moving]]
    BY DEF Password!ScanCopies
  <1> DEFINE j == [Password!Begin(w, "end", Password!None) EXCEPT
                       !.todo = found, !.missed = (x6 \ found) \cup moving]
  <1>4. moving \subseteq Pair /\ \A t \in Pair : t \notin moving =>
                                     \A v \in Workers : ~Password!Stores(job[v], t)
    OBVIOUS
  <1> HIDE DEF moving
  <1>5. /\ j \in Password!Jobs /\ j.pc = "end" /\ j.todo = found
        /\ j.missed = (x6 \ found) \cup moving
    <2> DEFINE b == Password!Begin(w, "end", Password!None)
    <2>1. b \in Password!Jobs /\ b.pc = "end"
      BY PasswordBegins
    <2> HIDE DEF b
    <2> DEFINE n == (x6 \ found) \cup moving
               k == [b EXCEPT !.todo = found, !.missed = n]
    <2>2. found \subseteq Pair /\ n \subseteq Pair
      BY <1>2, <1>4
    <2> HIDE DEF n
    <2>3. k \in Password!Jobs /\ k.pc = "end" /\ k.todo = found /\ k.missed = n
      BY <2>1, <2>2 DEF Password!Jobs
    <2>4. j = k
      BY DEF b, n
    <2> QED
      BY <2>3, <2>4 DEF n
  <1>6. job' = [job EXCEPT ![w] = j]
    BY <1>3
  <1> HIDE DEF j
  <1>7. /\ job' \in [Workers -> Password!Jobs] /\ job'[w] = j
        /\ \A v \in Workers \ {w} : job'[v] = job[v]
    BY <1>2, <1>5, <1>6
  <1>8. Password!TypeOK'
    BY <1>1, <1>7 DEF Password!Inv, Password!TypeOK
  <1>9. \A v \in Workers : Password!JobFits(job'[v])
    BY <1>5, <1>7 DEF Password!Inv, Password!JobFits
  <1>10. /\ \A t \in Pair : Password!Old(t)' = Password!Old(t)
         /\ \A t \in Pair : Password!Usable(t)' = Password!Usable(t)
    BY <1>1 DEF Password!Old, Password!Usable
  <1>11. \A v \in Workers, t \in Pair :
             Password!Stores(job'[v], t) => Password!Stores(job[v], t)
    BY <1>5, <1>7 DEF Password!Stores
  <1>12. Password!OldAreGone'
    BY <1>1, <1>10, <1>11 DEF Password!Inv, Password!OldAreGone
  <1>13. Password!EndingsReach'
    <2> SUFFICES ASSUME NEW v \in Workers, NEW t \in Pair, job'[v].pc = "end",
                        Password!Old(t), t \notin job'[v].missed
                 PROVE  /\ t \in x6 => t \in job'[v].todo
                        /\ \A u \in Workers : ~Password!Stores(job'[u], t)
      BY <1>1, <1>10 DEF Password!EndingsReach, Password!Ending, Password!At
    <2>1. CASE v = w
      BY <1>4, <1>5, <1>7, <1>11, <2>1
    <2>2. CASE v # w
      BY <1>7, <1>11, <2>2
         DEF Password!Inv, Password!EndingsReach, Password!Ending, Password!At
    <2> QED
      BY <2>1, <2>2
  <1> QED
    BY <1>8, <1>9, <1>12, <1>13 DEF Password!Inv

\* An ending deletes a copy that it found, or misses it.
LEMMA PasswordDeleted ==
    ASSUME Password!Inv, NEW w \in Workers, Password!DeleteFound(w)
    PROVE  Password!Inv'
  <1>1. /\ job[w] \in Password!Jobs /\ job[w].pc = "end" /\ x6 \subseteq Pair
        /\ UNCHANGED <<x1, x2, x3, x4, x5, x7>>
    BY DEF Password!Inv, Password!TypeOK, Password!DeleteFound, Password!Ending, Password!At
  <1>2. PICK t \in job[w].todo :
            \/ /\ x6' = x6 \ {t}
               /\ job' = [job EXCEPT ![w].todo = @ \ {t}]
            \/ /\ x6' = x6
               /\ job' = [job EXCEPT ![w].todo = @ \ {t}, ![w].missed = @ \cup {t}]
    BY DEF Password!DeleteFound
  <1>3. PICK j \in Password!Jobs :
            /\ job' = [job EXCEPT ![w] = j] /\ j.pc = "end" /\ j.todo = job[w].todo \ {t}
            /\ \/ x6' = x6 \ {t} /\ j.missed = job[w].missed
               \/ x6' = x6 /\ j.missed = job[w].missed \cup {t}
    <2>1. job[w].todo \subseteq Pair /\ job[w].missed \subseteq Pair
          /\ job \in [Workers -> Password!Jobs]
      BY <1>1 DEF Password!Jobs, Password!Inv, Password!TypeOK
    <2>2. CASE x6' = x6 \ {t} /\ job' = [job EXCEPT ![w].todo = @ \ {t}]
      <3> DEFINE j == [job[w] EXCEPT !.todo = @ \ {t}]
      <3>1. /\ j \in Password!Jobs /\ j.pc = "end" /\ j.todo = job[w].todo \ {t}
            /\ j.missed = job[w].missed
        BY <1>1, <2>1 DEF Password!Jobs
      <3>2. job' = [job EXCEPT ![w] = j]
        BY <2>2
      <3> HIDE DEF j
      <3> QED
        BY <2>2, <3>1, <3>2
    <2>3. CASE /\ x6' = x6
               /\ job' = [job EXCEPT ![w].todo = @ \ {t}, ![w].missed = @ \cup {t}]
      <3> DEFINE j == [job[w] EXCEPT !.todo = @ \ {t}, !.missed = @ \cup {t}]
      <3>1. /\ j \in Password!Jobs /\ j.pc = "end" /\ j.todo = job[w].todo \ {t}
            /\ j.missed = job[w].missed \cup {t}
        BY <1>1, <2>1 DEF Password!Jobs
      <3>2. job' = [job EXCEPT ![w] = j]
        BY <2>1, <2>3
      <3> HIDE DEF j
      <3> QED
        BY <2>3, <3>1, <3>2
    <2> QED
      BY <1>2, <2>2, <2>3
  <1>4. PasswordTables
    BY <1>1, <1>3 DEF Password!Inv, Password!TypeOK, PasswordTables
  <1>5. Password!JobFits(j) /\ \A u \in Pair : ~Password!Stores(j, u)
    BY <1>3 DEF Password!JobFits, Password!Stores
  <1>6. \A u \in x6' \cap job[w].todo : u \in j.todo \cup j.missed
    BY <1>3
  <1> QED
    BY <1>1, <1>3, <1>4, <1>5, <1>6, PasswordStep

\* An ending revokes the rows: what it did not miss is gone.
LEMMA PasswordRevoked ==
    ASSUME Password!Inv, NEW w \in Workers, Password!InvalidateAllUserSessions(w)
    PROVE  Password!Inv'
  <1>1. /\ job[w].pc = "end" /\ job[w].todo = {} /\ job' = [job EXCEPT ![w] = Password!Free]
        /\ x5' = [t \in Pair |-> IF x5[t] = "active" THEN "revoked" ELSE x5[t]]
        /\ x7' = x7 \cap job[w].missed
        /\ UNCHANGED <<x1, x2, x3, x4, x6>>
    BY DEF Password!InvalidateAllUserSessions, Password!Ending, Password!At, Password!Done
  <1>2. job \in [Workers -> Password!Jobs]
    BY DEF Password!Inv, Password!TypeOK
  <1>3. /\ job' \in [Workers -> Password!Jobs] /\ job'[w] = Password!Free
        /\ \A v \in Workers \ {w} : job'[v] = job[v]
    BY <1>1, <1>2, PasswordFree
  <1>4. \A t \in Pair : x5'[t] # "active"
    BY <1>1
  <1>5. Password!TypeOK'
    <2>1. x5' \in [Pair -> {Password!None, "active", "revoked"}]
      BY <1>1 DEF Password!Inv, Password!TypeOK
    <2> QED
      BY <1>1, <1>3, <2>1 DEF Password!Inv, Password!TypeOK
  <1>6. \A v \in Workers : Password!JobFits(job'[v])
    BY <1>3, PasswordFree DEF Password!Inv
  <1>7. \A t \in Pair : Password!Old(t)' = Password!Old(t)
    BY <1>1 DEF Password!Old
  <1>8. \A v \in Workers, t \in Pair :
            Password!Stores(job'[v], t) => Password!Stores(job[v], t)
    BY <1>3, PasswordFree
  <1>9. Password!OldAreGone'
    <2> SUFFICES ASSUME NEW t \in Pair, Password!Old(t), t \notin x7'
                 PROVE  ~Password!Usable(t)' /\ \A v \in Workers : ~Password!Stores(job'[v], t)
      BY <1>7 DEF Password!OldAreGone
    <2>1. t \notin x6 /\ \A v \in Workers : ~Password!Stores(job[v], t)
      <3>1. CASE t \notin x7
        BY <3>1 DEF Password!Inv, Password!OldAreGone, Password!Usable
      <3>2. CASE t \notin job[w].missed
        BY <1>1, <3>2 DEF Password!Inv, Password!EndingsReach, Password!Ending, Password!At
      <3> QED
        BY <1>1, <3>1, <3>2
    <2> QED
      BY <1>1, <1>4, <1>8, <2>1 DEF Password!Usable
  <1>10. Password!EndingsReach'
    <2> SUFFICES ASSUME NEW v \in Workers, NEW t \in Pair, job'[v].pc = "end",
                        Password!Old(t), t \notin job'[v].missed
                 PROVE  /\ t \in x6' => t \in job'[v].todo
                        /\ \A u \in Workers : ~Password!Stores(job'[u], t)
      BY <1>7 DEF Password!EndingsReach, Password!Ending, Password!At
    <2>1. job'[v] = job[v]
      BY <1>3, PasswordFree
    <2> QED
      BY <1>1, <1>8, <2>1
         DEF Password!Inv, Password!EndingsReach, Password!Ending, Password!At
  <1> QED
    BY <1>5, <1>6, <1>9, <1>10 DEF Password!Inv

\* Reset tokens are mailed and expire, while the slots stand still.
LEMMA PasswordBetween ==
    ASSUME Password!Inv,
           \/ Password!ForgotPasswordHandler \/ \E r \in Vouchers : Password!ExpireReset(r)
           \/ UNCHANGED Password!vars
    PROVE  Password!Inv'
  <1>1. UNCHANGED <<job, x1, x3, x4, x5, x6, x7>>
    BY DEF Password!ForgotPasswordHandler, Password!ForgotPassword, Password!ExpireReset,
           Password!vars, Password!sessions
  <1>2. x2' \in [Vouchers -> {Password!None, "live", "used"}]
    BY DEF Password!Inv, Password!TypeOK, Password!ForgotPasswordHandler,
           Password!ForgotPassword, Password!ExpireReset, Password!vars
  <1>3. Password!TypeOK'
    BY <1>1, <1>2 DEF Password!Inv, Password!TypeOK
  <1>4. Password!OldAreGone'
    BY <1>1 DEF Password!Inv, Password!OldAreGone, Password!Old, Password!Usable
  <1>5. Password!EndingsReach'
    BY <1>1 DEF Password!Inv, Password!EndingsReach, Password!Ending, Password!At, Password!Old
  <1> QED
    BY <1>1, <1>3, <1>4, <1>5 DEF Password!Inv

\* Every step of PasswordSessions keeps the invariant.
LEMMA PasswordNext == Password!Inv /\ [Password!Next]_(Password!vars) => Password!Inv'
  <1> SUFFICES ASSUME Password!Inv, [Password!Next]_(Password!vars) PROVE Password!Inv'
    OBVIOUS
  <1>1. ASSUME NEW w \in Workers, Password!GetSession(w)
        PROVE  Password!Inv'
    <2>1. ASSUME NEW t \in Pair, Password!FindCopy(w, t) PROVE Password!Inv'
      BY <2>1, PasswordOvertake DEF Password!FindCopy, Password!Usable, Password!sessions
    <2>2. ASSUME Password!FindRow(w) PROVE Password!Inv'
      <3>1. job[w].token \in Pair
        BY <2>2 DEF Password!FindRow, Password!At, Password!Inv, Password!JobFits
      <3> QED
        BY <2>2, <3>1, PasswordOvertake
           DEF Password!FindRow, Password!Usable, Password!sessions
    <2> QED
      BY <1>1, <2>1, <2>2, PasswordAsked DEF Password!GetSession
  <1>2. ASSUME NEW w \in Workers,
               \/ Password!loginWithIdentity(w)
               \/ Password!UpdateSessionActivity(w) \/ Password!restoreToRedis(w)
        PROVE  Password!Inv'
    BY <1>2, PasswordLogin, PasswordStores
       DEF Password!loginWithIdentity, Password!UpdateSessionActivity
  <1>3. ASSUME NEW w \in Workers,
               \/ Password!ChangePasswordHandler(w) \/ Password!ResetPasswordHandler(w)
               \/ Password!UpdateProviderPassword(w) \/ Password!LogoutAll(w)
               \/ Password!Fail(w)
        PROVE  Password!Inv'
    BY <1>3, PasswordAsked, PasswordUpdated
       DEF Password!ChangePasswordHandler, Password!ResetPasswordHandler
  <1>4. ASSUME NEW w \in Workers, Password!LogoutAllSessions(w)
        PROVE  Password!Inv'
    BY <1>4, PasswordScanned, PasswordDeleted, PasswordRevoked DEF Password!LogoutAllSessions
  <1> QED
    BY <1>1, <1>2, <1>3, <1>4, PasswordBetween DEF Password!Next

\* The invariant of PasswordSessions in every behaviour of the services.
THEOREM PasswordSafe == Spec => [](component = "passwords" => Password!Inv)
  <1>1. Init => (component = "passwords" => Password!Inv)
    BY PasswordInit DEF Init
  <1>2. (component = "passwords" => Password!Inv) /\ [Next]_vars
            => (component = "passwords" => Password!Inv)'
    <2> SUFFICES ASSUME component = "passwords" => Password!Inv, [Next]_vars,
                        component' = "passwords"
                 PROVE  Password!Inv'
      OBVIOUS
    <2>1. component = "passwords" /\ [Password!Next]_(Password!vars)
      BY DEF Next, vars, Password!vars
    <2> QED
      BY <2>1, PasswordNext
  <1> QED
    BY <1>1, <1>2, PTL DEF Spec

\* However logins, uses with their background jobs, changes of the password and
\* endings of the sessions overlap, fail and lose answers, a session that an older
\* password opened is usable only while no ending that began after the change is
\* through, or when each of those missed it by one of the named failures or races
\* (ChangePassword, ResetPassword, InvalidateAllUserSessions, GetSession).
THEOREM OldPasswordsEnd == Spec => []OldSessionsRaced
  <1>1. (component = "passwords" => Password!Inv) => OldSessionsRaced
    BY DEF OldSessionsRaced, Password!OldSessionsRaced, Password!Inv, Password!OldAreGone
  <1> QED
    BY <1>1, PasswordSafe, PTL

-----------------------------------------------------------------------------
(* Codes: limit is x1, otp x2, resent x3, drawn x4, begun x5, uses x6,       *)
(* lost x7                                                                   *)

\* The cardinality of EmailCodes is the library's.
LEMMA CodeCardinality == \A S : Code!Cardinality(S) = Cardinality(S)
  BY DEF Code!Cardinality, Cardinality

\* The invariant holds at the start.
LEMMA CodeInit == Code!Init => Code!Inv
  <1> SUFFICES ASSUME Code!Init PROVE Code!Inv
    OBVIOUS
  <1> USE DEF Code!Init
  <1>1. /\ Code!Free \in Code!Jobs /\ Code!Free.pc = "idle" /\ Code!Free.code = 0
    BY ServicesAssumption DEF Code!Free, Code!Jobs
  <1>2. x1 \in Code!Limits
    BY ServicesAssumption DEF Code!Limits
  <1>3. Code!TypeOK
    <2>1. x2 \in [Pair -> Code!Codes \cup {0}] /\ x3 \in [Pair -> 0..ResendLimit \cup {Code!None}]
      OBVIOUS
    <2>2. x4 \in 0..MaxCodes /\ x5 \subseteq Pair /\ x6 \in [Code!Codes -> Nat]
      BY ServicesAssumption
    <2>3. x7 \in BOOLEAN
      OBVIOUS
    <2> QED
      BY <1>1, <1>2, <2>1, <2>2, <2>3 DEF Code!TypeOK
  <1>4. Code!CodesAreDrawn /\ Code!OneTokenPerCode /\ Code!OpenIsUnused /\ Code!RequestsHaveTokens
    BY <1>1 DEF Code!RequestsHaveTokens, Code!CodesAreDrawn, Code!OneTokenPerCode, Code!OpenIsUnused
  <1>5. Cardinality(Workers) \in Nat
    BY FS_CardinalityType, ServicesAssumption
  <1>6. \A c \in Code!Codes : x6[c] = 0 /\ Code!Verifying(c) = {}
    BY <1>1 DEF Code!Verifying
  <1>7. \A c \in Code!Codes : Code!Cardinality(Code!Verifying(c)) = 0
    BY <1>6, FS_EmptySet, CodeCardinality
  <1>8. Code!ReadersBounded /\ Code!CodeUsesBounded
    BY <1>5, <1>6, <1>7, CodeCardinality DEF Code!ReadersBounded, Code!CodeUsesBounded
  <1> QED
    BY <1>3, <1>4, <1>8 DEF Code!Inv

\* Readers are counted as long as no deletion is lost: a step rewards one of
\* them, or lets one in where no reward was given, or lets them go.
CodeReaderSteps ==
    \A c \in Code!Codes :
       \/ x6'[c] = x6[c] /\ Code!Verifying(c)' \subseteq Code!Verifying(c)
       \/ x6'[c] = 0
       \/ /\ x6'[c] = x6[c] + 1
          /\ \E w \in Code!Verifying(c) : Code!Verifying(c)' = Code!Verifying(c) \ {w}

\* Such a step keeps the uses bounded.
LEMMA CodeReaders ==
    ASSUME Code!Inv, x7' = FALSE, x7 = FALSE, x6' \in [Code!Codes -> Nat], CodeReaderSteps
    PROVE  Code!ReadersBounded' /\ Code!CodeUsesBounded'
  <1> SUFFICES ASSUME NEW c \in Code!Codes
               PROVE  /\ x6'[c] + Cardinality(Code!Verifying(c)') <= Cardinality(Workers)
                      /\ x6'[c] <= Cardinality(Workers)
    BY CodeCardinality DEF Code!ReadersBounded, Code!CodeUsesBounded
  <1> DEFINE n == Cardinality(Code!Verifying(c))
             m == Cardinality(Code!Verifying(c)')
             all == Cardinality(Workers)
  <1>1. /\ Code!Verifying(c) \subseteq Workers /\ Code!Verifying(c)' \subseteq Workers
    BY DEF Code!Verifying
  <1>2. /\ n \in Nat /\ m \in Nat /\ all \in Nat /\ m <= all
        /\ IsFiniteSet(Code!Verifying(c))
        /\ Code!Verifying(c)' \subseteq Code!Verifying(c) => m <= n
    BY <1>1, FS_Subset, FS_CardinalityType, ServicesAssumption
  <1>3. ASSUME NEW w \in Code!Verifying(c), Code!Verifying(c)' = Code!Verifying(c) \ {w}
        PROVE  m = n - 1
    BY <1>2, <1>3, FS_RemoveElement
  <1>4. x6[c] \in Nat /\ x6'[c] \in Nat /\ x6[c] + n <= all
    BY CodeCardinality DEF Code!Inv, Code!TypeOK, Code!ReadersBounded
  <1> HIDE DEF n, m, all
  <1>5. x6'[c] + m <= all
    <2>1. CASE x6'[c] = x6[c] /\ m <= n
      BY <1>2, <1>4, <2>1
    <2>2. CASE x6'[c] = 0
      BY <1>2, <2>2
    <2>3. CASE x6'[c] = x6[c] + 1 /\ m = n - 1
      BY <1>2, <1>4, <2>3
    <2> QED
      BY <1>2, <1>3, <2>1, <2>2, <2>3 DEF CodeReaderSteps
  <1> QED
    BY <1>2, <1>4, <1>5 DEF m, all

\* A request that does not verify a code.
CodeSending(j) ==
    /\ j.pc \notin {"delete", "voucher"} /\ j.code <= x4
    /\ j.pc # "idle" => j.token \in Pair

\* Codes are only taken away, and requests are not let in to verify one.
LEMMA CodeQuiet ==
    ASSUME Code!Inv, x1' \in Code!Limits, x2' \in [Pair -> Code!Codes \cup {0}],
           \A t \in Pair : x2'[t] \in {x2[t], 0},
           x3' \in [Pair -> 0..ResendLimit \cup {Code!None}],
           x5' \subseteq Pair, UNCHANGED <<x4, x6, x7>>,
           job' \in [Workers -> Code!Jobs],
           \A w \in Workers : job'[w] = job[w] \/ CodeSending(job'[w])
    PROVE  Code!Inv'
  <1>1. Code!TypeOK'
    BY DEF Code!Inv, Code!TypeOK
  <1>2. x4 \in Nat /\ x2 \in [Pair -> Code!Codes \cup {0}] /\ x7 \in BOOLEAN
        /\ x6 \in [Code!Codes -> Nat]
    BY ServicesAssumption DEF Code!Inv, Code!TypeOK
  <1>3. Code!CodesAreDrawn'
    BY <1>2 DEF CodeSending, Code!Inv, Code!CodesAreDrawn
  <1>4. Code!OneTokenPerCode'
    BY <1>2 DEF CodeSending, Code!Inv, Code!OneTokenPerCode, Code!Codes
  <1>5. Code!OpenIsUnused'
    BY <1>2 DEF CodeSending, Code!Inv, Code!OpenIsUnused, Code!Codes
  <1>6. CodeReaderSteps
    BY DEF CodeSending, CodeReaderSteps, Code!Verifying
  <1>7. Code!ReadersBounded' /\ Code!CodeUsesBounded'
    <2>1. CASE x7
      <3>1. Code!CodeUsesBounded'
        BY DEF Code!Inv, Code!CodeUsesBounded
      <3> QED
        BY <2>1, <3>1 DEF Code!ReadersBounded
    <2>2. CASE ~x7
      BY <1>2, <1>6, <2>2, CodeReaders
    <2> QED
      BY <2>1, <2>2
  <1>8. Code!RequestsHaveTokens'
    BY DEF Code!Inv, Code!RequestsHaveTokens, CodeSending
  <1> QED
    BY <1>1, <1>3, <1>4, <1>5, <1>7, <1>8 DEF Code!Inv

\* A step of one request that does not store, delete or verify a code.
LEMMA CodeRequests ==
    ASSUME Code!Inv, NEW w \in Workers,
           \/ Code!SendHandlers(w) \/ Code!CheckEmailVerificationAttempt(w) \/ Code!StoreMeta(w)
           \/ Code!ResendEmailVerificationOTP(w) \/ Code!Fail(w)
    PROVE  Code!Inv'
  <1> USE DEF Code!At, Code!Goto, Code!Done
  <1>1. /\ job \in [Workers -> Code!Jobs] /\ job[w] \in Code!Jobs /\ job[w].code <= x4
        /\ x1 \in Code!Limits /\ x2 \in [Pair -> Code!Codes \cup {0}]
        /\ x3 \in [Pair -> 0..ResendLimit \cup {Code!None}] /\ x5 \subseteq Pair
        /\ 0 <= x4 /\ (job[w].pc # "idle" => job[w].token \in Pair)
    BY ServicesAssumption
       DEF Code!Inv, Code!TypeOK, Code!CodesAreDrawn, Code!RequestsHaveTokens
  <1>2. Code!Free \in Code!Jobs /\ Code!Free.pc = "idle" /\ Code!Free.code = 0
    BY ServicesAssumption DEF Code!Free, Code!Jobs
  <1>3. UNCHANGED <<x2, x4, x5, x6, x7>>
    BY DEF Code!SendHandlers, Code!Ask, Code!CheckEmailVerificationAttempt, Code!IncrShort,
           Code!IncrLong, Code!LockEmailVerification, Code!StoreMeta,
           Code!ResendEmailVerificationOTP, Code!FindSession, Code!CheckResendCount, Code!Fail
  <1>4. x1' \in Code!Limits
    <2>1. CASE x1' = x1
      BY <1>1, <2>1
    <2>2. CASE Code!IncrLong(w)
      <3> DEFINE n == IF x1.long >= LongLimit THEN x1.long ELSE x1.long + 1
      <3>1. x1' = [x1 EXCEPT !.long = n]
        BY <2>2 DEF Code!IncrLong
      <3>2. n \in 0..LongLimit
        BY <1>1, ServicesAssumption DEF Code!Limits
      <3> HIDE DEF n
      <3> QED
        BY <1>1, <3>1, <3>2 DEF Code!Limits
    <2>3. CASE x1' = [x1 EXCEPT !.short = TRUE] \/ x1' = [x1 EXCEPT !.locked = TRUE]
      BY <1>1, <2>3 DEF Code!Limits
    <2> QED
      BY <2>1, <2>2, <2>3
         DEF Code!SendHandlers, Code!Ask, Code!CheckEmailVerificationAttempt, Code!IncrShort,
             Code!LockEmailVerification, Code!StoreMeta, Code!ResendEmailVerificationOTP,
             Code!FindSession, Code!CheckResendCount, Code!Fail
  <1>5. x3' \in [Pair -> 0..ResendLimit \cup {Code!None}]
    <2>1. job[w].count \in 0..ResendLimit
      BY <1>1 DEF Code!Jobs
    <2> QED
      BY <1>1, <2>1
         DEF Code!SendHandlers, Code!Ask, Code!CheckEmailVerificationAttempt, Code!IncrShort,
             Code!IncrLong, Code!LockEmailVerification, Code!StoreMeta,
             Code!ResendEmailVerificationOTP, Code!FindSession, Code!CheckResendCount, Code!Fail
  <1> DEFINE sends == \E j \in Code!Jobs : job' = [job EXCEPT ![w] = j] /\ CodeSending(j)
  <1>6. sends
    <2>1. CASE job' = [job EXCEPT ![w] = Code!Free]
      BY <1>1, <1>2, <2>1 DEF CodeSending
    <2>2. ASSUME NEW l \in {"long", "lock", "store", "session", "count"},
                 job' = [job EXCEPT ![w].pc = l], job[w].pc # "idle"
          PROVE  sends
      <3> DEFINE j == [job[w] EXCEPT !.pc = l]
      <3>1. j \in Code!Jobs /\ j.pc = l /\ j.code = job[w].code
          /\ j.token = job[w].token
        BY <1>1 DEF Code!Jobs
      <3>2. job' = [job EXCEPT ![w] = j]
        BY <2>2
      <3> HIDE DEF j
      <3> QED
        BY <1>1, <2>2, <3>1, <3>2 DEF CodeSending
    <2>3. CASE Code!CheckResendCount(w)
      <3> DEFINE n == x3[job[w].token]
                 j == [job[w] EXCEPT !.pc = "store", !.count = n + 1]
      <3>1. \/ job' = [job EXCEPT ![w] = Code!Free]
            \/ n # Code!None /\ n < ResendLimit /\ job' = [job EXCEPT ![w] = j]
        BY <2>3 DEF Code!CheckResendCount
      <3>2. ASSUME n # Code!None, n < ResendLimit, job' = [job EXCEPT ![w] = j]
            PROVE  sends
        <4>2. n + 1 \in 0..ResendLimit
          BY <1>1, <2>3, <3>2, ServicesAssumption DEF Code!CheckResendCount
        <4> HIDE DEF n
        <4>3. j \in Code!Jobs /\ j.pc = "store" /\ j.code = job[w].code
          /\ j.token = job[w].token
          BY <1>1, <4>2 DEF Code!Jobs
        <4> HIDE DEF j
        <4> QED
          BY <1>1, <2>3, <3>2, <4>3 DEF CodeSending, Code!CheckResendCount
      <3> QED
        BY <2>1, <3>1, <3>2
    <2>4. ASSUME NEW t \in Pair, NEW o \in {"send", "resend"}, Code!Ask(w, o, t)
          PROVE  sends
      <3> DEFINE j == [Code!Free EXCEPT !.pc = "short", !.op = o, !.token = t]
      <3>1. j \in Code!Jobs /\ j.pc = "short" /\ j.code = 0 /\ j.token = t
        BY <1>2 DEF Code!Jobs
      <3>2. job' = [job EXCEPT ![w] = j]
        BY <2>4 DEF Code!Ask
      <3> HIDE DEF j
      <3> QED
        BY <1>1, <3>1, <3>2 DEF CodeSending
    <2> QED
      BY <2>1, <2>2, <2>3, <2>4
         DEF Code!SendHandlers, Code!CheckEmailVerificationAttempt, Code!IncrShort,
             Code!IncrLong, Code!LockEmailVerification, Code!StoreMeta,
             Code!ResendEmailVerificationOTP, Code!FindSession, Code!Fail
  <1>7. PICK j \in Code!Jobs : job' = [job EXCEPT ![w] = j] /\ CodeSending(j)
    BY <1>6
  <1>8. /\ job' \in [Workers -> Code!Jobs]
        /\ \A v \in Workers : job'[v] = job[v] \/ CodeSending(job'[v])
    BY <1>1, <1>7
  <1> QED
    BY <1>1, <1>3, <1>4, <1>5, <1>8, CodeQuiet

\* Keys end: a code can be read no longer, and the limits open again.
LEMMA CodeKeysEnd ==
    ASSUME Code!Inv,
           Code!LimitsEnd \/ (\E t \in Pair : Code!ExpireCode(t)) \/ UNCHANGED Code!vars
    PROVE  Code!Inv'
  <1>1. /\ job \in [Workers -> Code!Jobs] /\ x5 \subseteq Pair
        /\ x1 \in Code!Limits /\ x2 \in [Pair -> Code!Codes \cup {0}]
        /\ x3 \in [Pair -> 0..ResendLimit \cup {Code!None}]
    BY DEF Code!Inv, Code!TypeOK
  <1>2. UNCHANGED <<x4, x5, x6, x7, job>>
    BY DEF Code!LimitsEnd, Code!ExpireCode, Code!vars
  <1>3. /\ x2' \in [Pair -> Code!Codes \cup {0}] /\ \A t \in Pair : x2'[t] \in {x2[t], 0}
        /\ x3' \in [Pair -> 0..ResendLimit \cup {Code!None}]
    BY <1>1 DEF Code!LimitsEnd, Code!ExpireCode, Code!vars
  <1>4. x1' \in Code!Limits
    <2>1. \A s \in Code!Limits : [s EXCEPT !.short = FALSE] \in Code!Limits
      BY DEF Code!Limits
    <2>2. \A s \in Code!Limits : [s EXCEPT !.long = 0] \in Code!Limits
      <3>1. 0 \in 0..LongLimit
        BY ServicesAssumption
      <3> QED
        BY <3>1 DEF Code!Limits
    <2>3. \A s \in Code!Limits : [s EXCEPT !.locked = FALSE] \in Code!Limits
      BY DEF Code!Limits
    <2> QED
      BY <1>1, <2>1, <2>2, <2>3 DEF Code!LimitsEnd, Code!ExpireCode, Code!vars
  <1> QED
    BY <1>1, <1>2, <1>3, <1>4, CodeQuiet

\* A new code is stored: nobody has read it.
LEMMA CodeStored ==
    ASSUME Code!Inv, NEW w \in Workers, Code!StoreCode(w)
    PROVE  Code!Inv'
  <1> DEFINE t == job[w].token
             c == x4 + 1
             j == [job[w] EXCEPT !.pc = "meta"]
  <1>1. /\ job \in [Workers -> Code!Jobs] /\ job[w] \in Code!Jobs /\ job[w].code <= x4
        /\ x2 \in [Pair -> Code!Codes \cup {0}] /\ x5 \subseteq Pair /\ x4 \in 0..MaxCodes
        /\ x6 \in [Code!Codes -> Nat] /\ x7 \in BOOLEAN
    BY DEF Code!Inv, Code!TypeOK, Code!CodesAreDrawn
  <1>2. /\ job[w].pc = "store" /\ t \in Pair /\ c \in Code!Codes
        /\ x2' = [x2 EXCEPT ![t] = c] /\ x4' = c /\ x5' = x5 \cup {t}
        /\ job' = [job EXCEPT ![w] = j]
        /\ UNCHANGED <<x1, x3, x6, x7>>
    BY DEF Code!StoreCode, Code!At, Code!Goto, Code!generateOTP, Code!Inv,
           Code!RequestsHaveTokens
  <1>3. j \in Code!Jobs /\ j.pc = "meta" /\ j.code = job[w].code /\ j.token = t
    BY <1>1 DEF Code!Jobs
  <1> HIDE DEF t, j
  <1>4. c \in Nat /\ x4 \in Nat /\ x4 < c /\ c # 0 /\ Code!Codes \subseteq Nat /\ 0 \notin Code!Codes
    BY <1>1, ServicesAssumption DEF Code!Codes
  <1> HIDE DEF c
  <1>5. /\ job' \in [Workers -> Code!Jobs] /\ job'[w] = j
        /\ \A v \in Workers \ {w} : job'[v] = job[v]
        /\ x2' \in [Pair -> Code!Codes \cup {0}] /\ x2'[t] = c
        /\ \A u \in Pair \ {t} : x2'[u] = x2[u]
    BY <1>1, <1>2, <1>3
  <1>6. x4' \in 0..MaxCodes
    BY <1>2, ServicesAssumption DEF Code!Codes
  <1>7. Code!TypeOK'
    BY <1>2, <1>5, <1>6 DEF Code!Inv, Code!TypeOK
  <1>8. /\ \A u \in Pair : x2[u] <= x4 /\ x2[u] \in Nat /\ x2[u] < c
        /\ \A v \in Workers : job[v].code <= x4 /\ job[v].code \in Nat /\ job[v].code < c
        /\ \A d \in Code!Codes : d > x4 => x6[d] = 0
    <2>1. \A u \in Pair : x2[u] \in Nat /\ x2[u] <= x4
      <3>1. \A u \in Pair : x2[u] \in Code!Codes \cup {0}
        BY <1>1
      <3>2. \A u \in Pair : x2[u] <= x4
        BY DEF Code!Inv, Code!CodesAreDrawn
      <3>3. Code!Codes \cup {0} \subseteq Nat
        BY <1>4
      <3> QED
        BY <3>1, <3>2, <3>3
    <2>2. \A v \in Workers : job[v].code \in Nat /\ job[v].code <= x4
      <3>1. \A v \in Workers : job[v].code \in Code!Codes \cup {0}
        BY <1>1 DEF Code!Jobs
      <3>2. \A v \in Workers : job[v].code <= x4
        BY DEF Code!Inv, Code!CodesAreDrawn
      <3>3. Code!Codes \cup {0} \subseteq Nat
        BY <1>4
      <3> QED
        BY <3>1, <3>2, <3>3
    <2>3. \A d \in Code!Codes : d > x4 => x6[d] = 0
      BY DEF Code!Inv, Code!CodesAreDrawn
    <2>4. \A n \in Nat : n <= x4 => n < c
      BY <1>4
    <2> QED
      BY <2>1, <2>2, <2>3, <2>4
  <1>9. Code!CodesAreDrawn'
    BY <1>2, <1>3, <1>4, <1>5, <1>8 DEF Code!CodesAreDrawn
  <1>10. Code!RequestsHaveTokens'
    BY <1>2, <1>3, <1>5 DEF Code!Inv, Code!RequestsHaveTokens
  <1>11. Code!OneTokenPerCode'
    BY <1>2, <1>3, <1>4, <1>5, <1>8 DEF Code!Inv, Code!OneTokenPerCode
  <1>12. Code!OpenIsUnused'
    BY <1>2, <1>3, <1>4, <1>5, <1>8 DEF Code!Inv, Code!OpenIsUnused
  <1>13. CodeReaderSteps
    BY <1>2, <1>3, <1>5 DEF CodeReaderSteps, Code!Verifying
  <1>14. Code!ReadersBounded' /\ Code!CodeUsesBounded'
    <2>1. CASE x7
      BY <1>2, <2>1 DEF Code!Inv, Code!CodeUsesBounded, Code!ReadersBounded
    <2>2. CASE ~x7
      BY <1>1, <1>2, <1>13, <2>2, CodeReaders
    <2> QED
      BY <2>1, <2>2
  <1> QED
    BY <1>7, <1>9, <1>10, <1>11, <1>12, <1>14 DEF Code!Inv

\* A code is read: until then it was not accepted.
LEMMA CodeRead ==
    ASSUME Code!Inv, NEW w \in Workers, NEW t \in Pair, NEW c \in Code!Codes,
           Code!ReadCode(w, t, c)
    PROVE  Code!Inv'
  <1> DEFINE j == [Code!Free EXCEPT !.pc = "delete", !.op = "verify", !.token = t, !.code = c]
  <1>1. /\ job \in [Workers -> Code!Jobs] /\ x2 \in [Pair -> Code!Codes \cup {0}]
        /\ x6 \in [Code!Codes -> Nat] /\ x7 \in BOOLEAN
    BY DEF Code!Inv, Code!TypeOK
  <1>2. /\ x2[t] = c /\ c # 0 /\ job' = [job EXCEPT ![w] = j] /\ job[w].pc = "idle"
        /\ UNCHANGED <<x1, x2, x3, x4, x5, x6, x7>>
    BY DEF Code!ReadCode, Code!At
  <1>3. j \in Code!Jobs /\ j.pc = "delete" /\ j.code = c /\ j.token = t
    <2>1. Code!Free \in Code!Jobs
      BY ServicesAssumption DEF Code!Free, Code!Jobs
    <2> QED
      BY <2>1 DEF Code!Jobs
  <1> HIDE DEF j
  <1>4. /\ job' \in [Workers -> Code!Jobs] /\ job'[w] = j
        /\ \A v \in Workers \ {w} : job'[v] = job[v]
    BY <1>1, <1>2, <1>3
  <1>5. Code!TypeOK'
    BY <1>2, <1>4 DEF Code!Inv, Code!TypeOK
  <1>6. Code!CodesAreDrawn'
    BY <1>2, <1>3, <1>4 DEF Code!Inv, Code!CodesAreDrawn
  <1>7. Code!RequestsHaveTokens'
    BY <1>3, <1>4 DEF Code!Inv, Code!RequestsHaveTokens
  <1>8. Code!OneTokenPerCode'
    BY <1>2, <1>3, <1>4 DEF Code!Inv, Code!OneTokenPerCode
  <1>9. Code!OpenIsUnused'
    BY <1>2, <1>3, <1>4 DEF Code!Inv, Code!OpenIsUnused
  <1>10. ~x7 => CodeReaderSteps
    <2> SUFFICES ASSUME ~x7 PROVE CodeReaderSteps
      OBVIOUS
    <2>1. x6[c] = 0
      BY <1>2 DEF Code!Inv, Code!OpenIsUnused
    <2>2. \A d \in Code!Codes \ {c} : Code!Verifying(d)' \subseteq Code!Verifying(d)
      BY <1>3, <1>4 DEF Code!Verifying
    <2> QED
      BY <1>2, <2>1, <2>2 DEF CodeReaderSteps
  <1>11. Code!ReadersBounded' /\ Code!CodeUsesBounded'
    <2>1. CASE x7
      BY <1>2, <2>1 DEF Code!Inv, Code!CodeUsesBounded, Code!ReadersBounded
    <2>2. CASE ~x7
      BY <1>1, <1>2, <1>10, <2>2, CodeReaders
    <2> QED
      BY <2>1, <2>2
  <1> QED
    BY <1>5, <1>6, <1>7, <1>8, <1>9, <1>11 DEF Code!Inv

\* The code of a request's token is deleted, or its deletion lost.
LEMMA CodeDeleted ==
    ASSUME Code!Inv, NEW w \in Workers, Code!DeleteCode(w)
    PROVE  Code!Inv'
  <1> DEFINE t == job[w].token
             c == job[w].code
             j == [job[w] EXCEPT !.pc = "voucher"]
  <1>1. /\ job \in [Workers -> Code!Jobs] /\ job[w] \in Code!Jobs
        /\ x2 \in [Pair -> Code!Codes \cup {0}] /\ x6 \in [Code!Codes -> Nat] /\ x7 \in BOOLEAN
    BY DEF Code!Inv, Code!TypeOK
  <1>2. /\ job[w].pc = "delete" /\ job' = [job EXCEPT ![w] = j]
        /\ \/ x2' = [x2 EXCEPT ![t] = 0] /\ x7' = x7
           \/ x7' = TRUE /\ x2' = x2
        /\ UNCHANGED <<x1, x3, x4, x5, x6>>
    BY DEF Code!DeleteCode, Code!At, Code!Goto
  <1>3. /\ t \in Pair /\ c \in Code!Codes
        /\ \A u \in Pair : x2[u] = c => u = t
        /\ c # 0
    BY <1>2 DEF Code!Inv, Code!OneTokenPerCode, Code!RequestsHaveTokens, Code!Codes
  <1>4. j \in Code!Jobs /\ j.pc = "voucher" /\ j.code = c /\ j.token = t
    BY <1>1 DEF Code!Jobs
  <1> HIDE DEF j, c, t
  <1>5. /\ job' \in [Workers -> Code!Jobs] /\ job'[w] = j
        /\ \A v \in Workers \ {w} : job'[v] = job[v]
        /\ x2' \in [Pair -> Code!Codes \cup {0}]
        /\ \A u \in Pair : x2'[u] = x2[u] \/ x2'[u] = 0
        /\ ~x7' => x2'[t] = 0
    BY <1>1, <1>2, <1>3, <1>4
  <1>6. x7' \in BOOLEAN
    BY <1>1, <1>2
  <1>7. Code!TypeOK'
    BY <1>2, <1>5, <1>6 DEF Code!Inv, Code!TypeOK
  <1>8. Code!CodesAreDrawn'
    <2>1. \A u \in Pair : x2'[u] <= x4
      <3>1. 0 <= x4
        BY ServicesAssumption DEF Code!Inv, Code!TypeOK
      <3> QED
        BY <1>5, <3>1 DEF Code!Inv, Code!CodesAreDrawn
    <2> QED
      BY <1>2, <1>4, <1>5, <2>1 DEF Code!Inv, Code!CodesAreDrawn, c
  <1>9. Code!RequestsHaveTokens'
    BY <1>3, <1>4, <1>5 DEF Code!Inv, Code!RequestsHaveTokens
  <1>10. Code!OneTokenPerCode'
    <2>1. 0 \notin Code!Codes
      BY DEF Code!Codes
    <2> QED
      BY <1>1, <1>3, <1>4, <1>5, <2>1 DEF Code!Inv, Code!OneTokenPerCode
  <1>11. Code!OpenIsUnused'
    <2> SUFFICES ASSUME ~x7', NEW u \in Pair, x2'[u] # 0
                 PROVE  /\ x6'[x2'[u]] = 0
                        /\ \A v \in Workers : job'[v].pc = "voucher" => job'[v].code # x2'[u]
      BY DEF Code!OpenIsUnused
    <2>1. ~x7 /\ x2'[u] = x2[u] /\ u # t
      BY <1>2, <1>5
    <2>2. x2[u] # c
      BY <1>3, <2>1
    <2> QED
      BY <1>2, <1>4, <1>5, <2>1, <2>2 DEF Code!Inv, Code!OpenIsUnused
  <1>12. CodeReaderSteps
    <2>1. \A d : Code!Verifying(d)' = Code!Verifying(d)
      BY <1>2, <1>4, <1>5 DEF Code!Verifying, c
    <2> QED
      BY <1>2, <2>1 DEF CodeReaderSteps
  <1>13. Code!ReadersBounded' /\ Code!CodeUsesBounded'
    <2>1. CASE x7'
      <3>1. Code!CodeUsesBounded'
        BY <1>2 DEF Code!Inv, Code!CodeUsesBounded
      <3> QED
        BY <2>1, <3>1 DEF Code!ReadersBounded
    <2>2. CASE ~x7'
      <3>1. x7 = FALSE /\ x7' = FALSE
        BY <1>1, <1>2, <1>6, <2>2
      <3> QED
        BY <1>1, <1>2, <1>12, <3>1, CodeReaders
    <2> QED
      BY <2>1, <2>2
  <1> QED
    BY <1>7, <1>8, <1>9, <1>10, <1>11, <1>13 DEF Code!Inv

\* The code is accepted.
LEMMA CodeAccepted ==
    ASSUME Code!Inv, NEW w \in Workers, Code!StoreVoucher(w)
    PROVE  Code!Inv'
  <1>0. PICK c : c = job[w].code
    OBVIOUS
  <1> DEFINE n == IF x7 THEN x6[c] ELSE x6[c] + 1
  <1>1. /\ job \in [Workers -> Code!Jobs] /\ x2 \in [Pair -> Code!Codes \cup {0}]
        /\ x6 \in [Code!Codes -> Nat] /\ x7 \in BOOLEAN
    BY DEF Code!Inv, Code!TypeOK
  <1>2. /\ job[w].pc = "voucher" /\ job' = [job EXCEPT ![w] = Code!Free]
        /\ x6' = [x6 EXCEPT ![c] = n]
        /\ UNCHANGED <<x1, x2, x3, x4, x5, x7>>
    BY <1>0 DEF Code!StoreVoucher, Code!At, Code!Done
  <1>3. c \in Code!Codes /\ c <= x4 /\ 0 <= x4 /\ x4 \in Nat
    BY <1>0, <1>2, ServicesAssumption
       DEF Code!Inv, Code!OneTokenPerCode, Code!CodesAreDrawn, Code!TypeOK
  <1>4. Code!Free \in Code!Jobs /\ Code!Free.pc = "idle" /\ Code!Free.code = 0
    BY ServicesAssumption DEF Code!Free, Code!Jobs
  <1>5. n \in Nat
    BY <1>1, <1>3
  <1> HIDE DEF n
  <1>6. /\ job' \in [Workers -> Code!Jobs] /\ job'[w] = Code!Free
        /\ \A v \in Workers \ {w} : job'[v] = job[v]
        /\ x6' \in [Code!Codes -> Nat] /\ x6'[c] = n
        /\ \A d \in Code!Codes \ {c} : x6'[d] = x6[d]
    BY <1>1, <1>2, <1>3, <1>4, <1>5
  <1>7. Code!TypeOK'
    BY <1>2, <1>6 DEF Code!Inv, Code!TypeOK
  <1>8. Code!CodesAreDrawn'
    <2>1. \A d \in Code!Codes : d > x4 => d # c
      BY <1>3 DEF Code!Codes
    <2>2. \A d \in Code!Codes : d > x4 => x6'[d] = 0
      BY <1>6, <2>1 DEF Code!Inv, Code!CodesAreDrawn
    <2> QED
      BY <1>2, <1>3, <1>4, <1>6, <2>2 DEF Code!Inv, Code!CodesAreDrawn
  <1>9. Code!RequestsHaveTokens'
    BY <1>4, <1>6 DEF Code!Inv, Code!RequestsHaveTokens
  <1>10. Code!OneTokenPerCode'
    BY <1>2, <1>4, <1>6 DEF Code!Inv, Code!OneTokenPerCode
  <1>11. Code!OpenIsUnused'
    <2> SUFFICES ASSUME ~x7, NEW u \in Pair, x2[u] # 0
                 PROVE  /\ x6'[x2[u]] = 0
                        /\ \A v \in Workers : job'[v].pc = "voucher" => job'[v].code # x2[u]
      BY <1>2 DEF Code!OpenIsUnused
    <2>1. x2[u] # c /\ x2[u] \in Code!Codes /\ x6[x2[u]] = 0
      BY <1>0, <1>1, <1>2 DEF Code!Inv, Code!OpenIsUnused
    <2> QED
      BY <1>4, <1>6, <2>1 DEF Code!Inv, Code!OpenIsUnused
  <1>12. ASSUME x7 = FALSE PROVE CodeReaderSteps
    <2>1. x6'[c] = x6[c] + 1
      BY <1>6, <1>12 DEF n
    <2>2. w \in Code!Verifying(c) /\ Code!Verifying(c)' = Code!Verifying(c) \ {w}
      BY <1>0, <1>2, <1>4, <1>6 DEF Code!Verifying
    <2>3. \A d \in Code!Codes \ {c} : Code!Verifying(d)' \subseteq Code!Verifying(d)
      BY <1>4, <1>6 DEF Code!Verifying
    <2> QED
      BY <1>6, <2>1, <2>2, <2>3 DEF CodeReaderSteps
  <1>13. Code!ReadersBounded' /\ Code!CodeUsesBounded'
    <2>1. CASE x7
      <3>1. x6' = x6
        BY <1>1, <1>2, <2>1 DEF n
      <3>2. Code!CodeUsesBounded'
        BY <3>1 DEF Code!Inv, Code!CodeUsesBounded
      <3> QED
        BY <1>2, <2>1, <3>2 DEF Code!ReadersBounded
    <2>2. CASE ~x7
      <3>1. x7 = FALSE /\ x7' = FALSE
        BY <1>1, <1>2, <2>2
      <3> QED
        BY <1>6, <1>12, <3>1, CodeReaders
    <2> QED
      BY <2>1, <2>2
  <1> QED
    BY <1>7, <1>8, <1>9, <1>10, <1>11, <1>13 DEF Code!Inv

\* Every step of EmailCodes keeps the invariant.
LEMMA CodeNext == Code!Inv /\ [Code!Next]_(Code!vars) => Code!Inv'
  <1> SUFFICES ASSUME Code!Inv, [Code!Next]_(Code!vars) PROVE Code!Inv'
    OBVIOUS
  <1>1. ASSUME NEW w \in Workers,
               \/ Code!SendHandlers(w) \/ Code!SendEmailVerificationOTP(w)
               \/ Code!ResendEmailVerificationOTP(w) \/ Code!VerifyHandler(w)
               \/ Code!VerifyEmailOTP(w) \/ Code!Fail(w)
        PROVE  Code!Inv'
    BY <1>1, CodeRequests, CodeStored, CodeRead, CodeDeleted, CodeAccepted
       DEF Code!SendEmailVerificationOTP, Code!VerifyHandler, Code!VerifyEmailOTP
  <1>2. CASE Code!LimitsEnd \/ (\E t \in Pair : Code!ExpireCode(t)) \/ UNCHANGED Code!vars
    BY <1>2, CodeKeysEnd
  <1> QED
    BY <1>1, <1>2 DEF Code!Next

\* The invariant of EmailCodes in every behaviour of the services.
THEOREM CodeSafe == Spec => [](component = "codes" => Code!Inv)
  <1>1. Init => (component = "codes" => Code!Inv)
    BY CodeInit DEF Init
  <1>2. (component = "codes" => Code!Inv) /\ [Next]_vars
            => (component = "codes" => Code!Inv)'
    <2> SUFFICES ASSUME component = "codes" => Code!Inv, [Next]_vars, component' = "codes"
                 PROVE  Code!Inv'
      OBVIOUS
    <2>1. component = "codes" /\ [Code!Next]_(Code!vars)
      BY DEF Next, vars, Code!vars
    <2> QED
      BY <2>1, CodeNext
  <1> QED
    BY <1>1, <1>2, PTL DEF Spec

\* A mailed code is accepted at most once by each request that verifies it at
\* the same time, whatever resends, expiries and failures come in between, as
\* long as no deletion is lost (VerifyEmailOTP, ResendEmailVerificationOTP).
THEOREM CodesAreSpent == Spec => []CodeUsesBounded
  <1>1. (component = "codes" => Code!Inv) => CodeUsesBounded
    BY DEF CodeUsesBounded, Code!Inv
  <1> QED
    BY <1>1, CodeSafe, PTL

=============================================================================
