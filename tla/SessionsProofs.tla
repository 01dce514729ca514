--------------------------- MODULE SessionsProofs ---------------------------
(***************************************************************************)
(* Sessions implements TokenRevocation, for any number of tokens, requests *)
(* and background jobs: a token whose logout was confirmed is granted to   *)
(* no request that presents it afterwards.                                 *)
(***************************************************************************)
EXTENDS Sessions, TLAPS

\* No session yet.
LEMMA InitInv == Init => Inv
  <1> SUFFICES ASSUME Init PROVE Inv
    OBVIOUS
  <1>1. Idle \in Reqs /\ Idle.pc = "idle" /\ Idle.op = "none" /\ Idle.late = FALSE
    BY DEF Idle, Reqs, AuthOps
  <1>2. TypeOK
    BY <1>1 DEF Init, TypeOK
  <1>3. RequestFits(Idle) /\ \A out, gone : LateFits(Idle, out, gone)
    BY <1>1 DEF RequestFits, LateFits
  <1> QED
    BY <1>2, <1>3 DEF Inv, Init

\* What a step may do to the two stores and the jobs: keep their types, let
\* tokens expire, and drop their copies with them.
StoreSteps ==
    /\ row' \in [Tokens -> {"none", "active", "revoked"}]
    /\ copy' \subseteq Tokens /\ blacklist' \subseteq Tokens /\ expired' \subseteq Tokens
    /\ known' \subseteq Tokens /\ deleted' \in BOOLEAN
    /\ jobs' \subseteq [kind : {"touch", "touched", "restore"}, token : Tokens]
    /\ copy' \cap expired' = {}
    /\ expired \subseteq expired'

\* What a step of a request means to its check, from old to new.
CheckSteps(old, new) ==
    \/ new = old /\ ended' = ended
    \/ /\ old = "none" /\ ended' = ended
       /\ \E t \in Tokens : new = IF t \in ended THEN "lost" ELSE "open"
    \/ old = "open" /\ new = "granted" /\ ended' = ended
    \/ old # "none" /\ new = "none" /\ ended' = ended
    \/ /\ old = "granted" /\ new = "none"
       /\ \E t \in Tokens : ended' = ended \cup {t}

\* Such a step is one of TokenRevocation.
LEMMA CheckMaps ==
    ASSUME TypeOK, NEW r \in Requests, NEW q, req' = [req EXCEPT ![r] = q],
           CheckSteps(Checking(req[r]), Checking(q))
    PROVE  [Revocation!Next]_(Revocation!vars)
  <1>1. req \in [Requests -> Reqs]
    BY DEF TypeOK
  <1>2. check' = [check EXCEPT ![r] = Checking(q)]
    <2>1. \A s \in Requests : Checking(req[s])' = IF s = r THEN Checking(q) ELSE Checking(req[s])
      <3> SUFFICES ASSUME NEW s \in Requests
                   PROVE  Checking(req'[s]) = IF s = r THEN Checking(q) ELSE Checking(req[s])
        BY DEF Checking
      <3> QED
        BY <1>1
    <2> QED
      BY <2>1 DEF check
  <1>3. check[r] = Checking(req[r])
    BY DEF check
  <1>4. CASE Checking(q) = check[r] /\ ended' = ended
    <2>1. check' = check
      BY <1>2, <1>4 DEF check
    <2> QED
      BY <1>4, <2>1 DEF Revocation!vars
  <1>5. ASSUME NEW t \in Tokens, check[r] = "none", ended' = ended,
               Checking(q) = IF t \in ended THEN "lost" ELSE "open"
        PROVE  Revocation!Next
    <2>1. Revocation!Begin(r, t)
      BY <1>2, <1>5 DEF Revocation!Begin
    <2> QED
      BY <2>1 DEF Revocation!Next
  <1>6. CASE check[r] = "open" /\ Checking(q) = "granted" /\ ended' = ended
    <2>1. Revocation!Grant(r)
      BY <1>2, <1>6 DEF Revocation!Grant
    <2> QED
      BY <2>1 DEF Revocation!Next
  <1>7. CASE check[r] # "none" /\ Checking(q) = "none" /\ ended' = ended
    <2>1. Revocation!Finish(r)
      BY <1>2, <1>7 DEF Revocation!Finish
    <2> QED
      BY <2>1 DEF Revocation!Next
  <1>8. ASSUME NEW t \in Tokens, check[r] = "granted", Checking(q) = "none",
               ended' = ended \cup {t}
        PROVE  Revocation!Next
    <2>1. Revocation!Revoke(r, t)
      BY <1>2, <1>8 DEF Revocation!Revoke
    <2> QED
      BY <2>1 DEF Revocation!Next
  <1> QED
    BY <1>3, <1>4, <1>5, <1>6, <1>7, <1>8 DEF CheckSteps

\* A step of a request keeps the invariant and is a step of TokenRevocation, when
\* it fits the stores, the request's operation and what a late one may reach.
LEMMA RequestStep ==
    ASSUME Inv, NEW r \in Requests, NEW q \in Reqs, req' = [req EXCEPT ![r] = q],
           StoreSteps, expired' = expired, RequestFits(q), LateFits(q, ended, expired),
           CheckSteps(Checking(req[r]), Checking(q)), ended' \subseteq blacklist' \cup expired'
    PROVE  Inv' /\ [Revocation!Next]_(Revocation!vars)
  <1>1. TypeOK /\ req \in [Requests -> Reqs] /\ ended \subseteq Tokens
    BY DEF Inv, TypeOK
  <1>2. ended \subseteq ended' /\ ended' \subseteq Tokens
    BY <1>1 DEF CheckSteps
  <1>3. req' \in [Requests -> Reqs]
    BY <1>1
  <1>4. TypeOK'
    BY <1>2, <1>3 DEF TypeOK, StoreSteps
  <1>5. \A s \in Requests : RequestFits(req'[s]) /\ LateFits(req'[s], ended, expired)
    <2> SUFFICES ASSUME NEW s \in Requests
                 PROVE  RequestFits(req'[s]) /\ LateFits(req'[s], ended, expired)
      OBVIOUS
    <2>1. CASE s = r
      BY <1>1, <2>1
    <2>2. CASE s # r
      BY <1>1, <2>2 DEF Inv
    <2> QED
      BY <2>1, <2>2
  <1>6. \A s \in Requests : LateFits(req'[s], ended', expired')
    BY <1>2, <1>5 DEF LateFits
  <1>7. Inv'
    BY <1>4, <1>5, <1>6 DEF Inv, StoreSteps
  <1> QED
    BY <1>1, <1>7, CheckMaps

\* A step of a job or of time keeps the invariant.
LEMMA StoreStep ==
    ASSUME Inv, StoreSteps, UNCHANGED <<req, ended>>, ended' \subseteq blacklist' \cup expired'
    PROVE  Inv' /\ UNCHANGED Revocation!vars
  <1>1. TypeOK'
    BY DEF Inv, TypeOK, StoreSteps
  <1>2. \A r \in Requests : RequestFits(req'[r]) /\ LateFits(req'[r], ended', expired')
    BY DEF Inv, LateFits, StoreSteps
  <1>3. Inv'
    BY <1>1, <1>2 DEF Inv, StoreSteps
  <1>4. UNCHANGED Revocation!vars
    BY DEF Revocation!vars, check
  <1> QED
    BY <1>3, <1>4

-----------------------------------------------------------------------------
(* What became of the check of a request, case by case *)

\* A login or a deletion has no token to check.
LEMMA NotChecked == ASSUME NEW q, q.op \notin AuthOps PROVE Checking(q) = "none"
  BY DEF Checking

\* Past the check a request holds what it was granted.
LEMMA PastCheck ==
    ASSUME NEW q, q.op \in AuthOps, q.pc \notin {"blacklist", "lookup", "fallback"}
    PROVE  Checking(q) = "granted"
  BY DEF Checking

\* During the check it is lost or open.
LEMMA DuringCheck ==
    ASSUME NEW q, q.op \in AuthOps, q.pc \in {"blacklist", "lookup", "fallback"}
    PROVE  /\ q.late => Checking(q) = "lost"
           /\ ~q.late => Checking(q) = "open"
  BY DEF Checking

-----------------------------------------------------------------------------
(* The steps of a request *)

\* An answer frees the slot; nobody relies on it unless it confirms a logout.
LEMMA Answers ==
    ASSUME Inv, NEW r \in Requests, NEW code, Answer(r, code), StoreSteps, expired' = expired,
           \/ /\ req[r].op # "logout" \/ code # 200
              /\ blacklist' = blacklist
           \/ /\ req[r].pc = "blacklistIt" /\ req[r].op = "logout" /\ code = 200
              /\ blacklist' = blacklist \cup {req[r].target}
    PROVE  Inv' /\ [Revocation!Next]_(Revocation!vars)
  <1>1. Idle \in Reqs /\ RequestFits(Idle) /\ LateFits(Idle, ended, expired)
    BY DEF Idle, Reqs, AuthOps, RequestFits, LateFits
  <1>2. Checking(Idle) = "none" /\ Checking(req[r]) \in {"none", "granted", "lost", "open"}
    <2>1. Idle.op \notin AuthOps
      BY DEF Idle, AuthOps
    <2> QED
      BY <2>1 DEF Checking
  <1>3. req' = [req EXCEPT ![r] = Idle]
    BY DEF Answer
  <1>4. ended \subseteq blacklist \cup expired /\ RequestFits(req[r])
    BY DEF Inv
  <1>5. CASE (req[r].op # "logout" \/ code # 200) /\ blacklist' = blacklist
    <2>1. ended' = ended
      BY <1>5 DEF Answer
    <2>2. CheckSteps(Checking(req[r]), Checking(Idle))
      BY <1>2, <2>1 DEF CheckSteps
    <2> QED
      BY <1>1, <1>3, <1>4, <1>5, <2>1, <2>2, RequestStep
  <1>6. CASE /\ req[r].pc = "blacklistIt" /\ req[r].op = "logout" /\ code = 200
             /\ blacklist' = blacklist \cup {req[r].target}
    <2>1. ended' = ended \cup {req[r].target}
      BY <1>6 DEF Answer
    <2>2. req[r].target \in Tokens /\ Checking(req[r]) = "granted"
      <3>1. req[r].op \in AuthOps /\ req[r].pc \notin {"blacklist", "lookup", "fallback"}
        BY <1>6 DEF AuthOps
      <3> QED
        BY <1>4, <1>6, <3>1, PastCheck DEF RequestFits
    <2>3. CheckSteps(Checking(req[r]), Checking(Idle))
      BY <1>2, <2>1, <2>2 DEF CheckSteps
    <2>4. ended' \subseteq blacklist' \cup expired'
      BY <1>4, <1>6, <2>1
    <2> QED
      BY <1>1, <1>3, <2>3, <2>4, RequestStep, ZenonT(60)
  <1> QED
    BY <1>5, <1>6

\* A request goes on to its next step, with what it has found.
LEMMA GoesOn ==
    ASSUME Inv, NEW r \in Requests, NEW l, NEW todo \in SUBSET Tokens,
           req' = [req EXCEPT ![r].pc = l, ![r].todo = todo],
           \/ req[r].pc = "openRow" /\ l = "openCopy"
           \/ req[r].pc = "blacklist" /\ l = "lookup" /\ req[r].token \notin blacklist
           \/ req[r].pc = "lookup" /\ l = "fallback"
           \/ req[r].pc = "granted" /\ l = "findRow" /\ req[r].op = "logout"
           \/ req[r].pc = "findRow" /\ l = "blacklistIt"
           \/ /\ req[r].pc \in {"granted", "deleteAll"} /\ l = "deleteAll"
              /\ req[r].op \in {"logoutAll", "delete"},
           StoreSteps, expired' = expired, blacklist' = blacklist, ended' = ended
    PROVE  Inv' /\ [Revocation!Next]_(Revocation!vars)
  <1> DEFINE q == [req[r] EXCEPT !.pc = l, !.todo = todo]
  <1>1. req[r] \in Reqs /\ RequestFits(req[r]) /\ LateFits(req[r], ended, expired)
        /\ ended \subseteq blacklist \cup expired
    BY DEF Inv, TypeOK
  <1>2. /\ q \in Reqs /\ q.pc = l /\ q.op = req[r].op /\ q.token = req[r].token
        /\ q.target = req[r].target /\ q.late = req[r].late
    BY <1>1 DEF Reqs
  <1>3. req' = [req EXCEPT ![r] = q]
    OBVIOUS
  <1> HIDE DEF q
  <1>4. RequestFits(q)
    BY <1>1, <1>2 DEF RequestFits
  <1>5. LateFits(q, ended, expired)
    BY <1>1, <1>2 DEF LateFits
  <1>6. Checking(q) = Checking(req[r])
    BY <1>1, <1>2 DEF Checking, RequestFits, AuthOps
  <1> QED
    BY <1>1, <1>2, <1>3, <1>4, <1>5, <1>6, RequestStep DEF CheckSteps

\* The same, when it goes on with nothing more than it had.
LEMMA Goes ==
    ASSUME Inv, NEW r \in Requests, NEW l, Goto(r, l),
           \/ req[r].pc = "openRow" /\ l = "openCopy"
           \/ req[r].pc = "blacklist" /\ l = "lookup" /\ req[r].token \notin blacklist
           \/ req[r].pc = "lookup" /\ l = "fallback"
           \/ req[r].pc = "granted" /\ l = "findRow" /\ req[r].op = "logout"
           \/ req[r].pc = "findRow" /\ l = "blacklistIt",
           StoreSteps, expired' = expired, blacklist' = blacklist, ended' = ended
    PROVE  Inv' /\ [Revocation!Next]_(Revocation!vars)
  <1>1. req \in [Requests -> Reqs] /\ req[r] \in Reqs
    BY DEF Inv, TypeOK
  <1>2. req[r].todo \in SUBSET Tokens
    BY <1>1 DEF Reqs
  <1>3. [req[r] EXCEPT !.pc = l] = [req[r] EXCEPT !.pc = l, !.todo = req[r].todo]
    BY <1>1 DEF Reqs
  <1>4. req' = [req EXCEPT ![r].pc = l, ![r].todo = req[r].todo]
    BY <1>1, <1>3 DEF Goto
  <1> QED
    BY <1>2, <1>4, GoesOn

\* The check of a token is passed: it was neither revoked nor had it expired.
LEMMA Grants ==
    ASSUME Inv, NEW r \in Requests, Grant(r), req[r].pc \in {"lookup", "fallback"},
           req[r].token \notin expired, StoreSteps,
           expired' = expired, blacklist' = blacklist, ended' = ended
    PROVE  Inv' /\ [Revocation!Next]_(Revocation!vars)
  <1> DEFINE q == [req[r] EXCEPT !.pc = "granted", !.token = {}, !.late = FALSE]
  <1>1. req[r] \in Reqs /\ RequestFits(req[r]) /\ LateFits(req[r], ended, expired)
        /\ ended \subseteq blacklist \cup expired
    BY DEF Inv, TypeOK
  <1>2. /\ q \in Reqs /\ q.pc = "granted" /\ q.op = req[r].op /\ q.target = req[r].target
        /\ q.late = FALSE
    BY <1>1 DEF Reqs
  <1>3. req' = [req EXCEPT ![r] = q]
    BY DEF Grant
  <1> HIDE DEF q
  <1>4. RequestFits(q) /\ LateFits(q, ended, expired)
    BY <1>1, <1>2 DEF RequestFits, LateFits
  <1>5. Checking(q) = "granted" /\ Checking(req[r]) = "open"
    BY <1>1, <1>2 DEF Checking, RequestFits, LateFits, Reqs
  <1> QED
    BY <1>1, <1>2, <1>3, <1>4, <1>5, RequestStep DEF CheckSteps

\* A request comes in: a login, a token that is presented, or a deletion.
LEMMA Begins ==
    ASSUME Inv, NEW r \in Requests,
           \/ Login(r)
           \/ \E t \in Tokens, s \in Tokens \cup {{}}, op \in AuthOps,
                 c \in {GenerateAccessToken, GenerateRefreshToken} : Present(r, t, op, s, c)
           \/ AdminDeleteUser(r)
    PROVE  Inv' /\ [Revocation!Next]_(Revocation!vars)
  <1>1. /\ UNCHANGED <<row, copy, blacklist, expired, known, jobs, ended>>
        /\ deleted' \in BOOLEAN /\ req[r].pc = "idle"
    BY DEF Login, Present, AdminDeleteUser, At, stores, Inv, TypeOK
  <1>2. StoreSteps
    BY <1>1 DEF StoreSteps, Inv, TypeOK
  <1>3. Idle \in Reqs /\ Idle.late = FALSE
    BY DEF Idle, Reqs, AuthOps
  <1>4. Checking(req[r]) = "none"
    <2>1. req[r].op \notin AuthOps
      BY <1>1 DEF Inv, RequestFits, AuthOps
    <2> QED
      BY <2>1, NotChecked
  <1>5. ended \subseteq blacklist \cup expired
    BY DEF Inv
  <1>6. CASE Login(r)
    <2>1. PICK t \in Tokens : req' = [req EXCEPT ![r] = [Idle EXCEPT
                                 !.op = "login", !.token = t, !.pc = "openRow"]]
      BY <1>6 DEF Login
    <2> DEFINE q == [Idle EXCEPT !.op = "login", !.token = t, !.pc = "openRow"]
    <2>2. q \in Reqs /\ q.op = "login" /\ q.token = t /\ q.pc = "openRow" /\ q.late = FALSE
      BY <1>3 DEF Reqs
    <2>3. req' = [req EXCEPT ![r] = q]
      BY <2>1
    <2> HIDE DEF q
    <2>4. RequestFits(q) /\ LateFits(q, ended, expired) /\ Checking(q) = "none"
      <3>1. q.op \notin AuthOps
        BY <2>2 DEF AuthOps
      <3> QED
        BY <2>2, <3>1, NotChecked DEF RequestFits, LateFits
    <2> QED
      BY <1>1, <1>2, <1>4, <1>5, <2>2, <2>3, <2>4, RequestStep DEF CheckSteps
  <1>7. CASE AdminDeleteUser(r)
    <2> DEFINE q == [Idle EXCEPT !.op = "delete", !.pc = "granted"]
    <2>1. req' = [req EXCEPT ![r] = q]
      BY <1>7 DEF AdminDeleteUser
    <2>2. q \in Reqs /\ q.op = "delete" /\ q.pc = "granted" /\ q.late = FALSE
      BY <1>3 DEF Reqs
    <2> HIDE DEF q
    <2>3. RequestFits(q) /\ LateFits(q, ended, expired) /\ Checking(q) = "none"
      <3>1. q.op \notin AuthOps
        BY <2>2 DEF AuthOps
      <3> QED
        BY <2>2, <3>1, NotChecked DEF RequestFits, LateFits
    <2> QED
      BY <1>1, <1>2, <1>4, <1>5, <2>1, <2>2, <2>3, RequestStep DEF CheckSteps
  <1>8. ASSUME NEW t \in Tokens, NEW s \in Tokens \cup {{}}, NEW op \in AuthOps,
               NEW c \in {GenerateAccessToken, GenerateRefreshToken}, Present(r, t, op, s, c)
        PROVE  Inv' /\ [Revocation!Next]_(Revocation!vars)
    <2>1. PICK late \in BOOLEAN : late = (t \in ended)
      <3>1. (t \in ended) \in BOOLEAN
        OBVIOUS
      <3> QED
        BY <3>1
    <2> DEFINE q == [pc |-> "blacklist", op |-> op, token |-> t, target |-> s, todo |-> {},
                     late |-> late]
    <2>2. req' = [req EXCEPT ![r] = q]
      BY <1>8, <2>1 DEF Present
    <2>3. q \in Reqs
      BY DEF Reqs
    <2>4. op = "logout" => s \in Tokens
      BY <1>8 DEF Present, LogoutTarget, RevokeTarget, Inv, TypeOK
    <2>5. q.pc = "blacklist" /\ q.op = op /\ q.token = t /\ q.target = s /\ q.late = late
      OBVIOUS
    <2> HIDE DEF q
    <2>6. RequestFits(q) /\ LateFits(q, ended, expired)
      BY <2>1, <2>4, <2>5 DEF RequestFits, LateFits
    <2>7. Checking(q) = IF t \in ended THEN "lost" ELSE "open"
      BY <2>1, <2>5, DuringCheck
    <2> QED
      BY <1>1, <1>2, <1>4, <1>5, <2>2, <2>3, <2>6, <2>7, RequestStep DEF CheckSteps
  <1> QED
    BY <1>6, <1>7, <1>8

\* The steps of a login, once the account is known.
LEMMA LoginSteps ==
    ASSUME Inv, NEW r \in Requests, OpenRow(r) \/ OpenCopy(r)
    PROVE  Inv' /\ [Revocation!Next]_(Revocation!vars)
  <1>1. TypeOK /\ RequestFits(req[r]) /\ copy \cap expired = {} /\ req[r] \in Reqs
    BY DEF Inv, TypeOK
  <1>2. /\ req[r].op = "login" /\ req[r].token \in Tokens
        /\ UNCHANGED <<blacklist, expired, deleted, jobs>>
    BY <1>1 DEF OpenRow, OpenCopy, At, RequestFits
  <1>3. CASE OpenRow(r)
    <2>1. StoreSteps
      BY <1>1, <1>2, <1>3 DEF OpenRow, InsertRow, StoreSteps, TypeOK
    <2>2. CASE Answer(r, 401)
      BY <1>2, <2>1, <2>2, Answers
    <2>3. CASE Goto(r, "openCopy") /\ UNCHANGED ended
      BY <1>2, <1>3, <2>1, <2>3, Goes DEF OpenRow, At
    <2> QED
      BY <1>3, <2>2, <2>3 DEF OpenRow
  <1>4. CASE OpenCopy(r)
    <2>1. StoreSteps
      BY <1>1, <1>2, <1>4 DEF OpenCopy, CreateSession, StoreSteps, TypeOK
    <2>2. PICK code : Answer(r, code)
      BY <1>4 DEF OpenCopy
    <2> QED
      BY <1>2, <2>1, <2>2, Answers
  <1> QED
    BY <1>3, <1>4

\* The checks of a token.
LEMMA CheckingSteps ==
    ASSUME Inv, NEW r \in Requests,
           CheckBlacklist(r) \/ FindCopy(r) \/ MissCopy(r) \/ FindRow(r)
    PROVE  Inv' /\ [Revocation!Next]_(Revocation!vars)
  <1>1. TypeOK /\ RequestFits(req[r]) /\ copy \cap expired = {} /\ req[r] \in Reqs
    BY DEF Inv, TypeOK
  <1>2. /\ req[r].pc \in {"blacklist", "lookup", "fallback"} /\ req[r].token \in Tokens
        /\ UNCHANGED <<row, copy, blacklist, expired, known, deleted>>
    BY <1>1 DEF CheckBlacklist, FindCopy, MissCopy, FindRow, At, RequestFits, stores
  <1>3. ASSUME jobs' = jobs \/ \E kind \in {"touch", "restore"} : StartJob(kind, req[r].token)
        PROVE  StoreSteps
    BY <1>1, <1>2, <1>3 DEF StartJob, Job, StoreSteps, TypeOK
  <1>4. ASSUME NEW code, Answer(r, code), jobs' = jobs, code # 200
        PROVE  Inv' /\ [Revocation!Next]_(Revocation!vars)
    BY <1>2, <1>3, <1>4, Answers
  <1>5. CASE CheckBlacklist(r)
    <2>1. CASE req[r].token \notin blacklist /\ Goto(r, "lookup") /\ UNCHANGED ended
      <3>1. jobs' = jobs /\ req[r].pc = "blacklist"
        BY <1>5 DEF CheckBlacklist, At
      <3> QED
        BY <1>2, <1>3, <2>1, <3>1, Goes
    <2> QED
      BY <1>4, <1>5, <2>1 DEF CheckBlacklist, IsTokenBlacklisted
  <1>6. CASE FindCopy(r)
    <2>1. req[r].token \notin expired /\ req[r].pc = "lookup" /\ ended' = ended /\ Grant(r)
      BY <1>1, <1>6 DEF FindCopy, At
    <2>2. StartJob("touch", req[r].token)
      BY <1>6 DEF FindCopy
    <2> QED
      BY <1>2, <1>3, <2>1, <2>2, Grants
  <1>7. CASE MissCopy(r)
    BY <1>2, <1>3, <1>7, Goes DEF MissCopy, At
  <1>8. CASE FindRow(r)
    <2>1. CASE FindSessionByToken(req[r].token) /\ StartJob("restore", req[r].token)
               /\ Grant(r) /\ UNCHANGED ended
      BY <1>2, <1>3, <1>8, <2>1, Grants DEF FindSessionByToken, FindRow, At
    <2> QED
      BY <1>4, <1>8, <2>1 DEF FindRow
  <1> QED
    BY <1>5, <1>6, <1>7, <1>8

\* The handlers that use a session or end it.
LEMMA LogoutSteps ==
    ASSUME Inv, NEW r \in Requests,
           UseHandler(r) \/ DeleteCopy(r) \/ EndRow(r) \/ BlacklistTarget(r)
    PROVE  Inv' /\ [Revocation!Next]_(Revocation!vars)
  <1>1. /\ TypeOK /\ RequestFits(req[r]) /\ copy \cap expired = {}
        /\ ended \subseteq blacklist \cup expired
    BY DEF Inv
  <1>2. UNCHANGED <<expired, known, deleted, jobs>>
    BY DEF UseHandler, DeleteCopy, EndRow, BlacklistTarget, stores
  <1>3. CASE UseHandler(r)
    <2>1. StoreSteps /\ req[r].op # "logout" /\ blacklist' = blacklist /\ Answer(r, 200)
      BY <1>1, <1>2, <1>3 DEF UseHandler, StoreSteps, TypeOK, stores
    <2> QED
      BY <1>2, <2>1, Answers
  <1>4. CASE DeleteCopy(r)
    <2>1. StoreSteps /\ blacklist' = blacklist /\ ended' = ended
      BY <1>1, <1>2, <1>4 DEF DeleteCopy, StoreSteps, TypeOK
    <2>2. req[r].pc = "granted" /\ req[r].op = "logout" /\ Goto(r, "findRow")
      BY <1>4 DEF DeleteCopy, At
    <2> QED
      BY <1>2, <2>1, <2>2, Goes
  <1>5. CASE EndRow(r)
    <2>1. blacklist' = blacklist /\ copy' = copy /\ req[r].pc = "findRow"
      BY <1>5 DEF EndRow, At
    <2>2. row' \in [Tokens -> {"none", "active", "revoked"}]
      BY <1>1, <1>5 DEF EndRow, RevokeRow, TypeOK
    <2>3. StoreSteps
      BY <1>1, <1>2, <2>1, <2>2 DEF StoreSteps, TypeOK
    <2>4. CASE Goto(r, "blacklistIt") /\ UNCHANGED ended
      BY <1>2, <2>1, <2>3, <2>4, Goes
    <2>5. CASE Answer(r, 500)
      BY <1>2, <2>1, <2>3, <2>5, Answers
    <2> QED
      BY <1>5, <2>4, <2>5 DEF EndRow
  <1>6. CASE BlacklistTarget(r)
    <2>1. PICK ok \in BOOLEAN : /\ BlacklistToken(req[r].target, ok)
                                /\ Answer(r, IF ok THEN 200 ELSE 500)
      BY <1>6 DEF BlacklistTarget
    <2>2. req[r].pc = "blacklistIt" /\ req[r].op = "logout" /\ req[r].target \in Tokens
      BY <1>1, <1>6 DEF BlacklistTarget, At, RequestFits
    <2>3. StoreSteps
      BY <1>1, <1>2, <1>6, <2>1, <2>2 DEF BlacklistTarget, BlacklistToken, StoreSteps, TypeOK
    <2>4. CASE ok
      BY <1>2, <2>1, <2>2, <2>3, <2>4, Answers DEF BlacklistToken
    <2>5. CASE ~ok
      <3>1. blacklist' = blacklist /\ Answer(r, 500)
        BY <2>1, <2>5 DEF BlacklistToken
      <3> QED
        BY <1>2, <2>3, <3>1, Answers
    <2> QED
      BY <2>4, <2>5
  <1> QED
    BY <1>3, <1>4, <1>5, <1>6

\* The handlers that end every session of the account.
LEMMA LogoutAllSteps ==
    ASSUME Inv, NEW r \in Requests, LogoutAllHandlers(r)
    PROVE  Inv' /\ [Revocation!Next]_(Revocation!vars)
  <1>1. TypeOK /\ RequestFits(req[r]) /\ copy \cap expired = {} /\ req[r] \in Reqs
    BY DEF Inv, TypeOK
  <1>2. UNCHANGED <<blacklist, expired, known, deleted, jobs>> /\ req[r].op # "logout"
    BY <1>1 DEF LogoutAllHandlers, PasswordRefused, InvalidateAllUserSessions, ScanCopies,
                DeleteFound, LogoutAllSessions, stores, At, RequestFits
  <1>3. CASE PasswordRefused(r)
    <2>1. StoreSteps /\ Answer(r, 400)
      BY <1>1, <1>2, <1>3 DEF PasswordRefused, StoreSteps, TypeOK, stores
    <2> QED
      BY <1>2, <2>1, Answers
  <1>4. CASE ScanCopies(r)
    <2>1. StoreSteps /\ req[r].pc = "granted" /\ req[r].op \in {"logoutAll", "delete"}
          /\ ended' = ended
      BY <1>1, <1>2, <1>4 DEF ScanCopies, StoreSteps, TypeOK, stores, At
    <2>2. PICK found \in SUBSET Tokens :
             req' = [req EXCEPT ![r].pc = "deleteAll", ![r].todo = found]
      BY <1>1, <1>4 DEF ScanCopies, TypeOK
    <2> QED
      BY <1>2, <2>1, <2>2, GoesOn
  <1>5. CASE DeleteFound(r)
    <2>1. StoreSteps /\ req[r].pc = "deleteAll" /\ ended' = ended
      BY <1>1, <1>2, <1>5 DEF DeleteFound, StoreSteps, TypeOK, At
    <2>2. req[r].op \in {"logoutAll", "delete"} /\ req[r].todo \subseteq Tokens
      BY <1>1, <2>1 DEF RequestFits, Reqs
    <2>3. PICK t \in req[r].todo : req' = [req EXCEPT ![r].todo = @ \ {t}]
      BY <1>5 DEF DeleteFound
    <2>4. req' = [req EXCEPT ![r].pc = "deleteAll", ![r].todo = req[r].todo \ {t}]
      <3>1. [req[r] EXCEPT !.todo = @ \ {t}]
            = [req[r] EXCEPT !.pc = "deleteAll", !.todo = req[r].todo \ {t}]
        BY <1>1, <2>1 DEF Reqs
      <3> QED
        BY <1>1, <2>3, <3>1 DEF TypeOK
    <2>5. req[r].todo \ {t} \in SUBSET Tokens
      BY <2>2
    <2> QED
      BY <1>2, <2>1, <2>2, <2>4, <2>5, GoesOn
  <1>6. CASE LogoutAllSessions(r)
    <2>1. copy' = copy /\ row' \in [Tokens -> {"none", "active", "revoked"}]
      BY <1>1, <1>6 DEF LogoutAllSessions, RevokeRows, TypeOK
    <2>2. StoreSteps
      BY <1>1, <1>2, <2>1 DEF StoreSteps, TypeOK
    <2>3. PICK code : Answer(r, code)
      BY <1>6 DEF LogoutAllSessions
    <2> QED
      BY <1>2, <2>2, <2>3, Answers
  <1> QED
    BY <1>3, <1>4, <1>5, <1>6 DEF LogoutAllHandlers, InvalidateAllUserSessions

-----------------------------------------------------------------------------
(* The jobs, time and the whole *)

\* A restored or touched copy is one of a token that has not expired, and an
\* entry of the blacklist is forgotten only with its token.
LEMMA TokenSteps ==
    ASSUME Inv, NEW t \in Tokens,
           UpdateSessionActivity(t) \/ restoreToRedis(t) \/ Expire(t) \/ ForgetBlacklist(t)
    PROVE  Inv' /\ UNCHANGED Revocation!vars
  <1>1. TypeOK /\ copy \cap expired = {} /\ ended \subseteq blacklist \cup expired
    BY DEF Inv
  <1>2. CASE TouchRead(t)
    <2>1. jobs' \subseteq [kind : {"touch", "touched", "restore"}, token : Tokens]
      BY <1>1, <1>2 DEF TouchRead, Job, TypeOK
    <2> QED
      BY <1>1, <1>2, <2>1, StoreStep DEF TouchRead, StoreSteps, TypeOK, stores
  <1>3. CASE TouchWrite(t)
    BY <1>1, <1>3, StoreStep DEF TouchWrite, CreateSession, StoreSteps, TypeOK
  <1>4. CASE restoreToRedis(t)
    BY <1>1, <1>4, StoreStep DEF restoreToRedis, CreateSession, StoreSteps, TypeOK
  <1>5. CASE Expire(t)
    BY <1>1, <1>5, StoreStep DEF Expire, StoreSteps, TypeOK
  <1>6. CASE ForgetBlacklist(t)
    BY <1>1, <1>6, StoreStep DEF ForgetBlacklist, StoreSteps, TypeOK
  <1> QED
    BY <1>2, <1>3, <1>4, <1>5, <1>6 DEF UpdateSessionActivity

\* A step of Sessions keeps the invariant and is one of TokenRevocation, or a stutter.
LEMMA SessionsNext == Inv /\ [Next]_vars => Inv' /\ [Revocation!Next]_(Revocation!vars)
  <1> SUFFICES ASSUME Inv, [Next]_vars PROVE Inv' /\ [Revocation!Next]_(Revocation!vars)
    OBVIOUS
  <1>1. CASE UNCHANGED vars
    <2>1. StoreSteps
      BY <1>1 DEF Inv, TypeOK, StoreSteps, vars, stores
    <2> QED
      BY <1>1, <2>1, StoreStep DEF Inv, vars, stores
  <1>2. ASSUME NEW r \in Requests,
               \/ loginWithIdentity(r) \/ Auth(r) \/ UseHandler(r)
               \/ Logout(r) \/ LogoutAllHandlers(r)
               \/ AdminDeleteUser(r)
        PROVE  Inv' /\ [Revocation!Next]_(Revocation!vars)
    <2>1. CASE loginWithIdentity(r)
      BY <2>1, Begins, LoginSteps DEF loginWithIdentity
    <2>2. CASE Auth(r)
      BY <2>2, Begins, CheckingSteps DEF Auth, ValidateToken, GetSession
    <2>3. CASE UseHandler(r) \/ Logout(r)
      BY <2>3, LogoutSteps DEF Logout, InvalidateSession
    <2>4. CASE LogoutAllHandlers(r)
      BY <2>4, LogoutAllSteps
    <2>5. CASE AdminDeleteUser(r)
      BY <2>5, Begins
    <2> QED
      BY <1>2, <2>1, <2>2, <2>3, <2>4, <2>5
  <1> QED
    BY <1>1, <1>2, TokenSteps DEF Next

\* Sessions keep their types, only a token that was neither logged out nor
\* expired is in Redis unnoticed, and a request that came with a logged-out
\* token is on its way to a refusal (session.Manager, Auth middleware).
THEOREM SessionsSafe == Spec => []Inv
  <1>1. Inv /\ [Next]_vars => Inv'
    BY SessionsNext
  <1> QED
    BY <1>1, InitInv, PTL DEF Spec

\* A token whose logout was answered with 200 is refused by every request that
\* presents it afterwards: Logout, RevokeSession and ValidateToken implement
\* TokenRevocation (service.go, session.go, auth middleware).
THEOREM LogoutsHold == Spec => RefinesRevocation
  <1>1. Init => Revocation!Init
    <2> SUFFICES ASSUME Init PROVE Revocation!Init
      OBVIOUS
    <2>1. Idle.op \notin AuthOps
      BY DEF Idle, AuthOps
    <2>2. Checking(Idle) = "none"
      BY <2>1, NotChecked
    <2> QED
      BY <2>2 DEF Init, Revocation!Init, check
  <1>2. Inv /\ [Next]_vars => [Revocation!Next]_(Revocation!vars)
    BY SessionsNext
  <1>3. Inv => TypeOK
    BY DEF Inv
  <1> QED
    BY <1>1, <1>2, <1>3, SessionsSafe, PTL DEF Spec, RefinesRevocation, Revocation!Spec

=============================================================================
