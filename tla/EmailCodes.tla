----------------------------- MODULE EmailCodes -----------------------------
(***************************************************************************)
(* The codes that prove an e-mail address before registration              *)
(* (SendEmailVerificationOTP, ResendEmailVerificationOTP, VerifyEmailOTP   *)
(* and the limits of RateLimiter), for one address.                        *)
(*                                                                         *)
(* Everything is kept in Redis, one command at a time: the requests below  *)
(* come between each other's commands.  A key may expire, or, when its     *)
(* EXPIRE was lost, never does.  A code is never drawn twice here.  What   *)
(* a right code is good for is the subject of Accounts.                    *)
(***************************************************************************)
EXTENDS Naturals, FiniteSets

CONSTANTS
    Tokens,       \* verifications that may be begun
    MaxCodes,     \* bound: codes that may be drawn
    Workers,      \* request slots
    LongLimit,    \* requests per half hour (4 in the code)
    ResendLimit   \* resends per verification (3 in the code)

VARIABLES
    limit,   \* the two counters and the lock of the address
    otp,     \* email_otp:<address>:<token>, or 0
    resent,  \* resend_count of email_otp_meta:<address>:<token>, or None
    drawn,   \* codes drawn so far
    begun,   \* tokens handed out
    job,     \* the request in each slot
    uses,    \* history, per code: how often it was accepted
    lost     \* history: the deletion of an accepted code failed

vars == <<limit, otp, resent, drawn, begun, job, uses, lost>>

Codes == 1..MaxCodes
None == ResendLimit + 1    \* there is no metadata
Free == [pc |-> "idle", op |-> "none", token |-> "none", code |-> 0, count |-> 0]

Init ==
    /\ limit = [short |-> FALSE, long |-> 0, locked |-> FALSE]
    /\ otp = [t \in Tokens |-> 0]
    /\ resent = [t \in Tokens |-> None]
    /\ drawn = 0 /\ begun = {}
    /\ job = [w \in Workers |-> Free]
    /\ uses = [c \in Codes |-> 0] /\ lost = FALSE

At(w, label) == job[w].pc = label
Goto(w, label) == job' = [job EXCEPT ![w].pc = label]
Done(w) == job' = [job EXCEPT ![w] = Free]

-----------------------------------------------------------------------------
(* RateLimiter *)

IsEmailVerificationLocked == limit.locked

\* INCR of the short counter: one request a minute
IncrShort(w) ==
    /\ At(w, "short")
    /\ limit' = [limit EXCEPT !.short = TRUE]
    /\ IF limit.short THEN Done(w) ELSE Goto(w, "long")
    /\ UNCHANGED <<otp, resent, drawn, begun, uses, lost>>

\* INCR of the long counter; above the limit all values are alike
IncrLong(w) ==
    LET over == limit.long >= LongLimit IN
    /\ At(w, "long")
    /\ limit' = [limit EXCEPT !.long = IF over THEN @ ELSE @ + 1]
    /\ Goto(w, IF over THEN "lock" ELSE IF job[w].op = "send" THEN "store" ELSE "session")
    /\ UNCHANGED <<otp, resent, drawn, begun, uses, lost>>

LockEmailVerification(w) ==
    /\ At(w, "lock")
    /\ limit' = [limit EXCEPT !.locked = TRUE]
    /\ Done(w)
    /\ UNCHANGED <<otp, resent, drawn, begun, uses, lost>>

LimitsEnd ==
    /\ limit' \in {[limit EXCEPT !.short = FALSE], [limit EXCEPT !.long = 0],
                   [limit EXCEPT !.locked = FALSE]}
    /\ UNCHANGED <<otp, resent, drawn, begun, job, uses, lost>>

-----------------------------------------------------------------------------
(* Sending a code *)

\* A code is asked for again, for a token that was handed out, or anew
Ask(w, op, t) ==
    /\ At(w, "idle")
    /\ ~IsEmailVerificationLocked
    /\ IF op = "resend" THEN t \in begun
       ELSE t \notin begun /\ \A v \in Workers : job[v].token # t
    /\ job' = [job EXCEPT ![w] = [Free EXCEPT !.pc = "short", !.op = op, !.token = t]]
    /\ UNCHANGED <<limit, otp, resent, drawn, begun, uses, lost>>

\* Resend looks at the code's key, not at its value
FindSession(w) ==
    /\ At(w, "session")
    /\ IF otp[job[w].token] # 0 THEN Goto(w, "count") ELSE Done(w)
    /\ UNCHANGED <<limit, otp, resent, drawn, begun, uses, lost>>

CheckResendCount(w) ==
    LET n == resent[job[w].token] IN
    /\ At(w, "count")
    /\ IF n # None /\ n < ResendLimit
       THEN job' = [job EXCEPT ![w].pc = "store", ![w].count = n + 1]
       ELSE Done(w)
    /\ UNCHANGED <<limit, otp, resent, drawn, begun, uses, lost>>

generateOTP == drawn + 1

\* A new token, or the code of an old one replaced.  Whoever verified or
\* outlived the verification since FindSession finds it open again.
StoreCode(w) ==
    LET t == job[w].token IN
    /\ At(w, "store")
    /\ generateOTP \in Codes
    /\ otp' = [otp EXCEPT ![t] = generateOTP]
    /\ drawn' = generateOTP
    /\ begun' = begun \cup {t}
    /\ Goto(w, "meta")
    /\ UNCHANGED <<limit, resent, uses, lost>>

\* The error is ignored.  The mail is sent by a goroutine, and may fail.
StoreMeta(w) ==
    /\ At(w, "meta")
    /\ resent' \in {[resent EXCEPT ![job[w].token] = job[w].count], resent}
    /\ Done(w)
    /\ UNCHANGED <<limit, otp, drawn, begun, uses, lost>>

-----------------------------------------------------------------------------
(* Verifying it *)

ReadCode(w, t, c) ==
    /\ At(w, "idle")
    /\ c # 0 /\ otp[t] = c
    /\ job' = [job EXCEPT ![w] = [Free EXCEPT !.pc = "delete", !.op = "verify", !.token = t,
                                              !.code = c]]
    /\ UNCHANGED <<limit, otp, resent, drawn, begun, uses, lost>>

\* Mutant of DeleteCode: the code is left to expire
LeaveCode(w) ==
    /\ At(w, "delete")
    /\ Goto(w, "voucher")
    /\ UNCHANGED <<limit, otp, resent, drawn, begun, uses, lost>>

\* Whichever code is there by now; the error is ignored
DeleteCode(w) ==
    /\ At(w, "delete")
    /\ \/ otp' = [otp EXCEPT ![job[w].token] = 0] /\ UNCHANGED lost
       \/ lost' = TRUE /\ UNCHANGED otp
    /\ Goto(w, "voucher")
    /\ UNCHANGED <<limit, resent, drawn, begun, uses>>

\* Without a lost deletion the uses are counted
StoreVoucher(w) ==
    /\ At(w, "voucher")
    /\ uses' = [uses EXCEPT ![job[w].code] = IF lost THEN @ ELSE @ + 1]
    /\ Done(w)
    /\ UNCHANGED <<limit, otp, resent, drawn, begun, lost>>

-----------------------------------------------------------------------------

ExpireCode(t) ==
    /\ \/ otp[t] # 0 /\ otp' = [otp EXCEPT ![t] = 0] /\ UNCHANGED resent
       \/ resent[t] # None /\ resent' = [resent EXCEPT ![t] = None] /\ UNCHANGED otp
    /\ UNCHANGED <<limit, drawn, begun, job, uses, lost>>

\* A command fails, the address is registered already, or the process ends
Fail(w) ==
    /\ ~At(w, "idle")
    /\ Done(w)
    /\ UNCHANGED <<limit, otp, resent, drawn, begun, uses, lost>>

CheckEmailVerificationAttempt(w) == IncrShort(w) \/ IncrLong(w) \/ LockEmailVerification(w)

SendEmailVerificationOTP(w) == CheckEmailVerificationAttempt(w) \/ StoreCode(w) \/ StoreMeta(w)
ResendEmailVerificationOTP(w) == FindSession(w) \/ CheckResendCount(w)
VerifyEmailOTP(w) == DeleteCode(w) \/ StoreVoucher(w)

SendHandlers(w) == \E t \in Tokens : Ask(w, "send", t) \/ Ask(w, "resend", t)
VerifyHandler(w) == \E t \in Tokens, c \in Codes : ReadCode(w, t, c)

Next ==
    \/ LimitsEnd
    \/ \E t \in Tokens : ExpireCode(t)
    \/ \E w \in Workers :
          \/ SendHandlers(w) \/ SendEmailVerificationOTP(w) \/ ResendEmailVerificationOTP(w)
          \/ VerifyHandler(w) \/ VerifyEmailOTP(w) \/ Fail(w)

Spec == Init /\ [][Next]_vars

-----------------------------------------------------------------------------
(* Properties *)

Limits == [short : BOOLEAN, long : 0..LongLimit, locked : BOOLEAN]
Jobs == [pc : {"idle", "short", "long", "lock", "session", "count", "store", "meta",
               "delete", "voucher"},
         op : {"none", "send", "resend", "verify"},
         token : Tokens \cup {"none"}, code : Codes \cup {0}, count : 0..ResendLimit]

TypeOK ==
    /\ limit \in Limits
    /\ otp \in [Tokens -> Codes \cup {0}]
    /\ resent \in [Tokens -> 0..ResendLimit \cup {None}]
    /\ drawn \in 0..MaxCodes /\ begun \subseteq Tokens
    /\ uses \in [Codes -> Nat] /\ lost \in BOOLEAN
    /\ job \in [Workers -> Jobs]

\* A code is read, deleted and rewarded by three commands, while resends replace
\* it: it is accepted once by each verification under way at the time and never
\* again, unless its deletion failed (VerifyEmailOTP, ResendEmailVerificationOTP).
CodeUsesBounded == \A c \in Codes : uses[c] <= Cardinality(Workers)

-----------------------------------------------------------------------------
(* The inductive invariant behind it *)

\* What was not drawn yet is nowhere
CodesAreDrawn ==
    /\ \A t \in Tokens : otp[t] <= drawn
    /\ \A w \in Workers : job[w].code <= drawn
    /\ \A c \in Codes : c > drawn => uses[c] = 0

RequestsHaveTokens == \A w \in Workers : job[w].pc # "idle" => job[w].token \in Tokens

\* A code is one token's, also of those who read it there
OneTokenPerCode ==
    /\ \A t, u \in Tokens : otp[t] # 0 /\ otp[t] = otp[u] => t = u
    /\ \A w \in Workers : job[w].pc \in {"delete", "voucher"} =>
          /\ job[w].code \in Codes
          /\ \A t \in Tokens : otp[t] = job[w].code => t = job[w].token

\* Until a deletion is lost, a code that can be read was not accepted, nor deleted
OpenIsUnused ==
    ~lost => \A t \in Tokens : otp[t] # 0 =>
       /\ uses[otp[t]] = 0
       /\ \A w \in Workers : job[w].pc = "voucher" => job[w].code # otp[t]

\* Those who have read the code, and may still be rewarded for it
Verifying(c) == {w \in Workers : job[w].pc \in {"delete", "voucher"} /\ job[w].code = c}

ReadersBounded ==
    ~lost => \A c \in Codes : uses[c] + Cardinality(Verifying(c)) <= Cardinality(Workers)

Inv ==
    /\ TypeOK
    /\ CodesAreDrawn
    /\ RequestsHaveTokens
    /\ OneTokenPerCode
    /\ OpenIsUnused
    /\ ReadersBounded
    /\ CodeUsesBounded
=============================================================================
