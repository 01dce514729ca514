---------------------------- MODULE OrderReminder ----------------------------
(***************************************************************************)
(* The pending-order reminder worker (OrderReminderJobService), the order  *)
(* status it watches and the administrator who changes that status.        *)
(*                                                                         *)
(* Timestamps appear only as differences from now, so the model keeps      *)
(* ages: age[o] since created_at, since[o] since reminder_sent_at (Never   *)
(* for NULL) and lastNudge[o] since a digest naming o reached the store    *)
(* administrator.  An age stops growing at its threshold, after which the  *)
(* code cannot tell the difference.                                        *)
(***************************************************************************)
EXTENDS Integers

CONSTANTS Orders,
          PendingAfter,   \* how long an order may stay pending
          RenotifyAfter,  \* cooldown between two reminders
          Interval,       \* period of the worker's ticker
          Never           \* a NULL timestamp

ASSUME ReminderAssumption ==
    /\ PendingAfter \in Nat \ {0}
    /\ RenotifyAfter \in Nat \ {0}
    /\ Interval \in Nat \ {0}
    /\ Never \notin Nat

Statuses == {"pending", "completed", "cancelled", "shipped", "delivered"}

VARIABLES status,     \* orders.status, or "absent" before the order is placed
          age, since, lastNudge,
          pc,         \* where RunOnce is
          batch,      \* candidates listed by this run
          unmarked,   \* candidates this run has still to mark
          tick,       \* a tick waits in ticker.C (capacity 1)
          untilTick   \* time to the next tick, 0 while there is no ticker yet

orderVars == <<status, age, since, lastNudge>>
jobVars == <<pc, batch, unmarked, tick, untilTick>>
vars == <<status, age, since, lastNudge, pc, batch, unmarked, tick, untilTick>>

Older(a, bound) == IF a = Never \/ a >= bound THEN a ELSE a + 1

Init ==
    /\ status = [o \in Orders |-> "absent"]
    /\ age = [o \in Orders |-> 0]
    /\ since = [o \in Orders |-> Never]
    /\ lastNudge = [o \in Orders |-> Never]
    /\ pc = "list"       \* Start runs the job once before it makes the ticker
    /\ batch = {}
    /\ unmarked = {}
    /\ tick = FALSE
    /\ untilTick = 0

-----------------------------------------------------------------------------
PlaceOrder(o) ==
    /\ status[o] = "absent"
    /\ status' = [status EXCEPT ![o] = "pending"]
    /\ UNCHANGED <<age, since, lastNudge, jobVars>>

\* Any status may follow any other; nothing else in the row changes
UpdateOrderStatus(o, s) ==
    /\ status[o] # "absent"
    /\ status' = [status EXCEPT ![o] = s]
    /\ UNCHANGED <<age, since, lastNudge, jobVars>>

\* A unit of time passes; the ticker drops a tick nobody has received
PassTime ==
    /\ age' = [o \in Orders |-> IF status[o] = "absent" THEN 0 ELSE Older(age[o], PendingAfter)]
    /\ since' = [o \in Orders |-> Older(since[o], RenotifyAfter)]
    /\ lastNudge' = [o \in Orders |-> Older(lastNudge[o], RenotifyAfter)]
    /\ untilTick' = CASE untilTick = 0 -> 0
                      [] untilTick = 1 -> Interval
                      [] OTHER -> untilTick - 1
    /\ tick' = (tick \/ untilTick = 1)
    /\ UNCHANGED <<status, pc, batch, unmarked>>

-----------------------------------------------------------------------------
\* Mutant of NeedsReminder: the cooldown is not part of the query
NeedsReminderAlways(o) ==
    /\ status[o] = "pending"
    /\ age[o] >= PendingAfter

\* Mutant of NeedsReminder: an order is listed only until its first reminder
NeedsReminderOnce(o) ==
    /\ status[o] = "pending"
    /\ age[o] >= PendingAfter
    /\ since[o] = Never

\* The WHERE clause of ListPendingOrdersNeedingReminder
NeedsReminder(o) ==
    /\ status[o] = "pending"
    /\ age[o] >= PendingAfter
    /\ since[o] = Never \/ since[o] >= RenotifyAfter

Candidates == {o \in Orders : NeedsReminder(o)}

ReceiveTick ==
    /\ pc = "wait"
    /\ tick
    /\ tick' = FALSE
    /\ pc' = "list"
    /\ UNCHANGED <<orderVars, batch, unmarked, untilTick>>

\* A run that ends leaves the worker waiting for its ticker, which Start makes
\* after the first run
GoesOn(next) ==
    /\ pc' = next
    /\ untilTick' = IF next = "wait" /\ untilTick = 0 THEN Interval ELSE untilTick

\* An empty list ends the run
ListCandidates ==
    /\ pc = "list"
    /\ batch' = Candidates
    /\ GoesOn(IF Candidates = {} THEN "wait" ELSE "send")
    /\ UNCHANGED <<orderVars, unmarked, tick>>

\* The query fails: RunOnce returns the error, which Start logs
ListFails ==
    /\ pc = "list"
    /\ GoesOn("wait")
    /\ UNCHANGED <<orderVars, batch, unmarked, tick>>

Delivered == lastNudge' = [o \in Orders |-> IF o \in batch THEN 0 ELSE lastNudge[o]]

SendDigest ==
    /\ pc = "send"
    /\ Delivered
    /\ unmarked' = batch
    /\ pc' = "mark"
    /\ UNCHANGED <<status, age, since, batch, tick, untilTick>>

\* Mutant of SendFails: the error is logged but the run goes on to mark
SendFailsMarks ==
    /\ pc = "send"
    /\ Delivered \/ UNCHANGED lastNudge
    /\ unmarked' = batch
    /\ pc' = "mark"
    /\ UNCHANGED <<status, age, since, batch, tick, untilTick>>

\* SMTP reports an error, though the message may have been accepted before the
\* connection broke; nothing is marked, so the next run tries again
SendFails ==
    /\ pc = "send"
    /\ Delivered \/ UNCHANGED lastNudge
    /\ GoesOn("wait")
    /\ UNCHANGED <<status, age, since, batch, unmarked, tick>>

\* MarkReminderSent, whatever the order's status is by now; an error is logged
\* and the loop goes on
MarkOne(o, ok) ==
    /\ pc = "mark"
    /\ o \in unmarked
    /\ since' = IF ok THEN [since EXCEPT ![o] = 0] ELSE since
    /\ unmarked' = unmarked \ {o}
    /\ GoesOn(IF unmarked = {o} THEN "wait" ELSE "mark")
    /\ UNCHANGED <<status, age, lastNudge, batch, tick>>

\* The worker process dies and is started again: RunOnce runs at once, before
\* there is a ticker
Restart ==
    /\ pc' = "list"
    /\ batch' = {}
    /\ unmarked' = {}
    /\ tick' = FALSE
    /\ untilTick' = 0
    /\ UNCHANGED orderVars

Next ==
    \/ \E o \in Orders : PlaceOrder(o)
    \/ \E o \in Orders, s \in Statuses : UpdateOrderStatus(o, s)
    \/ PassTime
    \/ ReceiveTick \/ ListCandidates \/ ListFails
    \/ SendDigest \/ SendFails
    \/ \E o \in Orders, ok \in BOOLEAN : MarkOne(o, ok)
    \/ Restart

Spec == Init /\ [][Next]_vars

\* Time passes and the worker is scheduled; a query or an e-mail that is tried
\* again and again succeeds at last.  Nothing is assumed of marks and restarts.
Fairness ==
    /\ WF_vars(PassTime)
    /\ WF_vars(ReceiveTick)
    /\ SF_vars(ListCandidates)
    /\ SF_vars(SendDigest)
    /\ WF_vars(\E o \in Orders, ok \in BOOLEAN : MarkOne(o, ok))

FairSpec == Spec /\ Fairness

-----------------------------------------------------------------------------
TypeOK ==
    /\ status \in [Orders -> Statuses \cup {"absent"}]
    /\ age \in [Orders -> 0..PendingAfter]
    /\ since \in [Orders -> 0..RenotifyAfter \cup {Never}]
    /\ lastNudge \in [Orders -> 0..RenotifyAfter \cup {Never}]
    /\ pc \in {"wait", "list", "send", "mark"}
    /\ batch \subseteq Orders
    /\ unmarked \subseteq batch
    /\ tick \in BOOLEAN
    /\ untilTick \in 0..Interval

\* "It won't be re-notified again until the renotify cooldown elapses": a
\* digest names an order only if its last recorded reminder is at least
\* RenotifyAfter old, however the run that recorded it ended
CooldownRespected ==
    pc = "send" => \A o \in batch : since[o] = Never \/ since[o] >= RenotifyAfter

\* A reminder is recorded only for an order that a digest really named, and
\* never as later than that digest: no order is silenced without a nudge
RecordedWasNudged ==
    \A o \in Orders : since[o] # Never =>
        lastNudge[o] # Never /\ (lastNudge[o] >= since[o] \/ since[o] = RenotifyAfter)

\* The worker marks only orders of the digest it has just sent
MarkingWasNudged ==
    /\ pc # "mark" => unmarked = {}
    /\ \A o \in unmarked : lastNudge[o] # Never

\* The inductive invariant behind the safety theorems
Inv == TypeOK /\ CooldownRespected /\ RecordedWasNudged /\ MarkingWasNudged

\* The administrator is nudged about an order, again and again, for as long as
\* it stays pending, through mail failures, failed marks and restarts
NudgedUntilResolved ==
    \A o \in Orders :
        <>[](status[o] = "pending") => []<>(status[o] = "pending" /\ lastNudge[o] = 0)
=============================================================================
