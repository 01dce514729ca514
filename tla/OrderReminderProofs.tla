------------------------- MODULE OrderReminderProofs -------------------------
(***************************************************************************)
(* Safety of the reminder worker for any set of orders and any thresholds. *)
(***************************************************************************)
EXTENDS OrderReminder, TLAPS

\* An age grows by at most one and stops at its threshold.
LEMMA OlderFacts ==
    ASSUME NEW b \in Nat \ {0}, NEW a \in 0..b \cup {Never}
    PROVE  /\ Older(a, b) \in 0..b \cup {Never}
           /\ (a = Never) <=> (Older(a, b) = Never)
           /\ a # Never => /\ a <= Older(a, b)
                           /\ Older(a, b) = IF a = b THEN b ELSE a + 1
  BY ReminderAssumption DEF Older

\* The worker starts in a state that satisfies the invariant.
LEMMA InitInv == Init => Inv
  <1> SUFFICES ASSUME Init PROVE Inv
    OBVIOUS
  <1>1. TypeOK
    <2>1. untilTick \in 0..Interval
      BY ReminderAssumption DEF Init
    <2>2. age \in [Orders -> 0..PendingAfter]
      BY ReminderAssumption DEF Init
    <2>3. tick \in BOOLEAN
      BY Zenon DEF Init
    <2> QED
      BY <2>1, <2>2, <2>3 DEF Init, TypeOK
  <1>2. CooldownRespected /\ RecordedWasNudged /\ MarkingWasNudged
    BY DEF Init, CooldownRespected, RecordedWasNudged, MarkingWasNudged
  <1> QED
    BY <1>1, <1>2 DEF Inv

\* The passage of time keeps the invariant: a recorded reminder and the digest
\* behind it grow old together.
LEMMA PassTimeInv ==
    ASSUME Inv, PassTime
    PROVE  Inv'
  <1> USE DEF Inv
  <1>1. \A o \in Orders :
           /\ age[o] \in 0..PendingAfter
           /\ since[o] \in 0..RenotifyAfter \cup {Never}
           /\ lastNudge[o] \in 0..RenotifyAfter \cup {Never}
    BY DEF TypeOK
  <1>2. TypeOK'
    <2>1. age' \in [Orders -> 0..PendingAfter]
      BY <1>1, ReminderAssumption DEF PassTime, Older
    <2>2. since' \in [Orders -> 0..RenotifyAfter \cup {Never}]
      BY <1>1, OlderFacts, ReminderAssumption DEF PassTime
    <2>3. lastNudge' \in [Orders -> 0..RenotifyAfter \cup {Never}]
      BY <1>1, OlderFacts, ReminderAssumption DEF PassTime
    <2>4. untilTick' \in 0..Interval
      BY ReminderAssumption DEF PassTime, TypeOK
    <2> QED
      BY <2>1, <2>2, <2>3, <2>4 DEF PassTime, TypeOK
  <1>3. CooldownRespected'
    <2> SUFFICES ASSUME pc' = "send", NEW o \in batch'
                 PROVE  since'[o] = Never \/ since'[o] >= RenotifyAfter
      BY DEF CooldownRespected
    <2>1. o \in Orders /\ (since[o] = Never \/ since[o] >= RenotifyAfter)
      BY DEF PassTime, CooldownRespected, TypeOK
    <2>2. since'[o] = Older(since[o], RenotifyAfter)
      BY <2>1 DEF PassTime
    <2>3. CASE since[o] = Never
      BY <2>2, <2>3 DEF Older
    <2>4. CASE since[o] >= RenotifyAfter
      BY <2>2, <2>4 DEF Older
    <2> QED
      BY <2>1, <2>3, <2>4
  <1>4. RecordedWasNudged'
    <2> SUFFICES ASSUME NEW o \in Orders, since'[o] # Never
                 PROVE  /\ lastNudge'[o] # Never
                        /\ lastNudge'[o] >= since'[o] \/ since'[o] = RenotifyAfter
      BY DEF RecordedWasNudged
    <2>1. /\ since'[o] = Older(since[o], RenotifyAfter)
          /\ lastNudge'[o] = Older(lastNudge[o], RenotifyAfter)
      BY DEF PassTime
    <2>2. /\ since[o] # Never /\ lastNudge[o] # Never
          /\ lastNudge[o] >= since[o] \/ since[o] = RenotifyAfter
      BY <1>1, <2>1, OlderFacts, ReminderAssumption DEF RecordedWasNudged
    <2> QED
      BY <1>1, <2>1, <2>2, OlderFacts, ReminderAssumption
  <1>5. MarkingWasNudged'
    BY <1>1, OlderFacts, ReminderAssumption DEF MarkingWasNudged, PassTime, TypeOK
  <1> QED
    BY <1>2, <1>3, <1>4, <1>5

\* Sending the digest keeps the invariant: only then are there orders to mark.
LEMMA SendDigestInv ==
    ASSUME Inv, SendDigest \/ SendFails
    PROVE  Inv'
  <1> USE DEF Inv
  <1>1. /\ \/ lastNudge' = [o \in Orders |-> IF o \in batch THEN 0 ELSE lastNudge[o]]
           \/ lastNudge' = lastNudge
        /\ UNCHANGED <<status, age, since, batch, tick>>
        /\ untilTick' \in 0..Interval
        /\ pc = "send"
    BY ReminderAssumption DEF SendDigest, SendFails, Delivered, GoesOn, TypeOK
  <1>2. \/ SendDigest /\ pc' = "mark" /\ unmarked' = batch
        \/ pc' = "wait" /\ unmarked' = unmarked
    BY DEF SendDigest, SendFails, GoesOn
  <1>3. \A o \in Orders : lastNudge'[o] \in {lastNudge[o], 0}
    BY <1>1
  <1>4. TypeOK'
    <2>1. lastNudge' \in [Orders -> 0..RenotifyAfter \cup {Never}]
      BY <1>1, ReminderAssumption DEF TypeOK
    <2> QED
      BY <1>1, <1>2, <2>1 DEF TypeOK
  <1>5. CooldownRespected'
    BY <1>2 DEF CooldownRespected
  <1>6. RecordedWasNudged'
    <2> SUFFICES ASSUME NEW o \in Orders, since[o] # Never
                 PROVE  /\ lastNudge'[o] # Never
                        /\ lastNudge'[o] >= since[o] \/ since[o] = RenotifyAfter
      BY <1>1 DEF RecordedWasNudged
    <2>1. CASE o \in batch
      <3>1. since[o] = RenotifyAfter
        BY <1>1, <2>1, ReminderAssumption DEF CooldownRespected, TypeOK
      <3> QED
        BY <1>3, <3>1, ReminderAssumption DEF RecordedWasNudged
    <2>2. CASE o \notin batch
      BY <1>1, <2>2 DEF RecordedWasNudged
    <2> QED
      BY <2>1, <2>2
  <1>7. MarkingWasNudged'
    <2>1. CASE SendDigest
      BY <2>1, ReminderAssumption DEF SendDigest, Delivered, MarkingWasNudged, TypeOK
    <2>2. CASE SendFails
      BY <1>1, <2>2 DEF SendFails, MarkingWasNudged
    <2> QED
      BY <2>1, <2>2
  <1> QED
    BY <1>4, <1>5, <1>6, <1>7

\* Recording a reminder keeps the invariant: the order was in the digest.
LEMMA MarkOneInv ==
    ASSUME Inv, NEW o \in Orders, NEW ok \in BOOLEAN, MarkOne(o, ok)
    PROVE  Inv'
  <1> USE DEF Inv
  <1>1. since' = [since EXCEPT ![o] = 0] \/ since' = since
    BY DEF MarkOne
  <1>2. TypeOK'
    BY <1>1, ReminderAssumption DEF MarkOne, TypeOK, GoesOn
  <1>3. CooldownRespected'
    BY DEF MarkOne, CooldownRespected, GoesOn
  <1>4. RecordedWasNudged'
    <2>1. lastNudge[o] \in 0..RenotifyAfter /\ lastNudge' = lastNudge
      BY DEF MarkOne, MarkingWasNudged, TypeOK
    <2> QED
      BY <1>1, <2>1, ReminderAssumption DEF RecordedWasNudged, TypeOK
  <1>5. MarkingWasNudged'
    BY DEF MarkOne, MarkingWasNudged, GoesOn
  <1> QED
    BY <1>2, <1>3, <1>4, <1>5

\* Every step keeps the invariant.
LEMMA NextInv == Inv /\ [Next]_vars => Inv'
  <1> SUFFICES ASSUME Inv, [Next]_vars PROVE Inv'
    OBVIOUS
  <1> USE DEF Inv
  <1>1. ASSUME NEW o \in Orders,
               PlaceOrder(o) \/ \E s \in Statuses : UpdateOrderStatus(o, s)
        PROVE  Inv'
    BY <1>1 DEF PlaceOrder, UpdateOrderStatus, jobVars, TypeOK, Statuses,
                CooldownRespected, RecordedWasNudged, MarkingWasNudged
  <1>2. CASE ReceiveTick \/ ListFails \/ Restart
    <2>1. UNCHANGED orderVars /\ pc' \in {"wait", "list"}
      BY <1>2 DEF ReceiveTick, ListFails, Restart, GoesOn
    <2>2. (batch' = batch \/ batch' = {}) /\ (unmarked' = unmarked \/ unmarked' = {})
      BY <1>2 DEF ReceiveTick, ListFails, Restart, GoesOn
    <2>3. unmarked = {} \/ unmarked' = {}
      BY <1>2 DEF ReceiveTick, ListFails, Restart, GoesOn, MarkingWasNudged
    <2>4. tick' \in BOOLEAN
      BY <1>2, Zenon DEF ReceiveTick, ListFails, Restart, GoesOn, TypeOK
    <2>5. untilTick' \in 0..Interval
      BY <1>2, ReminderAssumption DEF ReceiveTick, ListFails, Restart, GoesOn, TypeOK
    <2> QED
      BY <2>1, <2>2, <2>3, <2>4, <2>5
      DEF orderVars, TypeOK, CooldownRespected, RecordedWasNudged, MarkingWasNudged
  <1>3. CASE ListCandidates
    BY <1>3, ReminderAssumption DEF ListCandidates, GoesOn, Candidates, NeedsReminder, orderVars, TypeOK,
                CooldownRespected, RecordedWasNudged, MarkingWasNudged
  <1>4. CASE UNCHANGED vars
    BY <1>4 DEF vars, TypeOK, CooldownRespected, RecordedWasNudged, MarkingWasNudged
  <1> QED
    BY <1>1, <1>2, <1>3, <1>4, PassTimeInv, SendDigestInv, MarkOneInv DEF Next

\* The inductive invariant of the reminder worker holds in every reachable state.
THEOREM InvAlways == Spec => []Inv
  BY InitInv, NextInv, PTL DEF Spec

\* No digest names an order whose last recorded reminder is younger than the
\* cooldown (ListPendingOrdersNeedingReminder, MarkReminderSent).
THEOREM CooldownHolds == Spec => []CooldownRespected
  BY InvAlways, PTL DEF Inv

\* No order is silenced without a nudge: a recorded reminder stands for a
\* digest that named the order (RunOnce).
THEOREM RecordsAreTrue == Spec => []RecordedWasNudged
  BY InvAlways, PTL DEF Inv
=============================================================================
