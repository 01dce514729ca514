---------------------------- MODULE WsHubProofs ----------------------------
(***************************************************************************)
(* The WebSocket hub for any number of clients, identities and request     *)
(* goroutines and any channel sizes: h.mu protects the map, a client whose *)
(* read pump has ended is out of it, and while no channel can overflow no  *)
(* mapped client has a closed channel.                                     *)
(***************************************************************************)
EXTENDS WsHub, FiniteSetTheorems, TLAPS

\* What a job is when it begins.
Begun(j, kind, todo) ==
    /\ j \in Jobs /\ j # NoJob
    /\ j.kind = kind /\ j.todo = todo /\ j.full = {} /\ ~j.locked

\* What a job looks like when it begins.
LEMMA JobBegins ==
    ASSUME NEW to \in SUBSET Identities, NEW todo \in SUBSET Clients,
           NEW kind \in {"register", "unregister", "broadcast", "disconnect", "shutdown",
                         "stopped"}
    PROVE  Job(kind, to, todo) \in Jobs /\ Begun(Job(kind, to, todo), kind, todo)
  <1>1. Job(kind, to, todo) \in Jobs
    BY DEF Job, Jobs
  <1>2. Job(kind, to, todo) # NoJob
    BY <1>1, JobAssumption
  <1> QED
    BY <1>1, <1>2 DEF Job, Begun

\* Nobody has connected yet.
LEMMA InitInv == Init => Inv
  <1> SUFFICES ASSUME Init PROVE Inv
    OBVIOUS
  <1>1. TypeOK
    BY HubAssumption DEF Init, TypeOK
  <1>2. \A p \in Procs : ~Busy(p)
    BY DEF Init, Busy
  <1> QED
    BY <1>1, <1>2 DEF Inv, JobFits, LockExcludes, Locked, GoneAreForgotten, Init

\* A job for one client, addressed to nobody.
LEMMA ServesOne == {} \in SUBSET Identities /\ \A c \in Clients : {c} \in SUBSET Clients
  OBVIOUS

-----------------------------------------------------------------------------
(* Types *)

\* A message finds its place in the channel, or none is sent.
LEMMA QueueType ==
    ASSUME TypeOK, NEW c \in Clients, (CanEnqueue(c) /\ Enqueue(c)) \/ UNCHANGED queue
    PROVE  queue' \in [Clients -> 0 .. SendBuf]
  <1>1. CASE CanEnqueue(c) /\ Enqueue(c)
    <2>1. queue[c] \in 0 .. SendBuf /\ queue[c] < SendBuf
      BY <1>1 DEF CanEnqueue, TypeOK
    <2>2. queue[c] + 1 \in 0 .. SendBuf
      BY <2>1, HubAssumption
    <2> QED
      BY <1>1, <2>2 DEF Enqueue, TypeOK
  <1> QED
    BY <1>1 DEF TypeOK

\* The steps of a client's pumps.
LEMMA ClientTypes == ASSUME TypeOK, NEW c \in Clients, ClientStep(c) PROVE TypeOK'
  <1> USE HubAssumption
  <1>1. CASE Connect(c)
    BY <1>1 DEF Connect, TypeOK
  <1>2. CASE StartPumps(c)
    BY <1>2 DEF StartPumps, TypeOK
  <1>3. CASE ReadMessage(c)
    BY <1>3 DEF ReadMessage, TypeOK
  <1>4. CASE Reply(c)
    <2>1. queue' \in [Clients -> 0 .. SendBuf]
      BY <1>4, QueueType DEF Reply
    <2>2. alive' \in BOOLEAN /\ closed' \subseteq Clients
      BY <1>4 DEF Reply, TypeOK
    <2>3. replies' \in [Clients -> 0 .. 2]
      BY <1>4 DEF Reply, TypeOK
    <2>4. reader' \in [Clients -> {"none", "registering", "registered", "reading",
                                   "overflow", "exiting", "done"}]
      BY <1>4 DEF Reply, TypeOK
    <2> QED
      BY <1>4, <2>1, <2>2, <2>3, <2>4 DEF Reply, TypeOK
  <1>5. CASE ReaderExits(c)
    BY <1>5 DEF ReaderExits, TypeOK
  <1>6. CASE WriteOne(c)
    BY <1>6 DEF WriteOne, TypeOK
  <1>7. CASE WriterExits(c)
    BY <1>7 DEF WriterExits, TypeOK
  <1> QED
    BY <1>1, <1>2, <1>3, <1>4, <1>5, <1>6, <1>7 DEF ClientStep

\* The steps of the hub goroutine.
LEMMA HubTypes == ASSUME TypeOK, HubStep \/ TakeShutdown PROVE TypeOK'
  <1>1. Hub \in Procs /\ Apps \subseteq Procs
    BY DEF Procs
  <1>2. ASSUME NEW c \in Clients, TakeRegister(c) PROVE TypeOK'
    <2>1. Job("register", {}, {c}) \in Jobs
      BY ServesOne, JobBegins
    <2> QED
      BY <1>1, <1>2, <2>1 DEF TakeRegister, TypeOK
  <1>3. ASSUME NEW c \in Clients, TakeUnregister(c) \/ TakeOverflow(c) PROVE TypeOK'
    <2>1. Job("unregister", {}, {c}) \in Jobs
      BY ServesOne, JobBegins
    <2> QED
      <3>1. job' \in [Procs -> Jobs \cup {NoJob}]
        BY <1>1, <1>3, <2>1 DEF TakeUnregister, TakeOverflow, TypeOK
      <3>2. open' \subseteq Clients
        BY <1>3 DEF TakeUnregister, TakeOverflow, TypeOK
      <3> QED
        BY <1>3, <3>1, <3>2 DEF TakeUnregister, TakeOverflow, TypeOK
  <1>4. ASSUME NEW p \in Apps, TakeOverflowOf(p) PROVE TypeOK'
    <2>1. job[p] \in Jobs /\ p \in Procs
      BY <1>1, <1>4 DEF TakeOverflowOf, Busy, TypeOK
    <2>2. job[p].full \subseteq Clients
      BY <2>1 DEF Jobs
    <2>3. Job("unregister", {}, job[p].full) \in Jobs
      BY <2>2, JobBegins
    <2> DEFINE taken == [job EXCEPT ![Hub] = Job("unregister", {}, job[p].full)]
    <2>4. taken \in [Procs -> Jobs \cup {NoJob}] /\ taken[p] \in Jobs
      BY <1>1, <2>1, <2>3 DEF TypeOK
    <2>5. /\ job' = [taken EXCEPT ![p].full = {}] \/ job' = [taken EXCEPT ![p] = NoJob]
          /\ cancelled' \subseteq Clients
      BY <1>4, <2>2 DEF TakeOverflowOf, TypeOK
    <2> HIDE DEF taken
    <2>6. job' \in [Procs -> Jobs \cup {NoJob}]
      BY <2>4, <2>5 DEF Jobs
    <2> QED
      BY <1>4, <2>5, <2>6 DEF TakeOverflowOf, TypeOK
  <1>5. CASE TakeBroadcast
    <2>1. Head(pending) \in SUBSET Identities /\ Tail(pending) \in Seq(SUBSET Identities)
          /\ Len(Tail(pending)) <= BroadcastBuf
      BY <1>5, HubAssumption DEF TakeBroadcast, TypeOK
    <2>2. Job("broadcast", Head(pending), {}) \in Jobs
      BY <2>1, JobBegins
    <2> QED
      BY <1>1, <1>5, <2>1, <2>2 DEF TakeBroadcast, TypeOK
  <1>6. CASE LockRegister
    <2>1. job[Hub] \in Jobs
      BY <1>1, <1>6 DEF LockRegister, Is, Busy, TypeOK
    <2> QED
      BY <1>1, <1>6, <2>1 DEF LockRegister, TypeOK, Jobs
  <1>7. CASE UnregisterClient
    <2>1. closed' \subseteq Clients /\ cancelled' \subseteq Clients /\ alive' \in BOOLEAN
      BY <1>7 DEF UnregisterClient, Close, ClosePanics, TypeOK
    <2> QED
      BY <1>1, <1>7, <2>1 DEF UnregisterClient, TypeOK
  <1>8. CASE Shutdown
    <2>1. closed' \subseteq Clients /\ cancelled' \subseteq Clients /\ alive' \in BOOLEAN
      BY <1>8 DEF Shutdown, Close, ClosePanics, TypeOK
    <2>2. Job("stopped", {}, {}) \in Jobs
      BY JobBegins
    <2> QED
      BY <1>1, <1>8, <2>1, <2>2 DEF Shutdown, TypeOK
  <1>9. CASE TakeShutdown
    <2>1. Job("shutdown", {}, {}) \in Jobs
      BY JobBegins
    <2> QED
      BY <1>1, <1>9, <2>1 DEF TakeShutdown, TypeOK
  <1> QED
    BY <1>2, <1>3, <1>4, <1>5, <1>6, <1>7, <1>8, <1>9 DEF HubStep

\* The loops over the clients.
LEMMA LoopTypes == ASSUME TypeOK, NEW p \in Procs, LoopStep(p) PROVE TypeOK'
  <1>1. job[p] \in Jobs
    BY DEF LoopStep, LockBroadcast, LockDisconnect, SkipUnsubscribed, SendTo, SendOverflows,
           SendPanics, FinishSend, Calls, Serves, Is, Busy, TypeOK
  <1>2. CASE LockBroadcast(p) \/ LockDisconnect(p)
    <2>1. clients \cap Of(job[p].to) \subseteq Clients
      BY DEF TypeOK
    <2>2. [job[p] EXCEPT !.locked = TRUE, !.todo = clients \cap Of(job[p].to)] \in Jobs
      BY <1>1, <2>1 DEF Jobs
    <2>3. job' = [job EXCEPT ![p] = [job[p] EXCEPT !.locked = TRUE,
                                                   !.todo = clients \cap Of(job[p].to)]]
      BY <1>2 DEF LockBroadcast, LockDisconnect, TypeOK
    <2>4. job' \in [Procs -> Jobs \cup {NoJob}]
      BY <2>2, <2>3 DEF TypeOK
    <2> QED
      BY <1>2, <2>4 DEF LockBroadcast, LockDisconnect, TypeOK
  <1>3. ASSUME NEW c \in Clients, SkipUnsubscribed(p, c) PROVE TypeOK'
    BY <1>1, <1>3 DEF SkipUnsubscribed, TypeOK, Jobs
  <1>4. ASSUME NEW c \in Clients, SendTo(p, c) PROVE TypeOK'
    <2>1. queue' \in [Clients -> 0 .. SendBuf]
      BY <1>4, QueueType DEF SendTo
    <2>2. closed' \subseteq Clients /\ cancelled' \subseteq Clients
      BY <1>4 DEF SendTo, Close, TypeOK
    <2>3. job' \in [Procs -> Jobs \cup {NoJob}]
      BY <1>1, <1>4 DEF SendTo, TypeOK, Jobs
    <2> QED
      BY <1>4, <2>1, <2>2, <2>3 DEF SendTo, TypeOK
  <1>5. ASSUME NEW c \in Clients, SendOverflows(p, c) PROVE TypeOK'
    BY <1>1, <1>5 DEF SendOverflows, TypeOK, Jobs
  <1>6. ASSUME NEW c \in Clients, SendPanics(p, c) PROVE TypeOK'
    <2>1. alive' \in BOOLEAN
      BY <1>6 DEF SendPanics
    <2> QED
      BY <1>6, <2>1 DEF SendPanics, TypeOK
  <1>7. CASE FinishSend(p)
    BY <1>7 DEF FinishSend, TypeOK
  <1> QED
    BY <1>2, <1>3, <1>4, <1>5, <1>6, <1>7 DEF LoopStep

\* The requests.
LEMMA RequestTypes == ASSUME TypeOK, Request PROVE TypeOK'
  <1>1. ASSUME NEW to \in SUBSET Identities, QueueBroadcast(to) PROVE TypeOK'
    <2>1. Append(pending, to) \in Seq(SUBSET Identities)
          /\ Len(Append(pending, to)) <= BroadcastBuf
      BY <1>1, HubAssumption DEF QueueBroadcast, TypeOK
    <2>2. sent' \in 0 .. MaxMessages
      BY <1>1, HubAssumption DEF QueueBroadcast, TypeOK
    <2> QED
      BY <1>1, <2>1, <2>2 DEF QueueBroadcast, TypeOK
  <1>2. ASSUME NEW p \in Apps, NEW kind \in {"broadcast", "disconnect"}, NEW i \in Identities,
               CallHub(p, kind, i)
        PROVE  TypeOK'
    <2>1. Job(kind, {i}, {}) \in Jobs /\ p \in Procs
      <3>1. {i} \in SUBSET Identities /\ {} \in SUBSET Clients /\ p \in Procs
        BY DEF Procs
      <3> QED
        BY <3>1, JobBegins
    <2>2. sent' \in 0 .. MaxMessages
      BY <1>2, HubAssumption DEF CallHub, TypeOK
    <2> QED
      BY <1>2, <2>1, <2>2 DEF CallHub, TypeOK
  <1> QED
    BY <1>1, <1>2 DEF Request

-----------------------------------------------------------------------------
(* What keeps the invariant *)

Away == {"none", "registering", "done"}

\* A job that changes fits, h.mu is taken only when it is free, and nobody the
\* hub registers goes away.
LEMMA InvStep ==
    ASSUME Inv, TypeOK', GoneAreForgotten', NEW p \in Procs,
           \A q \in Procs : q # p => job'[q] = job[q] \/ job'[q] = NoJob,
           job'[p] = job[p] \/ JobFits(p)',
           job'[Hub] = job[Hub] =>
               \A c \in Clients : reader'[c] \in Away => reader[c] \in Away,
           \/ Locked(p)' => Locked(p) /\ job'[p].kind = job[p].kind
           \/ ~WriteLocked /\ (job'[p].kind = "broadcast" \/ ~ReadLocked)
    PROVE  Inv'
  <1>1. \A q \in Procs : JobFits(q)'
    <2> SUFFICES ASSUME NEW q \in Procs, job'[q] # NoJob, job'[q] = job[q] PROVE JobFits(q)'
      BY DEF JobFits, Busy
    <2>1. JobFits(q) /\ Busy(q)
      BY DEF Inv, Busy
    <2>2. CASE job[q].kind # "register"
      BY <2>1, <2>2 DEF JobFits
    <2>3. CASE job[q].kind = "register"
      <3>1. q = Hub
        BY <2>1, <2>3 DEF JobFits
      <3>2. job[q].todo \subseteq Clients
        BY <2>1 DEF Inv, TypeOK, Busy, Jobs
      <3>3. \A c \in job[q].todo : reader'[c] \notin Away
        BY <2>1, <2>3, <3>1, <3>2 DEF JobFits, Away
      <3> QED
        BY <2>1, <2>3, <3>1, <3>3 DEF JobFits, Away
    <2> QED
      BY <2>2, <2>3
  <1>2. LockExcludes'
    <2> SUFFICES ASSUME NEW a \in Procs, NEW b \in Procs, a # b,
                        Locked(a)', Locked(b)', job'[a].kind # "broadcast"
                 PROVE  FALSE
      BY DEF LockExcludes
    <2>1. \A q \in Procs : q # p /\ Locked(q)' => Locked(q) /\ job'[q] = job[q]
      BY DEF Locked, Busy
    <2>2. CASE Locked(p)' => Locked(p) /\ job'[p].kind = job[p].kind
      BY <2>1, <2>2 DEF Inv, LockExcludes
    <2>3. CASE ~WriteLocked /\ (job'[p].kind = "broadcast" \/ ~ReadLocked)
      <3>1. \A q \in Procs : Locked(q) => job[q].kind = "broadcast"
        BY <2>3 DEF Inv, JobFits, Locked, WriteLocked, Holds, Is
      <3>2. ~ReadLocked => \A q \in Procs : ~Locked(q)
        BY <3>1 DEF ReadLocked, Holds, Is, Locked
      <3> QED
        BY <2>1, <2>3, <3>1, <3>2
    <2> QED
      BY <2>2, <2>3
  <1> QED
    BY <1>1, <1>2 DEF Inv

\* While the hub has no unregister in hand nobody in its map has gone, and that
\* stays so when nobody goes.
LEMMA GoneStep ==
    ASSUME Inv, clients' \subseteq clients, alive,
           \A c \in Clients : reader'[c] = "done" => reader[c] = "done",
           job'[Hub] = job[Hub] \/ ~Is(Hub, "unregister")
    PROVE  GoneAreForgotten'
  <1>1. clients \subseteq Clients
    BY DEF Inv, TypeOK
  <1> QED
    BY <1>1 DEF Inv, GoneAreForgotten, Is, Busy

\* A step that gives nobody a job.
LEMMA QuietStep ==
    ASSUME Inv, TypeOK', UNCHANGED <<clients, job>>, alive,
           \A c \in Clients : /\ reader'[c] \in Away => reader[c] \in Away
                              /\ reader'[c] = "done" => reader[c] = "done"
    PROVE  Inv'
  <1>1. GoneAreForgotten'
    BY GoneStep
  <1>2. Hub \in Procs /\ (Locked(Hub)' => Locked(Hub) /\ job'[Hub].kind = job[Hub].kind)
    BY DEF Procs, Locked, Busy
  <1> QED
    BY <1>1, <1>2, InvStep

\* The steps of the pumps.
LEMMA ClientInv == ASSUME Inv, NEW c \in Clients, ClientStep(c) PROVE Inv'
  <1>1. TypeOK'
    BY ClientTypes DEF Inv
  <1>2. UNCHANGED <<clients, job>> /\ alive
    BY DEF ClientStep, Connect, StartPumps, ReadMessage, Reply, ReaderExits, WriteOne, WriterExits
  <1>3. reader \in [Clients -> {"none", "registering", "registered", "reading",
                               "overflow", "exiting", "done"}]
    BY DEF Inv, TypeOK
  <1>4. \/ reader' = reader
        \/ reader[c] = "none" /\ reader' = [reader EXCEPT ![c] = "registering"]
        \/ \E at \in {"reading", "overflow", "exiting"} : reader' = [reader EXCEPT ![c] = at]
    BY DEF ClientStep, Connect, StartPumps, ReadMessage, Reply, ReaderExits, WriteOne, WriterExits
  <1>5. \A d \in Clients : /\ reader'[d] \in Away => reader[d] \in Away
                           /\ reader'[d] = "done" => reader[d] = "done"
    BY <1>3, <1>4 DEF Away
  <1> QED
    BY <1>1, <1>2, <1>5, QuietStep

\* The hub takes a job or ends one.
LEMMA HubInv == ASSUME Inv, HubStep \/ TakeShutdown PROVE Inv'
  <1>1. TypeOK' /\ TypeOK
    BY HubTypes DEF Inv
  <1>2. Hub \in Procs /\ Apps \subseteq Procs /\ Hub \notin Apps
    BY HubAssumption DEF Procs
  <1>3. /\ reader \in [Clients -> {"none", "registering", "registered", "reading",
                                  "overflow", "exiting", "done"}]
        /\ job \in [Procs -> Jobs \cup {NoJob}] /\ clients \subseteq Clients
    BY <1>1 DEF TypeOK
  <1>4. ASSUME NEW c \in Clients, TakeRegister(c) PROVE Inv'
    <2>1. PICK j : job' = [job EXCEPT ![Hub] = j] /\ Begun(j, "register", {c})
      <3>1. Begun(Job("register", {}, {c}), "register", {c})
        BY ServesOne, JobBegins
      <3> QED
        BY <1>4, <3>1 DEF TakeRegister
    <2>2. reader' = [reader EXCEPT ![c] = "registered"] /\ UNCHANGED clients /\ alive
          /\ ~Busy(Hub)
      BY <1>4 DEF TakeRegister
    <2>3. JobFits(Hub)' /\ ~Locked(Hub)'
      BY <1>2, <1>3, <2>1, <2>2 DEF JobFits, Locked, Begun
    <2>4. GoneAreForgotten'
      BY <1>3, <2>2, GoneStep DEF Is
    <2> QED
      BY <1>1, <1>2, <1>3, <2>1, <2>2, <2>3, <2>4, InvStep DEF Away
  <1>5. ASSUME NEW c \in Clients, TakeUnregister(c) PROVE Inv'
    <2>1. PICK j : job' = [job EXCEPT ![Hub] = j] /\ Begun(j, "unregister", {c})
      <3>1. Begun(Job("unregister", {}, {c}), "unregister", {c})
        BY ServesOne, JobBegins
      <3> QED
        BY <1>5, <3>1 DEF TakeUnregister
    <2>2. reader' = [reader EXCEPT ![c] = "done"] /\ UNCHANGED clients /\ alive /\ ~Busy(Hub)
      BY <1>5 DEF TakeUnregister
    <2>3. JobFits(Hub)' /\ ~Locked(Hub)' /\ job'[Hub] # job[Hub]
      BY <1>2, <1>3, <2>1, <2>2 DEF JobFits, Locked, Busy, Begun
    <2>4. GoneAreForgotten'
      <3>1. \A d \in clients : reader[d] # "done"
        BY <2>2 DEF Inv, GoneAreForgotten, Is
      <3> QED
        BY <1>2, <1>3, <2>1, <2>2, <3>1 DEF GoneAreForgotten, Is, Busy, Begun
    <2> QED
      BY <1>1, <1>2, <1>3, <2>1, <2>3, <2>4, InvStep
  <1>6. ASSUME NEW c \in Clients, TakeOverflow(c) PROVE Inv'
    <2>1. PICK j : job' = [job EXCEPT ![Hub] = j] /\ Begun(j, "unregister", {c})
      <3>1. Begun(Job("unregister", {}, {c}), "unregister", {c})
        BY ServesOne, JobBegins
      <3> QED
        BY <1>6, <3>1 DEF TakeOverflow
    <2>2. reader' = [reader EXCEPT ![c] = "reading"] /\ UNCHANGED clients /\ alive /\ ~Busy(Hub)
      BY <1>6 DEF TakeOverflow
    <2>3. JobFits(Hub)' /\ ~Locked(Hub)' /\ job'[Hub] # job[Hub]
      BY <1>2, <1>3, <2>1, <2>2 DEF JobFits, Locked, Busy, Begun
    <2>4. GoneAreForgotten'
      BY <1>3, <2>2, GoneStep DEF Is
    <2> QED
      BY <1>1, <1>2, <1>3, <2>1, <2>3, <2>4, InvStep
  <1>7. ASSUME NEW p \in Apps, TakeOverflowOf(p) PROVE Inv'
    <2>1. /\ p \in Procs /\ p # Hub /\ job[p] \in Jobs /\ JobFits(p) /\ job[p] # NoJob
          /\ UNCHANGED <<clients, reader>> /\ alive /\ ~Busy(Hub)
      BY <1>2, <1>3, <1>7 DEF TakeOverflowOf, Busy, Inv
    <2>2. {} \in SUBSET Identities /\ job[p].full \in SUBSET Clients
      BY <2>1 DEF Jobs
    <2>3. PICK j : j = Job("unregister", {}, job[p].full) /\ Begun(j, "unregister", job[p].full)
      BY <2>2, JobBegins
    <2> DEFINE next == IF job[p].kind = "broadcast" THEN [job[p] EXCEPT !.full = {}] ELSE NoJob
    <2>4. job' = [job EXCEPT ![Hub] = j, ![p] = next]
      BY <1>2, <1>3, <1>7, <2>1, <2>3 DEF TakeOverflowOf
    <2>5. next # NoJob => next.kind = job[p].kind /\ next.locked = job[p].locked
                          /\ next.kind = "broadcast"
      BY <2>1 DEF Jobs
    <2> HIDE DEF next
    <2>6. job'[Hub] = j /\ job'[p] = next /\ \A q \in Procs \ {Hub, p} : job'[q] = job[q]
      BY <1>2, <1>3, <2>1, <2>4
    <2>7. GoneAreForgotten'
      BY <1>3, <2>1, GoneStep DEF Is
    <2>8. \A q \in Procs : JobFits(q)'
      <3> SUFFICES ASSUME NEW q \in Procs PROVE JobFits(q)'
        OBVIOUS
      <3>1. CASE q = Hub
        BY <2>3, <2>6, <3>1 DEF JobFits, Begun
      <3>2. CASE q = p
        BY <2>1, <2>5, <2>6, <3>2 DEF JobFits, Busy
      <3>3. CASE q \notin {Hub, p}
        BY <2>1, <2>6, <3>3 DEF JobFits, Busy, Inv
      <3> QED
        BY <3>1, <3>2, <3>3
    <2>9. \A q \in Procs : Locked(q)' => Locked(q) /\ job'[q].kind = job[q].kind
      BY <2>1, <2>3, <2>5, <2>6 DEF Locked, Busy, Begun
    <2>10. LockExcludes'
      BY <2>9 DEF Inv, LockExcludes
    <2> QED
      BY <1>1, <2>7, <2>8, <2>10 DEF Inv
  <1>8. CASE TakeBroadcast
    <2>1. Head(pending) \in SUBSET Identities /\ {} \in SUBSET Clients
      BY <1>1, <1>8 DEF TakeBroadcast, TypeOK
    <2>2. PICK j : job' = [job EXCEPT ![Hub] = j] /\ Begun(j, "broadcast", {})
      <3>1. Begun(Job("broadcast", Head(pending), {}), "broadcast", {})
        BY <2>1, JobBegins
      <3> QED
        BY <1>8, <3>1 DEF TakeBroadcast
    <2>3. UNCHANGED <<clients, reader>> /\ alive /\ ~Busy(Hub)
      BY <1>8 DEF TakeBroadcast
    <2>4. JobFits(Hub)' /\ ~Locked(Hub)'
      BY <1>2, <1>3, <2>2 DEF JobFits, Locked, Begun
    <2>5. GoneAreForgotten'
      BY <1>3, <2>3, GoneStep DEF Is
    <2> QED
      BY <1>1, <1>2, <1>3, <2>2, <2>3, <2>4, <2>5, InvStep
  <1>9. CASE TakeShutdown \/ Shutdown
    <2>1. PICK j : /\ job' = [job EXCEPT ![Hub] = j]
                   /\ Begun(j, "shutdown", {}) \/ Begun(j, "stopped", {})
      <3>1. Begun(Job("shutdown", {}, {}), "shutdown", {})
            /\ Begun(Job("stopped", {}, {}), "stopped", {})
        BY ServesOne, JobBegins
      <3> QED
        BY <1>9, <3>1 DEF TakeShutdown, Shutdown
    <2>2. UNCHANGED <<clients, reader>> /\ alive /\ ~Is(Hub, "unregister")
      BY <1>9 DEF TakeShutdown, Shutdown, Is
    <2>3. JobFits(Hub)' /\ ~Locked(Hub)'
      BY <1>2, <1>3, <2>1 DEF JobFits, Locked, Begun
    <2>4. GoneAreForgotten'
      BY <1>3, <2>2, GoneStep
    <2> QED
      BY <1>1, <1>2, <1>3, <2>1, <2>2, <2>3, <2>4, InvStep
  <1>10. CASE LockRegister
    <2>1. job[Hub] \in Jobs /\ Is(Hub, "register") /\ JobFits(Hub) /\ alive /\ Busy(Hub)
      BY <1>2, <1>3, <1>10 DEF LockRegister, Is, Busy, Inv
    <2>2. job'[Hub] = [job[Hub] EXCEPT !.locked = TRUE] /\ UNCHANGED reader
          /\ \A q \in Procs : q # Hub => job'[q] = job[q]
      BY <1>2, <1>3, <1>10 DEF LockRegister
    <2>3. job'[Hub].kind = "register" /\ job'[Hub].todo = job[Hub].todo
      BY <2>1, <2>2 DEF Jobs, Is
    <2>4. JobFits(Hub)'
      BY <2>1, <2>2, <2>3 DEF JobFits, Is, Busy
    <2>5. GoneAreForgotten'
      <3>1. \A c \in clients : reader[c] # "done"
        BY <2>1 DEF Inv, GoneAreForgotten, Is
      <3>2. \A c \in job[Hub].todo : reader[c] # "done"
        BY <2>1 DEF JobFits, Is
      <3> QED
        BY <1>10, <2>2, <3>1, <3>2 DEF LockRegister, GoneAreForgotten
    <2> QED
      BY <1>1, <1>2, <1>10, <2>2, <2>4, <2>5, InvStep DEF LockRegister
  <1>11. CASE UnregisterClient
    <2>1. job'[Hub] = NoJob /\ UNCHANGED reader /\ \A q \in Procs : q # Hub => job'[q] = job[q]
      BY <1>2, <1>3, <1>11 DEF UnregisterClient
    <2>2. JobFits(Hub)' /\ ~Locked(Hub)'
      BY <2>1 DEF JobFits, Locked, Busy, Begun
    <2>3. GoneAreForgotten'
      <3>1. \A c \in clients : reader[c] = "done" => c \in job[Hub].todo
        BY <1>11 DEF UnregisterClient, Inv, GoneAreForgotten
      <3> QED
        BY <1>11, <2>1, <3>1 DEF UnregisterClient, GoneAreForgotten
    <2> QED
      BY <1>1, <1>2, <2>1, <2>2, <2>3, InvStep
  <1> QED
    BY <1>4, <1>5, <1>6, <1>7, <1>8, <1>9, <1>10, <1>11 DEF HubStep

\* A process loops over the clients, under the lock it took.
LEMMA LoopInv == ASSUME Inv, NEW p \in Procs, LoopStep(p) PROVE Inv'
  <1>1. TypeOK' /\ TypeOK
    BY LoopTypes DEF Inv
  <1>2. job \in [Procs -> Jobs \cup {NoJob}] /\ Hub \in Procs
    BY <1>1 DEF TypeOK, Procs
  <1>3. /\ job[p] \in Jobs /\ Busy(p) /\ JobFits(p) /\ alive /\ reader' = reader
        /\ \A q \in Procs : q # p => job'[q] = job[q]
    BY <1>2 DEF LoopStep, LockBroadcast, LockDisconnect, SkipUnsubscribed, SendTo, SendOverflows,
                SendPanics, FinishSend, Calls, Serves, Is, Busy, Inv
  <1>4. CASE LockBroadcast(p) \/ LockDisconnect(p)
    <2>1. job' = [job EXCEPT ![p] = [job[p] EXCEPT !.locked = TRUE,
                                                   !.todo = clients \cap Of(job[p].to)]]
      BY <1>2, <1>4 DEF LockBroadcast, LockDisconnect
    <2>2. job'[p].kind = job[p].kind /\ job[p].kind \in {"broadcast", "disconnect"}
      BY <1>2, <1>3, <1>4, <2>1 DEF Jobs, LockBroadcast, LockDisconnect, Is
    <2>3. JobFits(p)'
      BY <1>3, <2>2 DEF JobFits
    <2>4. clients' = clients
      BY <1>4 DEF LockBroadcast, LockDisconnect
    <2>5. p # Hub \/ ~Is(Hub, "unregister")
      BY <2>2 DEF Is
    <2>6. GoneAreForgotten'
      BY <1>2, <1>3, <2>4, <2>5, GoneStep
    <2>7. ~WriteLocked /\ (job'[p].kind = "broadcast" \/ ~ReadLocked)
      BY <1>4, <2>2 DEF LockBroadcast, LockDisconnect, Is
    <2> QED
      BY <1>1, <1>3, <2>3, <2>6, <2>7, InvStep
  <1>5. ASSUME clients' \subseteq clients, Locked(p),
               \/ job'[p] = NoJob
               \/ /\ job'[p].kind = job[p].kind
                  /\ job'[p].todo \subseteq job[p].todo
                  /\ job'[p].locked
        PROVE  Inv'
    <2>1. JobFits(p)'
      BY <1>3, <1>5 DEF JobFits, Busy, Locked
    <2>2. p # Hub \/ ~Is(Hub, "unregister")
      BY <1>3, <1>5 DEF Is, Locked, JobFits
    <2>3. GoneAreForgotten'
      BY <1>2, <1>3, <1>5, <2>2, GoneStep
    <2>4. Locked(p)' => Locked(p) /\ job'[p].kind = job[p].kind
      BY <1>5 DEF Locked, Busy
    <2> QED
      BY <1>1, <1>3, <2>1, <2>3, <2>4, InvStep
  <1>6. ASSUME NEW c \in Clients,
               SkipUnsubscribed(p, c) \/ SendTo(p, c) \/ SendOverflows(p, c)
        PROVE  Inv'
    <2>1. Locked(p) /\ clients' = clients
      BY <1>3, <1>6 DEF SkipUnsubscribed, SendTo, SendOverflows, Calls, Serves, Locked
    <2>2. \/ job' = [job EXCEPT ![p] = [job[p] EXCEPT !.todo = @ \ {c}]]
          \/ job' = [job EXCEPT ![p] = [job[p] EXCEPT !.todo = @ \ {c}, !.full = {c}]]
      BY <1>2, <1>6 DEF SkipUnsubscribed, SendTo, SendOverflows
    <2>3. /\ job'[p].kind = job[p].kind /\ job'[p].locked = job[p].locked
          /\ job'[p].todo = job[p].todo \ {c}
      BY <1>2, <1>3, <2>2 DEF Jobs
    <2> QED
      BY <1>5, <2>1, <2>3 DEF Locked
  <1>7. ASSUME NEW c \in Clients, SendPanics(p, c) PROVE Inv'
    <2>1. job'[p] = NoJob /\ clients' = clients
      BY <1>2, <1>7 DEF SendPanics
    <2> QED
      BY <1>3, <1>5, <1>7, <2>1 DEF SendPanics, Calls, Serves, Locked
  <1>8. CASE FinishSend(p)
    <2>1. job'[p] = NoJob /\ clients' \subseteq clients
      BY <1>2, <1>8 DEF FinishSend
    <2> QED
      BY <1>3, <1>5, <1>8, <2>1 DEF FinishSend, Locked
  <1> QED
    BY <1>4, <1>6, <1>7, <1>8 DEF LoopStep

\* A request queues a broadcast or calls the hub itself.
LEMMA RequestInv == ASSUME Inv, Request PROVE Inv'
  <1>1. TypeOK' /\ TypeOK
    BY RequestTypes DEF Inv
  <1>2. UNCHANGED <<clients, reader>> /\ alive
    BY DEF Request, QueueBroadcast, CallHub
  <1>3. CASE UNCHANGED job
    BY <1>1, <1>2, <1>3, QuietStep
  <1>4. ASSUME NEW p \in Apps, NEW kind \in {"broadcast", "disconnect"}, NEW i \in Identities,
               CallHub(p, kind, i)
        PROVE  Inv'
    <2>1. /\ {i} \in SUBSET Identities /\ {} \in SUBSET Clients
          /\ p \in Procs /\ Hub \in Procs /\ p # Hub
      BY HubAssumption DEF Procs
    <2>2. Begun(Job(kind, {i}, {}), kind, {})
      BY <2>1, JobBegins
    <2>3. PICK j : job' = [job EXCEPT ![p] = j] /\ Begun(j, kind, {})
      BY <1>4, <2>2 DEF CallHub
    <2>4. job'[p] = j /\ \A q \in Procs : q # p => job'[q] = job[q]
      BY <1>1, <2>1, <2>3 DEF TypeOK
    <2>5. JobFits(p)' /\ ~Locked(p)'
      BY <2>1, <2>3, <2>4 DEF JobFits, Locked, Begun
    <2>6. GoneAreForgotten'
      BY <1>2, <2>1, <2>4, GoneStep
    <2> QED
      BY <1>1, <1>2, <2>1, <2>4, <2>5, <2>6, InvStep
  <1>5. ASSUME NEW to, QueueBroadcast(to) PROVE UNCHANGED job
    BY <1>5 DEF QueueBroadcast
  <1> QED
    BY <1>3, <1>4, <1>5 DEF Request

\* Every step keeps the invariant.
LEMMA HubNext == Inv /\ [Next]_vars => Inv'
  <1> SUFFICES ASSUME Inv, [Next]_vars PROVE Inv'
    OBVIOUS
  <1>1. CASE UNCHANGED vars
    BY <1>1 DEF vars, Inv, TypeOK, JobFits, LockExcludes, Locked, Busy, GoneAreForgotten, Is
  <1> QED
    BY <1>1, ClientInv, HubInv, LoopInv, RequestInv DEF Next

\* A broadcast that holds h.mu finds the map as it was: who changes it holds the
\* lock alone.
LEMMA MapStable ==
    ASSUME Inv, [Next]_vars, NEW p \in Procs, Holds(p, "broadcast"), Holds(p, "broadcast")'
    PROVE  clients' = clients
  <1>1. ReadLocked /\ Locked(p) /\ job[p].kind = "broadcast"
    BY DEF ReadLocked, Holds, Is, Locked
  <1>2. CASE HubStep \/ TakeShutdown
    BY <1>1, <1>2 DEF HubStep, TakeShutdown, TakeRegister, TakeUnregister, TakeOverflow,
                      TakeOverflowOf, TakeBroadcast, LockRegister, UnregisterClient, Shutdown
  <1>3. ASSUME NEW c \in Clients, ClientStep(c) PROVE clients' = clients
    BY <1>3 DEF ClientStep, Connect, StartPumps, ReadMessage, Reply, ReaderExits, WriteOne,
                WriterExits
  <1>4. ASSUME NEW q \in Procs, LoopStep(q) PROVE clients' = clients
    <2>1. CASE FinishSend(q)
      <3>1. Locked(q)
        BY <2>1 DEF FinishSend, Locked
      <3>2. job[q].kind # "disconnect"
        BY <1>1, <3>1 DEF Inv, LockExcludes
      <3> QED
        BY <2>1, <3>2 DEF FinishSend
    <2> QED
      BY <1>4, <2>1 DEF LoopStep, LockBroadcast, LockDisconnect, SkipUnsubscribed, SendTo,
                        SendOverflows, SendPanics
  <1>5. CASE Request
    BY <1>5 DEF Request, QueueBroadcast, CallHub
  <1> QED
    BY <1>2, <1>3, <1>4, <1>5 DEF Next, vars

\* What the hub keeps, whoever holds h.mu and whichever channels overflow.
THEOREM HubSafe == Spec => []Inv
  BY InitInv, HubNext, PTL DEF Spec

\* The hub, the pumps and the requests keep their types; no channel holds more
\* than its buffer.
THEOREM HubTypesCorrect == Spec => []TypeOK
  <1>1. Inv => TypeOK
    BY DEF Inv
  <1> QED
    BY <1>1, HubSafe, PTL

\* A client whose ReadPump has ended is out of hub.clients, or its unregister is
\* what the hub is doing (unregisterClient, registerClient, DisconnectUser).
THEOREM GoneForgotten == Spec => []GoneAreForgotten
  <1>1. Inv => GoneAreForgotten
    BY DEF Inv
  <1> QED
    BY <1>1, HubSafe, PTL

\* h.mu: the map does not change under a broadcast that is looping over it.
THEOREM StableMap == Spec => BroadcastSeesStableMap
  <1>1. Inv /\ [Next]_vars =>
           [\A p \in Procs :
               Holds(p, "broadcast") /\ Holds(p, "broadcast")' => clients' = clients]_vars
    BY MapStable
  <1> QED
    BY <1>1, HubSafe, PTL DEF Spec, BroadcastSeesStableMap

-----------------------------------------------------------------------------
(* Channels that cannot overflow *)

\* The processes that may send to a client can be counted.
LEMMA ProcsFinite == IsFiniteSet(Procs)
  BY HubAssumption, FS_AddElement DEF Procs

\* Those who wait to send to a client are finitely many.
LEMMA AwaitsCounted ==
    ASSUME NEW S \in SUBSET Procs
    PROVE  IsFiniteSet(S) /\ Cardinality(S) \in Nat
  BY ProcsFinite, FS_Subset, FS_CardinalityType

\* Nobody new wants to send to c.
LEMMA NoMoreAwait ==
    ASSUME NEW c, \A p \in Procs : Awaits(p, c)' => Awaits(p, c)
    PROVE  Awaiting(c)' <= Awaiting(c)
  <1>1. {p \in Procs : Awaits(p, c)'} \subseteq {p \in Procs : Awaits(p, c)}
    OBVIOUS
  <1>2. Cardinality({p \in Procs : Awaits(p, c)'}) <= Cardinality({p \in Procs : Awaits(p, c)})
    BY <1>1, AwaitsCounted, FS_Subset
  <1> QED
    BY <1>2 DEF Awaiting

\* q wants to.
LEMMA OneMoreAwaits ==
    ASSUME NEW c, NEW q \in Procs, \A p \in Procs : p # q /\ Awaits(p, c)' => Awaits(p, c)
    PROVE  Awaiting(c)' <= Awaiting(c) + 1
  <1> DEFINE A == {p \in Procs : Awaits(p, c)}
             B == {p \in Procs : Awaits(p, c)'}
  <1>1. A \in SUBSET Procs /\ B \subseteq A \cup {q} /\ A \cup {q} \in SUBSET Procs
    OBVIOUS
  <1> HIDE DEF A, B
  <1>2. Cardinality(B) <= Cardinality(A \cup {q})
    BY <1>1, AwaitsCounted, FS_Subset
  <1>3. Cardinality(A \cup {q}) <= Cardinality(A) + 1
    <2>1. IsFiniteSet(A) /\ Cardinality(A) \in Nat
      BY <1>1, AwaitsCounted
    <2>2. Cardinality(A \cup {q}) = IF q \in A THEN Cardinality(A) ELSE Cardinality(A) + 1
      BY <2>1, FS_AddElement
    <2> QED
      BY <2>1, <2>2
  <1>4. Cardinality(B) <= Cardinality(A) + 1
    <2>1. Cardinality(A) \in Nat /\ Cardinality(B) \in Nat /\ Cardinality(A \cup {q}) \in Nat
      BY <1>1, AwaitsCounted
    <2> QED
      BY <1>2, <1>3, <2>1
  <1> QED
    BY <1>4 DEF A, B, Awaiting

\* q has served c.
LEMMA OneLessAwaits ==
    ASSUME NEW c, NEW q \in Procs, Awaits(q, c), ~Awaits(q, c)',
           \A p \in Procs : Awaits(p, c)' => Awaits(p, c)
    PROVE  Awaiting(c)' + 1 <= Awaiting(c)
  <1> DEFINE A == {p \in Procs : Awaits(p, c)}
             B == {p \in Procs : Awaits(p, c)'}
  <1>1. A \in SUBSET Procs /\ q \in A /\ B \subseteq A \ {q} /\ A \ {q} \in SUBSET Procs
    OBVIOUS
  <1> HIDE DEF A, B
  <1>2. Cardinality(B) <= Cardinality(A \ {q})
    BY <1>1, AwaitsCounted, FS_Subset
  <1>3. Cardinality(A \ {q}) = Cardinality(A) - 1
    <2>1. IsFiniteSet(A)
      BY <1>1, AwaitsCounted
    <2> QED
      BY <1>1, <2>1, FS_RemoveElement
  <1>4. Cardinality(B) + 1 <= Cardinality(A)
    <2>1. Cardinality(A) \in Nat /\ Cardinality(B) \in Nat /\ Cardinality(A \ {q}) \in Nat
      BY <1>1, AwaitsCounted
    <2> QED
      BY <1>2, <1>3, <2>1
  <1> QED
    BY <1>4 DEF A, B, Awaiting

\* What c has in its channel and what may come without a job.
Rest(c) == queue[c] + replies[c] + Len(pending) + (IF Unregistered(c) THEN 1 ELSE 0)

\* The load of a channel is made of naturals.
LEMMA LoadParts ==
    ASSUME TypeOK, NEW c \in Clients
    PROVE  /\ Rest(c) \in Nat /\ Awaiting(c) \in Nat
           /\ Load(c) = Rest(c) + Awaiting(c)
           /\ queue[c] \in Nat /\ replies[c] \in Nat /\ Len(pending) \in Nat
           /\ Rest(c) >= queue[c] + replies[c]
  <1>1. queue[c] \in Nat /\ replies[c] \in Nat
    BY HubAssumption DEF TypeOK
  <1>2. Len(pending) \in Nat
    BY DEF TypeOK
  <1>3. Awaiting(c) \in Nat
    BY AwaitsCounted DEF Awaiting
  <1> QED
    BY <1>1, <1>2, <1>3 DEF Rest, Load

\* Whoever has something to send to c finds room in its channel.
LEMMA RoomForOne ==
    ASSUME Roomy, TypeOK, ChannelsFit, NEW c \in Clients,
           replies[c] > 0 \/ \E p \in Procs : Awaits(p, c)
    PROVE  ~Overflows(c)
  <1>1. sent \in Nat /\ sent <= MaxMessages /\ MaxMessages \in Nat /\ SendBuf \in Nat
    BY HubAssumption DEF TypeOK
  <1>2. Load(c) >= queue[c] + 1
    <2>1. CASE replies[c] > 0
      BY <2>1, LoadParts
    <2>2. ASSUME NEW q \in Procs, Awaits(q, c) PROVE Load(c) >= queue[c] + 1
      <3>1. Awaiting(c) # 0
        BY <2>2, AwaitsCounted, FS_EmptySet DEF Awaiting
      <3> QED
        BY <3>1, LoadParts
    <2> QED
      BY <2>1, <2>2
  <1>3. Load(c) <= 2 * sent + 1 /\ queue[c] \in Nat /\ Load(c) \in Nat
    BY LoadParts DEF ChannelsFit
  <1>4. queue[c] < SendBuf
    BY <1>1, <1>2, <1>3 DEF Roomy
  <1> QED
    BY <1>4 DEF Overflows, CanEnqueue, Panics

\* What is spent and what comes stays within what the messages allow.
LEMMA LoadStep ==
    ASSUME TypeOK, TypeOK', NEW c \in Clients, Load(c) <= 2 * sent + 1,
           \/ /\ Rest(c)' <= Rest(c) + 2 * (sent' - sent)
              /\ \A p \in Procs : Awaits(p, c)' => Awaits(p, c)
           \/ /\ Rest(c)' + 1 <= Rest(c) + 2 * (sent' - sent)
              /\ \E q \in Procs : \A p \in Procs : p # q /\ Awaits(p, c)' => Awaits(p, c)
           \/ /\ Rest(c)' <= Rest(c) + 1 + 2 * (sent' - sent)
              /\ \A p \in Procs : Awaits(p, c)' => Awaits(p, c)
              /\ \E q \in Procs : Awaits(q, c) /\ ~Awaits(q, c)'
    PROVE  Load(c)' <= 2 * sent' + 1
  <1>1. /\ Rest(c) \in Nat /\ Awaiting(c) \in Nat
        /\ Load(c) = Rest(c) + Awaiting(c) /\ sent \in Nat
    BY LoadParts, HubAssumption DEF TypeOK
  <1>2. /\ Rest(c)' \in Nat /\ Awaiting(c)' \in Nat
        /\ Load(c)' = Rest(c)' + Awaiting(c)' /\ sent' \in Nat
    <2>1. (TypeOK /\ c \in Clients =>
             /\ Rest(c) \in Nat /\ Awaiting(c) \in Nat
             /\ Load(c) = Rest(c) + Awaiting(c))'
      BY LoadParts, PTL
    <2>2. sent' \in Nat
      BY HubAssumption DEF TypeOK
    <2> QED
      BY <2>1, <2>2
  <1> QED
    BY <1>1, <1>2, NoMoreAwait, OneMoreAwaits, OneLessAwaits

\* Who has no new job, and no more of the old one, awaits no more.
LEMMA AwaitsOnlyLess ==
    ASSUME NEW p \in Procs, NEW c,
           \/ job'[p] = job[p]
           \/ job'[p] = NoJob
           \/ job'[p].kind \notin {"register", "broadcast", "disconnect"}
           \/ /\ Busy(p) /\ job'[p].kind = job[p].kind
              /\ job[p].kind = "register" \/ job[p].locked =>
                    job'[p].todo \subseteq job[p].todo /\ (job[p].locked => job'[p].locked)
    PROVE  Awaits(p, c)' => Awaits(p, c)
  BY DEF Awaits, Busy

\* The steps of the pumps find room, or use some up.
LEMMA ClientChannels ==
    ASSUME Roomy, RoomyInv, TypeOK', NEW c \in Clients, ClientStep(c)
    PROVE  ChannelsFit'
  <1>1. TypeOK /\ ChannelsFit
    BY DEF RoomyInv, Inv
  <1>2. /\ queue \in [Clients -> 0 .. SendBuf] /\ replies \in [Clients -> 0 .. 2]
        /\ reader \in [Clients -> {"none", "registering", "registered", "reading",
                                  "overflow", "exiting", "done"}]
        /\ Len(pending) \in Nat /\ sent \in Nat
    BY <1>1, HubAssumption DEF TypeOK
  <1>3. job' = job /\ pending' = pending /\ sent' \in {sent, sent + 1}
    BY DEF ClientStep, Connect, StartPumps, ReadMessage, Reply, ReaderExits, WriteOne, WriterExits
  <1>4. CASE Reply(c)
    <2>1. ~Overflows(c) /\ queue[c] \in Nat /\ replies[c] \in Nat
      BY <1>1, <1>4, RoomForOne, LoadParts DEF Reply
    <2>2. /\ reader' = reader /\ sent' = sent
          /\ replies' = [replies EXCEPT ![c] = @ - 1]
          /\ queue' = queue \/ queue' = [queue EXCEPT ![c] = @ + 1]
      BY <1>4, <2>1 DEF Reply, Enqueue
    <2>3. ASSUME NEW d \in Clients PROVE Rest(d)' <= Rest(d) + 2 * (sent' - sent)
      <3>1. queue'[d] + replies'[d] <= queue[d] + replies[d]
        BY <1>2, <2>1, <2>2
      <3>2. /\ queue[d] \in Nat /\ replies[d] \in Nat /\ queue'[d] \in Nat
            /\ replies'[d] \in Int
        BY <1>2, <2>1, <2>2
      <3> QED
        BY <1>2, <1>3, <2>2, <3>1, <3>2 DEF Rest, Unregistered
    <2>4. ASSUME NEW d \in Clients PROVE Load(d)' <= 2 * sent' + 1
      BY <1>1, <1>3, <2>3, LoadStep DEF ChannelsFit, Awaits, Busy
    <2> QED
      BY <1>1, <1>3, <2>2, <2>4 DEF ChannelsFit, Busy
  <1>5. CASE ~Reply(c)
    <2>1. /\ \/ reader' = reader
             \/ reader[c] = "none" /\ reader' = [reader EXCEPT ![c] = "registering"]
             \/ reader[c] = "registered" /\ reader' = [reader EXCEPT ![c] = "reading"]
             \/ reader[c] = "reading" /\ reader' = [reader EXCEPT ![c] = "exiting"]
          /\ queue' = queue \/ (queue[c] > 0 /\ queue' = [queue EXCEPT ![c] = @ - 1])
          /\ \/ replies' = replies /\ sent' = sent
             \/ /\ replies[c] = 0 /\ \E n \in 0 .. 2 : replies' = [replies EXCEPT ![c] = n]
                /\ sent' = sent + 1
      BY <1>5 DEF ClientStep, Connect, StartPumps, ReadMessage, ReaderExits, WriteOne, WriterExits
    <2>2. ASSUME NEW d \in Clients
          PROVE  /\ Rest(d)' <= Rest(d) + 2 * (sent' - sent)
                 /\ reader'[d] = "overflow" => reader[d] = "overflow"
      <3>1. queue'[d] <= queue[d] /\ queue'[d] \in Int /\ queue[d] \in Nat
        BY <1>2, <2>1
      <3>2. /\ replies'[d] <= replies[d] + 2 * (sent' - sent)
            /\ replies'[d] \in Nat /\ replies[d] \in Nat /\ sent' \in Nat
        <4>1. CASE replies' = replies /\ sent' = sent
          BY <1>2, <4>1
        <4>2. ASSUME NEW n \in 0 .. 2, replies[c] = 0, replies' = [replies EXCEPT ![c] = n],
                     sent' = sent + 1
              PROVE  /\ replies'[d] <= replies[d] + 2 * (sent' - sent)
                     /\ replies'[d] \in Nat /\ replies[d] \in Nat /\ sent' \in Nat
          BY <1>2, <4>2
        <4> QED
          BY <2>1, <4>1, <4>2
      <3>3. /\ Unregistered(d)' = Unregistered(d)
            /\ reader'[d] = "overflow" => reader[d] = "overflow"
        BY <1>2, <2>1 DEF Unregistered
      <3> QED
        <4>1. PICK u \in Nat : u = IF Unregistered(d) THEN 1 ELSE 0
          OBVIOUS
        <4>2. Rest(d) = queue[d] + replies[d] + Len(pending) + u
          BY <4>1 DEF Rest
        <4>3. Rest(d)' = queue'[d] + replies'[d] + Len(pending) + u
          BY <1>3, <3>3, <4>1 DEF Rest
        <4>4. Len(pending) \in Nat /\ sent \in Nat
          BY <1>2
        <4>5. \A q, q1, r, r1, l, m \in Int :
                 q1 <= q /\ r1 <= r + m => q1 + r1 + l + u <= q + r + l + u + m
          OBVIOUS
        <4>6. 2 * (sent' - sent) \in Int
          BY <3>2, <4>4
        <4>7. Rest(d)' <= Rest(d) + 2 * (sent' - sent)
          <5>1. queue'[d] + replies'[d] + Len(pending) + u
                <= queue[d] + replies[d] + Len(pending) + u + 2 * (sent' - sent)
            <6>1. queue'[d] <= queue[d]
              BY <3>1
            <6>2. replies'[d] <= replies[d] + 2 * (sent' - sent)
              BY <3>2
            <6>3. /\ queue'[d] \in Int /\ queue[d] \in Int /\ replies'[d] \in Int
                  /\ replies[d] \in Int /\ Len(pending) \in Int /\ u \in Int
              BY <3>1, <3>2, <4>4
            <6> QED
              BY <4>5, <4>6, <6>1, <6>2, <6>3
          <5> QED
            BY <4>2, <4>3, <5>1
        <4> QED
          BY <3>3, <4>7
    <2>3. ASSUME NEW d \in Clients PROVE Load(d)' <= 2 * sent' + 1
      BY <1>1, <1>3, <2>2, LoadStep DEF ChannelsFit, Awaits, Busy
    <2> QED
      BY <1>1, <1>3, <2>2, <2>3 DEF ChannelsFit, Busy
  <1> QED
    BY <1>4, <1>5

\* The hub takes no unregister of a full channel, and pays for a job it takes
\* with what it took.
LEMMA HubChannels ==
    ASSUME Roomy, RoomyInv, TypeOK', HubStep \/ TakeShutdown
    PROVE  ChannelsFit'
  <1>1. TypeOK /\ ChannelsFit /\ Inv
    BY DEF RoomyInv, Inv
  <1>2. /\ job \in [Procs -> Jobs \cup {NoJob}]
        /\ reader \in [Clients -> {"none", "registering", "registered", "reading",
                                  "overflow", "exiting", "done"}]
        /\ Len(pending) \in Nat /\ sent \in Nat /\ Hub \in Procs
        /\ \A d \in Clients : queue[d] \in Nat /\ replies[d] \in Nat
    BY <1>1, HubAssumption, LoadParts DEF TypeOK, Procs
  <1>3. /\ ~ \E c \in Clients : TakeOverflow(c)
        /\ ~ \E p \in Apps : TakeOverflowOf(p)
    BY <1>1 DEF ChannelsFit, TakeOverflow, TakeOverflowOf, Procs
  <1>4. UNCHANGED <<queue, replies, sent>>
    BY <1>3 DEF HubStep, TakeShutdown, TakeRegister, TakeUnregister, TakeBroadcast, LockRegister,
                UnregisterClient, Shutdown
  <1>5. ASSUME NEW j, job' = [job EXCEPT ![Hub] = j], j = NoJob \/ j.full = {},
               \A d \in Clients : Load(d)' <= 2 * sent' + 1,
               \A d \in Clients : reader'[d] = "overflow" => reader[d] = "overflow"
        PROVE  ChannelsFit'
    BY <1>1, <1>2, <1>5 DEF ChannelsFit, Busy
  <1>6. ASSUME NEW c \in Clients, TakeRegister(c) PROVE ChannelsFit'
    <2>1. PICK j : job' = [job EXCEPT ![Hub] = j] /\ Begun(j, "register", {c})
      <3>1. Begun(Job("register", {}, {c}), "register", {c})
        BY ServesOne, JobBegins
      <3> QED
        BY <1>6, <3>1 DEF TakeRegister
    <2>2. /\ reader[c] = "registering" /\ reader' = [reader EXCEPT ![c] = "registered"]
          /\ pending' = pending
      BY <1>6 DEF TakeRegister
    <2>3. ASSUME NEW d \in Clients PROVE Load(d)' <= 2 * sent' + 1
      <3>1. CASE d = c
        <4>1. Unregistered(d) /\ ~Unregistered(d)'
          BY <1>2, <2>2, <3>1 DEF Unregistered
        <4>2. Rest(d)' + 1 <= Rest(d) + 2 * (sent' - sent)
          BY <1>2, <1>4, <2>2, <4>1 DEF Rest
        <4>3. \A p \in Procs : p # Hub /\ Awaits(p, d)' => Awaits(p, d)
          BY <1>2, <2>1 DEF Awaits, Busy
        <4> QED
          BY <1>1, <1>2, <4>2, <4>3, LoadStep DEF ChannelsFit
      <3>2. CASE d # c
        <4>1. Unregistered(d)' = Unregistered(d)
          BY <1>2, <2>2, <3>2 DEF Unregistered
        <4>2. Rest(d)' <= Rest(d) + 2 * (sent' - sent)
          BY <1>2, <1>4, <2>2, <4>1 DEF Rest
        <4>3. \A p \in Procs : Awaits(p, d)' => Awaits(p, d)
          BY <1>2, <2>1, <3>2 DEF Awaits, Busy, Begun
        <4> QED
          BY <1>1, <1>2, <4>2, <4>3, LoadStep DEF ChannelsFit
      <3> QED
        BY <3>1, <3>2
    <2> QED
      BY <1>2, <1>5, <2>1, <2>2, <2>3 DEF Begun
  <1>7. ASSUME NEW j, job' = [job EXCEPT ![Hub] = j], pending' = pending,
               \/ j = NoJob
               \/ j.kind \in {"unregister", "shutdown", "stopped"} /\ j.full = {},
               \/ reader' = reader
               \/ \E c \in Clients : /\ reader[c] = "exiting"
                                     /\ reader' = [reader EXCEPT ![c] = "done"]
        PROVE  ChannelsFit'
    <2>1. \A d \in Clients : /\ Unregistered(d)' = Unregistered(d)
                             /\ reader'[d] = "overflow" => reader[d] = "overflow"
      BY <1>2, <1>7 DEF Unregistered
    <2>2. ASSUME NEW d \in Clients PROVE Load(d)' <= 2 * sent' + 1
      <3>1. Rest(d)' <= Rest(d) + 2 * (sent' - sent)
        BY <1>2, <1>4, <1>7, <2>1 DEF Rest
      <3>2. \A p \in Procs : Awaits(p, d)' => Awaits(p, d)
        BY <1>2, <1>7 DEF Awaits, Busy
      <3> QED
        BY <1>1, <3>1, <3>2, LoadStep DEF ChannelsFit
    <2> QED
      BY <1>5, <1>7, <2>1, <2>2
  <1>8. ASSUME NEW c \in Clients, TakeUnregister(c) PROVE ChannelsFit'
    <2>1. PICK j : job' = [job EXCEPT ![Hub] = j] /\ Begun(j, "unregister", {c})
      <3>1. Begun(Job("unregister", {}, {c}), "unregister", {c})
        BY ServesOne, JobBegins
      <3> QED
        BY <1>8, <3>1 DEF TakeUnregister
    <2> QED
      BY <1>7, <1>8, <2>1 DEF TakeUnregister, Begun
  <1>9. CASE TakeBroadcast
    <2>1. /\ Head(pending) \in SUBSET Identities /\ {} \in SUBSET Clients
          /\ Len(pending') = Len(pending) - 1 /\ reader' = reader
      BY <1>1, <1>9 DEF TakeBroadcast, TypeOK
    <2>2. PICK j : job' = [job EXCEPT ![Hub] = j] /\ Begun(j, "broadcast", {})
      <3>1. Begun(Job("broadcast", Head(pending), {}), "broadcast", {})
        BY <2>1, JobBegins
      <3> QED
        BY <1>9, <3>1 DEF TakeBroadcast
    <2>3. ASSUME NEW d \in Clients PROVE Load(d)' <= 2 * sent' + 1
      <3>1. Rest(d)' + 1 <= Rest(d) + 2 * (sent' - sent)
        BY <1>2, <1>4, <2>1 DEF Rest, Unregistered
      <3>2. \A p \in Procs : p # Hub /\ Awaits(p, d)' => Awaits(p, d)
        BY <1>2, <2>2 DEF Awaits, Busy
      <3> QED
        BY <1>1, <1>2, <3>1, <3>2, LoadStep DEF ChannelsFit
    <2> QED
      BY <1>5, <2>1, <2>2, <2>3 DEF Begun
  <1>10. CASE TakeShutdown \/ Shutdown
    <2>1. PICK j : /\ job' = [job EXCEPT ![Hub] = j]
                   /\ Begun(j, "shutdown", {}) \/ Begun(j, "stopped", {})
      <3>1. Begun(Job("shutdown", {}, {}), "shutdown", {})
            /\ Begun(Job("stopped", {}, {}), "stopped", {})
        BY ServesOne, JobBegins
      <3> QED
        BY <1>10, <3>1 DEF TakeShutdown, Shutdown
    <2> QED
      BY <1>7, <1>10, <2>1 DEF TakeShutdown, Shutdown, Begun
  <1>11. CASE UnregisterClient
    BY <1>7, <1>11 DEF UnregisterClient
  <1>12. CASE LockRegister
    <2>1. job[Hub] \in Jobs /\ job[Hub].kind = "register" /\ Busy(Hub) /\ job[Hub].full = {}
      BY <1>1, <1>2, <1>12 DEF LockRegister, Is, Busy, ChannelsFit
    <2> DEFINE j == [job[Hub] EXCEPT !.locked = TRUE]
    <2>2. j.kind = "register" /\ j.todo = job[Hub].todo /\ j.full = {} /\ j.locked
      BY <2>1 DEF Jobs
    <2>3. job' = [job EXCEPT ![Hub] = j] /\ reader' = reader /\ pending' = pending
      BY <1>12 DEF LockRegister
    <2> HIDE DEF j
    <2>4. ASSUME NEW d \in Clients PROVE Load(d)' <= 2 * sent' + 1
      <3>1. Rest(d)' <= Rest(d) + 2 * (sent' - sent)
        BY <1>2, <1>4, <2>3 DEF Rest, Unregistered
      <3>2. \A p \in Procs : Awaits(p, d)' => Awaits(p, d)
        BY <1>2, <2>1, <2>2, <2>3 DEF Awaits, Busy
      <3> QED
        BY <1>1, <3>1, <3>2, LoadStep DEF ChannelsFit
    <2> QED
      BY <1>5, <2>2, <2>3, <2>4
  <1> QED
    BY <1>3, <1>6, <1>8, <1>9, <1>10, <1>11, <1>12 DEF HubStep

\* Who loops over the clients serves one of them, without ever finding its
\* channel full, or is done.
LEMMA LoopChannels ==
    ASSUME Roomy, RoomyInv, TypeOK', NEW p \in Procs, LoopStep(p)
    PROVE  ChannelsFit'
  <1>1. TypeOK /\ ChannelsFit /\ Inv
    BY DEF RoomyInv, Inv
  <1>2. /\ job \in [Procs -> Jobs \cup {NoJob}]
        /\ queue \in [Clients -> 0 .. SendBuf]
        /\ Len(pending) \in Nat /\ sent \in Nat
        /\ \A d \in Clients : queue[d] \in Nat /\ replies[d] \in Nat
    BY <1>1, HubAssumption, LoadParts DEF TypeOK
  <1>3. job[p] \in Jobs /\ Busy(p) /\ JobFits(p) /\ job[p].full = {}
    BY <1>1, <1>2 DEF LoopStep, LockBroadcast, LockDisconnect, SkipUnsubscribed, SendTo,
                      SendOverflows, SendPanics, FinishSend, Calls, Serves, Is, Busy, Inv,
                      ChannelsFit
  <1>4. ASSUME NEW j, job' = [job EXCEPT ![p] = j], j = NoJob \/ j.full = {},
               \A d \in Clients : Load(d)' <= 2 * sent' + 1, reader' = reader
        PROVE  ChannelsFit'
    BY <1>1, <1>2, <1>4 DEF ChannelsFit, Busy
  <1>5. ASSUME NEW j, job' = [job EXCEPT ![p] = j],
               \/ j = NoJob
               \/ /\ j.full = {} /\ j.kind = job[p].kind /\ j.locked
                  /\ job[p].locked => j.todo \subseteq job[p].todo
                  /\ job[p].kind # "register" \/ job[p].locked,
               UNCHANGED <<queue, replies, pending, sent, reader>>
        PROVE  ChannelsFit'
    <2>1. ASSUME NEW d \in Clients PROVE Load(d)' <= 2 * sent' + 1
      <3>1. Rest(d)' <= Rest(d) + 2 * (sent' - sent)
        BY <1>2, <1>5 DEF Rest, Unregistered
      <3>2. \A q \in Procs : Awaits(q, d)' => Awaits(q, d)
        BY <1>2, <1>3, <1>5 DEF Awaits, Busy
      <3> QED
        BY <1>1, <3>1, <3>2, LoadStep DEF ChannelsFit
    <2> QED
      BY <1>4, <1>5, <2>1
  <1>6. CASE LockBroadcast(p) \/ LockDisconnect(p)
    <2> DEFINE j == [job[p] EXCEPT !.locked = TRUE, !.todo = clients \cap Of(job[p].to)]
    <2>1. j.full = {} /\ j.kind = job[p].kind /\ j.locked
      BY <1>3 DEF Jobs
    <2>2. /\ job' = [job EXCEPT ![p] = j] /\ ~job[p].locked /\ job[p].kind # "register"
          /\ UNCHANGED <<queue, replies, pending, sent, reader>>
      BY <1>2, <1>6 DEF LockBroadcast, LockDisconnect, Is
    <2> HIDE DEF j
    <2> QED
      BY <1>5, <2>1, <2>2
  <1>7. ASSUME NEW c \in Clients, SkipUnsubscribed(p, c) PROVE ChannelsFit'
    <2> DEFINE j == [job[p] EXCEPT !.todo = @ \ {c}]
    <2>1. /\ j.full = {} /\ j.kind = job[p].kind /\ j.locked = job[p].locked
          /\ j.todo = job[p].todo \ {c}
      BY <1>3 DEF Jobs
    <2>2. /\ job' = [job EXCEPT ![p] = j] /\ job[p].locked
          /\ UNCHANGED <<queue, replies, pending, sent, reader>>
      BY <1>2, <1>7 DEF SkipUnsubscribed, Serves
    <2> HIDE DEF j
    <2> QED
      BY <1>5, <2>1, <2>2
  <1>8. ASSUME NEW c \in Clients, Calls(p, c)
        PROVE  Awaits(p, c) /\ ~Overflows(c)
    <2>1. Awaits(p, c)
      BY <1>3, <1>8 DEF Calls, Serves, Awaits, JobFits
    <2> QED
      BY <1>1, <2>1, RoomForOne
  <1>9. ASSUME NEW c \in Clients, SendTo(p, c) PROVE ChannelsFit'
    <2> DEFINE j == [job[p] EXCEPT !.todo = @ \ {c}]
    <2>1. /\ j.full = {} /\ j.kind = job[p].kind /\ j.locked = job[p].locked
          /\ j.todo = job[p].todo \ {c}
      BY <1>3 DEF Jobs
    <2>2. /\ job' = [job EXCEPT ![p] = j] /\ job[p].locked /\ c \in job[p].todo
          /\ UNCHANGED <<replies, pending, sent, reader>>
          /\ queue' = queue \/ queue' = [queue EXCEPT ![c] = @ + 1]
      BY <1>2, <1>9 DEF SendTo, Calls, Serves, Enqueue
    <2> HIDE DEF j
    <2>3. Awaits(p, c) /\ ~Awaits(p, c)'
      BY <1>2, <1>8, <1>9, <2>1, <2>2 DEF SendTo, Awaits
    <2>4. ASSUME NEW d \in Clients PROVE Load(d)' <= 2 * sent' + 1
      <3>1. \A q \in Procs : Awaits(q, d)' => Awaits(q, d)
        BY <1>2, <1>3, <2>1, <2>2 DEF Awaits, Busy
      <3>2. CASE d = c
        <4>1. Rest(d)' <= Rest(d) + 1 + 2 * (sent' - sent)
          BY <1>2, <2>2, <3>2 DEF Rest, Unregistered
        <4> QED
          BY <1>1, <2>3, <3>1, <3>2, <4>1, LoadStep DEF ChannelsFit
      <3>3. CASE d # c
        <4>1. Rest(d)' <= Rest(d) + 2 * (sent' - sent)
          BY <1>2, <2>2, <3>3 DEF Rest, Unregistered
        <4> QED
          BY <1>1, <3>1, <4>1, LoadStep DEF ChannelsFit
      <3> QED
        BY <3>2, <3>3
    <2> QED
      BY <1>4, <2>1, <2>2, <2>4
  <1>10. ASSUME NEW c \in Clients PROVE ~SendOverflows(p, c)
    BY <1>8, <1>10 DEF SendOverflows
  <1>11. ASSUME NEW c \in Clients, SendPanics(p, c) PROVE ChannelsFit'
    BY <1>5, <1>11 DEF SendPanics
  <1>12. CASE FinishSend(p)
    BY <1>5, <1>12 DEF FinishSend
  <1> QED
    BY <1>6, <1>7, <1>9, <1>10, <1>11, <1>12 DEF LoopStep

\* A request pays for what it sends with one of the messages.
LEMMA RequestChannels ==
    ASSUME Roomy, RoomyInv, TypeOK', Request
    PROVE  ChannelsFit'
  <1>1. TypeOK /\ ChannelsFit
    BY DEF RoomyInv, Inv
  <1>2. /\ job \in [Procs -> Jobs \cup {NoJob}] /\ Len(pending) \in Nat /\ sent \in Nat
        /\ \A d \in Clients : queue[d] \in Nat /\ replies[d] \in Nat
    BY <1>1, HubAssumption, LoadParts DEF TypeOK
  <1>3. UNCHANGED <<queue, replies, reader>> /\ sent' = sent + 1
    BY DEF Request, QueueBroadcast, CallHub
  <1>4. ASSUME NEW to \in SUBSET Identities, QueueBroadcast(to) PROVE ChannelsFit'
    <2>1. Len(pending') = Len(pending) + 1 /\ job' = job
      BY <1>1, <1>4 DEF QueueBroadcast, TypeOK
    <2>2. ASSUME NEW d \in Clients PROVE Load(d)' <= 2 * sent' + 1
      <3>1. Rest(d)' <= Rest(d) + 2 * (sent' - sent)
        BY <1>2, <1>3, <2>1 DEF Rest, Unregistered
      <3> QED
        BY <1>1, <2>1, <3>1, LoadStep DEF ChannelsFit, Awaits, Busy
    <2> QED
      BY <1>1, <1>3, <2>1, <2>2 DEF ChannelsFit, Busy
  <1>5. ASSUME NEW p \in Apps, NEW kind \in {"broadcast", "disconnect"}, NEW i \in Identities,
               CallHub(p, kind, i)
        PROVE  ChannelsFit'
    <2>1. {i} \in SUBSET Identities /\ {} \in SUBSET Clients /\ p \in Procs
      BY DEF Procs
    <2>2. Begun(Job(kind, {i}, {}), kind, {})
      BY <2>1, JobBegins
    <2>3. PICK j : job' = [job EXCEPT ![p] = j] /\ Begun(j, kind, {})
      BY <1>5, <2>2 DEF CallHub
    <2>4. pending' = pending
      BY <1>5 DEF CallHub
    <2>5. ASSUME NEW d \in Clients PROVE Load(d)' <= 2 * sent' + 1
      <3>1. Rest(d)' + 1 <= Rest(d) + 2 * (sent' - sent)
        BY <1>2, <1>3, <2>4 DEF Rest, Unregistered
      <3>2. \A q \in Procs : q # p /\ Awaits(q, d)' => Awaits(q, d)
        BY <1>2, <2>3 DEF Awaits, Busy
      <3> QED
        BY <1>1, <2>1, <3>1, <3>2, LoadStep DEF ChannelsFit
    <2> QED
      BY <1>1, <1>2, <1>3, <2>1, <2>3, <2>5 DEF ChannelsFit, Busy, Begun
  <1>6. Identities \in SUBSET Identities /\ \A i \in Identities : {i} \in SUBSET Identities
    OBVIOUS
  <1> QED
    BY <1>4, <1>5, <1>6 DEF Request

-----------------------------------------------------------------------------
(* The map and the closed channels *)

\* While nobody holds h.mu for writing, and the hub has not stopped, no mapped
\* client has a closed channel.
LEMMA AllOpen ==
    ASSUME RoomyInv, alive, ~WriteLocked, ~Stopped
    PROVE  clients \cap closed = {}
  BY DEF RoomyInv, MapFits, MappedAreOpen, WriteLocked, Procs

\* Who writes to the map is alone.
LEMMA OneWriter ==
    ASSUME Inv, NEW p \in Procs, Locked(p), NEW q \in Procs, Holds(q, "disconnect")
    PROVE  p = q
  BY DEF Inv, LockExcludes, Locked, Holds, Is

\* The steps of the pumps close nothing.
LEMMA ClientMap ==
    ASSUME Roomy, RoomyInv, NEW c \in Clients, ClientStep(c)
    PROVE  MapFits'
  <1>1. TypeOK /\ ChannelsFit /\ MapFits
    BY DEF RoomyInv, Inv
  <1>2. reader \in [Clients -> {"none", "registering", "registered", "reading",
                               "overflow", "exiting", "done"}]
    BY <1>1 DEF TypeOK
  <1>3. /\ UNCHANGED <<clients, job>> /\ alive
        /\ \/ reader' = reader
           \/ reader[c] = "none" /\ reader' = [reader EXCEPT ![c] = "registering"]
           \/ \E at \in {"reading", "overflow", "exiting"} : reader' = [reader EXCEPT ![c] = at]
    BY DEF ClientStep, Connect, StartPumps, ReadMessage, Reply, ReaderExits, WriteOne, WriterExits
  <1>4. closed' = closed
    <2>1. CASE Reply(c)
      BY <1>1, <2>1, RoomForOne DEF Reply
    <2> QED
      BY <2>1 DEF ClientStep, Connect, StartPumps, ReadMessage, ReaderExits, WriteOne, WriterExits
  <1>5. \A d \in Clients : Fresh(d)' => Fresh(d)
    BY <1>2, <1>3 DEF Fresh, Unregistered, Is, Busy
  <1>6. \A p \in Procs : DisconnectFits(p) => DisconnectFits(p)'
    BY <1>3, <1>4 DEF DisconnectFits, Holds, Is, Busy, Stopped
  <1>7. MappedAreOpen'
    BY <1>1, <1>3, <1>4 DEF MapFits, MappedAreOpen, Holds, Is, Busy, Stopped
  <1> QED
    BY <1>1, <1>3, <1>4, <1>5, <1>6, <1>7 DEF MapFits

\* A job of p that does not write to the map, before and after.
LEMMA ReaderMap ==
    ASSUME RoomyInv, NEW p \in Procs, \A q \in Procs : q # p => job'[q] = job[q],
           UNCHANGED <<clients, closed>>, alive,
           ~Holds(p, "disconnect"), ~Holds(p, "disconnect")',
           p = Hub => ~Stopped,
           \A d \in Clients : Fresh(d)' => Fresh(d)
    PROVE  MapFits'
  <1>1. MapFits /\ Hub \in Procs /\ Apps \subseteq Procs
    BY DEF RoomyInv, Procs
  <1>2. Stopped => Stopped'
    BY <1>1 DEF Stopped, Is, Busy
  <1>3. \A q \in Procs : DisconnectFits(q)'
    BY <1>1, <1>2 DEF MapFits, DisconnectFits, Holds, Is, Busy
  <1>4. MappedAreOpen'
    <2> SUFFICES ASSUME NEW d \in clients \cap closed, ~Stopped'
                 PROVE  \E q \in Apps : Holds(q, "disconnect")' /\ d \in Of(job'[q].to)
      BY DEF MappedAreOpen
    <2>1. PICK q \in Apps : Holds(q, "disconnect") /\ d \in Of(job[q].to)
      BY <1>1, <1>2 DEF MapFits, MappedAreOpen
    <2>2. q \in Procs /\ q # p
      BY <1>1, <2>1
    <2> QED
      BY <2>1, <2>2 DEF Holds, Is, Busy
  <1> QED
    BY <1>1, <1>3, <1>4 DEF MapFits

\* The steps of the hub: it puts into the map whom nobody has closed, and closes
\* whom it takes out.
LEMMA HubMap ==
    ASSUME Roomy, RoomyInv, HubStep \/ TakeShutdown
    PROVE  MapFits'
  <1>1. TypeOK /\ ChannelsFit /\ MapFits /\ Inv
    BY DEF RoomyInv, Inv
  <1>2. /\ job \in [Procs -> Jobs \cup {NoJob}]
        /\ reader \in [Clients -> {"none", "registering", "registered", "reading",
                                  "overflow", "exiting", "done"}]
        /\ Hub \in Procs /\ Apps \subseteq Procs /\ Hub \notin Apps
        /\ clients \subseteq Clients
    BY <1>1, HubAssumption DEF TypeOK, Procs
  <1>3. /\ ~ \E c \in Clients : TakeOverflow(c)
        /\ ~ \E p \in Apps : TakeOverflowOf(p)
    BY <1>1 DEF ChannelsFit, TakeOverflow, TakeOverflowOf, Procs
  <1>4. ASSUME NEW j, job' = [job EXCEPT ![Hub] = j], j.kind # "disconnect",
               UNCHANGED <<clients, closed>>, alive, ~Busy(Hub),
               \A d \in Clients : Fresh(d)' => Fresh(d)
        PROVE  MapFits'
    BY <1>2, <1>4, ReaderMap DEF Holds, Is, Stopped
  <1>5. ASSUME NEW c \in Clients, TakeRegister(c) PROVE MapFits'
    <2>1. PICK j : job' = [job EXCEPT ![Hub] = j] /\ Begun(j, "register", {c})
      <3>1. Begun(Job("register", {}, {c}), "register", {c})
        BY ServesOne, JobBegins
      <3> QED
        BY <1>5, <3>1 DEF TakeRegister
    <2>2. \A d \in Clients : Fresh(d)' => Fresh(d)
      BY <1>2, <1>5, <2>1 DEF Fresh, Unregistered, TakeRegister, Is, Busy, Begun
    <2> QED
      BY <1>4, <1>5, <2>1, <2>2 DEF TakeRegister, Begun
  <1>6. ASSUME NEW c \in Clients, TakeUnregister(c) PROVE MapFits'
    <2>1. PICK j : job' = [job EXCEPT ![Hub] = j] /\ Begun(j, "unregister", {c})
      <3>1. Begun(Job("unregister", {}, {c}), "unregister", {c})
        BY ServesOne, JobBegins
      <3> QED
        BY <1>6, <3>1 DEF TakeUnregister
    <2>2. \A d \in Clients : Fresh(d)' => Fresh(d)
      BY <1>2, <1>6, <2>1 DEF Fresh, Unregistered, TakeUnregister, Is, Busy, Begun
    <2> QED
      BY <1>4, <1>6, <2>1, <2>2 DEF TakeUnregister, Begun
  <1>7. CASE TakeBroadcast
    <2>1. Head(pending) \in SUBSET Identities /\ {} \in SUBSET Clients
      BY <1>1, <1>7 DEF TakeBroadcast, TypeOK
    <2>2. PICK j : job' = [job EXCEPT ![Hub] = j] /\ Begun(j, "broadcast", {})
      <3>1. Begun(Job("broadcast", Head(pending), {}), "broadcast", {})
        BY <2>1, JobBegins
      <3> QED
        BY <1>7, <3>1 DEF TakeBroadcast
    <2>3. \A d \in Clients : Fresh(d)' => Fresh(d)
      BY <1>2, <1>7, <2>2 DEF Fresh, Unregistered, TakeBroadcast, Is, Busy, Begun
    <2> QED
      BY <1>4, <1>7, <2>2, <2>3 DEF TakeBroadcast, Begun
  <1>8. CASE TakeShutdown
    <2>1. PICK j : job' = [job EXCEPT ![Hub] = j] /\ Begun(j, "shutdown", {})
      <3>1. Begun(Job("shutdown", {}, {}), "shutdown", {})
        BY ServesOne, JobBegins
      <3> QED
        BY <1>8, <3>1 DEF TakeShutdown
    <2>2. \A d \in Clients : Fresh(d)' => Fresh(d)
      BY <1>2, <1>8, <2>1 DEF Fresh, Unregistered, TakeShutdown, Is, Busy, Begun
    <2> QED
      BY <1>4, <1>8, <2>1, <2>2 DEF TakeShutdown, Begun
  <1>9. ASSUME alive, ~WriteLocked, \A q \in Procs : q # Hub => job'[q] = job[q],
               ~Holds(Hub, "disconnect")', Stopped' \/ clients' \cap closed' = {},
               \A d \in Clients : Fresh(d)' => d \notin clients' \cup closed'
        PROVE  MapFits'
    <2>1. \A q \in Procs : ~Holds(q, "disconnect")'
      BY <1>9 DEF WriteLocked, Holds, Is, Busy
    <2> QED
      BY <1>9, <2>1 DEF MapFits, DisconnectFits, MappedAreOpen
  <1>10. CASE LockRegister
    <2>1. /\ job[Hub] \in Jobs /\ job[Hub].kind = "register" /\ Busy(Hub) /\ alive /\ ~WriteLocked
          /\ ~job[Hub].locked /\ JobFits(Hub) /\ closed' = closed /\ reader' = reader
          /\ clients' = clients \cup job[Hub].todo
      BY <1>1, <1>2, <1>10 DEF LockRegister, Is, Busy, Inv
    <2>2. /\ job'[Hub].kind = "register" /\ job'[Hub].locked
          /\ \A q \in Procs : q # Hub => job'[q] = job[q]
      BY <1>2, <1>10, <2>1 DEF LockRegister, Jobs
    <2>3. ~Stopped /\ clients \cap closed = {}
      BY <2>1, AllOpen DEF Stopped, Is
    <2>4. \A d \in job[Hub].todo : d \in Clients /\ Fresh(d) /\ d \notin closed
                                   /\ ~Unregistered(d)
      BY <1>1, <2>1 DEF Fresh, Is, MapFits, JobFits, Unregistered, Jobs
    <2>5. \A d \in Clients : Fresh(d)' => Fresh(d) /\ d \notin job[Hub].todo
      BY <2>1, <2>2, <2>4 DEF Fresh, Unregistered, Is, Busy
    <2>6. clients' \cap closed' = {}
      BY <2>1, <2>3, <2>4
    <2>7. \A d \in Clients : Fresh(d)' => d \notin clients' \cup closed'
      BY <1>1, <2>1, <2>5 DEF MapFits
    <2> QED
      BY <1>9, <2>1, <2>2, <2>6, <2>7 DEF Holds, Is
  <1>11. CASE UnregisterClient
    <2>1. /\ job'[Hub] = NoJob /\ reader' = reader /\ alive /\ ~WriteLocked /\ ~Stopped
          /\ \A q \in Procs : q # Hub => job'[q] = job[q]
          /\ clients' = clients \ job[Hub].todo
          /\ closed' = closed \cup (job[Hub].todo \cap clients)
      BY <1>2, <1>11 DEF UnregisterClient, Close, Stopped, Is
    <2>2. clients \cap closed = {}
      BY <2>1, AllOpen
    <2>3. \A d \in Clients : Fresh(d)' => Fresh(d)
      BY <2>1 DEF Fresh, Unregistered, Is, Busy
    <2>4. \A d \in Clients : Fresh(d)' => d \notin clients' \cup closed'
      BY <1>1, <2>1, <2>3 DEF MapFits
    <2> QED
      BY <1>9, <2>1, <2>2, <2>4 DEF Holds, Is, Busy
  <1>12. CASE Shutdown
    <2>1. PICK j : job' = [job EXCEPT ![Hub] = j] /\ Begun(j, "stopped", {})
      <3>1. Begun(Job("stopped", {}, {}), "stopped", {})
        BY ServesOne, JobBegins
      <3> QED
        BY <1>12, <3>1 DEF Shutdown
    <2>2. /\ reader' = reader /\ alive /\ ~WriteLocked /\ clients' = clients
          /\ closed' = closed \cup clients
      BY <1>12 DEF Shutdown, Close
    <2>3. Stopped' /\ job'[Hub].kind = "stopped" /\ \A q \in Procs : q # Hub => job'[q] = job[q]
      BY <1>2, <2>1 DEF Stopped, Is, Busy, Begun
    <2>4. \A d \in Clients : Fresh(d)' => Fresh(d)
      BY <2>2, <2>3 DEF Fresh, Unregistered, Is
    <2>5. \A d \in Clients : Fresh(d)' => d \notin clients' \cup closed'
      BY <1>1, <2>2, <2>4 DEF MapFits
    <2> QED
      BY <1>9, <2>2, <2>3, <2>5 DEF Holds, Is
  <1> QED
    BY <1>3, <1>5, <1>6, <1>7, <1>8, <1>10, <1>11, <1>12 DEF HubStep

\* A disconnect closes the mapped clients of its identity before it deletes them,
\* and nobody else takes part.
LEMMA LoopMap ==
    ASSUME Roomy, RoomyInv, NEW p \in Procs, LoopStep(p)
    PROVE  MapFits'
  <1>1. TypeOK /\ MapFits /\ Inv
    BY DEF RoomyInv, Inv
  <1>2. /\ job \in [Procs -> Jobs \cup {NoJob}] /\ clients \subseteq Clients
        /\ Hub \in Procs /\ Apps \subseteq Procs
    BY <1>1 DEF TypeOK, Procs
  <1>3. /\ job[p] \in Jobs /\ Busy(p) /\ JobFits(p) /\ alive /\ reader' = reader
        /\ \A q \in Procs : q # p => job'[q] = job[q]
    BY <1>1, <1>2 DEF LoopStep, LockBroadcast, LockDisconnect, SkipUnsubscribed, SendTo,
                      SendOverflows, SendPanics, FinishSend, Calls, Serves, Is, Busy, Inv
  <1>4. p = Hub => ~Stopped
    BY <1>3 DEF LoopStep, LockBroadcast, LockDisconnect, SkipUnsubscribed, SendTo,
                SendOverflows, SendPanics, FinishSend, Calls, Serves, Is, Stopped, JobFits
  <1>5. Stopped => Stopped'
    BY <1>2, <1>3, <1>4 DEF Stopped, Is, Busy
  <1>6. ASSUME job'[p] = NoJob \/ (job'[p].kind = job[p].kind /\ job'[p].locked)
        PROVE  \A d \in Clients : Fresh(d)' => Fresh(d)
    BY <1>2, <1>3, <1>6 DEF Fresh, Unregistered, Is, Busy
  <1>7. DisconnectFits(p)
    BY <1>1, <1>3 DEF MapFits
  <1>8. ASSUME job[p].kind # "disconnect", UNCHANGED <<clients, closed>>,
               job'[p] = NoJob \/ (job'[p].kind = job[p].kind /\ job'[p].locked)
        PROVE  MapFits'
    <2>1. ~Holds(p, "disconnect") /\ ~Holds(p, "disconnect")'
      BY <1>8 DEF Holds, Is, Busy
    <2> QED
      BY <1>3, <1>4, <1>6, <1>8, <2>1, ReaderMap
  <1>9. CASE LockBroadcast(p)
    <2>1. job'[p] = [job[p] EXCEPT !.locked = TRUE, !.todo = clients \cap Of(job[p].to)]
      BY <1>2, <1>9 DEF LockBroadcast
    <2>2. job'[p].kind = job[p].kind /\ job'[p].locked /\ job[p].kind = "broadcast"
      <3>1. job[p].kind = "broadcast"
        BY <1>9 DEF LockBroadcast, Is
      <3> QED
        BY <1>3, <2>1, <3>1 DEF Jobs
    <2> QED
      BY <1>8, <1>9, <2>2 DEF LockBroadcast
  <1>10. CASE LockDisconnect(p)
    <2>1. job'[p] = [job[p] EXCEPT !.locked = TRUE, !.todo = clients \cap Of(job[p].to)]
      BY <1>2, <1>10 DEF LockDisconnect
    <2>2. /\ job'[p].kind = "disconnect" /\ job'[p].locked /\ job'[p].to = job[p].to
          /\ job'[p].todo = clients \cap Of(job[p].to) /\ job[p].kind = "disconnect"
      <3>1. job[p].kind = "disconnect"
        BY <1>10 DEF LockDisconnect, Is
      <3>2. [job[p] EXCEPT !.locked = TRUE, !.todo = clients \cap Of(job[p].to)].todo
            = clients \cap Of(job[p].to)
        BY <1>3 DEF Jobs
      <3> QED
        BY <1>3, <2>1, <3>1, <3>2 DEF Jobs
    <2>3. ~WriteLocked /\ UNCHANGED <<clients, closed>>
      BY <1>10 DEF LockDisconnect
    <2>4. p # Hub
      BY <1>3, <2>2 DEF JobFits
    <2>5. Stopped' = Stopped
      BY <1>2, <1>3, <2>4 DEF Stopped, Is, Busy
    <2>6. ~Stopped => clients \cap closed = {}
      BY <1>3, <2>3, AllOpen
    <2>7. \A q \in Procs : DisconnectFits(q)'
      <3> SUFFICES ASSUME NEW q \in Procs, Holds(q, "disconnect")' PROVE DisconnectFits(q)'
        BY DEF DisconnectFits
      <3>1. q = p
        BY <1>3, <2>3 DEF WriteLocked, Holds, Is, Busy
      <3> QED
        BY <2>2, <2>3, <2>5, <2>6, <3>1 DEF DisconnectFits
    <2>8. MappedAreOpen'
      BY <2>3, <2>5, <2>6 DEF MappedAreOpen
    <2>9. \A d \in Clients : Fresh(d)' => d \notin clients' \cup closed'
      BY <1>1, <1>6, <2>2, <2>3 DEF MapFits
    <2> QED
      BY <2>7, <2>8, <2>9 DEF MapFits
  <1>11. ASSUME NEW c \in Clients, SkipUnsubscribed(p, c) PROVE MapFits'
    <2>1. /\ job'[p] = [job[p] EXCEPT !.todo = @ \ {c}] /\ job[p].locked
          /\ job[p].kind = "broadcast" /\ UNCHANGED <<clients, closed>>
      BY <1>2, <1>11 DEF SkipUnsubscribed, Calls, Serves
    <2>2. job'[p].kind = job[p].kind /\ job'[p].locked
      BY <1>3, <2>1 DEF Jobs
    <2> QED
      BY <1>8, <2>1, <2>2
  <1>12. ASSUME NEW c \in Clients, SendTo(p, c) PROVE MapFits'
    <2>1. /\ job'[p] = [job[p] EXCEPT !.todo = @ \ {c}] /\ job[p].locked /\ c \in job[p].todo
          /\ clients' = clients
      BY <1>2, <1>12 DEF SendTo, Calls, Serves
    <2>2. /\ job'[p].kind = job[p].kind /\ job'[p].locked /\ job'[p].to = job[p].to
          /\ job'[p].todo = job[p].todo \ {c}
      BY <1>3, <2>1 DEF Jobs
    <2>3. CASE job[p].kind # "disconnect"
      BY <1>8, <1>12, <2>1, <2>2, <2>3 DEF SendTo
    <2>4. CASE job[p].kind = "disconnect"
      <3>1. /\ closed' = closed \cup {c} /\ p # Hub /\ p \in Apps
            /\ Locked(p) /\ Holds(p, "disconnect")
        BY <1>3, <1>12, <2>1, <2>4 DEF SendTo, Close, JobFits, Procs, Locked, Holds, Is
      <3>2. Stopped' = Stopped
        BY <1>2, <1>3, <3>1 DEF Stopped, Is, Busy
      <3>3. /\ job[p].todo \subseteq clients \cap Of(job[p].to)
            /\ ~Stopped => job[p].todo \cap closed = {}
        BY <1>7, <3>1 DEF DisconnectFits
      <3>4. \A q \in Procs : DisconnectFits(q)'
        <4> SUFFICES ASSUME NEW q \in Procs, Holds(q, "disconnect")' PROVE DisconnectFits(q)'
          BY DEF DisconnectFits
        <4>1. q = p
          BY <1>1, <1>3, <3>1, OneWriter DEF Holds, Is, Busy
        <4> QED
          BY <2>1, <2>2, <3>1, <3>2, <3>3, <4>1 DEF DisconnectFits
      <3>5. MappedAreOpen'
        <4> SUFFICES ASSUME NEW d \in clients \cap closed', ~Stopped
                     PROVE  \E q \in Apps : Holds(q, "disconnect")' /\ d \in Of(job'[q].to)
          BY <2>1, <3>2 DEF MappedAreOpen
        <4>1. Holds(p, "disconnect")' /\ job'[p].to = job[p].to
          <5>1. job'[p] \in Jobs
            BY <1>3, <2>1 DEF Jobs
          <5>2. job'[p] # NoJob
            BY <5>1, JobAssumption
          <5> QED
            BY <2>2, <2>4, <5>2 DEF Holds, Is, Busy
        <4>2. d \in Of(job[p].to)
          <5>1. CASE d = c
            BY <2>1, <3>3, <5>1
          <5>2. CASE d \in closed
            <6>1. PICK q \in Apps : Holds(q, "disconnect") /\ d \in Of(job[q].to)
              BY <1>1, <1>3, <5>2 DEF MapFits, MappedAreOpen
            <6>2. q = p
              BY <1>1, <1>2, <3>1, <6>1, OneWriter
            <6> QED
              BY <6>1, <6>2
          <5> QED
            BY <3>1, <5>1, <5>2
        <4> QED
          BY <3>1, <4>1, <4>2
      <3>6. \A d \in Clients : Fresh(d)' => d \notin clients' \cup closed'
        BY <1>1, <1>6, <2>1, <2>2, <3>1, <3>3 DEF MapFits
      <3> QED
        BY <3>4, <3>5, <3>6 DEF MapFits
    <2> QED
      BY <2>3, <2>4
  <1>13. ASSUME NEW c \in Clients PROVE ~SendOverflows(p, c)
    <2> SUFFICES ASSUME SendOverflows(p, c) PROVE FALSE
      OBVIOUS
    <2>1. Awaits(p, c)
      BY <1>3 DEF SendOverflows, Calls, Serves, Awaits, JobFits
    <2> QED
      BY <1>1, <2>1, RoomForOne DEF SendOverflows, RoomyInv
  <1>14. ASSUME NEW c \in Clients, SendPanics(p, c) PROVE MapFits'
    <2>1. /\ job'[p] = NoJob /\ job[p].locked /\ c \in job[p].todo /\ c \in closed
          /\ UNCHANGED <<clients, closed>>
      BY <1>2, <1>14 DEF SendPanics, Calls, Serves, Panics
    <2>2. CASE job[p].kind # "disconnect"
      BY <1>8, <2>1, <2>2
    <2>3. CASE job[p].kind = "disconnect"
      <3>1. Locked(p) /\ Holds(p, "disconnect")
        BY <1>3, <2>1, <2>3 DEF Locked, Holds, Is
      <3>2. Stopped'
        BY <1>5, <1>7, <2>1, <3>1 DEF DisconnectFits
      <3>3. \A q \in Procs : ~Holds(q, "disconnect")'
        BY <1>1, <1>3, <2>1, <3>1, OneWriter DEF Holds, Is, Busy
      <3>4. \A d \in Clients : Fresh(d)' => d \notin clients' \cup closed'
        BY <1>1, <1>6, <2>1 DEF MapFits
      <3> QED
        BY <3>2, <3>3, <3>4 DEF MapFits, DisconnectFits, MappedAreOpen
    <2> QED
      BY <2>2, <2>3
  <1>15. CASE FinishSend(p)
    <2>1. /\ job'[p] = NoJob /\ job[p].locked /\ closed' = closed
          /\ clients' = IF job[p].kind = "disconnect" THEN clients \ Of(job[p].to) ELSE clients
      BY <1>2, <1>15 DEF FinishSend
    <2>2. CASE job[p].kind # "disconnect"
      BY <1>8, <2>1, <2>2
    <2>3. CASE job[p].kind = "disconnect"
      <3>1. Locked(p) /\ clients' = clients \ Of(job[p].to)
        BY <1>3, <2>1, <2>3 DEF Locked
      <3>2. \A q \in Procs : ~Holds(q, "disconnect")'
        BY <1>1, <1>3, <2>1, <3>1, OneWriter DEF Holds, Is, Busy
      <3>3. Stopped' \/ clients' \cap closed' = {}
        <4> SUFFICES ASSUME ~Stopped, NEW d \in clients', d \in closed PROVE FALSE
          BY <1>5, <2>1
        <4>1. PICK q \in Apps : Holds(q, "disconnect") /\ d \in Of(job[q].to)
          BY <1>1, <1>3, <3>1 DEF MapFits, MappedAreOpen
        <4>2. q = p
          BY <1>1, <1>2, <3>1, <4>1, OneWriter
        <4> QED
          BY <3>1, <4>1, <4>2
      <3>4. \A d \in Clients : Fresh(d)' => d \notin clients' \cup closed'
        BY <1>1, <1>6, <2>1, <3>1 DEF MapFits
      <3> QED
        BY <3>2, <3>3, <3>4 DEF MapFits, DisconnectFits, MappedAreOpen
    <2> QED
      BY <2>2, <2>3
  <1> QED
    BY <1>9, <1>10, <1>11, <1>12, <1>13, <1>14, <1>15 DEF LoopStep

\* A request only queues a message or waits for h.mu.
LEMMA RequestMap ==
    ASSUME RoomyInv, Request
    PROVE  MapFits'
  <1>1. TypeOK /\ MapFits
    BY DEF RoomyInv, Inv
  <1>2. UNCHANGED <<clients, closed, reader>> /\ alive
    BY DEF Request, QueueBroadcast, CallHub
  <1>3. CASE job' = job
    BY <1>1, <1>2, <1>3 DEF MapFits, Fresh, Unregistered, DisconnectFits, MappedAreOpen, Holds,
                            Is, Busy, Stopped
  <1>4. ASSUME NEW p \in Apps, NEW kind \in {"broadcast", "disconnect"}, NEW i \in Identities,
               CallHub(p, kind, i)
        PROVE  MapFits'
    <2>1. {i} \in SUBSET Identities /\ {} \in SUBSET Clients /\ p \in Procs /\ p # Hub
      BY HubAssumption DEF Procs
    <2>2. Begun(Job(kind, {i}, {}), kind, {})
      BY <2>1, JobBegins
    <2>3. PICK j : job' = [job EXCEPT ![p] = j] /\ Begun(j, kind, {})
      BY <1>4, <2>2 DEF CallHub
    <2>4. job'[p] = j /\ \A q \in Procs : q # p => job'[q] = job[q]
      BY <1>1, <2>1, <2>3 DEF TypeOK
    <2>5. ~Holds(p, "disconnect") /\ ~Holds(p, "disconnect")'
      BY <1>4, <2>3, <2>4 DEF CallHub, Holds, Is, Begun
    <2>6. \A d \in Clients : Fresh(d)' => Fresh(d)
      BY <1>2, <2>1, <2>4 DEF Fresh, Unregistered, Is, Busy, Procs
    <2> QED
      BY <1>2, <2>1, <2>4, <2>5, <2>6, ReaderMap
  <1>5. ASSUME NEW to, QueueBroadcast(to) PROVE job' = job
    BY <1>5 DEF QueueBroadcast
  <1> QED
    BY <1>3, <1>4, <1>5 DEF Request

\* Every step keeps channels from overflowing and mapped clients open.
LEMMA RoomyNext == Roomy /\ RoomyInv /\ [Next]_vars => RoomyInv'
  <1> SUFFICES ASSUME Roomy, RoomyInv, [Next]_vars PROVE RoomyInv'
    OBVIOUS
  <1>1. Inv' /\ TypeOK'
    BY HubNext DEF RoomyInv, Inv
  <1>2. CASE UNCHANGED vars
    <2>1. ChannelsFit'
      BY <1>2 DEF RoomyInv, ChannelsFit, Load, Awaiting, Awaits, Unregistered, Busy, vars
    <2>2. MapFits'
      BY <1>2 DEF RoomyInv, MapFits, Fresh, Unregistered, DisconnectFits, MappedAreOpen, Holds,
                  Is, Busy, Stopped, vars
    <2> QED
      BY <1>1, <2>1, <2>2 DEF RoomyInv
  <1>3. ASSUME NEW c \in Clients, ClientStep(c) PROVE RoomyInv'
    BY <1>1, <1>3, ClientChannels, ClientMap DEF RoomyInv
  <1>4. CASE HubStep \/ TakeShutdown
    BY <1>1, <1>4, HubChannels, HubMap DEF RoomyInv
  <1>5. ASSUME NEW p \in Procs, LoopStep(p) PROVE RoomyInv'
    BY <1>1, <1>5, LoopChannels, LoopMap DEF RoomyInv
  <1>6. CASE Request
    BY <1>1, <1>6, RequestChannels, RequestMap DEF RoomyInv
  <1> QED
    BY <1>2, <1>3, <1>4, <1>5, <1>6 DEF Next

\* A client in hub.clients has an open send channel, except inside the critical
\* section of the DisconnectUser that closes it and after shutdown, as long as a
\* channel holds two replies or one message for every message there may be, and
\* the one of its registration.
THEOREM MappedOpen == ASSUME Roomy PROVE Spec => []MappedAreOpen
  <1>1. Init => RoomyInv
    <2> SUFFICES ASSUME Init PROVE RoomyInv
      OBVIOUS
    <2>1. \A p \in Procs : ~Busy(p)
      BY DEF Init, Busy
    <2>2. ASSUME NEW c \in Clients PROVE Load(c) <= 2 * sent + 1
      <3>1. {p \in Procs : Awaits(p, c)} = {}
        BY <2>1 DEF Awaits
      <3>2. Awaiting(c) = 0
        BY <3>1, FS_EmptySet DEF Awaiting
      <3>3. Len(pending) = 0 /\ queue[c] = 0 /\ replies[c] = 0 /\ sent = 0 /\ Unregistered(c)
        BY DEF Init, Unregistered
      <3> QED
        BY <3>2, <3>3 DEF Load
    <2>3. ChannelsFit
      BY <2>1, <2>2 DEF ChannelsFit, Init
    <2>4. MapFits
      BY <2>1 DEF MapFits, MappedAreOpen, DisconnectFits, Holds, Is, Init
    <2> QED
      BY <2>3, <2>4, InitInv DEF RoomyInv
  <1>2. RoomyInv => MappedAreOpen
    BY DEF RoomyInv, MapFits
  <1>3. RoomyInv /\ [Next]_vars => RoomyInv'
    BY RoomyNext
  <1> QED
    BY <1>1, <1>2, <1>3, PTL DEF Spec

=============================================================================
