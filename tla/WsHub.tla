-------------------------------- MODULE WsHub --------------------------------
(***************************************************************************)
(* The WebSocket hub: the goroutine of Hub.Run, the read and write pump of *)
(* every client, and the request goroutines (Apps) that call into the hub. *)
(* Register and unregister are unbuffered channels: a sender waits until   *)
(* the hub goroutine receives in its select.  h.mu is held by exactly the  *)
(* processes whose job is locked, so it needs no variable of its own.      *)
(*                                                                         *)
(* A panic in the hub or in a pump goroutine ends the whole process (alive *)
(* becomes FALSE, and nothing runs any more); in a request goroutine       *)
(* RecoveryMiddleware recovers it, after the deferred unlock.              *)
(***************************************************************************)
EXTENDS Integers, Sequences, FiniteSets

CONSTANTS Clients, Identities, IdentityOf,
          Apps,           \* request goroutines
          Hub,            \* the goroutine of Hub.Run
          SendBuf,        \* capacity of client.send
          BroadcastBuf,   \* capacity of hub.broadcast
          MaxMessages,    \* bound: broadcasts, disconnects and client messages of a run
          NoJob

ASSUME HubAssumption ==
    /\ IdentityOf \in [Clients -> Identities]
    /\ Hub \notin Apps /\ IsFiniteSet(Apps)
    /\ SendBuf \in Nat \ {0}
    /\ BroadcastBuf \in Nat \ {0}
    /\ MaxMessages \in Nat

VARIABLES clients,     \* hub.clients, as a set
          subscribed,  \* clients subscribed to the channel of the broadcasts
          queue,       \* number of messages waiting in client.send
          closed,      \* clients whose send channel is closed
          cancelled,   \* clients whose ctx is cancelled
          open,        \* clients whose network connection is open
          reader,      \* ReadPump, preceded by HandleConnection
          replies,     \* messages handleMessage has still to send
          writer,      \* WritePump
          pending,     \* hub.broadcast: the identities each message addresses
          job,         \* what the hub goroutine and the requests are doing
          sent,        \* messages so far, up to MaxMessages
          alive        \* no goroutine has panicked unrecovered

vars == <<clients, subscribed, queue, closed, cancelled, open, reader, replies,
          writer, pending, job, sent, alive>>

Procs == Apps \cup {Hub}

\* todo: the clients the job has still to serve; full: the client whose channel
\* it found full, while it waits for the hub to take the unregister
Jobs == [kind : {"register", "unregister", "broadcast", "disconnect", "shutdown", "stopped"},
         to : SUBSET Identities, todo : SUBSET Clients, full : SUBSET Clients,
         locked : BOOLEAN]

ASSUME JobAssumption == NoJob \notin Jobs

Of(to) == {c \in Clients : IdentityOf[c] \in to}
Job(kind, to, todo) ==
    [kind |-> kind, to |-> to, todo |-> todo, full |-> {}, locked |-> FALSE]

Init ==
    /\ clients = {} /\ subscribed = {}
    /\ queue = [c \in Clients |-> 0]
    /\ closed = {} /\ cancelled = {} /\ open = {}
    /\ reader = [c \in Clients |-> "none"]
    /\ replies = [c \in Clients |-> 0]
    /\ writer = [c \in Clients |-> "none"]
    /\ pending = <<>>
    /\ job = [p \in Procs |-> NoJob]
    /\ sent = 0
    /\ alive = TRUE

-----------------------------------------------------------------------------
Busy(p) == job[p] # NoJob
Is(p, kind) == Busy(p) /\ job[p].kind = kind
Stopped == Is(Hub, "stopped")
Running == alive /\ ~Is(Hub, "shutdown") /\ ~Stopped

Holds(p, kind) == Is(p, kind) /\ job[p].locked
WriteLocked == \E p \in Procs : Holds(p, "disconnect") \/ Holds(p, "register")
\* Mutant of ReadLocked: BroadcastMessage forgets RLock
ReadLockedIgnored == FALSE
ReadLocked == \E p \in Procs : Holds(p, "broadcast")

\* The outcomes of the select in SendMessage.  Sending on a closed channel
\* panics, and when ctx.Done is ready too the choice between them is random.
\* Mutant of CanEnqueue: the capacity of the channel is forgotten
CanEnqueueUnbounded(c) == c \notin closed
CanEnqueue(c) == c \notin closed /\ queue[c] < SendBuf
CanSkip(c) == c \in cancelled
Panics(c) == c \in closed
Overflows(c) == ~CanEnqueue(c) /\ ~CanSkip(c) /\ ~Panics(c)

Enqueue(c) == queue' = [queue EXCEPT ![c] = @ + 1]

\* Client.Close; closing a channel that is closed already panics
Close(S) ==
    /\ cancelled' = cancelled \cup S
    /\ closed' = closed \cup S
ClosePanics(S) == S \cap closed # {}

-----------------------------------------------------------------------------
\* HandleConnection up to h.hub.Register <- client
Connect(c) ==
    /\ alive
    /\ reader[c] = "none"
    /\ reader' = [reader EXCEPT ![c] = "registering"]
    /\ open' = open \cup {c}
    /\ UNCHANGED <<clients, subscribed, queue, closed, cancelled, replies, writer, pending, job, sent, alive>>

\* go client.WritePump(); go client.ReadPump()
StartPumps(c) ==
    /\ alive
    /\ reader[c] = "registered"
    /\ reader' = [reader EXCEPT ![c] = "reading"]
    /\ writer' = [writer EXCEPT ![c] = "running"]
    /\ UNCHANGED <<clients, subscribed, queue, closed, cancelled, open, replies, pending, job, sent, alive>>

\* ReadPump receives a message, which may subscribe or unsubscribe.  Most are
\* answered once, a handled one perhaps not at all; a handler that fails sends
\* an error of its own before the one of handleMessage
ReadMessage(c) ==
    /\ alive
    /\ reader[c] = "reading" /\ replies[c] = 0
    /\ c \in open
    /\ sent < MaxMessages
    /\ sent' = sent + 1
    /\ subscribed' \in {subscribed, subscribed \cup {c}, subscribed \ {c}}
    /\ \E n \in 0 .. 2 : replies' = [replies EXCEPT ![c] = n]
    /\ UNCHANGED <<clients, queue, closed, cancelled, open, reader, writer, pending, job, alive>>

\* SendMessage, called by handleMessage
Reply(c) ==
    /\ alive
    /\ reader[c] = "reading" /\ replies[c] > 0
    /\ replies' = [replies EXCEPT ![c] = @ - 1]
    /\ \/ CanEnqueue(c) /\ Enqueue(c) /\ UNCHANGED <<closed, reader, alive>>
       \/ CanSkip(c) /\ UNCHANGED <<queue, closed, reader, alive>>
       \/ Panics(c) /\ alive' = FALSE /\ UNCHANGED <<queue, closed, reader>>
       \/ /\ Overflows(c)
          /\ closed' = closed \cup {c}
          /\ reader' = [reader EXCEPT ![c] = "overflow"]
          /\ UNCHANGED <<queue, alive>>
    /\ UNCHANGED <<clients, subscribed, cancelled, open, writer, pending, job, sent>>

\* ReadPump leaves its loop, and the deferred unregister follows.  It must when
\* the connection is closed; it also does when the peer goes away, when the
\* read deadline passes, or when it looks at ctx.Done between two messages.
ReaderExits(c) ==
    /\ alive
    /\ reader[c] = "reading" /\ replies[c] = 0
    /\ reader' = [reader EXCEPT ![c] = "exiting"]
    /\ UNCHANGED <<clients, subscribed, queue, closed, cancelled, open, replies, writer, pending, job, sent, alive>>

WriteOne(c) ==
    /\ alive
    /\ writer[c] = "running"
    /\ queue[c] > 0
    /\ queue' = [queue EXCEPT ![c] = @ - 1]
    /\ UNCHANGED <<clients, subscribed, closed, cancelled, open, reader, replies, writer, pending, job, sent, alive>>

\* Mutant of WriterExits: the deferred conn.Close is forgotten
WriterExitsOpen(c) ==
    /\ alive
    /\ writer[c] = "running"
    /\ writer' = [writer EXCEPT ![c] = "done"]
    /\ UNCHANGED <<clients, subscribed, queue, closed, cancelled, open, reader, replies, pending, job, sent, alive>>

\* WritePump must leave its loop on ctx.Done or when the closed channel is
\* drained; a failed write or ping makes it leave at any time
WriterExits(c) ==
    /\ alive
    /\ writer[c] = "running"
    /\ writer' = [writer EXCEPT ![c] = "done"]
    /\ open' = open \ {c}
    /\ UNCHANGED <<clients, subscribed, queue, closed, cancelled, reader, replies, pending, job, sent, alive>>

-----------------------------------------------------------------------------
\* The select of Hub.Run
TakeRegister(c) ==
    /\ alive
    /\ ~Busy(Hub)
    /\ reader[c] = "registering"
    /\ job' = [job EXCEPT ![Hub] = Job("register", {}, {c})]
    /\ reader' = [reader EXCEPT ![c] = "registered"]
    /\ UNCHANGED <<clients, subscribed, queue, closed, cancelled, open, replies, writer, pending, sent, alive>>

\* The deferred unregister of ReadPump, which then closes the connection
TakeUnregister(c) ==
    /\ alive
    /\ ~Busy(Hub)
    /\ reader[c] = "exiting"
    /\ job' = [job EXCEPT ![Hub] = Job("unregister", {}, {c})]
    /\ reader' = [reader EXCEPT ![c] = "done"]
    /\ open' = open \ {c}
    /\ UNCHANGED <<clients, subscribed, queue, closed, cancelled, replies, writer, pending, sent, alive>>

\* The unregister of a SendMessage that found the channel full, in ReadPump
TakeOverflow(c) ==
    /\ alive
    /\ ~Busy(Hub)
    /\ reader[c] = "overflow"
    /\ job' = [job EXCEPT ![Hub] = Job("unregister", {}, {c})]
    /\ reader' = [reader EXCEPT ![c] = "reading"]
    /\ UNCHANGED <<clients, subscribed, queue, closed, cancelled, open, replies, writer, pending, sent, alive>>

\* The same in a request.  A broadcast goes on with the next client; a
\* disconnect runs into Close, which cancels, panics on the closed channel and
\* is recovered with nothing deleted from the map.
TakeOverflowOf(p) ==
    /\ alive
    /\ ~Busy(Hub)
    /\ Busy(p) /\ job[p].full # {}
    /\ LET taken == [job EXCEPT ![Hub] = Job("unregister", {}, job[p].full)]
       IN  IF job[p].kind = "broadcast"
           THEN job' = [taken EXCEPT ![p].full = {}] /\ UNCHANGED cancelled
           ELSE job' = [taken EXCEPT ![p] = NoJob] /\ cancelled' = cancelled \cup job[p].full
    /\ UNCHANGED <<clients, subscribed, queue, closed, open, reader, replies, writer, pending, sent, alive>>

TakeBroadcast ==
    /\ alive
    /\ ~Busy(Hub)
    /\ pending # <<>>
    /\ job' = [job EXCEPT ![Hub] = Job("broadcast", Head(pending), {})]
    /\ pending' = Tail(pending)
    /\ UNCHANGED <<clients, subscribed, queue, closed, cancelled, open, reader, replies, writer, sent, alive>>

TakeShutdown ==
    /\ alive
    /\ ~Busy(Hub)
    /\ job' = [job EXCEPT ![Hub] = Job("shutdown", {}, {})]
    /\ UNCHANGED <<clients, subscribed, queue, closed, cancelled, open, reader, replies, writer, pending, sent, alive>>

-----------------------------------------------------------------------------
\* Mutant of UnregisterClient: the client is closed but stays in the map
UnregisterClientKeeps ==
    /\ alive
    /\ Is(Hub, "unregister")
    /\ ~WriteLocked /\ ~ReadLocked
    /\ LET gone == job[Hub].todo \cap clients
       IN  Close(gone) /\ alive' = ~ClosePanics(gone)
    /\ job' = [job EXCEPT ![Hub] = NoJob]
    /\ UNCHANGED <<clients, subscribed, queue, open, reader, replies, writer, pending, sent>>

\* unregisterClient, once h.mu is free; a client not in the map is ignored
UnregisterClient ==
    /\ alive
    /\ Is(Hub, "unregister")
    /\ ~WriteLocked /\ ~ReadLocked
    /\ LET gone == job[Hub].todo \cap clients
       IN  Close(gone) /\ alive' = ~ClosePanics(gone)
    /\ clients' = clients \ job[Hub].todo
    /\ job' = [job EXCEPT ![Hub] = NoJob]
    /\ UNCHANGED <<subscribed, queue, open, reader, replies, writer, pending, sent>>

Shutdown ==
    /\ alive
    /\ Is(Hub, "shutdown")
    /\ ~WriteLocked /\ ~ReadLocked
    /\ Close(clients) /\ alive' = ~ClosePanics(clients)
    /\ job' = [job EXCEPT ![Hub] = Job("stopped", {}, {})]
    /\ UNCHANGED <<clients, subscribed, queue, open, reader, replies, writer, pending, sent>>

-----------------------------------------------------------------------------
\* BroadcastNotification and its siblings address one identity, a system alert
\* all of them; the caller waits while the buffer is full
QueueBroadcast(to) ==
    /\ alive
    /\ sent < MaxMessages
    /\ Len(pending) < BroadcastBuf
    /\ pending' = Append(pending, to)
    /\ sent' = sent + 1
    /\ UNCHANGED <<clients, subscribed, queue, closed, cancelled, open, reader, replies, writer, job, alive>>

\* A profile update calls BroadcastMessage in the request itself, deactivating
\* or deleting a user calls DisconnectUser
CallHub(p, kind, i) ==
    /\ alive
    /\ ~Busy(p)
    /\ sent < MaxMessages
    /\ job' = [job EXCEPT ![p] = Job(kind, {i}, {})]
    /\ sent' = sent + 1
    /\ UNCHANGED <<clients, subscribed, queue, closed, cancelled, open, reader, replies, writer, pending, alive>>

\* The loop over the clients begins, under the read lock
LockBroadcast(p) ==
    /\ alive
    /\ Is(p, "broadcast") /\ ~job[p].locked
    /\ ~WriteLocked
    /\ job' = [job EXCEPT ![p].locked = TRUE, ![p].todo = clients \cap Of(job[p].to)]
    /\ UNCHANGED <<clients, subscribed, queue, closed, cancelled, open, reader, replies, writer, pending, sent, alive>>

\* registerClient and DisconnectUser take the write lock
LockRegister ==
    /\ alive
    /\ Is(Hub, "register") /\ ~job[Hub].locked
    /\ ~WriteLocked /\ ~ReadLocked
    /\ clients' = clients \cup job[Hub].todo
    /\ job' = [job EXCEPT ![Hub].locked = TRUE]
    /\ UNCHANGED <<subscribed, queue, closed, cancelled, open, reader, replies, writer, pending, sent, alive>>

LockDisconnect(p) ==
    /\ alive
    /\ Is(p, "disconnect") /\ ~job[p].locked
    /\ ~WriteLocked /\ ~ReadLocked
    /\ job' = [job EXCEPT ![p].locked = TRUE, ![p].todo = clients \cap Of(job[p].to)]
    /\ UNCHANGED <<clients, subscribed, queue, closed, cancelled, open, reader, replies, writer, pending, sent, alive>>

\* One turn of the loop: p calls SendMessage on c, which a broadcast does only
\* for a subscribed client
Serves(p, c) ==
    /\ Busy(p) /\ job[p].locked /\ job[p].full = {}
    /\ c \in job[p].todo
Calls(p, c) == Serves(p, c) /\ (job[p].kind = "broadcast" => c \in subscribed)

SkipUnsubscribed(p, c) ==
    /\ alive
    /\ Serves(p, c) /\ ~Calls(p, c)
    /\ job' = [job EXCEPT ![p].todo = @ \ {c}]
    /\ UNCHANGED <<clients, subscribed, queue, closed, cancelled, open, reader, replies, writer, pending, sent, alive>>

\* A disconnect closes the client after the message
SendTo(p, c) ==
    /\ alive
    /\ Calls(p, c)
    /\ \/ CanEnqueue(c) /\ Enqueue(c)
       \/ CanSkip(c) /\ UNCHANGED queue
    /\ IF job[p].kind = "disconnect"
       THEN c \notin closed /\ Close({c})
       ELSE UNCHANGED <<closed, cancelled>>
    /\ job' = [job EXCEPT ![p].todo = @ \ {c}]
    /\ UNCHANGED <<clients, subscribed, open, reader, replies, writer, pending, sent, alive>>

\* Channel full: it is closed, and p waits for the hub goroutine to receive
\* the unregister.  If p is the hub goroutine, nobody will.
SendOverflows(p, c) ==
    /\ alive
    /\ Calls(p, c)
    /\ Overflows(c)
    /\ closed' = closed \cup {c}
    /\ job' = [job EXCEPT ![p].todo = @ \ {c}, ![p].full = {c}]
    /\ UNCHANGED <<clients, subscribed, queue, cancelled, open, reader, replies, writer, pending, sent, alive>>

\* The channel was closed by someone else: the send panics, or in a disconnect
\* the close after it
SendPanics(p, c) ==
    /\ alive
    /\ Calls(p, c)
    /\ Panics(c)
    /\ job' = [job EXCEPT ![p] = NoJob]
    /\ alive' = (p # Hub)
    /\ UNCHANGED <<clients, subscribed, queue, closed, cancelled, open, reader, replies, writer, pending, sent>>

\* Mutant of FinishSend: DisconnectUser does not delete the identity
FinishSendKeeps(p) ==
    /\ alive
    /\ Busy(p) /\ job[p].locked /\ job[p].full = {} /\ job[p].todo = {}
    /\ job' = [job EXCEPT ![p] = NoJob]
    /\ UNCHANGED <<clients, subscribed, queue, closed, cancelled, open, reader, replies, writer, pending, sent, alive>>

\* Mutant of FinishSend: DisconnectUser returns without unlocking h.mu
FinishSendLocked(p) ==
    /\ alive
    /\ Busy(p) /\ job[p].locked /\ job[p].full = {} /\ job[p].todo = {}
    /\ job[p].kind # "disconnect"
    /\ job' = [job EXCEPT ![p] = NoJob]
    /\ UNCHANGED <<clients, subscribed, queue, closed, cancelled, open, reader, replies, writer, pending, sent, alive>>

\* The loop ends and the deferred unlock runs; a disconnect first deletes the
\* identity from the map
FinishSend(p) ==
    /\ alive
    /\ Busy(p) /\ job[p].locked /\ job[p].full = {} /\ job[p].todo = {}
    /\ clients' = IF job[p].kind = "disconnect" THEN clients \ Of(job[p].to) ELSE clients
    /\ job' = [job EXCEPT ![p] = NoJob]
    /\ UNCHANGED <<subscribed, queue, closed, cancelled, open, reader, replies, writer, pending, sent, alive>>

-----------------------------------------------------------------------------
ClientStep(c) ==
    \/ Connect(c) \/ StartPumps(c)
    \/ ReadMessage(c) \/ Reply(c) \/ ReaderExits(c)
    \/ WriteOne(c) \/ WriterExits(c)
HubStep ==
    \/ \E c \in Clients : TakeRegister(c) \/ TakeUnregister(c) \/ TakeOverflow(c)
    \/ \E p \in Apps : TakeOverflowOf(p)
    \/ TakeBroadcast
    \/ LockRegister
    \/ UnregisterClient
    \/ Shutdown
LoopStep(p) ==
    \/ LockBroadcast(p) \/ LockDisconnect(p)
    \/ \E c \in Clients : \/ SkipUnsubscribed(p, c) \/ SendTo(p, c)
                         \/ SendOverflows(p, c) \/ SendPanics(p, c)
    \/ FinishSend(p)
Request ==
    \/ \E i \in Identities : QueueBroadcast({i})
    \/ QueueBroadcast(Identities)
    \/ \E p \in Apps, kind \in {"broadcast", "disconnect"}, i \in Identities : CallHub(p, kind, i)

Next ==
    \/ \E c \in Clients : ClientStep(c)
    \/ HubStep
    \/ TakeShutdown
    \/ \E p \in Procs : LoopStep(p)
    \/ Request

Spec == Init /\ [][Next]_vars

\* The scheduler runs every goroutine that can go on.  A pump must leave its
\* loop only once its context, its channel or its connection is closed; clients
\* need not connect, nor send, nor need anybody call the hub or stop it.
MustExit(c) ==
    \/ c \notin open /\ ReaderExits(c)
    \/ (c \in cancelled \/ (c \in closed /\ queue[c] = 0)) /\ WriterExits(c)
FairSpec ==
    /\ Spec
    /\ \A c \in Clients :
          /\ WF_vars(StartPumps(c))
          /\ WF_vars(Reply(c))
          /\ WF_vars(WriteOne(c))
          /\ WF_vars(MustExit(c))
    /\ WF_vars(HubStep)
    /\ \A p \in Procs : WF_vars(LoopStep(p))

-----------------------------------------------------------------------------
TypeOK ==
    /\ clients \subseteq Clients /\ subscribed \subseteq Clients
    /\ queue \in [Clients -> 0 .. SendBuf]
    /\ closed \subseteq Clients /\ cancelled \subseteq Clients /\ open \subseteq Clients
    /\ reader \in [Clients -> {"none", "registering", "registered", "reading",
                               "overflow", "exiting", "done"}]
    /\ replies \in [Clients -> 0 .. 2]
    /\ writer \in [Clients -> {"none", "running", "done"}]
    /\ pending \in Seq(SUBSET Identities) /\ Len(pending) <= BroadcastBuf
    /\ job \in [Procs -> Jobs \cup {NoJob}]
    /\ sent \in 0 .. MaxMessages
    /\ alive \in BOOLEAN

\* No client stays in hub.clients after its ReadPump has ended: the deferred
\* unregister, in whatever order it meets registerClient, DisconnectUser and
\* the broadcasts, takes it out of the map.  Between the hub's receive and its
\* delete the unregister is the hub's current job.
GoneAreForgotten ==
    alive => \A c \in clients :
                reader[c] = "done" => Is(Hub, "unregister") /\ job[Hub].todo = {c}

\* A client in hub.clients has an open send channel, so no broadcast can send
\* on a closed channel and no unregister can close one twice.  It holds while
\* no channel overflows; DisconnectUser breaks it only inside its critical
\* section, and shutdown for good.
MappedAreOpen ==
    alive => \A c \in clients \cap closed :
                \/ Stopped
                \/ \E p \in Apps : Holds(p, "disconnect") /\ c \in Of(job[p].to)

\* Two writers, or a writer and readers, are never inside h.mu together, and
\* the map does not change under a broadcast that is looping over it.
BroadcastSeesStableMap ==
    [][\A p \in Procs :
          Holds(p, "broadcast") /\ Holds(p, "broadcast")' => clients' = clients]_vars

\* Every user thrown out by DisconnectUser really leaves: once the client is
\* cancelled its write pump closes the connection, that ends the read pump,
\* and the hub takes its unregister (while the process and the hub run).
CancelledLeave ==
    []Running =>
        \A c \in Clients : c \in cancelled ~> reader[c] = "done"

\* Every request that calls the hub returns, and every queued broadcast is
\* delivered (while the process and the hub run and no channel overflows).
RequestsReturn ==
    []Running =>
        /\ \A p \in Apps : Busy(p) ~> ~Busy(p)
        /\ (pending # <<>>) ~> (pending = <<>> /\ ~Is(Hub, "broadcast"))

\* "Close gracefully closes the client connection": no goroutine panics.
NoPanic == alive

\* "Channel full, close connection": a client whose channel was found full is
\* taken out of the map, unless a panic ends the process first.
FullChannelDisconnects ==
    []Running =>
        \A c \in Clients : c \in closed ~> c \notin clients

-----------------------------------------------------------------------------
(* The inductive invariant behind GoneAreForgotten and BroadcastSeesStableMap *)

Locked(p) == Busy(p) /\ job[p].locked

\* Who has which job, which of them take h.mu, and whom the hub registers: a
\* client whose unregister it has not received yet
JobFits(p) ==
    Busy(p) =>
        /\ job[p].kind = "disconnect" => p # Hub
        /\ p # Hub => job[p].kind \in {"broadcast", "disconnect"}
        /\ job[p].locked => job[p].kind \in {"register", "broadcast", "disconnect"}
        /\ job[p].kind = "register" =>
              \A c \in job[p].todo : reader[c] \notin {"none", "registering", "done"}

\* h.mu is held by one writer or by readers
LockExcludes ==
    \A p, q \in Procs :
        Locked(p) /\ job[p].kind # "broadcast" /\ Locked(q) => p = q

Inv ==
    /\ TypeOK
    /\ \A p \in Procs : JobFits(p)
    /\ LockExcludes
    /\ GoneAreForgotten

-----------------------------------------------------------------------------
(* ... and behind MappedAreOpen, which needs channels that cannot overflow *)

\* A message costs a client two replies or one message of a broadcast or of a
\* disconnect, and its registration one more
Roomy == SendBuf > 2 * MaxMessages

\* p has still to send to c
Awaits(p, c) ==
    /\ Busy(p) /\ job[p].kind \in {"register", "broadcast", "disconnect"}
    /\ job[p].kind = "register" \/ job[p].locked => c \in job[p].todo

Awaiting(c) == Cardinality({p \in Procs : Awaits(p, c)})

Unregistered(c) == reader[c] \in {"none", "registering"}

\* What is in the channel of c, and what may still come
Load(c) ==
    queue[c] + replies[c] + Len(pending) + (IF Unregistered(c) THEN 1 ELSE 0) + Awaiting(c)

\* Nobody ever waits for the hub to take the unregister of a full channel
ChannelsFit ==
    /\ \A p \in Procs : Busy(p) => job[p].full = {}
    /\ \A c \in Clients : Load(c) <= 2 * sent + 1 /\ reader[c] # "overflow"

\* The hub has yet to put c into its map
Fresh(c) ==
    \/ Unregistered(c)
    \/ Is(Hub, "register") /\ ~job[Hub].locked /\ c \in job[Hub].todo

\* While it holds h.mu a disconnect closes the mapped clients of its identity,
\* one by one
DisconnectFits(p) ==
    Holds(p, "disconnect") =>
        /\ job[p].todo \subseteq clients \cap Of(job[p].to)
        /\ ~Stopped => job[p].todo \cap closed = {}

MapFits ==
    /\ \A c \in Clients : Fresh(c) => c \notin clients \cup closed
    /\ alive => \A p \in Procs : DisconnectFits(p)
    /\ MappedAreOpen

RoomyInv == Inv /\ ChannelsFit /\ MapFits
=============================================================================
