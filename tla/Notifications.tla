--------------------------- MODULE Notifications ---------------------------
(***************************************************************************)
(* The notifications of one user and the unread count that the user's      *)
(* WebSocket connections show (NotificationService and its handlers, the   *)
(* WebSocket NotificationHandler, NotificationRepository).                 *)
(*                                                                         *)
(* A count is read in one step and reaches the connections in another:     *)
(* requests come between, and counts overtake each other.  What is         *)
(* broadcast by way of the hub (WsHub) reaches the connections that are    *)
(* subscribed to the channel then, an answer the one that asked.  A        *)
(* connection that cannot take a message is closed there, so what it       *)
(* showed is of no interest here.  The answer to a statement may be lost.  *)
(***************************************************************************)
EXTENDS FiniteSets, Naturals

CONSTANTS
    Notes,    \* notifications that may be created
    Conns,    \* the user's open connections
    Workers   \* request slots

VARIABLES
    note,        \* per notification: "none", "unread" or "read"
    expired,     \* notifications whose expires_at has passed, or that were deleted
    subscribed,  \* connections subscribed to ChannelNotifications
    shown,       \* per connection: the last unread count it was sent
    job,         \* the count on its way in each slot
    excused      \* history, per connection: why its count may be off

vars == <<note, expired, subscribed, shown, job, excused>>

Free == [pc |-> "idle", to |-> {}, count |-> 0, overtaken |-> FALSE]
CountJob(label, conns) == [Free EXCEPT !.pc = label, !.to = conns]
SendJob(label, conns, n) == [Free EXCEPT !.pc = label, !.to = conns, !.count = n]

Init ==
    /\ note = [n \in Notes |-> "none"]
    /\ expired = {}
    /\ subscribed = {}
    /\ shown = [c \in Conns |-> 0]
    /\ job = [w \in Workers |-> Free]
    /\ excused = [c \in Conns |-> FALSE]

\* Counts read before what is unread changes are out of date
Overtake(j) ==
    [w \in Workers |->
        IF j[w].pc \in {"push", "reply"} THEN [j[w] EXCEPT !.overtaken = TRUE] ELSE j[w]]

Excuse(conns) == excused' = [c \in Conns |-> excused[c] \/ c \in conns]

-----------------------------------------------------------------------------
(* NotificationRepository *)

Live(n) == note[n] # "none" /\ n \notin expired

GetUnreadCount == Cardinality({n \in Notes : note[n] = "unread" /\ Live(n)})

Create(n) == note[n] = "none" /\ note' = [note EXCEPT ![n] = "unread"]
MarkRead(n) == note[n] = "unread" /\ note' = [note EXCEPT ![n] = "read"]
MarkAllRead == note' = [n \in Notes |-> IF note[n] = "unread" THEN "read" ELSE note[n]]
Delete(n) == note[n] # "none" /\ note' = [note EXCEPT ![n] = "none"]

-----------------------------------------------------------------------------
(* NotificationService *)

\* What is unread has changed and no connection is told
NobodyIsTold == job' = Overtake(job) /\ Excuse(Conns)

\* The notification itself is pushed, but no count
pushToWebSocket == NobodyIsTold

CreateAndPush(n) ==
    /\ n \notin expired /\ Create(n)
    /\ pushToWebSocket
    /\ UNCHANGED <<expired, subscribed, shown>>

\* One insertion for every user named, however often; other requests come
\* between, and one that fails is left out
CreateBulkAndPush == \E n \in Notes : CreateAndPush(n)

\* Marking what is no longer unread fails.  A lost answer ends the request.
MarkAsRead(w, n) ==
    /\ job[w] = Free
    /\ MarkRead(n)
    /\ \/ /\ job' = [Overtake(job) EXCEPT ![w] = CountJob("count", Conns)]
          /\ UNCHANGED excused
       \/ NobodyIsTold
    /\ UNCHANGED <<expired, subscribed, shown>>

\* Mutant of MarkAllAsRead: nothing is pushed
MarkAllAsReadQuietly(w) ==
    /\ job[w] = Free
    /\ MarkAllRead
    /\ job' = Overtake(job)
    /\ UNCHANGED <<expired, subscribed, shown, excused>>

\* Zero is pushed without looking, unless the answer to the UPDATE is lost
MarkAllAsRead(w) ==
    /\ job[w] = Free
    /\ MarkAllRead
    /\ \/ /\ job' = [Overtake(job) EXCEPT ![w] = SendJob("push", Conns, 0)]
          /\ UNCHANGED excused
       \/ note' # note /\ NobodyIsTold
    /\ UNCHANGED <<expired, subscribed, shown>>

\* No count is pushed.  The identifier is not used again.
DeleteNotification(n) ==
    /\ Delete(n)
    /\ expired' = expired \cup {n}
    /\ NobodyIsTold
    /\ UNCHANGED <<subscribed, shown>>

\* expires_at passes; the row stays and is left out of every query
Expire(n) ==
    /\ Live(n)
    /\ expired' = expired \cup {n}
    /\ NobodyIsTold
    /\ UNCHANGED <<note, subscribed, shown>>

-----------------------------------------------------------------------------
(* The handler of WebSocket messages: only the connection that asks is     *)
(* answered, with an error if the answer to the UPDATE is lost             *)

handleMarkAsRead(w, c, n) ==
    /\ job[w] = Free
    /\ MarkRead(n)
    /\ \/ /\ job' = [Overtake(job) EXCEPT ![w] = CountJob("countReply", {c})]
          /\ Excuse(Conns \ {c})
       \/ NobodyIsTold
    /\ UNCHANGED <<expired, subscribed, shown>>

handleMarkAllAsRead(w, c) ==
    /\ job[w] = Free
    /\ MarkAllRead
    /\ \/ /\ job' = [Overtake(job) EXCEPT ![w] = SendJob("reply", {c}, 0)]
          /\ Excuse(Conns \ {c})
       \/ note' # note /\ NobodyIsTold
    /\ UNCHANGED <<expired, subscribed, shown>>

handleGetCount(w, c) ==
    /\ job[w] = Free
    /\ job' = [job EXCEPT ![w] = SendJob("reply", {c}, GetUnreadCount)]
    /\ UNCHANGED <<note, expired, subscribed, shown, excused>>

\* No count is sent with the confirmation
Subscribe(c) ==
    /\ subscribed' = subscribed \cup {c}
    /\ UNCHANGED <<note, expired, shown, job, excused>>

Unsubscribe(c) ==
    /\ subscribed' = subscribed \ {c}
    /\ UNCHANGED <<note, expired, shown, job, excused>>

-----------------------------------------------------------------------------

ReadCount(w) ==
    /\ \E next \in {<<"count", "push">>, <<"countReply", "reply">>} :
          /\ job[w].pc = next[1]
          /\ job' = [job EXCEPT ![w] = SendJob(next[2], job[w].to, GetUnreadCount)]
    /\ UNCHANGED <<note, expired, subscribed, shown, excused>>

\* The query fails: NotificationService pushes nothing, the WebSocket handler
\* sends zero
CountFails(w) ==
    /\ \/ job[w].pc = "count" /\ job' = [job EXCEPT ![w] = Free]
       \/ /\ job[w].pc = "countReply"
          /\ job' = [job EXCEPT ![w] =
                       [SendJob("reply", job[w].to, 0) EXCEPT !.overtaken = TRUE]]
    /\ Excuse(job[w].to)
    /\ UNCHANGED <<note, expired, subscribed, shown>>

\* The count reaches some of the connections it is meant for
Deliver(w, reached) ==
    /\ shown' = [c \in Conns |-> IF c \in reached THEN job[w].count ELSE shown[c]]
    /\ excused' = [c \in Conns |-> IF c \in reached THEN job[w].overtaken
                                  ELSE excused[c] \/ c \in job[w].to]
    /\ job' = [job EXCEPT ![w] = Free]
    /\ UNCHANGED <<note, expired, subscribed>>

\* BroadcastNotificationCount: connections that are not subscribed are left out
Push(w) == job[w].pc = "push" /\ Deliver(w, job[w].to \cap subscribed)

\* SendMessage of the connection that asked
Reply(w) == job[w].pc = "reply" /\ Deliver(w, job[w].to)

\* What the HTTP handlers let through; the others only read
CreateNotification == \E n \in Notes : CreateAndPush(n)
SendBulkNotifications == CreateBulkAndPush
DeleteHandler == \E n \in Notes : DeleteNotification(n)
ReadHandlers(w) == MarkAllAsRead(w) \/ \E n \in Notes : MarkAsRead(w, n)

HandleMessage(w) ==
    \E c \in Conns :
       \/ \E n \in Notes : handleMarkAsRead(w, c, n)
       \/ handleMarkAllAsRead(w, c) \/ handleGetCount(w, c)

Next ==
    \/ CreateNotification \/ SendBulkNotifications \/ DeleteHandler
    \/ \E c \in Conns : Subscribe(c) \/ Unsubscribe(c)
    \/ \E w \in Workers : \/ ReadHandlers(w) \/ HandleMessage(w)
                          \/ ReadCount(w) \/ CountFails(w) \/ Push(w) \/ Reply(w)
    \/ \E n \in Notes : Expire(n)

Spec == Init /\ [][Next]_vars

-----------------------------------------------------------------------------
(* Properties *)

TypeOK ==
    /\ note \in [Notes -> {"none", "unread", "read"}]
    /\ expired \subseteq Notes
    /\ subscribed \subseteq Conns
    /\ shown \in [Conns -> 0..Cardinality(Notes)]
    /\ job \in [Workers -> [pc : {"idle", "count", "countReply", "push", "reply"},
                            to : SUBSET Conns, count : 0..Cardinality(Notes),
                            overtaken : BOOLEAN]]
    /\ excused \in [Conns -> BOOLEAN]

\* What the user has not read and would be shown
Unread == {n \in Notes \ expired : note[n] = "unread"}

\* Once no answer is on its way to a connection it shows the right unread count,
\* unless something was created, deleted or expired, or marked by another
\* connection or with its answer lost, since its last count was read; reading the
\* count failed; or it was not subscribed when the count was broadcast
\* (MarkAsRead, MarkAllAsRead, handleMarkAsRead, Hub.BroadcastMessage).
ShownCountIsRight ==
    \A c \in Conns :
       \/ shown[c] = Cardinality(Unread) \/ excused[c]
       \/ \E w \in Workers : c \in job[w].to

-----------------------------------------------------------------------------
(* The inductive invariant behind ShownCountIsRight *)

\* A count that is about to be sent is right, unless what is unread has changed
\* since it was read, or it was not read.
PushesAreFresh ==
    \A w \in Workers : job[w].pc \in {"push", "reply"} =>
        job[w].overtaken \/ job[w].count = Cardinality(Unread)

Inv == TypeOK /\ PushesAreFresh /\ ShownCountIsRight
=============================================================================
