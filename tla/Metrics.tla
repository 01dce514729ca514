------------------------------ MODULE Metrics ------------------------------
(***************************************************************************)
(* The refresh of the tables the feeds are ranked by (MetricsJobService,   *)
(* DiscoveryRepository).                                                   *)
(*                                                                         *)
(* The worker refreshes at every tick, an administrator whenever he asks,  *)
(* and nothing keeps the two apart.  product_metrics is replaced by one    *)
(* statement, row by row; the other two tables are truncated, which locks  *)
(* them, and filled by a second statement of the same transaction.  What   *)
(* the tables are computed from (events, orders, wishlists) is a version   *)
(* number, a table the version its statement saw.                          *)
(***************************************************************************)
EXTENDS FiniteSets, Naturals

CONSTANTS
    Admins,      \* requests that ask for a refresh
    MaxVersion   \* bound: changes of the data

VARIABLES
    data,        \* version of what the tables are computed from
    table,       \* the version each table shows
    newest,      \* history: the newest version it has shown
    lag,         \* history: product_metrics was last written by a refresh that was overtaken
    job          \* the refresh the worker, or a request, is at

vars == <<data, table, newest, lag, job>>

Tables == {"product_metrics", "user_category_affinity", "product_co_views"}
Slots == {"worker"} \cup Admins
Idle == [pc |-> "idle", at |-> "product_metrics", saw |-> 0, overtaken |-> FALSE]

Init ==
    /\ data = 0
    /\ table = [t \in Tables |-> 0] /\ newest = table
    /\ lag = FALSE
    /\ job = [s \in Slots |-> Idle]

At(s, label) == job[s].pc = label

\* The refresh goes on with another table, or is over
Goto(s, label, t) == job' = [job EXCEPT ![s] = [Idle EXCEPT !.pc = label, !.at = t]]

Show(t, v) ==
    /\ table' = [table EXCEPT ![t] = v]
    /\ newest' = [newest EXCEPT ![t] = IF v > @ THEN v ELSE @]

-----------------------------------------------------------------------------
(* DiscoveryRepository *)

\* The statement has its snapshot from when it starts, and upserts later
RefreshProductMetrics(s) ==
    \/ /\ At(s, "refresh") /\ job[s].at = "product_metrics"
       /\ job' = [job EXCEPT ![s].pc = "upsert", ![s].saw = data]
       /\ UNCHANGED <<data, table, newest, lag>>
    \/ /\ At(s, "upsert")
       /\ Show("product_metrics", job[s].saw)
       /\ lag' = job[s].overtaken
       /\ job' = [o \in Slots |->
            IF o = s THEN [Idle EXCEPT !.pc = "refresh", !.at = "user_category_affinity"]
            ELSE IF At(o, "upsert") THEN [job[o] EXCEPT !.overtaken = TRUE]
            ELSE job[o]]
       /\ UNCHANGED data

\* Mutant of Truncate: DELETE, which locks rows and not the table
DeleteRows(s, t) ==
    /\ At(s, "refresh") /\ job[s].at = t
    /\ job' = [job EXCEPT ![s].pc = "truncated"]
    /\ UNCHANGED <<data, table, newest, lag>>

\* TRUNCATE waits for the table's exclusive lock, which is kept to the commit
Truncate(s, t) ==
    /\ At(s, "refresh") /\ job[s].at = t
    /\ \A o \in Slots : job[o].at = t => job[o].pc \notin {"truncated", "filled"}
    /\ job' = [job EXCEPT ![s].pc = "truncated"]
    /\ UNCHANGED <<data, table, newest, lag>>

\* A statement of its own, with a snapshot of its own
Fill(s, t) ==
    /\ At(s, "truncated") /\ job[s].at = t
    /\ job' = [job EXCEPT ![s].pc = "filled", ![s].saw = data]
    /\ UNCHANGED <<data, table, newest, lag>>

Commit(s, t, label, next) ==
    /\ At(s, "filled") /\ job[s].at = t
    /\ Show(t, job[s].saw)
    /\ Goto(s, label, next)
    /\ UNCHANGED <<data, lag>>

RefreshUserCategoryAffinity(s) ==
    LET t == "user_category_affinity"
    IN  Truncate(s, t) \/ Fill(s, t) \/ Commit(s, t, "refresh", "product_co_views")

RefreshProductCoViews(s) ==
    LET t == "product_co_views"
    IN  Truncate(s, t) \/ Fill(s, t) \/ Commit(s, t, "idle", "product_metrics")

-----------------------------------------------------------------------------
(* MetricsJobService *)

\* The three refreshes, one after the other; the first error ends the run
RunOnce(s) ==
    \/ RefreshProductMetrics(s) \/ RefreshUserCategoryAffinity(s) \/ RefreshProductCoViews(s)
    \/ /\ job[s] # Idle
       /\ job' = [job EXCEPT ![s] = Idle]     \* a transaction is rolled back
       /\ UNCHANGED <<data, table, newest, lag>>

Begin(s) ==
    /\ job[s] = Idle
    /\ Goto(s, "refresh", "product_metrics")
    /\ UNCHANGED <<data, table, newest, lag>>

\* At once, and at every tick; errors are only logged
Start == Begin("worker") \/ RunOnce("worker")

RecomputeMetrics(a) == Begin(a) \/ RunOnce(a)

\* Events, orders and wishlists
DataChanges ==
    /\ data < MaxVersion
    /\ data' = data + 1
    /\ UNCHANGED <<table, newest, lag, job>>

-----------------------------------------------------------------------------
Next ==
    \/ Start
    \/ \E a \in Admins : RecomputeMetrics(a)
    \/ DataChanges

Spec == Init /\ [][Next]_vars

-----------------------------------------------------------------------------
TypeOK ==
    /\ data \in 0..MaxVersion
    /\ table \in [Tables -> 0..MaxVersion] /\ newest \in [Tables -> 0..MaxVersion]
    /\ lag \in BOOLEAN
    /\ job \in [Slots -> [pc : {"idle", "refresh", "upsert", "truncated", "filled"},
                          at : Tables, saw : 0..MaxVersion, overtaken : BOOLEAN]]

\* However refreshes of the worker and of administrators overlap, the truncated
\* tables never go back to older data, and product_metrics does so only while
\* its last writer is one that another refresh overtook (RunOnce, TRUNCATE).
TablesGoForward ==
    \A t \in Tables : table[t] = newest[t] \/ (t = "product_metrics" /\ lag)
-----------------------------------------------------------------------------
(* The inductive invariant behind it *)

\* A table shows what its data has been, and so will a refresh
SnapshotsArePast ==
    /\ \A t \in Tables : table[t] <= newest[t] /\ newest[t] <= data
    /\ \A s \in Slots : job[s].saw <= data

\* product_metrics is upserted, the other two are truncated and filled
Locking(s) == job[s].pc \in {"truncated", "filled"}
StepsFitTables ==
    \A s \in Slots : /\ Locking(s) => job[s].at # "product_metrics"
                     /\ At(s, "upsert") => job[s].at = "product_metrics"

\* The lock of TRUNCATE is held by one refresh at a time
TruncateExcludes ==
    \A r, s \in Slots : Locking(r) /\ Locking(s) /\ job[r].at = job[s].at => r = s

\* What is about to be shown is not older than what was, unless overtaken
WritersAreNewest ==
    \A s \in Slots :
       At(s, "filled") \/ (At(s, "upsert") /\ ~job[s].overtaken) => newest[job[s].at] <= job[s].saw

Inv ==
    /\ TypeOK
    /\ SnapshotsArePast
    /\ StepsFitTables
    /\ TruncateExcludes
    /\ WritersAreNewest
    /\ TablesGoForward
=============================================================================
