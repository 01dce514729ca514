----------------------- MODULE CatalogServicesProofs -----------------------
(***************************************************************************)
(* Safety of the services behind the catalog, for any number of requests:  *)
(* the refresh of the metrics, administrators' edits of one record, the    *)
(* category tree with the table of its paths, the merchant feed and the    *)
(* product feeds; then the types of all services of MCServices.            *)
(* A behaviour of MCServices is one of one service (component), whose own  *)
(* invariant Inv is shown to be inductive.                                 *)
(***************************************************************************)
EXTENDS AuthServicesProofs, UserServicesProofs, Ranking, SequenceTheorems

-----------------------------------------------------------------------------
(* Metrics *)

\* Nothing has been refreshed: the invariant holds at the start.
LEMMA MetricInit == Metric!Init => Metric!Inv
  <1> SUFFICES ASSUME Metric!Init PROVE Metric!Inv
    OBVIOUS
  <1> USE DEF Metric!Init, Metric!Idle
  <1>1. 0 \in 0..MaxData
    BY ServicesAssumption
  <1>2. Metric!TypeOK
    <2>1. x2 \in [Metric!Tables -> 0..MaxData] /\ x3 \in [Metric!Tables -> 0..MaxData]
      BY <1>1
    <2>2. job \in [Metric!Slots -> [pc : {"idle", "refresh", "upsert", "truncated", "filled"},
                          at : Metric!Tables, saw : 0..MaxData, overtaken : BOOLEAN]]
      BY <1>1 DEF Metric!Tables
    <2> QED
      BY <1>1, <2>1, <2>2 DEF Metric!TypeOK
  <1>3. Metric!SnapshotsArePast
    BY DEF Metric!SnapshotsArePast
  <1> QED
    BY <1>2, <1>3 DEF Metric!Inv, Metric!StepsFitTables, Metric!TruncateExcludes,
          Metric!WritersAreNewest, Metric!TablesGoForward, Metric!Locking, Metric!At

\* New events, orders and wishlists make no snapshot newer.
LEMMA MetricDataChanges == Metric!Inv /\ Metric!DataChanges => Metric!Inv'
  BY ServicesAssumption
     DEF Metric!DataChanges, Metric!Inv, Metric!TypeOK, Metric!SnapshotsArePast,
         Metric!StepsFitTables, Metric!TruncateExcludes, Metric!WritersAreNewest,
         Metric!TablesGoForward, Metric!At, Metric!Locking

\* The state of a slot, as TypeOK has it.
MetricJobs == [pc : {"idle", "refresh", "upsert", "truncated", "filled"},
               at : Metric!Tables, saw : 0..MaxData, overtaken : BOOLEAN]

\* Where Goto leads, field by field.
LEMMA MetricGoto ==
    ASSUME NEW s \in Metric!Slots, NEW l \in {"idle", "refresh"}, NEW t \in Metric!Tables,
           Metric!TypeOK, Metric!Goto(s, l, t)
    PROVE  \E j \in MetricJobs : /\ job' = [job EXCEPT ![s] = j]
                                 /\ j.pc = l /\ j.at = t /\ j.saw = 0 /\ ~j.overtaken
  <1> DEFINE j == [Metric!Idle EXCEPT !.pc = l, !.at = t]
  <1>0. Metric!Idle \in MetricJobs /\ Metric!Idle.saw = 0 /\ ~Metric!Idle.overtaken
    BY ServicesAssumption DEF MetricJobs, Metric!Idle, Metric!Tables
  <1>1. j \in MetricJobs /\ j.pc = l /\ j.at = t /\ j.saw = 0 /\ ~j.overtaken
    BY <1>0 DEF MetricJobs
  <1>2. job' = [job EXCEPT ![s] = j]
    BY DEF Metric!Goto
  <1> HIDE DEF j
  <1> QED
    BY <1>1, <1>2

\* What a refresh has got to fits the tables and the other refreshes.
MetricFits(s, j) ==
    /\ j \in MetricJobs
    /\ j.saw <= x1
    /\ j.pc \in {"truncated", "filled"} => j.at # "product_metrics"
    /\ j.pc = "upsert" => j.at = "product_metrics"
    /\ j.pc \in {"upsert", "filled"} => x3[j.at] <= j.saw
    /\ j.pc \in {"truncated", "filled"} =>
          \A o \in Metric!Slots \ {s} : job[o].at = j.at => ~Metric!Locking(o)

\* A step of one refresh that shows nothing.
LEMMA MetricLocal ==
    ASSUME Metric!Inv, NEW s \in Metric!Slots, NEW j, MetricFits(s, j),
           job' = [job EXCEPT ![s] = j], UNCHANGED <<x1, x2, x3, x4>>
    PROVE  Metric!Inv'
  <1> USE DEF Metric!Inv, MetricFits
  <1>1. /\ job'[s] = j /\ \A o \in Metric!Slots \ {s} : job'[o] = job[o]
    BY DEF Metric!TypeOK
  <1>2. Metric!TypeOK'
    BY DEF Metric!TypeOK, MetricJobs
  <1>3. Metric!SnapshotsArePast' /\ Metric!StepsFitTables' /\ Metric!TablesGoForward'
    BY <1>1 DEF Metric!SnapshotsArePast, Metric!StepsFitTables, Metric!TablesGoForward,
                Metric!At, Metric!Locking
  <1>4. Metric!TruncateExcludes'
    BY <1>1 DEF Metric!TruncateExcludes, Metric!Locking
  <1>5. Metric!WritersAreNewest'
    BY <1>1 DEF Metric!WritersAreNewest, Metric!At
  <1> QED
    BY <1>2, <1>3, <1>4, <1>5

\* A refresh begins, takes a snapshot or a lock, fills a table, or fails.
LEMMA MetricControl ==
    ASSUME Metric!Inv, NEW s \in Metric!Slots, NEW t \in Metric!Tables \ {"product_metrics"},
           \/ Metric!Begin(s) \/ Metric!Truncate(s, t) \/ Metric!Fill(s, t)
           \/ /\ job' = [job EXCEPT ![s] = Metric!Idle]
              /\ UNCHANGED <<x1, x2, x3, x4>>
           \/ /\ Metric!At(s, "refresh") /\ job[s].at = "product_metrics"
              /\ job' = [job EXCEPT ![s].pc = "upsert", ![s].saw = x1]
              /\ UNCHANGED <<x1, x2, x3, x4>>
    PROVE  Metric!Inv'
  <1>0. /\ job[s] \in MetricJobs
        /\ x1 \in 0..MaxData /\ x3 \in [Metric!Tables -> 0..MaxData]
        /\ \A a \in Metric!Tables : x3[a] <= x1
        /\ "product_metrics" \in Metric!Tables
        /\ UNCHANGED <<x1, x2, x3, x4>>
    BY DEF Metric!Inv, Metric!TypeOK, MetricJobs, Metric!SnapshotsArePast, Metric!Tables,
           Metric!Begin, Metric!Truncate, Metric!Fill
  <1>1. \E j : MetricFits(s, j) /\ job' = [job EXCEPT ![s] = j]
    <2>1. CASE Metric!Begin(s)
      <3>1. PICK j \in MetricJobs : job' = [job EXCEPT ![s] = j] /\ j.pc = "refresh" /\ j.saw = 0
        BY <1>0, <2>1, MetricGoto DEF Metric!Begin, Metric!Inv
      <3>9. MetricFits(s, j)
        BY <1>0, <3>1 DEF MetricFits
      <3> QED
        BY <3>1, <3>9
    <2>2. CASE Metric!Truncate(s, t)
      <3> DEFINE j == [job[s] EXCEPT !.pc = "truncated"]
      <3>1. job' = [job EXCEPT ![s] = j]
        BY <2>2 DEF Metric!Truncate
      <3>2. j \in MetricJobs /\ j.pc = "truncated" /\ j.at = t /\ j.saw <= x1
        BY <1>0, <2>2 DEF Metric!Truncate, MetricJobs, Metric!SnapshotsArePast, Metric!Inv
      <3>3. \A o \in Metric!Slots \ {s} : job[o].at = j.at => ~Metric!Locking(o)
        BY <2>2, <3>2 DEF Metric!Truncate, Metric!Locking
      <3> HIDE DEF j
      <3> QED
        BY <3>1, <3>2, <3>3 DEF MetricFits
    <2>3. CASE Metric!Fill(s, t)
      <3> DEFINE j == [job[s] EXCEPT !.pc = "filled", !.saw = x1]
      <3>1. job' = [job EXCEPT ![s] = j]
        BY <2>3 DEF Metric!Fill
      <3>2. j \in MetricJobs /\ j.pc = "filled" /\ j.at = t /\ j.saw = x1
        BY <1>0, <2>3 DEF Metric!Fill, MetricJobs
      <3>3. \A o \in Metric!Slots \ {s} : job[o].at = j.at => ~Metric!Locking(o)
        BY <2>3, <3>2 DEF Metric!Fill, Metric!Locking, Metric!At, Metric!TruncateExcludes, Metric!Inv
      <3> HIDE DEF j
      <3>9. MetricFits(s, j)
        BY <1>0, <3>1, <3>2, <3>3 DEF MetricFits
      <3> QED
        BY <3>1, <3>9
    <2>4. CASE job' = [job EXCEPT ![s] = Metric!Idle]
      <3>1. Metric!Idle \in MetricJobs /\ Metric!Idle.pc = "idle" /\ Metric!Idle.saw = 0
        BY <1>0, ServicesAssumption DEF Metric!Idle, MetricJobs
      <3>2. MetricFits(s, Metric!Idle)
        BY <1>0, <3>1 DEF MetricFits
      <3> QED
        BY <2>4, <3>2
    <2>5. CASE /\ Metric!At(s, "refresh") /\ job[s].at = "product_metrics"
               /\ job' = [job EXCEPT ![s].pc = "upsert", ![s].saw = x1]
      <3> DEFINE j == [job[s] EXCEPT !.pc = "upsert", !.saw = x1]
      <3>1. job' = [job EXCEPT ![s] = j]
        BY <2>5
      <3>2. j \in MetricJobs /\ j.pc = "upsert" /\ j.at = "product_metrics" /\ j.saw = x1
        BY <1>0, <2>5 DEF MetricJobs
      <3> HIDE DEF j
      <3>9. MetricFits(s, j)
        BY <1>0, <3>1, <3>2 DEF MetricFits
      <3> QED
        BY <3>1, <3>9
    <2> QED
      BY <2>1, <2>2, <2>3, <2>4, <2>5
  <1> QED
    BY <1>0, <1>1, MetricLocal

\* A table is shown anew by its upsert, or by the refresh that holds its lock.
LEMMA MetricShow ==
    ASSUME Metric!Inv, NEW s \in Metric!Slots, NEW t \in Metric!Tables, NEW j \in MetricJobs,
           Metric!Show(t, job[s].saw), x1' = x1,
           j.pc \in {"idle", "refresh"}, j.saw = 0,
           \/ /\ Metric!At(s, "filled") /\ job[s].at = t
              /\ job' = [job EXCEPT ![s] = j] /\ x4' = x4
           \/ /\ Metric!At(s, "upsert") /\ t = "product_metrics" /\ x4' = job[s].overtaken
              /\ job' = [o \in Metric!Slots |->
                   IF o = s THEN j
                   ELSE IF Metric!At(o, "upsert") THEN [job[o] EXCEPT !.overtaken = TRUE]
                   ELSE job[o]]
    PROVE  Metric!Inv'
  <1> DEFINE v == job[s].saw
  <1>0. v \in 0..MaxData /\ v <= x1
    BY DEF Metric!Inv, Metric!TypeOK, Metric!SnapshotsArePast
  <1>1. /\ x2' = [x2 EXCEPT ![t] = v]
        /\ x3' = [x3 EXCEPT ![t] = IF v > x3[t] THEN v ELSE x3[t]]
    BY DEF Metric!Show
  <1>2. job' \in [Metric!Slots -> MetricJobs] /\ job'[s] = j
    <2>1. job \in [Metric!Slots -> MetricJobs]
      BY DEF Metric!Inv, Metric!TypeOK, MetricJobs
    <2>2. \A k \in MetricJobs : [k EXCEPT !.overtaken = TRUE] \in MetricJobs
      BY DEF MetricJobs
    <2> QED
      BY <2>1, <2>2
  <1>3. \A o \in Metric!Slots \ {s} :
           /\ job'[o].pc = job[o].pc /\ job'[o].at = job[o].at /\ job'[o].saw = job[o].saw
           /\ Metric!At(o, "filled") => job[o].at # t
           /\ Metric!At(o, "upsert") /\ ~job'[o].overtaken =>
                 job[o].at # t /\ ~job[o].overtaken
    <2> TAKE o \in Metric!Slots \ {s}
    <2>0. job[o] \in MetricJobs
      BY DEF Metric!Inv, Metric!TypeOK, MetricJobs
    <2>1. CASE job' = [job EXCEPT ![s] = j] /\ Metric!At(s, "filled") /\ job[s].at = t
      BY <2>1 DEF Metric!Inv, Metric!TypeOK, Metric!At, Metric!TruncateExcludes,
                  Metric!StepsFitTables, Metric!Locking
    <2>2. CASE job'[o] = (IF Metric!At(o, "upsert") THEN [job[o] EXCEPT !.overtaken = TRUE]
                          ELSE job[o]) /\ t = "product_metrics"
      BY <2>0, <2>2 DEF Metric!Inv, MetricJobs, Metric!At, Metric!StepsFitTables, Metric!Locking
    <2> QED
      BY <2>1, <2>2
  <1>4. Metric!TypeOK'
    BY <1>0, <1>1, <1>2 DEF Metric!Inv, Metric!TypeOK, MetricJobs
  <1>5. Metric!SnapshotsArePast'
    BY <1>0, <1>1, <1>2, <1>3 DEF Metric!Inv, Metric!TypeOK, Metric!SnapshotsArePast
  <1>6. Metric!StepsFitTables' /\ Metric!TruncateExcludes'
    BY <1>2, <1>3 DEF Metric!Inv, Metric!StepsFitTables, Metric!TruncateExcludes, Metric!Locking,
                      Metric!At
  <1>7. /\ \A a \in Metric!Tables \ {t} : x2'[a] = x2[a] /\ x3'[a] = x3[a]
        /\ x2'[t] = v /\ x3'[t] = IF v > x3[t] THEN v ELSE x3[t]
        /\ x3 \in [Metric!Tables -> 0..MaxData]
    BY <1>1 DEF Metric!Inv, Metric!TypeOK
  <1>8. Metric!WritersAreNewest'
    <2> SUFFICES ASSUME NEW o \in Metric!Slots,
                        (Metric!At(o, "filled") \/ (Metric!At(o, "upsert") /\ ~job[o].overtaken))'
                 PROVE  x3'[job'[o].at] <= job'[o].saw
      BY DEF Metric!WritersAreNewest
    <2>1. o # s
      BY <1>2 DEF Metric!At
    <2>2. job[o].at # t /\ (Metric!At(o, "filled") \/ (Metric!At(o, "upsert") /\ ~job[o].overtaken))
      BY <1>3, <2>1 DEF Metric!At
    <2>3. job[o].at \in Metric!Tables /\ x3[job[o].at] <= job[o].saw
      BY <2>2 DEF Metric!Inv, Metric!TypeOK, Metric!WritersAreNewest
    <2> QED
      BY <1>3, <1>7, <2>1, <2>2, <2>3
  <1>9. Metric!TablesGoForward'
    <2>1. Metric!At(s, "filled") \/ ~job[s].overtaken => x3[t] <= v
      <3>1. job[s].at = t
        BY DEF Metric!Inv, Metric!At, Metric!StepsFitTables
      <3>2. Metric!At(s, "filled") \/ (Metric!At(s, "upsert") /\ ~job[s].overtaken) =>
               x3[job[s].at] <= job[s].saw
        BY DEF Metric!Inv, Metric!WritersAreNewest
      <3> QED
        BY <3>1, <3>2 DEF Metric!At
    <2>2. x2'[t] = x3'[t] \/ (t = "product_metrics" /\ x4')
      BY <1>0, <1>7, <2>1
    <2> QED
      BY <1>7, <2>2 DEF Metric!Inv, Metric!TablesGoForward
  <1> QED
    BY <1>4, <1>5, <1>6, <1>8, <1>9 DEF Metric!Inv

\* Every step of the refreshes, however they overlap.
LEMMA MetricNext == Metric!Inv /\ [Metric!Next]_(Metric!vars) => Metric!Inv'
  <1> SUFFICES ASSUME Metric!Inv, [Metric!Next]_(Metric!vars) PROVE Metric!Inv'
    OBVIOUS
  <1>1. ASSUME NEW s \in Metric!Slots, Metric!Begin(s) \/ Metric!RunOnce(s)
        PROVE  Metric!Inv'
    <2>0. /\ "user_category_affinity" \in Metric!Tables \ {"product_metrics"}
          /\ "product_co_views" \in Metric!Tables \ {"product_metrics"}
          /\ "product_metrics" \in Metric!Tables
      BY DEF Metric!Tables
    <2>1. CASE \E t \in Metric!Tables \ {"product_metrics"}, l \in {"idle", "refresh"},
                  n \in Metric!Tables : Metric!Commit(s, t, l, n)
      <3>1. PICK t \in Metric!Tables \ {"product_metrics"}, l \in {"idle", "refresh"},
                 n \in Metric!Tables : Metric!Commit(s, t, l, n)
        BY <2>1
      <3>2. PICK j \in MetricJobs : job' = [job EXCEPT ![s] = j] /\ j.pc = l /\ j.saw = 0
        BY <3>1, MetricGoto DEF Metric!Commit, Metric!Inv
      <3> QED
        BY <3>1, <3>2, MetricShow DEF Metric!Commit
    <2>2. CASE Metric!RefreshProductMetrics(s)
      <3>1. CASE Metric!At(s, "refresh")
        BY <2>0, <2>2, <3>1, MetricControl DEF Metric!RefreshProductMetrics, Metric!At
      <3>2. CASE Metric!At(s, "upsert")
        <4> DEFINE j == [Metric!Idle EXCEPT !.pc = "refresh", !.at = "user_category_affinity"]
        <4>1. Metric!Idle \in MetricJobs /\ Metric!Idle.saw = 0
          BY ServicesAssumption DEF MetricJobs, Metric!Idle, Metric!Tables
        <4>2. j \in MetricJobs /\ j.pc = "refresh" /\ j.saw = 0
          BY <2>0, <4>1 DEF MetricJobs
        <4>3. /\ Metric!Show("product_metrics", job[s].saw)
              /\ x4' = job[s].overtaken /\ x1' = x1
              /\ job' = [o \in Metric!Slots |->
                   IF o = s THEN j
                   ELSE IF Metric!At(o, "upsert") THEN [job[o] EXCEPT !.overtaken = TRUE]
                   ELSE job[o]]
          BY <2>2, <3>2 DEF Metric!RefreshProductMetrics, Metric!At
        <4> HIDE DEF j
        <4> QED
          BY <2>0, <3>2, <4>2, <4>3, MetricShow
      <3> QED
        BY <2>2, <3>1, <3>2 DEF Metric!RefreshProductMetrics
    <2> QED
      BY <1>1, <2>0, <2>1, <2>2, MetricControl
         DEF Metric!RunOnce, Metric!RefreshUserCategoryAffinity, Metric!RefreshProductCoViews
  <1>2. CASE UNCHANGED Metric!vars
    BY <1>2 DEF Metric!vars, Metric!Inv, Metric!TypeOK, Metric!SnapshotsArePast,
         Metric!StepsFitTables, Metric!TruncateExcludes, Metric!WritersAreNewest,
         Metric!TablesGoForward, Metric!At, Metric!Locking
  <1> QED
    BY <1>1, <1>2, MetricDataChanges
       DEF Metric!Next, Metric!Start, Metric!RecomputeMetrics, Metric!Slots

\* The metrics module's invariant always holds.
THEOREM MetricSafe == Spec => [](component = "metrics" => Metric!Inv)
  <1> DEFINE IInv == component = "metrics" => Metric!Inv
  <1>1. Init => IInv
    BY MetricInit DEF Init
  <1>2. IInv /\ [Next]_vars => IInv'
    <2> SUFFICES ASSUME IInv, [Next]_vars, component' = "metrics"
                 PROVE  Metric!Inv'
      OBVIOUS
    <2>1. component = "metrics" /\ [Metric!Next]_(Metric!vars)
      BY DEF Next, vars, Metric!vars
    <2> QED
      BY <2>1, MetricNext
  <1> QED
    BY <1>1, <1>2, PTL DEF Spec

\* However refreshes of the worker and of administrators overlap, the truncated
\* tables never go back to older data, and product_metrics does so only while its
\* last writer is one that another refresh overtook (RunOnce, TRUNCATE).
THEOREM TablesOnlyGoForward == Spec => []TablesGoForward
  <1> DEFINE IInv == component = "metrics" => Metric!Inv
  <1>1. IInv => TablesGoForward
    BY DEF TablesGoForward, Metric!Inv
  <1> QED
    BY <1>1, MetricSafe, PTL

-----------------------------------------------------------------------------
(* Edits *)

EditJobs ==
    [pc : {"write"}, patch : Edit!Patches, copy : Edit!Rows \cup {Edit!NoRow},
     version : 1..MaxVersion, stale : BOOLEAN]

\* The row that stands for none is none that a request could leave.
LEMMA EditNoRow == Edit!NoRow \notin Edit!Rows
  BY DEF Edit!NoRow, Edit!Rows, Edit!Fields

\* A free slot has no copy, and is no request.
LEMMA EditFree ==
    /\ Edit!Free.pc = "idle" /\ Edit!Free.copy = Edit!NoRow
    /\ \A j \in EditJobs : j.pc = "write" /\ j # Edit!Free
  BY DEF Edit!Free, EditJobs

\* An edit of fields leaves a row, with what the request named.
LEMMA EditPatched ==
    ASSUME NEW copy \in Edit!Rows, NEW patch \in Edit!Patches
    PROVE  /\ Edit!patched(copy, patch) \in Edit!Rows
           /\ \A f \in Edit!Fields : Edit!patched(copy, patch)[f] =
                 IF f \in DOMAIN patch THEN patch[f] ELSE copy[f]
  <1>1. PICK fs \in SUBSET Edit!Fields \ {{}} : patch \in [fs -> Values]
    BY DEF Edit!Patches
  <1>2. \A f \in Edit!Fields :
           (IF f \in DOMAIN patch THEN patch[f] ELSE copy[f]) \in Values
    BY <1>1 DEF Edit!Rows
  <1> QED
    BY <1>2 DEF Edit!patched, Edit!Rows

\* The policy starts with some values, every other record does not exist.
LEMMA EditInit == Edit!Init => Edit!Inv
  <1> SUFFICES ASSUME Edit!Init PROVE Edit!Inv
    OBVIOUS
  <1>1. /\ \A w \in Workers : job[w] = Edit!Free /\ job[w].pc = "idle"
        /\ job \in [Workers -> {Edit!Free}]
    BY EditFree DEF Edit!Init
  <1>2. x2 \in Edit!Rows \cup {Edit!NoRow} /\ (x1 = "delivery" => x2 \in Edit!Rows)
    <2>1. (CHOOSE v \in Values : TRUE) \in Values
      BY ServicesAssumption
    <2> QED
      BY <2>1 DEF Edit!Init, Edit!Rows
  <1>3. x4 = x2 /\ x3 = 1 /\ x5 = {} /\ x1 \in Entities
    BY DEF Edit!Init
  <1>4. Edit!TypeOK
    BY <1>1, <1>2, <1>3, ServicesAssumption DEF Edit!TypeOK
  <1> QED
    BY <1>1, <1>2, <1>3, <1>4, EditNoRow
       DEF Edit!Inv, Edit!NamedIsOfRow, Edit!CopiesAreFresh, Edit!VersionsTell,
           Edit!ConfirmedEditsKept

\* The type invariant with the requests under their name.
LEMMA EditTypes ==
    Edit!TypeOK <=>
        /\ x1 \in Entities
        /\ x2 \in Edit!Rows \cup {Edit!NoRow} /\ x4 \in Edit!Rows \cup {Edit!NoRow}
        /\ x3 \in 1..MaxVersion /\ x5 \subseteq Edit!Fields
        /\ job \in [Workers -> {Edit!Free} \cup EditJobs]
  BY DEF Edit!TypeOK, EditJobs

\* A step of one request that leaves the record alone.
LEMMA EditGoto ==
    ASSUME Edit!Inv, NEW w \in Workers, NEW j, job' = [job EXCEPT ![w] = j],
           j = Edit!Free
             \/ /\ j \in EditJobs /\ x2 # Edit!NoRow
                /\ j.copy = x2 /\ j.version = x3 /\ ~j.stale,
           x1' = x1, x2' = x2, x3' = x3, x4' = x4, x5' = x5
    PROVE  Edit!Inv'
  <1>1. /\ \A o \in Workers : job'[o] = job[o] \/ job'[o] = j
        /\ job' \in [Workers -> {Edit!Free} \cup EditJobs]
    BY EditTypes DEF Edit!Inv
  <1>2. Edit!TypeOK'
    BY <1>1 DEF Edit!Inv, Edit!TypeOK, EditJobs
  <1>3. Edit!NamedIsOfRow' /\ Edit!ConfirmedEditsKept'
    BY DEF Edit!Inv, Edit!NamedIsOfRow, Edit!ConfirmedEditsKept
  <1>4. Edit!CopiesAreFresh'
    BY <1>1, EditFree DEF Edit!Inv, Edit!CopiesAreFresh
  <1>5. Edit!VersionsTell'
    <2>1. x3 \in Nat
      BY EditTypes, ServicesAssumption DEF Edit!Inv
    <2> QED
      BY <1>1, <2>1, EditFree DEF Edit!Inv, Edit!VersionsTell
  <1> QED
    BY <1>2, <1>3, <1>4, <1>5 DEF Edit!Inv

\* The record is written back whole: a request whose copy is the record as it is
\* changes only what it names, and one that is stale is known to undo the rest.
LEMMA EditWritten ==
    ASSUME Edit!Inv, NEW w \in Workers, job[w].pc = "write", job[w].copy # Edit!NoRow,
           Edit!UpdateColumns(w), x1' = x1,
           IF x1 = "delivery"
           THEN job[w].version = x3 /\ x3 < MaxVersion /\ x3' = x3 + 1
           ELSE x3' = x3
    PROVE  Edit!Inv'
  <1> DEFINE patch == job[w].patch
             copy == job[w].copy
  <1>1. /\ job \in [Workers -> {Edit!Free} \cup EditJobs] /\ x3 \in 1..MaxVersion
        /\ x2 \in Edit!Rows \cup {Edit!NoRow} /\ x4 \in Edit!Rows \cup {Edit!NoRow}
        /\ x5 \subseteq Edit!Fields
    BY EditTypes DEF Edit!Inv
  <1>2. job[w] \in EditJobs
    BY <1>1, EditFree
  <1>3. patch \in Edit!Patches /\ copy \in Edit!Rows
    BY <1>2 DEF EditJobs
  <1>4. /\ x2 \in Edit!Rows /\ x4 \in Edit!Rows
        /\ job[w].stale \/ copy = x2
    BY <1>1 DEF Edit!Inv, Edit!CopiesAreFresh, Edit!NamedIsOfRow
  <1>5. /\ x2' = Edit!patched(copy, patch) /\ x4' = Edit!patched(x4, patch)
        /\ x5' = IF job[w].stale THEN (x5 \cup Edit!Fields) \ DOMAIN patch
                                 ELSE x5 \ DOMAIN patch
        /\ job' = [v \in Workers |->
             IF v = w THEN Edit!Free
             ELSE IF job[v] = Edit!Free THEN Edit!Free ELSE [job[v] EXCEPT !.stale = TRUE]]
    BY DEF Edit!UpdateColumns
  <1>6. /\ x2' \in Edit!Rows /\ x4' \in Edit!Rows
        /\ \A f \in Edit!Fields :
             /\ x2'[f] = IF f \in DOMAIN patch THEN patch[f] ELSE copy[f]
             /\ x4'[f] = IF f \in DOMAIN patch THEN patch[f] ELSE x4[f]
    BY <1>3, <1>4, <1>5, EditPatched
  <1>7. ASSUME NEW v \in Workers
        PROVE  \/ job'[v] = Edit!Free
               \/ /\ job'[v] \in EditJobs /\ job[v] \in EditJobs /\ job'[v].stale
                  /\ job'[v].copy = job[v].copy /\ job'[v].version = job[v].version
    <2>1. CASE v = w \/ job[v] = Edit!Free
      BY <1>5, <2>1
    <2>2. CASE v # w /\ job[v] # Edit!Free
      <3>1. job[v] \in EditJobs
        BY <1>1, <2>2
      <3>2. job'[v] = [job[v] EXCEPT !.stale = TRUE]
        BY <1>5, <2>2
      <3> QED
        BY <3>1, <3>2 DEF EditJobs
    <2> QED
      BY <2>1, <2>2
  <1>8. Edit!TypeOK'
    <2>1. job' \in [Workers -> {Edit!Free} \cup EditJobs]
      BY <1>5, <1>7
    <2>2. x3' \in 1..MaxVersion
      BY <1>1, ServicesAssumption
    <2>3. x5' \subseteq Edit!Fields
      BY <1>1, <1>5
    <2> QED
      BY <1>6, <2>1, <2>2, <2>3 DEF Edit!Inv, Edit!TypeOK, EditJobs
  <1>9. Edit!NamedIsOfRow'
    BY <1>6, EditNoRow DEF Edit!NamedIsOfRow
  <1>10. Edit!CopiesAreFresh'
    BY <1>6, <1>7, EditFree, EditNoRow DEF Edit!CopiesAreFresh
  <1>11. Edit!VersionsTell'
    <2> SUFFICES ASSUME x1 = "delivery", NEW v \in Workers, job'[v].pc = "write"
                 PROVE  /\ job'[v].copy # Edit!NoRow /\ job'[v].version <= x3'
                        /\ job'[v].version # x3'
      BY DEF Edit!VersionsTell
    <2>1. /\ job[v] \in EditJobs /\ job'[v].copy = job[v].copy
          /\ job'[v].version = job[v].version
      BY <1>7, EditFree
    <2>2. job[v].copy # Edit!NoRow /\ job[v].version <= x3
      BY <2>1, EditFree DEF Edit!Inv, Edit!VersionsTell
    <2>3. job[v].version \in Nat /\ x3 \in Nat
      BY <1>1, <2>1, ServicesAssumption DEF EditJobs
    <2> QED
      BY <2>1, <2>2, <2>3
  <1>12. Edit!ConfirmedEditsKept'
    <2> SUFFICES ASSUME NEW f \in Edit!Fields
                 PROVE  x2'[f] = x4'[f] \/ (x1 # "delivery" /\ f \in x5')
      BY DEF Edit!ConfirmedEditsKept
    <2>1. CASE f \in DOMAIN patch
      BY <1>6, <2>1
    <2>2. CASE f \notin DOMAIN patch
      <3>1. x2'[f] = copy[f] /\ x4'[f] = x4[f]
        BY <1>6, <2>2
      <3>2. CASE ~job[w].stale
        <4>1. x2[f] = x4[f] \/ (x1 # "delivery" /\ f \in x5)
          BY <1>4, EditNoRow DEF Edit!Inv, Edit!ConfirmedEditsKept
        <4> QED
          BY <1>4, <1>5, <2>2, <3>1, <3>2, <4>1
      <3>3. CASE job[w].stale
        <4>1. x1 # "delivery"
          BY <3>3 DEF Edit!Inv, Edit!VersionsTell
        <4> QED
          BY <1>5, <2>2, <3>3, <4>1
      <3> QED
        BY <3>2, <3>3
    <2> QED
      BY <2>1, <2>2
  <1> QED
    BY <1>8, <1>9, <1>10, <1>11, <1>12 DEF Edit!Inv

\* Nobody holds a copy of a record that is not there.
LEMMA EditInserted ==
    ASSUME Edit!Inv, x1 # "delivery", NEW new \in Edit!Rows, Edit!Insert(new)
    PROVE  Edit!Inv'
  <1>1. /\ x2 = Edit!NoRow /\ x2' = new /\ x4' = new /\ x5' = {}
        /\ x1' = x1 /\ x3' = x3 /\ job' = job
    BY DEF Edit!Insert
  <1>2. Edit!TypeOK'
    BY <1>1 DEF Edit!Inv, Edit!TypeOK
  <1>3. Edit!CopiesAreFresh'
    BY <1>1 DEF Edit!Inv, Edit!CopiesAreFresh
  <1> QED
    BY <1>1, <1>2, <1>3, EditNoRow
       DEF Edit!Inv, Edit!NamedIsOfRow, Edit!VersionsTell, Edit!ConfirmedEditsKept

\* With the record the copies of it lose their use.
LEMMA EditDeleted ==
    ASSUME Edit!Inv, x1 # "delivery", Edit!DeleteRow
    PROVE  Edit!Inv'
  <1>1. /\ x2' = Edit!NoRow /\ x4' = Edit!NoRow /\ x5' = {}
        /\ x1' = x1 /\ x3' = x3
        /\ job' = [w \in Workers |-> [job[w] EXCEPT !.copy = Edit!NoRow]]
    BY DEF Edit!DeleteRow
  <1>2. job \in [Workers -> {Edit!Free} \cup EditJobs]
    BY EditTypes DEF Edit!Inv
  <1>3. ASSUME NEW w \in Workers
        PROVE  /\ job'[w] \in {Edit!Free} \cup EditJobs
               /\ job'[w].copy = Edit!NoRow
    <2>1. job'[w] = [job[w] EXCEPT !.copy = Edit!NoRow]
      BY <1>1
    <2>2. CASE job[w] = Edit!Free
      <3> DEFINE F == [pc : {"idle"}, patch : {Edit!NoRow}, copy : {Edit!NoRow},
                       version : {0}, stale : {FALSE}]
      <3>1. Edit!Free \in F
        BY DEF Edit!Free
      <3>2. job'[w] \in F
        BY <2>1, <2>2, <3>1
      <3>3. job'[w] = Edit!Free
        BY <3>2 DEF Edit!Free
      <3> QED
        BY <3>3, EditFree
    <2>3. CASE job[w] \in EditJobs
      BY <2>1, <2>3 DEF EditJobs
    <2> QED
      BY <1>2, <2>2, <2>3
  <1>4. Edit!TypeOK'
    <2>1. job' \in [Workers -> {Edit!Free} \cup EditJobs]
      BY <1>1, <1>3
    <2> QED
      BY <1>1, <2>1 DEF Edit!Inv, Edit!TypeOK, EditJobs
  <1> QED
    BY <1>1, <1>3, <1>4
       DEF Edit!Inv, Edit!NamedIsOfRow, Edit!CopiesAreFresh, Edit!VersionsTell,
           Edit!ConfirmedEditsKept

\* A form or a request takes a copy of the record as it is.
LEMMA EditSelected ==
    ASSUME Edit!Inv, NEW w \in Workers, NEW patch \in Edit!Patches, Edit!Select(w, patch)
    PROVE  Edit!Inv'
  <1> DEFINE j == [pc |-> "write", patch |-> patch, copy |-> x2, version |-> x3,
                   stale |-> FALSE]
  <1>1. /\ x2 # Edit!NoRow /\ job' = [job EXCEPT ![w] = j]
        /\ x1' = x1 /\ x2' = x2 /\ x3' = x3 /\ x4' = x4 /\ x5' = x5
    BY DEF Edit!Select
  <1>2. j \in EditJobs /\ j.copy = x2 /\ j.version = x3 /\ ~j.stale
    BY EditTypes DEF Edit!Inv, EditJobs
  <1> HIDE DEF j
  <1> QED
    BY <1>1, <1>2, EditGoto

\* A request that ends without an edit.
LEMMA EditAnswered ==
    ASSUME Edit!Inv, NEW w \in Workers, Edit!Answer(w), x1' = x1
    PROVE  Edit!Inv'
  BY EditGoto DEF Edit!Answer

\* Every step of the edits keeps their invariant.
LEMMA EditNext == Edit!Inv /\ [Edit!Next]_(Edit!vars) => Edit!Inv'
  <1> SUFFICES ASSUME Edit!Inv, [Edit!Next]_(Edit!vars) PROVE Edit!Inv'
    OBVIOUS
  <1>1. ASSUME NEW w \in Workers, Edit!WriteBack(w)
        PROVE  Edit!Inv'
    <2>1. x1 # "delivery" /\ job[w].pc = "write" /\ x1' = x1
      BY <1>1 DEF Edit!WriteBack
    <2>2. CASE job[w].copy = Edit!NoRow
      BY <1>1, <2>1, <2>2, EditAnswered DEF Edit!WriteBack
    <2>3. CASE job[w].copy # Edit!NoRow
      BY <1>1, <2>1, <2>3, EditWritten DEF Edit!WriteBack
    <2> QED
      BY <2>2, <2>3
  <1>2. ASSUME NEW w \in Workers, Edit!UpdateDelivery(w)
        PROVE  Edit!Inv'
    <2>1. x1 = "delivery" /\ job[w].pc = "write" /\ x1' = x1
      BY <1>2 DEF Edit!UpdateDelivery
    <2>2. CASE x3 = job[w].version
      <3>1. job[w].copy # Edit!NoRow
        BY <2>1 DEF Edit!Inv, Edit!VersionsTell
      <3> QED
        BY <1>2, <2>1, <2>2, <3>1, EditWritten
           DEF Edit!UpdateDelivery, Edit!VersionMatches
    <2>3. CASE x3 # job[w].version
      BY <1>2, <2>1, <2>3, EditAnswered DEF Edit!UpdateDelivery, Edit!VersionMatches
    <2> QED
      BY <2>2, <2>3
  <1>3. ASSUME NEW w \in Workers, Edit!Fail(w)
        PROVE  Edit!Inv'
    BY <1>3, EditAnswered DEF Edit!Fail
  <1>4. ASSUME NEW w \in Workers,
               \/ Edit!BrandHandlers(w) \/ Edit!AttributeHandlers(w)
               \/ Edit!ProductHandlers(w) \/ Edit!VariantHandlers(w)
               \/ Edit!DiscountHandlers(w)
        PROVE  Edit!Inv'
    <2>1. \/ x1 # "delivery" /\ Edit!DeleteRow
          \/ x1 # "delivery" /\ \E new \in Edit!Rows : Edit!Insert(new)
          \/ \E patch \in Edit!Patches : Edit!Select(w, patch)
      BY <1>4
         DEF Edit!BrandHandlers, Edit!AttributeHandlers, Edit!ProductHandlers,
             Edit!VariantHandlers, Edit!DiscountHandlers, Edit!CreateBrand,
             Edit!createBrandWithSlugRetry, Edit!DeleteBrand, Edit!UpdateBrand,
             Edit!CreateAttribute, Edit!createAttributeWithSlugRetry,
             Edit!DeleteAttribute, Edit!UpdateAttribute, Edit!CreateProduct,
             Edit!DeleteProduct, Edit!UpdateProduct, Edit!CreateVariant,
             Edit!DeleteVariant, Edit!UpdateVariant, Edit!CreateDiscount,
             Edit!DeleteDiscount, Edit!UpdateDiscount
    <2> QED
      BY <2>1, EditDeleted, EditInserted, EditSelected
  <1>5. ASSUME NEW w \in Workers, Edit!DeliveryHandlers(w)
        PROVE  Edit!Inv'
    BY <1>2, <1>5, EditSelected DEF Edit!DeliveryHandlers, Edit!GetDelivery
  <1>6. CASE UNCHANGED Edit!vars
    BY <1>6
       DEF Edit!vars, Edit!Inv, Edit!TypeOK, Edit!NamedIsOfRow, Edit!CopiesAreFresh,
           Edit!VersionsTell, Edit!ConfirmedEditsKept
  <1> QED
    BY <1>1, <1>3, <1>4, <1>5, <1>6 DEF Edit!Next

\* The edit module's invariant always holds.
THEOREM EditSafe == Spec => [](component = "edits" => Edit!Inv)
  <1> DEFINE IInv == component = "edits" => Edit!Inv
  <1>1. Init => IInv
    BY EditInit DEF Init
  <1>2. IInv /\ [Next]_vars => IInv'
    <2> SUFFICES ASSUME IInv, [Next]_vars, component' = "edits"
                 PROVE  Edit!Inv'
      OBVIOUS
    <2>1. component = "edits" /\ [Edit!Next]_(Edit!vars)
      BY DEF Next, vars, Edit!vars
    <2> QED
      BY <2>1, EditNext
  <1> QED
    BY <1>1, <1>2, PTL DEF Spec

\* Whatever edits of one record overlap, a confirmed one stays until the field is
\* named again or an edit that read before it undoes it; in the delivery policy,
\* whose save names the version it was loaded with, none is undone (UpdateBrand
\* and its like, DeliveryRepository.Update).
THEOREM EditsKept == Spec => []ConfirmedEditsKept
  <1> DEFINE IInv == component = "edits" => Edit!Inv
  <1>1. IInv => ConfirmedEditsKept
    BY DEF ConfirmedEditsKept, Edit!Inv
  <1> QED
    BY <1>1, EditSafe, PTL

-----------------------------------------------------------------------------
(* Numbers *)

\* Induction over the natural numbers, for a set of them.
LEMMA NatSetInduction ==
    ASSUME NEW Good, 0 \in Good, \A n \in Nat : n \in Good => n + 1 \in Good
    PROVE  \A n \in Nat : n \in Good
  <1> SUFFICES ASSUME Nat \ Good # {} PROVE FALSE
    OBVIOUS
  <1> DEFINE Bad == Nat \ Good
  <1>1. PICK n \in Bad : \A m \in Bad : n <= m
    <2>1. Bad \subseteq Nat /\ Bad # {}
      OBVIOUS
    <2> HIDE DEF Bad
    <2> QED
      BY <2>1, SmallestExists
  <1>2. n \in Nat /\ n # 0 /\ n \notin Good
    BY <1>1
  <1>3. n - 1 \in Nat /\ n - 1 + 1 = n /\ ~(n <= n - 1)
    BY <1>2
  <1>4. n - 1 \in Good
    BY <1>1, <1>3
  <1> QED
    BY <1>2, <1>3, <1>4

-----------------------------------------------------------------------------
(* Categories: parent is x1, closure x2, overlap x3 *)

CategoryParents == [Four -> Four \cup {Category!Top, Category!None}]

\* What IsTree says of the paths, length by length.
AreTriples(clo) == \A row \in clo : \E a \in Four, c \in Four, n \in Nat : row = <<a, c, n>>

EndsExist(par, clo) ==
    \A a, c, n : <<a, c, n>> \in clo =>
        a \in Four /\ c \in Four /\ n \in Nat
        /\ par[a] # Category!None /\ par[c] # Category!None

EmptyPaths(par, clo) ==
    \A a \in Four, c \in Four : <<a, c, 0>> \in clo <=> a = c /\ par[c] # Category!None

LongerPaths(par, clo) ==
    \A a \in Four, c \in Four, n \in Nat :
        <<a, c, n + 1>> \in clo <=> par[c] \in Four /\ <<a, par[c], n>> \in clo

OneLength(clo) == \A a, c, m, n : <<a, c, m>> \in clo /\ <<a, c, n>> \in clo => m = n

\* The tables of a forest's paths: triples of categories that exist, every empty path,
\* every longer path by one step up, and one length for every pair.
LEMMA TreePaths ==
    ASSUME NEW par \in CategoryParents, NEW clo, Category!IsTree(par, clo)
    PROVE  /\ AreTriples(clo) /\ EndsExist(par, clo) /\ EmptyPaths(par, clo)
           /\ LongerPaths(par, clo) /\ OneLength(clo)
  <1> USE DEF Category!IsTree, Category!Rows, Category!Key
  <1>1. \A row \in clo : \E a \in Four, c \in Four, n \in Nat : row = <<a, c, n>>
    OBVIOUS
  <1>2. \A a, c, n : <<a, c, n>> \in clo =>
           /\ a \in Four /\ c \in Four /\ n \in Nat
           /\ par[a] # Category!None /\ par[c] # Category!None
           /\ n = 0 => a = c
           /\ n > 0 => par[c] \in Four /\ <<a, par[c], n - 1>> \in clo
           /\ \A d \in Four : par[d] = c => <<a, d, n + 1>> \in clo
    <2> SUFFICES ASSUME NEW a, NEW c, NEW n, <<a, c, n>> \in clo
                 PROVE  /\ a \in Four /\ c \in Four /\ n \in Nat
                        /\ par[a] # Category!None /\ par[c] # Category!None
                        /\ n = 0 => a = c
                        /\ n > 0 => par[c] \in Four /\ <<a, par[c], n - 1>> \in clo
                        /\ \A d \in Four : par[d] = c => <<a, d, n + 1>> \in clo
      OBVIOUS
    <2> DEFINE row == <<a, c, n>>
    <2>1. row[1] = a /\ row[2] = c /\ row[3] = n /\ row \in clo
      OBVIOUS
    <2> HIDE DEF row
    <2> QED
      BY <2>1
  <1>3. \A a \in Four, c \in Four :
           <<a, c, 0>> \in clo <=> a = c /\ par[c] # Category!None
    BY <1>2
  <1>4. ASSUME NEW a \in Four, NEW c \in Four, NEW n \in Nat
        PROVE  <<a, c, n + 1>> \in clo <=> par[c] \in Four /\ <<a, par[c], n>> \in clo
    <2>1. n + 1 > 0 /\ n + 1 - 1 = n
      OBVIOUS
    <2>2. <<a, c, n + 1>> \in clo => par[c] \in Four /\ <<a, par[c], n + 1 - 1>> \in clo
      BY <1>2, <2>1
    <2>3. par[c] \in Four /\ <<a, par[c], n>> \in clo => <<a, c, n + 1>> \in clo
      BY <1>2
    <2> QED
      BY <2>1, <2>2, <2>3
  <1>5. ASSUME NEW a, NEW c, NEW m, NEW n, <<a, c, m>> \in clo, <<a, c, n>> \in clo
        PROVE  m = n
    <2>1. Category!Key(<<a, c, m>>) = Category!Key(<<a, c, n>>)
      OBVIOUS
    <2> QED
      BY <1>5, <2>1
  <1> QED
    <2>1. EndsExist(par, clo)
      BY <1>2 DEF EndsExist
    <2>2. OneLength(clo)
      BY <1>5, Zenon DEF OneLength
    <2> QED
      BY <1>1, <1>3, <1>4, <2>1, <2>2 DEF AreTriples, EmptyPaths, LongerPaths

\* The converse.
LEMMA PathsTree ==
    ASSUME NEW par \in CategoryParents, NEW clo,
           \A c \in Four : par[c] \in Four => par[par[c]] # Category!None,
           AreTriples(clo), EndsExist(par, clo), EmptyPaths(par, clo),
           LongerPaths(par, clo), OneLength(clo)
    PROVE  Category!IsTree(par, clo)
  <1>1. clo \subseteq Category!Rows
    BY DEF Category!Rows, AreTriples
  <1>2. \A c \in Four : par[c] # Category!None => <<c, c, 0>> \in clo
    BY DEF EmptyPaths
  <1>3. ASSUME NEW row \in clo
        PROVE  /\ par[row[1]] # Category!None /\ par[row[2]] # Category!None
               /\ row[3] = 0 => row[1] = row[2]
               /\ row[3] > 0 => par[row[2]] \in Four /\ <<row[1], par[row[2]], row[3] - 1>> \in clo
               /\ \A c \in Four : par[c] = row[2] => <<row[1], c, row[3] + 1>> \in clo
    <2>1. PICK a \in Four, c \in Four, n \in Nat : row = <<a, c, n>>
      BY DEF AreTriples
    <2>2. n > 0 => n - 1 \in Nat /\ n - 1 + 1 = n
      OBVIOUS
    <2>3. n > 0 => par[c] \in Four /\ <<a, par[c], n - 1>> \in clo
      BY <2>1, <2>2 DEF LongerPaths
    <2>4. \A d \in Four : par[d] = c => <<a, d, n + 1>> \in clo
      BY <2>1 DEF LongerPaths
    <2>5. n = 0 => a = c
      BY <2>1 DEF EmptyPaths
    <2>6. par[a] # Category!None /\ par[c] # Category!None
      BY <2>1 DEF EndsExist
    <2> QED
      BY <2>1, <2>3, <2>4, <2>5, <2>6
  <1>4. ASSUME NEW row1 \in clo, NEW row2 \in clo, Category!Key(row1) = Category!Key(row2)
        PROVE  row1 = row2
    <2>1. PICK a \in Four, c \in Four, n \in Nat : row1 = <<a, c, n>>
      BY DEF AreTriples
    <2>2. PICK b \in Four, d \in Four, m \in Nat : row2 = <<b, d, m>>
      BY DEF AreTriples
    <2>3. a = b /\ c = d
      BY <1>4, <2>1, <2>2 DEF Category!Key
    <2> QED
      BY <2>1, <2>2, <2>3 DEF OneLength
  <1> QED
    BY <1>1, <1>2, <1>3, <1>4 DEF Category!IsTree

\* A new row is a leaf below its parent (INSERT branch of the trigger).
LEMMA TreeInsert ==
    ASSUME x1 \in CategoryParents, NEW c \in Four, NEW p \in Four \cup {Category!Top},
           x1[c] = Category!None, p \in Four => x1[p] # Category!None,
           Category!IsTree(x1, x2)
    PROVE  Category!IsTree([x1 EXCEPT ![c] = p], x2 \cup Category!closureOfNew(c, p))
  <1> DEFINE par == [x1 EXCEPT ![c] = p]
             new == Category!closureOfNew(c, p)
             clo == x2 \cup new
  <1>0. "top" \notin Four /\ "none" \notin Four /\ Category!Top = "top" /\ Category!None = "none"
    BY ServicesAssumption DEF Category!Top, Category!None
  <1>1. /\ AreTriples(x2) /\ EndsExist(x1, x2) /\ EmptyPaths(x1, x2)
        /\ LongerPaths(x1, x2) /\ OneLength(x2)
    BY TreePaths
  <1>2. \A row : row \in new <=> \/ row = <<c, c, 0>>
                                 \/ \E a \in Four, n \in Nat :
                                       <<a, p, n>> \in x2 /\ row = <<a, c, n + 1>>
    <2>1. ASSUME NEW row \in new, row # <<c, c, 0>>
          PROVE  \E a \in Four, n \in Nat : <<a, p, n>> \in x2 /\ row = <<a, c, n + 1>>
      <3>1. PICK r \in x2 : r[2] = p /\ row = <<r[1], c, r[3] + 1>>
        BY <2>1 DEF Category!closureOfNew
      <3>2. PICK a \in Four, d \in Four, n \in Nat : r = <<a, d, n>>
        BY <1>1 DEF AreTriples
      <3> QED
        BY <3>1, <3>2
    <2>2. ASSUME NEW a \in Four, NEW n \in Nat, <<a, p, n>> \in x2
          PROVE  <<a, c, n + 1>> \in new
      <3> DEFINE r == <<a, p, n>>
      <3>1. r \in x2 /\ r[2] = p /\ <<a, c, n + 1>> = <<r[1], c, r[3] + 1>>
        BY <2>2
      <3> HIDE DEF r
      <3> QED
        BY <3>1 DEF Category!closureOfNew
    <2>3. <<c, c, 0>> \in new
      BY DEF Category!closureOfNew
    <2> QED
      BY <2>1, <2>2, <2>3
  <1> HIDE DEF new
  <1>3. par \in CategoryParents /\ \A d \in Four : par[d] = IF d = c THEN p ELSE x1[d]
    BY DEF CategoryParents
  <1> HIDE DEF par
  \* No path of the old forest ends or begins at c
  <1>4. \A a, d, n : <<a, d, n>> \in x2 => a # c /\ d # c
    BY <1>1 DEF EndsExist
  <1>5. \A d \in Four : d # c /\ x1[d] \in Four => x1[d] # c /\ x1[x1[d]] # Category!None
    BY DEF Category!IsTree
  <1>6. ASSUME NEW a, NEW d, NEW n
        PROVE  <<a, d, n>> \in clo <=>
                  \/ <<a, d, n>> \in x2
                  \/ d = c /\ a = c /\ n = 0
                  \/ d = c /\ \E m \in Nat : <<a, p, m>> \in x2 /\ n = m + 1
    <2>1. <<a, p, n>> \in x2 => a \in Four
      BY <1>1 DEF EndsExist
    <2>2. <<a, d, n>> \in new <=>
             \/ d = c /\ a = c /\ n = 0
             \/ d = c /\ \E m \in Nat : a \in Four /\ <<a, p, m>> \in x2 /\ n = m + 1
      <3>1. <<a, d, n>> = <<c, c, 0>> <=> a = c /\ d = c /\ n = 0
        OBVIOUS
      <3>2. \A b, m : <<a, d, n>> = <<b, c, m + 1>> <=> a = b /\ d = c /\ n = m + 1
        OBVIOUS
      <3> QED
        BY <1>2, <3>1, <3>2
    <2>3. \A m : <<a, p, m>> \in x2 => a \in Four
      BY <1>1 DEF EndsExist
    <2> QED
      BY <2>2, <2>3
  <1>7. AreTriples(clo)
    <2> SUFFICES ASSUME NEW row \in clo
                 PROVE  \E a \in Four, d \in Four, n \in Nat : row = <<a, d, n>>
      BY DEF AreTriples
    <2>1. CASE row \in x2
      BY <1>1, <2>1 DEF AreTriples
    <2>2. CASE row \in new
      <3>1. CASE row = <<c, c, 0>>
        BY <3>1
      <3>2. ASSUME NEW a \in Four, NEW n \in Nat, row = <<a, c, n + 1>>
            PROVE  \E b \in Four, d \in Four, m \in Nat : row = <<b, d, m>>
        <4>1. n + 1 \in Nat
          OBVIOUS
        <4> QED
          BY <3>2, <4>1
      <3> QED
        BY <1>2, <2>2, <3>1, <3>2
    <2> QED
      BY <2>1, <2>2
  <1> HIDE DEF clo
  <1>8. \A d \in Four : par[d] \in Four => par[par[d]] # Category!None
    BY <1>0, <1>3, <1>5
  <1>9. EndsExist(par, clo)
    <2> SUFFICES ASSUME NEW a, NEW d, NEW n, <<a, d, n>> \in clo
                 PROVE  a \in Four /\ d \in Four /\ n \in Nat
                        /\ par[a] # Category!None /\ par[d] # Category!None
      BY DEF EndsExist
    <2>1. CASE <<a, d, n>> \in x2
      BY <1>1, <1>3, <1>4, <2>1 DEF EndsExist
    <2>2. CASE d = c /\ a = c /\ n = 0
      BY <1>0, <1>3, <2>2
    <2>3. ASSUME d = c, NEW m \in Nat, <<a, p, m>> \in x2, n = m + 1
          PROVE  a \in Four /\ d \in Four /\ n \in Nat
                 /\ par[a] # Category!None /\ par[d] # Category!None
      BY <1>0, <1>1, <1>3, <1>4, <2>3 DEF EndsExist
    <2> QED
      BY <1>6, <2>1, <2>2, <2>3
  <1>10. EmptyPaths(par, clo)
    <2> SUFFICES ASSUME NEW a \in Four, NEW d \in Four
                 PROVE  <<a, d, 0>> \in clo <=> a = d /\ par[d] # Category!None
      BY DEF EmptyPaths
    <2>1. <<a, d, 0>> \in clo <=> <<a, d, 0>> \in x2 \/ (d = c /\ a = c)
      <3>1. \A m \in Nat : 0 # m + 1
        OBVIOUS
      <3> QED
        BY <1>6, <3>1
    <2>2. <<a, d, 0>> \in x2 <=> a = d /\ x1[d] # Category!None
      BY <1>1 DEF EmptyPaths
    <2> QED
      BY <1>0, <1>3, <2>1, <2>2
  <1>11. ASSUME NEW a \in Four, NEW d \in Four, NEW n \in Nat
         PROVE  <<a, d, n + 1>> \in clo <=> par[d] \in Four /\ <<a, par[d], n>> \in clo
    <2>1. CASE d # c
      <3>1. par[d] = x1[d] /\ (par[d] \in Four => par[d] # c)
        BY <1>0, <1>3, <1>5, <2>1
      <3>2. <<a, d, n + 1>> \in clo <=> <<a, d, n + 1>> \in x2
        BY <1>6, <2>1
      <3>3. par[d] # c => (<<a, par[d], n>> \in clo <=> <<a, par[d], n>> \in x2)
        BY <1>6
      <3>4. <<a, d, n + 1>> \in x2 <=> x1[d] \in Four /\ <<a, x1[d], n>> \in x2
        BY <1>1 DEF LongerPaths
      <3> QED
        BY <3>1, <3>2, <3>3, <3>4
    <2>2. CASE d = c
      <3>1. par[d] = p /\ p # c
        BY <1>0, <1>3, <2>2
      <3>2. <<a, d, n + 1>> \in clo <=> \E m \in Nat : <<a, p, m>> \in x2 /\ n + 1 = m + 1
        <4>1. <<a, d, n + 1>> \notin x2 /\ n + 1 # 0
          BY <1>4, <2>2
        <4> QED
          BY <1>6, <2>2, <4>1
      <3>3. \A m \in Nat : n + 1 = m + 1 <=> m = n
        OBVIOUS
      <3>4. <<a, p, n>> \in clo <=> <<a, p, n>> \in x2
        BY <1>6, <3>1
      <3>5. <<a, p, n>> \in x2 => p \in Four
        BY <1>1 DEF EndsExist
      <3> QED
        BY <3>1, <3>2, <3>3, <3>4, <3>5
    <2> QED
      BY <2>1, <2>2
  <1>12. OneLength(clo)
    <2> SUFFICES ASSUME NEW a, NEW d, NEW m, NEW n, <<a, d, m>> \in clo, <<a, d, n>> \in clo
                 PROVE  m = n
      BY DEF OneLength
    <2>1. CASE d # c
      BY <1>1, <1>6, <2>1 DEF OneLength
    <2>2. CASE d = c
      <3>1. \A l : <<a, d, l>> \in clo =>
               \/ a = c /\ l = 0
               \/ a # c /\ \E k \in Nat : <<a, p, k>> \in x2 /\ l = k + 1
        BY <1>4, <1>6, <2>2
      <3> QED
        <4>1. CASE a = c
          BY <3>1, <4>1
        <4>2. CASE a # c
          <5>1. PICK k \in Nat : <<a, p, k>> \in x2 /\ m = k + 1
            BY <3>1, <4>2
          <5>2. PICK l \in Nat : <<a, p, l>> \in x2 /\ n = l + 1
            BY <3>1, <4>2
          <5>3. k = l
            BY <1>1, <5>1, <5>2 DEF OneLength
          <5> QED
            BY <5>1, <5>2, <5>3
        <4> QED
          BY <4>1, <4>2
    <2> QED
      BY <2>1, <2>2
  <1>13. Category!IsTree(par, clo)
    BY <1>3, <1>7, <1>8, <1>9, <1>10, <1>11, <1>12, PathsTree DEF LongerPaths
  <1> QED
    BY <1>13 DEF par, clo, new

\* A leaf goes with the paths that end at it (ON DELETE CASCADE).
LEMMA TreeDelete ==
    ASSUME x1 \in CategoryParents, NEW c \in Four, \A d \in Four : x1[d] # c,
           Category!IsTree(x1, x2)
    PROVE  Category!IsTree([x1 EXCEPT ![c] = Category!None],
                           {row \in x2 : row[1] # c /\ row[2] # c})
  <1> DEFINE par == [x1 EXCEPT ![c] = Category!None]
             clo == {row \in x2 : row[1] # c /\ row[2] # c}
  <1>0. Category!None \notin Four
    BY ServicesAssumption DEF Category!None
  <1>1. /\ AreTriples(x2) /\ EndsExist(x1, x2) /\ EmptyPaths(x1, x2)
        /\ LongerPaths(x1, x2) /\ OneLength(x2)
    BY TreePaths
  <1>2. par \in CategoryParents
        /\ \A d \in Four : par[d] = IF d = c THEN Category!None ELSE x1[d]
    BY DEF CategoryParents
  <1>3. \A a, d, n : <<a, d, n>> \in clo <=> <<a, d, n>> \in x2 /\ a # c /\ d # c
    <2> SUFFICES ASSUME NEW a, NEW d, NEW n
                 PROVE  <<a, d, n>> \in clo <=> <<a, d, n>> \in x2 /\ a # c /\ d # c
      OBVIOUS
    <2> DEFINE row == <<a, d, n>>
    <2>1. row[1] = a /\ row[2] = d
      OBVIOUS
    <2> HIDE DEF row
    <2>2. row \in clo <=> row \in x2 /\ a # c /\ d # c
      BY <2>1
    <2> QED
      BY <2>2 DEF row
  <1>4. AreTriples(clo)
    BY <1>1 DEF AreTriples
  <1> HIDE DEF clo, par
  <1>5. \A d \in Four : par[d] \in Four => par[par[d]] # Category!None
    BY <1>0, <1>2 DEF Category!IsTree
  <1>6. EndsExist(par, clo)
    <2> SUFFICES ASSUME NEW a, NEW d, NEW n, <<a, d, n>> \in clo
                 PROVE  a \in Four /\ d \in Four /\ n \in Nat
                        /\ par[a] # Category!None /\ par[d] # Category!None
      BY DEF EndsExist
    <2> QED
      BY <1>1, <1>2, <1>3 DEF EndsExist
  <1>7. EmptyPaths(par, clo)
    <2> SUFFICES ASSUME NEW a \in Four, NEW d \in Four
                 PROVE  <<a, d, 0>> \in clo <=> a = d /\ par[d] # Category!None
      BY DEF EmptyPaths
    <2>1. <<a, d, 0>> \in x2 <=> a = d /\ x1[d] # Category!None
      BY <1>1 DEF EmptyPaths
    <2> QED
      BY <1>2, <1>3, <2>1
  <1>8. LongerPaths(par, clo)
    <2> SUFFICES ASSUME NEW a \in Four, NEW d \in Four, NEW n \in Nat
                 PROVE  <<a, d, n + 1>> \in clo <=> par[d] \in Four /\ <<a, par[d], n>> \in clo
      BY DEF LongerPaths
    <2>1. <<a, d, n + 1>> \in x2 <=> x1[d] \in Four /\ <<a, x1[d], n>> \in x2
      BY <1>1 DEF LongerPaths
    <2>2. x1[d] # c
      OBVIOUS
    <2>3. d # c => par[d] = x1[d]
      BY <1>2
    <2>4. d = c => par[d] = Category!None
      BY <1>2
    <2> QED
      BY <1>0, <1>3, <2>1, <2>2, <2>3, <2>4
  <1>9. OneLength(clo)
    <2> SUFFICES ASSUME NEW a, NEW d, NEW m, NEW n, <<a, d, m>> \in clo, <<a, d, n>> \in clo
                 PROVE  m = n
      BY DEF OneLength
    <2> QED
      BY <1>1, <1>3 DEF OneLength
  <1>10. Category!IsTree(par, clo)
    BY <1>2, <1>4, <1>5, <1>6, <1>7, <1>8, <1>9, PathsTree
  <1> QED
    BY <1>10 DEF par, clo

\* The categories below c.
LEMMA BelowIs ==
    ASSUME x1 \in CategoryParents, Category!IsTree(x1, x2), NEW c \in Four
    PROVE  \A x : x \in Category!Below(c) <=> \E n \in Nat : <<c, x, n>> \in x2
  <1>1. AreTriples(x2)
    BY TreePaths
  <1>2. ASSUME NEW x \in Category!Below(c) PROVE \E n \in Nat : <<c, x, n>> \in x2
    <2>1. PICK r \in x2 : r[1] = c /\ r[2] = x
      BY <1>2 DEF Category!Below
    <2>2. PICK a \in Four, d \in Four, n \in Nat : r = <<a, d, n>>
      BY <1>1 DEF AreTriples
    <2> QED
      BY <2>1, <2>2
  <1>3. ASSUME NEW x, NEW n, <<c, x, n>> \in x2 PROVE x \in Category!Below(c)
    <2> DEFINE r == <<c, x, n>>
    <2>1. r \in x2 /\ r[1] = c /\ r[2] = x
      BY <1>3
    <2> HIDE DEF r
    <2> QED
      BY <2>1 DEF Category!Below
  <1> QED
    BY <1>2, <1>3

\* What is below something below c is below c.
LEMMA BelowBelow ==
    ASSUME x1 \in CategoryParents, Category!IsTree(x1, x2), NEW c \in Four,
           NEW b \in Category!Below(c), NEW d, NEW k, <<b, d, k>> \in x2
    PROVE  d \in Category!Below(c)
  <1> DEFINE B == Category!Below(c)
             Good == {n \in Nat : \A x : <<b, x, n>> \in x2 => x \in B}
  <1>1. /\ EndsExist(x1, x2) /\ EmptyPaths(x1, x2) /\ LongerPaths(x1, x2)
    BY TreePaths
  <1>2. \A x : x \in B <=> \E n \in Nat : <<c, x, n>> \in x2
    BY BelowIs
  <1>0. b \in B
    OBVIOUS
  <1> HIDE DEF B
  <1>3. 0 \in Good
    BY <1>0, <1>1 DEF EndsExist, EmptyPaths
  <1>4. ASSUME NEW n \in Nat, n \in Good PROVE n + 1 \in Good
    <2> SUFFICES ASSUME NEW x, <<b, x, n + 1>> \in x2 PROVE x \in B
      OBVIOUS
    <2>1. b \in Four /\ x \in Four
      BY <1>1 DEF EndsExist
    <2>2. x1[x] \in Four /\ <<b, x1[x], n>> \in x2
      BY <1>1, <2>1 DEF LongerPaths
    <2>3. PICK m \in Nat : <<c, x1[x], m>> \in x2
      BY <1>2, <1>4, <2>2
    <2>4. <<c, x, m + 1>> \in x2
      BY <1>1, <2>1, <2>2, <2>3 DEF LongerPaths
    <2> QED
      BY <1>2, <2>4
  <1>5. k \in Nat
    BY <1>1 DEF EndsExist
  <1>6. k \in Good
    <2> HIDE DEF Good
    <2> QED
      BY <1>3, <1>4, <1>5, NatSetInduction
  <1> QED
    BY <1>6 DEF B

\* The rows of a path that moving c below p makes (UPDATE branch of the trigger).
LEMMA CutIs ==
    ASSUME x1 \in CategoryParents, Category!IsTree(x1, x2), NEW c \in Four
    PROVE  \A a, d, n : <<a, d, n>> \in x2 \ Category!closureCut(c) <=>
              <<a, d, n>> \in x2 /\ (d \in Category!Below(c) => a \in Category!Below(c))
  <1> SUFFICES ASSUME NEW a, NEW d, NEW n
               PROVE  <<a, d, n>> \in x2 \ Category!closureCut(c) <=>
                         <<a, d, n>> \in x2
                         /\ (d \in Category!Below(c) => a \in Category!Below(c))
    OBVIOUS
  <1> DEFINE row == <<a, d, n>>
  <1>1. row[1] = a /\ row[2] = d
    OBVIOUS
  <1> HIDE DEF row
  <1>2. row \in x2 \ Category!closureCut(c) <=>
           row \in x2 /\ (d \in Category!Below(c) => a \in Category!Below(c))
    BY <1>1 DEF Category!closureCut
  <1> QED
    BY <1>2 DEF row

\* A path to p in clo, and one from c, that moving c below p makes one of.
GoesOn(clo, c, p, a, d, n) ==
    \E k \in Nat, l \in Nat :
        <<a, p, k>> \in clo /\ <<c, d, l>> \in clo /\ n = k + l + 1

\* The rows of the trigger's second INSERT go from what is above p to what is below c.
LEMMA JoinedIs ==
    ASSUME x1 \in CategoryParents, Category!IsTree(x1, x2), NEW c \in Four, NEW p \in Four
    PROVE  /\ AreTriples(Category!closureJoined(c, p))
           /\ \A a, d, n : <<a, d, n>> \in Category!closureJoined(c, p) <=>
                 GoesOn(x2 \ Category!closureCut(c), c, p, a, d, n)
  <1> DEFINE kept == x2 \ Category!closureCut(c)
             J == Category!closureJoined(c, p)
  <1>0. AreTriples(kept) /\ EndsExist(x1, x2)
    BY TreePaths DEF AreTriples
  <1>1. ASSUME NEW row \in J
        PROVE  \E a \in Four, d \in Four, k \in Nat, l \in Nat :
                  /\ <<a, p, k>> \in kept /\ <<c, d, l>> \in kept
                  /\ row = <<a, d, k + l + 1>>
    <2>1. PICK pair \in {r \in kept : r[2] = p} \X {r \in kept : r[1] = c} :
                  row = <<pair[1][1], pair[2][2], pair[1][3] + pair[2][3] + 1>>
      BY <1>1 DEF Category!closureJoined
    <2>2. pair[1] \in kept /\ pair[1][2] = p /\ pair[2] \in kept /\ pair[2][1] = c
      BY <2>1
    <2>3. PICK a \in Four, b \in Four, k \in Nat : pair[1] = <<a, b, k>>
      BY <1>0, <2>2 DEF AreTriples
    <2>4. PICK e \in Four, d \in Four, l \in Nat : pair[2] = <<e, d, l>>
      BY <1>0, <2>2 DEF AreTriples
    <2>5. b = p /\ e = c /\ row = <<a, d, k + l + 1>>
      BY <2>1, <2>2, <2>3, <2>4
    <2> QED
      BY <2>2, <2>3, <2>4, <2>5
  <1>2. ASSUME NEW a, NEW d, NEW k \in Nat, NEW l \in Nat,
               <<a, p, k>> \in kept, <<c, d, l>> \in kept
        PROVE  <<a, d, k + l + 1>> \in J
    <2> DEFINE r1 == <<a, p, k>>
               r2 == <<c, d, l>>
               pair == <<r1, r2>>
    <2>1. /\ r1 \in kept /\ r1[1] = a /\ r1[2] = p /\ r1[3] = k
          /\ r2 \in kept /\ r2[1] = c /\ r2[2] = d /\ r2[3] = l
      BY <1>2
    <2> HIDE DEF r1, r2, kept
    <2>2. pair \in {r \in kept : r[2] = p} \X {r \in kept : r[1] = c}
      BY <2>1
    <2>3. pair[1] = r1 /\ pair[2] = r2
      OBVIOUS
    <2> HIDE DEF pair
    <2>4. <<a, d, k + l + 1>> = <<pair[1][1], pair[2][2], pair[1][3] + pair[2][3] + 1>>
      BY <2>1, <2>3
    <2> QED
      BY <2>2, <2>4 DEF Category!closureJoined, kept
  <1> HIDE DEF J, kept
  <1>3. AreTriples(J)
    <2> SUFFICES ASSUME NEW row \in J
                 PROVE  \E a \in Four, d \in Four, n \in Nat : row = <<a, d, n>>
      BY DEF AreTriples
    <2>1. PICK a \in Four, d \in Four, k \in Nat, l \in Nat :
                  /\ <<a, p, k>> \in kept /\ <<c, d, l>> \in kept
                  /\ row = <<a, d, k + l + 1>>
      BY <1>1, Zenon
    <2>2. k + l + 1 \in Nat
      OBVIOUS
    <2> QED
      BY <2>1, <2>2
  <1>4. ASSUME NEW a, NEW d, NEW n, <<a, d, n>> \in J
        PROVE  GoesOn(kept, c, p, a, d, n)
    <2>1. PICK b \in Four, e \in Four, k \in Nat, l \in Nat :
                  /\ <<b, p, k>> \in kept /\ <<c, e, l>> \in kept
                  /\ <<a, d, n>> = <<b, e, k + l + 1>>
      BY <1>1, <1>4
    <2>2. a = b /\ d = e /\ n = k + l + 1
      BY <2>1
    <2> QED
      BY <2>1, <2>2 DEF GoesOn
  <1>5. ASSUME NEW a, NEW d, NEW n, GoesOn(kept, c, p, a, d, n) PROVE <<a, d, n>> \in J
    <2>1. PICK k \in Nat, l \in Nat :
                  <<a, p, k>> \in kept /\ <<c, d, l>> \in kept /\ n = k + l + 1
      BY <1>5 DEF GoesOn
    <2>2. <<a, d, k + l + 1>> \in J
      BY <1>2, <2>1
    <2> QED
      BY <2>1, <2>2, Zenon
  <1>6. \A a, d, n : <<a, d, n>> \in J <=> GoesOn(kept, c, p, a, d, n)
    BY <1>4, <1>5, Zenon
  <1> QED
    BY <1>3, <1>6 DEF J, kept

\* The new rows of category_closure as c moves below p.
Joined(c, p) == IF p # Category!Top THEN Category!closureJoined(c, p) ELSE {}

\* What moving c does to the paths: below c only those from below c stay, and
\* the new ones lead from above c to below it.
LEMMA MovedPaths ==
    ASSUME x1 \in CategoryParents, Category!IsTree(x1, x2),
           NEW c \in Four, x1[c] # Category!None, NEW p \in Four \cup {Category!Top},
           Category!KeysFree(x2 \ Category!closureCut(c), Joined(c, p))
    PROVE  /\ AreTriples(Joined(c, p))
           /\ c \in Category!Below(c) /\ p \notin Category!Below(c)
           /\ \A a, d, n : <<a, d, n>> \in Joined(c, p) <=> p \in Four /\ GoesOn(x2, c, p, a, d, n)
           /\ \A a, d, n : <<a, d, n>> \in Joined(c, p) =>
                 a \notin Category!Below(c) /\ d \in Category!Below(c) /\ n # 0
  <1> DEFINE kept == x2 \ Category!closureCut(c)
             B == Category!Below(c)
             joined == Joined(c, p)
  <1>0. Category!Top \notin Four /\ Category!None \notin Four
    BY ServicesAssumption DEF Category!Top, Category!None
  <1>1. /\ AreTriples(x2) /\ EndsExist(x1, x2) /\ EmptyPaths(x1, x2)
        /\ LongerPaths(x1, x2) /\ OneLength(x2)
    BY TreePaths
  <1>2. \A x : x \in B <=> \E n \in Nat : <<c, x, n>> \in x2
    BY BelowIs
  <1>3. \A a, d, n : <<a, d, n>> \in kept <=> <<a, d, n>> \in x2 /\ (d \in B => a \in B)
    BY CutIs
  <1>4. <<c, c, 0>> \in x2 /\ c \in B
    BY <1>1, <1>2 DEF EmptyPaths
  <1>5. \A a \in B : \A d, n : <<a, d, n>> \in x2 => d \in B
    BY BelowBelow
  <1>6. p \in Four => /\ AreTriples(joined)
                      /\ \A a, d, n : <<a, d, n>> \in joined <=> GoesOn(kept, c, p, a, d, n)
    BY <1>0, JoinedIs DEF Joined
  <1>7. p = Category!Top => joined = {}
    BY DEF Joined
  <1> HIDE DEF kept, B, joined
  <1>8. Category!KeysFree(kept, joined)
    BY DEF kept, joined
  <1>9. p \notin B
    <2> SUFFICES ASSUME p \in B PROVE FALSE
      OBVIOUS
    <2>1. PICK k \in Nat : <<c, p, k>> \in x2
      BY <1>2
    <2>2. p \in Four
      BY <1>1, <2>1 DEF EndsExist
    <2>3. <<c, p, k>> \in kept /\ <<c, c, 0>> \in kept
      BY <1>3, <1>4, <2>1
    <2>4. k + 0 + 1 \in Nat /\ 0 \in Nat
      OBVIOUS
    <2>5. GoesOn(kept, c, p, c, c, k + 0 + 1)
      BY <2>3, <2>4 DEF GoesOn
    <2>6. <<c, c, k + 0 + 1>> \in joined
      BY <1>6, <2>2, <2>5
    <2>7. Category!Key(<<c, c, k + 0 + 1>>) = Category!Key(<<c, c, 0>>)
      BY DEF Category!Key
    <2> QED
      BY <1>8, <2>3, <2>6, <2>7 DEF Category!KeysFree
  <1>10. \A a, k : <<a, p, k>> \in x2 => a \notin B
    BY <1>5, <1>9
  <1>11. ASSUME NEW a, NEW d, NEW n
         PROVE  GoesOn(kept, c, p, a, d, n) <=> GoesOn(x2, c, p, a, d, n)
    <2>1. \A k : <<a, p, k>> \in kept <=> <<a, p, k>> \in x2
      BY <1>3, <1>9
    <2>2. \A l : <<c, d, l>> \in kept <=> <<c, d, l>> \in x2
      BY <1>3, <1>4
    <2> QED
      BY <2>1, <2>2, Zenon DEF GoesOn
  <1>12. \A a, d, n : <<a, d, n>> \in joined <=> p \in Four /\ GoesOn(x2, c, p, a, d, n)
    BY <1>0, <1>6, <1>7, <1>11
  <1>13. AreTriples(joined)
    BY <1>6, <1>7 DEF AreTriples
  <1>14. ASSUME NEW a, NEW d, NEW n, <<a, d, n>> \in joined
         PROVE  a \notin B /\ d \in B /\ n # 0
    <2>1. PICK k \in Nat, l \in Nat :
                  <<a, p, k>> \in x2 /\ <<c, d, l>> \in x2 /\ n = k + l + 1
      <3>1. GoesOn(x2, c, p, a, d, n)
        BY <1>12, <1>14, Zenon
      <3> QED
        BY <3>1 DEF GoesOn
    <2>2. k + l + 1 # 0
      OBVIOUS
    <2> QED
      BY <1>2, <1>10, <2>1, <2>2
  <1> QED
    BY <1>4, <1>9, <1>12, <1>13, <1>14 DEF B, joined

\* Moving c below p leaves a forest and its paths (UPDATE branch of the trigger).
LEMMA TreeMove ==
    ASSUME x1 \in CategoryParents, Category!IsTree(x1, x2),
           NEW c \in Four, x1[c] # Category!None, NEW p \in Four \cup {Category!Top},
           p \in Four => x1[p] # Category!None,
           Category!KeysFree(x2 \ Category!closureCut(c), Joined(c, p))
    PROVE  Category!IsTree([x1 EXCEPT ![c] = p], (x2 \ Category!closureCut(c)) \cup Joined(c, p))
  <1> DEFINE kept == x2 \ Category!closureCut(c)
             B == Category!Below(c)
             joined == Joined(c, p)
             par == [x1 EXCEPT ![c] = p]
             clo == kept \cup joined
  <1>0. Category!Top \notin Four /\ Category!None \notin Four /\ Category!Top # Category!None
    BY ServicesAssumption DEF Category!Top, Category!None
  <1>1. /\ AreTriples(x2) /\ EndsExist(x1, x2) /\ EmptyPaths(x1, x2)
        /\ LongerPaths(x1, x2) /\ OneLength(x2)
    BY TreePaths
  <1>2. \A x : x \in B <=> \E n \in Nat : <<c, x, n>> \in x2
    BY BelowIs
  <1>3. \A a, d, n : <<a, d, n>> \in kept <=> <<a, d, n>> \in x2 /\ (d \in B => a \in B)
    BY CutIs
  <1>4. \A a \in B : \A d, n : <<a, d, n>> \in x2 => d \in B
    BY BelowBelow
  <1>5. /\ AreTriples(joined) /\ c \in B /\ p \notin B
        /\ \A a, d, n : <<a, d, n>> \in joined <=> p \in Four /\ GoesOn(x2, c, p, a, d, n)
        /\ \A a, d, n : <<a, d, n>> \in joined => a \notin B /\ d \in B /\ n # 0
    <2>1. /\ AreTriples(Joined(c, p))
          /\ c \in Category!Below(c) /\ p \notin Category!Below(c)
          /\ \A a, d, n : <<a, d, n>> \in Joined(c, p) <=> p \in Four /\ GoesOn(x2, c, p, a, d, n)
          /\ \A a, d, n : <<a, d, n>> \in Joined(c, p) =>
                a \notin Category!Below(c) /\ d \in Category!Below(c) /\ n # 0
      BY MovedPaths
    <2> QED
      BY <2>1, Zenon
  <1>6. AreTriples(kept)
    BY <1>1 DEF AreTriples
  <1>7. par \in CategoryParents /\ \A d \in Four : par[d] = IF d = c THEN p ELSE x1[d]
    BY DEF CategoryParents
  <1>8. \A d \in Four : x1[d] \in Four => x1[x1[d]] # Category!None
    BY DEF Category!IsTree
  <1>9. \A a, d, n : <<a, d, n>> \in clo <=> <<a, d, n>> \in kept \/ <<a, d, n>> \in joined
    OBVIOUS
  <1>10. AreTriples(clo)
    BY <1>5, <1>6 DEF AreTriples
  <1> HIDE DEF kept, B, joined, par, clo
  <1>11. \A d \in Four : par[d] \in Four => par[par[d]] # Category!None
    BY <1>0, <1>5, <1>7, <1>8
  <1>12. ASSUME NEW d \in Four, x1[d] \in Four PROVE x1[d] \in B => d \in B
    <2> SUFFICES ASSUME x1[d] \in B PROVE d \in B
      OBVIOUS
    <2>1. PICK n \in Nat : <<c, x1[d], n>> \in x2
      BY <1>2
    <2>2. <<c, d, n + 1>> \in x2
      BY <1>1, <1>12, <2>1 DEF LongerPaths
    <2> QED
      BY <1>2, <2>2
  <1>13. ASSUME NEW d \in B, d # c PROVE d \in Four /\ x1[d] \in B
    <2>1. PICK n \in Nat : <<c, d, n>> \in x2
      BY <1>2
    <2>2. d \in Four
      BY <1>1, <2>1 DEF EndsExist
    <2>3. n # 0
      BY <1>1, <1>13, <2>1, <2>2 DEF EmptyPaths
    <2>4. n - 1 \in Nat /\ n = n - 1 + 1
      BY <2>3
    <2>5. <<c, x1[d], n - 1>> \in x2
      BY <1>1, <2>1, <2>2, <2>4 DEF LongerPaths
    <2> QED
      BY <1>2, <2>2, <2>4, <2>5
  <1>14. x1[c] \notin B
    <2> SUFFICES ASSUME x1[c] \in B PROVE FALSE
      OBVIOUS
    <2>1. PICK m \in Nat : <<c, x1[c], m>> \in x2
      BY <1>2
    <2>2. x1[c] \in Four
      BY <1>1, <2>1 DEF EndsExist
    <2>3. <<c, c, m + 1>> \in x2
      BY <1>1, <2>1, <2>2 DEF LongerPaths
    <2>4. <<c, c, 0>> \in x2
      BY <1>1 DEF EmptyPaths
    <2>5. m + 1 = 0
      BY <1>1, <2>3, <2>4 DEF OneLength
    <2> QED
      BY <2>5
  <1>15. EndsExist(par, clo)
    <2> SUFFICES ASSUME NEW a, NEW d, NEW n, <<a, d, n>> \in clo
                 PROVE  a \in Four /\ d \in Four /\ n \in Nat
                        /\ par[a] # Category!None /\ par[d] # Category!None
      BY DEF EndsExist
    <2>1. \A x \in Four : x1[x] # Category!None => par[x] # Category!None
      BY <1>0, <1>7
    <2>2. CASE <<a, d, n>> \in kept
      BY <1>1, <1>3, <2>1, <2>2 DEF EndsExist
    <2>3. CASE <<a, d, n>> \in joined
      <3>1. PICK k \in Nat, l \in Nat :
                    <<a, p, k>> \in x2 /\ <<c, d, l>> \in x2 /\ n = k + l + 1
        <4>1. GoesOn(x2, c, p, a, d, n)
          BY <1>5, <2>3, Zenon
        <4> QED
          BY <4>1 DEF GoesOn
      <3>2. n \in Nat
        BY <3>1
      <3> QED
        BY <1>1, <2>1, <3>1, <3>2 DEF EndsExist
    <2> QED
      BY <1>9, <2>2, <2>3
  <1>16. EmptyPaths(par, clo)
    <2> SUFFICES ASSUME NEW a \in Four, NEW d \in Four
                 PROVE  <<a, d, 0>> \in clo <=> a = d /\ par[d] # Category!None
      BY DEF EmptyPaths
    <2>1. <<a, d, 0>> \in x2 <=> a = d /\ x1[d] # Category!None
      BY <1>1 DEF EmptyPaths
    <2>2. par[d] # Category!None <=> x1[d] # Category!None
      BY <1>0, <1>7
    <2>3. <<a, d, 0>> \in clo <=> <<a, d, 0>> \in kept
      BY <1>5, <1>9
    <2> QED
      BY <1>3, <2>1, <2>2, <2>3
  <1>17. ASSUME NEW a \in Four, NEW d \in Four, NEW n \in Nat
         PROVE  <<a, d, n + 1>> \in clo <=> par[d] \in Four /\ <<a, par[d], n>> \in clo
    <2>0. <<a, d, n + 1>> \in x2 <=> x1[d] \in Four /\ <<a, x1[d], n>> \in x2
      BY <1>1 DEF LongerPaths
    <2>1. CASE d \notin B
      <3>1. par[d] = x1[d] /\ (x1[d] \in Four => x1[d] \notin B)
        BY <1>5, <1>7, <1>12, <2>1
      <3>2. <<a, d, n + 1>> \in clo <=> <<a, d, n + 1>> \in x2
        BY <1>3, <1>5, <1>9, <2>1
      <3>3. x1[d] \in Four => (<<a, x1[d], n>> \in clo <=> <<a, x1[d], n>> \in x2)
        BY <1>3, <1>5, <1>9, <3>1
      <3> QED
        BY <2>0, <3>1, <3>2, <3>3
    <2>2. CASE d \in B /\ d # c
      <3>1. par[d] = x1[d] /\ x1[d] \in B
        BY <1>7, <1>13, <2>2
      <3>2. x1[d] \in Four
        BY <1>1, <1>2, <3>1 DEF EndsExist
      <3>3. <<a, d, n + 1>> \in kept <=> <<a, x1[d], n>> \in kept
        BY <1>3, <2>0, <2>2, <3>1, <3>2
      <3>4. ASSUME GoesOn(x2, c, p, a, d, n + 1) PROVE GoesOn(x2, c, p, a, x1[d], n)
        <4>1. PICK k \in Nat, l \in Nat :
                      <<a, p, k>> \in x2 /\ <<c, d, l>> \in x2 /\ n + 1 = k + l + 1
          BY <3>4 DEF GoesOn
        <4>2. l # 0
          BY <1>1, <2>2, <4>1 DEF EmptyPaths
        <4>3. l - 1 \in Nat /\ l = l - 1 + 1 /\ n = k + (l - 1) + 1
          BY <4>1, <4>2
        <4>4. <<c, x1[d], l - 1>> \in x2
          BY <1>1, <4>1, <4>3 DEF LongerPaths
        <4> QED
          BY <4>1, <4>3, <4>4 DEF GoesOn
      <3>5. ASSUME GoesOn(x2, c, p, a, x1[d], n) PROVE GoesOn(x2, c, p, a, d, n + 1)
        <4>1. PICK k \in Nat, l \in Nat :
                      <<a, p, k>> \in x2 /\ <<c, x1[d], l>> \in x2 /\ n = k + l + 1
          BY <3>5 DEF GoesOn
        <4>2. <<c, d, l + 1>> \in x2
          BY <1>1, <3>2, <4>1 DEF LongerPaths
        <4>3. l + 1 \in Nat /\ n + 1 = k + (l + 1) + 1
          BY <4>1
        <4> QED
          BY <4>1, <4>2, <4>3 DEF GoesOn
      <3> QED
        BY <1>5, <1>9, <3>1, <3>2, <3>3, <3>4, <3>5
    <2>3. CASE d = c
      <3>1. <<a, d, n + 1>> \notin kept
        BY <1>3, <1>4, <1>5, <1>14, <2>0, <2>3
      <3>2. par[d] = p
        BY <1>7, <2>3
      <3>3. <<a, p, n>> \in clo <=> <<a, p, n>> \in x2
        BY <1>3, <1>5, <1>9
      <3>4. ASSUME GoesOn(x2, c, p, a, c, n + 1) PROVE <<a, p, n>> \in x2
        <4>1. PICK k \in Nat, l \in Nat :
                      <<a, p, k>> \in x2 /\ <<c, c, l>> \in x2 /\ n + 1 = k + l + 1
          BY <3>4 DEF GoesOn
        <4>2. <<c, c, 0>> \in x2
          BY <1>1 DEF EmptyPaths
        <4>3. l = 0
          BY <1>1, <4>1, <4>2 DEF OneLength
        <4>4. k = n
          BY <4>1, <4>3
        <4> QED
          BY <4>1, <4>4
      <3>5. ASSUME <<a, p, n>> \in x2 PROVE GoesOn(x2, c, p, a, c, n + 1)
        <4>1. <<c, c, 0>> \in x2
          BY <1>1 DEF EmptyPaths
        <4>2. 0 \in Nat /\ n + 1 = n + 0 + 1
          OBVIOUS
        <4> QED
          BY <3>5, <4>1, <4>2 DEF GoesOn
      <3> QED
        BY <1>5, <1>9, <2>3, <3>1, <3>2, <3>3, <3>4, <3>5
    <2> QED
      BY <2>1, <2>2, <2>3
  <1>18. OneLength(clo)
    <2> SUFFICES ASSUME NEW a, NEW d, NEW m, NEW n, <<a, d, m>> \in clo, <<a, d, n>> \in clo
                 PROVE  m = n
      BY DEF OneLength
    <2>1. CASE d \in B /\ a \notin B
      <3>1. <<a, d, m>> \in joined /\ <<a, d, n>> \in joined
        BY <1>3, <1>9, <2>1
      <3>2. PICK k1 \in Nat, l1 \in Nat :
                    <<a, p, k1>> \in x2 /\ <<c, d, l1>> \in x2 /\ m = k1 + l1 + 1
        <4>1. GoesOn(x2, c, p, a, d, m)
          BY <1>5, <3>1, Zenon
        <4> QED
          BY <4>1 DEF GoesOn
      <3>3. PICK k2 \in Nat, l2 \in Nat :
                    <<a, p, k2>> \in x2 /\ <<c, d, l2>> \in x2 /\ n = k2 + l2 + 1
        <4>1. GoesOn(x2, c, p, a, d, n)
          BY <1>5, <3>1, Zenon
        <4> QED
          BY <4>1 DEF GoesOn
      <3>4. k1 = k2 /\ l1 = l2
        BY <1>1, <3>2, <3>3 DEF OneLength
      <3> QED
        BY <3>2, <3>3, <3>4
    <2>2. CASE ~(d \in B /\ a \notin B)
      <3>1. <<a, d, m>> \in x2 /\ <<a, d, n>> \in x2
        BY <1>3, <1>5, <1>9, <2>2
      <3> QED
        BY <1>1, <3>1 DEF OneLength
    <2> QED
      BY <2>1, <2>2
  <1>19. Category!IsTree(par, clo)
    BY <1>7, <1>10, <1>11, <1>15, <1>16, <1>17, <1>18, PathsTree DEF LongerPaths
  <1> QED
    BY <1>19 DEF par, clo, kept, joined

\* One category further up from where g stands.
StepUp(g, n) ==
    [c \in Four |-> IF n = 0 THEN c
                    ELSE LET d == g[n - 1][c] IN IF d \in Four THEN x1[d] ELSE d]

\* The recursive definition of up has a solution.
LEMMA UpExists == ASSUME NEW k \in Nat PROVE \E g : g = [n \in 0..k |-> StepUp(g, n)]
  <1> DEFINE Solves(g, m) == g = [n \in 0..m |-> StepUp(g, n)]
             Good == {m \in Nat : \E g : Solves(g, m)}
  <1>1. ASSUME NEW m \in Nat, NEW g, m > 0 => Solves(g, m - 1)
        PROVE  Solves([n \in 0..m |-> StepUp(g, n)], m)
    <2> DEFINE h == [n \in 0..m |-> StepUp(g, n)]
    <2> SUFFICES ASSUME NEW n \in 0..m PROVE StepUp(g, n) = StepUp(h, n)
      BY Zenon
    <2>1. CASE n = 0
      BY <2>1 DEF StepUp
    <2>2. CASE n # 0
      <3>1. n - 1 \in 0..m /\ n - 1 \in 0..(m - 1) /\ m > 0
        BY <2>2
      <3>2. g[n - 1] = StepUp(g, n - 1)
        BY <1>1, <3>1, Zenon
      <3>3. h[n - 1] = StepUp(g, n - 1)
        BY <3>1, Zenon
      <3>4. g[n - 1] = h[n - 1]
        BY <3>2, <3>3, Zenon
      <3> HIDE DEF h
      <3> QED
        BY <3>4, Zenon DEF StepUp
    <2> QED
      BY <2>1, <2>2
  <1>2. 0 \in Good
    <2>1. 0 \in Nat /\ ~(0 > 0)
      OBVIOUS
    <2> HIDE DEF Solves
    <2>2. Solves([n \in 0..0 |-> StepUp(0, n)], 0)
      BY <1>1, <2>1, Zenon
    <2> QED
      BY <2>1, <2>2, Zenon
  <1>3. ASSUME NEW m \in Nat, m \in Good PROVE m + 1 \in Good
    <2>1. PICK g : Solves(g, m)
      BY <1>3
    <2> DEFINE l == m + 1
    <2>2. l \in Nat /\ l - 1 = m
      OBVIOUS
    <2> HIDE DEF Solves, l
    <2>3. Solves(g, l - 1)
      BY <2>1, <2>2
    <2>4. Solves([n \in 0..l |-> StepUp(g, n)], l)
      BY <1>1, <2>2, <2>3, Zenon
    <2>5. l \in Good
      BY <2>2, <2>4, Zenon
    <2> QED
      BY <2>5 DEF l
  <1>4. k \in Good
    <2> HIDE DEF Good
    <2> QED
      BY <1>2, <1>3, NatSetInduction
  <1> QED
    BY <1>4, Zenon

\* Categories counts with its own copy of the library: the numbers are the same.
LEMMA FourIsFinite == Category!Cardinality(Four) = Cardinality(Four) /\ Cardinality(Four) \in Nat
  <1>1. Cardinality(Four) \in Nat
    BY ServicesAssumption, FS_CardinalityType
  <1>2. Category!Cardinality(Four) = Cardinality(Four)
    BY Zenon DEF Category!Cardinality, Cardinality
  <1> QED
    BY <1>1, <1>2

\* up goes one category up at a time, until there is none.
LEMMA UpSteps ==
    /\ \A c \in Four : Category!up[0][c] = c
    /\ \A n \in Nat : n < Cardinality(Four) =>
          \A c \in Four : Category!up[n + 1][c] =
             IF Category!up[n][c] \in Four THEN x1[Category!up[n][c]] ELSE Category!up[n][c]
  <1> DEFINE k == Cardinality(Four)
  <1>1. k \in Nat /\ Category!Up = 0..k
    BY FourIsFinite DEF Category!Up
  <1> DEFINE f == CHOOSE g : g = [n \in 0..k |-> StepUp(g, n)]
  <1>2. Category!up = f
    BY <1>1, Zenon DEF Category!up, StepUp
  <1>3. f = [n \in 0..k |-> StepUp(f, n)]
    BY <1>1, UpExists, Zenon
  <1> HIDE DEF f, k
  <1>4. \A n \in 0..k : f[n] = StepUp(f, n)
    BY <1>3, Zenon
  <1>5. \A c \in Four : f[0][c] = c
    <2>1. 0 \in 0..k
      BY <1>1
    <2> QED
      BY <1>4, <2>1 DEF StepUp
  <1>6. ASSUME NEW n \in Nat, n < k, NEW c \in Four
        PROVE  f[n + 1][c] = IF f[n][c] \in Four THEN x1[f[n][c]] ELSE f[n][c]
    <2>1. n + 1 \in 0..k /\ n + 1 # 0 /\ n + 1 - 1 = n
      BY <1>1, <1>6
    <2>2. f[n + 1] = StepUp(f, n + 1)
      BY <1>4, <2>1
    <2> QED
      BY <2>1, <2>2 DEF StepUp
  <1> QED
    BY <1>2, <1>5, <1>6 DEF k

\* A path can be lengthened and shortened at its upper end too.
LEMMA UpperEnd ==
    ASSUME x1 \in CategoryParents, Category!IsTree(x1, x2)
    PROVE  \A n \in Nat :
              /\ \A b, c : <<b, c, n>> \in x2 /\ x1[b] \in Four => <<x1[b], c, n + 1>> \in x2
              /\ \A a, c : <<a, c, n + 1>> \in x2 =>
                    \E b \in Four : x1[b] = a /\ <<b, c, n>> \in x2
  <1> DEFINE Longer(n) == \A b, c : <<b, c, n>> \in x2 /\ x1[b] \in Four
                                       => <<x1[b], c, n + 1>> \in x2
             Shorter(n) == \A a, c : <<a, c, n + 1>> \in x2 =>
                              \E b \in Four : x1[b] = a /\ <<b, c, n>> \in x2
             Good == {n \in Nat : Longer(n) /\ Shorter(n)}
  <1>1. EndsExist(x1, x2) /\ EmptyPaths(x1, x2) /\ LongerPaths(x1, x2)
    BY TreePaths
  <1>2. \A d \in Four : x1[d] \in Four => x1[x1[d]] # Category!None
    BY DEF Category!IsTree
  <1>3. \A a, c, n : <<a, c, n>> \in x2 => a \in Four /\ c \in Four /\ n \in Nat
    BY <1>1 DEF EndsExist
  <1>4. Longer(0)
    <2> SUFFICES ASSUME NEW b, NEW c, <<b, c, 0>> \in x2, x1[b] \in Four
                 PROVE  <<x1[b], c, 0 + 1>> \in x2
      BY Zenon
    <2>1. b \in Four /\ c = b
      BY <1>1, <1>3 DEF EmptyPaths
    <2>2. <<x1[b], x1[b], 0>> \in x2
      BY <1>1, <1>2, <2>1 DEF EmptyPaths
    <2> QED
      BY <1>1, <2>1, <2>2 DEF LongerPaths
  <1>5. Shorter(0)
    <2> SUFFICES ASSUME NEW a, NEW c, <<a, c, 0 + 1>> \in x2
                 PROVE  \E b \in Four : x1[b] = a /\ <<b, c, 0>> \in x2
      BY Zenon
    <2>1. a \in Four /\ c \in Four
      BY <1>3
    <2>2. x1[c] \in Four /\ <<a, x1[c], 0>> \in x2
      BY <1>1, <2>1 DEF LongerPaths
    <2>3. a = x1[c]
      BY <1>1, <2>1, <2>2 DEF EmptyPaths
    <2>4. x1[c] # Category!None /\ x1[c] \in Four => <<c, c, 0>> \in x2
      BY <1>1, <2>1 DEF EmptyPaths
    <2>5. x1[c] # Category!None
      BY <2>2, ServicesAssumption DEF Category!None
    <2> QED
      BY <2>1, <2>2, <2>3, <2>4, <2>5
  <1>6. ASSUME NEW n \in Nat, Longer(n) PROVE Longer(n + 1)
    <2> SUFFICES ASSUME NEW b, NEW c, <<b, c, n + 1>> \in x2, x1[b] \in Four
                 PROVE  <<x1[b], c, n + 1 + 1>> \in x2
      BY Zenon
    <2>1. b \in Four /\ c \in Four
      BY <1>3
    <2>2. x1[c] \in Four /\ <<b, x1[c], n>> \in x2
      BY <1>1, <2>1 DEF LongerPaths
    <2>3. <<x1[b], x1[c], n + 1>> \in x2
      BY <1>6, <2>2, Zenon
    <2> QED
      BY <1>1, <2>1, <2>2, <2>3 DEF LongerPaths
  <1>7. ASSUME NEW n \in Nat, Shorter(n) PROVE Shorter(n + 1)
    <2> SUFFICES ASSUME NEW a, NEW c, <<a, c, n + 1 + 1>> \in x2
                 PROVE  \E b \in Four : x1[b] = a /\ <<b, c, n + 1>> \in x2
      BY Zenon
    <2>1. a \in Four /\ c \in Four
      BY <1>3
    <2>2. x1[c] \in Four /\ <<a, x1[c], n + 1>> \in x2
      BY <1>1, <2>1 DEF LongerPaths
    <2>3. PICK b \in Four : x1[b] = a /\ <<b, x1[c], n>> \in x2
      BY <1>7, <2>2, Zenon
    <2>4. <<b, c, n + 1>> \in x2
      BY <1>1, <2>1, <2>2, <2>3 DEF LongerPaths
    <2> QED
      BY <2>3, <2>4
  <1> HIDE DEF Longer, Shorter
  <1>8. 0 \in Good
    BY <1>4, <1>5
  <1>9. \A n \in Nat : n \in Good => n + 1 \in Good
    BY <1>6, <1>7
  <1>10. \A n \in Nat : n \in Good
    <2> HIDE DEF Good
    <2> QED
      BY <1>8, <1>9, NatSetInduction
  <1> QED
    BY <1>10, Zenon DEF Longer, Shorter

\* A path is shorter than there are categories, as none is on it twice.
LEMMA PathsAreShort ==
    ASSUME x1 \in CategoryParents, Category!IsTree(x1, x2), NEW a, NEW c, NEW n,
           <<a, c, n>> \in x2
    PROVE  n \in Nat /\ n < Cardinality(Four)
  <1>1. EndsExist(x1, x2) /\ OneLength(x2)
    BY TreePaths
  <1>2. n \in Nat
    BY <1>1 DEF EndsExist
  <1> DEFINE Good == {k \in Nat : k <= n => \E b \in Four : <<b, c, n - k>> \in x2}
  <1>3. 0 \in Good
    <2>1. n - 0 = n /\ a \in Four
      BY <1>1, <1>2 DEF EndsExist
    <2> QED
      BY <2>1
  <1>4. ASSUME NEW k \in Nat, k \in Good PROVE k + 1 \in Good
    <2> SUFFICES ASSUME k + 1 <= n PROVE \E b \in Four : <<b, c, n - (k + 1)>> \in x2
      OBVIOUS
    <2>1. k <= n /\ n - (k + 1) \in Nat /\ n - (k + 1) + 1 = n - k
      BY <1>2
    <2>2. PICK d \in Four : <<d, c, n - k>> \in x2
      BY <1>4, <2>1
    <2>3. \A m \in Nat : \A e : <<e, c, m + 1>> \in x2 =>
                                  \E b \in Four : <<b, c, m>> \in x2
      BY UpperEnd
    <2> QED
      BY <2>1, <2>2, <2>3
  <1>5. \A k \in Nat : k \in Good
    <2> HIDE DEF Good
    <2> QED
      BY <1>3, <1>4, NatSetInduction
  <1>6. \A m \in 0..n : \E b \in Four : <<b, c, m>> \in x2
    <2> SUFFICES ASSUME NEW m \in 0..n PROVE \E b \in Four : <<b, c, m>> \in x2
      OBVIOUS
    <2>1. n - m \in Nat /\ n - m <= n /\ n - (n - m) = m
      BY <1>2
    <2> QED
      BY <1>5, <2>1
  <1> DEFINE f == [m \in 0..n |-> CHOOSE b \in Four : <<b, c, m>> \in x2]
  <1>7. \A m \in 0..n : f[m] \in Four /\ <<f[m], c, m>> \in x2
    BY <1>6
  <1>8. f \in [0..n -> Four]
    BY <1>7
  <1> HIDE DEF f
  <1>9. \A l, m \in 0..n : f[l] = f[m] => l = m
    BY <1>1, <1>7 DEF OneLength
  <1>10. f \in Injection(0..n, Four)
    BY <1>8, <1>9 DEF Injection, IsInjective
  <1>11. Cardinality(0..n) <= Cardinality(Four)
    BY <1>10, FS_Injection, ServicesAssumption
  <1>12. Cardinality(0..n) = n + 1
    BY <1>2, FS_Interval
  <1>13. Cardinality(Four) \in Nat
    BY FourIsFinite
  <1> QED
    BY <1>2, <1>11, <1>12, <1>13

\* A forest with its paths is what ClosureIsTree asks for.
LEMMA TreeIsRight ==
    ASSUME x1 \in CategoryParents, Category!IsTree(x1, x2) PROVE Category!ClosureIsTree
  <1> DEFINE k == Cardinality(Four)
             U == Category!up
  <1>0. Category!Top \notin Four /\ Category!None \notin Four /\ Category!Top # Category!None
    BY ServicesAssumption DEF Category!Top, Category!None
  <1>1. /\ AreTriples(x2) /\ EndsExist(x1, x2) /\ EmptyPaths(x1, x2)
        /\ LongerPaths(x1, x2) /\ OneLength(x2)
    BY TreePaths
  <1>2. k \in Nat /\ Category!Cardinality(Four) = k
    BY FourIsFinite
  <1>3. \A a, c, n : <<a, c, n>> \in x2 => n \in Nat /\ n < k
    BY PathsAreShort
  <1>4. /\ \A c \in Four : U[0][c] = c
        /\ \A n \in Nat : n < k => \A c \in Four :
              U[n + 1][c] = IF U[n][c] \in Four THEN x1[U[n][c]] ELSE U[n][c]
    BY UpSteps
  <1>5. \A n \in Nat :
           /\ \A b, c : <<b, c, n>> \in x2 /\ x1[b] \in Four => <<x1[b], c, n + 1>> \in x2
           /\ \A a, c : <<a, c, n + 1>> \in x2 =>
                 \E b \in Four : x1[b] = a /\ <<b, c, n>> \in x2
    BY UpperEnd
  <1> HIDE DEF k, U
  <1> DEFINE Right(n) == \A c \in Four : x1[c] # Category!None =>
                            /\ \A a \in Four : U[n][c] = a <=> <<a, c, n>> \in x2
                            /\ U[n][c] \in Four \cup {Category!Top}
             Good == {n \in Nat : n <= k => Right(n)}
  <1>6. Right(0)
    BY <1>1, <1>4 DEF EmptyPaths
  <1>7. ASSUME NEW n \in Nat, n < k, Right(n) PROVE Right(n + 1)
    <2> SUFFICES ASSUME NEW c \in Four, x1[c] # Category!None
                 PROVE  /\ \A a \in Four : U[n + 1][c] = a <=> <<a, c, n + 1>> \in x2
                        /\ U[n + 1][c] \in Four \cup {Category!Top}
      BY Zenon
    <2>1. U[n + 1][c] = IF U[n][c] \in Four THEN x1[U[n][c]] ELSE U[n][c]
      BY <1>4, <1>7
    <2>2. /\ \A a \in Four : U[n][c] = a <=> <<a, c, n>> \in x2
          /\ U[n][c] \in Four \cup {Category!Top}
      BY <1>7, Zenon
    <2>3. CASE U[n][c] \in Four
      <3>1. <<U[n][c], c, n>> \in x2 /\ U[n + 1][c] = x1[U[n][c]]
        BY <2>1, <2>2, <2>3
      <3>2. x1[U[n][c]] # Category!None
        BY <1>1, <3>1 DEF EndsExist
      <3>3. x1[U[n][c]] \in Four \cup {Category!Top}
        BY <2>3, <3>2 DEF CategoryParents
      <3>4. x1[U[n][c]] \in Four => <<x1[U[n][c]], c, n + 1>> \in x2
        BY <1>5, <3>1
      <3>5. ASSUME NEW a, <<a, c, n + 1>> \in x2 PROVE U[n + 1][c] = a
        <4>1. PICK b \in Four : x1[b] = a /\ <<b, c, n>> \in x2
          BY <1>5, <3>5
        <4>2. U[n][c] = b
          BY <2>2, <4>1
        <4> QED
          BY <3>1, <4>1, <4>2
      <3> QED
        BY <3>1, <3>3, <3>4, <3>5
    <2>4. CASE U[n][c] \notin Four
      <3>1. U[n + 1][c] = Category!Top
        BY <2>1, <2>2, <2>4
      <3>2. ASSUME NEW a, <<a, c, n + 1>> \in x2 PROVE FALSE
        <4>1. PICK b \in Four : x1[b] = a /\ <<b, c, n>> \in x2
          BY <1>5, <3>2
        <4> QED
          BY <2>2, <2>4, <4>1
      <3> QED
        BY <1>0, <3>1, <3>2
    <2> QED
      BY <2>3, <2>4
  <1> HIDE DEF Right
  <1>8. \A n \in Nat : n \in Good
    <2>1. 0 \in Good
      BY <1>6
    <2>2. ASSUME NEW n \in Nat, n \in Good PROVE n + 1 \in Good
      <3>1. n + 1 <= k => n < k /\ n <= k
        BY <1>2
      <3> QED
        BY <1>7, <2>2, <3>1
    <2> HIDE DEF Good
    <2> QED
      BY <2>1, <2>2, NatSetInduction
  <1>9. \A n \in Nat : n <= k => Right(n)
    BY <1>8
  <1>10. x2 = {row \in Category!Paths : row[1] \in Four}
    <2> DEFINE P == {row \in Category!Paths : row[1] \in Four}
    <2>0. Category!Up = 0..k
      BY <1>2 DEF Category!Up
    <2>1. ASSUME NEW row \in x2 PROVE row \in P
      <3>1. PICK a \in Four, c \in Four, n \in Nat : row = <<a, c, n>>
        BY <1>1 DEF AreTriples
      <3>2. n <= k /\ n \in Category!Up
        BY <1>2, <1>3, <2>0, <2>1, <3>1
      <3>3. x1[c] # Category!None
        BY <1>1, <2>1, <3>1 DEF EndsExist
      <3>4. U[n][c] = a
        BY <1>9, <2>1, <3>1, <3>2, <3>3 DEF Right
      <3>5. row \in Category!Paths
        BY <3>1, <3>2, <3>3, <3>4 DEF Category!Paths, U
      <3> QED
        BY <3>1, <3>5
    <2>2. ASSUME NEW row \in P PROVE row \in x2
      <3>1. PICK c \in Four, n \in Category!Up :
                    x1[c] # Category!None /\ row = <<U[n][c], c, n>>
        BY <2>2 DEF Category!Paths, U
      <3>2. n \in Nat /\ n <= k
        BY <1>2, <2>0, <3>1
      <3>3. U[n][c] \in Four
        BY <2>2, <3>1
      <3>4. <<U[n][c], c, n>> \in x2
        BY <1>9, <3>1, <3>2, <3>3 DEF Right
      <3> QED
        BY <3>1, <3>4
    <2> QED
      BY <2>1, <2>2
  <1>11. ASSUME NEW c \in Four, x1[c] # Category!None PROVE U[k][c] = Category!Top
    <2>1. \A a \in Four : U[k][c] = a <=> <<a, c, k>> \in x2
      BY <1>2, <1>9, <1>11 DEF Right
    <2>2. U[k][c] \in Four \cup {Category!Top}
      BY <1>2, <1>9, <1>11 DEF Right
    <2>3. ~(k < k)
      BY <1>2
    <2> QED
      BY <1>3, <2>1, <2>2, <2>3
  <1> QED
    BY <1>2, <1>10, <1>11 DEF Category!ClosureIsTree, U

CategoryJobs ==
    [Workers -> [pc : {"idle", "write", "commit"}, id : Four \cup {Category!None},
                 parent : Four \cup {Category!Top, Category!None},
                 del : SUBSET Category!Rows, ins : SUBSET Category!Rows]]

\* What one statement to commit leaves, without an overlap.
CategorySteady ==
    /\ Category!IsTree(x1, x2)
    /\ \A w \in Category!Running : Category!Prepared(job[w]) /\ Category!Running = {w}

\* The invariant of the categories, in the terms of the following lemmas.
LEMMA CategoryInvIs ==
    Category!Inv <=> /\ x1 \in CategoryParents /\ x2 \subseteq Category!Rows
                     /\ job \in CategoryJobs /\ x3 \in BOOLEAN
                     /\ ~x3 => CategorySteady
  BY DEF Category!Inv, Category!TypeOK, CategoryParents, CategoryJobs, CategorySteady

\* There are no categories and no paths: the invariant holds at the start.
LEMMA CategoryInit == Category!Init => Category!Inv
  <1> SUFFICES ASSUME Category!Init PROVE Category!Inv
    OBVIOUS
  <1>0. Category!Running = {}
    BY DEF Category!Init, Category!Running, Category!Free
  <1>1. x1 \in CategoryParents /\ x2 \subseteq Category!Rows /\ x3 \in BOOLEAN
    BY DEF Category!Init, CategoryParents
  <1>2. job \in CategoryJobs
    BY DEF Category!Init, Category!Free, CategoryJobs
  <1>3. Category!IsTree(x1, x2)
    BY ServicesAssumption DEF Category!Init, Category!IsTree, Category!None
  <1> QED
    BY <1>0, <1>1, <1>2, <1>3, CategoryInvIs DEF CategorySteady

\* A slot in which nothing is to commit leaves the others as they are.
LEMMA CategorySlot ==
    ASSUME Category!Inv, UNCHANGED <<x1, x2, x3>>, NEW w \in Workers, job' \in CategoryJobs,
           job'[w].pc # "commit", \A v \in Workers : v # w => job'[v] = job[v]
    PROVE  Category!Inv'
  <1>1. x1 \in CategoryParents /\ x2 \subseteq Category!Rows /\ x3 \in BOOLEAN
        /\ (~x3 => CategorySteady)
    BY CategoryInvIs
  <1>2. ASSUME CategorySteady PROVE CategorySteady'
    <2>1. \A v \in Category!Running' : v \in Category!Running /\ job'[v] = job[v]
      BY DEF Category!Running
    <2>2. \A v \in Category!Running' : Category!Running' = Category!Running \cap {v}
      BY <1>2, <2>1 DEF CategorySteady
    <2>3. ASSUME NEW v \in Category!Running'
          PROVE  Category!Prepared(job[v])' /\ Category!Running' = {v}
      <3>1. Category!Prepared(job[v]) /\ job'[v] = job[v]
        BY <1>2, <2>1 DEF CategorySteady
      <3>2. Category!Prepared(job[v])'
        BY <3>1 DEF Category!Prepared, Category!GetCategoryByID
      <3> QED
        BY <2>1, <2>2, <2>3, <3>2
    <2> QED
      BY <1>2, <2>3 DEF CategorySteady
  <1> QED
    BY <1>1, <1>2, CategoryInvIs DEF Category!Inv, Category!TypeOK, CategoryParents,
          CategoryJobs, CategorySteady

\* A free slot, and slots in which the update of one is freed.
LEMMA CategoryFreed ==
    ASSUME Category!Inv, UNCHANGED <<x1, x2, x3>>, NEW w \in Workers,
           job' = [job EXCEPT ![w] = Category!Free]
    PROVE  Category!Inv'
  <1>1. job \in CategoryJobs
    BY CategoryInvIs
  <1>2. Category!Free.pc = "idle"
    BY DEF Category!Free
  <1>3. job' \in CategoryJobs
    BY <1>1 DEF Category!Free, CategoryJobs
  <1>4. job'[w] = Category!Free /\ \A v \in Workers : v # w => job'[v] = job[v]
    BY <1>1 DEF CategoryJobs
  <1> QED
    BY <1>2, <1>3, <1>4, CategorySlot

\* A new row, with no statement under way, leaves a forest; with one, an overlap.
LEMMA CategoryCreated ==
    ASSUME Category!Inv, ~x3, NEW c \in Four, NEW p \in Four \cup {Category!Top},
           Category!CreateCategory(c, p)
    PROVE  Category!Inv'
  <1> USE DEF Category!CreateCategory, Category!createCategoryWithSlugRetry,
              Category!insertCategory, Category!GetCategoryByID
  <1>1. x1 \in CategoryParents /\ x3 \in BOOLEAN /\ job \in CategoryJobs /\ CategorySteady
    BY CategoryInvIs
  <1>2. Category!IsTree([x1 EXCEPT ![c] = p], x2 \cup Category!closureOfNew(c, p))
    <2>1. x1[c] = Category!None /\ (p \in Four => x1[p] # Category!None)
      BY ServicesAssumption DEF Category!Top
    <2> QED
      BY <1>1, <2>1, TreeInsert DEF CategorySteady
  <1>3. Category!IsTree(x1', x2')
    BY <1>2
  <1>4. x1' \in CategoryParents /\ x2' \subseteq Category!Rows /\ job' \in CategoryJobs
        /\ x3' \in BOOLEAN
    BY <1>1, <1>3 DEF CategoryParents, CategoryJobs, Category!IsTree
  <1>5. ~x3' => Category!Running' = {}
    BY DEF Category!Running
  <1> QED
    BY <1>3, <1>4, <1>5 DEF Category!Inv, Category!TypeOK, CategoryParents, CategoryJobs

\* So does the removal of a leaf.
LEMMA CategoryDeleted ==
    ASSUME Category!Inv, ~x3, NEW c \in Four, Category!DeleteCategory(c)
    PROVE  Category!Inv'
  <1> USE DEF Category!DeleteCategory, Category!DeleteCategoryRow
  <1>1. x1 \in CategoryParents /\ x3 \in BOOLEAN /\ job \in CategoryJobs /\ CategorySteady
    BY CategoryInvIs
  <1>2. Category!IsTree([x1 EXCEPT ![c] = Category!None],
                        {row \in x2 : row[1] # c /\ row[2] # c})
    BY <1>1, TreeDelete DEF CategorySteady
  <1>3. Category!IsTree(x1', x2')
    BY <1>2
  <1>4. x1' \in CategoryParents /\ x2' \subseteq Category!Rows /\ job' \in CategoryJobs
        /\ x3' \in BOOLEAN
    BY <1>1, <1>3 DEF CategoryParents, CategoryJobs, Category!IsTree
  <1>5. ~x3' => Category!Running' = {}
    BY DEF Category!Running
  <1> QED
    BY <1>3, <1>4, <1>5 DEF Category!Inv, Category!TypeOK, CategoryParents, CategoryJobs

\* A request takes down what it is to write.
LEMMA CategoryRead ==
    ASSUME Category!Inv, NEW w \in Workers, NEW c \in Four,
           NEW p \in Four \cup {Category!Top, Category!None}, Category!UpdateCategory(w, c, p)
    PROVE  Category!Inv'
  <1> USE DEF Category!UpdateCategory
  <1>1. x1 \in CategoryParents /\ job \in CategoryJobs
    BY CategoryInvIs
  <1> DEFINE to == IF p = Category!None THEN x1[c] ELSE p
  <1>2. to \in Four \cup {Category!Top, Category!None}
    BY <1>1 DEF CategoryParents
  <1> DEFINE row == [Category!Free EXCEPT !.pc = "write", !.id = c, !.parent = to]
  <1>3. job' = [job EXCEPT ![w] = row]
    BY Zenon
  <1> HIDE DEF to
  <1>4. row \in [pc : {"idle", "write", "commit"}, id : Four \cup {Category!None},
                 parent : Four \cup {Category!Top, Category!None},
                 del : SUBSET Category!Rows, ins : SUBSET Category!Rows]
    BY <1>2 DEF Category!Free
  <1>5. row.pc = "write"
    BY DEF Category!Free
  <1> HIDE DEF row
  <1>6. job' \in CategoryJobs
    BY <1>1, <1>3, <1>4 DEF CategoryJobs
  <1>7. job'[w] = row /\ \A v \in Workers : v # w => job'[v] = job[v]
    BY <1>1, <1>3 DEF CategoryJobs
  <1> QED
    BY <1>5, <1>6, <1>7, CategorySlot

\* The trigger inserts well-formed rows.
LEMMA JoinedRows ==
    ASSUME x2 \subseteq Category!Rows, NEW c, NEW p
    PROVE  Category!closureJoined(c, p) \subseteq Category!Rows
  <1> SUFFICES ASSUME NEW row \in Category!closureJoined(c, p) PROVE row \in Category!Rows
    OBVIOUS
  <1>1. PICK r1 \in x2, r2 \in x2 : row = <<r1[1], r2[2], r1[3] + r2[3] + 1>>
    BY DEF Category!closureJoined
  <1>2. r1[1] \in Four /\ r2[2] \in Four /\ r1[3] \in Nat /\ r2[3] \in Nat
    BY DEF Category!Rows
  <1>3. r1[3] + r2[3] + 1 \in Nat
    BY <1>2
  <1> QED
    BY <1>1, <1>2, <1>3 DEF Category!Rows

\* The statement leaves, once it commits, a forest if it was alone.
LEMMA CategoryWritten ==
    ASSUME Category!Inv, NEW w \in Workers, Category!updateCategoryWithSlugRetry(w)
    PROVE  Category!Inv'
  <1> DEFINE c == job[w].id
             p == job[w].parent
             moved == x1[c] # p
             cut == IF moved THEN Category!closureCut(c) ELSE {}
             joined == IF moved /\ p # Category!Top THEN Category!closureJoined(c, p) ELSE {}
  <1>0. Category!Top \notin Four /\ Category!None \notin Four /\ Category!Top # Category!None
    BY ServicesAssumption DEF Category!Top, Category!None
  <1>1. x1 \in CategoryParents /\ x2 \subseteq Category!Rows /\ job \in CategoryJobs
        /\ x3 \in BOOLEAN /\ (~x3 => CategorySteady)
    BY CategoryInvIs
  <1>2. job[w].pc = "write" /\ UNCHANGED <<x1, x2>>
    BY DEF Category!updateCategoryWithSlugRetry
  <1>3. CASE job' = [job EXCEPT ![w] = Category!Free] /\ UNCHANGED x3
    BY <1>2, <1>3, CategoryFreed
  <1>4. CASE ~(job' = [job EXCEPT ![w] = Category!Free] /\ UNCHANGED x3)
    <2>1. /\ Category!GetCategoryByID(c) /\ (p = Category!Top \/ Category!GetCategoryByID(p))
          /\ Category!KeysFree(x2 \ cut, joined)
          /\ job' = [job EXCEPT ![w] = [pc |-> "commit", id |-> c, parent |-> p,
                                        del |-> cut, ins |-> joined]]
          /\ x3' = (x3 \/ Category!Running # {})
      BY <1>4, Zenon
         DEF Category!updateCategoryWithSlugRetry, Category!UpdateCategoryRow
    <2> HIDE DEF c, p
    <2>2. c \in Four /\ x1[c] # Category!None /\ p \in Four \cup {Category!Top}
          /\ (p \in Four => x1[p] # Category!None)
      BY <1>0, <2>1 DEF Category!GetCategoryByID
    <2>3. cut \subseteq x2 /\ joined \subseteq Category!Rows
      BY <1>1, JoinedRows DEF Category!closureCut
    <2>4. ASSUME CategorySteady
          PROVE  Category!IsTree([x1 EXCEPT ![c] = p], (x2 \ cut) \cup joined)
      <3>1. CASE moved
        <4>1. joined = Joined(c, p) /\ cut = Category!closureCut(c)
          BY <3>1 DEF Joined
        <4>2. Category!KeysFree(x2 \ Category!closureCut(c), Joined(c, p))
          BY <2>1, <4>1, Zenon
        <4> HIDE DEF cut, joined
        <4>3. Category!IsTree([x1 EXCEPT ![c] = p],
                              (x2 \ Category!closureCut(c)) \cup Joined(c, p))
          BY <1>1, <2>2, <2>4, <4>2, TreeMove DEF CategorySteady
        <4> QED
          BY <4>1, <4>3, Zenon
      <3>2. CASE ~moved
        <4>1. [x1 EXCEPT ![c] = p] = x1
          BY <1>1, <3>2 DEF CategoryParents
        <4>2. (x2 \ cut) \cup joined = x2
          BY <3>2
        <4> HIDE DEF cut, joined
        <4> QED
          BY <2>4, <4>1, <4>2, Zenon DEF CategorySteady
      <3> QED
        BY <3>1, <3>2
    <2> HIDE DEF cut, joined, moved
    <2>5. job' \in CategoryJobs
      <3>1. [pc |-> "commit", id |-> c, parent |-> p, del |-> cut, ins |-> joined]
            \in [pc : {"idle", "write", "commit"}, id : Four \cup {Category!None},
                 parent : Four \cup {Category!Top, Category!None},
                 del : SUBSET Category!Rows, ins : SUBSET Category!Rows]
        BY <1>1, <2>2, <2>3
      <3> QED
        BY <1>1, <2>1, <3>1 DEF CategoryJobs
    <2>6. /\ job'[w] = [pc |-> "commit", id |-> c, parent |-> p, del |-> cut, ins |-> joined]
          /\ \A v \in Workers : v # w => job'[v] = job[v]
      BY <1>1, <2>1 DEF CategoryJobs
    <2>7. ASSUME ~x3' PROVE CategorySteady'
      <3>1. ~x3 /\ Category!Running = {}
        BY <1>1, <2>1, <2>7
      <3>2. Category!Running' = {w}
        <4>1. job'[w].pc = "commit"
          BY <2>6
        <4> QED
          BY <2>6, <3>1, <4>1 DEF Category!Running
      <3>3. Category!Prepared(job[w])'
        <4>1. job'[w].id = c /\ job'[w].parent = p /\ job'[w].del = cut
              /\ job'[w].ins = joined
          BY <2>6
        <4>2. Category!IsTree([x1 EXCEPT ![c] = p], (x2 \ cut) \cup joined)
          BY <1>1, <2>4, <3>1
        <4>3. Category!IsTree([x1 EXCEPT ![job[w].id] = job[w].parent],
                              (x2 \ job[w].del) \cup job[w].ins)'
          BY <1>2, <4>1, <4>2
        <4> QED
          BY <1>2, <2>2, <4>1, <4>3 DEF Category!Prepared, Category!GetCategoryByID
      <3>4. Category!IsTree(x1', x2')
        BY <1>1, <1>2, <3>1 DEF CategorySteady
      <3> QED
        BY <3>2, <3>3, <3>4 DEF CategorySteady
    <2>8. x1' \in CategoryParents /\ x2' \subseteq Category!Rows /\ x3' \in BOOLEAN
      BY <1>1, <1>2, <2>1 DEF CategoryParents
    <2> QED
      BY <2>5, <2>7, <2>8 DEF Category!Inv, Category!TypeOK, CategoryParents,
            CategoryJobs, CategorySteady
  <1> QED
    BY <1>3, <1>4

\* What commits alone is a forest.
LEMMA CategoryCommitted ==
    ASSUME Category!Inv, NEW w \in Workers, Category!CommitUpdate(w)
    PROVE  Category!Inv'
  <1> DEFINE j == job[w]
  <1>1. x1 \in CategoryParents /\ x2 \subseteq Category!Rows /\ job \in CategoryJobs
        /\ x3 \in BOOLEAN /\ (~x3 => CategorySteady)
    BY CategoryInvIs
  <1>2. j.pc = "commit" /\ job' = [job EXCEPT ![w] = Category!Free] /\ x3' = x3
    BY DEF Category!CommitUpdate
  <1>3. CASE UNCHANGED <<x1, x2>>
    BY <1>2, <1>3, CategoryFreed
  <1>4. CASE ~UNCHANGED <<x1, x2>>
    <2>1. /\ x1' = [x1 EXCEPT ![j.id] = j.parent]
          /\ x2' = (x2 \ j.del) \cup j.ins
      BY <1>4 DEF Category!CommitUpdate
    <2>2. job' \in CategoryJobs
      BY <1>1, <1>2 DEF CategoryJobs, Category!Free
    <2>3. j \in [pc : {"idle", "write", "commit"}, id : Four \cup {Category!None},
                 parent : Four \cup {Category!Top, Category!None},
                 del : SUBSET Category!Rows, ins : SUBSET Category!Rows]
      BY <1>1 DEF CategoryJobs
    <2>4. x1' \in CategoryParents /\ x2' \subseteq Category!Rows
      BY <1>1, <2>1, <2>3 DEF CategoryParents
    <2>5. ASSUME ~x3' PROVE CategorySteady'
      <3>1. w \in Category!Running
        BY <1>2 DEF Category!Running
      <3>2. Category!Prepared(j) /\ Category!Running = {w}
        BY <1>1, <1>2, <2>5, <3>1 DEF CategorySteady
      <3>3. Category!IsTree(x1', x2')
        BY <2>1, <3>2 DEF Category!Prepared
      <3>4. job'[w] = Category!Free /\ \A v \in Workers : v # w => job'[v] = job[v]
        BY <1>1, <1>2 DEF CategoryJobs
      <3>5. Category!Free.pc # "commit"
        BY DEF Category!Free
      <3>6. Category!Running' = {}
        BY <3>2, <3>4, <3>5 DEF Category!Running
      <3> QED
        BY <3>3, <3>6 DEF CategorySteady
    <2> QED
      BY <1>1, <1>2, <2>2, <2>4, <2>5 DEF Category!Inv, Category!TypeOK, CategoryParents,
            CategoryJobs, CategorySteady
  <1> QED
    BY <1>3, <1>4

\* Every step of a request keeps the invariant of the categories.
LEMMA CategoryNext == Category!Inv /\ Category!Next => Category!Inv'
  <1> SUFFICES ASSUME Category!Inv, Category!Next PROVE Category!Inv'
    OBVIOUS
  <1>1. ASSUME NEW c \in Four, NEW p \in Four \cup {Category!Top, Category!None}, ~x3,
               p # Category!None, Category!CreateCategory(c, p)
        PROVE  Category!Inv'
    BY <1>1, CategoryCreated
  <1>2. ASSUME NEW c \in Four, ~x3, Category!DeleteCategory(c) PROVE Category!Inv'
    BY <1>2, CategoryDeleted
  <1>3. ASSUME NEW w \in Workers, Category!Fail(w) PROVE Category!Inv'
    BY <1>3, CategoryFreed DEF Category!Fail
  <1> QED
    BY <1>1, <1>2, <1>3, CategoryRead, CategoryWritten, CategoryCommitted
       DEF Category!Next, Category!CategoryHandlers, Category!Bound

\* The category module's invariant always holds.
THEOREM CategorySafe == Spec => [](component = "categories" => Category!Inv)
  <1> DEFINE IInv == component = "categories" => Category!Inv
  <1>1. Init => IInv
    BY CategoryInit DEF Init
  <1>2. IInv /\ [Next]_vars => IInv'
    <2> SUFFICES ASSUME IInv, [Next]_vars, component' = "categories" PROVE Category!Inv'
      OBVIOUS
    <2>1. CASE UNCHANGED vars
      <3>1. Category!Inv
        BY <2>1 DEF vars
      <3> QED
        BY <2>1, <3>1 DEF vars, Category!Inv, Category!TypeOK, Category!Running,
              Category!Prepared, Category!GetCategoryByID
    <2>2. CASE Next
      <3>1. component = "categories" /\ Category!Next
        BY <2>2 DEF Next
      <3> QED
        BY <3>1, CategoryNext
    <2> QED
      BY <2>1, <2>2
  <1> QED
    BY <1>1, <1>2, PTL DEF Spec

\* Unless two moves overlap, the categories stay a forest and category_closure
\* the table of its paths (UpdateCategory, fn_maintain_category_closure).
THEOREM CategoriesStayTrees == Spec => []ClosureIsTree
  <1> DEFINE IInv == component = "categories" => Category!Inv
  <1>1. IInv => ClosureIsTree
    <2> SUFFICES ASSUME Category!Inv PROVE Category!ClosureIsTree
      BY DEF ClosureIsTree
    <2>1. CASE x3
      BY <2>1 DEF Category!ClosureIsTree
    <2>2. CASE ~x3
      BY <2>2, CategoryInvIs, TreeIsRight DEF CategorySteady
    <2> QED
      BY <2>1, <2>2
  <1> QED
    BY <1>1, CategorySafe, PTL

-----------------------------------------------------------------------------
(* Ranking *)

\* How many elements of S come before x.
Rank(S, R, x) == Cardinality({y \in S : <<y, x>> \in R})

IsOrder(S, R) ==
    /\ IsFiniteSet(S)
    /\ \A x \in S : <<x, x>> \notin R
    /\ \A x \in S, y \in S : x # y => <<x, y>> \in R \/ <<y, x>> \in R
    /\ \A x \in S, y \in S, z \in S : <<x, y>> \in R /\ <<y, z>> \in R => <<x, z>> \in R

\* Whoever comes later has more before it, and nobody has all.
LEMMA RankGrows ==
    ASSUME NEW S, NEW R, IsOrder(S, R)
    PROVE  /\ \A x \in S : Rank(S, R, x) \in Nat /\ Rank(S, R, x) < Cardinality(S)
           /\ \A x \in S, y \in S : <<x, y>> \in R => Rank(S, R, x) < Rank(S, R, y)
  <1> DEFINE B(x) == {y \in S : <<y, x>> \in R}
  <1>1. ASSUME NEW x \in S, NEW T \in SUBSET S, B(x) \subseteq T, x \in T
        PROVE  Cardinality(B(x)) \in Nat /\ Cardinality(B(x)) < Cardinality(T)
    <2>1. IsFiniteSet(S)
      BY DEF IsOrder
    <2>2. IsFiniteSet(T) /\ IsFiniteSet(B(x))
      BY <2>1, FS_Subset
    <2>3. x \notin B(x)
      BY DEF IsOrder
    <2> HIDE DEF B
    <2>4. Cardinality(B(x) \cup {x}) = Cardinality(B(x)) + 1
      BY <2>2, <2>3, FS_AddElement
    <2>5. B(x) \cup {x} \subseteq T
      BY <1>1
    <2>6. Cardinality(B(x) \cup {x}) <= Cardinality(T)
      BY <2>2, <2>5, FS_Subset
    <2>7. Cardinality(B(x)) \in Nat /\ Cardinality(T) \in Nat
      BY <2>2, FS_CardinalityType
    <2> QED
      BY <2>4, <2>6, <2>7
  <1>2. \A x \in S : Rank(S, R, x) = Cardinality(B(x))
    BY DEF Rank
  <1>3. ASSUME NEW x \in S, NEW y \in S, <<x, y>> \in R
        PROVE  B(x) \subseteq B(y) /\ x \in B(y) /\ B(y) \in SUBSET S
    BY <1>3 DEF IsOrder
  <1>4. \A x \in S : B(x) \subseteq S
    OBVIOUS
  <1> HIDE DEF B
  <1> QED
    BY <1>1, <1>2, <1>3, <1>4

\* The order contains every element once, and the earlier one first.
LEMMA InOrderIs ==
    ASSUME NEW S, NEW R, IsOrder(S, R)
    PROVE  /\ Cardinality(S) \in Nat
           /\ InOrder(S, R) \in [1..Cardinality(S) -> S]
           /\ \A j, k \in 1..Cardinality(S) :
                 j < k => <<InOrder(S, R)[j], InOrder(S, R)[k]>> \in R
           /\ \A x \in S : \E k \in 1..Cardinality(S) : InOrder(S, R)[k] = x
  <1> DEFINE n == Cardinality(S)
             o == InOrder(S, R)
             rank == [x \in S |-> Rank(S, R, x)]
  <1>1. n \in Nat /\ IsFiniteSet(S)
    BY FS_CardinalityType DEF IsOrder
  <1>2. /\ \A x \in S : rank[x] \in Nat /\ rank[x] < n
        /\ \A x \in S, y \in S : <<x, y>> \in R => rank[x] < rank[y]
    BY RankGrows
  <1>3. o = [k \in 1..n |-> CHOOSE x \in S : Rank(S, R, x) = k - 1]
        /\ \A x \in S : rank[x] = Rank(S, R, x)
    BY DEF InOrder, Rank
  <1>4. DOMAIN rank = S
    OBVIOUS
  <1>5. rank \in [S -> 0..(n - 1)]
    BY <1>1, <1>2
  <1> HIDE DEF rank, n, o
  <1>6. \A x \in S, y \in S : rank[x] = rank[y] => x = y
    <2> SUFFICES ASSUME NEW x \in S, NEW y \in S, x # y PROVE rank[x] # rank[y]
      OBVIOUS
    <2>1. <<x, y>> \in R \/ <<y, x>> \in R
      BY DEF IsOrder
    <2>2. rank[x] < rank[y] \/ rank[y] < rank[x]
      BY <1>2, <2>1
    <2>3. rank[x] \in Nat /\ rank[y] \in Nat
      BY <1>2
    <2> QED
      BY <2>2, <2>3
  <1>7. \A k \in 0..(n - 1) : \E x \in S : rank[x] = k
    <2>1. IsFiniteSet(0..(n - 1)) /\ Cardinality(0..(n - 1)) = n
      BY <1>1, FS_Interval
    <2>2. rank \in Injection(S, 0..(n - 1))
      BY <1>4, <1>5, <1>6 DEF Injection, IsInjective
    <2>3. rank \in Surjection(S, 0..(n - 1))
      BY <2>1, <2>2, FS_Injection DEF n
    <2> QED
      BY <2>3 DEF Surjection
  <1>8. \A k \in 1..n : o[k] \in S /\ rank[o[k]] = k - 1
    <2> SUFFICES ASSUME NEW k \in 1..n PROVE o[k] \in S /\ rank[o[k]] = k - 1
      OBVIOUS
    <2>1. k - 1 \in 0..(n - 1)
      BY <1>1
    <2>2. \E x \in S : Rank(S, R, x) = k - 1
      BY <1>3, <1>7, <2>1
    <2>3. o[k] = CHOOSE x \in S : Rank(S, R, x) = k - 1
      BY <1>3
    <2>4. o[k] \in S /\ Rank(S, R, o[k]) = k - 1
      BY <2>2, <2>3, Zenon
    <2> QED
      BY <1>3, <2>4
  <1>9. o \in [1..n -> S]
    BY <1>3, <1>8
  <1>10. ASSUME NEW j \in 1..n, NEW k \in 1..n, j < k PROVE <<o[j], o[k]>> \in R
    <2>1. o[j] \in S /\ o[k] \in S /\ rank[o[j]] < rank[o[k]]
      BY <1>1, <1>8, <1>10
    <2>2. ~(rank[o[k]] < rank[o[j]]) /\ o[j] # o[k]
      BY <1>2, <2>1
    <2> QED
      BY <1>2, <2>1, <2>2 DEF IsOrder
  <1>11. ASSUME NEW x \in S PROVE \E k \in 1..n : o[k] = x
    <2>1. PICK k \in 1..n : k - 1 = rank[x]
      <3>1. rank[x] \in Nat /\ rank[x] < n
        BY <1>2
      <3>2. \A m \in Nat : m < n => m + 1 \in 1..n /\ m + 1 - 1 = m
        BY <1>1
      <3> QED
        BY <3>1, <3>2
    <2>2. o[k] \in S /\ rank[o[k]] = rank[x]
      BY <1>8, <2>1
    <2> QED
      BY <1>6, <2>2
  <1> QED
    BY <1>1, <1>9, <1>10, <1>11 DEF n, o

\* Ascending numbers.
LEMMA AscendingIs ==
    ASSUME NEW S, S \subseteq Nat, IsFiniteSet(S)
    PROVE  /\ Cardinality(S) \in Nat
           /\ Ascending(S) \in [1..Cardinality(S) -> S]
           /\ \A j, k \in 1..Cardinality(S) : j < k => Ascending(S)[j] < Ascending(S)[k]
           /\ \A x \in S : \E k \in 1..Cardinality(S) : Ascending(S)[k] = x
  <1> DEFINE R == {pair \in S \X S : pair[1] < pair[2]}
  <1>1. \A x, y : <<x, y>> \in R <=> x \in S /\ y \in S /\ x < y
    OBVIOUS
  <1>2. Ascending(S) = InOrder(S, R)
    BY DEF Ascending
  <1> HIDE DEF R
  <1>3. IsOrder(S, R)
    <2>1. \A x \in S, y \in S, z \in S : x < y /\ y < z => x < z
      OBVIOUS
    <2>2. \A x \in S, y \in S : x # y => x < y \/ y < x
      OBVIOUS
    <2> QED
      BY <1>1, <2>1, <2>2 DEF IsOrder
  <1>4. /\ Cardinality(S) \in Nat
        /\ InOrder(S, R) \in [1..Cardinality(S) -> S]
        /\ \A j, k \in 1..Cardinality(S) :
              j < k => <<InOrder(S, R)[j], InOrder(S, R)[k]>> \in R
        /\ \A x \in S : \E k \in 1..Cardinality(S) : InOrder(S, R)[k] = x
    BY <1>3, InOrderIs
  <1> QED
    BY <1>1, <1>2, <1>4

\* Of a sequence, what some of its positions hold, in their order.
IsPicked(p, s, n, T, K) ==
    /\ Cardinality(K) \in Nat /\ Cardinality(K) <= n
    /\ p \in [1..Cardinality(K) -> T]
    /\ \A i \in 1..Cardinality(K) : \E a \in K : p[i] = s[a]
    /\ \A i, j \in 1..Cardinality(K) : i < j =>
          \E a, b \in K : a < b /\ p[i] = s[a] /\ p[j] = s[b]
    /\ \A a \in K : \E i \in 1..Cardinality(K) : p[i] = s[a]

\* What a filter loop leaves: the picked positions, each once and in their order.
LEMMA PickedIs ==
    ASSUME NEW T, NEW n \in Nat, NEW s \in [1..n -> T], NEW K, K \subseteq 1..n
    PROVE  IsPicked(Picked(s, K), s, n, T, K)
  <1> DEFINE c == Cardinality(K)
             o == Ascending(K)
             p == Picked(s, K)
  <1>1. IsFiniteSet(1..n) /\ Cardinality(1..n) = n
    BY FS_Interval
  <1>2. IsFiniteSet(K) /\ c <= n /\ K \subseteq Nat
    <2>1. IsFiniteSet(K) /\ Cardinality(K) <= Cardinality(1..n)
      BY <1>1, FS_Subset
    <2>2. K \subseteq Nat
      OBVIOUS
    <2> QED
      BY <1>1, <2>1, <2>2
  <1>3. /\ c \in Nat /\ o \in [1..c -> K]
        /\ \A j, k \in 1..c : j < k => o[j] < o[k]
        /\ \A x \in K : \E k \in 1..c : o[k] = x
    BY <1>2, AscendingIs
  <1>4. p = [k \in 1..c |-> s[o[k]]]
    BY DEF Picked
  <1> HIDE DEF c, o, p
  <1>5. p \in [1..c -> T]
    BY <1>3, <1>4
  <1>6. \A k \in 1..c : o[k] \in K /\ p[k] = s[o[k]]
    BY <1>3, <1>4
  <1>7. \A a \in K : \E i \in 1..c : p[i] = s[a]
    BY <1>3, <1>6
  <1>8. ASSUME NEW i \in 1..c, NEW j \in 1..c, i < j
        PROVE  \E a, b \in K : a < b /\ p[i] = s[a] /\ p[j] = s[b]
    BY <1>3, <1>6, <1>8
  <1> QED
    BY <1>2, <1>3, <1>5, <1>6, <1>7, <1>8 DEF c, p, IsPicked

-----------------------------------------------------------------------------
(* Merchant feed: product is x1, image x2, variant x3, run x6 *)

\* The feed's copies of Ranking's operators are those the lemmas speak of.
LEMMA FeedRanking ==
    /\ \A S : Feed!Ascending(S) = Ascending(S)
    /\ \A s, K : Feed!Picked(s, K) = Picked(s, K)
    /\ \A S : Feed!Cardinality(S) = Cardinality(S)
  <1>1. ASSUME NEW S PROVE Feed!Cardinality(S) = Cardinality(S)
    BY Zenon DEF Feed!Cardinality, Cardinality
  <1>2. ASSUME NEW S, NEW R PROVE Feed!InOrder(S, R) = InOrder(S, R)
    BY Zenon DEF Feed!InOrder, InOrder, Feed!Cardinality, Cardinality
  <1>3. ASSUME NEW S PROVE Feed!Ascending(S) = Ascending(S)
    BY <1>2, Zenon DEF Feed!Ascending, Ascending
  <1>4. ASSUME NEW s, NEW K PROVE Feed!Picked(s, K) = Picked(s, K)
    <2>1. Feed!Cardinality(K) = Cardinality(K) /\ Feed!Ascending(K) = Ascending(K)
      BY <1>1, <1>3
    <2> QED
      BY <2>1, Zenon DEF Feed!Picked, Picked
  <1> QED
    BY <1>1, <1>3, <1>4

\* The page of a batch: up to Limit of the eligible variants after the cursor,
\* the first ones.
FeedPage(E) ==
    SubSeq(Ascending(E), 1, IF Len(Ascending(E)) < Limit THEN Len(Ascending(E)) ELSE Limit)

IsPage(page, m, E) ==
    /\ page \in [1..m -> E] /\ m <= Limit
    /\ \A j, k \in 1..m : j < k => page[j] < page[k]
    /\ m < Limit => \A i \in E : \E k \in 1..m : page[k] = i
    /\ m = Limit => \A i \in E : i <= page[m] => \E k \in 1..m : page[k] = i

\* A page: at most Limit of the ids, ascending, and none left out
\* below its last.
LEMMA FeedPageIs ==
    ASSUME NEW E, E \subseteq Nat, IsFiniteSet(E)
    PROVE  \E m \in Nat : IsPage(FeedPage(E), m, E)
  <1> DEFINE page == FeedPage(E)
             o == Ascending(E)
             c == Cardinality(E)
             m == IF c < Limit THEN c ELSE Limit
  <1>1. /\ c \in Nat /\ o \in [1..c -> E]
        /\ \A j, k \in 1..c : j < k => o[j] < o[k]
        /\ \A x \in E : \E k \in 1..c : o[k] = x
    BY AscendingIs
  <1>2. Limit \in Nat /\ Limit # 0
    BY ServicesAssumption
  <1> HIDE DEF o, c
  <1>3. Len(o) = c /\ o \in Seq(E)
    BY <1>1
  <1>4. page = SubSeq(o, 1, m)
    BY <1>3 DEF o, FeedPage
  <1> HIDE DEF page
  <1>5. m \in Nat /\ m <= c /\ m <= Limit /\ 1..m \subseteq 1..c
    BY <1>1, <1>2
  <1>6. (m < Limit => m = c) /\ (m = Limit => m \in 1..m)
    BY <1>1, <1>2
  <1> HIDE DEF m
  <1>7. page \in [1..m -> E] /\ \A k \in 1..m : page[k] = o[k]
    <2>1. SubSeq(o, 1, m) = [k \in 1..m |-> o[k]]
      <3>1. \A k \in 1..m : k + 1 - 1 = k
        OBVIOUS
      <3> QED
        BY <1>1, <1>3, <1>5, <3>1
    <2> QED
      BY <1>1, <1>4, <1>5, <2>1
  <1>8. \A j, k \in 1..m : j < k => page[j] < page[k]
    BY <1>1, <1>5, <1>7
  <1>9. m < Limit => \A i \in E : \E k \in 1..m : page[k] = i
    BY <1>1, <1>6, <1>7
  <1>10. ASSUME m = Limit, NEW i \in E, i <= page[m] PROVE \E k \in 1..m : page[k] = i
    <2>1. PICK k \in 1..c : o[k] = i
      BY <1>1
    <2>2. CASE k <= m
      <3>1. k \in 1..m
        BY <1>5, <2>2
      <3> QED
        BY <1>7, <2>1, <3>1
    <2>3. CASE ~(k <= m)
      <3>1. m < k /\ m \in 1..c /\ m \in 1..m
        BY <1>1, <1>5, <1>6, <1>10, <2>3
      <3>2. o[m] < o[k] /\ o[m] = page[m] /\ o[m] \in E
        BY <1>1, <1>7, <3>1
      <3>3. o[m] \in Nat /\ i \in Nat /\ o[m] < i /\ i <= o[m]
        BY <1>10, <2>1, <3>2
      <3> QED
        BY <3>3
    <2> QED
      BY <2>2, <2>3
  <1> QED
    BY <1>5, <1>7, <1>8, <1>9, <1>10 DEF IsPage, page

\* The item of an eligible variant names it, and is valid if it is exportable.
FeedItem(i) == Feed!normaliseItem(Feed!ItemOf(Feed!FeedRow(i)))

FeedEligible == Feed!eligible_variants(Feed!DefaultFeedFilter(x6.mode))

\* The item built for an eligible variant names it, and is valid iff it is exportable.
LEMMA FeedItemIs ==
    ASSUME Feed!TypeOK, NEW i \in FeedEligible
    PROVE  /\ i \in 1..MaxVariants /\ FeedItem(i) \in Feed!Items /\ FeedItem(i).id[2] = i
           /\ i \in Feed!Exportable(x6.mode) <=> Feed!validateFeedItem(FeedItem(i))
  <1>1. i \in 1..MaxVariants /\ x3[i].active = TRUE
    <2>1. i \in 1..MaxVariants /\ x3[i].active /\ x3[i] \in Feed!Variants \cup {Feed!NoVariant}
      BY DEF FeedEligible, Feed!eligible_variants, Feed!Ids, Feed!TypeOK
    <2> QED
      BY <2>1 DEF Feed!Variants, Feed!NoVariant
  <1>2. x3[i].product \in Pair
    <2>1. x3[i] \in Feed!Variants \cup {Feed!NoVariant}
      BY <1>1 DEF Feed!TypeOK, Feed!Ids
    <2>2. Feed!NoVariant.active = FALSE
      BY DEF Feed!NoVariant
    <2> QED
      BY <1>1, <2>1, <2>2 DEF Feed!Variants
  <1> DEFINE row == Feed!FeedRow(i)
             item == Feed!ItemOf(row)
  <1>3. row.variant = i /\ row.product \in Pair /\ row.image \in {"", "https", "path"}
    BY <1>2 DEF Feed!FeedRow
  <1> HIDE DEF row
  <1>4. item \in Feed!Items /\ item.id[2] = i
    BY <1>1, <1>3 DEF Feed!ItemOf, Feed!Items, Feed!Ids
  <1> HIDE DEF item
  <1>5. Feed!normaliseItem(item) \in Feed!Items /\ Feed!normaliseItem(item).id[2] = i
    BY <1>4 DEF Feed!normaliseItem, Feed!normaliseURL, Feed!Items
  <1>6. FeedItem(i) = Feed!normaliseItem(item)
    BY DEF FeedItem, item, row
  <1>7. i \in Feed!Exportable(x6.mode) <=> Feed!validateFeedItem(FeedItem(i))
    BY Zenon DEF Feed!Exportable, FeedItem, FeedEligible
  <1> QED
    BY <1>1, <1>5, <1>6, <1>7

\* What a batch adds: items of variants after the cursor, in order, and of all
\* that are exportable now up to the cursor of the next batch, if there is one.
FeedAdds(valid, more, next) ==
    /\ valid \in Seq(Feed!Items)
    /\ \A j, k \in DOMAIN valid : j < k => valid[j].id[2] < valid[k].id[2]
    /\ \A k \in DOMAIN valid : valid[k].id[2] > x6.cursor /\ (more => valid[k].id[2] <= next)
    /\ more => next \in 0..MaxVariants /\ next >= x6.cursor
    /\ \A i \in Feed!Exportable(x6.mode) :
          i > x6.cursor /\ (more => i <= next) => \E k \in DOMAIN valid : valid[k].id[2] = i

FeedGoesOn(valid, more, next) ==
    x6' = [x6 EXCEPT !.items = @ \o valid, !.pc = IF more THEN "load" ELSE "done",
                     !.cursor = IF more THEN next ELSE @]

\* A batch appends the valid items of one page and goes on behind it.
LEMMA FeedBatch ==
    ASSUME Feed!FeedInv, Feed!LoadBatch
    PROVE  \E valid, more, next :
              /\ FeedAdds(valid, more, next)
              /\ FeedGoesOn(valid, more, next)
  <1> DEFINE E == {i \in FeedEligible : i > x6.cursor}
             page == FeedPage(E)
             rows == [k \in DOMAIN page |-> Feed!FeedRow(page[k])]
             items == [k \in DOMAIN rows |-> Feed!ItemOf(rows[k])]
             all == [k \in DOMAIN items |-> Feed!normaliseItem(items[k])]
             K == {k \in DOMAIN all : Feed!validateFeedItem(all[k])}
             valid == Picked(all, K)
             more == items # <<>> /\ Len(rows) = Limit
             next == IF rows = <<>> THEN 0 ELSE rows[Len(rows)].variant
  <1>0. Feed!TypeOK /\ x6 \in Feed!Runs /\ MaxVariants \in Nat
    BY ServicesAssumption DEF Feed!FeedInv
  <1>1. Feed!LoadFeedBatch(Feed!DefaultFeedFilter(x6.mode), x6.cursor)
        = [items |-> items, NextCursor |-> next, HasMore |-> Len(rows) = Limit]
    <2>1. \A S : Feed!Ascending(S) = Ascending(S)
      BY FeedRanking
    <2>2. Feed!LoadFeedBatch(Feed!DefaultFeedFilter(x6.mode), x6.cursor)
          = Feed!scanFeedBatchRows(rows)
      BY <2>1, Zenon DEF Feed!LoadFeedBatch, FeedEligible, FeedPage
    <2> HIDE DEF rows
    <2>3. Feed!scanFeedBatchRows(rows)
          = [items |-> items, NextCursor |-> next, HasMore |-> Len(rows) = Limit]
      BY Zenon DEF Feed!scanFeedBatchRows, Feed!HasMore, Feed!Last
    <2> QED
      BY <2>2, <2>3
  <1>2. Feed!ValidItems(items) = valid
    BY FeedRanking, Zenon DEF Feed!ValidItems
  <1>3. x6' = [x6 EXCEPT !.items = @ \o valid,
                         !.pc = IF more THEN "load" ELSE "done",
                         !.cursor = IF more THEN next ELSE @]
    <2> HIDE DEF rows, next, valid, items
    <2> DEFINE batch == Feed!LoadFeedBatch(Feed!DefaultFeedFilter(x6.mode), x6.cursor)
    <2>1. batch.items = items /\ batch.NextCursor = next /\ batch.HasMore = (Len(rows) = Limit)
      BY <1>1
    <2>2. x6' = [x6 EXCEPT !.items = @ \o Feed!ValidItems(batch.items),
                           !.pc = IF batch.items # <<>> /\ batch.HasMore THEN "load" ELSE "done",
                           !.cursor = IF batch.items # <<>> /\ batch.HasMore
                                      THEN batch.NextCursor ELSE @]
      BY Zenon DEF Feed!LoadBatch
    <2> HIDE DEF batch
    <2> QED
      BY <1>2, <2>1, <2>2, Zenon
  <1>4. E \subseteq Nat /\ IsFiniteSet(E) /\ E \subseteq 1..MaxVariants
    <2>1. E \subseteq 1..MaxVariants
      BY DEF FeedEligible, Feed!eligible_variants, Feed!Ids
    <2>2. IsFiniteSet(1..MaxVariants)
      BY <1>0, FS_Interval
    <2> QED
      BY <1>0, <2>1, <2>2, FS_Subset
  <1>5. \A i \in E : /\ i \in 1..MaxVariants /\ i > x6.cursor
                     /\ FeedItem(i) \in Feed!Items /\ FeedItem(i).id[2] = i
                     /\ i \in Feed!Exportable(x6.mode) <=> Feed!validateFeedItem(FeedItem(i))
    BY <1>0, FeedItemIs
  <1>6. \A i \in Feed!Exportable(x6.mode) : i > x6.cursor => i \in E
    BY DEF Feed!Exportable, FeedEligible
  <1> HIDE DEF E
  <1>7. PICK m \in Nat : IsPage(page, m, E)
    BY <1>4, FeedPageIs
  <1> HIDE DEF page
  <1>8. rows = [k \in 1..m |-> Feed!FeedRow(page[k])] /\ Len(rows) = m
        /\ items = [k \in 1..m |-> Feed!ItemOf(Feed!FeedRow(page[k]))]
        /\ all = [k \in 1..m |-> FeedItem(page[k])]
    BY <1>7 DEF FeedItem, IsPage
  <1>9. Limit \in Nat /\ Limit # 0
    BY ServicesAssumption
  <1>10. (more <=> m = Limit) /\ (more => m \in 1..m /\ next = page[m])
    <2>1. items = <<>> <=> m = 0
      BY <1>8
    <2>2. m # 0 => rows # <<>>
      BY <1>8
    <2>3. m \in 1..m => rows[m].variant = page[m]
      BY <1>8 DEF Feed!FeedRow
    <2> HIDE DEF rows, items
    <2>4. m # 0 => m \in 1..m
      OBVIOUS
    <2> QED
      BY <1>8, <1>9, <2>1, <2>2, <2>3, <2>4
  <1>11. all \in [1..m -> Feed!Items] /\ DOMAIN all = 1..m
    BY <1>5, <1>7, <1>8 DEF IsPage
  <1>20. \A k \in 1..m : all[k].id[2] = page[k] /\ page[k] \in E
    BY <1>5, <1>7, <1>8 DEF IsPage
  <1>21. \A k \in 1..m : page[k] \in Feed!Exportable(x6.mode) => k \in K
    BY <1>5, <1>7, <1>8, <1>20
  <1> HIDE DEF rows, items, all, next, more
  <1>12. K \subseteq 1..m
    BY <1>11
  <1> HIDE DEF K
  <1>13. IsPicked(valid, all, m, Feed!Items, K)
    BY <1>11, <1>12, PickedIs
  <1> HIDE DEF valid
  <1>14. valid \in Seq(Feed!Items) /\ DOMAIN valid = 1..Cardinality(K)
    BY <1>13 DEF IsPicked
  <1>15. ASSUME NEW i \in DOMAIN valid, NEW j \in DOMAIN valid, i < j
         PROVE  valid[i].id[2] < valid[j].id[2]
    <2>1. PICK a \in K, b \in K : a < b /\ valid[i] = all[a] /\ valid[j] = all[b]
      BY <1>13, <1>14, <1>15 DEF IsPicked
    <2> QED
      BY <1>7, <1>12, <1>20, <2>1 DEF IsPage
  <1>16. more => next \in 0..MaxVariants /\ next >= x6.cursor
    <2>1. x6.cursor \in Nat
      BY <1>0 DEF Feed!Runs
    <2> QED
      BY <1>0, <1>5, <1>10, <1>20, <2>1
  <1>17. ASSUME NEW k \in DOMAIN valid
         PROVE  valid[k].id[2] > x6.cursor /\ (more => valid[k].id[2] <= next)
    <2>1. PICK a \in K : valid[k] = all[a]
      BY <1>13, <1>14 DEF IsPicked
    <2>2. a \in 1..m /\ valid[k].id[2] = page[a] /\ page[a] \in E
      BY <1>12, <1>20, <2>1
    <2>3. a < m => page[a] < page[m]
      BY <1>7, <2>2 DEF IsPage
    <2>4. m \in 1..m => page[m] \in Nat
      BY <1>4, <1>20
    <2>5. page[a] \in Nat /\ (a < m \/ a = m)
      <3>1. page[a] \in Nat
        BY <1>4, <2>2
      <3>2. a < m \/ a = m
        BY <2>2
      <3> QED
        BY <3>1, <3>2
    <2> QED
      BY <1>5, <1>10, <2>2, <2>3, <2>4, <2>5
  <1>18. ASSUME NEW i \in Feed!Exportable(x6.mode), i > x6.cursor, more => i <= next
         PROVE  \E k \in DOMAIN valid : valid[k].id[2] = i
    <2>1. i \in E
      BY <1>6, <1>18
    <2>2. PICK k \in 1..m : page[k] = i
      BY <1>7, <1>9, <1>10, <1>18, <2>1 DEF IsPage
    <2>3. k \in K /\ all[k].id[2] = i
      BY <1>20, <1>21, <2>2
    <2> QED
      BY <1>13, <1>14, <2>3 DEF IsPicked
  <1>19. FeedAdds(valid, more, next)
    BY <1>14, <1>15, <1>16, <1>17, <1>18 DEF FeedAdds
  <1> QED
    <2>1. FeedGoesOn(valid, more, next)
      BY <1>3, Zenon DEF FeedGoesOn
    <2> QED
      BY <1>19, <2>1, Zenon

\* What the catalog's requests keep: FeedInv without the run.
CatalogInv ==
    /\ Feed!TypeOK
    /\ x2 \in [Pair -> Seq(Feed!Images)]
    /\ x3 \in [Feed!Ids -> Feed!Variants \cup {Feed!NoVariant}]

\* The part of the feed's invariant that the catalogue's handlers must keep.
LEMMA CatalogInvIs ==
    CatalogInv <=>
       /\ x1 \in [Pair -> {"active", "draft", "none"}]
       /\ x2 \in [Pair -> Seq(Feed!Images)]
       /\ x3 \in [Feed!Ids -> Feed!Variants \cup {Feed!NoVariant}]
       /\ \A i \in Feed!Ids : x3[i] # Feed!NoVariant => i \in x4 /\ x1[x3[i].product] # "none"
       /\ x4 \subseteq Feed!Ids
       /\ x5 \subseteq Pair \cup Feed!Ids
  <1>1. x2 \in [Pair -> Seq(Feed!Images)] =>
           DOMAIN x2 = Pair /\ \A p \in Pair : \A k \in DOMAIN x2[p] : x2[p][k] \in Feed!Images
    OBVIOUS
  <1>2. {"active", "draft"} \cup {"none"} = {"active", "draft", "none"}
    OBVIOUS
  <1>3. x3 \in [Feed!Ids -> Feed!Variants \cup {Feed!NoVariant}] =>
           \A i \in Feed!Ids : x3[i] \in Feed!Variants \cup {Feed!NoVariant}
    OBVIOUS
  <1> QED
    BY <1>1, <1>2, <1>3 DEF CatalogInv, Feed!TypeOK, Feed!Statuses, Feed!NoRow

\* Inserting, removing and choosing the primary image leave a sequence of images.
LEMMA ImagesStaySequences ==
    ASSUME NEW s \in Seq(Feed!Images)
    PROVE  /\ \A k \in 1..(Len(s) + 1), e \in Feed!Images :
                 Feed!InsertAt(s, k, e) \in Seq(Feed!Images)
           /\ \A k \in DOMAIN s : Feed!RemoveAt(s, k) \in Seq(Feed!Images)
           /\ \A k : [j \in DOMAIN s |-> [s[j] EXCEPT !.primary = (j = k)]] \in Seq(Feed!Images)
  <1>0. Len(s) \in Nat /\ DOMAIN s = 1..Len(s)
    OBVIOUS
  <1>1. ASSUME NEW i \in Nat, NEW j \in Nat, 1 <= i, j <= Len(s)
        PROVE  SubSeq(s, i, j) \in Seq(Feed!Images)
    <2>1. SubSeq(s, i, j) \in Seq(Feed!Images)
      BY <1>1, SubSeqProperties
    <2> QED
      BY <2>1
  <1>2. ASSUME NEW k \in 1..(Len(s) + 1), NEW e \in Feed!Images
        PROVE  Feed!InsertAt(s, k, e) \in Seq(Feed!Images)
    <2>1. k - 1 \in Nat /\ k - 1 <= Len(s) /\ k \in Nat /\ 1 <= k
      BY <1>0
    <2>2. SubSeq(s, 1, k - 1) \in Seq(Feed!Images) /\ SubSeq(s, k, Len(s)) \in Seq(Feed!Images)
      BY <1>0, <1>1, <2>1
    <2> QED
      BY <2>2 DEF Feed!InsertAt
  <1>3. ASSUME NEW k \in DOMAIN s PROVE Feed!RemoveAt(s, k) \in Seq(Feed!Images)
    <2>1. k - 1 \in Nat /\ k - 1 <= Len(s) /\ k + 1 \in Nat /\ 1 <= k + 1
      BY <1>0
    <2>2. SubSeq(s, 1, k - 1) \in Seq(Feed!Images)
          /\ SubSeq(s, k + 1, Len(s)) \in Seq(Feed!Images)
      BY <1>0, <1>1, <2>1
    <2> QED
      BY <2>2 DEF Feed!RemoveAt
  <1>4. ASSUME NEW k
        PROVE  [j \in DOMAIN s |-> [s[j] EXCEPT !.primary = (j = k)]] \in Seq(Feed!Images)
    <2>2. \A img \in Feed!Images, b \in BOOLEAN : [img EXCEPT !.primary = b] \in Feed!Images
      BY DEF Feed!Images
    <2>3. \A j \in DOMAIN s : s[j] \in Feed!Images
      BY <1>0
    <2>4. \A j : (j = k) \in BOOLEAN
      BY Zenon
    <2>1. \A j \in DOMAIN s : [s[j] EXCEPT !.primary = (j = k)] \in Feed!Images
      BY <2>2, <2>3, <2>4, Zenon
    <2> DEFINE g(j) == [s[j] EXCEPT !.primary = (j = k)]
    <2>5. \A j \in 1..Len(s) : g(j) \in Feed!Images
      BY <1>0, <2>1
    <2> HIDE DEF g
    <2>6. [j \in 1..Len(s) |-> g(j)] \in Seq(Feed!Images)
      BY <1>0, <2>5
    <2>7. [j \in DOMAIN s |-> [s[j] EXCEPT !.primary = (j = k)]] = [j \in 1..Len(s) |-> g(j)]
      BY <1>0, Zenon DEF g
    <2> QED
      BY <2>6, <2>7, Zenon
  <1> QED
    BY <1>2, <1>3, <1>4

\* The product requests keep the variants of products that are there.
LEMMA CatalogProducts ==
    ASSUME CatalogInv, NEW p \in Pair, Feed!ProductHandlers(p)
    PROVE  CatalogInv'
  <1>1. /\ x1 \in [Pair -> {"active", "draft", "none"}]
        /\ x2 \in [Pair -> Seq(Feed!Images)]
        /\ x3 \in [Feed!Ids -> Feed!Variants \cup {Feed!NoVariant}]
        /\ \A i \in Feed!Ids : x3[i] # Feed!NoVariant => i \in x4 /\ x1[x3[i].product] # "none"
        /\ x4 \subseteq Feed!Ids
        /\ x5 \subseteq Pair \cup Feed!Ids
    BY CatalogInvIs
  <1> DEFINE Goal == /\ x1' \in [Pair -> {"active", "draft", "none"}]
                     /\ x2' \in [Pair -> Seq(Feed!Images)]
                     /\ x3' \in [Feed!Ids -> Feed!Variants \cup {Feed!NoVariant}]
                     /\ \A i \in Feed!Ids : x3'[i] # Feed!NoVariant =>
                           i \in x4' /\ x1'[x3'[i].product] # "none"
                     /\ x4' \subseteq Feed!Ids
                     /\ x5' \subseteq Pair \cup Feed!Ids
  <1>2. ASSUME NEW s \in Feed!Statuses, NEW n \in 1..MaxImages,
               NEW accepted \in [1..n -> BOOLEAN], NEW is \in SUBSET (Feed!Ids \ x4),
               NEW rows \in [is -> [product : {p}, active : BOOLEAN]],
               Feed!CreateProduct(p, s, accepted, rows)
        PROVE  Goal
    <2>1. /\ x1' = [x1 EXCEPT ![p] = s]
          /\ x2' = [x2 EXCEPT ![p] = Feed!saveImages(accepted)]
          /\ x3' = [i \in Feed!Ids |-> IF i \in is THEN rows[i] ELSE x3[i]]
          /\ x4' = x4 \cup is /\ x5' = x5 \cup {p} \cup is
      BY <1>2 DEF Feed!CreateProduct, Feed!CreateProductTx, Feed!buildProductGraph,
            Feed!insertProductTx, Feed!insertVariantTx
    <2>2. Feed!saveImages(accepted) \in Seq(Feed!Images)
      <3>1. n \in Nat /\ Len(accepted) = n
        BY ServicesAssumption
      <3>2. \A a \in BOOLEAN, q \in BOOLEAN : Feed!processSingleImage(a, q) \in Feed!Images
        BY DEF Feed!processSingleImage, Feed!uploadToImageKit, Feed!saveLocally, Feed!Images
      <3>3. \A k \in 1..n : Feed!processSingleImage(accepted[k], k = 1) \in Feed!Images
        BY <3>2
      <3> QED
        BY <3>1, <3>3 DEF Feed!saveImages
    <2>3. s \in {"active", "draft"}
      BY DEF Feed!Statuses
    <2>4. x1' \in [Pair -> {"active", "draft", "none"}]
          /\ \A q \in Pair : x1[q] # "none" \/ q = p => x1'[q] # "none"
      BY <1>1, <2>1, <2>3
    <2>5. \A i \in is : rows[i] \in Feed!Variants /\ rows[i].product = p
      BY DEF Feed!Variants
    <2>6. x3' \in [Feed!Ids -> Feed!Variants \cup {Feed!NoVariant}]
      BY <1>1, <2>1, <2>5
    <2>7. ASSUME NEW i \in Feed!Ids, x3'[i] # Feed!NoVariant
          PROVE  i \in x4' /\ x1'[x3'[i].product] # "none"
      <3>1. CASE i \in is
        BY <2>1, <2>4, <2>5, <3>1
      <3>2. CASE i \notin is
        <4>1. x3'[i] = x3[i] /\ i \in x4 /\ x1[x3[i].product] # "none"
          BY <1>1, <2>1, <2>7, <3>2
        <4>2. x3[i].product \in Pair
          BY <1>1, <2>7, <4>1 DEF Feed!Variants
        <4> QED
          BY <2>1, <2>4, <4>1, <4>2
      <3> QED
        BY <3>1, <3>2
    <2> QED
      BY <1>1, <2>1, <2>2, <2>4, <2>6, <2>7
  <1>3. ASSUME NEW s \in Feed!Statuses, Feed!UpdateProduct(p, s) PROVE Goal
    <2>1. x1' = [x1 EXCEPT ![p] = s] /\ x5' = x5 \cup {p} /\ UNCHANGED <<x2, x3, x4>>
      BY <1>3 DEF Feed!UpdateProduct
    <2>2. s \in {"active", "draft"}
      BY DEF Feed!Statuses
    <2>3. x1' \in [Pair -> {"active", "draft", "none"}]
          /\ \A q : x1[q] # "none" => x1'[q] # "none"
      BY <1>1, <2>1, <2>2
    <2> QED
      BY <1>1, <2>1, <2>3
  <1>4. ASSUME Feed!DeleteProduct(p) PROVE Goal
    <2>1. /\ x1' = [x1 EXCEPT ![p] = "none"] /\ x2' = [x2 EXCEPT ![p] = <<>>]
          /\ x3' = [i \in Feed!Ids |-> IF x3[i].product = p THEN Feed!NoVariant ELSE x3[i]]
          /\ UNCHANGED <<x4, x5>>
      BY <1>4 DEF Feed!DeleteProduct, Feed!NoRow
    <2>2. x1' \in [Pair -> {"active", "draft", "none"}]
          /\ \A q : q # p => x1'[q] = x1[q]
      BY <1>1, <2>1
    <2>3. x2' \in [Pair -> Seq(Feed!Images)]
      <3>1. <<>> \in Seq(Feed!Images)
        OBVIOUS
      <3> QED
        BY <1>1, <2>1, <3>1
    <2>4. x3' \in [Feed!Ids -> Feed!Variants \cup {Feed!NoVariant}]
      BY <1>1, <2>1
    <2>5. \A i \in Feed!Ids : x3'[i] # Feed!NoVariant => x3'[i] = x3[i] /\ x3[i].product # p
      BY <2>1
    <2> QED
      BY <1>1, <2>1, <2>2, <2>3, <2>4, <2>5
  <1>5. Goal
    BY <1>2, <1>3, <1>4 DEF Feed!ProductHandlers
  <1> QED
    BY <1>5, CatalogInvIs DEF CatalogInv, Feed!TypeOK, Feed!Statuses, Feed!NoRow

\* The image requests.
LEMMA CatalogImages ==
    ASSUME CatalogInv, NEW p \in Pair, Feed!ImageHandlers(p)
    PROVE  CatalogInv'
  <1>1. /\ x2 \in [Pair -> Seq(Feed!Images)]
        /\ x2[p] \in Seq(Feed!Images)
    BY CatalogInvIs
  <1>2. ASSUME x2' \in [Pair -> Seq(Feed!Images)], UNCHANGED <<x1, x3, x4, x5>>
        PROVE  CatalogInv'
    <2>1. /\ x1' \in [Pair -> {"active", "draft", "none"}]
          /\ x3' \in [Feed!Ids -> Feed!Variants \cup {Feed!NoVariant}]
          /\ \A i \in Feed!Ids : x3'[i] # Feed!NoVariant => i \in x4' /\ x1'[x3'[i].product] # "none"
          /\ x4' \subseteq Feed!Ids
          /\ x5' \subseteq Pair \cup Feed!Ids
      BY <1>2, CatalogInvIs
    <2> QED
      BY <1>2, <2>1, CatalogInvIs DEF CatalogInv, Feed!TypeOK, Feed!Statuses, Feed!NoRow
  <1>3. ASSUME NEW s \in Seq(Feed!Images), x2' = [x2 EXCEPT ![p] = s], UNCHANGED <<x1, x3, x4, x5>>
        PROVE  CatalogInv'
    <2>1. x2' \in [Pair -> Seq(Feed!Images)]
      BY <1>1, <1>3
    <2> QED
      BY <1>2, <1>3, <2>1
  <1>4. ASSUME NEW k \in 1..(Len(x2[p]) + 1), NEW a \in BOOLEAN, NEW f \in BOOLEAN,
               Feed!AddProductImage(p, k, a, f)
        PROVE  CatalogInv'
    <2>1. Feed!processSingleImage(a, f) \in Feed!Images
      BY DEF Feed!processSingleImage, Feed!uploadToImageKit, Feed!saveLocally, Feed!Images
    <2> DEFINE s == Feed!InsertAt(x2[p], k, Feed!processSingleImage(a, f))
    <2>2. s \in Seq(Feed!Images)
      BY <1>1, <2>1, ImagesStaySequences
    <2>3. x2' = [x2 EXCEPT ![p] = s] /\ UNCHANGED <<x1, x3, x4, x5>>
      BY <1>4 DEF Feed!AddProductImage, Feed!insertProductImageTx
    <2> HIDE DEF s
    <2> QED
      BY <1>3, <2>2, <2>3
  <1>5. ASSUME NEW k \in DOMAIN x2[p], Feed!DeleteProductImage(p, k)
        PROVE  CatalogInv'
    <2> DEFINE s == Feed!RemoveAt(x2[p], k)
    <2>2. s \in Seq(Feed!Images)
      BY <1>1, ImagesStaySequences
    <2>3. x2' = [x2 EXCEPT ![p] = s] /\ UNCHANGED <<x1, x3, x4, x5>>
      BY <1>5 DEF Feed!DeleteProductImage
    <2> HIDE DEF s
    <2> QED
      BY <1>3, <2>2, <2>3
  <1>6. ASSUME NEW k \in DOMAIN x2[p], Feed!SetPrimaryImage(p, k)
        PROVE  CatalogInv'
    <2> DEFINE s == [j \in DOMAIN x2[p] |-> [x2[p][j] EXCEPT !.primary = (j = k)]]
    <2>2. s \in Seq(Feed!Images)
      BY <1>1, ImagesStaySequences
    <2>3. x2' = [x2 EXCEPT ![p] = s] /\ UNCHANGED <<x1, x3, x4, x5>>
      BY <1>6, Zenon DEF Feed!SetPrimaryImage
    <2> HIDE DEF s
    <2> QED
      BY <1>3, <2>2, <2>3
  <1> QED
    BY <1>4, <1>5, <1>6 DEF Feed!ImageHandlers

\* The variant requests.
LEMMA CatalogVariants ==
    ASSUME CatalogInv, NEW i \in Feed!Ids, Feed!VariantHandlers(i)
    PROVE  CatalogInv'
  <1>1. /\ x1 \in [Pair -> {"active", "draft", "none"}]
        /\ x2 \in [Pair -> Seq(Feed!Images)]
        /\ x3 \in [Feed!Ids -> Feed!Variants \cup {Feed!NoVariant}]
        /\ \A j \in Feed!Ids : x3[j] # Feed!NoVariant => j \in x4 /\ x1[x3[j].product] # "none"
        /\ x4 \subseteq Feed!Ids
        /\ x5 \subseteq Pair \cup Feed!Ids
    BY CatalogInvIs
  <1>2. ASSUME NEW v \in Feed!Variants \cup {Feed!NoVariant},
               x3' = [x3 EXCEPT ![i] = v], v # Feed!NoVariant => x1[v.product] # "none" /\ i \in x4',
               x4 \subseteq x4', x4' \subseteq Feed!Ids, x5' \subseteq Pair \cup Feed!Ids,
               UNCHANGED <<x1, x2>>
        PROVE  CatalogInv'
    <2>1. x3' \in [Feed!Ids -> Feed!Variants \cup {Feed!NoVariant}]
      BY <1>1, <1>2
    <2>2. \A j \in Feed!Ids : x3'[j] # Feed!NoVariant => j \in x4' /\ x1'[x3'[j].product] # "none"
      BY <1>1, <1>2
    <2> QED
      BY <1>1, <1>2, <2>1, <2>2, CatalogInvIs DEF CatalogInv, Feed!TypeOK, Feed!Statuses, Feed!NoRow
  <1>3. ASSUME NEW p \in Pair, NEW a \in BOOLEAN, Feed!CreateVariant(i, p, a)
        PROVE  CatalogInv'
    <2> DEFINE v == [product |-> p, active |-> a]
    <2>1. /\ x3' = [j \in Feed!Ids |-> IF j \in {i} THEN v ELSE x3[j]]
          /\ x4' = x4 \cup {i} /\ x5' = x5 \cup {i} /\ UNCHANGED <<x1, x2>>
          /\ x1[p] # "none"
      BY <1>3 DEF Feed!CreateVariant, Feed!insertVariantTx, Feed!NoRow
    <2>2. x3' = [x3 EXCEPT ![i] = v]
      BY <1>1, <2>1
    <2>3. v \in Feed!Variants /\ v.product = p
      BY DEF Feed!Variants
    <2> HIDE DEF v
    <2> QED
      BY <1>1, <1>2, <2>1, <2>2, <2>3
  <1>4. ASSUME NEW a \in BOOLEAN, Feed!UpdateVariant(i, a)
        PROVE  CatalogInv'
    <2> DEFINE v == [x3[i] EXCEPT !.active = a]
    <2>1. x3[i] # Feed!NoVariant /\ x3' = [x3 EXCEPT ![i] = v] /\ UNCHANGED <<x1, x2, x4, x5>>
      BY <1>4 DEF Feed!UpdateVariant
    <2>2. x3[i] \in Feed!Variants /\ i \in x4 /\ x1[x3[i].product] # "none"
      BY <1>1, <2>1
    <2>3. v \in Feed!Variants /\ v.product = x3[i].product
      BY <2>2 DEF Feed!Variants
    <2> HIDE DEF v
    <2> QED
      BY <1>1, <1>2, <2>1, <2>2, <2>3
  <1>5. ASSUME Feed!DeleteVariant(i)
        PROVE  CatalogInv'
    <2>1. x3' = [x3 EXCEPT ![i] = Feed!NoVariant] /\ UNCHANGED <<x1, x2, x4, x5>>
      BY <1>5 DEF Feed!DeleteVariant
    <2> QED
      BY <1>1, <1>2, <2>1
  <1> QED
    BY <1>3, <1>4, <1>5 DEF Feed!VariantHandlers

\* Every handler of the catalogue keeps its tables well-formed.
LEMMA CatalogNext ==
    ASSUME CatalogInv, Feed!Next
    PROVE  CatalogInv'
  BY CatalogProducts, CatalogImages, CatalogVariants DEF Feed!Next

\* What a run that loaded everything now would export.
FeedExportable == Feed!Exportable(x6.mode)

\* What is exportable depends on the tables and the run's mode only.
LEMMA FeedExportableStays ==
    /\ UNCHANGED <<x1, x2, x3, x5>> /\ x6'.mode = x6.mode => FeedExportable' = FeedExportable
    /\ \A mode : UNCHANGED <<x1, x2, x3, x5>> /\ x6'.mode = mode
                   => FeedExportable' = Feed!Exportable(mode)
    /\ \A mode : x6'.mode = mode => FeedExportable' = Feed!Exportable(mode)'
  <1>1. UNCHANGED <<x1, x2, x3, x5>> /\ x6'.mode = x6.mode => FeedExportable' = FeedExportable
    BY Zenon DEF FeedExportable, Feed!Exportable, Feed!eligible_variants, Feed!FeedRow
  <1>2. ASSUME NEW mode, UNCHANGED <<x1, x2, x3, x5>>, x6'.mode = mode
        PROVE  FeedExportable' = Feed!Exportable(mode)
    BY <1>2, Zenon DEF FeedExportable, Feed!Exportable, Feed!eligible_variants, Feed!FeedRow
  <1>3. ASSUME NEW mode, x6'.mode = mode
        PROVE  FeedExportable' = Feed!Exportable(mode)'
    BY <1>3, Zenon DEF FeedExportable, Feed!Exportable, Feed!eligible_variants, Feed!FeedRow
  <1> QED
    BY <1>1, <1>2, <1>3, Zenon

\* What FeedInv says of the run.
FeedRunInv ==
    /\ x6 \in Feed!Runs
    /\ \A j, k \in DOMAIN x6.items : j < k => x6.items[j].id[2] < x6.items[k].id[2]
    /\ x6.pc = "load" =>
          /\ \A i \in Feed!Loaded : i <= x6.cursor
          /\ \A i \in x6.steady : i <= x6.cursor => i \in Feed!Loaded
          /\ x6.steady \subseteq FeedExportable
    /\ x6.pc = "done" => x6.steady \subseteq Feed!Loaded

\* The feed's invariant is one of the tables and one of the run.
LEMMA FeedInvIs == Feed!FeedInv <=> CatalogInv /\ FeedRunInv
  BY Zenon DEF Feed!FeedInv, CatalogInv, FeedRunInv, FeedExportable

\* No run is under way: nothing is promised.
LEMMA FeedIdles ==
    ASSUME x6' = Feed!Idle
    PROVE  FeedRunInv'
  <1>1. /\ x6'.pc = "idle" /\ x6'.items = <<>> /\ x6'.mode = "full"
        /\ x6'.cursor = 0 /\ x6'.steady = {}
    BY DEF Feed!Idle
  <1>2. x6' \in Feed!Runs
    <2>1. 0 \in 0..MaxVariants /\ <<>> \in Seq(Feed!Items) /\ {} \in SUBSET Feed!Ids
      BY ServicesAssumption
    <2> QED
      BY <2>1 DEF Feed!Idle, Feed!Runs
  <1> QED
    BY <1>1, <1>2 DEF FeedRunInv

\* Nothing is loaded yet, and nothing is behind the cursor.
LEMMA FeedStarts ==
    ASSUME NEW mode \in {"full", "incremental"}, Feed!Start(mode)
    PROVE  FeedRunInv'
  <1> DEFINE S == Feed!Exportable(mode)
  <1>1. x6' = [Feed!Idle EXCEPT !.pc = "load", !.mode = mode, !.steady = S] /\ UNCHANGED Feed!vars
    BY Zenon DEF Feed!Start
  <1>2. S \subseteq Feed!Ids
    BY Zenon DEF Feed!Exportable, Feed!eligible_variants
  <1> HIDE DEF S
  <1>4. /\ x6'.pc = "load" /\ x6'.items = <<>> /\ x6'.mode = mode
        /\ x6'.cursor = 0 /\ x6'.steady = S
    BY <1>1 DEF Feed!Idle
  <1>5. x6' \in Feed!Runs
    <2>1. 0 \in 0..MaxVariants /\ <<>> \in Seq(Feed!Items) /\ S \in SUBSET Feed!Ids
      BY <1>2, ServicesAssumption
    <2> QED
      BY <1>1, <2>1 DEF Feed!Idle, Feed!Runs
  <1>6. Feed!Loaded' = {}
    BY <1>4 DEF Feed!Loaded
  <1>7. \A i \in S : ~(i <= 0)
    <2>1. \A i \in Feed!Ids : ~(i <= 0)
      BY ServicesAssumption DEF Feed!Ids
    <2> QED
      BY <1>2, <2>1
  <1>8. x6'.steady \subseteq FeedExportable'
    <2>1. FeedExportable' = S
      BY <1>1, <1>4, FeedExportableStays, Zenon DEF S, Feed!vars
    <2> QED
      BY <1>4, <2>1
  <1> QED
    BY <1>4, <1>5, <1>6, <1>7, <1>8 DEF FeedRunInv

\* The batch goes on from the cursor and leaves nothing out.
LEMMA FeedLoads ==
    ASSUME Feed!FeedInv, Feed!LoadBatch
    PROVE  FeedRunInv'
  <1>1. PICK valid, more, next : FeedAdds(valid, more, next) /\ FeedGoesOn(valid, more, next)
    BY FeedBatch, Zenon
  <1>2. x6 \in Feed!Runs /\ x6.pc = "load" /\ UNCHANGED <<x1, x2, x3, x4, x5>>
    BY Zenon DEF Feed!LoadBatch, Feed!FeedInv, Feed!vars
  <1>3. /\ \A j, k \in DOMAIN x6.items : j < k => x6.items[j].id[2] < x6.items[k].id[2]
        /\ \A i \in Feed!Loaded : i <= x6.cursor
        /\ \A i \in x6.steady : i <= x6.cursor => i \in Feed!Loaded
        /\ x6.steady \subseteq Feed!Exportable(x6.mode)
    BY <1>2, Zenon DEF Feed!FeedInv
  <1> DEFINE items == x6.items \o valid
             E == Feed!Exportable(x6.mode)
             m == Len(x6.items)
             n == Len(valid)
  <1>4. /\ x6.items \in Seq(Feed!Items) /\ x6.cursor \in 0..MaxVariants
        /\ x6.mode \in {"full", "incremental"} /\ x6.steady \subseteq Feed!Ids
    BY <1>2 DEF Feed!Runs
  <1>5. /\ valid \in Seq(Feed!Items)
        /\ \A j, k \in DOMAIN valid : j < k => valid[j].id[2] < valid[k].id[2]
        /\ \A k \in DOMAIN valid : valid[k].id[2] > x6.cursor /\ (more => valid[k].id[2] <= next)
        /\ more => next \in 0..MaxVariants /\ next >= x6.cursor
        /\ \A i \in E : i > x6.cursor /\ (more => i <= next)
                        => \E k \in DOMAIN valid : valid[k].id[2] = i
    BY <1>1, Zenon DEF FeedAdds
  <1>6. /\ x6'.items = items /\ x6'.mode = x6.mode /\ x6'.steady = x6.steady
        /\ x6'.pc = (IF more THEN "load" ELSE "done")
        /\ x6'.cursor = (IF more THEN next ELSE x6.cursor)
    BY <1>1, <1>2 DEF FeedGoesOn, Feed!Runs
  <1>7. m \in Nat /\ n \in Nat /\ DOMAIN x6.items = 1..m /\ DOMAIN valid = 1..n
        /\ DOMAIN items = 1..(m + n) /\ items \in Seq(Feed!Items)
    BY <1>4, <1>5
  <1>8. /\ \A k \in 1..m : items[k] = x6.items[k]
        /\ \A k \in 1..n : items[m + k] = valid[k]
        /\ \A k \in 1..(m + n) : k \in 1..m \/ \E l \in 1..n : k = m + l /\ items[k] = valid[l]
    <2>1. \A k \in 1..m : items[k] = x6.items[k]
      BY <1>4, <1>5
    <2>2. \A k \in 1..n : items[m + k] = valid[k]
      BY <1>4, <1>5
    <2>3. ASSUME NEW k \in 1..(m + n), k \notin 1..m
          PROVE  \E l \in 1..n : k = m + l /\ items[k] = valid[l]
      <3>1. k - m \in 1..n /\ k = m + (k - m)
        BY <1>7, <2>3
      <3> HIDE DEF items, m, n
      <3>2. items[m + (k - m)] = valid[k - m]
        BY <2>2, <3>1
      <3> QED
        BY <3>1, <3>2
    <2> QED
      BY <2>1, <2>2, <2>3
  <1> HIDE DEF items, m, n, E
  <1>9. \A k \in 1..m : x6.items[k].id[2] \in Feed!Loaded
    BY <1>7 DEF Feed!Loaded
  <1>10. \A i \in Feed!Ids : i \in Nat
    BY DEF Feed!Ids
  <1>11. \A item \in Feed!Items : item.id[2] \in Nat
    BY <1>10 DEF Feed!Items
  <1>12. /\ \A k \in 1..m : items[k].id[2] \in Nat /\ items[k].id[2] <= x6.cursor
         /\ \A k \in 1..(m + n) : items[k].id[2] \in Nat
    <2>1. \A k \in 1..(m + n) : items[k] \in Feed!Items
      BY <1>7
    <2>2. \A k \in 1..m : k \in 1..(m + n)
      BY <1>7
    <2> QED
      BY <1>3, <1>8, <1>9, <1>11, <2>1, <2>2
  <1>13. ASSUME NEW j \in 1..(m + n), NEW k \in 1..(m + n), j < k
         PROVE  items[j].id[2] < items[k].id[2]
    <2>1. CASE k \in 1..m
      <3>1. j \in 1..m
        BY <1>7, <1>13, <2>1
      <3> QED
        BY <1>3, <1>7, <1>8, <1>13, <2>1, <3>1
    <2>2. CASE k \notin 1..m
      <3>1. PICK l \in 1..n : k = m + l /\ items[k] = valid[l]
        BY <1>8, <2>2
      <3>2. CASE j \in 1..m
        <4>1. items[j].id[2] <= x6.cursor /\ items[k].id[2] > x6.cursor
          BY <1>5, <1>7, <1>12, <3>1, <3>2
        <4> QED
          BY <1>4, <1>12, <4>1
      <3>3. CASE j \notin 1..m
        <4>1. PICK h \in 1..n : j = m + h /\ items[j] = valid[h]
          BY <1>8, <3>3
        <4>2. h < l
          BY <1>7, <1>13, <3>1, <4>1
        <4> QED
          BY <1>5, <1>7, <3>1, <4>1, <4>2
      <3> QED
        BY <3>2, <3>3
    <2> QED
      BY <2>1, <2>2
  <1>14. Feed!Loaded' = {items[k].id[2] : k \in 1..(m + n)}
    BY <1>6, <1>7 DEF Feed!Loaded
  <1>15. \A i \in Feed!Loaded : i \in Feed!Loaded'
    <2>1. \A i \in Feed!Loaded : \E k \in 1..m : i = x6.items[k].id[2]
      BY <1>7 DEF Feed!Loaded
    <2>2. \A k \in 1..m : k \in 1..(m + n)
      BY <1>7
    <2> QED
      BY <1>8, <1>14, <2>1, <2>2
  <1>16. \A l \in 1..n : valid[l].id[2] \in Feed!Loaded'
    <2>1. \A l \in 1..n : m + l \in 1..(m + n)
      BY <1>7
    <2> QED
      BY <1>8, <1>14, <2>1
  <1>17. ASSUME NEW i \in x6.steady, more => i <= next PROVE i \in Feed!Loaded'
    <2>1. i \in Nat /\ x6.cursor \in Nat /\ i \in E
      BY <1>3, <1>4, <1>10 DEF E
    <2>2. CASE i <= x6.cursor
      BY <1>3, <1>15, <2>2
    <2>3. CASE i > x6.cursor
      BY <1>5, <1>7, <1>16, <1>17, <2>1, <2>3
    <2> QED
      BY <2>1, <2>2, <2>3
  <1>18. FeedExportable' = Feed!Exportable(x6.mode)
    BY <1>2, <1>6, FeedExportableStays, Zenon DEF FeedExportable
  <1>19. ASSUME more, NEW i \in Feed!Loaded' PROVE i <= next
    <2>1. PICK k \in 1..(m + n) : i = items[k].id[2]
      BY <1>14
    <2>2. next \in Nat /\ x6.cursor \in Nat /\ x6.cursor <= next
      BY <1>4, <1>5, <1>19
    <2>3. CASE k \in 1..m
      BY <1>12, <2>1, <2>2, <2>3
    <2>4. CASE k \notin 1..m
      <3>1. PICK l \in 1..n : items[k] = valid[l]
        BY <1>8, <2>4
      <3> QED
        BY <1>5, <1>7, <1>19, <2>1, <3>1
    <2> QED
      BY <2>3, <2>4
  <1>20. x6' \in Feed!Runs
    <2>1. x6'.cursor \in 0..MaxVariants /\ x6'.pc \in {"load", "done"}
      BY <1>4, <1>5, <1>6
    <2>2. x6' = [pc |-> x6'.pc, mode |-> x6'.mode, cursor |-> x6'.cursor, items |-> x6'.items,
                 steady |-> x6'.steady]
      BY <1>1, <1>2 DEF FeedGoesOn, Feed!Runs
    <2>3. x6'.items \in Seq(Feed!Items) /\ x6'.mode \in {"full", "incremental"}
          /\ x6'.steady \in SUBSET Feed!Ids
      BY <1>4, <1>6, <1>7
    <2> QED
      BY <2>1, <2>2, <2>3 DEF Feed!Runs
  <1>21. \A j, k \in DOMAIN x6'.items : j < k => x6'.items[j].id[2] < x6'.items[k].id[2]
    BY <1>6, <1>7, <1>13
  <1>22. CASE more
    <2>1. x6'.pc = "load" /\ x6'.cursor = next
      BY <1>6, <1>22
    <2>2. \A i \in Feed!Loaded' : i <= x6'.cursor
      BY <1>19, <1>22, <2>1
    <2>3. \A i \in x6'.steady : i <= x6'.cursor => i \in Feed!Loaded'
      BY <1>6, <1>17, <2>1
    <2>4. x6'.steady \subseteq FeedExportable'
      BY <1>3, <1>6, <1>18, Zenon
    <2> QED
      BY <1>20, <1>21, <2>1, <2>2, <2>3, <2>4 DEF FeedRunInv
  <1>23. CASE ~more
    <2>1. x6'.pc = "done"
      BY <1>6, <1>23
    <2>2. x6'.steady \subseteq Feed!Loaded'
      BY <1>6, <1>17, <1>23
    <2> QED
      BY <1>20, <1>21, <2>1, <2>2 DEF FeedRunInv
  <1> QED
    BY <1>22, <1>23

\* steady stays exportable, by its definition, and the items stay.
LEMMA FeedAdministers ==
    ASSUME Feed!FeedInv, Feed!Administrate
    PROVE  FeedRunInv'
  <1>1. x6 \in Feed!Runs /\ FeedRunInv /\ x6.pc # "done"
    BY FeedInvIs, Zenon DEF Feed!Administrate, Feed!FeedInv
  <1> DEFINE S == IF x6.pc = "load" THEN x6.steady \cap FeedExportable' ELSE x6.steady
  <1>2. x6' = [x6 EXCEPT !.steady = S]
    <2>1. PICK mode \in {x6.mode} :
             x6' = [x6 EXCEPT !.steady = IF x6.pc = "load" THEN @ \cap Feed!Exportable(mode)' ELSE @]
      BY Zenon DEF Feed!Administrate
    <2>2. x6'.mode = mode
      BY <1>1, <2>1 DEF Feed!Runs
    <2>3. FeedExportable' = Feed!Exportable(mode)'
      BY <2>2, FeedExportableStays, Zenon
    <2> QED
      BY <2>1, <2>3, Zenon
  <1>3. S \subseteq x6.steady /\ (x6.pc = "load" => S \subseteq FeedExportable')
    OBVIOUS
  <1> HIDE DEF S
  <1>4. /\ x6'.pc = x6.pc /\ x6'.items = x6.items /\ x6'.mode = x6.mode
        /\ x6'.cursor = x6.cursor /\ x6'.steady = S /\ x6' \in Feed!Runs
    BY <1>1, <1>2, <1>3 DEF Feed!Runs
  <1>5. Feed!Loaded' = Feed!Loaded
    BY <1>4, Zenon DEF Feed!Loaded
  <1>6. x6.pc = "load" => S \subseteq FeedExportable'
    BY <1>3, <1>4
  <1> QED
    BY <1>1, <1>3, <1>4, <1>5, <1>6 DEF FeedRunInv

\* Before any run the invariant holds.
LEMMA FeedInit ==
    ASSUME Feed!FeedInit
    PROVE  Feed!FeedInv
  <1>1. CatalogInv
    <2>1. <<>> \in Seq(Feed!Images)
      OBVIOUS
    <2> QED
      BY <2>1, CatalogInvIs DEF Feed!FeedInit, Feed!Init, Feed!NoRow
  <1>2. x6 = Feed!Idle
    BY DEF Feed!FeedInit
  <1>3. /\ x6.pc = "idle" /\ x6.items = <<>> /\ x6.mode = "full"
        /\ x6.cursor = 0 /\ x6.steady = {}
    BY <1>2 DEF Feed!Idle
  <1>4. x6 \in Feed!Runs
    <2>1. 0 \in 0..MaxVariants /\ <<>> \in Seq(Feed!Items) /\ {} \in SUBSET Feed!Ids
      BY ServicesAssumption
    <2> QED
      BY <1>2, <2>1 DEF Feed!Idle, Feed!Runs
  <1>5. FeedRunInv
    BY <1>3, <1>4 DEF FeedRunInv
  <1> QED
    BY <1>1, <1>5, FeedInvIs

\* Handlers, batches and the end of a run keep the feed's invariant.
LEMMA FeedNext ==
    ASSUME Feed!FeedInv, [Feed!FeedNext]_(Feed!feedVars)
    PROVE  Feed!FeedInv'
  <1> SUFFICES CatalogInv' /\ FeedRunInv'
    BY Zenon DEF Feed!FeedInv, CatalogInv, FeedRunInv, FeedExportable
  <1>1. CatalogInv /\ FeedRunInv
    BY FeedInvIs
  <1>2. ASSUME UNCHANGED <<x1, x2, x3, x4, x5>> PROVE CatalogInv'
    <2>1. /\ x1' \in [Pair -> {"active", "draft", "none"}]
          /\ x2' \in [Pair -> Seq(Feed!Images)]
          /\ x3' \in [Feed!Ids -> Feed!Variants \cup {Feed!NoVariant}]
          /\ \A i \in Feed!Ids : x3'[i] # Feed!NoVariant => i \in x4' /\ x1'[x3'[i].product] # "none"
          /\ x4' \subseteq Feed!Ids
          /\ x5' \subseteq Pair \cup Feed!Ids
      BY <1>1, <1>2, CatalogInvIs
    <2> QED
      BY <2>1, CatalogInvIs DEF CatalogInv, Feed!TypeOK, Feed!Statuses, Feed!NoRow
  <1>20. UNCHANGED Feed!vars => CatalogInv'
    BY <1>2 DEF Feed!vars
  <1>21. x6' = Feed!Idle => FeedRunInv'
    BY FeedIdles
  <1>3. ASSUME NEW mode \in {"full", "incremental"}, Feed!Start(mode)
        PROVE  CatalogInv' /\ FeedRunInv'
    <2>1. FeedRunInv'
      BY <1>3, FeedStarts
    <2>2. UNCHANGED Feed!vars
      BY <1>3, Zenon DEF Feed!Start
    <2> QED
      BY <1>20, <2>1, <2>2, Zenon
  <1>4. CASE Feed!LoadBatch
    <2>1. FeedRunInv'
      BY <1>4, FeedLoads
    <2>2. UNCHANGED Feed!vars
      BY <1>4, Zenon DEF Feed!LoadBatch
    <2> QED
      BY <1>20, <2>1, <2>2, Zenon
  <1>5. CASE Feed!streamXML
    BY <1>5, <1>20, <1>21, Zenon DEF Feed!streamXML
  <1>6. CASE Feed!Fail
    BY <1>6, <1>20, <1>21, Zenon DEF Feed!Fail
  <1>7. CASE Feed!Administrate
    <2>1. FeedRunInv'
      BY <1>7, FeedAdministers
    <2>2. CatalogInv'
      <3>1. Feed!Next
        BY <1>7, Zenon DEF Feed!Administrate
      <3> QED
        BY <1>1, <3>1, CatalogNext
    <2> QED
      BY <2>1, <2>2, Zenon
  <1>8. CASE Feed!NameLater
    <2>1. x6' = Feed!Idle /\ x5' = {} /\ UNCHANGED <<x1, x2, x3, x4>>
      BY <1>8 DEF Feed!NameLater
    <2>2. CatalogInv'
      <3>1. /\ x1' \in [Pair -> {"active", "draft", "none"}]
            /\ x2' \in [Pair -> Seq(Feed!Images)]
            /\ x3' \in [Feed!Ids -> Feed!Variants \cup {Feed!NoVariant}]
            /\ \A i \in Feed!Ids : x3'[i] # Feed!NoVariant => i \in x4' /\ x1'[x3'[i].product] # "none"
            /\ x4' \subseteq Feed!Ids
            /\ x5' \subseteq Pair \cup Feed!Ids
        BY <1>1, <2>1, CatalogInvIs
      <3> QED
        BY <3>1, CatalogInvIs DEF CatalogInv, Feed!TypeOK, Feed!Statuses, Feed!NoRow
    <2> QED
      BY <1>21, <2>1, <2>2, Zenon
  <1>9. CASE UNCHANGED Feed!feedVars
    <2>1. UNCHANGED <<x1, x2, x3, x4, x5, x6>>
      BY <1>9 DEF Feed!feedVars
    <2>2. Feed!Loaded' = Feed!Loaded /\ FeedExportable' = FeedExportable
      <3>1. x6'.mode = x6.mode
        BY <2>1
      <3> QED
        BY <2>1, <3>1, FeedExportableStays, Zenon DEF Feed!Loaded
    <2>3. FeedRunInv'
      BY <1>1, <2>1, <2>2, Zenon DEF FeedRunInv
    <2>4. CatalogInv'
      BY <1>2, <2>1
    <2> QED
      BY <2>3, <2>4, Zenon
  <1> QED
    BY <1>3, <1>4, <1>5, <1>6, <1>7, <1>8, <1>9, Zenon
       DEF Feed!FeedNext, Feed!PublicFeed, Feed!GenerateFull, Feed!GenerateIncremental

\* Whatever was exportable during the whole run is in the document, once.
LEMMA FeedInvGives ==
    ASSUME Feed!FeedInv
    PROVE  Feed!FeedComplete
  <1> DEFINE ids == Feed!BuildRSSFeed(x6.items)
  <1>1. ids = [k \in DOMAIN x6.items |-> x6.items[k].id]
    BY Zenon DEF Feed!BuildRSSFeed, Feed!toRSSItem
  <1>2. DOMAIN ids = DOMAIN x6.items /\ \A k \in DOMAIN x6.items : ids[k] = x6.items[k].id
    BY <1>1
  <1>3. FeedRunInv
    BY FeedInvIs
  <1> HIDE DEF ids
  <1>4. ASSUME x6.pc = "done" PROVE x6.steady \subseteq {id[2] : id \in Feed!ToSet(ids)}
    <2>1. x6.steady \subseteq {x6.items[k].id[2] : k \in DOMAIN x6.items}
      BY <1>3, <1>4 DEF FeedRunInv, Feed!Loaded
    <2>2. \A k \in DOMAIN x6.items : x6.items[k].id \in Feed!ToSet(ids)
      BY <1>2 DEF Feed!ToSet
    <2> QED
      BY <2>1, <2>2
  <1>5. \A j, k \in DOMAIN ids : j < k => ids[j][2] < ids[k][2]
    BY <1>2, <1>3 DEF FeedRunInv
  <1> QED
    BY <1>4, <1>5 DEF Feed!FeedComplete, ids

\* The feed module's invariant always holds.
THEOREM FeedSafe == Spec => [](component = "feed" => Feed!FeedInv)
  <1> DEFINE IInv == component = "feed" => Feed!FeedInv
  <1>1. Init => IInv
    BY FeedInit DEF Init
  <1>2. IInv /\ [Next]_vars => IInv'
    <2> SUFFICES ASSUME IInv, [Next]_vars, component' = "feed" PROVE Feed!FeedInv'
      OBVIOUS
    <2>1. component = "feed" /\ [Feed!FeedNext]_(Feed!feedVars)
      BY DEF Next, vars, Feed!feedVars
    <2> QED
      BY <2>1, FeedNext
  <1> QED
    BY <1>1, <1>2, PTL DEF Spec

\* A merchant feed holds, once, every variant that could be exported during the
\* whole run, however administrators change the catalog between its batches
\* (Generator.run, MerchantRepository.LoadFeedBatch).
THEOREM FeedsAreComplete == Spec => []FeedComplete
  <1> DEFINE IInv == component = "feed" => Feed!FeedInv
  <1>1. IInv => FeedComplete
    BY FeedInvGives DEF FeedComplete
  <1> QED
    BY <1>1, FeedSafe, PTL

-----------------------------------------------------------------------------
(* Discovery: status is x1, cache x2 *)

\* Discovery's copies of Ranking's operators are those the lemmas speak of.
LEMMA DiscoverRanking ==
    /\ \A S, R : Discover!InOrder(S, R) = InOrder(S, R)
    /\ \A s, K : Discover!Picked(s, K) = Picked(s, K)
  <1>1. ASSUME NEW S PROVE Discover!Cardinality(S) = Cardinality(S)
    BY Zenon DEF Discover!Cardinality, Cardinality
  <1>2. ASSUME NEW S, NEW R PROVE Discover!InOrder(S, R) = InOrder(S, R)
    BY Zenon DEF Discover!InOrder, InOrder, Discover!Cardinality, Cardinality
  <1>3. ASSUME NEW S PROVE Discover!Ascending(S) = Ascending(S)
    BY <1>2, Zenon DEF Discover!Ascending, Ascending
  <1>4. ASSUME NEW s, NEW K PROVE Discover!Picked(s, K) = Picked(s, K)
    <2>1. Discover!Cardinality(K) = Cardinality(K) /\ Discover!Ascending(K) = Ascending(K)
      BY <1>1, <1>3
    <2> QED
      BY <2>1, Zenon DEF Discover!Picked, Picked
  <1> QED
    BY <1>2, <1>4

\* A list of up to n products of T, no product twice.
IsList(s, T, n) ==
    /\ s \in Seq(T) /\ Len(s) <= n
    /\ \A i, j \in 1..Len(s) : s[i] = s[j] => i = j

\* A list without repetition is one in the model's terms, and stays one in wider bounds.
LEMMA ListsOf ==
    ASSUME NEW s, NEW T, NEW n \in Nat, IsList(s, T, n)
    PROVE  /\ Discover!IsInjective(s) /\ Discover!Range(s) \subseteq T
           /\ \A U : T \subseteq U => IsList(s, U, n)
           /\ \A m \in Nat : n <= m => IsList(s, T, m)
           /\ DOMAIN s = 1..Len(s) /\ Len(s) \in Nat
  <1>1. s \in Seq(T) /\ Len(s) <= n /\ Len(s) \in Nat /\ DOMAIN s = 1..Len(s)
        /\ \A i, j \in 1..Len(s) : s[i] = s[j] => i = j
    BY DEF IsList
  <1>2. Discover!IsInjective(s)
    BY <1>1 DEF Discover!IsInjective
  <1>3. Discover!Range(s) \subseteq T
    BY <1>1 DEF Discover!Range
  <1>4. ASSUME NEW U, T \subseteq U PROVE IsList(s, U, n)
    <2>1. s \in Seq(U)
      BY <1>1, <1>4
    <2> QED
      BY <1>1, <2>1 DEF IsList
  <1>5. ASSUME NEW m \in Nat, n <= m PROVE IsList(s, T, m)
    <2>1. Len(s) <= m
      BY <1>1, <1>5
    <2> QED
      BY <1>1, <2>1 DEF IsList
  <1> QED
    BY <1>1, <1>2, <1>3, <1>4, <1>5

\* The model's feeds are the lists of products that fit the limit.
LEMMA FeedsAreLists ==
    ASSUME NEW s
    PROVE  /\ s \in Discover!Feeds /\ Discover!IsInjective(s) <=> IsList(s, Offered, Limit + 1)
           /\ s \in Discover!Feeds => s \in Seq(Offered) /\ Len(s) <= Limit + 1
  <1>0. Limit + 1 \in Nat
    BY ServicesAssumption
  <1>1. s \in Discover!Feeds <=> \E n \in 0..(Limit + 1) : s \in [1..n -> Offered]
    BY DEF Discover!Feeds
  <1>2. ASSUME s \in Discover!Feeds
        PROVE  s \in Seq(Offered) /\ Len(s) <= Limit + 1 /\ DOMAIN s = 1..Len(s)
    <2>1. PICK n \in 0..(Limit + 1) : s \in [1..n -> Offered]
      BY <1>1, <1>2
    <2> QED
      BY <1>0, <2>1
  <1>3. ASSUME s \in Seq(Offered), Len(s) <= Limit + 1 PROVE s \in Discover!Feeds
    <2>1. Len(s) \in 0..(Limit + 1) /\ s \in [1..Len(s) -> Offered]
      BY <1>0, <1>3
    <2> QED
      BY <1>1, <2>1
  <1>4. ASSUME IsList(s, Offered, Limit + 1)
        PROVE  s \in Discover!Feeds /\ Discover!IsInjective(s)
    BY <1>0, <1>3, <1>4, ListsOf DEF IsList
  <1>5. ASSUME s \in Discover!Feeds, Discover!IsInjective(s)
        PROVE  IsList(s, Offered, Limit + 1)
    BY <1>2, <1>5 DEF IsList, Discover!IsInjective
  <1> QED
    BY <1>2, <1>4, <1>5

\* The first n of a list are a list.
LEMMA TakeIs ==
    ASSUME NEW s, NEW T, NEW m \in Nat, NEW n \in Nat, IsList(s, T, m)
    PROVE  IsList(Discover!Take(s, n), T, n)
  <1>1. s \in Seq(T) /\ Len(s) \in Nat /\ \A i, j \in 1..Len(s) : s[i] = s[j] => i = j
    BY DEF IsList
  <1> DEFINE l == IF n < Len(s) THEN n ELSE Len(s)
             t == SubSeq(s, 1, l)
  <1>2. Discover!Take(s, n) = t
    BY DEF Discover!Take
  <1>3. l \in Nat /\ l <= n /\ l <= Len(s)
    BY <1>1
  <1> HIDE DEF l
  <1>4. t = [k \in 1..l |-> s[k]] /\ \A k \in 1..l : k \in 1..Len(s)
    <2>1. \A k \in 1..l : k + 1 - 1 = k
      OBVIOUS
    <2>2. \A k \in 1..l : k \in 1..Len(s)
      BY <1>1, <1>3
    <2> QED
      BY <1>1, <1>3, <2>1, <2>2
  <1> HIDE DEF t
  <1>5. t \in Seq(T) /\ Len(t) = l
    BY <1>1, <1>3, <1>4
  <1>6. \A i, j \in 1..l : t[i] = t[j] => i = j
    BY <1>1, <1>4
  <1> QED
    BY <1>2, <1>3, <1>5, <1>6 DEF IsList

\* What a filter leaves of a list is a list of its elements.
LEMMA PickedLists ==
    ASSUME NEW s, NEW T, NEW n \in Nat, IsList(s, T, n), NEW K, K \subseteq DOMAIN s
    PROVE  /\ IsList(Picked(s, K), T, n)
           /\ \A i \in 1..Len(Picked(s, K)) : \E a \in K : Picked(s, K)[i] = s[a]
  <1> DEFINE c == Cardinality(K)
             p == Picked(s, K)
             l == Len(s)
  <1>1. l \in Nat /\ l <= n /\ s \in [1..l -> T] /\ K \subseteq 1..l
        /\ \A i, j \in 1..l : s[i] = s[j] => i = j
    BY DEF IsList
  <1> HIDE DEF l
  <1>2. IsPicked(p, s, l, T, K)
    BY <1>1, PickedIs
  <1> HIDE DEF p
  <1>3. /\ c \in Nat /\ c <= l /\ p \in [1..c -> T]
        /\ \A i \in 1..c : \E a \in K : p[i] = s[a]
        /\ \A i, j \in 1..c : i < j => \E a, b \in K : a < b /\ p[i] = s[a] /\ p[j] = s[b]
    BY <1>2 DEF IsPicked
  <1> HIDE DEF c
  <1>4. p \in Seq(T) /\ Len(p) = c /\ c <= n
    BY <1>1, <1>3
  <1>5. ASSUME NEW i \in 1..c, NEW j \in 1..c, i < j PROVE p[i] # p[j]
    <2>1. PICK a \in K, b \in K : a < b /\ p[i] = s[a] /\ p[j] = s[b]
      BY <1>3, <1>5
    <2>2. a \in 1..l /\ b \in 1..l /\ a # b
      BY <1>1, <2>1
    <2> QED
      BY <1>1, <2>1, <2>2
  <1>6. \A i, j \in 1..c : p[i] = p[j] => i = j
    <2>1. \A i, j \in 1..c : i < j \/ j < i \/ i = j
      BY <1>3
    <2> QED
      BY <1>5, <2>1
  <1> QED
    BY <1>3, <1>4, <1>6 DEF IsList, p

\* What is merged is new, so nothing is there twice.
LEMMA MergedLists ==
    ASSUME NEW s, NEW t, NEW T, NEW m \in Nat, NEW n \in Nat, IsList(s, T, m), IsList(t, T, n)
    PROVE  IsList(Discover!Merge(s, t), T, Limit + 1)
  <1> DEFINE K == {k \in DOMAIN t : t[k] \notin Discover!Range(s)}
             u == Picked(t, K)
             a == Len(s)
             b == Len(u)
  <1>0. Limit + 1 \in Nat
    BY ServicesAssumption
  <1>1. Discover!Merge(s, t) = Discover!Take(s \o u, Limit + 1)
    BY DiscoverRanking, Zenon DEF Discover!Merge
  <1>2. /\ IsList(u, T, n)
        /\ \A i \in 1..b : \E k \in K : u[i] = t[k]
    <2>1. K \subseteq DOMAIN t
      OBVIOUS
    <2> HIDE DEF K
    <2>2. /\ IsList(Picked(t, K), T, n)
          /\ \A i \in 1..Len(Picked(t, K)) : \E k \in K : Picked(t, K)[i] = t[k]
      BY <2>1, PickedLists
    <2> QED
      BY <2>2
  <1>3. \A i \in 1..b : u[i] \notin Discover!Range(s)
    <2>1. \A k \in K : t[k] \notin Discover!Range(s)
      OBVIOUS
    <2> HIDE DEF K, u
    <2> QED
      BY <1>2, <2>1
  <1> HIDE DEF K, u
  <1>4. /\ s \in Seq(T) /\ a \in Nat /\ \A i, j \in 1..a : s[i] = s[j] => i = j
        /\ u \in Seq(T) /\ b \in Nat /\ \A i, j \in 1..b : u[i] = u[j] => i = j
    BY <1>2 DEF IsList
  <1>5. \A i \in 1..a, j \in 1..b : s[i] # u[j]
    BY <1>3, <1>4 DEF Discover!Range
  <1> DEFINE v == s \o u
  <1>6. /\ v \in Seq(T) /\ Len(v) = a + b
        /\ \A k \in 1..a : v[k] = s[k]
        /\ \A k \in 1..(a + b) : k \notin 1..a => k - a \in 1..b /\ v[k] = u[k - a]
    <2>1. v \in Seq(T) /\ Len(v) = a + b
      BY <1>4
    <2>2. \A k \in 1..a : v[k] = s[k]
      BY <1>4
    <2>3. \A k \in 1..b : v[a + k] = u[k]
      BY <1>4
    <2>4. ASSUME NEW k \in 1..(a + b), k \notin 1..a
          PROVE  k - a \in 1..b /\ v[k] = u[k - a]
      <3>1. k - a \in 1..b /\ k = a + (k - a)
        BY <1>4, <2>4
      <3> HIDE DEF v, a, b
      <3>2. v[a + (k - a)] = u[k - a]
        BY <2>3, <3>1
      <3> QED
        BY <3>1, <3>2
    <2> QED
      BY <2>1, <2>2, <2>4
  <1> HIDE DEF v, a, b
  <1>7. ASSUME NEW i \in 1..(a + b), NEW j \in 1..(a + b), v[i] = v[j] PROVE i = j
    <2>1. CASE i \in 1..a /\ j \in 1..a
      BY <1>4, <1>6, <1>7, <2>1
    <2>2. CASE i \notin 1..a /\ j \notin 1..a
      <3>1. i - a \in 1..b /\ j - a \in 1..b /\ u[i - a] = u[j - a]
        BY <1>6, <1>7, <2>2
      <3>2. i - a = j - a
        BY <1>4, <3>1
      <3> QED
        BY <1>4, <3>2
    <2>3. CASE i \in 1..a /\ j \notin 1..a
      BY <1>5, <1>6, <1>7, <2>3
    <2>4. CASE i \notin 1..a /\ j \in 1..a
      BY <1>5, <1>6, <1>7, <2>4
    <2> QED
      BY <2>1, <2>2, <2>3, <2>4
  <1>8. IsList(v, T, a + b) /\ a + b \in Nat
    BY <1>4, <1>6, <1>7 DEF IsList
  <1>9. IsList(Discover!Take(v, Limit + 1), T, Limit + 1)
    BY <1>0, <1>8, TakeIs
  <1> QED
    BY <1>1, <1>9 DEF v

\* A query's answer is of active products, each once.
LEMMA QueryIs ==
    ASSUME NEW score \in [Offered -> Nat], NEW r, NEW n \in Nat
    PROVE  IsList(Discover!runFilteredCandidateQuery(r, n, score), Discover!Active, n)
  <1> DEFINE S == {p \in Discover!eligible_products(r) : score[p] > 0}
             R == {pair \in S \X S :
                     LET p == pair[1]
                         q == pair[2]
                     IN  score[p] > score[q] \/ (score[p] = score[q] /\ p > q)}
             o == InOrder(S, R)
             c == Cardinality(S)
  <1>1. Discover!runFilteredCandidateQuery(r, n, score) = Discover!Take(o, n)
    BY DiscoverRanking, Zenon DEF Discover!runFilteredCandidateQuery
  <1>2. S \subseteq Discover!Active /\ S \subseteq Offered
    BY DEF Discover!eligible_products, Discover!Active
  <1>3. IsFiniteSet(S)
    BY <1>2, FS_Subset, ServicesAssumption
  <1>4. \A p, q : <<p, q>> \in R <=>
           p \in S /\ q \in S /\ (score[p] > score[q] \/ (score[p] = score[q] /\ p > q))
    OBVIOUS
  <1>5. \A p \in S : p \in Nat /\ score[p] \in Nat
    BY <1>2, ServicesAssumption
  <1> HIDE DEF S, R, o, c
  <1>6. IsOrder(S, R)
    <2>1. \A p \in S : <<p, p>> \notin R
      BY <1>4, <1>5
    <2>2. ASSUME NEW p \in S, NEW q \in S, p # q PROVE <<p, q>> \in R \/ <<q, p>> \in R
      BY <1>4, <1>5, <2>2
    <2>3. ASSUME NEW p \in S, NEW q \in S, NEW t \in S, <<p, q>> \in R, <<q, t>> \in R
          PROVE  <<p, t>> \in R
      BY <1>4, <1>5, <2>3
    <2> QED
      BY <1>3, <2>1, <2>2, <2>3 DEF IsOrder
  <1>7. /\ c \in Nat /\ o \in [1..c -> S]
        /\ \A j, k \in 1..c : j < k => <<o[j], o[k]>> \in R
    BY <1>6, InOrderIs DEF o, c
  <1>8. \A j, k \in 1..c : o[j] = o[k] => j = k
    <2>1. \A j, k \in 1..c : j < k \/ k < j \/ j = k
      BY <1>7
    <2> QED
      BY <1>6, <1>7, <2>1 DEF IsOrder
  <1>9. IsList(o, S, c)
    BY <1>7, <1>8 DEF IsList
  <1>10. IsList(Discover!Take(o, n), S, n)
    BY <1>7, <1>9, TakeIs
  <1>11. IsList(Discover!Take(o, n), Discover!Active, n)
    BY <1>2, <1>10, ListsOf
  <1> QED
    BY <1>1, <1>11

\* Candidates are active products, each once and no more than were asked for.
LEMMA CandidatesAre ==
    ASSUME NEW r \in FeedRequests, Discover!Validate(r), NEW n \in Nat,
           NEW type, type = r.type \/ type \in {"trending", "best_sellers"}
    PROVE  IsList(Discover!GetFeedCandidates(r, type, n), Discover!Active, n)
  <1> DEFINE score == CASE type = "recommended" -> Discover!getRecommendedCandidates(r)
                        [] type = "also_viewed" -> Discover!getAlsoViewedCandidates(r)
                        [] type = "trending" -> Discover!getTrendingCandidates
                        [] type = "best_sellers" -> Discover!getBestSellerCandidates
                        [] OTHER -> Ranks[type]
             q == Discover!runFilteredCandidateQuery(r, n, score)
  <1>1. Discover!GetFeedCandidates(r, type, n) = q
    BY Zenon DEF Discover!GetFeedCandidates
  <1>2. Discover!getAlsoViewedCandidates(r) \in [Offered -> Nat]
    BY DEF Discover!getAlsoViewedCandidates
  <1>3. type = "recommended" => Discover!getRecommendedCandidates(r) \in [Offered -> Nat]
    <2> SUFFICES ASSUME type = "recommended"
                 PROVE  Discover!getRecommendedCandidates(r) \in [Offered -> Nat]
      OBVIOUS
    <2>1. r.user # "none" /\ r.type = "recommended"
      BY DEF Discover!Validate, Discover!None
    <2>2. Affinity[r.user] \in [Offered -> Nat]
      BY <2>1, ServicesAssumption
    <2> DEFINE extra(p) == IF p \in Discover!CoViewed(Interested[r.user]) THEN 1 ELSE 0
    <2>3. \A p \in Offered : Affinity[r.user][p] \in Nat
      BY <2>2
    <2>4. \A p : extra(p) \in Nat
      OBVIOUS
    <2>5. Discover!getRecommendedCandidates(r)
          = [p \in Offered |-> IF p \in Interested[r.user] THEN 0
                               ELSE Affinity[r.user][p] + extra(p)]
      BY Zenon DEF Discover!getRecommendedCandidates
    <2> HIDE DEF extra
    <2> QED
      BY <2>3, <2>4, <2>5
  <1>4. type \in DOMAIN Ranks \/ type \in {"recommended", "also_viewed"}
    BY ServicesAssumption
  <1>5. /\ type \in DOMAIN Ranks => Ranks[type] \in [Offered -> Nat]
        /\ Ranks["trending"] \in [Offered -> Nat] /\ Ranks["best_sellers"] \in [Offered -> Nat]
    BY ServicesAssumption
  <1>6. score \in [Offered -> Nat]
    <2>1. CASE type = "recommended"
      BY <1>3, <2>1
    <2>2. CASE type = "also_viewed"
      BY <1>2, <2>2
    <2>3. CASE type = "trending"
      BY <1>5, <2>3 DEF Discover!getTrendingCandidates
    <2>4. CASE type = "best_sellers"
      BY <1>5, <2>4 DEF Discover!getBestSellerCandidates
    <2>5. CASE type \notin {"recommended", "also_viewed", "trending", "best_sellers"}
      BY <1>4, <1>5, <2>5
    <2> QED
      BY <2>1, <2>2, <2>3, <2>4, <2>5
  <1> HIDE DEF score
  <1>7. IsList(q, Discover!Active, n)
    BY <1>6, QueryIs
  <1> QED
    BY <1>1, <1>7, Zenon

\* What Inv says of the copies, and of the request in the slot.
DiscoverCopies ==
    \A r \in FeedRequests :
       LET copy == x2[Discover!buildFeedCacheKey(r)]
       IN  copy # Discover!NoCopy =>
              /\ copy.for = Discover!Actor(r) /\ copy.sound
              /\ Discover!IsInjective(copy.cards)

DiscoverKeys == {Discover!buildFeedCacheKey(r) : r \in FeedRequests}

DiscoverRequest(j, active) ==
    /\ Discover!IsInjective(j.found) /\ Discover!Range(j.found) \subseteq j.seen
    /\ j.pc # "idle" => /\ j.req \in FeedRequests /\ Discover!Validate(j.req)
                        /\ active \subseteq j.seen
    /\ j.pc = "fallback" => j.more # <<>> /\ Len(j.found) < Limit + 1

\* The invariant of discovery, in the terms of the following lemmas.
LEMMA DiscoverInvIs ==
    Discover!Inv <=>
       /\ x1 \in [Offered -> {"active", "archived", "gone"}]
       /\ x2 \in [DiscoverKeys -> Discover!Copies]
       /\ job \in [{"slot"} -> Discover!Jobs]
       /\ \A w \in {"slot"} : DiscoverRequest(job[w], Discover!Active)
       /\ DiscoverCopies
  <1>1. \A w : Discover!RequestSound(job[w]) <=> DiscoverRequest(job[w], Discover!Active)
    BY Zenon DEF Discover!RequestSound, DiscoverRequest
  <1>2. Discover!FeedsAreSound <=>
           DiscoverCopies /\ \A w \in {"slot"} : Discover!IsInjective(job[w].found)
    BY Zenon DEF Discover!FeedsAreSound, DiscoverCopies
  <1>3. \A w : DiscoverRequest(job[w], Discover!Active) => Discover!IsInjective(job[w].found)
    BY Zenon DEF DiscoverRequest
  <1> QED
    BY <1>1, <1>2, <1>3, Zenon DEF Discover!Inv, DiscoverKeys

\* A free slot promises nothing.
LEMMA FreeIsSound ==
    /\ <<>> \in Discover!Feeds
    /\ Discover!Free \in Discover!Jobs
    /\ \A A : DiscoverRequest(Discover!Free, A)
  <1>1. IsList(<<>>, Offered, Limit + 1)
    BY ServicesAssumption DEF IsList
  <1>2. <<>> \in Discover!Feeds
    BY <1>1, FeedsAreLists
  <1>3. Discover!Free \in Discover!Jobs
    BY <1>2 DEF Discover!Free, Discover!Jobs, Discover!Fallbacks
  <1>4. \A A : DiscoverRequest(Discover!Free, A)
    BY DEF DiscoverRequest, Discover!Free, Discover!IsInjective, Discover!Range
  <1> QED
    BY <1>2, <1>3, <1>4

\* Nothing is kept and nobody asks: the invariant holds at the start.
LEMMA DiscoverInit == Discover!Init => Discover!Inv
  <1> SUFFICES ASSUME Discover!Init PROVE Discover!Inv
    OBVIOUS
  <1>1. x1 \in [Offered -> {"active", "archived", "gone"}]
    BY DEF Discover!Init
  <1>2. Discover!NoCopy \in Discover!Copies
    BY FreeIsSound DEF Discover!NoCopy, Discover!Copies
  <1>3. x2 = [k \in DiscoverKeys |-> Discover!NoCopy]
    BY Zenon DEF Discover!Init, DiscoverKeys
  <1>4. DiscoverCopies
    BY <1>3 DEF DiscoverCopies, DiscoverKeys
  <1>5. job = [w \in {"slot"} |-> Discover!Free]
    BY DEF Discover!Init
  <1> QED
    BY <1>1, <1>2, <1>3, <1>4, <1>5, FreeIsSound, DiscoverInvIs

\* What is to be shown of a step.
LEMMA DiscoverInvAfter ==
    ASSUME x1' \in [Offered -> {"active", "archived", "gone"}],
           x2' \in [DiscoverKeys -> Discover!Copies], DiscoverCopies',
           job' \in [{"slot"} -> Discover!Jobs],
           \A w \in {"slot"} : DiscoverRequest(job'[w], Discover!Active')
    PROVE  Discover!Inv'
  <1>1. \A w : DiscoverRequest(job'[w], Discover!Active') =>
               Discover!IsInjective(job'[w].found) /\ Discover!RequestSound(job[w])'
    BY Zenon DEF DiscoverRequest, Discover!RequestSound
  <1>2. Discover!FeedsAreSound'
    BY <1>1, Zenon DEF Discover!FeedsAreSound, DiscoverCopies
  <1> QED
    BY <1>1, <1>2, Zenon DEF Discover!Inv, DiscoverKeys

\* A step of the request that leaves the copies alone.
LEMMA RequestGoesOn ==
    ASSUME Discover!Inv, NEW w \in {"slot"}, NEW j \in Discover!Jobs,
           DiscoverRequest(j, Discover!Active),
           job' = [job EXCEPT ![w] = j], UNCHANGED <<x1, x2>>
    PROVE  Discover!Inv'
  <1>1. /\ x1 \in [Offered -> {"active", "archived", "gone"}]
        /\ x2 \in [DiscoverKeys -> Discover!Copies]
        /\ job \in [{"slot"} -> Discover!Jobs]
        /\ \A v \in {"slot"} : DiscoverRequest(job[v], Discover!Active)
        /\ DiscoverCopies
    BY DiscoverInvIs
  <1>2. DiscoverCopies' /\ Discover!Active' = Discover!Active
    BY <1>1, Zenon DEF DiscoverCopies, Discover!Active
  <1>3. job' \in [{"slot"} -> Discover!Jobs]
        /\ \A v \in {"slot"} : DiscoverRequest(job'[v], Discover!Active)
    BY <1>1
  <1> QED
    BY <1>1, <1>2, <1>3, DiscoverInvAfter

\* A step that changes nothing keeps the invariant.
LEMMA DiscoverStays ==
    ASSUME Discover!Inv, UNCHANGED <<x1, x2, job>>
    PROVE  Discover!Inv'
  BY Zenon DEF Discover!Inv, Discover!RequestSound, Discover!FeedsAreSound, Discover!Active

\* What a request has found is a list of products it has seen active.
LEMMA RequestLists ==
    ASSUME NEW j \in Discover!Jobs, NEW A, DiscoverRequest(j, A)
    PROVE  /\ IsList(j.found, j.seen, Limit + 1) /\ j.seen \subseteq Offered
           /\ IsList(j.found, Offered, Limit + 1)
  <1>1. /\ j.found \in Discover!Feeds /\ Discover!IsInjective(j.found)
        /\ Discover!Range(j.found) \subseteq j.seen /\ j.seen \subseteq Offered
    BY DEF Discover!Jobs, DiscoverRequest
  <1>2. IsList(j.found, Offered, Limit + 1)
    BY <1>1, FeedsAreLists
  <1>3. j.found \in Seq(Offered) /\ \A i \in 1..Len(j.found) : j.found[i] \in j.seen
    BY <1>1, <1>2 DEF IsList, Discover!Range
  <1>4. j.found \in Seq(j.seen)
    BY <1>3
  <1> QED
    BY <1>1, <1>2, <1>4 DEF IsList

\* A request answered from a kept copy, refused, or begun.
LEMMA DiscoverGets ==
    ASSUME Discover!Inv, NEW w \in {"slot"}, NEW r \in FeedRequests, Discover!GetFeed(w, r)
    PROVE  Discover!Inv'
  <1>1. CASE UNCHANGED job
    BY <1>1, DiscoverStays DEF Discover!GetFeed
  <1> DEFINE A == Discover!Active
             j == [Discover!Free EXCEPT !.pc = "candidates", !.req = r, !.seen = A]
  <1>2. CASE job' = [job EXCEPT ![w] = j]
    <2>1. A \subseteq Offered
      BY DEF Discover!Active
    <2>2. Discover!Validate(r) /\ UNCHANGED <<x1, x2>>
      BY Zenon DEF Discover!GetFeed
    <2> HIDE DEF A
    <2>3. /\ j.pc = "candidates" /\ j.req = r /\ j.found = <<>> /\ j.seen = A
      BY DEF Discover!Free
    <2>4. j \in Discover!Jobs
      <3>1. <<>> \in Discover!Feeds /\ <<>> \in Discover!Fallbacks
        BY FreeIsSound DEF Discover!Fallbacks
      <3> QED
        BY <2>1, <3>1 DEF Discover!Free, Discover!Jobs
    <2>5. DiscoverRequest(j, A)
      BY <2>2, <2>3 DEF DiscoverRequest, Discover!IsInjective, Discover!Range
    <2> HIDE DEF j
    <2> QED
      BY <1>2, <2>2, <2>4, <2>5, RequestGoesOn DEF A
  <1> QED
    BY <1>1, <1>2, Zenon DEF Discover!GetFeed, Discover!getCachedFeed

\* A query has been asked: what it adds was active, and so seen.
LEMMA DiscoverFinds ==
    ASSUME Discover!Inv, NEW w \in {"slot"}, job[w].pc # "idle",
           NEW found, IsList(found, job[w].seen, Limit + 1),
           NEW more \in Discover!Fallbacks, Discover!Found(w, found, more), UNCHANGED <<x1, x2>>
    PROVE  Discover!Inv'
  <1> DEFINE pc == IF Discover!Enough(found, more) THEN "hydrate" ELSE "fallback"
             j == [job[w] EXCEPT !.found = found, !.more = more, !.pc = pc]
             A == Discover!Active
  <1>1. /\ job \in [{"slot"} -> Discover!Jobs] /\ job[w] \in Discover!Jobs
        /\ DiscoverRequest(job[w], A)
    BY DiscoverInvIs
  <1>2. pc \in {"hydrate", "fallback"}
    OBVIOUS
  <1>3. pc = "fallback" => more # <<>> /\ ~(Len(found) >= Limit + 1)
    BY DEF Discover!Enough
  <1>4. Len(found) \in Nat /\ Limit + 1 \in Nat
    BY ServicesAssumption DEF IsList
  <1>5. job' = [job EXCEPT ![w] = j]
    <2> HIDE DEF pc
    <2>1. job' = [job EXCEPT ![w].found = found, ![w].more = more, ![w].pc = pc]
      BY Zenon DEF Discover!Found, pc
    <2> QED
      BY <1>1, <2>1
  <1> HIDE DEF pc, A
  <1>6. job[w].seen \subseteq Offered
    BY <1>1 DEF Discover!Jobs
  <1>7. IsList(found, Offered, Limit + 1)
    BY <1>4, <1>6, ListsOf
  <1>8. found \in Discover!Feeds /\ Discover!IsInjective(found)
        /\ Discover!Range(found) \subseteq job[w].seen
    BY <1>4, <1>7, FeedsAreLists, ListsOf
  <1>9. /\ j.pc = pc /\ j.req = job[w].req /\ j.found = found /\ j.more = more
        /\ j.seen = job[w].seen
    BY <1>1 DEF Discover!Jobs
  <1>10. j \in Discover!Jobs
    BY <1>1, <1>2, <1>8 DEF Discover!Jobs
  <1>11. DiscoverRequest(j, A)
    <2>1. job[w].req \in FeedRequests /\ Discover!Validate(job[w].req) /\ A \subseteq job[w].seen
      BY <1>1 DEF DiscoverRequest
    <2>2. pc = "fallback" => more # <<>> /\ Len(found) < Limit + 1
      BY <1>3, <1>4
    <2> QED
      BY <1>8, <1>9, <2>1, <2>2, Zenon DEF DiscoverRequest
  <1> HIDE DEF j
  <1> QED
    BY <1>5, <1>10, <1>11, RequestGoesOn DEF A

\* The first candidates of a request.
LEMMA DiscoverFirst ==
    ASSUME Discover!Inv, NEW w \in {"slot"}, Discover!FirstCandidates(w)
    PROVE  Discover!Inv'
  <1> DEFINE r == job[w].req
             found == Discover!GetFeedCandidates(r, r.type, Limit + 1)
             more == Discover!feedFallbackOrder(r.type)
  <1>1. /\ job[w].pc = "candidates" /\ Discover!Found(w, found, more) /\ UNCHANGED <<x1, x2>>
    BY Zenon DEF Discover!FirstCandidates, Discover!At
  <1>2. job[w] \in Discover!Jobs /\ DiscoverRequest(job[w], Discover!Active)
    BY DiscoverInvIs
  <1>3. /\ r \in FeedRequests /\ Discover!Validate(r)
        /\ Discover!Active \subseteq job[w].seen
    BY <1>1, <1>2 DEF DiscoverRequest
  <1>4. more \in Discover!Fallbacks
    BY DEF Discover!feedFallbackOrder, Discover!Fallbacks
  <1>5. Limit + 1 \in Nat
    BY ServicesAssumption
  <1>6. IsList(found, Discover!Active, Limit + 1)
    BY <1>3, <1>5, CandidatesAre
  <1> HIDE DEF found, more
  <1>7. IsList(found, job[w].seen, Limit + 1)
    BY <1>3, <1>5, <1>6, ListsOf
  <1> QED
    BY <1>1, <1>4, <1>7, DiscoverFinds

\* A fallback adds products that were not found before.
LEMMA DiscoverFallsBack ==
    ASSUME Discover!Inv, NEW w \in {"slot"}, Discover!getFeedCandidatesWithFallback(w)
    PROVE  Discover!Inv'
  <1> DEFINE r == job[w].req
             n == (Limit + 1) - Len(job[w].found)
             others == Discover!GetFeedCandidates(r, Head(job[w].more), n)
             found == Discover!Merge(job[w].found, others)
             more == Tail(job[w].more)
  <1>1. /\ job[w].pc = "fallback" /\ Discover!Found(w, found, more) /\ UNCHANGED <<x1, x2>>
    BY Zenon DEF Discover!getFeedCandidatesWithFallback, Discover!At
  <1>2. job[w] \in Discover!Jobs /\ DiscoverRequest(job[w], Discover!Active)
    BY DiscoverInvIs
  <1>3. /\ r \in FeedRequests /\ Discover!Validate(r)
        /\ Discover!Active \subseteq job[w].seen
        /\ job[w].more # <<>> /\ Len(job[w].found) < Limit + 1
    BY <1>1, <1>2 DEF DiscoverRequest
  <1>4. job[w].more \in Discover!Fallbacks
    BY <1>2 DEF Discover!Jobs
  <1>5. more \in Discover!Fallbacks /\ Head(job[w].more) \in {"trending", "best_sellers"}
    <2>1. CASE job[w].more = <<"best_sellers">>
      BY <2>1 DEF Discover!Fallbacks
    <2>2. CASE job[w].more = <<"trending", "best_sellers">>
      BY <2>2 DEF Discover!Fallbacks
    <2> QED
      BY <1>3, <1>4, <2>1, <2>2 DEF Discover!Fallbacks
  <1>6. IsList(job[w].found, job[w].seen, Limit + 1)
    BY <1>2, RequestLists
  <1>7. Limit + 1 \in Nat /\ n \in Nat
    <2>1. Len(job[w].found) \in Nat
      BY <1>6 DEF IsList
    <2> QED
      BY <1>3, <2>1, ServicesAssumption
  <1> HIDE DEF n
  <1>8. IsList(others, Discover!Active, n)
    BY <1>3, <1>5, <1>7, CandidatesAre
  <1> HIDE DEF others
  <1>9. IsList(others, job[w].seen, n)
    BY <1>3, <1>7, <1>8, ListsOf
  <1>10. IsList(found, job[w].seen, Limit + 1)
    BY <1>6, <1>7, <1>9, MergedLists
  <1> HIDE DEF found, more
  <1> QED
    BY <1>1, <1>5, <1>10, DiscoverFinds

\* Products without a card are left out.
LEMMA DiscoverHydrates ==
    ASSUME Discover!Inv, NEW w \in {"slot"}, Discover!Hydrate(w)
    PROVE  Discover!Inv'
  <1> DEFINE s == job[w].found
             K == {k \in DOMAIN s : x1[s[k]] # "gone"}
             cards == Picked(s, K)
             j == [job[w] EXCEPT !.pc = "store", !.found = cards]
             A == Discover!Active
  <1>1. Discover!HydrateProductCards(s) = cards
    BY DiscoverRanking, Zenon DEF Discover!HydrateProductCards
  <1>2. /\ job \in [{"slot"} -> Discover!Jobs] /\ job[w] \in Discover!Jobs
        /\ DiscoverRequest(job[w], A)
    BY DiscoverInvIs
  <1>3. /\ job[w].pc = "hydrate" /\ UNCHANGED <<x1, x2>>
        /\ job' = [job EXCEPT ![w].pc = "store", ![w].found = Discover!HydrateProductCards(s)]
    BY Zenon DEF Discover!Hydrate, Discover!At
  <1>4. job[w].seen \subseteq Offered /\ IsList(s, job[w].seen, Limit + 1)
    BY <1>2, RequestLists
  <1>5. Limit + 1 \in Nat /\ K \subseteq DOMAIN s
    BY ServicesAssumption
  <1> HIDE DEF K
  <1>6. IsList(cards, job[w].seen, Limit + 1)
    BY <1>4, <1>5, PickedLists
  <1> HIDE DEF cards, A
  <1>7. IsList(cards, Offered, Limit + 1)
    BY <1>4, <1>5, <1>6, ListsOf
  <1>8. cards \in Discover!Feeds /\ Discover!IsInjective(cards)
        /\ Discover!Range(cards) \subseteq job[w].seen
    BY <1>5, <1>6, <1>7, FeedsAreLists, ListsOf
  <1>9. job' = [job EXCEPT ![w] = j]
    BY <1>1, <1>2, <1>3
  <1>10. /\ j.pc = "store" /\ j.req = job[w].req /\ j.found = cards /\ j.seen = job[w].seen
    BY <1>2 DEF Discover!Jobs
  <1>11. j \in Discover!Jobs
    BY <1>2, <1>8 DEF Discover!Jobs
  <1>12. DiscoverRequest(j, A)
    <2>1. job[w].req \in FeedRequests /\ Discover!Validate(job[w].req) /\ A \subseteq job[w].seen
      BY <1>2, <1>3 DEF DiscoverRequest
    <2> QED
      BY <1>8, <1>10, <2>1 DEF DiscoverRequest
  <1> HIDE DEF j
  <1> QED
    BY <1>3, <1>9, <1>11, <1>12, RequestGoesOn DEF A

\* One copy is replaced by a sound one, or by none.
LEMMA CopyWritten ==
    ASSUME Discover!Inv, NEW k \in DiscoverKeys, NEW c \in Discover!Copies,
           x2' = [x2 EXCEPT ![k] = c],
           \A r \in FeedRequests :
              c # Discover!NoCopy /\ Discover!buildFeedCacheKey(r) = k =>
                 c.for = Discover!Actor(r) /\ c.sound /\ Discover!IsInjective(c.cards)
    PROVE  x2' \in [DiscoverKeys -> Discover!Copies] /\ DiscoverCopies'
  <1>1. x2 \in [DiscoverKeys -> Discover!Copies] /\ DiscoverCopies
    BY DiscoverInvIs
  <1>2. x2' \in [DiscoverKeys -> Discover!Copies]
    BY <1>1
  <1>3. ASSUME NEW r \in FeedRequests,
               x2'[Discover!buildFeedCacheKey(r)] # Discover!NoCopy
        PROVE  /\ x2'[Discover!buildFeedCacheKey(r)].for = Discover!Actor(r)
               /\ x2'[Discover!buildFeedCacheKey(r)].sound
               /\ Discover!IsInjective(x2'[Discover!buildFeedCacheKey(r)].cards)
    <2> DEFINE q == Discover!buildFeedCacheKey(r)
    <2>0. q \in DiscoverKeys
      BY DEF DiscoverKeys
    <2>1. q # k => x2'[q] = x2[q]
      BY <1>1, <2>0
    <2>2. q = k => x2'[q] = c
      BY <1>1, <2>0
    <2>3. x2[q] # Discover!NoCopy =>
             /\ x2[q].for = Discover!Actor(r) /\ x2[q].sound
             /\ Discover!IsInjective(x2[q].cards)
      BY <1>1, Zenon DEF DiscoverCopies
    <2>4. c # Discover!NoCopy /\ q = k =>
             c.for = Discover!Actor(r) /\ c.sound /\ Discover!IsInjective(c.cards)
      OBVIOUS
    <2> HIDE DEF q
    <2>5. CASE q = k
      BY <1>3, <2>2, <2>4, <2>5, Zenon DEF q
    <2>6. CASE q # k
      BY <1>3, <2>1, <2>3, <2>6, Zenon DEF q
    <2> QED
      BY <2>5, <2>6
  <1> QED
    BY <1>2, <1>3, Zenon DEF DiscoverCopies

\* The request is over: the answer is sent, or an error.
LEMMA RequestEnds ==
    ASSUME Discover!Inv, NEW w \in {"slot"}, Discover!Done(w), UNCHANGED x1,
           x2' \in [DiscoverKeys -> Discover!Copies], DiscoverCopies'
    PROVE  Discover!Inv'
  <1>1. /\ x1 \in [Offered -> {"active", "archived", "gone"}]
        /\ job \in [{"slot"} -> Discover!Jobs]
        /\ \A v \in {"slot"} : DiscoverRequest(job[v], Discover!Active)
    BY DiscoverInvIs
  <1>2. Discover!Active' = Discover!Active
    BY Zenon DEF Discover!Active
  <1>3. job' = [job EXCEPT ![w] = Discover!Free]
    BY DEF Discover!Done
  <1>4. job' \in [{"slot"} -> Discover!Jobs]
        /\ \A v \in {"slot"} : DiscoverRequest(job'[v], Discover!Active)
    BY <1>1, <1>3, FreeIsSound
  <1> QED
    BY <1>1, <1>2, <1>4, DiscoverInvAfter

\* What is kept is what the request has, for whom it was made.
LEMMA DiscoverStores ==
    ASSUME Discover!Inv, NEW w \in {"slot"}, Discover!storeCachedFeed(w)
    PROVE  Discover!Inv'
  <1> DEFINE r == job[w].req
             cards == job[w].found
             k == Discover!buildFeedCacheKey(r)
             sound == Discover!Range(cards) \subseteq job[w].seen
             c == [cards |-> cards, for |-> Discover!Actor(r), sound |-> sound]
  <1>1. job[w].pc = "store" /\ Discover!Done(w) /\ UNCHANGED x1
    BY Zenon DEF Discover!storeCachedFeed, Discover!At
  <1>2. x2' = x2 \/ x2' = [x2 EXCEPT ![k] = c]
    BY Zenon DEF Discover!storeCachedFeed
  <1>3. job[w] \in Discover!Jobs /\ DiscoverRequest(job[w], Discover!Active)
        /\ x2 \in [DiscoverKeys -> Discover!Copies] /\ DiscoverCopies
    BY DiscoverInvIs
  <1>4. CASE x2' = x2
    <2>1. DiscoverCopies'
      BY <1>3, <1>4, Zenon DEF DiscoverCopies
    <2> QED
      BY <1>1, <1>3, <1>4, <2>1, RequestEnds
  <1>5. CASE x2' = [x2 EXCEPT ![k] = c]
    <2>1. r \in FeedRequests /\ Discover!IsInjective(cards) /\ sound
      BY <1>1, <1>3 DEF DiscoverRequest
    <2>2. cards \in Discover!Feeds
      BY <1>3 DEF Discover!Jobs
    <2>3. k \in DiscoverKeys
      BY <2>1 DEF DiscoverKeys
    <2>4. sound \in BOOLEAN
      BY Zenon
    <2>5. c.cards = cards /\ c.for = Discover!Actor(r) /\ c.sound = sound
      BY Zenon
    <2> HIDE DEF sound
    <2>6. c \in Discover!Copies
      BY <2>1, <2>2, <2>4 DEF Discover!Copies
    <2>7. ASSUME NEW q \in FeedRequests, Discover!buildFeedCacheKey(q) = k
          PROVE  Discover!Actor(q) = Discover!Actor(r)
      <3>1. q.user = r.user /\ q.session = r.session
        BY <2>7 DEF Discover!buildFeedCacheKey
      <3> QED
        BY <3>1, Zenon DEF Discover!Actor
    <2>8. c.sound
      BY <2>1, <2>5, Zenon
    <2> HIDE DEF c, k
    <2>9. x2' \in [DiscoverKeys -> Discover!Copies] /\ DiscoverCopies'
      BY <1>5, <2>1, <2>3, <2>5, <2>6, <2>7, <2>8, CopyWritten
    <2> QED
      BY <1>1, <2>9, RequestEnds
  <1> QED
    BY <1>2, <1>4, <1>5

\* A copy's two minutes are over.
LEMMA DiscoverExpires ==
    ASSUME Discover!Inv, NEW k \in DOMAIN x2, Discover!Expire(k)
    PROVE  Discover!Inv'
  <1>1. /\ x1 \in [Offered -> {"active", "archived", "gone"}]
        /\ x2 \in [DiscoverKeys -> Discover!Copies]
        /\ job \in [{"slot"} -> Discover!Jobs]
        /\ \A v \in {"slot"} : DiscoverRequest(job[v], Discover!Active)
    BY DiscoverInvIs
  <1>2. x2' = [x2 EXCEPT ![k] = Discover!NoCopy] /\ UNCHANGED <<x1, job>>
    BY DEF Discover!Expire
  <1>3. Discover!NoCopy \in Discover!Copies
    BY FreeIsSound DEF Discover!NoCopy, Discover!Copies
  <1>4. x2' \in [DiscoverKeys -> Discover!Copies] /\ DiscoverCopies'
    BY <1>1, <1>2, <1>3, CopyWritten
  <1>5. Discover!Active' = Discover!Active
    BY <1>2, Zenon DEF Discover!Active
  <1> QED
    BY <1>1, <1>2, <1>4, <1>5, DiscoverInvAfter

\* What becomes active is seen by the request under way.
LEMMA DiscoverChanges ==
    ASSUME Discover!Inv, NEW p \in Offered, NEW s \in {"active", "archived", "gone"},
           Discover!SetStatus(p, s)
    PROVE  Discover!Inv'
  <1>1. /\ x1 \in [Offered -> {"active", "archived", "gone"}]
        /\ x2 \in [DiscoverKeys -> Discover!Copies]
        /\ job \in [{"slot"} -> Discover!Jobs]
        /\ \A v \in {"slot"} : DiscoverRequest(job[v], Discover!Active)
        /\ DiscoverCopies
    BY DiscoverInvIs
  <1>2. /\ x1' = [x1 EXCEPT ![p] = s] /\ x2' = x2
        /\ job' = [w \in {"slot"} |-> IF job[w] = Discover!Free \/ s # "active" THEN job[w]
                                      ELSE [job[w] EXCEPT !.seen = @ \cup {p}]]
    BY Zenon DEF Discover!SetStatus
  <1>3. x1' \in [Offered -> {"active", "archived", "gone"}]
    BY <1>1, <1>2
  <1>4. DiscoverCopies'
    BY <1>1, <1>2, Zenon DEF DiscoverCopies
  <1>5. /\ Discover!Active' \subseteq Discover!Active \cup {p}
        /\ s # "active" => Discover!Active' \subseteq Discover!Active
    BY <1>1, <1>2 DEF Discover!Active
  <1>6. ASSUME NEW w \in {"slot"}
        PROVE  job'[w] \in Discover!Jobs /\ DiscoverRequest(job'[w], Discover!Active')
    <2>1. job[w] \in Discover!Jobs /\ DiscoverRequest(job[w], Discover!Active)
      BY <1>1
    <2>2. CASE job[w] = Discover!Free
      BY <1>2, <2>2, FreeIsSound
    <2>3. CASE job[w] # Discover!Free /\ s # "active"
      <3>1. job'[w] = job[w]
        BY <1>2, <2>3
      <3> QED
        BY <1>5, <2>1, <2>3, <3>1 DEF DiscoverRequest
    <2>4. CASE job[w] # Discover!Free /\ s = "active"
      <3> DEFINE j == [job[w] EXCEPT !.seen = @ \cup {p}]
      <3>1. job'[w] = j
        BY <1>2, <2>4
      <3>2. j \in Discover!Jobs
        BY <2>1 DEF Discover!Jobs
      <3>3. /\ j.pc = job[w].pc /\ j.req = job[w].req /\ j.found = job[w].found
            /\ j.more = job[w].more /\ j.seen = job[w].seen \cup {p}
        BY <2>1 DEF Discover!Jobs
      <3> HIDE DEF j
      <3>4. DiscoverRequest(j, Discover!Active')
        BY <1>5, <2>1, <3>3 DEF DiscoverRequest
      <3> QED
        BY <3>1, <3>2, <3>4
    <2> QED
      BY <2>2, <2>3, <2>4
  <1>7. job' \in [{"slot"} -> Discover!Jobs]
    BY <1>2, <1>6
  <1> QED
    BY <1>1, <1>2, <1>3, <1>4, <1>6, <1>7, DiscoverInvAfter

\* Every step of discovery keeps its invariant.
LEMMA DiscoverNext ==
    ASSUME Discover!Inv, Discover!Next
    PROVE  Discover!Inv'
  <1>1. ASSUME NEW w \in {"slot"}, Discover!handleError(w) PROVE Discover!Inv'
    <2>1. Discover!Done(w) /\ UNCHANGED <<x1, x2>>
      BY <1>1 DEF Discover!handleError
    <2>2. x2 \in [DiscoverKeys -> Discover!Copies] /\ DiscoverCopies
      BY DiscoverInvIs
    <2>3. DiscoverCopies'
      BY <2>1, <2>2, Zenon DEF DiscoverCopies
    <2> QED
      BY <2>1, <2>2, <2>3, RequestEnds
  <1> QED
    BY <1>1, DiscoverGets, DiscoverFirst, DiscoverFallsBack, DiscoverHydrates, DiscoverStores,
       DiscoverExpires, DiscoverChanges, Zenon DEF Discover!Next

\* The discovery module's invariant always holds.
THEOREM DiscoverySafe == Spec => [](component = "discovery" => Discover!Inv)
  <1> DEFINE IInv == component = "discovery" => Discover!Inv
  <1>1. Init => IInv
    BY DiscoverInit DEF Init
  <1>2. IInv /\ [Next]_vars => IInv'
    <2> SUFFICES ASSUME IInv, [Next]_vars, component' = "discovery" PROVE Discover!Inv'
      OBVIOUS
    <2>1. component = "discovery" /\ (Discover!Next \/ UNCHANGED <<x1, x2, job>>)
      BY DEF Next, vars
    <2> QED
      BY <2>1, DiscoverNext, DiscoverStays
  <1> QED
    BY <1>1, <1>2, PTL DEF Spec

\* A feed shows no product twice, and a kept one is its user's and of products
\* that were active while it was made, whatever is archived or deleted between
\* its queries (DiscoveryService.GetFeed, getFeedCandidatesWithFallback).
THEOREM FeedsSound == Spec => []FeedsAreSound
  <1> DEFINE IInv == component = "discovery" => Discover!Inv
  <1>1. IInv => FeedsAreSound
    BY Zenon DEF FeedsAreSound, Discover!Inv
  <1> QED
    BY <1>1, DiscoverySafe, PTL

-----------------------------------------------------------------------------
(* All services *)

\* Each service keeps its types, whichever it is (the bodies of requests, the
\* rows of its tables and the states of its requests).
THEOREM ServicesTyped == Spec => []TypeOK
  <1> DEFINE Services == {"accounts", "logins", "passwords", "codes", "promotions", "addresses",
                          "wishlists", "categories", "notifications", "edits", "reviews",
                          "metrics", "discovery", "feed"}
             Auths == /\ component = "accounts" => Account!Inv
                      /\ component = "logins" => Guard!Inv
                      /\ component = "passwords" => Password!Inv
                      /\ component = "codes" => Code!Inv
             Users == /\ component = "promotions" => Promotion!Inv
                      /\ component = "addresses" => Address!Inv
                      /\ component = "wishlists" => Wishlist!Inv
                      /\ component = "notifications" => Notification!Inv
                      /\ component = "reviews" => Review!Inv
             Catalogs == /\ component = "categories" => Category!Inv
                         /\ component = "edits" => Edit!Inv
                         /\ component = "metrics" => Metric!Inv
                         /\ component = "discovery" => Discover!Inv
                         /\ component = "feed" => Feed!FeedInv
             Invs == Auths /\ Users /\ Catalogs
  <1>1. Spec => []Invs
    <2>1. Spec => []Auths
      BY AccountSafe, GuardSafe, PasswordSafe, CodeSafe, PTL
    <2>2. Spec => []Users
      BY PromotionSafe, AddressSafe, WishlistSafe, NotificationSafe, ReviewSafe, PTL
    <2>3. Spec => []Catalogs
      BY CategorySafe, EditSafe, MetricSafe, DiscoverySafe, FeedSafe, PTL
    <2> HIDE DEF Auths, Users, Catalogs
    <2> QED
      BY <2>1, <2>2, <2>3, PTL
  <1>2. Init => component \in Services
    BY Zenon DEF Init
  <1>3. component \in Services /\ [Next]_vars => (component \in Services)'
    BY DEF Next, vars
  <1>4. Discover!Inv => Discover!TypeOK
    <2> SUFFICES ASSUME Discover!Inv PROVE Discover!TypeOK
      OBVIOUS
    <2>1. /\ x1 \in [Offered -> {"active", "archived", "gone"}]
          /\ x2 \in [DiscoverKeys -> Discover!Copies]
          /\ job \in [{"slot"} -> Discover!Jobs]
      BY DiscoverInvIs
    <2>2. \A k \in DOMAIN x2 : x2[k].cards \in Discover!Feeds /\ x2[k].sound \in BOOLEAN
      <3>1. ASSUME NEW c \in Discover!Copies PROVE c.cards \in Discover!Feeds /\ c.sound \in BOOLEAN
        BY DEF Discover!Copies
      <3>2. \A k \in DOMAIN x2 : x2[k] \in Discover!Copies
        BY <2>1
      <3> QED
        BY <3>1, <3>2, Zenon
    <2>3. \A w \in {"slot"} :
             /\ job[w].pc \in {"idle", "candidates", "fallback", "hydrate", "store"}
             /\ job[w].req \in FeedRequests \cup {Discover!NoRequest}
             /\ job[w].found \in Discover!Feeds /\ job[w].seen \subseteq Offered
      BY <2>1 DEF Discover!Jobs
    <2> QED
      BY <2>1, <2>2, <2>3, Zenon DEF Discover!TypeOK
  <1>5. Feed!FeedInv => Feed!FeedTypeOK
    <2> SUFFICES ASSUME Feed!FeedInv PROVE Feed!FeedTypeOK
      OBVIOUS
    <2>1. Feed!TypeOK /\ x6 \in Feed!Runs
      BY DEF Feed!FeedInv
    <2>2. /\ x6.pc \in {"idle", "load", "done"} /\ x6.mode \in {"full", "incremental"}
          /\ x6.cursor \in 0..MaxVariants /\ x6.steady \subseteq Feed!Ids
          /\ x6.items \in Seq(Feed!Items)
      BY <2>1 DEF Feed!Runs
    <2>3. \A k \in DOMAIN x6.items : x6.items[k] \in Feed!Items
      BY <2>2
    <2> QED
      BY <2>1, <2>2, <2>3 DEF Feed!FeedTypeOK, Feed!Items
  <1>6. component \in Services /\ Invs => TypeOK
    <2> SUFFICES ASSUME component \in Services, Invs PROVE TypeOK
      OBVIOUS
    <2>1. CASE component = "accounts"
      BY <2>1 DEF TypeOK, Account!Inv
    <2>2. CASE component = "logins"
      BY <2>2 DEF TypeOK, Guard!Inv
    <2>3. CASE component = "codes"
      BY <2>3 DEF TypeOK, Code!Inv
    <2>4. CASE component = "promotions"
      BY <2>4 DEF TypeOK, Promotion!Inv
    <2>5. CASE component = "addresses"
      BY <2>5 DEF TypeOK, Address!Inv
    <2>6. CASE component = "wishlists"
      BY <2>6 DEF TypeOK, Wishlist!Inv
    <2>7. CASE component = "categories"
      BY <2>7 DEF TypeOK, Category!Inv
    <2>8. CASE component = "notifications"
      BY <2>8 DEF TypeOK, Notification!Inv
    <2>9. CASE component = "edits"
      BY <2>9 DEF TypeOK, Edit!Inv
    <2>10. CASE component = "reviews"
      BY <2>10 DEF TypeOK, Review!Inv
    <2>11. CASE component = "metrics"
      BY <2>11 DEF TypeOK, Metric!Inv
    <2>12. CASE component = "discovery"
      BY <1>4, <2>12 DEF TypeOK
    <2>13. CASE component = "feed"
      BY <1>5, <2>13 DEF TypeOK
    <2>14. CASE component = "passwords"
      BY <2>14 DEF TypeOK, Password!Inv
    <2> HIDE DEF Invs
    <2> QED
      BY <2>1, <2>2, <2>3, <2>4, <2>5, <2>6, <2>7, <2>8, <2>9, <2>10, <2>11, <2>12,
         <2>13, <2>14
  <1> HIDE DEF Services, Invs
  <1>7. Spec => [](component \in Services)
    BY <1>2, <1>3, PTL DEF Spec
  <1> QED
    BY <1>1, <1>6, <1>7, PTL
====
