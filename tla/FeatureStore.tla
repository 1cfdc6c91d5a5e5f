---------------------------- MODULE FeatureStore ----------------------------
(***************************************************************************)
(* Materialization: how the rows of curated.higgs_features reach the       *)
(* online store.  A DAG run posts the windows of the rows it has curated   *)
(* to the feature server (higgs_pipeline_tasks.py, update_feature_store);  *)
(* `make feast-materialize` and `make feast-demo` walk the table from      *)
(* where the registry says the last materialization ended (materialize.py).*)
(*                                                                         *)
(* A window is materialized in three steps by Feast (external): read the   *)
(* rows between its ends, both included; write them to Redis; append the   *)
(* window to the registry's materialization_intervals.  A run's request is *)
(* served on by the feature server when the run has stopped waiting for    *)
(* it.                                                                     *)
(***************************************************************************)
EXTENDS CuratedTables

CONSTANTS
    Backfills,      \* invocations of materialize_chunked
    ChunkRows,      \* chunk_rows
    Retries,        \* default_args["retries"] of the DAG
    FaultKinds,     \* of "fail", "timeout", "lose": what may go wrong
    MaxFaults       \* bound: how often it does

ASSUME StoreAssumption ==
    /\ Runs \cap Backfills = {}
    /\ ChunkRows \in Nat \ {0}
    /\ Retries \in Nat
    /\ MaxFaults \in Nat

Jobs == Runs \cup Backfills
Tries == 0 .. Retries

VARIABLES
    online,         \* Redis: the entities with feature values
    intervals,      \* the registry's materialization_intervals
    pc,             \* where a job is
    tries,          \* failed attempts of a run's task
    todo,           \* windows of the job's plan that are not materialized yet
    request,        \* request[j][n]: the materialization the n-th attempt has asked for
    faults,
  (* history *)
    seen,           \* the rows a job's plan was computed from
    owed,           \* the rows its windows are to serve, less those lost since
    asked,          \* the rows up to a backfill's end when it started, less those lost since
    lost,           \* rows the online store has ever lost
    late,           \* rows curated after a plan or an interval reached past them
    skipped         \* rows a run's recorded interval passed over

requestVars == <<todo, request>>
historyVars == <<seen, owed, asked>>
storeVars == <<online, intervals, pc, tries, requestVars, faults, historyVars,
               lost, late, skipped>>
vars == <<tableVars, storeVars>>

NoRequest == [window |-> <<0, 0>>, stage |-> "none", rows |-> {}]

-----------------------------------------------------------------------------
(***************************************************************************)
(* The plan: windows(), _chunk_boundaries(), resume_point()                *)
(***************************************************************************)

Times(rows) == {FeatureTime[e] : e \in rows}
Earliest(rows) == CHOOSE t \in Times(rows) : \A u \in Times(rows) : t <= u
Latest(rows) == CHOOSE t \in Times(rows) : \A u \in Times(rows) : u <= t

Within(rows, w) == {e \in rows : w[1] <= FeatureTime[e] /\ FeatureTime[e] <= w[2]}

(* The timestamp at rank n when the rows are numbered in their order. *)
AtRank(rows, t, n) == /\ Cardinality({e \in rows : FeatureTime[e] < t}) < n
                      /\ n <= Cardinality({e \in rows : FeatureTime[e] <= t})

(* Mutant: row numbers from 0, so that a chunk takes one row more. *)
BoundariesOffByOne(rows) == {t \in Times(rows) : \E n \in 1 .. Cardinality(rows) :
                                n % (ChunkRows + 1) = 0 /\ AtRank(rows, t, n)}

Boundaries(rows) == {t \in Times(rows) : \E n \in 1 .. Cardinality(rows) :
                                            n % ChunkRows = 0 /\ AtRank(rows, t, n)}

Windows(start, end, bounds) ==
    LET edges == {start, end} \cup {b \in bounds : start < b /\ b < end}
    IN  {w \in edges \X edges : w[1] < w[2] /\ \A b \in edges : b <= w[1] \/ w[2] <= b}

ResumePoint == CHOOSE t \in {i[2] : i \in intervals} : \A i \in intervals : i[2] <= t

(* Mutant: the newest window first. *)
IsNextNewest(j, w) == w \in todo[j] /\ \A v \in todo[j] : v[1] <= w[1]

(* The window a job materializes next. *)
IsNext(j, w) == w \in todo[j] /\ \A v \in todo[j] : w[1] <= v[1]

-----------------------------------------------------------------------------
StoreInit ==
    /\ online = {}
    /\ intervals = {}
    /\ pc = [j \in Jobs |-> IF j \in Runs THEN "curate" ELSE "plan"]
    /\ tries = [j \in Jobs |-> 0]
    /\ todo = [j \in Jobs |-> {}]
    /\ request = [j \in Jobs |-> [n \in Tries |-> NoRequest]]
    /\ faults = 0
    /\ seen = [j \in Jobs |-> {}]
    /\ owed = [j \in Jobs |-> {}]
    /\ asked = [j \in Jobs |-> {}]
    /\ lost = {} /\ late = {} /\ skipped = {}

Requests == {request[j][n] : j \in Jobs, n \in Tries}

(* How far the recorded and the planned materializations reach. *)
Reached == {i[2] : i \in intervals}
           \cup {w[2] : w \in UNION {todo[j] : j \in Jobs}}
           \cup {q.window[2] : q \in {q \in Requests : q.stage # "none"}}

Curate(r) ==
    /\ pc[r] = "curate"
    /\ \E newFeatures, newLabels \in SUBSET Entities :
           /\ Upsert(r, newFeatures, newLabels)
           /\ late' = late \cup {e \in newFeatures : \E t \in Reached : FeatureTime[e] <= t}
    /\ pc' = [pc EXCEPT ![r] = "plan"]
    /\ UNCHANGED <<online, intervals, tries, requestVars, faults, historyVars, lost, skipped>>

(* The plan of a job becomes known: these windows, computed from these rows. *)
Undertake(j, windows, rows) ==
    /\ todo' = [todo EXCEPT ![j] = windows]
    /\ seen' = [seen EXCEPT ![j] = rows]
    /\ owed' = [owed EXCEPT ![j] = rows]
    /\ pc' = [pc EXCEPT ![j] = IF windows = {} THEN "done" ELSE "send"]
    /\ UNCHANGED <<tableVars, online, intervals, tries, request, faults, lost, late, skipped>>

(* Mutant: no _WINDOW_END_PAD. *)
RunWindowsUnpadded(rows) == IF rows = {} THEN {}
                            ELSE Windows(Earliest(rows), Latest(rows), Boundaries(rows))

(* The end of the last window is padded past max(): the rows of a run with *)
(* one timestamp need a window too.                                        *)
RunWindows(rows) == IF rows = {} THEN {}
                    ELSE Windows(Earliest(rows), Latest(rows) + 1, Boundaries(rows))

(* materialize_windows_for_run(), at the start of every attempt of the task. *)
PlanRun(r) == /\ pc[r] = "plan"
              /\ Undertake(r, RunWindows(featuresOf[r]), featuresOf[r])
              /\ UNCHANGED asked

(* plan(): its reads of the table and of the registry as one step. *)
PlanBackfill(b) ==
    /\ pc[b] = "plan"
    /\ \E end \in {t \in Instants : t <= clock} :
           LET start == IF intervals = {} THEN Earliest(Featured) ELSE ResumePoint
               stop == IF end < Latest(Featured) THEN end ELSE Latest(Featured)
               rows == Within(Featured, <<start, stop>>)
           IN  /\ IF Featured = {} \/ start >= stop
                  THEN Undertake(b, {}, {})
                  ELSE Undertake(b, Windows(start, stop, Boundaries(rows)), rows)
               /\ asked' = [asked EXCEPT ![b] = Within(Featured, <<0, end>>)]

Send(j) ==
    /\ pc[j] = "send"
    /\ \E w \in todo[j] :
           /\ IsNext(j, w)
           /\ request' = [request EXCEPT ![j][tries[j]] =
                             [window |-> w, stage |-> "read", rows |-> {}]]
    /\ pc' = [pc EXCEPT ![j] = "wait"]
    /\ UNCHANGED <<tableVars, online, intervals, tries, todo, faults, historyVars,
                   lost, late, skipped>>

-----------------------------------------------------------------------------
(***************************************************************************)
(* Feast serves a request                                                  *)
(***************************************************************************)

ReadRows(j, n) ==
    LET q == request[j][n]
    IN  /\ q.stage = "read"
        /\ request' = [request EXCEPT ![j][n] =
                          [window |-> q.window, stage |-> "write",
                           rows |-> Within(Featured, q.window)]]
        /\ UNCHANGED <<tableVars, online, intervals, pc, tries, todo, faults, historyVars,
                       lost, late, skipped>>

(* An entity's newest values win; every entity has one row, so a write adds. *)
WriteRows(j, n) ==
    LET q == request[j][n]
    IN  /\ q.stage = "write"
        /\ online' = online \cup q.rows
        /\ request' = [request EXCEPT ![j][n] =
                          [window |-> q.window, stage |-> "record", rows |-> q.rows]]
        /\ UNCHANGED <<tableVars, intervals, pc, tries, todo, faults, historyVars,
                       lost, late, skipped>>

(* The window is recorded and the job that waits for it goes on. *)
RecordInterval(j, n) ==
    LET w == request[j][n].window
        rest == todo[j] \ {w}
        waiting == pc[j] = "wait" /\ n = tries[j]
    IN  /\ request[j][n].stage = "record"
        /\ intervals' = intervals \cup {w}
        /\ skipped' = skipped \cup {e \in Featured : /\ j \in Runs /\ FeatureTime[e] < w[1]
                                                     /\ \A i \in intervals : i[2] < FeatureTime[e]}
        /\ request' = [request EXCEPT ![j][n] = NoRequest]
        /\ todo' = IF waiting THEN [todo EXCEPT ![j] = rest] ELSE todo
        /\ pc' = IF waiting THEN [pc EXCEPT ![j] = IF rest = {} THEN "done" ELSE "send"] ELSE pc
        /\ UNCHANGED <<tableVars, online, tries, faults, historyVars, lost, late>>

-----------------------------------------------------------------------------
(***************************************************************************)
(* What goes wrong                                                         *)
(***************************************************************************)

Fault(kind) == /\ kind \in FaultKinds /\ faults < MaxFaults
               /\ faults' = faults + 1

(* Airflow retries the task from its start; the backfill's exception ends it. *)
Abort(j) == /\ todo' = [todo EXCEPT ![j] = {}]
            /\ owed' = [owed EXCEPT ![j] = {}]
            /\ IF j \in Runs /\ tries[j] < Retries
               THEN /\ tries' = [tries EXCEPT ![j] = @ + 1]
                    /\ pc' = [pc EXCEPT ![j] = "plan"]
               ELSE pc' = [pc EXCEPT ![j] = "failed"] /\ UNCHANGED tries

(***************************************************************************)
(* The request dies: the feature server or the script is killed, Redis or  *)
(* Postgres cannot be reached.  Some of its rows may have been written.    *)
(***************************************************************************)
RequestFails(j, n) ==
    LET q == request[j][n]
    IN  /\ Fault("fail")
        /\ q.stage # "none"
        /\ \E rows \in SUBSET q.rows :
               online' = IF q.stage = "write" THEN online \cup rows ELSE online
        /\ request' = [request EXCEPT ![j][n] = NoRequest]
        /\ IF pc[j] = "wait" /\ n = tries[j]
           THEN Abort(j)
           ELSE UNCHANGED <<pc, tries, todo, owed>>
        /\ UNCHANGED <<tableVars, intervals, seen, asked, lost, late, skipped>>

(* The task gives up after timeout_seconds, or is killed; its request lives on. *)
TimesOut(r) ==
    /\ Fault("timeout")
    /\ pc[r] \in {"send", "wait"}
    /\ Abort(r)
    /\ UNCHANGED <<tableVars, online, intervals, request, seen, asked, lost, late, skipped>>

(* Redis evicts rows, is flushed, or loses its volume. *)
Lose ==
    /\ Fault("lose")
    /\ \E rows \in SUBSET online \ {{}} :
           /\ online' = online \ rows
           /\ lost' = lost \cup rows
           /\ owed' = [j \in Jobs |-> owed[j] \ rows]
           /\ asked' = [j \in Jobs |-> asked[j] \ rows]
    /\ UNCHANGED <<tableVars, intervals, pc, tries, requestVars, seen, late, skipped>>

StoreNext == \/ \E r \in Runs : Curate(r) \/ PlanRun(r) \/ TimesOut(r)
             \/ \E b \in Backfills : PlanBackfill(b)
             \/ \E j \in Jobs : Send(j)
             \/ \E j \in Jobs, n \in Tries : \/ ReadRows(j, n) \/ WriteRows(j, n)
                                             \/ RecordInterval(j, n) \/ RequestFails(j, n)
             \/ Lose
             \/ Tick /\ UNCHANGED storeVars

Init == TablesInit /\ StoreInit
Spec == Init /\ [][StoreNext]_vars

-----------------------------------------------------------------------------
(***************************************************************************)
(* Properties                                                              *)
(***************************************************************************)

Request == [window : Nat \X Nat, stage : {"none", "read", "write", "record"},
            rows : SUBSET Entities]

TypeOK == /\ TablesTypeOK
          /\ online \subseteq Entities
          /\ intervals \subseteq Nat \X Nat
          /\ pc \in [Jobs -> {"curate", "plan", "send", "wait", "done", "failed"}]
          /\ tries \in [Jobs -> Tries]
          /\ todo \in [Jobs -> SUBSET (Nat \X Nat)]
          /\ request \in [Jobs -> [Tries -> Request]]
          /\ faults \in 0 .. MaxFaults
          /\ seen \in [Jobs -> SUBSET Entities]
          /\ owed \in [Jobs -> SUBSET Entities]
          /\ asked \in [Jobs -> SUBSET Entities]
          /\ lost \subseteq Entities /\ late \subseteq Entities /\ skipped \subseteq Entities

(***************************************************************************)
(* The online store keeps its promise to the jobs: a run whose             *)
(* update_feature_store succeeds has every feature row it curated online,  *)
(* and a backfill that ends has every row from its resume point to its     *)
(* end online, whatever other materializations, retries, abandoned         *)
(* requests and new rows do meanwhile; only what Redis lost is missing.    *)
(***************************************************************************)
Served == INSTANCE ServedFeatures WITH
              Rows <- Entities, curated <- Featured, online <- online, owed <- owed,
              finished <- {j \in Jobs : pc[j] = "done"}
ImplementsServedFeatures == Served!Spec

(***************************************************************************)
(* What resuming from the registry relies on (resume_point): below the end *)
(* of every recorded interval the table is online.  The exceptions are     *)
(* what a backfill does not come back to: rows Redis lost, rows curated    *)
(* behind a plan or an interval, and rows a run's interval passed over.    *)
(***************************************************************************)
PrefixServed == \A e \in Featured : (\E i \in intervals : FeatureTime[e] <= i[2])
                                        => e \in online \cup lost \cup late \cup skipped

(***************************************************************************)
(* Memory is bounded by the chunk (materialize.py, module docstring): a    *)
(* window has fewer than ChunkRows rows of its plan strictly between its   *)
(* ends, however the rows are spread over time.                            *)
(***************************************************************************)
PlansAreChunked ==
    \A j \in Jobs : \A w \in todo[j] :
        Cardinality(Within(seen[j], <<w[1] + 1, w[2] - 1>>)) < ChunkRows

(***************************************************************************)
(* The runbook's recovery: "make feast-materialize" after a FLUSHALL, an   *)
(* eviction or an interrupted materialization has every row up to its end  *)
(* online again.  Violated: it resumes where the last interval ended.      *)
(***************************************************************************)
BackfillRebuilds == \A b \in Backfills : pc[b] = "done" => asked[b] \subseteq online
=============================================================================
