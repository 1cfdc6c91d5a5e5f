---------------------------- MODULE BatchPipeline ----------------------------
(***************************************************************************)
(* The batch pipeline (src/infra/airflow/dags, amel_lake/watermark.py):    *)
(* DAG runs that move rows from the landing tables through bronze, silver, *)
(* the curated tables and the training records to the online store.        *)
(*                                                                         *)
(* Nothing limits the DAG to one active run, so runs overlap; a task that  *)
(* fails or is killed is retried from its start.  A transaction is one     *)
(* action, a task that makes several is several actions.                   *)
(*                                                                         *)
(* A row is a stream and an entity: event ids are feat-<entity> and        *)
(* label-<entity> (simulator.py).  ingested_at is the server's now(), the  *)
(* start of the inserting transaction, which becomes visible when it       *)
(* commits.  Time only matters against the runs' upper bounds, so the      *)
(* clock counts the runs triggered so far; 0 is the EPOCH.                 *)
(***************************************************************************)
EXTENDS Integers, FiniteSets

CONSTANTS
    Entities,
    Published,      \* the rows the ingestor inserts
    Invalid,        \* the rows the schemas of validation.py reject
    EventTime,      \* event_timestamp of an entity's feature row
    Runs,           \* run_ids
    NoRun,
    Retries,        \* default_args["retries"]
    MaxInvalidPercent, \* VALIDATION_MAX_INVALID_FRACTION, in percent
    MaxFailures     \* bound: how many task attempts fail, the validation gate's own aside

Streams == {"features", "labels"}
Rows == Streams \X Entities

ASSUME PipelineAssumption ==
    /\ Published \subseteq Rows
    /\ Invalid \subseteq Rows
    /\ EventTime \in [Entities -> Int]
    /\ NoRun \notin Runs
    /\ IsFiniteSet(Published)
    /\ Retries \in Nat
    /\ MaxInvalidPercent \in 0 .. 100
    /\ MaxFailures \in Nat

VARIABLES
    clock,          \* runs triggered so far
  (* landing.higgs_feature_events / higgs_label_events *)
    inserted,       \* state of the inserting transaction: "no", "open", "visible"
    ingested_at,
  (* curated.*, control.* *)
    curated,        \* source_run_id of a curated row, or NoRun
    training,       \* source_run_id of an entity's training record, or NoRun
    watermark,      \* control.pipeline_watermarks
    recorded,       \* control.pipeline_runs: the status of a run, "none" without a row
  (* the lake and the online store *)
    bronze, silver, \* rows in the objects of a run
    gold,           \* entities in the gold object of a run
    online,         \* entities with feature values in the online store
  (* a DAG run *)
    task,           \* the next step of the run
    attempts,       \* failed attempts of the current task
    bounds,         \* determine_high_watermark's result
    staged,         \* rows in the run's staging directory
    pairs,          \* build_training_dataset's result
  (* bookkeeping *)
    failures,       \* failed attempts so far
    late            \* history: rows that became visible after a run had read past them

landingVars == <<inserted, ingested_at, late>>
lakeVars == <<bronze, silver, gold, online>>
tableVars == <<curated, training, watermark, recorded>>
runVars == <<bounds, staged, pairs>>
vars == <<clock, landingVars, tableVars, lakeVars, task, attempts, runVars, failures>>

Tasks == {"determine", "determine_labels", "extract", "extract_labels", "bronze", "validate",
          "silver", "curate", "build", "upsert", "gold", "store", "emit"}

Active(r) == task[r] \in Tasks

(* What a retry of the failed step starts with: three tasks are made of several steps. *)
Restart(step) == CASE step = "determine_labels" -> "determine"
                   [] step = "extract_labels" -> "extract"
                   [] step \in {"upsert", "gold"} -> "build"
                   [] OTHER -> step

(* The run has read the stream's landing table and has not moved the watermarks yet. *)
HasExtracted(r, s) == \/ task[r] \in {"bronze", "validate", "silver", "curate"}
                      \/ task[r] = "extract_labels" /\ s = "features"

-----------------------------------------------------------------------------
(***************************************************************************)
(* The landing tables and the scheduler                                    *)
(***************************************************************************)

(* The ingestor's transaction starts and takes its now() ... *)
BeginInsert(row) == /\ inserted[row] = "no" /\ row \in Published
                    /\ inserted' = [inserted EXCEPT ![row] = "open"]
                    /\ ingested_at' = [ingested_at EXCEPT ![row] = clock + 1]
                    /\ UNCHANGED <<clock, late, tableVars, lakeVars, task, attempts, runVars,
                                   failures>>

(* ... and commits, at once or after some run has looked. *)
CommitInsert(row) ==
    /\ inserted[row] = "open"
    /\ inserted' = [inserted EXCEPT ![row] = "visible"]
    /\ late' = IF \/ ingested_at[row] <= watermark[row[1]]
                  \/ \E r \in Runs : /\ HasExtracted(r, row[1])
                                   /\ ingested_at[row] <= bounds[r].upper_bound
               THEN late \cup {row} ELSE late
    /\ UNCHANGED <<clock, ingested_at, tableVars, lakeVars, task, attempts, runVars, failures>>

(* data_interval_end of a scheduled run, run_after of a manual one. *)
Trigger(r) == /\ task[r] = "idle"
              /\ clock' = clock + 1
              /\ task' = [task EXCEPT ![r] = "determine"]
              /\ bounds' = [bounds EXCEPT ![r].upper_bound = clock + 1]
              /\ UNCHANGED <<landingVars, tableVars, lakeVars, attempts, staged, pairs, failures>>

-----------------------------------------------------------------------------
(***************************************************************************)
(* The end of an attempt.  An exception, a timeout or a killed worker ends *)
(* it before, between or after the effects of the task; Airflow retries    *)
(* the task, and when the retries are used up _on_failure records the run  *)
(* (unless the callback fails too) and the run ends.                       *)
(***************************************************************************)

(* The task succeeded; the next one starts with its own count of attempts. *)
Proceed(r, next) == /\ task' = [task EXCEPT ![r] = next]
                    /\ attempts' = [attempts EXCEPT ![r] = 0]

AttemptFails(r, runs) ==
    \/ /\ attempts[r] < Retries
       /\ attempts' = [attempts EXCEPT ![r] = @ + 1]
       /\ task' = [task EXCEPT ![r] = Restart(task[r])]
       /\ recorded' = runs
    \/ /\ attempts[r] >= Retries
       /\ task' = [task EXCEPT ![r] = "failed"]
       /\ recorded' \in {runs, [runs EXCEPT ![r] = "failed"]}
       /\ UNCHANGED attempts

Interrupted == failures < MaxFailures /\ failures' = failures + 1

(* The task ends after its effect, with success or without. *)
Ends(r, next) == \/ Proceed(r, next) /\ UNCHANGED <<recorded, failures>>
                 \/ AttemptFails(r, recorded) /\ Interrupted

(* ... or before it. *)
Fail(r) == /\ Active(r)
           /\ AttemptFails(r, recorded) /\ Interrupted
           /\ UNCHANGED <<clock, landingVars, curated, training, watermark, lakeVars, runVars>>

-----------------------------------------------------------------------------
(***************************************************************************)
(* The tasks                                                               *)
(***************************************************************************)

(* One session per watermark: another run may commit between the two. *)
GetWatermark(r, s) == bounds' = [bounds EXCEPT ![r].watermark[s] = watermark[s]]

Determine(r) == /\ \/ /\ task[r] = "determine" /\ GetWatermark(r, "features")
                      /\ task' = [task EXCEPT ![r] = "determine_labels"]
                      /\ UNCHANGED attempts
                   \/ /\ task[r] = "determine_labels" /\ GetWatermark(r, "labels")
                      /\ Proceed(r, "extract")
                /\ UNCHANGED <<clock, landingVars, tableVars, lakeVars, staged, pairs, failures>>

NewRecords(r, s) == {row \in Published : /\ row[1] = s /\ inserted[row] = "visible"
                                         /\ ingested_at[row] > bounds[r].watermark[s]
                                         /\ ingested_at[row] <= bounds[r].upper_bound}

(* Again a session per table. *)
Extract(r) == /\ \/ /\ task[r] = "extract"
                    /\ staged' = [staged EXCEPT ![r] = NewRecords(r, "features")]
                    /\ task' = [task EXCEPT ![r] = "extract_labels"]
                    /\ UNCHANGED attempts
                 \/ /\ task[r] = "extract_labels"
                    /\ staged' = [staged EXCEPT ![r] = @ \cup NewRecords(r, "labels")]
                    /\ Proceed(r, "bronze")
              /\ UNCHANGED <<clock, landingVars, tableVars, lakeVars, bounds, pairs, failures>>

WriteBronze(r) == /\ task[r] = "bronze"
                  /\ bronze' = [bronze EXCEPT ![r] = staged[r]]
                  /\ Ends(r, "validate")
                  /\ UNCHANGED <<clock, landingVars, curated, training, watermark, silver, gold,
                                 online, runVars>>

(* invalid_fraction > MAX_INVALID_FRACTION for one of the streams *)
GateFails(r) ==
    \E s \in Streams :
        LET rows == {row \in staged[r] : row[1] = s}
        IN  Cardinality(rows \cap Invalid) * 100 > MaxInvalidPercent * Cardinality(rows)

(* Below the threshold the invalid rows are left out and reported. *)
Validate(r) == /\ task[r] = "validate" /\ ~GateFails(r)
               /\ staged' = [staged EXCEPT ![r] = @ \ Invalid]
               /\ Proceed(r, "silver")
               /\ UNCHANGED <<clock, landingVars, tableVars, lakeVars, bounds, pairs, failures>>

ValidationGateFails(r) ==
    /\ task[r] = "validate" /\ GateFails(r)
    /\ AttemptFails(r, recorded)
    /\ UNCHANGED <<clock, landingVars, curated, training, watermark, lakeVars, runVars, failures>>

(* Mutant: the object key names the date and not the run. *)
WriteSilverByDate(r) == /\ task[r] = "silver"
                        /\ silver' = [q \in Runs |-> staged[r]]
                        /\ Ends(r, "curate")
                        /\ UNCHANGED <<clock, landingVars, curated, training, watermark, bronze,
                                       gold, online, runVars>>

(* transform only changes the shape of the rows. *)
WriteSilver(r) == /\ task[r] = "silver"
                  /\ silver' = [silver EXCEPT ![r] = staged[r]]
                  /\ Ends(r, "curate")
                  /\ UNCHANGED <<clock, landingVars, curated, training, watermark, bronze, gold,
                                 online, runVars>>

(* Mutant: the watermark is set, as before GREATEST. *)
LastWriter(current, new) == new

(* GREATEST(current, new) *)
Greatest(current, new) == IF current < new THEN new ELSE current

(* Mutant: ON CONFLICT DO UPDATE. *)
CuratedByLast(r) == [row \in Rows |-> IF row \in staged[r] THEN r ELSE curated[row]]

(* INSERT .. ON CONFLICT (event_id) DO NOTHING *)
CuratedBy(r) == [row \in Rows |-> IF row \in staged[r] /\ curated[row] = NoRun THEN r
                                                                             ELSE curated[row]]

(* Mutant: the watermarks advance in a transaction of their own, before the upserts. *)
CurateAfterWatermarks(r) ==
    /\ task[r] = "curate"
    /\ watermark' = [s \in Streams |-> Greatest(watermark[s], bounds[r].upper_bound)]
    /\ \/ curated' = CuratedBy(r) /\ Ends(r, "build")
       \/ AttemptFails(r, recorded) /\ Interrupted /\ UNCHANGED curated
    /\ UNCHANGED <<clock, landingVars, training, lakeVars, runVars>>

(* The curated upserts and both watermarks, in one transaction. *)
Curate(r) == /\ task[r] = "curate"
             /\ curated' = CuratedBy(r)
             /\ watermark' = [s \in Streams |-> Greatest(watermark[s], bounds[r].upper_bound)]
             /\ Ends(r, "build")
             /\ UNCHANGED <<clock, landingVars, training, lakeVars, runVars>>

(* Mutant: the join of what this run extracted. *)
JoinableFromDelta(r) == {e \in Entities : /\ <<"features", e>> \in staged[r]
                                          /\ <<"labels", e>> \in staged[r]
                                          /\ training[e] = NoRun}

(* The join of the accumulated curated tables, without what has a record already. *)
Joinable(r) == {e \in Entities : /\ curated[<<"features", e>>] # NoRun
                                 /\ curated[<<"labels", e>>] # NoRun
                                 /\ training[e] = NoRun}

BuildTrainingDataset(r) ==
    /\ task[r] = "build"
    /\ pairs' = [pairs EXCEPT ![r] = Joinable(r)]
    /\ task' = [task EXCEPT ![r] = "upsert"]
    /\ UNCHANGED <<clock, landingVars, tableVars, lakeVars, attempts, bounds, staged, failures>>

(* ON CONFLICT (entity_id) DO NOTHING; gold is only written when a record was new. *)
UpsertTrainingRecords(r) ==
    LET new == {e \in pairs[r] : training[e] = NoRun}
    IN  /\ task[r] = "upsert"
        /\ training' = [e \in Entities |-> IF e \in new THEN r ELSE training[e]]
        /\ \/ new # {} /\ task' = [task EXCEPT ![r] = "gold"] /\ UNCHANGED attempts
           \/ new = {} /\ Proceed(r, "store")
        /\ UNCHANGED <<clock, landingVars, curated, watermark, recorded, lakeVars, runVars,
                       failures>>

(* Mutant: the gold object holds the pairs whose feature row the run has extracted itself. *)
WriteGoldOfDelta(r) == /\ task[r] = "gold"
                       /\ gold' = [gold EXCEPT ![r] =
                                      {e \in pairs[r] : <<"features", e>> \in staged[r]}]
                       /\ Ends(r, "store")
                       /\ UNCHANGED <<clock, landingVars, curated, training, watermark, bronze,
                                      silver, online, runVars>>

WriteGold(r) == /\ task[r] = "gold"
                /\ gold' = [gold EXCEPT ![r] = pairs[r]]
                /\ Ends(r, "store")
                /\ UNCHANGED <<clock, landingVars, curated, training, watermark, bronze, silver,
                               online, runVars>>

(* What a run added to curated.higgs_features, by source_run_id. *)
RunFeatures(r) == {e \in Entities : curated[<<"features", e>>] = r}

(* Mutant: the last window ends at the last timestamp, exclusive (no _WINDOW_END_PAD). *)
WindowUnpadded(r) ==
    {e \in Entities :
        /\ curated[<<"features", e>>] # NoRun
        /\ \E first, last \in RunFeatures(r) :
              EventTime[e] \in EventTime[first] .. (EventTime[last] - 1)}

(* What materializing the windows over their timestamps reads: every curated row between *)
(* the first and the last of them, the bounds included.                                  *)
Window(r) ==
    {e \in Entities :
        /\ curated[<<"features", e>>] # NoRun
        /\ \E first, last \in RunFeatures(r) : EventTime[e] \in EventTime[first] .. EventTime[last]}

UpdateFeatureStore(r) == /\ task[r] = "store"
                         /\ online' = online \cup Window(r)
                         /\ Proceed(r, "emit")
                         /\ UNCHANGED <<clock, landingVars, tableVars, bronze, silver, gold,
                                        runVars, failures>>

(* Some of the windows were posted, earlier timestamps first. *)
FeatureStoreFails(r) ==
    /\ task[r] = "store"
    /\ \E e \in Window(r) :
          online' = online \cup {x \in Window(r) : EventTime[x] <= EventTime[e]}
    /\ AttemptFails(r, recorded) /\ Interrupted
    /\ UNCHANGED <<clock, landingVars, curated, training, watermark, bronze, silver, gold, runVars>>

Emit(r) == LET runs == [recorded EXCEPT ![r] = "success"]
           IN  /\ task[r] = "emit"
               /\ \/ /\ recorded' = runs /\ Proceed(r, "done")
                     /\ staged' = [staged EXCEPT ![r] = {}]
                     /\ UNCHANGED failures
                  \/ AttemptFails(r, runs) /\ Interrupted /\ UNCHANGED staged
               /\ UNCHANGED <<clock, landingVars, curated, training, watermark, lakeVars, bounds,
                              pairs>>

-----------------------------------------------------------------------------
Init == /\ clock = 0
        /\ inserted = [row \in Rows |-> "no"]
        /\ ingested_at = [row \in Rows |-> 0]
        /\ late = {}
        /\ curated = [row \in Rows |-> NoRun]
        /\ training = [e \in Entities |-> NoRun]
        /\ watermark = [s \in Streams |-> 0]
        /\ recorded = [r \in Runs |-> "none"]
        /\ bronze = [r \in Runs |-> {}] /\ silver = [r \in Runs |-> {}]
        /\ gold = [r \in Runs |-> {}] /\ online = {}
        /\ task = [r \in Runs |-> "idle"]
        /\ attempts = [r \in Runs |-> 0]
        /\ bounds = [r \in Runs |-> [watermark |-> [s \in Streams |-> 0], upper_bound |-> 0]]
        /\ staged = [r \in Runs |-> {}] /\ pairs = [r \in Runs |-> {}]
        /\ failures = 0

Step(r) == \/ Determine(r) \/ Extract(r) \/ WriteBronze(r) \/ Validate(r)
           \/ ValidationGateFails(r) \/ WriteSilver(r) \/ Curate(r) \/ BuildTrainingDataset(r)
           \/ UpsertTrainingRecords(r) \/ WriteGold(r) \/ UpdateFeatureStore(r)
           \/ FeatureStoreFails(r) \/ Emit(r) \/ Fail(r)

Next == \/ \E row \in Rows : BeginInsert(row) \/ CommitInsert(row)
        \/ \E r \in Runs : Trigger(r) \/ Step(r)

Spec == Init /\ [][Next]_vars

-----------------------------------------------------------------------------
(***************************************************************************)
(* Properties                                                              *)
(***************************************************************************)

TypeOK ==
    /\ clock \in Nat
    /\ inserted \in [Rows -> {"no", "open", "visible"}]
    /\ ingested_at \in [Rows -> Nat]
    /\ late \subseteq Rows
    /\ curated \in [Rows -> Runs \cup {NoRun}]
    /\ training \in [Entities -> Runs \cup {NoRun}]
    /\ watermark \in [Streams -> Nat]
    /\ recorded \in [Runs -> {"none", "failed", "success"}]
    /\ bronze \in [Runs -> SUBSET Rows] /\ silver \in [Runs -> SUBSET Rows]
    /\ gold \in [Runs -> SUBSET Entities] /\ online \subseteq Entities
    /\ task \in [Runs -> Tasks \cup {"idle", "failed", "done"}]
    /\ attempts \in [Runs -> 0 .. Retries]
    /\ bounds \in [Runs -> [watermark : [Streams -> Nat], upper_bound : Nat]]
    /\ staged \in [Runs -> SUBSET Rows] /\ pairs \in [Runs -> SUBSET Entities]
    /\ failures \in Nat

(* watermark.py:12-23: overlapping runs that commit in any order never move a watermark back. *)
WatermarksAdvance == [][\A s \in Streams : watermark'[s] >= watermark[s]]_watermark

(* No interleaving of overlapping, failing and retried runs moves a watermark over a row that *)
(* was there to be read: up to the watermark everything is curated, or was left out as        *)
(* invalid by a run below the threshold.                                                      *)
Processed(row) == curated[row] # NoRun \/ row \in Invalid

NothingSkipped ==
    \A row \in Published \ late :
        inserted[row] = "visible" /\ ingested_at[row] <= watermark[row[1]] => Processed(row)

(* A retry and an overlapping run never take over a curated row or a training record: both    *)
(* keep the source_run_id that lineage and the feature store task go by.                      *)
FirstRunKeepsRow ==
    [][/\ \A row \in Rows : curated[row] # NoRun => curated'[row] = curated[row]
       /\ \A e \in Entities : training[e] # NoRun => training'[e] = training[e]]_vars

(* Whichever run curates the second half of an entity's pair, and however the runs overlap,   *)
(* the entity has its training record unless such a run is on its way to it or has failed     *)
(* without having been recorded as a success.                                                 *)
OnItsWay(r, e) == \/ task[r] \in {"curate", "build"}
                  \/ task[r] = "upsert" /\ e \in pairs[r]
                  \/ task[r] = "failed" /\ recorded[r] # "success"

JoinComplete ==
    \A e \in Entities :
        curated[<<"features", e>>] # NoRun /\ curated[<<"labels", e>>] # NoRun =>
            \/ training[e] # NoRun
            \/ OnItsWay(curated[<<"features", e>>], e)
            \/ OnItsWay(curated[<<"labels", e>>], e)

(* A run recorded as a success has all its features in the online store. *)
SuccessIsServed == \A r \in Runs : recorded[r] = "success" => RunFeatures(r) \subseteq online

(* The bronze and silver objects of the run a curated row names contain it. *)
LineageComplete ==
    \A row \in Rows : curated[row] # NoRun =>
        row \in bronze[curated[row]] /\ row \in silver[curated[row]]

(* What the properties above rest on; all of them together are inductive.  A run's bounds are *)
(* behind the watermarks, and what it read is all there is between them, also when others     *)
(* commit in the meantime; it has curated nothing before its own transaction and changes      *)
(* nothing after.                                                                             *)
BoundsBehind == \A r \in Runs : \A s \in Streams : bounds[r].watermark[s] <= watermark[s]

ReadComplete ==
    \A r \in Runs :
        \A row \in Published \ late :
            /\ HasExtracted(r, row[1])
            /\ inserted[row] = "visible"
            /\ bounds[r].watermark[row[1]] < ingested_at[row]
            /\ ingested_at[row] <= bounds[r].upper_bound
            => row \in staged[r] \/ (task[r] \in {"silver", "curate"} /\ row \in Invalid)

StagedInLake ==
    \A r \in Runs : /\ task[r] \in {"validate", "silver", "curate"} => staged[r] \subseteq bronze[r]
                    /\ task[r] = "curate" => staged[r] \subseteq silver[r]

CuratesOnce ==
    \A r \in Runs :
        task[r] \in {"idle", "determine", "determine_labels", "extract", "extract_labels", "bronze",
                    "validate", "silver"} =>
            \A row \in Rows : curated[row] # r

ServedBeforeEmit ==
    \A r \in Runs : /\ task[r] \in {"emit", "done"} => RunFeatures(r) \subseteq online
                    /\ recorded[r] = "success" => task[r] \in {"emit", "done", "failed"}

PipelineInvariant ==
    BoundsBehind /\ ReadComplete /\ StagedInLake /\ CuratesOnce /\ ServedBeforeEmit

(* models.py:134-138: the watermark is "advanced only after the data up to that boundary is   *)
(* durably curated".                                                                          *)
CuratedUpToWatermark ==
    \A row \in Published :
        inserted[row] = "visible" /\ ingested_at[row] <= watermark[row[1]] => Processed(row)

(* The gold objects against the training records, although an overlapping run takes records   *)
(* away between a run's join and its upsert: no pair is in a gold object without having its   *)
(* record, whatever fails, and the records a successful run added are in its gold object, as  *)
(* long as no attempt was cut short (a retry of the upsert finds nothing new, and skips gold).*)
GoldAgrees ==
    \A r \in Runs :
        /\ \A e \in gold[r] : training[e] # NoRun
        /\ failures = 0 /\ recorded[r] = "success" => {e \in Entities : training[e] = r} \subseteq gold[r]

(* What GoldAgrees rests on: where a run is whose records are there. *)
RecordsOnTheirWay ==
    \A r \in Runs :
        /\ \A e \in gold[r] : training[e] # NoRun
        /\ task[r] = "gold" => \A e \in pairs[r] : training[e] # NoRun
        /\ failures = 0 => \A e \in Entities : training[e] = r =>
              \/ task[r] = "gold" /\ e \in pairs[r]
              \/ task[r] \in {"store", "emit", "done"} /\ e \in gold[r]

-----------------------------------------------------------------------------
(***************************************************************************)
(* The promise of the pipeline                                             *)
(***************************************************************************)

Landed == {row \in Published : inserted[row] = "visible"}

Passed == {row \in Landed \ late : ingested_at[row] <= watermark[row[1]]}
Succeeded == {r \in Runs : recorded[r] = "success"}

Promise == INSTANCE CuratedOnce WITH landed <- Landed, passed <- Passed, succeeded <- Succeeded

(* The pipeline implements CuratedOnce: whatever runs overlap, fail in whatever step and are  *)
(* retried, its tables change as if each run moved its rows once, and a success means that    *)
(* features are served and pairs joined.  Late rows count as never passed.                    *)
ImplementsCuratedOnce == Promise!Spec
=============================================================================
