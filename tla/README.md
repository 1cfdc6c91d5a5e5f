# A verification of AMEL, the agentic ML engineering lab

TLA+ models, model-checking runs and machine-checked proofs for the event
ingestion, batch pipeline, feature store, training and serving system under
`src/`.  Every definition is translated from the code; `PROJECT.json` maps each
one to its lines.

    tlc -workers 2 -config ingestor_delivery.cfg MCStreamIngestor.tla
    tlapm StreamIngestorProofs.tla

## 1. The system and its components

    source_simulator --Kafka--> stream_ingestor --Postgres landing.*--> higgs_pipeline
         |                           |                                   |  bronze/silver/gold (MinIO)
         | probes, pause/resume      +--Kafka *.dlq.v1                    |  curated.*, control.*
                                                                         v
       training_registry <--curated.training_records--  feature store (Feast/Redis)
         | MLflow versions, aliases                          |
         v                                                   v
       inference_api  (model cache, prediction store, prediction events)

| component | state it keeps | operations | what is hard | what makes it correct |
|---|---|---|---|---|
| `stream_ingestor` | Kafka positions, a batch with its cursor and offsets, error flags, the dead-letter producer's queue | poll, validate, write with retry, commit, rebalance callbacks, probes, stop | rebalances inside a batch, crashes between database and offset commit, lost answers, hung calls, shutdown with work in flight | no message below a committed offset is lost; one row per event; a stuck replica gets restarted |
| `source_simulator` | counters, delay queue, producer health, pause flag | publish feature, schedule and publish label, duplicate or corrupt a message, pause/resume, probes | three threads and librdkafka callbacks on shared health state; a producer call that hangs in the loop or in the dispatcher | a hung loop is noticed, a healthy one is not; each entity gets its label unless the dispatcher hangs, which nobody notices |
| `higgs_pipeline`, `amel_lake` | DAG runs (task, attempts, staging), watermarks, lake objects, curated tables | ten tasks from `determine_high_watermark` to `emit_pipeline_metadata` | overlapping runs, retries of half-done tasks, rows that commit late, killed workers | nothing is skipped, watermarks only advance, pairs are joined, lineage is kept, successes are served |
| `feature_materialization` (`feature_repo`, the last task of the DAG) | Redis, Feast's materialization intervals | plan, chunk, materialize, retry, resume | requests that live on after their sender gave up, interruption between windows, rows that arrive below the resume point, losses in Redis | a job that succeeds has served its rows; what lies below a recorded interval is online; a window holds a chunk |
| `inference_api` | cached model, probes, producer counters | predict, refresh, persist, publish | refreshes during requests and beside each other, failing or hanging calls, shutdown | answer, row and event name the version that made the prediction; an older champion does not come back; requests never wait for a refresh |
| `training_registry`, `kfp_pipelines` | MLflow runs, versions, aliases, `control.model_promotions` | train, evaluate, register, promote | interleaved trainings and promotions, crash between alias and audit row, registry errors | the champion passed the gate, the audit table tells its history, tags tell the run |
| `mode_scripts` | the kind node and its memory cap, two namespaces, the Compose services that run | `mode.sh` compose, k8s, scale, kfp; the up and down scripts beside it | a switch that fails or is interrupted at any step leaves a mixture for the next one; questions that go unanswered unseen | KFP always has its memory; services do not run twice, exit 0 tells the mode and Compose is a way out, unless a script goes past a failure that `set -e` does not see |
| `amel_db`, `amel_common` | tables, schemas | sessions, event parsing | - | all-or-nothing transactions; modelled where the other modules use them |
| infra configuration, smoke scripts | - | - | - | not modelled |

`PROJECT.json` lists under `hazards` each place in the code where this can go
wrong, with the property that covers it or the reason none does.

Calls and shared state between the modelled parts: the ingestor is the only
writer of the landing tables, the pipeline their only reader; they meet in
`ingested_at`, which Postgres stamps with the start of the ingestor's
transaction and the pipeline compares with its watermarks.  The pipeline writes
the curated tables that the feature store, training and (through the online
store) the inference service read: `CuratedTables` is that shared state,
`FeaturePlane` the composition of its two readers over it.

## 2. Plan

| order | module | about | state |
|---|---|---|---|
| 1 | `EventLog`, `ReliableLanding`, `StreamIngestor` | delivery from Kafka to the landing tables, and the promise it implements | modelled, checked, proved |
| 2 | `StreamIngestorProofs` | the ingestor's inductive invariant and the refinement | proved |
| 3 | `CuratedOnce`, `BatchPipeline`, `BatchPipelineProofs` | overlapping DAG runs, retries, watermarks, and the promise they implement | modelled, checked, proved |
| 4 | `SourceSimulator`, `SourceSimulatorProofs` | publish loop, delayed labels, producer health, watchdog and shutdown | modelled, checked, proved |
| 5 | `ModelRegistry`, `ModelRegistryProofs` | trainings that register and tag versions, promotions by several actors, alias against audit table | modelled, checked, proved |
| 6 | `InferenceService`, `InferenceServiceProofs` | model cache refresh, persistence, publication, shutdown | modelled, checked, proved |
| 7 | `CuratedTables`, `ServedFeatures`, `FeatureStore`, `FeatureStoreProofs` | materialization by runs and backfills, and the promise it implements | modelled, checked, proved |
| 8 | `TrainingData`, `FeaturePlane`, `FeaturePlaneProofs` | the rows of a data set and the `as_of` it is logged under, composed with 7 over the same tables | modelled, checked, proved |
| 9 | `ModeSwitch`, `ModeSwitchProofs` | the resource modes | modelled, checked exhaustively, proved |

`EventLog` stands for the topics the simulator (4) produces and the ingestor (1)
consumes.  `ReliableLanding` is what the pipeline may assume of the landing
tables.  `BatchPipeline` follows a run through all its tasks; `FeatureStore`
takes the rows a run curates as given and follows its last task into the online
store.  `ModelRegistry` moves the alias that the `Promote` of
`InferenceService` stands for.  Modules that are proved about declare no
RECURSIVE operator; recursion is written as recursive functions or folds.

## 3. The stream ingestor

`EventLog` holds the contents of the input topics: a message is a
`<<partition, offset>>` and its payload is one of four kinds, by what
`_validate` and Postgres make of it (`valid`, `invalid`, `undecodable`,
`unstorable`).  An `event` may occur twice: the simulator duplicates sends.

`StreamIngestor` has one action per step that another thread, replica or crash
can get between:

| code (`consumer.py` unless said otherwise) | action |
|---|---|
| `_on_revoke`, `_on_assign` inside `poll` | `Join`, `OnAssign` |
| `_poll_batch`, one message; its end | `PollMessage`; `BatchPolled` |
| the validation loop, one message; an exception out of it | `Validate`; `ValidateRaises` |
| `_write_with_retry` / `_write_batch` | `BatchValidated`, `WriteBatch`, `RetryWrite`, `GiveUpWrite` |
| the synchronous offset commit and its except branch | `CommitAccepted`, `CommitRejected` |
| the end of `_run` with its `finally` | `LoopStops`, or `EndLoop` in the actions that raise |
| `stop()`, the lifespan exit (`api.py`), `main` | `Stop`, `Flush`, `Exit`, `Start` |
| `DlqProducer` callbacks (`dlq.py`) | `SendToDlq`, `DlqDelivered`, `DlqDeliveryFailed` |
| group coordinator (external) | `CompleteRebalance`, `Evict`, `ExpireSession` |
| faults (external) | `Crash`, `Stall`, `Unstall`, and the fault branches of writes, commits and flushes |

`committed`, `landing` and `dlqTopic` survive a crash, everything else of a
replica is reset by `ProcessEnds`.  A database transaction that fails may have
committed with its acknowledgement lost; an offset commit may succeed with its
answer lost; the broker accepts the commit of any current member, also one
whose partitions have moved, so a committed offset may go back.  `Stop` stands
for SIGTERM (by the kubelet on a failed liveness probe, or a rollout); `Flush`
may run while the loop is still inside a call, as `stop()` only joins for a
limited time.

`ReliableLanding` is the promise: rows are only added, one per event; only
invalid messages are quarantined; commits cover only accounted-for messages.
`StreamIngestor` implements it with the identity mapping on `landing`,
`handed`, `committed` (checked by TLC in `ingestor_shutdown`, proved by
`Implements`).

Runs:

| run | instance | shows |
|---|---|---|
| `ingestor_delivery` | 2 replicas, 1 partition of a valid and an invalid message, batch of 2, no retry, one fault of any kind, fairness | `NoLoss`, `EventuallyAccounted` |
| `ingestor_shutdown` | 1 replica, 2 partitions: two malformed messages against a dead-letter queue of 1 with a duplicated event between them, a row Postgres refuses, a payload that is not UTF-8; one retry, 3 faults of any kind | `ImplementsReliableLanding`, `OrderlyShutdownKeepsQuarantine`, `ReadyMeansConsuming` |
| `ingestor_dlq_loss` | 1 replica, one crash | finding: `QuarantineDurable` fails |

Why the bounds are enough: two replicas, one partition and a batch of two
suffice for one replica to hold a half-processed batch while the other
reprocesses it, for a batch to span a rebalance and for a batch to mix kinds.
One fault per behaviour already separates every pair of steps of two replicas;
three show a single one failing again while it recovers.  The long log is
checked with one replica only (with two it is out of reach of a run of
minutes): that a message redelivered to another replica leaves one row per
event is proved (`LandedOnce`, `Implements`), for any number of replicas and
faults.

Two dead ends of a partition are in the model and not among its properties,
since no document promises otherwise: a payload that is not UTF-8 raises
`UnicodeDecodeError`, which `_validate` does not catch (`consumer.py:250`), and
a row the schema accepts and Postgres refuses fails every attempt
(`consumer.py:291`).  Both stop the loop at every restart;
`EventuallyAccounted` is about logs without such messages.

Fairness (`FairSpec`) is weak fairness of each replica's loop thread (a
scheduled thread), of the coordinator's rebalance and session expiry
(timeouts), and of the kubelet: it stops a pod whose liveness probe fails,
`stop()` and the exit take their course, and the pod is started again.  A hung
call need never return (`Unstall` is not fair), no fault is fair, and a healthy
pod is never obliged to stop.

## 4. The batch pipeline

`BatchPipeline` has landing rows (a stream and an entity), whose inserting
transaction takes its `ingested_at` when it starts (`BeginInsert`) and becomes
visible when it commits (`CommitInsert`), and DAG runs that overlap freely:
`dag(...)` sets no `max_active_runs`.  One action is one transaction or one
object write:

| code | action |
|---|---|
| `_upper_bound`, the scheduler | `Trigger` |
| `determine_high_watermark`: one session per watermark | `Determine` (two steps) |
| `extract_new_records_task`: one session per table | `Extract` (two steps) |
| `write_bronze_task`, `write_silver_task` with `transform_task` | `WriteBronze`, `WriteSilver` |
| `validate_task`, below and above the threshold | `Validate`, `ValidationGateFails` |
| `update_curated_tables_and_advance_watermarks` | `Curate` |
| `build_training_dataset_task`: read, upsert, object | `BuildTrainingDataset`, `UpsertTrainingRecords`, `WriteGold` |
| `update_feature_store`; a post that raises | `UpdateFeatureStore`; `FeatureStoreFails` |
| `emit_pipeline_metadata_task` | `Emit` |
| a killed or timed-out attempt, after or before the effect | `Ends`, `Fail`; retries and `_on_failure` in `AttemptFails` |

Time is abstracted to what the code compares: the clock counts triggered runs,
a run's upper bound is its own tick, and a row that begins after `n` triggers
carries `n + 1`, so rows fall strictly between bounds or on one.  `late` is
history: the rows that became visible after a run had read past their
`ingested_at`.  `NothingSkipped` is about the others; that late rows are
skipped for good is the finding of `pipeline_late`.

| run | instance | shows |
|---|---|---|
| `pipeline_runs` | 2 runs, a whole pair plus a second feature that is out of range (half of a window is allowed to be invalid), one killed attempt, one retry | `NothingSkipped`, `WatermarksAdvance`, `ImplementsCuratedOnce`, `JoinComplete`, `SuccessIsServed`, `LineageComplete`, `GoldAgrees` |
| `pipeline_late` | the same without failures | finding: `CuratedUpToWatermark` fails |

`CuratedOnce` is the promise to whoever reads the tables: a valid row that has
landed is curated by one run and stays that run's; a row is passed by only when
it is curated or invalid; a training record is made of both halves of its
entity, once; a run is called a success only when its features are served and
no pair of two successful runs lacks its record.  Attempts, retries, staging,
watermarks and the two-step reads are gone in it.  `BatchPipeline` implements
it (`ImplementsCuratedOnce`) with `landed` the visible rows, `passed` those not
late below the watermark, `succeeded` the runs recorded as a success; `Revoke`
is there because the last task may fail after it has recorded the success, and
`_on_failure` then records the opposite.  It subsumes `FirstRunKeepsRow`, which
is proved and no longer spends a run's time.

`GoldAgrees` has two halves: a gold object never holds a pair without its
training record, and while no attempt has failed, a run that succeeded has all
of its records in gold.  The second half needs its premise: a kill between the
commit of the training records and the write of the object makes the retry see
nothing new, and the run then succeeds without gold
(`higgs_pipeline.py:267-273`); no document excludes it.

Two runs are enough for every pairwise interleaving of reads, commits and
watermark advances; one killed attempt hits every step of either; the
validation gate fails the run that meets the bad row alone, through its retry,
and lets it through beside a good row.  Deadlock is not checked in any run: the
inputs are finite, and the system stops when everything is processed.

## 5. The source simulator

`SourceSimulator` is one process with four threads; an entity is the index of
its row, and a message is the feature or the label of an entity.

| thread or component | code | actions |
|---|---|---|
| publish loop | `simulator.py` `_run`, `_loop` | `DatasetReady`, `DatasetFails`, `ReadRow`, `LoopStops`, `Rest` |
| | `_publish_feature`, `_send`, the except branch | `PublishFeature`, `DuplicateFeature`, `PublishFeatureFails` |
| | `_schedule_label` | `ScheduleLabel` |
| dispatcher of delayed labels | `delay_queue.py` `_run`, the callback `dispatch` | `Dispatch`, `PublishLabel`, `DuplicateLabel`, `PublishLabelFails`, `DispatcherEnds` |
| librdkafka's poll thread | `record_delivery`, the fatal state | `Delivered`, `DeliveryFails`, `ProducerBreaks` |
| HTTP, shutdown | `pause`, `resume`, `stop`, lifespan exit | `Pause`, `Resume`, `StopBegins`, `CloseDispatcher`, `CloseProducer`, `FlushReturns`, `Exit` |
| kubelet, operator | probes, SIGTERM, `HIGGS_START_INDEX` | `RestartUnhealthy`, `Terminate`, `Start` |
| faults (external) | | `Crash`, `Hang`, `Unhang`, `HangDispatcher`, `UnhangDispatcher` and the fault branches |

`topic` alone survives the process.  Each send is an action of its own, since
the dispatcher, the callbacks and the probes run between two sends of a row.
`rough` is history: a join of `stop()` gave up on a thread, the flush gave up,
or the process was killed.

Time is two ages, since the last progress and since the last error, that stop
growing one tick above the limit they are compared with, so the state space
stays finite without a bound on the run.  `Tick` is possible while the loop
thread is blocked (hung, paused, downloading, resting, ended): a thread that
can run takes no time a timeout would notice.  `DownloadTicks` and `RestTicks`
limit the two waits of a healthy loop.  `StallMeansWedged` has the premise
`Timely`, that neither exceeds the stall timeout: the settings do not enforce
it, and without it the first download or a very low rate would fail the
liveness probe of a sound process.

| run | instance | shows |
|---|---|---|
| `simulator_publish` | 2 rows, queue of 2, timeouts of 1 tick, one fault of any kind | `RowsAccounted`, `LabelsFollowFeatures`, `StallMeansWedged`, `OrderlyStopDelivers`, `BrokenIsReplaced`, `LabelsArrive`, `ReadinessReturns` |

Two rows with duplicates overfill a queue of two (a label of the first row
beside the second row's feature and its duplicate), so the `BufferError` path
and the blocked joins of `stop()` occur; a timeout of one tick has a before and
an after; a second fault adds nothing but a repetition, since the restart after
the first one begins from the initial local state.

Fairness: the two threads, broker answers, the kubelet's restart of what is not
live, the steps of the shutdown, the start of the replacement, and time.
`ReadRow` is strongly fair: `Event.wait` returns once the event was set, even
when a `pause` clears it again before the thread runs.  No fault is fair, a
hung call need not return (a thread in one has no step that fairness could
ask of it), and nobody has to resume a pause.

What the probes do not see, and the properties except:

- `liveness` ignores the progress clock of a paused process, and `resume()`
  restarts the clock whether the process is paused or not: `POST /resume` again
  and again hides a stall.  For a loop that hangs, `BrokenIsReplaced` excepts
  both; for a dead loop or a fatal producer it has no exception.
- No probe looks at the dispatcher thread.  Its callback makes the same producer
  call in which the loop may hang (`simulator.py:319-334`, `_send`): when it
  hangs for ever the process stays live and ready and its labels never come.
  `LabelsArrive` excepts exactly that, a hang that lasts for ever
  (`[]dispatcher_hung`), and no other state of the dispatcher.

`RUNBOOKS.md:251` counts timed-out events in `events_dropped`; the code counts
a failed delivery report in `delivery_failures` only (`record_delivery`), so
`RowsAccounted` takes a message that the producer took as accounted for, and
what became of it is `OrderlyStopDelivers`.

## 6. The model registry

`ModelRegistry` has training attempts and promotions, each a sequential
program; every remote call that another process can get between is a step.
MLflow and Postgres are external.

| code | action |
|---|---|
| `load_training_dataset`, `validate_training_dataset` (`steps.py`) | `LoadDataset`, `ValidateDataset` (pipeline runs only) |
| `split_dataset`, `train_model`, `evaluate_model` | `TrainAndEvaluate` |
| `mlflow.start_run`, `log_metrics` (`train.py`, `register_model` in `steps.py`) | `StartRun`, `LogMetrics` |
| `log_model(registered_model_name=...)` | `RegisterModel` |
| `_model_version_for_run`, `set_registered_model_alias` | `VersionForRun` in `AliasCandidate` |
| the loop of `set_model_version_tag` | `TagVersion` |
| `promote`: arguments and the candidate alias | `ChooseVersion` |
| the `try` that reads the champion and its metrics | `ReadChampion` |
| `evaluate_promotion`, the early return | `Approved`, `Reject` |
| alias, tags, audit row | `FlipAlias`, `TagPromotion`, `RecordPromotion` |
| an exception of a call, a kill (external) | `TrainingFails`, `PromotionFails` |

A version names the run it came from and a run its scores, so "the metrics of a
version" is a look-up, as in `_metrics_for_version`.  Metrics never change once
they are logged, which is why reading the candidate's early and the champion's
late makes one step.  The MLflow client repeats a request whose answer was
lost: `RegisterModel` may leave two versions of one run, of which
`_model_version_for_run` takes the newer.  Three variables are history: `flips`
(what happened to the champion alias), `overlap` (two promotions were under way
together) and `faults`.  The docstring of `promote.py` limits its ordering
promise to a single operator; the properties that need one say `Quiet`.

What the code does not promise and the properties therefore except:

- the alias is flipped before the audit row is written, so an interruption in
  between leaves a change of the champion without a row, although the docstring of
  `ModelPromotion` (`models.py:189-192`) says the table holds the history, "so a
  champion change is explicit and reviewable after the fact, never a silent alias
  flip".
  `FlipsAccounted` excepts interrupted promotions, and only those;
- with two promotions at a time `previous_champion_version` need not be the one
  that was replaced, and the regression check compares with the champion that
  was read: `GateHolds` and `LedgerIsHistory` say so;
- a champion that is restored keeps the `superseded_by` tag of its first
  replacement: `FormerChampionsMarked` does not claim the converse;
- a candidate can be promoted between its alias and its tags.

| run | instance | shows |
|---|---|---|
| `registry_promotion` | a training script and a pipeline run, two promotions, three scores, one fault of any kind | `CandidatesQualify`, `ProvenanceTrue`, `GateHolds`, `FlipsAccounted`, `LedgerIsHistory`, `FormerChampionsMarked` |
| `registry_regression` | the same, where a read of the registry may fail | finding: `RegressionRefused` fails |

Two trainings interleave in every way at one model; the three scores are one
below the floors, one at the floors and one that makes the second a regression.
Two promotions give every interleaving of a pair, and a first and a second
champion for the single operator; a repeated registration gives three versions.

## 7. The inference service

`InferenceService` is one process; the way the champion alias moves is the
external `Promote`.

| thread | code | actions |
|---|---|---|
| start-up, refresh loop, `POST /model/refresh` | `ModelCache.refresh`, `mlflow_loader` (`model.py`) | `BeginRefresh`, `ResolveAlias`, `FinishRefresh`, `RefreshFails`, `RefreshHangs` |
| request threads | `predict_raw`, `predict_entity` (`api.py`) | `Arrive` |
| | `predict_entity`, `_predict` (`service.py`), `save` (`store.py`), `publish` (`publisher.py`) | `FetchFeatures`, `Predict`, `Save`, `Publish` |
| librdkafka's poll thread | `_on_delivery` | `Delivered`, `DeliveryFails` |
| server | lifespan, `close`, `main` | `Terminate`, `Exit`, `Start` |
| faults (external) | | `Crash` and the fault branches |

The metadata and the estimator in the cache are two variables, since the loader
takes them from two calls; `rows` and `events` survive the process.  A
transaction that raises may have committed.  `freshAt` and `floor` are history:
the latest alias position that a refresh of this process has found, and what it
was when a request arrived.  `AnswersFresh` is what `_lock` is for: without it
a slow load finishes after a later one and brings the earlier champion back.

| run | instance | shows |
|---|---|---|
| `inference_serving` | a raw and a by-entity request, two versions, two promotions, one fault of any kind | `AnswersAgree`, `PersistedMeansStored`, `MetadataTrue`, `AnswersFresh`, `OrderlyExitPublishes`, `ChampionGetsServed`, `RequestsEnd` |

Two promotions are a change while a refresh is between its two calls; a third
does not fit the time of a run with liveness (the safety properties were also
checked with three, and the proofs need no bound).  Three refreshers with one
lock include every pair of them.

Fairness: the refresh steps (a call to MLflow returns or raises), start-up and
the loop (a daemon thread with a timed wait), the request threads, delivery
reports, the exit of a server that has drained, and its restart.  A hung call
need not return (`ChampionGetsServed` excepts a refresh that hangs with the
lock, `RequestsEnd` does not), no fault is fair, nobody has to refresh by hand.
`SIGTERM` counts as a fault, to bound restarts.

Two things a reader of the code should know.  A refresh that finds the version
it already serves keeps the old metadata, so tags set after the first load
(`git_sha`, `test_accuracy` of a candidate promoted before its tags) do not
reach `/model` until the next version.  And the event is published also when
its row could not be stored, although `PredictionEvent` is documented as
published after it was persisted; a unit test asserts that it is published all
the same, so no property calls it wrong.

## 8. The feature plane

`CuratedTables` has the rows of `curated.higgs_features` and
`curated.higgs_labels`, named by their entities, with timestamps that are the
rows' own: a run may curate a row long after its timestamp, which is what makes
the resume point and `as_of` delicate.

`FeatureStore` is materialization.  A run posts the windows of the rows it has
curated to the feature server and retries the whole task when a post fails or
times out; a backfill (`make feast-materialize`, `make feast-demo`) cuts what
lies between the registry's last interval and its end into windows.  A request
is served in three steps that other jobs get between, and goes on when its run
has stopped waiting.

| code | definition or action |
|---|---|
| `_source_bounds`, `_chunk_boundaries`, `windows`, `resume_point` (`materialize.py`) | `Earliest`, `Latest`, `Boundaries`, `Windows`, `ResumePoint` |
| `plan`, `materialize_chunked` | `PlanBackfill`, `Undertake`, `IsNext`, `Send` |
| `materialize_windows_for_run`, `materialize_windows` (`higgs_pipeline_tasks.py`) | `PlanRun`, `RunWindows` with the pad of the last window |
| `update_feature_store`, `_post_json` | `Send`; a time-out or a kill: `TimesOut`; retries: `Abort` |
| Feast and Redis (external) | `ReadRows`, `WriteRows`, `RecordInterval`, `RequestFails`, `Lose` |
| `load_entity_df`, `load_training_frame` (`dataset.py`) | `LoadEntities`, `LoadFeatures` of `TrainingData` |
| the parameters of the MLflow run (`train.py`, `steps.py`) | `LogRun` |

`online` and `intervals` outlive every job.  `seen`, `owed`, `asked`, `lost`,
`late` and `skipped` are history: what a plan was computed from, what a job
owes, and the rows the properties except.

`ServedFeatures` is the promise: only curated rows are online, only the store
itself loses them, and a job that reports success has left every row it set out
to serve.  `FeatureStore` implements it (`ImplementsServedFeatures`); the
mapping takes `owed` and derives `finished` from `pc`.  It is what the padded
end of a run's last window, the order of the windows and the retry from the
start of the task are for.  `PrefixServed` is what resuming relies on: below
the end of any recorded interval the table is online.  Its exceptions are what
a backfill indeed does not come back to: rows Redis lost, rows curated behind a
plan or an interval, and rows that a run's interval passed over (a run records
its own window although older rows of a failed run may not be online).
`PinNamesFrame` is what a logged `as_of` can promise: asked of the tables as the
run's queries found them, it gives the run's frame.

`PlansAreChunked` is about the row numbers at which `_chunk_boundaries` cuts: no
window of a plan has a chunk of the plan's rows strictly between its ends.
That is what the code bounds.  Neither the code nor the property bounds the rows
at a window's ends, all of which the window reads when many share a timestamp,
nor rows of other runs that lie inside a run's window, which Feast reads with
it.

A logged `as_of` cannot promise more: `config.py:25-28` and `DECISIONS.md:330-334` read as if
the same `as_of` gave the same frame later, but a row with an older label
timestamp may be curated after the run.  And `DECISIONS.md:382-385` expects a
changed feature value to change the fingerprint; `provenance.py` hashes
`(entity_id, event_timestamp, target)` and no feature.

| run | instance | shows |
|---|---|---|
| `feature_store` | four rows (two there, one to come between them, one after them), a run, a backfill and a training run, chunks of one row, one retry, one fault of any kind, two instants | `PrefixServed`, `PlansAreChunked`, `PinNamesFrame`, `ImplementsServedFeatures` |
| `feature_rebuild` | two backfills, one loss | finding: `BackfillRebuilds` fails |

The four rows put one new row behind the resume point and one ahead; two jobs
give every interleaving of a plan, a request and an interval of another; the
one fault and the one retry give two requests of one run at a time; the limit
of two training rows cuts the labels.  About 1.9 million distinct states.  The
reads of `plan` are one step (they are a few milliseconds of one script; a row
curated between them counts as late), a table whose rows share one timestamp
yields no backfill window, as in the code (`windows` needs `start < end`), and
the ten-year TTL of the feature view never cuts.  Deadlock is not checked: the
jobs are finite.

## 9. The resource modes

`ModeSwitch` has the scripts as sequences of steps and one state of the host:
the kind node with its cap, the namespaces of KFP and KEDA, the Compose
services that run (in the groups the scripts treat alike).  One script runs at
a time; `Interrupt` ends it at any step, with a part of a `docker compose` step
done.

`set -e` sees a command fail only where the shell looks at its status.  The
scripts also ask questions where it does not, and go on with an empty answer:

| where | what fails | what the script does | in the model |
|---|---|---|---|
| `<(running)`, `mode.sh:123`, `129` | `docker compose ps` | `trim_compose` stops nothing and its verification passes | `{}` of `Extra` in `Trim` |
| `<(allowed ...)`, `mode.sh:123`, `129` | `docker compose config` | every service counts as not allowed and is stopped | `compose` of `Extra` |
| `<(running)`, `mode.sh:85` | `docker compose ps` | `check` and `status` find no service that is not allowed | `Checked` |
| `node_running`, `mode.sh:88`, `151` | `docker inspect` | `check compose` passes, `mode.sh compose` leaves the node running | `Checked`, `StopNode` |
| `cluster_exists`, `node_running`, `node_cap`, `mode.sh:168-183` | `kind`, `docker inspect` | `to_k8s` takes another way | `Answers` in `to_k8s` |
| `$(allowed k8s)`, `mode.sh:197` | `docker compose config` | `docker compose up -d` without a name starts all services | `Starts` in `Up` |
| `\|\| true`, `k8s_up.sh:20`, `k8s_down.sh:6` | `docker compose stop`, `kind delete` | the moved services stay, the cluster stays | `StopMoved`, `DeleteCluster` |

A question that goes unanswered where the script then refuses (`check k8s` at
the start of `to_scale`, an unreachable API in `kfp_installed`) is an
`Interrupt`.  `swallowed` is history: it becomes `now` when a script goes past
such a failure and the outcome differs from what it would have been (services
stay that should have stopped, or start that should not, the node keeps running,
a check passes that should not), `before` once another script starts, and `no`
again when the node has stopped or was deleted, or when Compose was indeed
trimmed to the kfp set: from then on nothing that went wrong before matters.

So what the header of `mode.sh` promises (`mode.sh:2-3`, `14-16`: the full stack
and the cluster never run together; a node that may hold KFP only starts with
Compose trimmed) holds under that proviso only: when `docker compose ps` fails,
`mode.sh kfp` starts the node next to the full stack, and `mode.sh scale` may
exit with 0 while Airflow runs.  The cap half of `KfpHasRoom` has no proviso;
`ExitTellsMode` and `ComposeReached` except only what the script itself went
past (`now`), not what earlier ones did.

| code | definition or action |
|---|---|
| `allowed`, `cap_for`, `check`, `status` (`mode.sh`) | `allowed`, `cap_for`, `check` and `NodeFits` (the truth), `Checked` (what `check` answers), `Status` |
| `to_compose`, `to_kfp`, `to_scale`, `to_k8s` | the operators of the same names, `LeaveKfp` for what `to_k8s` decides half-way |
| `start_node_in_kfp_envelope`, `set_cap`, `trim_compose` | `start_node_in_kfp_envelope`, `SetCap`, `Trim` |
| `k8s_up.sh`, `k8s_down.sh`, `kfp_up.sh`, `kfp_down.sh`, `autoscaling_*.sh` | `script`, `CreateCluster`, `StopMoved`, `DeleteCluster`, `Install`, `Delete`, `AwaitGone`, `UpdateCap` |
| the namespace controller (external) | `NamespaceGone` |

Facts about the scripts that the model follows and the properties except:

- after a `kind delete` that failed, `k8s_down.sh` starts the moved services in
  Compose, next to a node that may still run;
- `to_k8s` refuses KEDA only on a running node: scale mode with KEDA, then
  compose, then k8s starts the node with KEDA in it; its `status` then exits
  with 1, so `ExitTellsMode` holds;
- `kfp_down.sh` lowers the cap without the check of the workload that `set_cap`
  makes; it relies on the namespace being gone, which is `KfpHasRoom`;
- `to_k8s` without a cluster hands over to `k8s_up.sh`, and no `status` follows.

Whether the running workload fits below a lower cap is a free choice (`SetCap`
may refuse); caps are counted in half gibibytes; what runs inside the cluster
apart from the two namespaces is left out.

| run | instance | shows |
|---|---|---|
| `mode_switch` | the system itself: it has no parameters | `KfpHasRoom`, `NeverTogether`, `ExitTellsMode`, `ComposeReached` |

The state space is finite (28,072 states) and the run covers all of it, with
deadlock checked; the proof of section 10 adds the reason why, script by script.
Fairness: a
step of a script that runs is taken (`WF_vars(Step)`); a deletion that
Kubernetes was asked for need not ever end, and `ComposeReached` holds without
it.

## 10. What is proved

### Stream ingestor (`StreamIngestorProofs`)

For every number of partitions, messages, replicas and faults, from
`LogAssumption` and `IngestorAssumption` only:

- `InvariantHolds`: `IngestorInvariant`, and from it `TypeCorrect`,
  `NothingLost`, `LandedOnce`, `QuarantineSurvivesShutdown` (the invariant, the
  types and `LandOnce` are proved and no longer spend a run's time);
- `ReadyReplicasConsume`: `ReadyMeansConsuming`;
- `Implements`: the specification implements `ReliableLanding`.

`NoLoss` is not inductive: a commit is only safe because of what the loop did
before.  The strengthening says so step by step.  `PositionsCovered`: all
offsets below a replica's fetch position are accounted for or are in its own
batch; `BatchCovered`: the same for everything before a message of the batch.
Both survive a rebalance in the middle of a batch, since `OnAssign` restarts at
a committed offset, below which `NoLoss` holds.  `ValidatedPrefix` and
`WrittenBeforeCommit` say that by the commit each message of the batch itself
is accounted for; `MaxOffsetsSeen` ties the committed offset to a message of
the batch.  Then everything below the committed offset is covered by the batch
or accounted for, and the batch is accounted for.  The proof groups the
per-replica parts (`ReplicasInvariant`), and shows that a step of one replica
keeps the others' parts because rows and hand-overs only grow
(`AccountedStays`, `CoveredStays`).

### Batch pipeline (`BatchPipelineProofs`)

From `PipelineAssumption`, for any number of runs, rows, retries and failures:
`WatermarkSkipsNothing`, `PairsAreJoined`, `SuccessfulRunsAreServed`,
`LineageHolds`, `GoldHolds`, `PipelineTypes`, the action properties
`WatermarksOnlyAdvance` and `RowsKeepTheirRun`, and the refinement
`RunsCurateOnce`.

The interesting step is `Curate`, which moves both watermarks to the run's
upper bound although other runs have moved them since the run read its bounds.
`BoundsBehind` says that the run's lower bounds are still behind the watermarks
and `ReadComplete` that everything visible between its bounds is in its staging
(or was rejected), so every row between the old and the new watermark is
curated by this transaction; rows below the old one are `NothingSkipped` of the
state before.  `ReadComplete` survives other runs because their curating does
not touch the landing tables, and survives late commits because those rows are
`late`.  `JoinComplete` is inductive with the types alone: the run that
curates the second half of a pair stays in `build`/`upsert` (or fails) until
the record is there.  `LineageComplete` needs `CuratesOnce` (a run rewrites its
objects only while it owns no row) and `StagedInLake`; `SuccessIsServed` needs
that the windows over a run's own timestamps contain its features
(`WindowCovers`, which the padding of the last window makes true).  `GoldAgrees`
needs `RecordsOnTheirWay`: while nothing failed, a run whose records are there is
on its way to the gold write or has done it.

`RunsCurateOnce` maps each step: a landing commit to `Land`, the curating
transaction to `Curate`, the upsert to `Join`, a post to `Serve`, the last task
to `Succeed` or `Revoke`, all else, retries included, to a stutter.  It adds
`StagedLanded`, `StagedValid` and `JoinsWhole` to the invariant (what a run
stages is there, what reaches `silver` is valid, what it joins is curated).
`Curate` passes only processed rows by `NothingSkipped` of the state after;
`Succeed` needs `JoinComplete`, in whose exception a failed run is one that is
not recorded as a success.

### Source simulator (`SourceSimulatorProofs`)

From `SimulatorAssumption`, for any number of rows, queue size, timeouts and
faults: `SimulatorTypes`, `NoRowVanishes`, `LabelsAreEarned`, `WatchdogIsFair`,
`ShutdownDelivers`.  `RowsAccounted` is inductive once `RowAtHand` says that a
row being published is one of this process' rows.  `LabelsTrail` adds to
`LabelsFollowFeatures` that the row whose label is about to be scheduled has
its feature taken.  `Undisturbed` carries `OrderlyStopDelivers` through the
shutdown: until something rough happens every message the producer took is in
Kafka or in its queue, the loop and the dispatcher have ended by the time the
later stages begin, and the flush has emptied the queue when the process is
closed.  `ClockInTime` bounds the progress clock by the wait the loop is in,
which is where the premise `Timely` enters.

### Model registry (`ModelRegistryProofs`)

From `RegistryAssumption`, for any number of trainings, promotions, scores and
faults: every safety property of `registry_promotion`.  `StagesReached` says
what a training has done by a stage and `VersionsJudged` carries it over to the
versions: `AliasesMeasured` and `PipelineGateHolds` follow, which make `CandidatesQualify`.  `HasNewest` is
there because `VersionForRun` chooses a maximum, which exists since versions are
only appended.  `GateHolds` is kept because what a registered version is worth
no longer changes (`VerdictKept`).  `FlipsOwned` says that a promotion flips
the alias once and that its tags and row are about that flip, from which
`FlipsAccounted` is inductive.  For the single operator, `LedgerFollows` states
how far alias and table may differ while a promotion is under way, and
`MarksFollow` the same for the tags.

### Inference service (`InferenceServiceProofs`)

From `ServiceAssumption`, for any number of requests, versions, promotions and
faults: every safety property of `inference_serving`.  `AnswersFresh` takes the
lock: `LockHeld` makes at most one refresh read and load at a time, so what it
has read is not older than what is served (`ReadsAhead`), what is served is
what the latest refresh found (`ServesLatest`), and no request outlives its
process (`FloorsBelow`).  `AnswersAgree` and `PersistedMeansStored` need that a
request reads its version once (`AnswersRead`).

### Feature store (`FeatureStoreProofs`)

From `TablesAssumption` and `StoreAssumption`, for any number of runs,
backfills, rows, chunks, retries and faults: `TypeInvariant`, `PrefixIsServed`,
`WindowsHoldAChunk` and `RefinesServedFeatures`.  `WindowsCover` is the fact about the plan: every
time between its start and its end lies in one of its windows, wherever the
boundaries fall.  `Promise` says that what a job owes is online or in a window
still to come, `Awaited` that the request it waits for delivers the window's
part of it, also while requests of earlier attempts go on; the refinement
follows.  For `PrefixServed`, `Resumed` says that the windows of a backfill
leave no gap above what is recorded, and `RequestsCover` that a request that
has read its window holds all of it but the rows that came late.

`WindowsHoldAChunk` is about the row numbers the boundaries are taken at.  With
`c` rows up to the start of a window, the next multiple of the chunk size is at
most `c` plus a chunk (`NextMultiple`); if a chunk of rows lay strictly inside
the window, one of them would have a timestamp at which that number is reached,
and that timestamp is a boundary, between whose neighbours no window reaches
(`WindowsAreChunked`).

### Training data beside the feature store (`FeaturePlaneProofs`)

From the same assumptions and `TrainingAssumption`.  `PlaneRunsTheStore`: each
behaviour of the composition is one of `FeatureStore`, because training runs
only read; `PlaneServes` carries its theorems over, the refinement included.
`LoggedPinNamesFrame` is `PinNamesFrame` for any limit.  A pin `Names` what a
run found when it is the configured `as_of` or, without one, not before any
label found; the rows `load_entities` keeps are then the recent ones of each
such pin (`EntitiesNamed`), although the time of logging is only known later.
`LabelsPast` makes that time such a pin.  `NewestIsChosen` is where the order by
label timestamp has to be strict: with ties the query may keep any of the tied
rows, which is the premise `NoTies`.

### Resource modes (`ModeSwitchProofs`)

`ModeSwitch` has no parameters and TLC visits all of its states; the proof
gives the reason, in the form in which a change of the scripts can be judged.
`Inv` is `Safe` (types, `NoCluster`, `KfpHasRoom`, `NeverTogether`) with
`Progress`: either no script is at work and `ExitTellsMode` holds, or the script
at work is at one of its places, about which is known what its earlier steps
established and no namespace that goes away can undo.  The ways to k8s mode
share their last steps (`finishing`), so there is one statement about them.

The facts about Compose, and those a missing answer can spoil, carry the proviso
`Blind`: the script at work went past a failure itself (`swallowed = "now"`).  On
the way it only goes from false to true, save at a trim to the kfp set, a stop
or a deletion of the node that succeed, which make true the facts it excused.  The facts about the cap, and about the
node where a mode needs it running, carry none: `check` compares the cap it got
an answer for, so that `KfpHasRoom` keeps its first half whatever goes
unanswered.

- `Prepared`: at every place, what is known implies what the step at the head
  `Needs` in order to be safe: Compose services start next to a node with KFP
  only if they are of its set, the cap of such a node is only set to that of
  KFP, KFP is installed only in its envelope.  `SafetyKept` follows for each
  kind of step, and for a step that is interrupted half-way.
- `ProgressKept`: each step leads from a place to the next one of its script,
  with the facts of that place, or ends it.  A script ends well only behind a
  `status` that finds some mode; that it is the mode asked for follows from the
  cap and the node that the place knows (`CapTellsMode`).

From it `KfpAlwaysHasRoom`, `ServicesRunOnce` and `ExitIsTrue`.

## 11. Findings

Runs with `expect: violation` each check one sentence of the repository that
the code does not keep:

1. `ingestor_dlq_loss`: `dlq.py` says routing to the dead-letter topic is how a
   malformed message is handled before its offset is committed; the offset is
   committed while the message is still in the producer's memory.
2. `pipeline_late`: `ingested_at` is the start of the inserting transaction; a
   row that commits after a run has read past it is never extracted.
3. `registry_regression`: `promote.py` takes any `MlflowException` while it
   reads the champion for the absence of one, also that of a registry that did
   not answer; the regression check is skipped and a worse model is promoted,
   which the criteria of `config.py:51` rule out.
4. `feature_rebuild`: the runbook rebuilds the online store with
   `make feast-materialize` after a FLUSHALL; the backfill resumes at the end
   of the last recorded interval and never looks at what is in Redis, so it
   materializes nothing and reports success.

## 12. Only model-checked, and not modelled

Every safety invariant, action property and refinement that a passing run checks
is proved as well.  Only model-checked:

- Liveness under fairness (`EventuallyAccounted`, `BrokenIsReplaced`,
  `LabelsArrive`, `ReadinessReturns`, `ChampionGetsServed`, `RequestsEnd`,
  `ComposeReached`) stays with TLC, as do the violations: the prover has
  neither fairness nor ENABLED.

Abstractions:

- Which of several rows with one `event_id` in a batch Postgres keeps is a free
  choice in the model.
- `/ready` may report the state of a moment ago; `ReadyMeansConsuming` is about
  the value computed from the current flags.  Probe periods and failure
  thresholds are abstracted to "eventually stopped".
- A replacement pod joins only after its predecessor's session expired; joining
  earlier would only add another rebalance.
- `BatchPipeline` takes a post of `update_feature_store` as served or failed as
  a whole; `FeatureStore` has what is in between.  Features curated by a run
  that then failed in `update_feature_store` may stay out of the online store
  (`skipped`); the code promises nothing about them and `SuccessIsServed` is
  about successful runs.

Not modelled:

- Airflow's zombie tasks, except for the request one leaves with the feature
  server (`TimesOut`), manual clears and backfills of the DAG.
- Metrics, tracing and log output.
- The split of a data set (`split.py`), which is a function of the frame, and
  the numerics of fitting.
- The readiness probe of the inference service, which combines the answers of
  others, the validation of requests and the contents of a prediction.
- `demo_retrieval.py` beyond its backfill (another job of `FeatureStore`): its
  checks only read.
- What runs inside the cluster of the mode scripts: manifests, images, replica
  counts.
- Infrastructure configuration and smoke scripts: configuration, and clients
  that only observe.  The restarts and probes they ask for are the fairness of
  the runs.
