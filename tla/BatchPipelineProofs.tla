------------------------ MODULE BatchPipelineProofs ------------------------
(***************************************************************************)
(* Proofs about BatchPipeline, for any number of runs, rows and failures.  *)
(***************************************************************************)
EXTENDS BatchPipeline, TLAPS

(* A run stages rows that are there, has dropped the invalid ones by the time it curates, and *)
(* joins what is curated.                                                                     *)
Whole == {e \in Entities : curated[<<"features", e>>] # NoRun /\ curated[<<"labels", e>>] # NoRun}

StagedLanded == \A r \in Runs : staged[r] \subseteq Landed
StagedValid == \A r \in Runs : task[r] \in {"silver", "curate"} => staged[r] \cap Invalid = {}
JoinsWhole == \A r \in Runs : pairs[r] \subseteq Whole

(* The inductive invariant. *)
Inductive == /\ TypeOK /\ NothingSkipped /\ JoinComplete /\ SuccessIsServed /\ LineageComplete
             /\ PipelineInvariant /\ StagedLanded /\ StagedValid /\ JoinsWhole

(* A row is its stream and its entity. *)
LEMMA RowParts ==
    /\ \A row \in Rows : row[1] \in Streams /\ row[2] \in Entities
    /\ \A e \in Entities : <<"features", e>> \in Rows /\ <<"labels", e>> \in Rows
BY DEF Rows, Streams

(* Where a failed attempt leaves a run, whatever pipeline_runs says of it. *)
LEMMA FailedAttempt ==
    ASSUME TypeOK, NEW r \in Runs, Active(r), NEW STATE runs,
           runs \in [Runs -> {"none", "failed", "success"}], AttemptFails(r, runs)
    PROVE  /\ task' = [task EXCEPT ![r] = task'[r]]
           /\ task'[r] \in {Restart(task[r]), "failed"}
           /\ attempts' \in [Runs -> 0 .. Retries]
           /\ recorded' \in {runs, [runs EXCEPT ![r] = "failed"]}
           /\ task'[r] # "failed" => recorded' = runs
<1>0. Retries \in Nat BY PipelineAssumption
<1>1. /\ task \in [Runs -> Tasks \cup {"idle", "failed", "done"}]
      /\ attempts \in [Runs -> 0 .. Retries] /\ task[r] \in Tasks
  BY DEF TypeOK, Active
<1>2. CASE /\ attempts[r] < Retries
           /\ attempts' = [attempts EXCEPT ![r] = @ + 1]
           /\ task' = [task EXCEPT ![r] = Restart(task[r])]
           /\ recorded' = runs
  BY <1>0, <1>1, <1>2
<1>3. CASE /\ attempts[r] >= Retries
           /\ task' = [task EXCEPT ![r] = "failed"]
           /\ recorded' \in {runs, [runs EXCEPT ![r] = "failed"]}
           /\ UNCHANGED attempts
  BY <1>1, <1>3
<1> QED BY <1>2, <1>3 DEF AttemptFails

(* What the next attempt of a step starts with is a step. *)
LEMMA RestartIsTask == ASSUME NEW t \in Tasks PROVE Restart(t) \in Tasks
BY DEF Restart, Tasks

-----------------------------------------------------------------------------
(* A step of a run moves that run's own components and nothing of the others; what is shared  *)
(* only grows.                                                                                *)
Moved(f, r) == f' = [f EXCEPT ![r] = f'[r]]

(* The steps that may follow a step that succeeds. *)
Successors(t) == CASE t = "determine" -> {"determine_labels"}
                   [] t = "determine_labels" -> {"extract"}
                   [] t = "extract" -> {"extract_labels"}
                   [] t = "extract_labels" -> {"bronze"}
                   [] t = "bronze" -> {"validate"}
                   [] t = "validate" -> {"silver"}
                   [] t = "silver" -> {"curate"}
                   [] t = "curate" -> {"build"}
                   [] t = "build" -> {"upsert"}
                   [] t = "upsert" -> {"gold", "store"}
                   [] t = "gold" -> {"store"}
                   [] t = "store" -> {"emit"}
                   [] OTHER -> {"done"}

Curates(r) == /\ task[r] = "curate"
              /\ curated' = CuratedBy(r)
              /\ watermark' = [s \in Streams |-> Greatest(watermark[s], bounds[r].upper_bound)]

OwnStep(r) ==
    /\ Active(r) /\ UNCHANGED <<clock, landingVars>>
    /\ Moved(task, r) /\ task'[r] \in Tasks \cup {"failed", "done"}
    /\ task'[r] \in Successors(task[r]) \cup {Restart(task[r]), "failed"}
    /\ task[r] \notin {"determine", "determine_labels"} => UNCHANGED bounds
    /\ task[r] \notin {"extract", "extract_labels", "validate", "emit"} => UNCHANGED staged
    /\ task[r] # "bronze" => UNCHANGED bronze
    /\ task[r] # "silver" => UNCHANGED silver
    /\ task[r] # "build" => UNCHANGED pairs
    /\ task[r] # "upsert" => UNCHANGED training
    /\ task[r] # "store" => UNCHANGED online
    /\ task[r] # "emit" => recorded'[r] \in {recorded[r], "failed"}
    /\ attempts' \in [Runs -> 0 .. Retries]
    /\ Moved(bounds, r) /\ bounds'[r] \in [watermark : [Streams -> Nat], upper_bound : Nat]
    /\ Moved(staged, r) /\ staged'[r] \in SUBSET Rows
    /\ Moved(pairs, r) /\ pairs'[r] \in SUBSET Entities
    /\ Moved(bronze, r) /\ bronze'[r] \in SUBSET Rows
    /\ Moved(silver, r) /\ silver'[r] \in SUBSET Rows
    /\ Moved(gold, r) /\ gold'[r] \in SUBSET Entities
    /\ Moved(recorded, r) /\ recorded'[r] \in {"none", "failed", "success"}
    /\ online \subseteq online' /\ online' \subseteq Entities
    /\ failures' \in Nat
    /\ Curates(r) \/ UNCHANGED <<curated, watermark>>
    /\ training' \in [Entities -> Runs \cup {NoRun}]
    /\ \A e \in Entities : training[e] # NoRun => training'[e] = training[e]

(* The end of an attempt: where the run goes on and what pipeline_runs says of it. *)
GoesTo(r, targets) == /\ Moved(task, r) /\ task'[r] \in targets
                      /\ task'[r] \in Tasks \cup {"failed", "done"}
                      /\ attempts' \in [Runs -> 0 .. Retries]
                      /\ Moved(recorded, r) /\ recorded'[r] \in {recorded[r], "failed"}
                      /\ recorded'[r] \in {"none", "failed", "success"}

(* A task that succeeds. *)
LEMMA ProceedGoesTo ==
    ASSUME TypeOK, NEW r \in Runs, NEW next \in Tasks \cup {"done"}, Proceed(r, next),
           UNCHANGED recorded
    PROVE  GoesTo(r, {next})
<1>1. /\ task \in [Runs -> Tasks \cup {"idle", "failed", "done"}]
      /\ attempts \in [Runs -> 0 .. Retries]
      /\ recorded \in [Runs -> {"none", "failed", "success"}]
  BY DEF TypeOK
<1> QED BY <1>1, PipelineAssumption DEF Proceed, GoesTo, Moved

(* A failed attempt: the step that starts the task again, or the end of the run. *)
LEMMA FailureGoesTo ==
    ASSUME TypeOK, NEW r \in Runs, Active(r), AttemptFails(r, recorded)
    PROVE  GoesTo(r, {Restart(task[r]), "failed"})
<1>1. /\ task \in [Runs -> Tasks \cup {"idle", "failed", "done"}] /\ task[r] \in Tasks
      /\ recorded \in [Runs -> {"none", "failed", "success"}]
  BY DEF TypeOK, Active
<1>2. /\ task' = [task EXCEPT ![r] = task'[r]]
      /\ task'[r] \in {Restart(task[r]), "failed"}
      /\ attempts' \in [Runs -> 0 .. Retries]
      /\ recorded' \in {recorded, [recorded EXCEPT ![r] = "failed"]}
  BY <1>1, FailedAttempt
<1>3. Restart(task[r]) \in Tasks BY <1>1, RestartIsTask
<1> QED BY <1>1, <1>2, <1>3 DEF Moved, GoesTo

(* The end of a task that has had its effect, however it ends. *)
LEMMA EndGoesTo ==
    ASSUME TypeOK, NEW r \in Runs, Active(r), NEW next \in Tasks, Ends(r, next)
    PROVE  GoesTo(r, {next, Restart(task[r]), "failed"}) /\ failures' \in Nat
<1>1. failures \in Nat BY DEF TypeOK
<1>2. CASE Proceed(r, next) /\ UNCHANGED <<recorded, failures>>
  BY <1>1, <1>2, ProceedGoesTo DEF GoesTo
<1>3. CASE AttemptFails(r, recorded) /\ Interrupted
  BY <1>1, <1>3, FailureGoesTo DEF GoesTo, Interrupted
<1> QED BY <1>2, <1>3 DEF Ends

(* Every step of a run is one of its own. *)
LEMMA StepMoves == ASSUME TypeOK, NEW r \in Runs, Step(r) PROVE OwnStep(r)
<1>1. /\ task \in [Runs -> Tasks \cup {"idle", "failed", "done"}]
      /\ attempts \in [Runs -> 0 .. Retries]
      /\ bounds \in [Runs -> [watermark : [Streams -> Nat], upper_bound : Nat]]
      /\ staged \in [Runs -> SUBSET Rows] /\ pairs \in [Runs -> SUBSET Entities]
      /\ bronze \in [Runs -> SUBSET Rows] /\ silver \in [Runs -> SUBSET Rows]
      /\ gold \in [Runs -> SUBSET Entities] /\ online \subseteq Entities
      /\ recorded \in [Runs -> {"none", "failed", "success"}] /\ failures \in Nat
      /\ training \in [Entities -> Runs \cup {NoRun}] /\ watermark \in [Streams -> Nat]
  BY DEF TypeOK
<1> USE DEF OwnStep, Moved, Successors, landingVars, lakeVars, runVars, tableVars
<1>2. CASE Fail(r)
  <2>1. GoesTo(r, {Restart(task[r]), "failed"}) BY <1>2, FailureGoesTo DEF Fail
  <2> QED BY <1>1, <1>2, <2>1 DEF Fail, GoesTo, Interrupted
<1>3. CASE Determine(r)
  <2>1. CASE /\ task[r] = "determine" /\ GetWatermark(r, "features")
             /\ task' = [task EXCEPT ![r] = "determine_labels"] /\ UNCHANGED attempts
    BY <1>1, <1>3, <2>1 DEF Determine, GetWatermark, Active, Tasks, Streams
  <2>2. CASE /\ task[r] = "determine_labels" /\ GetWatermark(r, "labels")
             /\ Proceed(r, "extract")
    <3>1. GoesTo(r, {"extract"}) BY <1>3, <2>2, ProceedGoesTo DEF Determine, Tasks
    <3>2. /\ bounds' = [bounds EXCEPT ![r] = bounds'[r]]
          /\ bounds'[r] \in [watermark : [Streams -> Nat], upper_bound : Nat]
      BY <1>1, <2>2 DEF GetWatermark, Streams
    <3> QED BY <1>1, <1>3, <2>2, <3>1, <3>2 DEF Determine, Active, Tasks, GoesTo
  <2> QED BY <1>3, <2>1, <2>2 DEF Determine
<1>4. CASE Extract(r)
  <2>0. NewRecords(r, "features") \in SUBSET Rows /\ NewRecords(r, "labels") \in SUBSET Rows
    BY PipelineAssumption DEF NewRecords
  <2>1. CASE /\ task[r] = "extract" /\ staged' = [staged EXCEPT ![r] = NewRecords(r, "features")]
             /\ task' = [task EXCEPT ![r] = "extract_labels"] /\ UNCHANGED attempts
    BY <1>1, <1>4, <2>0, <2>1 DEF Extract, Active, Tasks
  <2>2. CASE /\ task[r] = "extract_labels"
             /\ staged' = [staged EXCEPT ![r] = @ \cup NewRecords(r, "labels")]
             /\ Proceed(r, "bronze")
    <3>1. GoesTo(r, {"bronze"}) BY <1>4, <2>2, ProceedGoesTo DEF Extract, Tasks
    <3> QED BY <1>1, <1>4, <2>0, <2>2, <3>1 DEF Extract, Active, Tasks, GoesTo
  <2> QED BY <1>4, <2>1, <2>2 DEF Extract
<1>5. CASE WriteBronze(r)
  <2>1. Active(r) BY <1>5 DEF WriteBronze, Active, Tasks
  <2>2. GoesTo(r, {"validate", Restart(task[r]), "failed"}) /\ failures' \in Nat
    BY <1>5, <2>1, EndGoesTo DEF WriteBronze, Tasks
  <2> QED BY <1>1, <1>5, <2>1, <2>2 DEF WriteBronze, GoesTo
<1>6. CASE Validate(r)
  <2>1. GoesTo(r, {"silver"}) BY <1>6, ProceedGoesTo DEF Validate, Tasks
  <2> QED BY <1>1, <1>6, <2>1 DEF Validate, GoesTo, Active, Tasks
<1>7. CASE ValidationGateFails(r)
  <2>1. Active(r) BY <1>7 DEF ValidationGateFails, Active, Tasks
  <2>2. GoesTo(r, {Restart(task[r]), "failed"}) BY <1>7, <2>1, FailureGoesTo DEF ValidationGateFails
  <2> QED BY <1>1, <1>7, <2>1, <2>2 DEF ValidationGateFails, GoesTo
<1>8. CASE WriteSilver(r)
  <2>1. Active(r) BY <1>8 DEF WriteSilver, Active, Tasks
  <2>2. GoesTo(r, {"curate", Restart(task[r]), "failed"}) /\ failures' \in Nat
    BY <1>8, <2>1, EndGoesTo DEF WriteSilver, Tasks
  <2> QED BY <1>1, <1>8, <2>1, <2>2 DEF WriteSilver, GoesTo
<1>9. CASE Curate(r)
  <2>1. Active(r) BY <1>9 DEF Curate, Active, Tasks
  <2>2. GoesTo(r, {"build", Restart(task[r]), "failed"}) /\ failures' \in Nat
    BY <1>9, <2>1, EndGoesTo DEF Curate, Tasks
  <2> QED BY <1>1, <1>9, <2>1, <2>2 DEF Curate, Curates, GoesTo
<1>10. CASE BuildTrainingDataset(r)
  <2>1. Joinable(r) \in SUBSET Entities BY DEF Joinable
  <2> QED BY <1>1, <1>10, <2>1 DEF BuildTrainingDataset, Active, Tasks
<1>11. CASE UpsertTrainingRecords(r)
  <2>1. /\ task[r] = "upsert" /\ UNCHANGED recorded
        /\ training' = [e \in Entities |-> IF e \in {x \in pairs[r] : training[x] = NoRun}
                                           THEN r ELSE training[e]]
    BY <1>11 DEF UpsertTrainingRecords
  <2>2. training' \in [Entities -> Runs \cup {NoRun}] BY <1>1, <2>1
  <2>3. \A e \in Entities : training[e] # NoRun => training'[e] = training[e] BY <1>1, <2>1
  <2>4. CASE task' = [task EXCEPT ![r] = "gold"] /\ UNCHANGED attempts
    BY <1>1, <1>11, <2>1, <2>2, <2>3, <2>4 DEF UpsertTrainingRecords, Active, Tasks
  <2>5. CASE Proceed(r, "store")
    <3>1. GoesTo(r, {"store"}) BY <2>1, <2>5, ProceedGoesTo DEF Tasks
    <3> QED BY <1>1, <1>11, <2>1, <2>2, <2>3, <3>1 DEF UpsertTrainingRecords, Active, Tasks, GoesTo
  <2> QED BY <1>11, <2>4, <2>5 DEF UpsertTrainingRecords
<1>12. CASE WriteGold(r)
  <2>1. Active(r) BY <1>12 DEF WriteGold, Active, Tasks
  <2>2. GoesTo(r, {"store", Restart(task[r]), "failed"}) /\ failures' \in Nat
    BY <1>12, <2>1, EndGoesTo DEF WriteGold, Tasks
  <2> QED BY <1>1, <1>12, <2>1, <2>2 DEF WriteGold, GoesTo
<1>13. CASE UpdateFeatureStore(r)
  <2>1. GoesTo(r, {"emit"}) BY <1>13, ProceedGoesTo DEF UpdateFeatureStore, Tasks, tableVars
  <2>2. Window(r) \subseteq Entities BY DEF Window
  <2> QED BY <1>1, <1>13, <2>1, <2>2 DEF UpdateFeatureStore, GoesTo, Active, Tasks
<1>14. CASE FeatureStoreFails(r)
  <2>1. Active(r) BY <1>14 DEF FeatureStoreFails, Active, Tasks
  <2>2. GoesTo(r, {Restart(task[r]), "failed"}) BY <1>14, <2>1, FailureGoesTo DEF FeatureStoreFails
  <2>3. online \subseteq online' /\ online' \subseteq Entities
    BY <1>1, <1>14 DEF FeatureStoreFails, Window
  <2> QED BY <1>1, <1>14, <2>1, <2>2, <2>3 DEF FeatureStoreFails, GoesTo, Interrupted
<1>15. CASE Emit(r)
  <2>1. Active(r) BY <1>15 DEF Emit, Active, Tasks
  <2>2. [recorded EXCEPT ![r] = "success"] \in [Runs -> {"none", "failed", "success"}] BY <1>1
  <2>3. CASE /\ recorded' = [recorded EXCEPT ![r] = "success"] /\ Proceed(r, "done")
             /\ staged' = [staged EXCEPT ![r] = {}] /\ UNCHANGED failures
    BY <1>1, <1>15, <2>1, <2>3, PipelineAssumption DEF Emit, Proceed
  <2>4. CASE /\ AttemptFails(r, [recorded EXCEPT ![r] = "success"])
             /\ Interrupted /\ UNCHANGED staged
    <3>1. /\ task' = [task EXCEPT ![r] = task'[r]]
          /\ task'[r] \in {Restart(task[r]), "failed"}
          /\ attempts' \in [Runs -> 0 .. Retries]
          /\ recorded' \in {[recorded EXCEPT ![r] = "success"],
                           [[recorded EXCEPT ![r] = "success"] EXCEPT ![r] = "failed"]}
      BY <2>1, <2>2, <2>4, FailedAttempt
    <3>2. Restart(task[r]) \in Tasks BY <2>1, RestartIsTask DEF Active
    <3> QED BY <1>1, <1>15, <2>1, <2>4, <3>1, <3>2 DEF Emit, Interrupted
  <2> QED BY <1>15, <2>3, <2>4 DEF Emit
<1> QED
  BY <1>2, <1>3, <1>4, <1>5, <1>6, <1>7, <1>8, <1>9, <1>10, <1>11, <1>12, <1>13, <1>14, <1>15
  DEF Step

-----------------------------------------------------------------------------
(* What curating does: rows of the run's staging become its own, unless they are taken. *)
LEMMA CuratingMoves ==
    ASSUME TypeOK, NEW r \in Runs, Curates(r)
    PROVE  /\ curated' \in [Rows -> Runs \cup {NoRun}]
           /\ \A row \in Rows : /\ curated[row] # NoRun => curated'[row] = curated[row]
                                /\ curated'[row] # curated[row] =>
                                      curated'[row] = r /\ row \in staged[r]
                                /\ row \in staged[r] => curated'[row] # NoRun
           /\ watermark' \in [Streams -> Nat]
           /\ \A s \in Streams : /\ watermark'[s] >= watermark[s]
                                 /\ watermark'[s] \in {watermark[s], bounds[r].upper_bound}
<1>1. /\ curated \in [Rows -> Runs \cup {NoRun}] /\ watermark \in [Streams -> Nat]
      /\ bounds[r].upper_bound \in Nat
  BY DEF TypeOK
<1>2. /\ curated' = [row \in Rows |-> IF row \in staged[r] /\ curated[row] = NoRun
                                        THEN r ELSE curated[row]]
      /\ watermark' = [s \in Streams |-> IF watermark[s] < bounds[r].upper_bound
                                          THEN bounds[r].upper_bound ELSE watermark[s]]
  BY DEF Curates, CuratedBy, Greatest
<1>3. NoRun \notin Runs BY PipelineAssumption
<1> QED BY <1>1, <1>2, <1>3

(* The three ways the system moves. *)
LEMMA NextCases ==
    ASSUME [Next]_vars
    PROVE  \/ UNCHANGED vars
           \/ \E row \in Rows : BeginInsert(row) \/ CommitInsert(row)
           \/ \E r \in Runs : Trigger(r)
           \/ \E r \in Runs : Step(r)
BY DEF Next

(* Types are kept. *)
LEMMA TypesKept == ASSUME TypeOK, [Next]_vars PROVE TypeOK'
<1> USE DEF landingVars, tableVars, lakeVars, runVars
<1>1. CASE UNCHANGED vars BY <1>1 DEF vars, TypeOK
<1>2. ASSUME NEW row \in Rows, BeginInsert(row) PROVE TypeOK'
  BY <1>2 DEF BeginInsert, TypeOK
<1>3. ASSUME NEW row \in Rows, CommitInsert(row) PROVE TypeOK'
  <2>1. late' \subseteq Rows BY <1>3 DEF CommitInsert, TypeOK
  <2>2. inserted' \in [Rows -> {"no", "open", "visible"}] BY <1>3 DEF CommitInsert, TypeOK
  <2> QED BY <1>3, <2>1, <2>2 DEF CommitInsert, TypeOK
<1>4. ASSUME NEW r \in Runs, Trigger(r) PROVE TypeOK'
  <2>0. /\ clock \in Nat
        /\ bounds \in [Runs -> [watermark : [Streams -> Nat], upper_bound : Nat]]
        /\ bounds' = [bounds EXCEPT ![r].upper_bound = clock + 1] /\ clock' = clock + 1
    BY <1>4 DEF Trigger, TypeOK
  <2>1. /\ clock' \in Nat
        /\ bounds' \in [Runs -> [watermark : [Streams -> Nat], upper_bound : Nat]]
    BY <2>0
  <2>2. task' \in [Runs -> Tasks \cup {"idle", "failed", "done"}]
    BY <1>4 DEF Trigger, TypeOK, Tasks
  <2> QED BY <1>4, <2>1, <2>2 DEF Trigger, TypeOK
<1>5. ASSUME NEW r \in Runs, Step(r) PROVE TypeOK'
  <2>1. OwnStep(r) BY <1>5, StepMoves
  <2>2. /\ task' \in [Runs -> Tasks \cup {"idle", "failed", "done"}]
        /\ attempts' \in [Runs -> 0 .. Retries]
    <3>1. /\ task \in [Runs -> Tasks \cup {"idle", "failed", "done"}]
          /\ task' = [task EXCEPT ![r] = task'[r]]
          /\ task'[r] \in Tasks \cup {"failed", "done"}
          /\ attempts' \in [Runs -> 0 .. Retries]
      BY <2>1 DEF OwnStep, Moved, TypeOK
    <3> QED BY <3>1
  <2>7. staged' \in [Runs -> SUBSET Rows] /\ pairs' \in [Runs -> SUBSET Entities]
    BY <2>1 DEF OwnStep, Moved, TypeOK
  <2>8. recorded' \in [Runs -> {"none", "failed", "success"}]
    BY <2>1 DEF OwnStep, Moved, TypeOK
  <2>6. bounds' \in [Runs -> [watermark : [Streams -> Nat], upper_bound : Nat]]
    <3>1. /\ bounds \in [Runs -> [watermark : [Streams -> Nat], upper_bound : Nat]]
          /\ bounds' = [bounds EXCEPT ![r] = bounds'[r]]
          /\ bounds'[r] \in [watermark : [Streams -> Nat], upper_bound : Nat]
      BY <2>1 DEF OwnStep, Moved, TypeOK
    <3> QED BY <3>1
  <2>3. /\ bronze' \in [Runs -> SUBSET Rows] /\ silver' \in [Runs -> SUBSET Rows]
        /\ gold' \in [Runs -> SUBSET Entities] /\ online' \subseteq Entities
        /\ failures' \in Nat /\ training' \in [Entities -> Runs \cup {NoRun}]
    BY <2>1 DEF OwnStep, Moved, TypeOK
  <2>4. /\ clock' \in Nat /\ late' \subseteq Rows
        /\ inserted' \in [Rows -> {"no", "open", "visible"}] /\ ingested_at' \in [Rows -> Nat]
    BY <2>1 DEF OwnStep, TypeOK
  <2>5. curated' \in [Rows -> Runs \cup {NoRun}] /\ watermark' \in [Streams -> Nat]
    BY <2>1, CuratingMoves DEF OwnStep, TypeOK
  <2> QED BY <2>2, <2>3, <2>4, <2>5, <2>6, <2>7, <2>8 DEF TypeOK
<1> QED BY <1>1, <1>2, <1>3, <1>4, <1>5, NextCases

(* Watermarks, curated rows and training records are never taken back. *)
LEMMA TablesGrow ==
    ASSUME TypeOK, [Next]_vars
    PROVE  /\ \A s \in Streams : watermark'[s] >= watermark[s]
           /\ \A row \in Rows : curated[row] # NoRun => curated'[row] = curated[row]
           /\ \A e \in Entities : training[e] # NoRun => training'[e] = training[e]
<1>0. watermark \in [Streams -> Nat] BY DEF TypeOK
<1>1. CASE UNCHANGED <<watermark, curated, training>> BY <1>0, <1>1
<1>2. CASE \E r \in Runs : Step(r)
  <2>1. PICK r \in Runs : OwnStep(r) BY <1>2, StepMoves
  <2> QED BY <1>0, <2>1, CuratingMoves DEF OwnStep
<1> QED
  BY <1>1, <1>2, NextCases DEF BeginInsert, CommitInsert, Trigger, vars, tableVars

-----------------------------------------------------------------------------
(* The only steps a run takes at these points. *)
LEMMA StepAt ==
    ASSUME NEW r \in Runs, Step(r)
    PROVE  /\ task[r] \in {"determine", "determine_labels"} => Determine(r) \/ Fail(r)
           /\ task[r] \in {"extract", "extract_labels"} => Extract(r) \/ Fail(r)
           /\ task[r] = "bronze" => WriteBronze(r) \/ Fail(r)
           /\ task[r] = "validate" => Validate(r) \/ ValidationGateFails(r) \/ Fail(r)
           /\ task[r] = "silver" => WriteSilver(r) \/ Fail(r)
           /\ task[r] = "build" => BuildTrainingDataset(r) \/ Fail(r)
           /\ task[r] = "upsert" => UpsertTrainingRecords(r) \/ Fail(r)
           /\ task[r] = "store" => UpdateFeatureStore(r) \/ FeatureStoreFails(r) \/ Fail(r)
           /\ task[r] = "emit" => Emit(r) \/ Fail(r)
BY DEF Step, Determine, Extract, WriteBronze, Validate, ValidationGateFails, WriteSilver, Curate,
       BuildTrainingDataset, UpsertTrainingRecords, WriteGold, UpdateFeatureStore,
       FeatureStoreFails, Emit

(* The bounds of a run stay behind the watermarks. *)
LEMMA BoundsBehindKept == ASSUME TypeOK, BoundsBehind, [Next]_vars PROVE BoundsBehind'
<1>0. /\ bounds \in [Runs -> [watermark : [Streams -> Nat], upper_bound : Nat]]
      /\ bounds' \in [Runs -> [watermark : [Streams -> Nat], upper_bound : Nat]]
      /\ watermark \in [Streams -> Nat] /\ watermark' \in [Streams -> Nat]
  BY TypesKept DEF TypeOK
<1>1. \A s \in Streams : watermark'[s] >= watermark[s] BY TablesGrow
<1>2. ASSUME UNCHANGED bounds PROVE BoundsBehind' BY <1>0, <1>1, <1>2 DEF BoundsBehind
<1>3. ASSUME NEW r \in Runs, Trigger(r) PROVE BoundsBehind'
  <2>1. \A q \in Runs : bounds'[q].watermark = bounds[q].watermark BY <1>0, <1>3 DEF Trigger
  <2> QED BY <1>0, <1>1, <2>1 DEF BoundsBehind
<1>4. ASSUME NEW r \in Runs, Step(r) PROVE BoundsBehind'
  <2>1. OwnStep(r) BY <1>4, StepMoves
  <2>2. CASE Determine(r)
    <3>1. PICK s \in Streams : bounds' = [bounds EXCEPT ![r].watermark[s] = watermark[s]]
      BY <2>2 DEF Determine, GetWatermark, Streams
    <3>2. \A q \in Runs : \A t \in Streams :
             bounds'[q].watermark[t] \in {bounds[q].watermark[t], watermark[t]}
      BY <1>0, <3>1
    <3> SUFFICES ASSUME NEW q \in Runs, NEW t \in Streams
                 PROVE  bounds'[q].watermark[t] <= watermark'[t]
      BY DEF BoundsBehind
    <3>3. /\ watermark[t] \in Nat /\ watermark'[t] \in Nat /\ watermark'[t] >= watermark[t]
          /\ bounds[q].watermark[t] \in Nat /\ bounds[q].watermark[t] <= watermark[t]
      BY <1>0, <1>1 DEF BoundsBehind
    <3> QED BY <3>2, <3>3
  <2>3. CASE UNCHANGED bounds BY <1>2, <2>3
  <2> QED BY <1>4, <2>1, <2>2, <2>3, StepAt DEF OwnStep, Fail, runVars
<1> QED BY <1>2, <1>3, <1>4, NextCases DEF BeginInsert, CommitInsert, vars, runVars

(* What a run has read of a table is everything between its bounds that was to be read. *)
Gap(r) == {row \in Published \ late : /\ HasExtracted(r, row[1]) /\ inserted[row] = "visible"
                                      /\ bounds[r].watermark[row[1]] < ingested_at[row]
                                      /\ ingested_at[row] <= bounds[r].upper_bound
                                      /\ row \notin staged[r]
                                      /\ ~(task[r] \in {"silver", "curate"} /\ row \in Invalid)}

(* ReadComplete says that no run has a gap. *)
LEMMA NoGaps == ReadComplete <=> \A r \in Runs : Gap(r) = {}
BY DEF ReadComplete, Gap

(* A run's reading stays complete: what commits later is late, what a retry rereads is reread. *)
LEMMA ReadCompleteKept == ASSUME TypeOK, ReadComplete, [Next]_vars PROVE ReadComplete'
<1>0. \A row \in Published : row \in Rows /\ row[1] \in Streams
  BY RowParts, PipelineAssumption
<1>1. CASE UNCHANGED vars
  BY <1>1 DEF ReadComplete, HasExtracted, vars, landingVars, runVars
<1>2. ASSUME NEW row \in Rows, BeginInsert(row) PROVE ReadComplete'
  <2>1. /\ UNCHANGED <<task, bounds, staged, late>>
        /\ inserted \in [Rows -> {"no", "open", "visible"}] /\ ingested_at \in [Rows -> Nat]
        /\ inserted' = [inserted EXCEPT ![row] = "open"]
        /\ ingested_at' = [ingested_at EXCEPT ![row] = clock + 1]
    BY <1>2 DEF BeginInsert, TypeOK, runVars
  <2>2. \A other \in Rows : inserted'[other] = "visible" =>
            inserted[other] = "visible" /\ ingested_at'[other] = ingested_at[other]
    BY <2>1
  <2> QED BY <1>0, <2>1, <2>2 DEF ReadComplete, HasExtracted
<1>3. ASSUME NEW row \in Rows, CommitInsert(row) PROVE ReadComplete'
  <2>1. /\ UNCHANGED <<task, bounds, staged, ingested_at>>
        /\ inserted' = [inserted EXCEPT ![row] = "visible"]
        /\ inserted \in [Rows -> {"no", "open", "visible"}]
        /\ late \subseteq late'
    BY <1>3 DEF CommitInsert, TypeOK, runVars
  <2>2. ASSUME NEW r \in Runs, row \notin late', HasExtracted(r, row[1])
        PROVE  ~(ingested_at[row] <= bounds[r].upper_bound)
    BY <1>3, <2>2 DEF CommitInsert
  <2> QED BY <2>1, <2>2 DEF ReadComplete, HasExtracted
<1>4. ASSUME NEW r \in Runs, Trigger(r) PROVE ReadComplete'
  <2>1. /\ UNCHANGED <<inserted, ingested_at, late, staged>>
        /\ task' = [task EXCEPT ![r] = "determine"]
        /\ bounds' = [bounds EXCEPT ![r].upper_bound = clock + 1]
    BY <1>4 DEF Trigger, landingVars
  <2>2. /\ task \in [Runs -> Tasks \cup {"idle", "failed", "done"}]
        /\ bounds \in [Runs -> [watermark : [Streams -> Nat], upper_bound : Nat]]
    BY DEF TypeOK
  <2>3. \A q \in Runs \ {r} : task'[q] = task[q] /\ bounds'[q] = bounds[q] BY <2>1, <2>2
  <2>4. task'[r] = "determine" BY <2>1, <2>2
  <2> QED BY <2>1, <2>3, <2>4 DEF ReadComplete, HasExtracted
<1>5. ASSUME NEW r \in Runs, Step(r) PROVE ReadComplete'
  <2>1. OwnStep(r) BY <1>5, StepMoves
  <2>2. /\ UNCHANGED <<inserted, ingested_at, late>>
        /\ \A q \in Runs \ {r} : /\ task'[q] = task[q] /\ bounds'[q] = bounds[q]
                               /\ staged'[q] = staged[q]
    BY <2>1 DEF OwnStep, Moved, landingVars, TypeOK
  <2>3. \A q \in Runs \ {r} : Gap(q)' = {}
    BY <2>2, NoGaps DEF Gap, HasExtracted
  <2>4. Gap(r)' = {}
    <3>1. CASE ~(\E s \in Streams : HasExtracted(r, s))'
      BY <1>0, <3>1 DEF Gap
    <3>2. CASE /\ UNCHANGED <<bounds, staged>>
               /\ \A s \in Streams : HasExtracted(r, s)' => HasExtracted(r, s)
               /\ task[r] \in {"silver", "curate"} => task'[r] \in {"silver", "curate"}
                                                      \/ ~(\E s \in Streams : HasExtracted(r, s))'
      BY <1>0, <2>2, <3>1, <3>2, NoGaps DEF Gap
    <3>3. CASE task[r] \in {"determine", "determine_labels"}
      BY <2>1, <3>1, <3>3 DEF OwnStep, Successors, Restart, HasExtracted
    <3>4. CASE Extract(r)
      <4>1. CASE /\ task[r] = "extract"
                 /\ staged' = [staged EXCEPT ![r] = NewRecords(r, "features")]
                 /\ task' = [task EXCEPT ![r] = "extract_labels"]
        BY <1>0, <2>2, <3>4, <4>1 DEF Extract, Gap, HasExtracted, NewRecords, TypeOK
      <4>2. CASE /\ task[r] = "extract_labels"
                 /\ staged' = [staged EXCEPT ![r] = @ \cup NewRecords(r, "labels")]
                 /\ Proceed(r, "bronze")
        <5>1. staged'[r] = staged[r] \cup NewRecords(r, "labels") /\ UNCHANGED bounds
          BY <3>4, <4>2 DEF Extract, TypeOK
        <5>2. ASSUME NEW row \in Published \ late, inserted[row] = "visible",
                     bounds[r].watermark[row[1]] < ingested_at[row],
                     ingested_at[row] <= bounds[r].upper_bound
              PROVE  row \in staged'[r]
          <6>1. CASE row[1] = "features"
            BY <4>2, <5>1, <5>2, <6>1 DEF ReadComplete, HasExtracted
          <6>2. CASE row[1] = "labels"
            BY <5>1, <5>2, <6>2 DEF NewRecords, TypeOK
          <6> QED BY <1>0, <6>1, <6>2 DEF Streams
        <5> QED BY <2>2, <5>1, <5>2 DEF Gap
      <4> QED BY <3>4, <4>1, <4>2 DEF Extract
    <3>5. CASE Validate(r)
      <4>1. /\ task[r] = "validate" /\ task'[r] = "silver" /\ UNCHANGED bounds
            /\ staged'[r] = staged[r] \ Invalid
        BY <3>5 DEF Validate, Proceed, TypeOK
      <4> QED BY <2>2, <4>1, NoGaps DEF Gap, HasExtracted
    <3>6. CASE Fail(r)
      <4>1. task'[r] \in {Restart(task[r]), "failed"}
        BY <3>6, FailureGoesTo DEF Fail, GoesTo
      <4>2. \A s \in Streams : HasExtracted(r, s)' => task'[r] = task[r] /\ HasExtracted(r, s)
        BY <4>1 DEF Restart, HasExtracted
      <4>3. UNCHANGED <<bounds, staged>> BY <3>6 DEF Fail, runVars
      <4>4. CASE task'[r] = task[r] BY <3>2, <4>2, <4>3, <4>4
      <4> QED BY <3>1, <4>2, <4>4
    <3>7. CASE task[r] \in {"bronze", "silver", "curate"}
      BY <2>1, <3>2, <3>7 DEF OwnStep, Successors, Restart, HasExtracted, Streams
    <3>8. CASE ValidationGateFails(r)
      BY <2>1, <3>2, <3>8
      DEF OwnStep, ValidationGateFails, Successors, Restart, HasExtracted, Streams, runVars
    <3>9. CASE task[r] \in {"build", "upsert", "gold", "store", "emit"}
      BY <2>1, <3>1, <3>9 DEF OwnStep, Successors, Restart, HasExtracted
    <3> QED
      BY <1>5, <2>1, <3>3, <3>4, <3>5, <3>6, <3>7, <3>8, <3>9, StepAt DEF OwnStep, Active, Tasks
  <2> QED
    <3>1. \A q \in Runs : Gap(q)' = {} BY <2>3, <2>4
    <3> QED BY <3>1 DEF ReadComplete, Gap
<1> QED BY <1>1, <1>2, <1>3, <1>4, <1>5, NextCases

(* Up to the watermarks everything is processed: what lies between a run's bounds and the     *)
(* watermarks it moves is in what the run read.                                               *)
LEMMA NothingSkippedKept ==
    ASSUME TypeOK, NothingSkipped, BoundsBehind, ReadComplete, [Next]_vars
    PROVE  NothingSkipped'
<1>0. \A row \in Published : row \in Rows /\ row[1] \in Streams
  BY RowParts, PipelineAssumption
<1>1. /\ watermark \in [Streams -> Nat] /\ ingested_at \in [Rows -> Nat]
      /\ inserted \in [Rows -> {"no", "open", "visible"}]
      /\ bounds \in [Runs -> [watermark : [Streams -> Nat], upper_bound : Nat]]
  BY DEF TypeOK
<1>2. CASE UNCHANGED <<inserted, ingested_at, late, curated, watermark>>
  BY <1>2 DEF NothingSkipped, Processed
<1>3. ASSUME NEW row \in Rows, BeginInsert(row) PROVE NothingSkipped'
  <2>1. /\ UNCHANGED <<curated, watermark, late>>
        /\ inserted' = [inserted EXCEPT ![row] = "open"]
        /\ ingested_at' = [ingested_at EXCEPT ![row] = clock + 1]
    BY <1>3 DEF BeginInsert, tableVars
  <2>2. \A other \in Rows : inserted'[other] = "visible" =>
            inserted[other] = "visible" /\ ingested_at'[other] = ingested_at[other]
    BY <1>1, <2>1
  <2> QED BY <1>0, <2>1, <2>2 DEF NothingSkipped, Processed
<1>4. ASSUME NEW row \in Rows, CommitInsert(row) PROVE NothingSkipped'
  <2>1. /\ UNCHANGED <<curated, watermark, ingested_at>>
        /\ inserted' = [inserted EXCEPT ![row] = "visible"] /\ late \subseteq late'
        /\ row \notin late' => ~(ingested_at[row] <= watermark[row[1]])
    BY <1>4 DEF CommitInsert, tableVars
  <2> QED BY <1>1, <2>1 DEF NothingSkipped, Processed
<1>5. ASSUME NEW r \in Runs, Step(r), Curates(r) PROVE NothingSkipped'
  <2>1. UNCHANGED <<inserted, ingested_at, late>> BY <1>5, StepMoves DEF OwnStep, landingVars
  <2>2. SUFFICES ASSUME NEW row \in Published \ late, inserted[row] = "visible",
                        ingested_at[row] <= watermark'[row[1]]
                 PROVE  Processed(row)'
    BY <2>1 DEF NothingSkipped
  <2>3. row \in Rows /\ row[1] \in Streams BY <1>0
  <2>4. CASE ingested_at[row] <= watermark[row[1]]
    BY <1>5, <2>2, <2>3, <2>4, CuratingMoves DEF NothingSkipped, Processed
  <2>5. CASE ~(ingested_at[row] <= watermark[row[1]])
    <3>1. ingested_at[row] <= bounds[r].upper_bound
      BY <1>5, <2>2, <2>3, <2>5, CuratingMoves
    <3>2. bounds[r].watermark[row[1]] < ingested_at[row]
      <4>1. /\ bounds[r].watermark[row[1]] <= watermark[row[1]]
            /\ bounds[r].watermark[row[1]] \in Nat /\ watermark[row[1]] \in Nat
            /\ ingested_at[row] \in Nat
        BY <1>1, <2>3 DEF BoundsBehind
      <4> QED BY <2>5, <4>1
    <3>3. row \in staged[r] \/ row \in Invalid
      BY <1>5, <2>2, <3>1, <3>2 DEF ReadComplete, HasExtracted, Curates
    <3> QED BY <1>5, <2>3, <3>3, CuratingMoves DEF Processed
  <2> QED BY <2>4, <2>5
<1>6. ASSUME NEW r \in Runs, Step(r) PROVE NothingSkipped'
  BY <1>2, <1>5, <1>6, StepMoves DEF OwnStep, landingVars
<1> QED
  BY <1>2, <1>3, <1>4, <1>6, NextCases DEF Trigger, vars, landingVars, tableVars

(* Which runs have rows of their own, and where those rows are in the lake. *)
LEMMA LineageKept ==
    ASSUME TypeOK, LineageComplete, StagedInLake, CuratesOnce, [Next]_vars
    PROVE  LineageComplete' /\ StagedInLake' /\ CuratesOnce'
<1>0. NoRun \notin Runs BY PipelineAssumption
<1>1. /\ task \in [Runs -> Tasks \cup {"idle", "failed", "done"}]
      /\ staged \in [Runs -> SUBSET Rows] /\ bronze \in [Runs -> SUBSET Rows]
      /\ silver \in [Runs -> SUBSET Rows] /\ curated \in [Rows -> Runs \cup {NoRun}]
  BY DEF TypeOK
<1>2. CASE UNCHANGED <<task, staged, bronze, silver, curated>>
  BY <1>2 DEF LineageComplete, StagedInLake, CuratesOnce
<1>3. ASSUME NEW r \in Runs, Trigger(r)
      PROVE  LineageComplete' /\ StagedInLake' /\ CuratesOnce'
  <2>1. /\ UNCHANGED <<staged, bronze, silver, curated>> /\ task[r] = "idle"
        /\ task' = [task EXCEPT ![r] = "determine"]
    BY <1>3 DEF Trigger, lakeVars, tableVars
  <2>2. task'[r] = "determine" /\ \A q \in Runs \ {r} : task'[q] = task[q] BY <1>1, <2>1
  <2> QED BY <2>1, <2>2 DEF LineageComplete, StagedInLake, CuratesOnce
<1>4. ASSUME NEW r \in Runs, Step(r)
      PROVE  LineageComplete' /\ StagedInLake' /\ CuratesOnce'
  <2>1. OwnStep(r) BY <1>4, StepMoves
  <2>2. \A q \in Runs \ {r} : /\ task'[q] = task[q] /\ staged'[q] = staged[q]
                             /\ bronze'[q] = bronze[q] /\ silver'[q] = silver[q]
    BY <1>1, <2>1 DEF OwnStep, Moved
  <2>3. /\ \A row \in Rows : curated[row] # NoRun => curated'[row] = curated[row]
        /\ \A row \in Rows : curated'[row] # curated[row] =>
              task[r] = "curate" /\ curated'[row] = r /\ row \in staged[r]
    BY <2>1, CuratingMoves DEF OwnStep, Curates
  <2>4. CuratesOnce'
    <3>1. ASSUME NEW q \in Runs, NEW row \in Rows, curated'[row] = q,
                 task'[q] \in {"idle", "determine", "determine_labels", "extract",
                              "extract_labels", "bronze", "validate", "silver"}
          PROVE  FALSE
      <4>1. CASE q # r BY <2>2, <2>3, <3>1, <4>1 DEF CuratesOnce
      <4>2. CASE q = r
        <5>1. task[r] \in {"idle", "determine", "determine_labels", "extract", "extract_labels",
                          "bronze", "validate", "silver"}
          BY <2>1, <3>1, <4>2 DEF OwnStep, Active, Tasks, Successors, Restart
        <5> QED BY <2>3, <3>1, <4>2, <5>1 DEF CuratesOnce
      <4> QED BY <4>1, <4>2
    <3> QED BY <3>1 DEF CuratesOnce
  <2>5. StagedInLake'
    <3>1. SUFFICES /\ task'[r] \in {"validate", "silver", "curate"} =>
                         staged'[r] \subseteq bronze'[r]
                   /\ task'[r] = "curate" => staged'[r] \subseteq silver'[r]
      BY <2>2 DEF StagedInLake
    <3>2. CASE task[r] \notin {"bronze", "validate", "silver", "curate"}
      BY <2>1, <3>2 DEF OwnStep, Active, Tasks, Successors, Restart
    <3>3. CASE WriteBronze(r)
      BY <1>1, <2>1, <3>3 DEF WriteBronze, OwnStep, Successors, Restart, runVars
    <3>4. CASE WriteSilver(r)
      BY <1>1, <2>1, <3>4 DEF WriteSilver, OwnStep, Successors, Restart, runVars, StagedInLake
    <3>5. CASE Validate(r)
      BY <1>1, <2>1, <3>5 DEF Validate, Proceed, lakeVars, StagedInLake
    <3>6. CASE ValidationGateFails(r) \/ Fail(r)
      <4>1. task'[r] \in {Restart(task[r]), "failed"}
        BY <2>1, <3>6, FailureGoesTo DEF Fail, ValidationGateFails, GoesTo, OwnStep
      <4>2. UNCHANGED <<staged, bronze, silver>>
        BY <3>6 DEF Fail, ValidationGateFails, lakeVars, runVars
      <4>3. task'[r] \in {"validate", "silver", "curate"} => task'[r] = task[r]
        BY <4>1 DEF Restart
      <4> QED BY <4>2, <4>3 DEF StagedInLake
    <3>7. CASE task[r] = "curate"
      BY <2>1, <3>7 DEF OwnStep, Successors, Restart, StagedInLake
    <3> QED BY <1>4, <3>2, <3>3, <3>4, <3>5, <3>6, <3>7, StepAt
  <2>6. LineageComplete'
    <3>1. SUFFICES ASSUME NEW row \in Rows, curated'[row] # NoRun
                   PROVE  row \in bronze'[curated'[row]] /\ row \in silver'[curated'[row]]
      BY DEF LineageComplete
    <3>2. CASE curated'[row] # curated[row]
      BY <2>1, <2>3, <3>2 DEF StagedInLake, OwnStep
    <3>3. CASE curated'[row] = curated[row] /\ curated[row] # r
      BY <1>1, <2>2, <3>1, <3>3 DEF LineageComplete
    <3>4. CASE curated'[row] = curated[row] /\ curated[row] = r
      <4>1. task[r] \notin {"bronze", "silver"} BY <3>4 DEF CuratesOnce
      <4> QED BY <2>1, <3>1, <3>4, <4>1 DEF LineageComplete, OwnStep
    <3> QED BY <3>2, <3>3, <3>4
  <2> QED BY <2>4, <2>5, <2>6
<1> QED
  BY <1>2, <1>3, <1>4, NextCases DEF BeginInsert, CommitInsert, vars, lakeVars, tableVars, runVars

(* A run on its way to an entity's training record either stays so or has written it. *)
LEMMA OnItsWayStays ==
    ASSUME TypeOK, ServedBeforeEmit, NEW e \in Entities, NEW r \in Runs, Step(r), OnItsWay(r, e),
           curated[<<"features", e>>] # NoRun, curated[<<"labels", e>>] # NoRun
    PROVE  OnItsWay(r, e)' \/ training'[e] # NoRun
<1>0. NoRun \notin Runs BY PipelineAssumption
<1>1. OwnStep(r) BY StepMoves
<1>2. pairs \in [Runs -> SUBSET Entities] /\ training \in [Entities -> Runs \cup {NoRun}]
      /\ task \in [Runs -> Tasks \cup {"idle", "failed", "done"}]
  BY DEF TypeOK
<1>3. recorded'[r] # "success"
  <2>1. recorded[r] # "success" /\ task[r] # "emit" BY DEF OnItsWay, ServedBeforeEmit
  <2> QED BY <1>1, <2>1 DEF OwnStep
<1>4. CASE task[r] = "curate" BY <1>1, <1>4, <1>3 DEF OwnStep, Successors, Restart, OnItsWay
<1>5. CASE BuildTrainingDataset(r)
  <2>1. task'[r] = "upsert" /\ pairs'[r] = Joinable(r)
    BY <1>2, <1>5 DEF BuildTrainingDataset
  <2>2. CASE training[e] = NoRun BY <2>1, <2>2 DEF Joinable, OnItsWay
  <2>3. CASE training[e] # NoRun BY <1>1, <2>3 DEF OwnStep
  <2> QED BY <2>2, <2>3
<1>6. CASE UpsertTrainingRecords(r)
  <2>1. e \in pairs[r] BY <1>6 DEF UpsertTrainingRecords, OnItsWay
  <2>2. training' = [x \in Entities |-> IF x \in {y \in pairs[r] : training[y] = NoRun}
                                       THEN r ELSE training[x]]
    BY <1>6 DEF UpsertTrainingRecords
  <2> QED BY <1>0, <2>1, <2>2
<1>7. CASE Fail(r)
  <2>1. task'[r] \in {Restart(task[r]), "failed"} BY <1>7, FailureGoesTo DEF Fail, GoesTo
  <2> QED BY <1>7, <1>3, <2>1 DEF OnItsWay, Restart, Fail, Active, Tasks
<1> QED BY <1>1, <1>4, <1>5, <1>6, <1>7, StepAt DEF OnItsWay, OwnStep, Active, Tasks

(* The last run to curate half of a pair is on its way to the join. *)
LEMMA JoinCompleteKept ==
    ASSUME TypeOK, ServedBeforeEmit, JoinComplete, [Next]_vars
    PROVE  JoinComplete'
<1>0. NoRun \notin Runs BY PipelineAssumption
<1>1. /\ curated \in [Rows -> Runs \cup {NoRun}]
      /\ task \in [Runs -> Tasks \cup {"idle", "failed", "done"}]
  BY DEF TypeOK
<1>2. CASE UNCHANGED <<curated, training, task, pairs, recorded>>
  BY <1>2 DEF JoinComplete, OnItsWay
<1>3. ASSUME NEW r \in Runs, Trigger(r) PROVE JoinComplete'
  <2>1. /\ UNCHANGED <<curated, training, pairs, recorded>> /\ task[r] = "idle"
        /\ task' = [task EXCEPT ![r] = "determine"]
    BY <1>3 DEF Trigger, tableVars
  <2>2. \A q \in Runs : \A e \in Entities : OnItsWay(q, e) => OnItsWay(q, e)'
    BY <1>1, <2>1 DEF OnItsWay
  <2>3. \A e \in Entities : curated[<<"features", e>>] \in Runs \cup {NoRun}
                          /\ curated[<<"labels", e>>] \in Runs \cup {NoRun}
    BY <1>1, RowParts
  <2>4. SUFFICES ASSUME NEW e \in Entities, curated[<<"features", e>>] # NoRun,
                        curated[<<"labels", e>>] # NoRun, training[e] = NoRun
                 PROVE  \/ OnItsWay(curated[<<"features", e>>], e)'
                        \/ OnItsWay(curated[<<"labels", e>>], e)'
    BY <2>1 DEF JoinComplete, OnItsWay
  <2>5. PICK q \in {curated[<<"features", e>>], curated[<<"labels", e>>]} : OnItsWay(q, e)
    BY <2>4 DEF JoinComplete
  <2>6. q \in Runs BY <2>3, <2>4, <2>5
  <2>7. OnItsWay(q, e)' BY <2>2, <2>5, <2>6
  <2> QED BY <2>1, <2>5, <2>7 DEF OnItsWay
<1>4. ASSUME NEW r \in Runs, Step(r) PROVE JoinComplete'
  <2>1. OwnStep(r) BY <1>4, StepMoves
  <2>2. SUFFICES ASSUME NEW e \in Entities, curated'[<<"features", e>>] # NoRun,
                        curated'[<<"labels", e>>] # NoRun, training'[e] = NoRun
                 PROVE  \E q \in {curated'[<<"features", e>>], curated'[<<"labels", e>>]} :
                            OnItsWay(q, e)'
    BY DEF JoinComplete, OnItsWay
  <2>3. <<"features", e>> \in Rows /\ <<"labels", e>> \in Rows BY RowParts
  <2>4. /\ \A row \in Rows : curated[row] # NoRun => curated'[row] = curated[row]
        /\ \A row \in Rows : curated'[row] # curated[row] => task[r] = "curate" /\ curated'[row] = r
    BY <2>1, CuratingMoves DEF OwnStep, Curates
  <2>5. CASE \E row \in {<<"features", e>>, <<"labels", e>>} : curated'[row] # curated[row]
    <3>1. task[r] = "curate" /\ r \in {curated'[<<"features", e>>], curated'[<<"labels", e>>]}
      BY <2>3, <2>4, <2>5
    <3>2. recorded'[r] # "success" BY <2>1, <3>1 DEF OwnStep, ServedBeforeEmit
    <3>3. OnItsWay(r, e)' BY <2>1, <3>1, <3>2 DEF OwnStep, Successors, Restart, OnItsWay
    <3> QED BY <3>1, <3>3
  <2>6. CASE /\ curated'[<<"features", e>>] = curated[<<"features", e>>]
             /\ curated'[<<"labels", e>>] = curated[<<"labels", e>>]
    <3>1. training[e] = NoRun BY <2>1, <2>2 DEF OwnStep
    <3>2. PICK q \in {curated[<<"features", e>>], curated[<<"labels", e>>]} : OnItsWay(q, e)
      BY <2>2, <2>6, <3>1 DEF JoinComplete
    <3>3. q \in Runs BY <1>1, <2>2, <2>3, <2>6, <3>2
    <3>4. CASE q = r BY <1>4, <2>2, <2>6, <3>2, <3>4, OnItsWayStays
    <3>5. CASE q # r
      <4>1. task'[q] = task[q] /\ pairs'[q] = pairs[q] /\ recorded'[q] = recorded[q]
        BY <1>1, <2>1, <3>3, <3>5 DEF OwnStep, Moved, TypeOK
      <4> QED BY <2>6, <3>2, <4>1 DEF OnItsWay
    <3> QED BY <3>4, <3>5
  <2> QED BY <2>5, <2>6
<1> QED
  BY <1>2, <1>3, <1>4, NextCases DEF BeginInsert, CommitInsert, vars, tableVars, runVars

(* The windows over a run's own timestamps contain its features. *)
LEMMA WindowCovers == ASSUME NEW r \in Runs PROVE RunFeatures(r) \subseteq Window(r)
<1>1. SUFFICES ASSUME NEW e \in RunFeatures(r) PROVE e \in Window(r) OBVIOUS
<1>2. e \in Entities /\ curated[<<"features", e>>] = r /\ EventTime[e] \in Int /\ r # NoRun
  BY PipelineAssumption DEF RunFeatures
<1>3. EventTime[e] \in EventTime[e] .. EventTime[e] BY <1>2
<1> QED BY <1>2, <1>3 DEF Window

(* A run has its features served before it is recorded as a success. *)
LEMMA ServedKept ==
    ASSUME TypeOK, SuccessIsServed, ServedBeforeEmit, [Next]_vars
    PROVE  SuccessIsServed' /\ ServedBeforeEmit'
<1>1. /\ task \in [Runs -> Tasks \cup {"idle", "failed", "done"}]
      /\ recorded \in [Runs -> {"none", "failed", "success"}]
      /\ curated \in [Rows -> Runs \cup {NoRun}]
  BY DEF TypeOK
<1>2. CASE UNCHANGED <<task, recorded, curated, online>>
  BY <1>2 DEF SuccessIsServed, ServedBeforeEmit, RunFeatures
<1>3. ASSUME NEW r \in Runs, Trigger(r) PROVE SuccessIsServed' /\ ServedBeforeEmit'
  <2>1. /\ UNCHANGED <<recorded, curated, online>> /\ task[r] = "idle"
        /\ task' = [task EXCEPT ![r] = "determine"]
    BY <1>3 DEF Trigger, tableVars, lakeVars
  <2>2. task'[r] = "determine" /\ \A q \in Runs \ {r} : task'[q] = task[q] BY <1>1, <2>1
  <2> QED BY <2>1, <2>2 DEF SuccessIsServed, ServedBeforeEmit, RunFeatures
<1>4. ASSUME NEW r \in Runs, Step(r) PROVE SuccessIsServed' /\ ServedBeforeEmit'
  <2>1. OwnStep(r) BY <1>4, StepMoves
  <2>2. \A q \in Runs \ {r} : task'[q] = task[q] /\ recorded'[q] = recorded[q]
    BY <1>1, <2>1 DEF OwnStep, Moved
  <2>3. /\ \A row \in Rows : curated'[row] # curated[row] =>
              task[r] = "curate" /\ curated'[row] = r
        /\ online \subseteq online'
    BY <2>1, CuratingMoves DEF OwnStep, Curates
  <2>4. \A q \in Runs : q # r \/ task[r] # "curate" => RunFeatures(q)' \subseteq RunFeatures(q)
    BY <2>3, RowParts DEF RunFeatures
  <2>5. /\ task'[r] \in {"emit", "done"} => RunFeatures(r)' \subseteq online'
        /\ recorded'[r] = "success" => /\ task'[r] \in {"emit", "done", "failed"}
                                       /\ RunFeatures(r)' \subseteq online'
    <3>1. CASE task[r] = "emit"
      <4>1. RunFeatures(r)' \subseteq online'
        BY <2>3, <2>4, <3>1 DEF ServedBeforeEmit
      <4>2. task'[r] \in {"emit", "done", "failed"}
        BY <2>1, <3>1 DEF OwnStep, Successors, Restart
      <4> QED BY <4>1, <4>2
    <3>2. CASE UpdateFeatureStore(r)
      <4>1. task[r] = "store" /\ online' = online \cup Window(r) /\ task'[r] = "emit"
        BY <1>1, <3>2 DEF UpdateFeatureStore, Proceed
      <4> QED BY <2>4, <4>1, WindowCovers
    <3>3. CASE task[r] # "emit" /\ ~UpdateFeatureStore(r)
      <4>1. task'[r] \notin {"emit", "done"}
        <5>1. CASE task[r] = "store"
          <6>1. task'[r] \in {Restart(task[r]), "failed"}
            BY <1>4, <2>1, <3>3, <5>1, StepAt, FailureGoesTo
            DEF FeatureStoreFails, Fail, GoesTo, OwnStep
          <6> QED BY <5>1, <6>1 DEF Restart
        <5>2. CASE task[r] # "store"
          BY <2>1, <3>3, <5>2 DEF OwnStep, Active, Tasks, Successors, Restart
        <5> QED BY <5>1, <5>2
      <4>2. recorded[r] # "success"
        BY <2>1, <3>3 DEF ServedBeforeEmit, OwnStep, Active, Tasks
      <4>3. recorded'[r] # "success" BY <2>1, <3>3, <4>2 DEF OwnStep
      <4> QED BY <4>1, <4>3
    <3> QED BY <3>1, <3>2, <3>3
  <2>6. \A q \in Runs \ {r} :
           /\ task'[q] \in {"emit", "done"} => RunFeatures(q)' \subseteq online'
           /\ recorded'[q] = "success" => /\ task'[q] \in {"emit", "done", "failed"}
                                          /\ RunFeatures(q)' \subseteq online'
    BY <2>2, <2>3, <2>4 DEF SuccessIsServed, ServedBeforeEmit
  <2> QED BY <2>5, <2>6 DEF SuccessIsServed, ServedBeforeEmit
<1> QED
  BY <1>2, <1>3, <1>4, NextCases DEF BeginInsert, CommitInsert, vars, tableVars, lakeVars

-----------------------------------------------------------------------------
(* An attempt that was not cut short ended in success. *)
LEMMA EndsWithoutFailure ==
    ASSUME TypeOK, NEW r \in Runs, NEW next \in Tasks, Ends(r, next), failures' = 0
    PROVE  failures = 0 /\ task'[r] = next
<1>1. /\ task \in [Runs -> Tasks \cup {"idle", "failed", "done"}] /\ failures \in Nat
  BY DEF TypeOK
<1>2. ~Interrupted BY <1>1 DEF Interrupted
<1> QED BY <1>1, <1>2 DEF Ends, Proceed

(* What a step does to the gold objects and to the training records they belong to. *)
LEMMA GoldMoves ==
    ASSUME TypeOK, NEW r \in Runs, Step(r)
    PROVE  /\ UNCHANGED gold \/ (task[r] = "gold" /\ gold' = [gold EXCEPT ![r] = pairs[r]])
           /\ failures' = 0 =>
                 /\ failures = 0
                 /\ task[r] = "gold" => task'[r] = "store" /\ gold' = [gold EXCEPT ![r] = pairs[r]]
                 /\ task[r] = "store" => task'[r] = "emit"
                 /\ task[r] = "emit" => task'[r] = "done"
           /\ task'[r] = "gold" => \A e \in pairs[r] : training'[e] # NoRun
           /\ \A e \in Entities : training'[e] # training[e] =>
                 training'[e] = r /\ e \in pairs[r] /\ task'[r] = "gold"
<1>1. /\ task \in [Runs -> Tasks \cup {"idle", "failed", "done"}] /\ failures \in Nat
      /\ pairs \in [Runs -> SUBSET Entities] /\ training \in [Entities -> Runs \cup {NoRun}]
  BY DEF TypeOK
<1>2. failures' = 0 => ~Interrupted BY <1>1 DEF Interrupted
<1>3. OwnStep(r) BY StepMoves
<1>4. task'[r] = "gold" => task[r] = "upsert" BY <1>1, <1>3 DEF OwnStep, Successors, Restart, Tasks
<1>5. task[r] # "upsert" => UNCHANGED training BY <1>3 DEF OwnStep
<1>6. CASE Fail(r)
  <2>1. UNCHANGED <<gold, training>> /\ failures' # 0 BY <1>2, <1>6 DEF Fail, lakeVars
  <2>2. task'[r] # "gold"
    BY <1>1, <1>6, FailureGoesTo DEF Fail, GoesTo, Restart, Tasks
  <2> QED BY <2>1, <2>2
<1>7. CASE UpsertTrainingRecords(r)
  <2>1. /\ task[r] = "upsert" /\ UNCHANGED <<gold, failures>>
        /\ training' = [e \in Entities |-> IF e \in {x \in pairs[r] : training[x] = NoRun}
                                           THEN r ELSE training[e]]
    BY <1>7 DEF UpsertTrainingRecords, lakeVars
  <2>2. \A e \in pairs[r] : training'[e] # NoRun BY <1>1, <2>1, PipelineAssumption
  <2>3. \A e \in Entities : training'[e] # training[e] =>
            training'[e] = r /\ e \in pairs[r] /\ training[e] = NoRun
    BY <1>1, <2>1
  <2>4. {x \in pairs[r] : training[x] = NoRun} # {} => task'[r] = "gold"
    BY <1>1, <1>7 DEF UpsertTrainingRecords
  <2> QED BY <2>1, <2>2, <2>3, <2>4
<1>8. CASE WriteGold(r)
  <2>1. /\ task[r] = "gold" /\ gold' = [gold EXCEPT ![r] = pairs[r]] /\ Ends(r, "store")
    BY <1>8 DEF WriteGold
  <2>2. failures' = 0 => failures = 0 /\ task'[r] = "store"
    BY <2>1, EndsWithoutFailure DEF Tasks
  <2> QED BY <1>4, <1>5, <2>1, <2>2
<1>9. CASE \/ Determine(r) \/ Extract(r) \/ Validate(r) \/ ValidationGateFails(r)
           \/ BuildTrainingDataset(r)
  <2>1. /\ UNCHANGED <<gold, failures>> /\ task[r] \notin {"upsert", "gold", "store", "emit"}
    BY <1>9 DEF Determine, Extract, Validate, ValidationGateFails, BuildTrainingDataset, lakeVars
  <2> QED BY <1>4, <1>5, <2>1
<1>10. CASE WriteBronze(r) \/ WriteSilver(r) \/ Curate(r)
  <2>1. /\ UNCHANGED gold /\ task[r] \notin {"upsert", "gold", "store", "emit"}
        /\ \E next \in Tasks : Ends(r, next)
    BY <1>10 DEF WriteBronze, WriteSilver, Curate, lakeVars, Tasks
  <2>2. failures' = 0 => failures = 0 BY <2>1, EndsWithoutFailure
  <2> QED BY <1>4, <1>5, <2>1, <2>2
<1>11. CASE UpdateFeatureStore(r)
  <2>1. /\ UNCHANGED <<gold, failures>> /\ task[r] = "store" /\ task'[r] = "emit"
    BY <1>1, <1>11 DEF UpdateFeatureStore, Proceed
  <2> QED BY <1>4, <1>5, <2>1
<1>12. CASE FeatureStoreFails(r)
  <2>1. UNCHANGED gold /\ task[r] = "store" /\ failures' # 0
    BY <1>2, <1>12 DEF FeatureStoreFails
  <2> QED BY <1>4, <1>5, <2>1
<1>13. CASE Emit(r)
  <2>1. UNCHANGED gold /\ task[r] = "emit" BY <1>13 DEF Emit, lakeVars
  <2>2. failures' = 0 => failures = 0 /\ task'[r] = "done"
    BY <1>1, <1>2, <1>13 DEF Emit, Proceed
  <2> QED BY <1>4, <1>5, <2>1, <2>2
<1> QED BY <1>6, <1>7, <1>8, <1>9, <1>10, <1>11, <1>12, <1>13 DEF Step

(* The records of a run stay in sight of it until they are in its gold object. *)
LEMMA RecordsKept ==
    ASSUME TypeOK, RecordsOnTheirWay, [Next]_vars
    PROVE  RecordsOnTheirWay'
<1>1. ASSUME UNCHANGED <<gold, training, pairs, failures>>,
             \A q \in Runs : task'[q] = task[q] \/ (task'[q] = "determine" /\ task[q] = "idle")
      PROVE  RecordsOnTheirWay'
  BY <1>1 DEF RecordsOnTheirWay
<1>2. ASSUME NEW r \in Runs, Step(r) PROVE RecordsOnTheirWay'
  <2>1. /\ task \in [Runs -> Tasks \cup {"idle", "failed", "done"}]
        /\ gold \in [Runs -> SUBSET Entities] /\ pairs \in [Runs -> SUBSET Entities]
        /\ training \in [Entities -> Runs \cup {NoRun}]
    BY DEF TypeOK
  <2>2. OwnStep(r) BY <1>2, StepMoves
  <2>3. \A e \in Entities : training[e] # NoRun => training'[e] # NoRun BY <2>2 DEF OwnStep
  <2>4. \A q \in Runs \ {r} : task'[q] = task[q] /\ pairs'[q] = pairs[q] /\ gold'[q] = gold[q]
    BY <2>1, <2>2 DEF OwnStep, Moved
  <2>5. /\ gold'[r] = gold[r] \/ (task[r] = "gold" /\ gold'[r] = pairs[r])
        /\ gold'[r] \subseteq Entities
    BY <1>2, <2>1, GoldMoves
  <2>6. \A q \in Runs : \A e \in gold'[q] : training'[e] # NoRun
    BY <2>1, <2>3, <2>4, <2>5 DEF RecordsOnTheirWay
  <2>7. task'[r] = "gold" => pairs'[r] = pairs[r] /\ \A e \in pairs[r] : training'[e] # NoRun
    <3>1. task'[r] = "gold" => task[r] = "upsert"
      BY <2>1, <2>2 DEF OwnStep, Successors, Restart, Tasks
    <3>2. task[r] # "build" => UNCHANGED pairs BY <2>2 DEF OwnStep
    <3> QED BY <1>2, <3>1, <3>2, GoldMoves
  <2>8. \A q \in Runs : task'[q] = "gold" => \A e \in pairs'[q] : training'[e] # NoRun
    BY <2>1, <2>3, <2>4, <2>7 DEF RecordsOnTheirWay
  <2>9. ASSUME failures' = 0, NEW q \in Runs, NEW e \in Entities, training'[e] = q
        PROVE  \/ task'[q] = "gold" /\ e \in pairs'[q]
               \/ task'[q] \in {"store", "emit", "done"} /\ e \in gold'[q]
    <3>1. failures = 0 BY <1>2, <2>9, GoldMoves
    <3>2. CASE training[e] # q
      BY <1>2, <2>7, <2>9, <3>2, GoldMoves
    <3>3. CASE training[e] = q
      <4>1. \/ task[q] = "gold" /\ e \in pairs[q]
            \/ task[q] \in {"store", "emit", "done"} /\ e \in gold[q]
        BY <3>1, <3>3 DEF RecordsOnTheirWay
      <4>2. CASE q # r BY <2>4, <4>1, <4>2
      <4>3. CASE q = r
        <5>1. task[r] \in Tasks BY <2>2 DEF OwnStep, Active
        <5>2. CASE task[r] = "gold" /\ e \in pairs[r]
          BY <1>2, <2>1, <2>9, <4>3, <5>2, GoldMoves
        <5>3. CASE task[r] \in {"store", "emit"} /\ e \in gold[r]
          <6>1. gold'[r] = gold[r] BY <2>5, <5>3
          <6>2. task'[r] \in {"emit", "done"} BY <1>2, <2>9, <5>3, GoldMoves
          <6> QED BY <4>3, <5>3, <6>1, <6>2
        <5>4. task[r] # "done" BY <5>1 DEF Tasks
        <5> QED BY <4>1, <4>3, <5>2, <5>3, <5>4
      <4> QED BY <4>2, <4>3
    <3> QED BY <3>2, <3>3
  <2> QED BY <2>6, <2>8, <2>9 DEF RecordsOnTheirWay
<1>3. ASSUME NEW r \in Runs, Trigger(r) PROVE RecordsOnTheirWay'
  <2>1. task \in [Runs -> Tasks \cup {"idle", "failed", "done"}] BY DEF TypeOK
  <2>2. task[r] = "idle" /\ task' = [task EXCEPT ![r] = "determine"] BY <1>3 DEF Trigger
  <2>4. \A q \in Runs : task'[q] = task[q] \/ (task'[q] = "determine" /\ task[q] = "idle")
    BY <2>1, <2>2
  <2>3. UNCHANGED <<gold, training, pairs, failures>> BY <1>3 DEF Trigger, tableVars, lakeVars
  <2> QED BY <1>1, <2>3, <2>4
<1>4. ASSUME NEW row \in Rows, BeginInsert(row) \/ CommitInsert(row) PROVE RecordsOnTheirWay'
  <2>1. UNCHANGED <<gold, training, pairs, failures>> /\ UNCHANGED task
    BY <1>4 DEF BeginInsert, CommitInsert, tableVars, lakeVars, runVars
  <2>2. \A q \in Runs : task'[q] = task[q] BY <2>1
  <2> QED BY <1>1, <2>1, <2>2
<1>5. CASE UNCHANGED vars
  <2>1. UNCHANGED <<gold, training, pairs, failures>> /\ UNCHANGED task
    BY <1>5 DEF vars, tableVars, lakeVars, runVars
  <2>2. \A q \in Runs : task'[q] = task[q] BY <2>1
  <2> QED BY <1>1, <2>1, <2>2
<1> QED BY <1>2, <1>3, <1>4, <1>5, NextCases

-----------------------------------------------------------------------------
(* Rows stay in the landing tables; a step of a run lands none. *)
LEMMA LandedStays == ASSUME TypeOK, [Next]_vars PROVE Landed \subseteq Landed'
<1>1. inserted \in [Rows -> {"no", "open", "visible"}] /\ Published \subseteq Rows
  BY PipelineAssumption DEF TypeOK
<1>2. ASSUME NEW row \in Rows, BeginInsert(row) \/ CommitInsert(row) PROVE Landed \subseteq Landed'
  BY <1>1, <1>2 DEF BeginInsert, CommitInsert, Landed
<1>3. CASE UNCHANGED inserted BY <1>3 DEF Landed
<1>4. CASE \E r \in Runs : Step(r) BY <1>3, <1>4, StepMoves DEF OwnStep, landingVars
<1> QED BY <1>2, <1>3, <1>4, NextCases DEF Trigger, vars, landingVars

(* What a run reads is there. *)
LEMMA StagedLandedKept == ASSUME TypeOK, StagedLanded, [Next]_vars PROVE StagedLanded'
<1>1. staged \in [Runs -> SUBSET Rows] BY DEF TypeOK
<1>2. Landed \subseteq Landed' BY LandedStays
<1>3. CASE UNCHANGED staged BY <1>2, <1>3 DEF StagedLanded
<1>4. ASSUME NEW r \in Runs, Step(r) PROVE StagedLanded'
  <2>1. OwnStep(r) BY <1>4, StepMoves
  <2>2. \A q \in Runs \ {r} : staged'[q] = staged[q] BY <1>1, <2>1 DEF OwnStep, Moved
  <2>3. \A s \in Streams : NewRecords(r, s) \subseteq Landed BY DEF NewRecords, Landed
  <2>4. staged'[r] \subseteq Landed
    <3>1. CASE UNCHANGED staged BY <3>1 DEF StagedLanded
    <3>2. CASE Extract(r)
      <4>1. \/ staged' = [staged EXCEPT ![r] = NewRecords(r, "features")]
            \/ staged' = [staged EXCEPT ![r] = @ \cup NewRecords(r, "labels")]
        BY <3>2 DEF Extract
      <4>2. NewRecords(r, "features") \subseteq Landed /\ NewRecords(r, "labels") \subseteq Landed
        BY <2>3 DEF Streams
      <4> QED BY <1>1, <4>1, <4>2 DEF StagedLanded
    <3>3. CASE Validate(r)
      <4>1. staged' = [staged EXCEPT ![r] = @ \ Invalid] BY <3>3 DEF Validate
      <4> QED BY <1>1, <4>1 DEF StagedLanded
    <3>4. CASE Emit(r)
      <4>1. UNCHANGED staged \/ staged' = [staged EXCEPT ![r] = {}] BY <3>4 DEF Emit
      <4> QED BY <1>1, <3>1, <4>1
    <3>5. CASE Fail(r) BY <3>1, <3>5 DEF Fail, runVars
    <3>6. CASE ValidationGateFails(r) BY <3>1, <3>6 DEF ValidationGateFails, runVars
    <3> QED BY <1>4, <2>1, <3>1, <3>2, <3>3, <3>4, <3>5, <3>6, StepAt DEF OwnStep
  <2> QED BY <1>2, <2>2, <2>4 DEF StagedLanded
<1> QED
  BY <1>3, <1>4, NextCases DEF BeginInsert, CommitInsert, Trigger, vars, runVars

(* What a run keeps is valid: it comes to "silver" through the validation only. *)
LEMMA StagedValidKept == ASSUME TypeOK, StagedValid, [Next]_vars PROVE StagedValid'
<1>1. /\ staged \in [Runs -> SUBSET Rows]
      /\ task \in [Runs -> Tasks \cup {"idle", "failed", "done"}]
  BY DEF TypeOK
<1>2. CASE UNCHANGED <<staged, task>> BY <1>2 DEF StagedValid
<1>3. ASSUME NEW r \in Runs, Trigger(r) PROVE StagedValid'
  <2>1. UNCHANGED staged /\ task' = [task EXCEPT ![r] = "determine"] BY <1>3 DEF Trigger
  <2>2. \A q \in Runs : task'[q] \in {"silver", "curate"} => task'[q] = task[q] BY <1>1, <2>1
  <2> QED BY <2>1, <2>2 DEF StagedValid
<1>4. ASSUME NEW r \in Runs, Step(r) PROVE StagedValid'
  <2>1. OwnStep(r) BY <1>4, StepMoves
  <2>2. \A q \in Runs \ {r} : task'[q] = task[q] /\ staged'[q] = staged[q]
    BY <1>1, <2>1 DEF OwnStep, Moved
  <2>3. ASSUME task'[r] \in {"silver", "curate"} PROVE staged'[r] \cap Invalid = {}
    <3>1. CASE Validate(r)
      <4>1. staged' = [staged EXCEPT ![r] = @ \ Invalid] BY <3>1 DEF Validate
      <4>2. staged'[r] = staged[r] \ Invalid BY <1>1, <4>1
      <4> QED BY <4>2
    <3>2. CASE task[r] \in {"silver", "curate"}
      <4>1. staged' = staged BY <2>1, <3>2 DEF OwnStep
      <4> QED BY <3>2, <4>1 DEF StagedValid
    <3>3. CASE task[r] = "validate" /\ ~Validate(r)
      <4>1. task'[r] \in {Restart(task[r]), "failed"}
        BY <1>4, <2>1, <3>3, StepAt, FailureGoesTo
        DEF ValidationGateFails, Fail, GoesTo, OwnStep
      <4> QED BY <2>3, <3>3, <4>1 DEF Restart
    <3>4. CASE task[r] \notin {"validate", "silver", "curate"}
      BY <2>1, <2>3, <3>4 DEF OwnStep, Active, Tasks, Successors, Restart
    <3> QED BY <3>1, <3>2, <3>3, <3>4
  <2> QED BY <2>2, <2>3 DEF StagedValid
<1> QED
  BY <1>2, <1>3, <1>4, NextCases DEF BeginInsert, CommitInsert, vars, runVars

(* What a run joins is curated, and stays so. *)
LEMMA JoinsWholeKept == ASSUME TypeOK, JoinsWhole, [Next]_vars PROVE JoinsWhole'
<1>1. pairs \in [Runs -> SUBSET Entities] BY DEF TypeOK
<1>2. Whole \subseteq Whole'
  <2>1. \A e \in Entities : /\ <<"features", e>> \in Rows /\ <<"labels", e>> \in Rows BY RowParts
  <2> QED BY <2>1, TablesGrow DEF Whole
<1>3. CASE UNCHANGED pairs BY <1>2, <1>3 DEF JoinsWhole
<1>4. ASSUME NEW r \in Runs, Step(r) PROVE JoinsWhole'
  <2>1. OwnStep(r) BY <1>4, StepMoves
  <2>2. CASE BuildTrainingDataset(r)
    <3>1. pairs' = [pairs EXCEPT ![r] = Joinable(r)] /\ Joinable(r) \subseteq Whole
      BY <2>2 DEF BuildTrainingDataset, Joinable, Whole
    <3>2. \A q \in Runs : pairs'[q] = pairs[q] \/ pairs'[q] = Joinable(r) BY <1>1, <3>1
    <3> QED BY <1>2, <3>1, <3>2 DEF JoinsWhole
  <2>3. CASE Fail(r) BY <1>3, <2>3 DEF Fail, runVars
  <2> QED BY <1>3, <1>4, <2>1, <2>2, <2>3, StepAt DEF OwnStep
<1> QED
  BY <1>3, <1>4, NextCases DEF BeginInsert, CommitInsert, Trigger, vars, runVars

-----------------------------------------------------------------------------
(* The invariant holds in the initial state ... *)
LEMMA InitInductive == Init => Inductive
<1> SUFFICES ASSUME Init PROVE Inductive OBVIOUS
<1>1. TypeOK BY PipelineAssumption DEF Init, TypeOK
<1>2. NothingSkipped /\ BoundsBehind /\ ReadComplete
  <2>1. \A row \in Published : row \in Rows BY PipelineAssumption
  <2> QED BY <2>1 DEF Init, NothingSkipped, BoundsBehind, ReadComplete
<1>3. JoinComplete BY RowParts DEF Init, JoinComplete
<1>4. SuccessIsServed /\ LineageComplete /\ StagedInLake /\ ServedBeforeEmit
  BY DEF Init, SuccessIsServed, LineageComplete, StagedInLake, ServedBeforeEmit
<1>5. CuratesOnce BY PipelineAssumption DEF Init, CuratesOnce
<1>6. StagedLanded /\ StagedValid /\ JoinsWhole
  BY DEF Init, StagedLanded, StagedValid, JoinsWhole
<1> QED BY <1>1, <1>2, <1>3, <1>4, <1>5, <1>6 DEF Inductive, PipelineInvariant

(* ... is kept by every step ... *)
LEMMA StepInductive == Inductive /\ [Next]_vars => Inductive'
BY TypesKept, NothingSkippedKept, JoinCompleteKept, ServedKept, LineageKept, BoundsBehindKept,
   ReadCompleteKept, StagedLandedKept, StagedValidKept, JoinsWholeKept
DEF Inductive, PipelineInvariant

(* ... and so holds always. *)
LEMMA InductiveHolds == Spec => []Inductive
BY InitInductive, StepInductive, PTL DEF Spec

(* The pipeline's invariant holds for any number of runs, rows, failures and retries. *)
THEOREM RunsInvariantHolds == Spec => []PipelineInvariant
<1>1. Inductive => PipelineInvariant BY DEF Inductive
<1> QED BY <1>1, InductiveHolds, PTL

(* Type correctness; a task is attempted at most Retries + 1 times in a row. *)
THEOREM PipelineTypes == Spec => []TypeOK
<1>1. Inductive => TypeOK BY DEF Inductive
<1> QED BY <1>1, InductiveHolds, PTL

(* No row that a run could read is passed by a watermark without being processed. *)
THEOREM WatermarkSkipsNothing == Spec => []NothingSkipped
<1>1. Inductive => NothingSkipped BY DEF Inductive
<1> QED BY <1>1, InductiveHolds, PTL

(* Both halves of a pair lead to a training record, whichever runs curate them. *)
THEOREM PairsAreJoined == Spec => []JoinComplete
<1>1. Inductive => JoinComplete BY DEF Inductive
<1> QED BY <1>1, InductiveHolds, PTL

(* A run recorded as a success has its features in the online store. *)
THEOREM SuccessfulRunsAreServed == Spec => []SuccessIsServed
<1>1. Inductive => SuccessIsServed BY DEF Inductive
<1> QED BY <1>1, InductiveHolds, PTL

(* The lake objects of the run a curated row names contain the row. *)
THEOREM LineageHolds == Spec => []LineageComplete
<1>1. Inductive => LineageComplete BY DEF Inductive
<1> QED BY <1>1, InductiveHolds, PTL

(* Watermarks never go back, in whatever order overlapping runs commit. *)
THEOREM WatermarksOnlyAdvance == Spec => WatermarksAdvance
<1>1. TypeOK /\ [Next]_vars => [\A s \in Streams : watermark'[s] >= watermark[s]]_watermark
  BY TablesGrow
<1> QED BY <1>1, PipelineTypes, PTL DEF Spec, WatermarksAdvance

(* No run takes over what another one has curated or recorded. *)
THEOREM RowsKeepTheirRun == Spec => FirstRunKeepsRow
<1>1. TypeOK /\ [Next]_vars =>
        [/\ \A row \in Rows : curated[row] # NoRun => curated'[row] = curated[row]
         /\ \A e \in Entities : training[e] # NoRun => training'[e] = training[e]]_vars
  BY TablesGrow
<1> QED BY <1>1, PipelineTypes, PTL DEF Spec, FirstRunKeepsRow

(* Gold objects and training records agree, as far as no attempt is cut short. *)
THEOREM GoldHolds == Spec => []GoldAgrees
<1>1. Init => RecordsOnTheirWay BY PipelineAssumption DEF Init, RecordsOnTheirWay
<1>2. TypeOK /\ RecordsOnTheirWay /\ [Next]_vars => RecordsOnTheirWay' BY RecordsKept
<1>3. ServedBeforeEmit /\ RecordsOnTheirWay => GoldAgrees
  BY DEF ServedBeforeEmit, RecordsOnTheirWay, GoldAgrees
<1>4. PipelineInvariant => ServedBeforeEmit BY DEF PipelineInvariant
<1> QED BY <1>1, <1>2, <1>3, <1>4, PipelineTypes, RunsInvariantHolds, PTL DEF Spec

-----------------------------------------------------------------------------
(***************************************************************************)
(* The pipeline implements CuratedOnce                                     *)
(***************************************************************************)

(* Nothing has landed at first. *)
LEMMA PromiseInit == Init => Promise!Init
<1> SUFFICES ASSUME Init PROVE Promise!Init OBVIOUS
<1>1. Published \subseteq Rows BY PipelineAssumption
<1>2. Landed = {} /\ Passed = {} BY <1>1 DEF Init, Landed, Passed
<1>3. Succeeded = {} /\ online = {} BY DEF Init, Succeeded
<1>4. curated = [row \in Promise!Rows |-> NoRun] BY DEF Init, Promise!Rows, Rows, Streams
<1>5. training = [e \in Entities |-> NoRun] BY DEF Init
<1> QED BY <1>2, <1>3, <1>4, <1>5 DEF Promise!Init

(* A row lands, or is not there for the readers yet. *)
LEMMA LandingPromised ==
    ASSUME TypeOK, NEW row \in Rows, BeginInsert(row) \/ CommitInsert(row)
    PROVE  Promise!Land \/ UNCHANGED Promise!tables
<1>1. /\ UNCHANGED <<curated, training, online, watermark, Succeeded>>
      /\ inserted \in [Rows -> {"no", "open", "visible"}] /\ ingested_at \in [Rows -> Nat]
      /\ Published \subseteq Rows
  BY PipelineAssumption DEF BeginInsert, CommitInsert, tableVars, lakeVars, Succeeded, TypeOK
<1>2. /\ Landed' = Landed \cup (Landed' \cap {row})
      /\ \A x \in Landed : x # row /\ ingested_at'[x] = ingested_at[x]
  BY <1>1 DEF BeginInsert, CommitInsert, Landed
<1>3. Passed' = Passed
  <2>1. CASE BeginInsert(row)
    <3>1. Landed' = Landed /\ late' = late BY <1>1, <2>1 DEF BeginInsert, Landed
    <3> QED BY <1>1, <1>2, <3>1 DEF Passed
  <2>2. CASE CommitInsert(row)
    <3>1. \A x \in Landed : x \in late' <=> x \in late
      BY <1>2, <2>2 DEF CommitInsert
    <3>2. row \in Landed' => row \in late' \/ ~(ingested_at'[row] <= watermark'[row[1]])
      BY <1>1, <2>2 DEF CommitInsert
    <3> QED BY <1>1, <1>2, <3>1, <3>2 DEF Passed
  <2> QED BY <2>1, <2>2
<1>4. Landed' \cap {row} \in SUBSET Promise!Rows BY DEF Promise!Rows, Rows, Streams
<1> QED BY <1>1, <1>2, <1>3, <1>4 DEF Promise!Land

(* Only the last task of a run changes which runs are recorded as a success. *)
LEMMA SuccessMoves ==
    ASSUME TypeOK, ServedBeforeEmit, NEW r \in Runs, OwnStep(r)
    PROVE  /\ task[r] # "emit" => r \notin Succeeded /\ Succeeded' = Succeeded
           /\ Succeeded' \in {Succeeded, Succeeded \cup {r}, Succeeded \ {r}}
<1>1. \A q \in Runs \ {r} : recorded'[q] = recorded[q]
  BY DEF TypeOK, OwnStep, Moved
<1>2. task[r] # "emit" => recorded[r] # "success" /\ recorded'[r] # "success"
  BY DEF OwnStep, ServedBeforeEmit, Active, Tasks
<1> QED BY <1>1, <1>2 DEF Succeeded

(* The transaction of a run moves its rows once and passes by nothing else. *)
LEMMA CuratingPromised ==
    ASSUME Inductive, NothingSkipped', NEW r \in Runs, OwnStep(r), task[r] = "curate"
    PROVE  Promise!Curate(r) \/ UNCHANGED Promise!tables
<1>1. /\ UNCHANGED <<Landed, late, ingested_at, training, online, Succeeded>> /\ r \notin Succeeded
  BY SuccessMoves DEF Inductive, PipelineInvariant, OwnStep, landingVars, Landed
<1>2. CASE UNCHANGED <<curated, watermark>>
  BY <1>1, <1>2 DEF Promise!tables, Passed
<1>3. CASE Curates(r)
  <2>1. /\ curated \in [Rows -> Runs \cup {NoRun}] /\ Published \subseteq Rows
        /\ TypeOK /\ StagedLanded /\ StagedValid
    BY PipelineAssumption DEF Inductive, TypeOK
  <2>2. staged[r] \in SUBSET (Landed \ Invalid)
    BY <2>1 DEF StagedLanded, StagedValid
  <2>3. curated' = Promise!Owned(curated, staged[r], r)
    BY <1>3, <2>1 DEF Curates, CuratedBy, Promise!Owned
  <2>4. \A s \in Streams : watermark'[s] >= watermark[s] BY <1>3, <2>1, CuratingMoves
  <2>5. Passed' = Passed \cup Passed'
    <3>1. \A row \in Landed : /\ row[1] \in Streams /\ ingested_at[row] \in Nat
                             /\ watermark[row[1]] \in Nat
      BY <2>1, RowParts DEF Landed, TypeOK
    <3>2. \A s \in Streams : watermark'[s] \in Nat BY <1>3, <2>1, CuratingMoves
    <3>3. \A row \in Landed :
              ingested_at[row] <= watermark[row[1]] => ingested_at[row] <= watermark'[row[1]]
      BY <2>4, <3>1, <3>2
    <3> QED BY <1>1, <3>3 DEF Passed
  <2>6. Passed' \in SUBSET {row \in Landed : curated'[row] # NoRun \/ row \in Invalid}
    BY <1>1 DEF Passed, Landed, NothingSkipped, Processed
  <2> QED BY <1>1, <2>2, <2>3, <2>5, <2>6 DEF Promise!Curate
<1> QED BY <1>2, <1>3 DEF OwnStep

(* The records of a run are of pairs that are there, and none of them is another run's. *)
LEMMA JoiningPromised ==
    ASSUME Inductive, NEW r \in Runs, Step(r), task[r] = "upsert"
    PROVE  Promise!Join(r) \/ UNCHANGED Promise!tables
<1>1. TypeOK /\ JoinsWhole /\ OwnStep(r) BY StepMoves DEF Inductive
<1>2. /\ UNCHANGED <<Landed, Passed, curated, online, Succeeded>> /\ r \notin Succeeded
  BY <1>1, SuccessMoves
  DEF Inductive, PipelineInvariant, OwnStep, Curates, landingVars, Landed, Passed
<1>3. CASE UNCHANGED training BY <1>2, <1>3 DEF Promise!tables
<1>4. CASE UpsertTrainingRecords(r)
  <2>1. training' = Promise!Owned(training, pairs[r], r)
    BY <1>1, <1>4 DEF UpsertTrainingRecords, Promise!Owned, TypeOK
  <2>2. pairs[r] \in SUBSET Promise!Pairs
    <3>1. Whole \subseteq Promise!Pairs BY DEF Whole, Promise!Pairs, Promise!Halves
    <3> QED BY <1>1, <3>1 DEF JoinsWhole
  <2> QED BY <1>2, <2>1, <2>2 DEF Promise!Join
<1>5. CASE Fail(r) BY <1>3, <1>5 DEF Fail
<1> QED BY <1>1, <1>4, <1>5, StepAt

(* What is materialized is curated. *)
LEMMA ServingPromised ==
    ASSUME Inductive, NEW r \in Runs, Step(r), task[r] = "store"
    PROVE  Promise!Serve \/ UNCHANGED Promise!tables
<1>1. TypeOK /\ OwnStep(r) BY StepMoves DEF Inductive
<1>2. UNCHANGED <<Landed, Passed, curated, training, Succeeded>>
  BY <1>1, SuccessMoves
  DEF Inductive, PipelineInvariant, OwnStep, Curates, landingVars, Landed, Passed
<1>3. ASSUME NEW served \in SUBSET Window(r), online' = online \cup served PROVE Promise!Serve
  <2>1. served \in SUBSET {e \in Entities : curated[<<"features", e>>] # NoRun}
    BY <1>3 DEF Window
  <2> QED BY <1>2, <1>3, <2>1 DEF Promise!Serve
<1>4. CASE UpdateFeatureStore(r) BY <1>3, <1>4 DEF UpdateFeatureStore
<1>5. CASE FeatureStoreFails(r)
  <2>1. PICK e \in Window(r) :
            online' = online \cup {x \in Window(r) : EventTime[x] <= EventTime[e]}
    BY <1>5 DEF FeatureStoreFails
  <2> QED BY <1>3, <2>1
<1>6. CASE Fail(r) BY <1>2, <1>6 DEF Fail, lakeVars, Promise!tables
<1> QED BY <1>1, <1>4, <1>5, <1>6, StepAt

(* A success is recorded behind the materialization and the join. *)
LEMMA EndingPromised ==
    ASSUME Inductive, NEW r \in Runs, OwnStep(r), task[r] = "emit"
    PROVE  Promise!Succeed(r) \/ Promise!Revoke(r) \/ UNCHANGED Promise!tables
<1>1. TypeOK /\ ServedBeforeEmit /\ JoinComplete BY DEF Inductive, PipelineInvariant
<1>2. UNCHANGED <<Landed, Passed, curated, training, online>>
  BY DEF OwnStep, Curates, landingVars, Landed, Passed
<1>3. Succeeded' \in {Succeeded, Succeeded \cup {r}, Succeeded \ {r}} BY <1>1, SuccessMoves
<1>4. CASE Succeeded' = Succeeded BY <1>2, <1>4 DEF Promise!tables
<1>5. CASE Succeeded' = Succeeded \ {r} BY <1>2, <1>5 DEF Promise!Revoke
<1>6. CASE Succeeded' = Succeeded \cup {r} /\ r \notin Succeeded
  <2>1. \A e \in Entities : curated[<<"features", e>>] = r => e \in online
    BY <1>1 DEF ServedBeforeEmit, RunFeatures
  <2>2. \A q \in Succeeded', e \in Entities : ~OnItsWay(q, e)
    BY <1>1, <1>6 DEF Succeeded, OnItsWay, ServedBeforeEmit
  <2>3. \A e \in Promise!Pairs : (\A row \in Promise!Halves(e) : curated[row] \in Succeeded')
                                      => training[e] # NoRun
    BY <1>1, <2>2 DEF Promise!Pairs, Promise!Halves, JoinComplete
  <2> QED BY <1>2, <1>6, <2>1, <2>3 DEF Promise!Succeed
<1> QED BY <1>3, <1>4, <1>5, <1>6

(* Every step is one of the promise or is not seen by the readers. *)
LEMMA PromiseNext ==
    ASSUME Inductive, Inductive', [Next]_vars
    PROVE  [Promise!Next]_(Promise!tables)
<1>1. TypeOK /\ ServedBeforeEmit /\ NothingSkipped' BY DEF Inductive, PipelineInvariant
<1>2. CASE \E row \in Rows : BeginInsert(row) \/ CommitInsert(row)
  BY <1>1, <1>2, LandingPromised DEF Promise!Next
<1>3. ASSUME NEW r \in Runs, Trigger(r) PROVE UNCHANGED Promise!tables
  BY <1>3 DEF Trigger, landingVars, tableVars, lakeVars, Promise!tables, Landed, Passed, Succeeded
<1>4. ASSUME NEW r \in Runs, Step(r) PROVE [Promise!Next]_(Promise!tables)
  <2>1. OwnStep(r) BY <1>1, <1>4, StepMoves
  <2>2. CASE task[r] = "curate" BY <1>1, <2>1, <2>2, CuratingPromised DEF Promise!Next
  <2>3. CASE task[r] = "upsert" BY <1>4, <2>3, JoiningPromised DEF Promise!Next
  <2>4. CASE task[r] = "store" BY <1>4, <2>4, ServingPromised DEF Promise!Next
  <2>5. CASE task[r] = "emit" BY <2>1, <2>5, EndingPromised DEF Promise!Next
  <2>6. CASE task[r] \notin {"curate", "upsert", "store", "emit"}
    <3>1. UNCHANGED <<Landed, Passed, curated, training, online>>
      BY <2>1, <2>6 DEF OwnStep, Curates, landingVars, Landed, Passed
    <3>2. UNCHANGED Succeeded BY <1>1, <2>1, <2>6, SuccessMoves
    <3> QED BY <3>1, <3>2 DEF Promise!tables
  <2> QED BY <2>2, <2>3, <2>4, <2>5, <2>6
<1>5. CASE UNCHANGED vars
  BY <1>5 DEF vars, landingVars, tableVars, lakeVars, Promise!tables, Landed, Passed, Succeeded
<1> QED BY <1>2, <1>3, <1>4, <1>5, NextCases

(***************************************************************************)
(* Whatever runs overlap, fail and are retried, the tables, the online     *)
(* store and the recorded successes change as CuratedOnce promises.        *)
(***************************************************************************)
THEOREM RunsCurateOnce == Spec => ImplementsCuratedOnce
<1>1. Inductive /\ Inductive' /\ [Next]_vars => [Promise!Next]_(Promise!tables)
  BY PromiseNext
<1> QED
  BY <1>1, PromiseInit, InductiveHolds, PTL DEF Spec, ImplementsCuratedOnce, Promise!Spec
=============================================================================
