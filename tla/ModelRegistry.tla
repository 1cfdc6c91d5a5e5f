---------------------------- MODULE ModelRegistry ----------------------------
(***************************************************************************)
(* The model registry: training runs that register versions and move the   *)
(* candidate alias (train.py, or steps.py in the order of pipeline.py),    *)
(* and promotions that move the champion alias and write the audit table   *)
(* (promote.py).                                                           *)
(*                                                                         *)
(* A training attempt is one MLflow run and carries its identity; a        *)
(* version is an index of `versions`, which names the run it came from.    *)
(* Every remote call that another process can get between is a step.       *)
(* MLflow and Postgres are external.  Scores are integers; what the        *)
(* metrics are worth is the caller's.                                      *)
(***************************************************************************)
EXTENDS Integers, Sequences

CONSTANTS
    Trainers,       \* training attempts
    Pipelines,      \* those that are runs of the pipeline; the others are `amel-train train`
    Promoters,      \* calls of `amel-train promote`
    Scores,         \* [accuracy, auc]: what a run may reach on the test split
    MinAccuracy,    \* TrainingConfig.promotion_min_test_accuracy
    MinAuc,         \* TrainingConfig.promotion_min_test_roc_auc
    MaxRegression,  \* TrainingConfig.promotion_max_regression
    FaultKinds,     \* the kinds of fault that may happen
    MaxFaults       \* bound: how many of them may happen, all kinds together

ASSUME RegistryAssumption ==
    /\ Pipelines \subseteq Trainers
    /\ Scores \subseteq [accuracy : Nat, auc : Nat] /\ Scores # {}
    /\ MinAccuracy \in Nat /\ MinAuc \in Nat /\ MaxRegression \in Nat
    /\ FaultKinds \subseteq {"train", "retry", "read", "promote", "answer"}
    /\ MaxFaults \in Nat

None == 0   \* an alias that is not set

VARIABLES
  (* training *)
    stage,          \* where a training attempt is
    sound,          \* whether its data set would pass validate_training_dataset
    score,          \* what its model reaches on the test split
  (* MLflow *)
    measured,       \* runs whose metrics are logged
    versions,       \* the registered model's versions: the run each came from
    candidate,      \* the candidate alias
    champion,       \* the champion alias
    described,      \* <<version, run>>: the version carries the tags of that run's training
    superseded,     \* versions that carry a superseded_by tag
  (* promotions *)
    pc,             \* where a call of promote is
    target,         \* the version it is to promote
    forced,         \* --force
    previous,       \* the champion it has read
    compared,       \* whether it has read that champion's metrics too
  (* Postgres *)
    promotions,     \* ml.model_promotions, in order of id
  (* history *)
    flips,          \* what happened to the champion alias, in order
    overlap,        \* two promotions were under way at a time
    faults          \* faults so far

trainVars == <<stage, sound, score>>
modelVars == <<measured, versions, candidate, described>>
callVars == <<target, forced, previous, compared>>
promoteVars == <<champion, superseded, pc, callVars, promotions, flips, overlap>>
vars == <<trainVars, modelVars, promoteVars, faults>>

Fault(kind) == kind \in FaultKinds /\ faults < MaxFaults /\ faults' = faults + 1

Registered == 1 .. Len(versions)

-----------------------------------------------------------------------------
(***************************************************************************)
(* Training.                                                               *)
(***************************************************************************)
LoadDataset(t) ==
    /\ t \in Pipelines /\ stage[t] = "idle"
    /\ stage' = [stage EXCEPT ![t] = "loaded"]
    /\ UNCHANGED <<sound, score, modelVars, promoteVars, faults>>

(* Raises, and with it the pipeline run fails, when the data set has a problem. *)
ValidateDataset(t) ==
    /\ stage[t] = "loaded"
    /\ stage' = [stage EXCEPT ![t] = IF sound[t] THEN "validated" ELSE "failed"]
    /\ UNCHANGED <<sound, score, modelVars, promoteVars, faults>>

TrainsAt(t, before) ==
    /\ stage[t] \in before
    /\ stage' = [stage EXCEPT ![t] = "evaluated"]
    /\ UNCHANGED <<sound, score, modelVars, promoteVars, faults>>

(* split_dataset, train_model and evaluate_model: files handed from one to the next, *)
(* which nobody else sees.                                                            *)
TrainAndEvaluate(t) == TrainsAt(t, {"validated"})

StartRun(t) ==
    /\ stage[t] = (IF t \in Pipelines THEN "evaluated" ELSE "idle")
    /\ stage' = [stage EXCEPT ![t] = "running"]
    /\ UNCHANGED <<sound, score, modelVars, promoteVars, faults>>

LogMetrics(t) ==
    /\ stage[t] = "running"
    /\ measured' = measured \cup {t}
    /\ stage' = [stage EXCEPT ![t] = "measured"]
    /\ UNCHANGED <<sound, score, versions, candidate, described, promoteVars, faults>>

(* log_model registers a version; the client repeats a request whose answer was lost, *)
(* which leaves the run with two.                                                      *)
RegistersAt(t, before) ==
    /\ stage[t] = before
    /\ \/ versions' = Append(versions, t) /\ UNCHANGED faults
       \/ versions' = Append(Append(versions, t), t) /\ Fault("retry")
    /\ stage' = [stage EXCEPT ![t] = "registered"]
    /\ UNCHANGED <<sound, score, measured, candidate, described, promoteVars>>

(* Mutant: the model is registered before its metrics are logged. *)
RegisterUnmeasured(t) == RegistersAt(t, "running")

RegisterModel(t) == RegistersAt(t, "measured")

OwnVersions(t) == {v \in Registered : versions[v] = t}

(* Mutant: the newest version of the model, whichever run it came from. *)
NewestVersion(t) == Len(versions)

(* _model_version_for_run: the newest version of this run. *)
VersionForRun(t) == CHOOSE v \in OwnVersions(t) : \A w \in OwnVersions(t) : w <= v

AliasCandidate(t) ==
    /\ stage[t] = "registered"
    /\ candidate' = VersionForRun(t)
    /\ stage' = [stage EXCEPT ![t] = "aliased"]
    /\ UNCHANGED <<sound, score, measured, versions, described, promoteVars, faults>>

(* The five tags are one step: nobody else writes these keys. *)
TagVersion(t) ==
    /\ stage[t] = "aliased"
    /\ described' = described \cup {<<VersionForRun(t), t>>}
    /\ stage' = [stage EXCEPT ![t] = "done"]
    /\ UNCHANGED <<sound, score, measured, versions, candidate, promoteVars, faults>>

(* An exception or a kill, anywhere. *)
TrainingFails(t) ==
    /\ stage[t] \notin {"idle", "done", "failed"}
    /\ Fault("train")
    /\ stage' = [stage EXCEPT ![t] = "failed"]
    /\ UNCHANGED <<sound, score, modelVars, promoteVars>>

-----------------------------------------------------------------------------
(***************************************************************************)
(* Promotion.                                                              *)
(***************************************************************************)
Active(p) == pc[p] \in {"chosen", "read", "flipped", "tagged"}

(* The arguments: --force, and --version or else what the candidate alias points at. *)
ChooseVersion(p) ==
    /\ pc[p] = "idle"
    /\ \E v \in Registered, f \in BOOLEAN :
          /\ target' = [target EXCEPT ![p] = v]
          /\ forced' = [forced EXCEPT ![p] = f]
    /\ pc' = [pc EXCEPT ![p] = "chosen"]
    /\ overlap' = (overlap \/ \E q \in Promoters : Active(q))
    /\ UNCHANGED <<trainVars, modelVars, champion, superseded, previous, compared,
                   promotions, flips, faults>>

(* The champion's version and then its metrics.  An MlflowException of either call *)
(* means "no champion yet" to the code, also when the registry did not answer.     *)
ReadChampion(p) ==
    /\ pc[p] = "chosen"
    /\ \/ /\ previous' = [previous EXCEPT ![p] = champion]
          /\ compared' = [compared EXCEPT ![p] = champion # None]
          /\ UNCHANGED faults
       \/ /\ Fault("read")
          /\ \E seen \in {None, champion} : previous' = [previous EXCEPT ![p] = seen]
          /\ compared' = [compared EXCEPT ![p] = FALSE]
    /\ pc' = [pc EXCEPT ![p] = "read"]
    /\ UNCHANGED <<trainVars, modelVars, champion, superseded, target, forced,
                   promotions, flips, overlap>>

Accuracy(v) == IF versions[v] \in measured THEN score[versions[v]].accuracy ELSE 0
Cleared(v) == /\ versions[v] \in measured
              /\ score[versions[v]].accuracy >= MinAccuracy
              /\ score[versions[v]].auc >= MinAuc
NotWorse(v, w) == Accuracy(v) >= Accuracy(w) - MaxRegression

(* Mutant: a candidate has to beat the champion by the tolerance, or the other way round. *)
ApprovedSwapped(p) == /\ Cleared(target[p])
                      /\ compared[p] => NotWorse(previous[p], target[p])

(* evaluate_promotion *)
Approved(p) == /\ Cleared(target[p])
               /\ compared[p] => NotWorse(target[p], previous[p])

Reject(p) ==
    /\ pc[p] = "read" /\ ~Approved(p) /\ ~forced[p]
    /\ pc' = [pc EXCEPT ![p] = "rejected"]
    /\ UNCHANGED <<trainVars, modelVars, champion, superseded, callVars, promotions,
                   flips, overlap, faults>>

Flip(p) == [by |-> p, version |-> target[p], previous |-> previous[p], replaced |-> champion,
            compared |-> compared[p], forced |-> forced[p]]

(* set_registered_model_alias; the call may raise although it took effect. *)
FlipAlias(p) ==
    /\ pc[p] = "read"
    /\ Approved(p) \/ forced[p]
    /\ champion' = target[p]
    /\ flips' = Append(flips, Flip(p))
    /\ \/ pc' = [pc EXCEPT ![p] = "flipped"] /\ UNCHANGED faults
       \/ pc' = [pc EXCEPT ![p] = "failed"] /\ Fault("answer")
    /\ UNCHANGED <<trainVars, modelVars, superseded, callVars, promotions, overlap>>

(* Mutant: a version that is champion already needs no record. *)
TagPromotionSkipsRecord(p) ==
    /\ pc[p] = "flipped"
    /\ superseded' = superseded \cup ({previous[p]} \ {None, target[p]})
    /\ pc' = [pc EXCEPT ![p] = IF previous[p] = target[p] THEN "done" ELSE "tagged"]
    /\ UNCHANGED <<trainVars, modelVars, champion, callVars, promotions, flips, overlap,
                   faults>>

(* Mutant: the champion to mark is looked up when it is already the new one. *)
TagPromotionRereads(p) ==
    /\ pc[p] = "flipped"
    /\ superseded' = superseded \cup ({champion} \ {None, target[p]})
    /\ pc' = [pc EXCEPT ![p] = "tagged"]
    /\ UNCHANGED <<trainVars, modelVars, champion, callVars, promotions, flips, overlap,
                   faults>>

(* promoted_by and promotion_reason on the new champion, superseded_by on the old one. *)
TagPromotion(p) ==
    /\ pc[p] = "flipped"
    /\ superseded' = superseded \cup ({previous[p]} \ {None, target[p]})
    /\ pc' = [pc EXCEPT ![p] = "tagged"]
    /\ UNCHANGED <<trainVars, modelVars, champion, callVars, promotions, flips, overlap,
                   faults>>

(* Mutant: the previous champion is taken from the alias when the row is written. *)
RowRereads(p) == [by |-> p, version |-> target[p], previous |-> champion]

Row(p) == [by |-> p, version |-> target[p], previous |-> previous[p]]

(* The audit row.  The commit may raise although it took effect. *)
RecordPromotion(p) ==
    /\ pc[p] = "tagged"
    /\ promotions' = Append(promotions, Row(p))
    /\ \/ pc' = [pc EXCEPT ![p] = "done"] /\ UNCHANGED faults
       \/ pc' = [pc EXCEPT ![p] = "failed"] /\ Fault("answer")
    /\ UNCHANGED <<trainVars, modelVars, champion, superseded, callVars, flips, overlap>>

(* An exception out of promote, or a kill, anywhere. *)
PromotionFails(p) ==
    /\ Active(p)
    /\ Fault("promote")
    /\ pc' = [pc EXCEPT ![p] = "failed"]
    /\ UNCHANGED <<trainVars, modelVars, champion, superseded, callVars, promotions,
                   flips, overlap>>

-----------------------------------------------------------------------------
Init ==
    /\ stage = [t \in Trainers |-> "idle"]
    /\ sound \in {s \in [Trainers -> BOOLEAN] : \A t \in Trainers \ Pipelines : s[t]}
    /\ score \in [Trainers -> Scores]
    /\ measured = {} /\ versions = <<>> /\ candidate = None /\ champion = None
    /\ described = {} /\ superseded = {}
    /\ pc = [p \in Promoters |-> "idle"]
    /\ target = [p \in Promoters |-> None]
    /\ forced = [p \in Promoters |-> FALSE]
    /\ previous = [p \in Promoters |-> None]
    /\ compared = [p \in Promoters |-> FALSE]
    /\ promotions = <<>>
    /\ flips = <<>> /\ overlap = FALSE /\ faults = 0

Train(t) == \/ LoadDataset(t) \/ ValidateDataset(t) \/ TrainAndEvaluate(t)
            \/ StartRun(t) \/ LogMetrics(t) \/ RegisterModel(t) \/ AliasCandidate(t)
            \/ TagVersion(t) \/ TrainingFails(t)

Promote(p) == \/ ChooseVersion(p) \/ ReadChampion(p) \/ Reject(p) \/ FlipAlias(p)
              \/ TagPromotion(p) \/ RecordPromotion(p) \/ PromotionFails(p)

Next == (\E t \in Trainers : Train(t)) \/ (\E p \in Promoters : Promote(p))

Spec == Init /\ [][Next]_vars

-----------------------------------------------------------------------------
(***************************************************************************)
(* Properties                                                              *)
(***************************************************************************)
Aliased == Registered \cup {None}
Flipped == [by : Promoters, version : Registered, previous : Aliased, replaced : Aliased,
            compared : BOOLEAN, forced : BOOLEAN]
Recorded == [by : Promoters, version : Registered, previous : Aliased]

(* Every variable keeps its range; in particular the aliases name versions that exist. *)
TypeOK ==
    /\ stage \in [Trainers -> {"idle", "loaded", "validated", "evaluated", "running", "measured",
                              "registered", "aliased", "done", "failed"}]
    /\ sound \in [Trainers -> BOOLEAN]
    /\ score \in [Trainers -> Scores]
    /\ measured \in SUBSET Trainers
    /\ versions \in Seq(Trainers)
    /\ candidate \in Aliased /\ champion \in Aliased
    /\ described \in SUBSET (Registered \X Trainers)
    /\ superseded \in SUBSET Registered
    /\ pc \in [Promoters -> {"idle", "chosen", "read", "rejected", "flipped", "tagged", "done",
                            "failed"}]
    /\ target \in [Promoters -> Aliased]
    /\ \A p \in Promoters : Active(p) => target[p] # None
    /\ forced \in [Promoters -> BOOLEAN]
    /\ previous \in [Promoters -> Aliased]
    /\ compared \in [Promoters -> BOOLEAN]
    /\ \A p \in Promoters : compared[p] => previous[p] # None
    /\ promotions \in Seq(Recorded)
    /\ flips \in Seq(Flipped)
    /\ overlap \in BOOLEAN
    /\ faults \in 0 .. MaxFaults

(* What an alias points at can be judged: its run has logged its metrics, although       *)
(* logging, registering and aliasing are three calls and several trainings interleave.   *)
AliasesMeasured ==
    \A v \in {candidate, champion} \ {None} : versions[v] \in measured

(* The pipeline's validation gate: split_dataset takes nothing from the validation step, *)
(* and still no version made by a pipeline run comes from a data set with problems.      *)
PipelineGateHolds ==
    \A v \in Registered : versions[v] \in Pipelines => sound[versions[v]]

(* What serving and promotion may pick up qualifies for it: it was measured, and a       *)
(* pipeline run has not made it from a data set that validation rejects.                 *)
CandidatesQualify == AliasesMeasured /\ PipelineGateHolds

(* The provenance tags of a version (git_sha, dataset_fingerprint, test_accuracy) are    *)
(* those of the run that made it, whatever other trainings register meanwhile, and a     *)
(* training that completed has described its version.                                    *)
ProvenanceTrue ==
    /\ \A d \in described : versions[d[1]] = d[2]
    /\ \A t \in Trainers : stage[t] = "done" => \E d \in described : d[2] = t

(* No unforced promotion makes a version champion that misses a floor, or that is worse  *)
(* by more than the tolerance than the champion it replaces, provided the promotion read *)
(* that champion: other promotions may have moved the alias since.                       *)
GateHolds ==
    \A i \in 1 .. Len(flips) :
        LET f == flips[i]
        IN ~f.forced => /\ Cleared(f.version)
                        /\ f.compared /\ f.previous = f.replaced
                              => NotWorse(f.version, f.replaced)

RowOf(f) == [by |-> f.by, version |-> f.version, previous |-> f.previous]

(* The audit table and the alias tell one story: each change of the champion is in       *)
(* ml.model_promotions unless its promotion is still at it or was interrupted, and each  *)
(* row stands for a change that was made.                                                *)
FlipsAccounted ==
    /\ \A i \in 1 .. Len(flips) :
          \/ \E j \in 1 .. Len(promotions) : promotions[j] = RowOf(flips[i])
          \/ pc[flips[i].by] \in {"flipped", "tagged", "failed"}
    /\ \A j \in 1 .. Len(promotions) :
          \E i \in 1 .. Len(flips) : promotions[j] = RowOf(flips[i])

(* The single operator of promote's docstring: one promotion at a time, no fault, and    *)
(* none under way.                                                                       *)
Quiet == ~overlap /\ faults = 0 /\ \A p \in Promoters : ~Active(p)

(* For a single operator the table is the history of the alias: each row continues the   *)
(* one before it, and the last one names the champion.                                   *)
LedgerIsHistory ==
    Quiet => LET n == Len(promotions)
             IN /\ champion = (IF n = 0 THEN None ELSE promotions[n].version)
                /\ \A i \in 1 .. n :
                      promotions[i].previous = (IF i = 1 THEN None ELSE promotions[i - 1].version)

(* For a single operator every former champion is marked as superseded in MLflow.        *)
FormerChampionsMarked ==
    Quiet => {flips[i].version : i \in 1 .. Len(flips)} \ {champion} \subseteq superseded

(* The rule of the promotion criteria (config.py), without the proviso of GateHolds: no  *)
(* single operator makes the champion worse by more than the tolerance unless forced.    *)
RegressionRefused ==
    ~overlap => \A i \in 1 .. Len(flips) :
        ~flips[i].forced /\ flips[i].replaced # None
            => NotWorse(flips[i].version, flips[i].replaced)

=============================================================================
