---------------------------- MODULE TrainingData ----------------------------
(***************************************************************************)
(* The data set of a training run (amel_training/dataset.py, provenance.py *)
(* and the logging of train.py and steps.py): labels first, their features *)
(* in a later query, and the as_of it is logged under later still, while   *)
(* the DAG runs add to both tables.                                        *)
(*                                                                         *)
(* A frame is the set of entities in it: an entity has one label row, so   *)
(* the fingerprint over (entity_id, event_timestamp, target) tells frames  *)
(* apart exactly when they have different entities.                        *)
(***************************************************************************)
EXTENDS CuratedTables

CONSTANTS
    Trainings,      \* training runs
    MaxRows,        \* max_rows; 0: every labelled row
    Unset           \* as_of is not configured

ASSUME TrainingAssumption == MaxRows \in Nat /\ Unset \notin Nat

VARIABLES
    step,           \* where a training run is
    as_of,          \* its configured as_of
    entities,       \* load_entity_df's result
    frame,          \* load_training_frame's result
    logged,         \* the as_of among its logged parameters
    basis           \* history: the labels and the features its queries found in the tables

trainingVars == <<step, as_of, entities, frame, logged, basis>>

TrainingInit ==
    /\ step = [t \in Trainings |-> "labels"]
    /\ as_of = [t \in Trainings |-> Unset]
    /\ entities = [t \in Trainings |-> {}]
    /\ frame = [t \in Trainings |-> {}]
    /\ logged = [t \in Trainings |-> Unset]
    /\ basis = [t \in Trainings |-> [labels |-> {}, features |-> {}]]

(* WHERE label_timestamp <= :as_of, when there is one *)
UpTo(pin) == IF pin = Unset THEN Labelled ELSE {e \in Labelled : LabelTime[e] <= pin}

(* ORDER BY label_timestamp DESC LIMIT :n; among equal timestamps Postgres chooses. *)
Newest(rows, chosen) ==
    /\ chosen \subseteq rows
    /\ IF MaxRows = 0 \/ Cardinality(rows) <= MaxRows
       THEN chosen = rows
       ELSE /\ Cardinality(chosen) = MaxRows
            /\ \A e \in chosen, f \in rows \ chosen : LabelTime[f] <= LabelTime[e]

(* TRAINING_AS_OF is unset or a time up to now; a frame without rows is an error. *)
LoadEntities(t) ==
    /\ step[t] = "labels"
    /\ \E pin \in {Unset} \cup {i \in Instants : i <= clock} : \E chosen \in SUBSET UpTo(pin) :
           /\ Newest(UpTo(pin), chosen)
           /\ as_of' = [as_of EXCEPT ![t] = pin]
           /\ entities' = [entities EXCEPT ![t] = chosen]
           /\ step' = [step EXCEPT ![t] = IF chosen = {} THEN "failed" ELSE "features"]
    /\ basis' = [basis EXCEPT ![t].labels = Labelled]
    /\ UNCHANGED <<frame, logged>>

(* The newest feature row at the label's timestamp, rows without one dropped. *)
LoadFeatures(t) ==
    /\ step[t] = "features"
    /\ frame' = [frame EXCEPT ![t] =
                    {e \in entities[t] \cap Featured : FeatureTime[e] <= LabelTime[e]}]
    /\ basis' = [basis EXCEPT ![t].features = Featured]
    /\ step' = [step EXCEPT ![t] = "log"]
    /\ UNCHANGED <<as_of, entities, logged>>

(* Mutant: the time of logging is logged, whatever as_of was configured. *)
LogRunNow(t) ==
    /\ step[t] = "log"
    /\ logged' = [logged EXCEPT ![t] = clock]
    /\ step' = [step EXCEPT ![t] = "logged"]
    /\ UNCHANGED <<as_of, entities, frame, basis>>

LogRun(t) ==
    /\ step[t] = "log"
    /\ logged' = [logged EXCEPT ![t] = IF as_of[t] = Unset THEN clock ELSE as_of[t]]
    /\ step' = [step EXCEPT ![t] = "logged"]
    /\ UNCHANGED <<as_of, entities, frame, basis>>

TrainingNext == \E t \in Trainings :
                    LoadEntities(t) \/ LoadFeatures(t) \/ LogRun(t)

TrainingTypeOK ==
    /\ step \in [Trainings -> {"labels", "features", "log", "logged", "failed"}]
    /\ as_of \in [Trainings -> Nat \cup {Unset}]
    /\ entities \in [Trainings -> SUBSET Entities]
    /\ frame \in [Trainings -> SUBSET Entities]
    /\ logged \in [Trainings -> Nat \cup {Unset}]
    /\ basis \in [Trainings -> [labels : SUBSET Entities, features : SUBSET Entities]]

-----------------------------------------------------------------------------
(* No two labels share a timestamp where the limit could cut between them. *)
NoTies == MaxRows = 0 \/ \A e, f \in Entities : LabelTime[e] = LabelTime[f] => e = f

(* The training query over given tables: as_of, the limit, the point-in-time join. *)
FrameOf(found, pin) ==
    {e \in found.labels \cap found.features :
        /\ LabelTime[e] <= pin /\ FeatureTime[e] <= LabelTime[e]
        /\ \/ MaxRows = 0
           \/ Cardinality({f \in found.labels : LabelTime[e] < LabelTime[f]
                                                /\ LabelTime[f] <= pin}) < MaxRows}

(***************************************************************************)
(* What a pin can promise: the as_of a run is logged under names its frame *)
(* among the rows that were there.  Asking for that as_of over the tables  *)
(* as the run's queries found them gives the run's frame, whether it was   *)
(* configured or is the time of logging, with the limit or without, and    *)
(* whatever was curated between the two queries and before the logging.    *)
(***************************************************************************)
PinNamesFrame == \A t \in Trainings : step[t] = "logged" /\ NoTies
                                          => frame[t] = FrameOf(basis[t], logged[t])
=============================================================================
