--------------------------- MODULE CuratedTables ---------------------------
(***************************************************************************)
(* curated.higgs_features and curated.higgs_labels as the feature plane    *)
(* uses them: the online side (FeatureStore) and the training runs         *)
(* (TrainingData) read them while the DAG runs add to them.  BatchPipeline *)
(* has the runs themselves; here a run is the rows it curates.             *)
(*                                                                         *)
(* A row is named by its entity: event ids are feat-<entity> and           *)
(* label-<entity>, and the tables keep the first row of an event id.       *)
(* Times are microseconds, the unit of the columns and of the pad.         *)
(***************************************************************************)
EXTENDS Integers, FiniteSets

CONSTANTS
    Entities,
    FeatureTime,    \* curated.higgs_features.event_timestamp
    LabelTime,      \* curated.higgs_labels.label_timestamp
    Runs,           \* the DAG runs that are still to curate rows
    Earlier,        \* entities whose rows earlier runs have curated
    Start,          \* the time at which the model begins
    Instants        \* bound: the times at which something happens

ASSUME TablesAssumption ==
    /\ IsFiniteSet(Entities)
    /\ FeatureTime \in [Entities -> Nat]
    /\ LabelTime \in [Entities -> Nat]
    /\ Earlier \subseteq Entities
    /\ Instants \subseteq Nat
    /\ Start \in Instants
    /\ \A e \in Earlier : FeatureTime[e] <= Start /\ LabelTime[e] <= Start

VARIABLES
    clock,
    featuresOf,     \* entities of the feature rows a run has curated (source_run_id)
    labelsOf        \* entities of the label rows a run has curated

tableVars == <<clock, featuresOf, labelsOf>>

(* The rows of the two tables. *)
Featured == Earlier \cup UNION {featuresOf[r] : r \in Runs}
Labelled == Earlier \cup UNION {labelsOf[r] : r \in Runs}

TablesInit == /\ clock = Start
              /\ featuresOf = [r \in Runs |-> {}]
              /\ labelsOf = [r \in Runs |-> {}]

Tick == /\ \E t \in Instants : clock < t /\ clock' = t
        /\ UNCHANGED <<featuresOf, labelsOf>>

(***************************************************************************)
(* A run's upserts into both tables, one transaction.  ON CONFLICT DO      *)
(* NOTHING leaves it the rows no other run has curated.  An event may be   *)
(* curated long after its timestamp: the ingestor or the pipeline was      *)
(* behind, or a replica of the ingestor held it.                           *)
(***************************************************************************)
Upsert(r, newFeatures, newLabels) ==
    /\ newFeatures \subseteq {e \in Entities \ Featured : FeatureTime[e] <= clock}
    /\ newLabels \subseteq {e \in Entities \ Labelled : LabelTime[e] <= clock}
    /\ featuresOf' = [featuresOf EXCEPT ![r] = @ \cup newFeatures]
    /\ labelsOf' = [labelsOf EXCEPT ![r] = @ \cup newLabels]
    /\ UNCHANGED clock

TablesTypeOK == /\ clock \in Nat
                /\ featuresOf \in [Runs -> SUBSET Entities]
                /\ labelsOf \in [Runs -> SUBSET Entities]
=============================================================================
