------------------------- MODULE FeaturePlaneProofs -------------------------
(***************************************************************************)
(* Proofs about FeaturePlane, for any tables, jobs, trainings and limit.   *)
(*                                                                         *)
(* Materialization goes on in the plane as it does alone, so that what     *)
(* FeatureStoreProofs shows holds beside any number of trainings.          *)
(*                                                                         *)
(* For the trainings: the rows of the newest labels are the rows with      *)
(* fewer than MaxRows later ones (NewestIsChosen).  That turns the limit   *)
(* into a condition on one row that no longer depends on the query, and    *)
(* with it the entities of a training are what its as_of names among the   *)
(* labels its query found (EntitiesNamed), from the first query to the     *)
(* logging.  An unset as_of is logged as a time no earlier than any of     *)
(* those labels, as labels are curated after their timestamp (LabelsPast). *)
(***************************************************************************)
EXTENDS FeaturePlane, FeatureStoreProofs

-----------------------------------------------------------------------------
(* Materialization in the plane *)

(* A step of the plane is a step of the store or leaves the store alone. *)
LEMMA PlaneStep == [PlaneNext]_planeVars => [StoreNext]_vars
BY DEF PlaneNext, planeVars

(* The plane's materialization is a behaviour of FeatureStore. *)
THEOREM PlaneRunsTheStore == PlaneSpec => Spec
<1>1. PlaneInit => Init
  BY DEF PlaneInit
<1>2. [PlaneNext]_planeVars => [StoreNext]_vars
  BY PlaneStep
<1> QED BY <1>1, <1>2, PTL DEF PlaneSpec, Spec

(* Trainings read the tables while the promises of materialization hold. *)
THEOREM PlaneServes ==
    PlaneSpec => []PrefixServed /\ []PlansAreChunked /\ ImplementsServedFeatures
BY PlaneRunsTheStore, PrefixIsServed, WindowsHoldAChunk, RefinesServedFeatures, PTL

-----------------------------------------------------------------------------
(* Types *)

(* Labelled entities are entities. *)
LEMMA LabelledTyped == ASSUME TypeOK PROVE Labelled \in SUBSET Entities
<1>1. \A r \in Runs : labelsOf[r] \subseteq Entities
  BY DEF TypeOK, TablesTypeOK
<1> QED BY <1>1, TablesAssumption DEF Labelled

(* The training variables have their types initially. *)
LEMMA TrainingTypesInit == PlaneInit => TrainingTypeOK
BY DEF PlaneInit, TrainingInit, TrainingTypeOK

(* Every action of the plane keeps the types of the training variables. *)
LEMMA TrainingTypesNext ==
  TypeOK /\ TrainingTypeOK /\ [PlaneNext]_planeVars => TrainingTypeOK'
<1> SUFFICES ASSUME TypeOK, TrainingTypeOK, [PlaneNext]_planeVars PROVE TrainingTypeOK'
  OBVIOUS
<1>0. Labelled \in SUBSET Entities /\ Featured \in SUBSET Entities
  BY LabelledTyped, FeaturedTyped
<1>1. ASSUME NEW t \in Trainings, LoadEntities(t) PROVE TrainingTypeOK'
  <2>1. PICK pin \in {Unset} \cup {i \in Instants : i <= clock} :
            \E chosen \in SUBSET UpTo(pin) :
                /\ as_of' = [as_of EXCEPT ![t] = pin]
                /\ entities' = [entities EXCEPT ![t] = chosen]
                /\ step' = [step EXCEPT ![t] = IF chosen = {} THEN "failed" ELSE "features"]
    BY <1>1 DEF LoadEntities
  <2>2. PICK chosen \in SUBSET UpTo(pin) :
            /\ as_of' = [as_of EXCEPT ![t] = pin]
            /\ entities' = [entities EXCEPT ![t] = chosen]
            /\ step' = [step EXCEPT ![t] = IF chosen = {} THEN "failed" ELSE "features"]
    BY <2>1
  <2>3. pin \in Nat \cup {Unset} /\ chosen \in SUBSET Entities
    BY <1>0, TablesAssumption DEF UpTo
  <2> QED BY <1>0, <1>1, <2>2, <2>3 DEF LoadEntities, TrainingTypeOK
<1>2. ASSUME NEW t \in Trainings, LoadFeatures(t) PROVE TrainingTypeOK'
  BY <1>0, <1>2 DEF LoadFeatures, TrainingTypeOK
<1>3. ASSUME NEW t \in Trainings, LogRun(t) PROVE TrainingTypeOK'
  BY <1>3 DEF LogRun, TrainingTypeOK, TypeOK, TablesTypeOK
<1>4. CASE UNCHANGED trainingVars
  BY <1>4 DEF trainingVars, TrainingTypeOK
<1> QED BY <1>1, <1>2, <1>3, <1>4 DEF PlaneNext, TrainingNext, planeVars

-----------------------------------------------------------------------------
(* The limit as a condition on a row *)

Later(rows, e) == {f \in rows : LabelTime[e] < LabelTime[f]}

Recent(rows, e) == MaxRows = 0 \/ Cardinality(Later(rows, e)) < MaxRows

(* Without ties, keeping the newest row per entity leaves exactly the most recent one. *)
LEMMA NewestIsChosen ==
  ASSUME NEW rows \in SUBSET Entities, NEW chosen, Newest(rows, chosen), NoTies
  PROVE  chosen = {e \in rows : Recent(rows, e)}
<1>0. /\ chosen \in SUBSET rows /\ IsFiniteSet(rows) /\ MaxRows \in Nat
      /\ LabelTime \in [Entities -> Nat]
  BY RowsCounted, TablesAssumption, TrainingAssumption DEF Newest
<1>1. CASE MaxRows = 0
  BY <1>0, <1>1 DEF Newest, Recent
<1>2. CASE MaxRows # 0 /\ Cardinality(rows) <= MaxRows
  <2>1. ASSUME NEW e \in rows PROVE Cardinality(Later(rows, e)) < MaxRows
    <3>1. Later(rows, e) \in SUBSET rows /\ e \notin Later(rows, e)
      BY <1>0 DEF Later
    <3>2. /\ Cardinality(Later(rows, e)) \in Nat /\ Cardinality(rows) \in Nat
          /\ Cardinality(Later(rows, e)) <= Cardinality(rows)
          /\ Cardinality(Later(rows, e)) # Cardinality(rows)
      BY <1>0, <3>1, FS_Subset, FS_CardinalityType
    <3> QED BY <1>0, <1>2, <3>2
  <2>2. chosen = rows
    BY <1>2 DEF Newest
  <2> QED BY <2>1, <2>2 DEF Recent
<1>3. CASE MaxRows # 0 /\ ~ (Cardinality(rows) <= MaxRows)
  <2>1. /\ Cardinality(chosen) = MaxRows
        /\ \A e \in chosen, f \in rows \ chosen : LabelTime[f] <= LabelTime[e]
    BY <1>3 DEF Newest
  <2>2. IsFiniteSet(chosen)
    BY <1>0, FS_Subset
  <2>3. ASSUME NEW e \in chosen PROVE Cardinality(Later(rows, e)) < MaxRows
    <3>1. Later(rows, e) \in SUBSET chosen
      <4>1. ASSUME NEW f \in rows, LabelTime[e] < LabelTime[f], f \notin chosen PROVE FALSE
        <5>1. LabelTime[f] <= LabelTime[e]
          BY <2>1, <4>1
        <5>2. LabelTime[e] \in Nat /\ LabelTime[f] \in Nat
          BY <1>0
        <5> QED BY <4>1, <5>1, <5>2
      <4> QED BY <4>1 DEF Later
    <3>2. e \notin Later(rows, e)
      BY <1>0 DEF Later
    <3>3. /\ Cardinality(Later(rows, e)) \in Nat /\ Cardinality(chosen) \in Nat
          /\ Cardinality(Later(rows, e)) <= Cardinality(chosen)
          /\ Cardinality(Later(rows, e)) # Cardinality(chosen)
      BY <2>2, <3>1, <3>2, FS_Subset, FS_CardinalityType
    <3> QED BY <2>1, <3>3
  <2>4. ASSUME NEW e \in rows \ chosen PROVE ~ (Cardinality(Later(rows, e)) < MaxRows)
    <3>1. chosen \in SUBSET Later(rows, e)
      <4>1. ASSUME NEW f \in chosen PROVE LabelTime[e] < LabelTime[f]
        <5>1. LabelTime[e] <= LabelTime[f] /\ LabelTime[e] # LabelTime[f]
          BY <1>0, <1>3, <2>1 DEF NoTies
        <5>2. LabelTime[e] \in Nat /\ LabelTime[f] \in Nat
          BY <1>0
        <5> QED BY <5>1, <5>2
      <4> QED BY <1>0, <4>1 DEF Later
    <3>2. Later(rows, e) \in SUBSET rows
      BY DEF Later
    <3>3. IsFiniteSet(Later(rows, e))
      BY <1>0, <3>2, FS_Subset
    <3>4. /\ Cardinality(Later(rows, e)) \in Nat /\ Cardinality(chosen) \in Nat
          /\ Cardinality(chosen) <= Cardinality(Later(rows, e))
      BY <2>2, <3>1, <3>3, FS_Subset, FS_CardinalityType
    <3> QED BY <2>1, <3>4
  <2> QED BY <1>0, <1>3, <2>3, <2>4 DEF Recent
<1> QED BY <1>1, <1>2, <1>3

-----------------------------------------------------------------------------
(* What a training knows *)

LabelsUpTo(labels, pin) == {e \in labels : LabelTime[e] <= pin}

(* A time that stands for the training's as_of: itself, or one past every label there was. *)
Names(t, pin) == IF as_of[t] = Unset
                 THEN \A e \in basis[t].labels : LabelTime[e] <= pin
                 ELSE pin = as_of[t]

LabelsPast == /\ \A e \in Labelled : LabelTime[e] <= clock
              /\ \A t \in Trainings : \A e \in basis[t].labels : LabelTime[e] <= clock

EntitiesNamed ==
    \A t \in Trainings : step[t] \in {"features", "log", "logged"} =>
        \A pin \in Nat : Names(t, pin) =>
            LET rows == LabelsUpTo(basis[t].labels, pin)
            IN  entities[t] = {e \in rows : Recent(rows, e)}

FrameJoined ==
    \A t \in Trainings : step[t] \in {"log", "logged"} =>
        frame[t] = {e \in entities[t] \cap basis[t].features : FeatureTime[e] <= LabelTime[e]}

LoggedNames == \A t \in Trainings : step[t] = "logged" => logged[t] \in Nat /\ Names(t, logged[t])

TrainingInv == /\ TrainingTypeOK /\ LabelsPast
               /\ NoTies => EntitiesNamed
               /\ FrameJoined /\ LoggedNames

(* Initially no training run has read anything. *)
LEMMA TrainingInvInit == PlaneInit => TrainingInv
<1> SUFFICES ASSUME PlaneInit PROVE TrainingInv
  OBVIOUS
<1>1. TrainingTypeOK
  BY TrainingTypesInit
<1>2. \A e \in Labelled : LabelTime[e] <= clock
  BY TablesAssumption DEF PlaneInit, Init, TablesInit, Labelled
<1>3. \A t \in Trainings : step[t] = "labels" /\ basis[t].labels = {}
  BY DEF PlaneInit, TrainingInit
<1> QED BY <1>1, <1>2, <1>3
        DEF TrainingInv, LabelsPast, EntitiesNamed, FrameJoined, LoggedNames

(* The tables gain rows whose time has come, and the clock goes on. *)
LEMMA TablesStep ==
  ASSUME TypeOK, \A e \in Labelled : LabelTime[e] <= clock, [StoreNext]_vars
  PROVE  /\ clock \in Nat /\ clock' \in Nat /\ clock <= clock'
         /\ \A e \in Labelled' : LabelTime[e] <= clock'
<1>1. clock \in Nat /\ Labelled \in SUBSET Entities /\ LabelTime \in [Entities -> Nat]
  BY LabelledTyped, TablesAssumption DEF TypeOK, TablesTypeOK
<1>2. CASE UNCHANGED tableVars
  BY <1>1, <1>2 DEF tableVars, Labelled
<1>3. ASSUME Tick PROVE clock' \in Nat /\ clock <= clock' /\ Labelled' = Labelled
  <2>1. PICK i \in Instants : clock < i /\ clock' = i
    BY <1>3 DEF Tick
  <2> QED BY <1>1, <1>3, <2>1, TablesAssumption DEF Tick, Labelled
<1>4. CASE Tick
  <2>1. \A e \in Labelled : LabelTime[e] \in Nat
    BY <1>1
  <2> QED BY <1>1, <1>3, <1>4, <2>1
<1>5. ASSUME NEW r \in Runs, Curate(r)
      PROVE  clock' = clock /\ \A e \in Labelled' : LabelTime[e] <= clock
  <2>1. PICK newLabels : /\ newLabels \subseteq {e \in Entities \ Labelled : LabelTime[e] <= clock}
                         /\ labelsOf' = [labelsOf EXCEPT ![r] = @ \cup newLabels]
                         /\ clock' = clock
    BY <1>5 DEF Curate, Upsert
  <2>2. labelsOf'[r] = labelsOf[r] \cup newLabels /\ \A q \in Runs : q # r => labelsOf'[q] = labelsOf[q]
    BY <2>1 DEF TypeOK, TablesTypeOK
  <2>3. Labelled' \subseteq Labelled \cup newLabels
    BY <2>2 DEF Labelled
  <2> QED BY <2>1, <2>3
<1>6. ASSUME StoreNext, ~ Tick, \A r \in Runs : ~ Curate(r) PROVE UNCHANGED tableVars
  <2>1. ASSUME NEW j \in Jobs, NEW windows, NEW rows, Undertake(j, windows, rows)
        PROVE  UNCHANGED tableVars
    BY <2>1 DEF Undertake
  <2>2. ASSUME NEW r \in Runs, PlanRun(r) \/ TimesOut(r) PROVE UNCHANGED tableVars
    BY <2>1, <2>2 DEF PlanRun, TimesOut, Jobs
  <2>3. ASSUME NEW b \in Backfills, PlanBackfill(b) PROVE UNCHANGED tableVars
    <3>1. \E windows, rows : Undertake(b, windows, rows)
      BY <2>3 DEF PlanBackfill
    <3> QED BY <2>1, <3>1 DEF Jobs
  <2>4. ASSUME NEW j \in Jobs, Send(j) PROVE UNCHANGED tableVars
    BY <2>4 DEF Send
  <2>5. ASSUME NEW j \in Jobs, NEW n \in Tries,
               ReadRows(j, n) \/ WriteRows(j, n) \/ RecordInterval(j, n) \/ RequestFails(j, n)
        PROVE  UNCHANGED tableVars
    BY <2>5 DEF ReadRows, WriteRows, RecordInterval, RequestFails
  <2>6. ASSUME Lose PROVE UNCHANGED tableVars
    BY <2>6 DEF Lose
  <2> QED BY <1>6, <2>2, <2>3, <2>4, <2>5, <2>6 DEF StoreNext
<1>7. CASE \E r \in Runs : Curate(r)
  BY <1>1, <1>5, <1>7
<1> QED BY <1>2, <1>4, <1>6, <1>7 DEF vars

(* What the store does leaves the trainings where they are. *)
LEMMA TrainingInvStore ==
  ASSUME TypeOK, TrainingInv, TrainingTypeOK', [StoreNext]_vars, UNCHANGED trainingVars
  PROVE  TrainingInv'
<1>1. /\ clock \in Nat /\ clock' \in Nat /\ clock <= clock'
      /\ \A e \in Labelled' : LabelTime[e] <= clock'
  BY TablesStep DEF TrainingInv, LabelsPast
<1>2. ASSUME NEW t \in Trainings, NEW e \in basis'[t].labels PROVE LabelTime[e] <= clock'
  <2>1. e \in basis[t].labels /\ basis[t].labels \in SUBSET Entities
    BY <1>2 DEF trainingVars, TrainingInv, TrainingTypeOK
  <2>2. LabelTime[e] <= clock /\ LabelTime[e] \in Nat
    BY <2>1, TablesAssumption DEF TrainingInv, LabelsPast
  <2> QED BY <1>1, <2>2
<1>3. UNCHANGED <<step, as_of, entities, frame, logged, basis>>
  BY DEF trainingVars
<1>4. LabelsPast'
  BY <1>1, <1>2 DEF LabelsPast
<1>5. (NoTies => EntitiesNamed)' /\ FrameJoined' /\ LoggedNames'
  BY <1>3 DEF TrainingInv, NoTies, EntitiesNamed, FrameJoined, LoggedNames, Names,
              LabelsUpTo, Recent, Later
<1> QED BY <1>4, <1>5 DEF TrainingInv

(* For every pin that names what was read, the rows chosen are the most recent ones of the pin's past. *)
LEMMA LoadEntitiesNames ==
  ASSUME TypeOK, TrainingInv, NEW t \in Trainings, LoadEntities(t), NoTies
  PROVE  step'[t] = "features" =>
             \A pin \in Nat : Names(t, pin)' =>
                 LET rows == LabelsUpTo(basis'[t].labels, pin)
                 IN  entities'[t] = {e \in rows : Recent(rows, e)}
<1>0. /\ Labelled \in SUBSET Entities
      /\ as_of \in [Trainings -> Nat \cup {Unset}] /\ entities \in [Trainings -> SUBSET Entities]
      /\ basis \in [Trainings -> [labels : SUBSET Entities, features : SUBSET Entities]]
  BY LabelledTyped DEF TrainingInv, TrainingTypeOK
<1>1. PICK asked_of \in {Unset} \cup {i \in Instants : i <= clock} :
          \E chosen \in SUBSET UpTo(asked_of) :
              /\ Newest(UpTo(asked_of), chosen)
              /\ as_of' = [as_of EXCEPT ![t] = asked_of]
              /\ entities' = [entities EXCEPT ![t] = chosen]
  BY DEF LoadEntities
<1>2. PICK chosen : /\ Newest(UpTo(asked_of), chosen)
                    /\ as_of' = [as_of EXCEPT ![t] = asked_of]
                    /\ entities' = [entities EXCEPT ![t] = chosen]
  BY <1>1
<1>3. as_of'[t] = asked_of /\ entities'[t] = chosen /\ basis'[t].labels = Labelled
  BY <1>0, <1>2 DEF LoadEntities
<1>4. ASSUME NEW pin \in Nat, Names(t, pin)'
      PROVE  UpTo(asked_of) = LabelsUpTo(Labelled, pin)
  BY <1>3, <1>4 DEF Names, UpTo, LabelsUpTo
<1>5. ASSUME NEW pin \in Nat, Names(t, pin)'
      PROVE  LET rows == LabelsUpTo(basis'[t].labels, pin)
             IN  entities'[t] = {e \in rows : Recent(rows, e)}
  <2>1. LabelsUpTo(Labelled, pin) \in SUBSET Entities
    BY <1>0 DEF LabelsUpTo
  <2>2. Newest(LabelsUpTo(Labelled, pin), chosen)
    BY <1>2, <1>4, <1>5
  <2>3. chosen = {e \in LabelsUpTo(Labelled, pin) : Recent(LabelsUpTo(Labelled, pin), e)}
    BY <2>1, <2>2, NewestIsChosen
  <2> QED BY <1>3, <2>3
<1> QED BY <1>5

(* A training's step leaves the other trainings alone. *)
Kept(t) == /\ step'[t] = step[t] /\ as_of'[t] = as_of[t] /\ entities'[t] = entities[t]
           /\ frame'[t] = frame[t] /\ logged'[t] = logged[t] /\ basis'[t] = basis[t]

(* The parts of the invariant about one training. *)
KnowsOf(t) ==
    /\ \A e \in basis[t].labels : LabelTime[e] <= clock
    /\ NoTies /\ step[t] \in {"features", "log", "logged"} =>
           \A pin \in Nat : Names(t, pin) =>
               LET rows == LabelsUpTo(basis[t].labels, pin)
               IN  entities[t] = {e \in rows : Recent(rows, e)}
    /\ step[t] \in {"log", "logged"} =>
           frame[t] = {e \in entities[t] \cap basis[t].features : FeatureTime[e] <= LabelTime[e]}
    /\ step[t] = "logged" => logged[t] \in Nat /\ Names(t, logged[t])

(* The invariant of the training runs is one statement per run. *)
LEMMA Known ==
  TrainingInv <=> /\ TrainingTypeOK
                  /\ \A e \in Labelled : LabelTime[e] <= clock
                  /\ \A t \in Trainings : KnowsOf(t)
BY DEF TrainingInv, LabelsPast, EntitiesNamed, FrameJoined, LoggedNames, KnowsOf

(* A run whose variables do not change keeps what is known of it. *)
LEMMA KnowledgeKept ==
  ASSUME NEW t \in Trainings, KnowsOf(t), Kept(t), UNCHANGED clock
  PROVE  KnowsOf(t)'
BY DEF KnowsOf, Kept, NoTies, Names, LabelsUpTo, Recent, Later

(* A step of one training run leaves the variables of the others alone. *)
LEMMA OthersKept ==
  ASSUME TrainingTypeOK, NEW t \in Trainings,
         LoadEntities(t) \/ LoadFeatures(t) \/ LogRun(t), NEW u \in Trainings, u # t
  PROVE  Kept(u)
<1>1. CASE LoadEntities(t)
  BY <1>1 DEF TrainingTypeOK, LoadEntities, Kept
<1>2. CASE LoadFeatures(t)
  BY <1>2 DEF TrainingTypeOK, LoadFeatures, Kept
<1>3. CASE LogRun(t)
  BY <1>3 DEF TrainingTypeOK, LogRun, Kept
<1> QED BY <1>1, <1>2, <1>3

(* load_entities establishes what is known of the run after it. *)
LEMMA LoadEntitiesKnows ==
  ASSUME TypeOK, TrainingInv, NEW t \in Trainings, LoadEntities(t), UNCHANGED clock
  PROVE  KnowsOf(t)'
<1>1. step'[t] \in {"features", "failed"} /\ basis'[t].labels = Labelled
  BY DEF LoadEntities, TrainingInv, TrainingTypeOK
<1>2. \A e \in Labelled : LabelTime[e] <= clock
  BY DEF TrainingInv, LabelsPast
<1>3. NoTies' <=> NoTies
  BY DEF NoTies
<1>4. NoTies /\ step'[t] = "features" =>
          \A pin \in Nat : Names(t, pin)' =>
              LET rows == LabelsUpTo(basis'[t].labels, pin)
              IN  entities'[t] = {e \in rows : Recent(rows, e)}
  BY LoadEntitiesNames
<1> QED BY <1>1, <1>2, <1>3, <1>4 DEF KnowsOf, LabelsUpTo, Recent, Later

(* load_features keeps what is known of the run. *)
LEMMA LoadFeaturesKnows ==
  ASSUME TrainingInv, NEW t \in Trainings, LoadFeatures(t), UNCHANGED clock
  PROVE  KnowsOf(t)'
<1>1. KnowsOf(t) /\ TrainingTypeOK
  BY Known
<1>2. /\ step[t] = "features" /\ step'[t] = "log"
      /\ UNCHANGED <<as_of, entities, logged>>
      /\ frame'[t] = {e \in entities[t] \cap Featured : FeatureTime[e] <= LabelTime[e]}
      /\ basis'[t].features = Featured /\ basis'[t].labels = basis[t].labels
  BY <1>1 DEF LoadFeatures, TrainingTypeOK
<1>3. \A pin \in Nat : Names(t, pin)' <=> Names(t, pin)
  BY <1>2 DEF Names
<1> QED BY <1>1, <1>2, <1>3 DEF KnowsOf, NoTies, LabelsUpTo, Recent, Later

(* Logging the pin keeps what is known of the run. *)
LEMMA LogRunKnows ==
  ASSUME TypeOK, TrainingInv, NEW t \in Trainings, LogRun(t), UNCHANGED clock
  PROVE  KnowsOf(t)'
<1>1. KnowsOf(t) /\ TrainingTypeOK /\ clock \in Nat
  BY Known DEF TypeOK, TablesTypeOK
<1>2. /\ step[t] = "log" /\ step'[t] = "logged"
      /\ UNCHANGED <<as_of, entities, frame, basis>>
      /\ logged'[t] = IF as_of[t] = Unset THEN clock ELSE as_of[t]
  BY <1>1 DEF LogRun, TrainingTypeOK
<1>3. as_of[t] \in Nat \cup {Unset}
  BY <1>1 DEF TrainingTypeOK
<1>4. logged'[t] \in Nat /\ Names(t, logged'[t])
  BY <1>1, <1>2, <1>3 DEF Names, KnowsOf
<1>5. \A pin \in Nat : Names(t, pin)' <=> Names(t, pin)
  BY <1>2 DEF Names
<1>6. Names(t, logged[t])'
  BY <1>2, <1>4 DEF Names
<1> QED BY <1>1, <1>2, <1>4, <1>5, <1>6 DEF KnowsOf, NoTies, LabelsUpTo, Recent, Later

(* Every step of the plane keeps the invariant of the training runs. *)
LEMMA TrainingInvNext ==
  TypeOK /\ TrainingInv /\ [PlaneNext]_planeVars => TrainingInv'
<1> SUFFICES ASSUME TypeOK, TrainingInv, [PlaneNext]_planeVars PROVE TrainingInv'
  OBVIOUS
<1>0. TrainingTypeOK /\ TrainingTypeOK'
  BY TrainingTypesNext DEF TrainingInv
<1>1. CASE [StoreNext]_vars /\ UNCHANGED trainingVars
  BY <1>0, <1>1, TrainingInvStore
<1>2. ASSUME NEW t \in Trainings, LoadEntities(t) \/ LoadFeatures(t) \/ LogRun(t),
             UNCHANGED vars
      PROVE  TrainingInv'
  <2>1. UNCHANGED clock /\ Labelled' = Labelled
    BY <1>2 DEF vars, tableVars, Labelled
  <2>2. KnowsOf(t)'
    BY <1>2, <2>1, LoadEntitiesKnows, LoadFeaturesKnows, LogRunKnows
  <2>3. ASSUME NEW u \in Trainings, u # t PROVE KnowsOf(u)'
    BY <1>0, <1>2, <2>1, <2>3, OthersKept, KnowledgeKept, Known
  <2>4. \A e \in Labelled' : LabelTime[e] <= clock'
    BY <2>1 DEF TrainingInv, LabelsPast
  <2>5. \A u \in Trainings : KnowsOf(u)'
    BY <2>2, <2>3
  <2> QED BY <1>0, <2>4, <2>5
          DEF TrainingInv, LabelsPast, EntitiesNamed, FrameJoined, LoggedNames, KnowsOf
<1> QED BY <1>1, <1>2 DEF PlaneNext, TrainingNext, planeVars

-----------------------------------------------------------------------------
(* A logged pin names the frame: the invariant at the place after log_run. *)
LEMMA LoggedFrame == TrainingInv => PinNamesFrame
<1> SUFFICES ASSUME TrainingInv, NEW t \in Trainings, step[t] = "logged", NoTies
             PROVE  frame[t] = FrameOf(basis[t], logged[t])
  BY DEF PinNamesFrame
<1> DEFINE pin == logged[t]
           rows == LabelsUpTo(basis[t].labels, pin)
<1>1. /\ pin \in Nat /\ entities[t] = {e \in rows : Recent(rows, e)}
      /\ frame[t] = {e \in entities[t] \cap basis[t].features : FeatureTime[e] <= LabelTime[e]}
  BY DEF TrainingInv, EntitiesNamed, FrameJoined, LoggedNames
<1>2. \A e \in basis[t].labels :
          Later(rows, e) = {f \in basis[t].labels : LabelTime[e] < LabelTime[f] /\ LabelTime[f] <= pin}
  BY DEF Later, LabelsUpTo
<1> HIDE DEF pin
<1>3. \A e \in basis[t].labels : e \in entities[t] <=>
          /\ LabelTime[e] <= pin
          /\ MaxRows = 0 \/ Cardinality({f \in basis[t].labels : /\ LabelTime[e] < LabelTime[f]
                                                                 /\ LabelTime[f] <= pin}) < MaxRows
  BY <1>1, <1>2 DEF Recent, LabelsUpTo
<1>4. entities[t] \subseteq basis[t].labels
  BY <1>1 DEF LabelsUpTo
<1> QED BY <1>1, <1>3, <1>4 DEF FrameOf, pin

(***************************************************************************)
(* The as_of a training is logged under names its frame among the rows its *)
(* queries found, for any limit, and whatever is curated meanwhile.        *)
(***************************************************************************)
THEOREM LoggedPinNamesFrame == PlaneSpec => []PinNamesFrame
<1>1. PlaneInit => Init /\ TrainingInv
  BY TrainingInvInit DEF PlaneInit
<1>2. TypeOK /\ TrainingInv /\ [PlaneNext]_planeVars => TrainingInv'
  BY TrainingInvNext
<1>3. TrainingInv => PinNamesFrame
  BY LoggedFrame
<1> QED BY <1>1, <1>2, <1>3, PlaneRunsTheStore, TypeInvariant, PTL DEF PlaneSpec

(* Every variable of the plane keeps its type. *)
THEOREM PlaneTypes == PlaneSpec => []PlaneTypeOK
<1>1. TrainingInv => TrainingTypeOK
  BY DEF TrainingInv
<1>2. PlaneInit => TrainingInv
  BY TrainingInvInit
<1>3. TypeOK /\ TrainingInv /\ [PlaneNext]_planeVars => TrainingInv'
  BY TrainingInvNext
<1>4. TypeOK /\ TrainingTypeOK => PlaneTypeOK
  BY DEF PlaneTypeOK
<1> QED BY <1>1, <1>2, <1>3, <1>4, PlaneRunsTheStore, TypeInvariant, PTL DEF PlaneSpec
=============================================================================
