------------------------ MODULE ModelRegistryProofs ------------------------
(***************************************************************************)
(* Proofs about ModelRegistry, for any number of trainings, promotions,    *)
(* scores and faults.                                                      *)
(***************************************************************************)
EXTENDS ModelRegistry, SequenceTheorems, TLAPS

(* The run of a training has a newest version, the one VersionForRun chooses. *)
HasNewest(t) == \E v \in OwnVersions(t) : \A w \in OwnVersions(t) : w <= v

(* What a training has done by the time it is at a stage. *)
StagesReached ==
    \A t \in Trainers :
        /\ stage[t] \in {"measured", "registered", "aliased", "done"} => t \in measured
        /\ stage[t] \in {"registered", "aliased"} => HasNewest(t)
        /\ t \in Pipelines /\ stage[t] \in {"validated", "evaluated", "running", "measured"}
              => sound[t]

(* A version is registered after the metrics of its run are logged and, by a pipeline, after *)
(* its data set was validated.                                                               *)
VersionsJudged ==
    \A v \in Registered : /\ versions[v] \in measured
                          /\ versions[v] \in Pipelines => sound[versions[v]]

(* A promotion flips the alias at most once; what it tags and records afterwards is that flip. *)
FlipsOwned ==
    /\ \A i \in 1 .. Len(flips) :
          /\ pc[flips[i].by] \in {"flipped", "tagged", "done", "failed"}
          /\ pc[flips[i].by] \in {"flipped", "tagged"} => RowOf(flips[i]) = Row(flips[i].by)
          /\ flips[i].compared => flips[i].previous # None
    /\ \A p \in Promoters :
          pc[p] \in {"flipped", "tagged"} => \E i \in 1 .. Len(flips) : flips[i].by = p

(* Promotions that never overlapped are not under way together. *)
OneAtATime == ~overlap => \A p, q \in Promoters : Active(p) /\ Active(q) => p = q

Calm == ~overlap /\ faults = 0

(* The champion by the audit table. *)
Latest(table) == IF Len(table) = 0 THEN None ELSE table[Len(table)].version

Chained(table) ==
    \A i \in 1 .. Len(table) : table[i].previous = IF i = 1 THEN None ELSE table[i - 1].version

(* The alias and the table while a promotion is under way: they differ from the flip to the *)
(* row, and by that promotion only.                                                         *)
LedgerFollows ==
    Calm => /\ Chained(promotions)
            /\ (\A p \in Promoters : pc[p] \notin {"flipped", "tagged"})
                  => champion = Latest(promotions)
            /\ \A p \in Promoters :
                  /\ pc[p] = "read" => previous[p] = champion
                  /\ pc[p] \in {"flipped", "tagged"} => /\ champion = target[p]
                                                        /\ previous[p] = Latest(promotions)

(* A former champion is marked by the promotion that replaced it, right after the flip. *)
MarksFollow ==
    Calm => \A i \in 1 .. Len(flips) :
                \/ flips[i].version = champion
                \/ flips[i].version \in superseded
                \/ \E p \in Promoters : pc[p] = "flipped" /\ previous[p] = flips[i].version

(* The inductive invariant. *)
Inductive == /\ TypeOK /\ StagesReached /\ VersionsJudged /\ ProvenanceTrue /\ GateHolds
             /\ FlipsOwned /\ FlipsAccounted /\ OneAtATime /\ LedgerFollows /\ MarksFollow

-----------------------------------------------------------------------------
(* Facts about the sequences. *)
LEMMA LenIsNat == ASSUME NEW S, NEW s \in Seq(S) PROVE Len(s) \in Nat
OBVIOUS

(* Append keeps the elements and puts the new one behind them. *)
LEMMA Appended ==
    ASSUME NEW S, NEW s \in Seq(S), NEW x \in S
    PROVE  /\ Append(s, x) \in Seq(S)
           /\ Len(Append(s, x)) = Len(s) + 1
           /\ \A i \in 1 .. Len(s) : Append(s, x)[i] = s[i]
           /\ Append(s, x)[Len(s) + 1] = x
BY AppendProperties

(* A registration, repeated or not, adds versions of its run behind the others. *)
LEMMA RegistrationAppends ==
    ASSUME TypeOK, NEW t \in Trainers, RegisterModel(t)
    PROVE  /\ versions' \in Seq(Trainers) /\ Len(versions) < Len(versions')
           /\ \A v \in Registered : versions'[v] = versions[v]
           /\ \A v \in Len(versions) + 1 .. Len(versions') : versions'[v] = t
<1> DEFINE once == Append(versions, t)
<1>1. versions \in Seq(Trainers) /\ Len(versions) \in Nat BY DEF TypeOK
<1>2. /\ once \in Seq(Trainers) /\ Len(once) = Len(versions) + 1
      /\ \A v \in 1 .. Len(versions) : once[v] = versions[v]
      /\ once[Len(versions) + 1] = t
  BY <1>1, Appended
<1>3. CASE versions' = once BY <1>1, <1>2, <1>3 DEF Registered
<1>4. CASE versions' = Append(once, t)
  <2> HIDE DEF once
  <2>1. /\ versions' \in Seq(Trainers) /\ Len(versions') = Len(once) + 1
        /\ \A v \in 1 .. Len(once) : versions'[v] = once[v]
        /\ versions'[Len(once) + 1] = t
    BY <1>2, <1>4, Appended
  <2> QED BY <1>1, <1>2, <2>1 DEF Registered
<1> QED BY <1>3, <1>4 DEF RegisterModel, RegistersAt

(* Versions and metrics stay what they are, and what a training is worth does not change. *)
Grows == /\ versions' \in Seq(Trainers) /\ Len(versions) \in Nat /\ Len(versions') \in Nat
         /\ Registered \subseteq Registered'
         /\ \A v \in Registered : versions'[v] = versions[v]
         /\ measured \subseteq measured' /\ measured' \subseteq Trainers
         /\ sound' = sound /\ score' = score

(* A step of a training leaves the promotions alone and the other way round. *)
LEMMA StepCases ==
    ASSUME [Next]_vars
    PROVE  \/ \E t \in Trainers : Train(t) /\ UNCHANGED promoteVars
           \/ \E p \in Promoters : Promote(p) /\ UNCHANGED <<trainVars, modelVars>>
           \/ UNCHANGED vars
<1>1. ASSUME NEW t \in Trainers, Train(t) PROVE UNCHANGED promoteVars
  BY <1>1 DEF Train, LoadDataset, ValidateDataset, TrainsAt, TrainAndEvaluate, StartRun,
     LogMetrics, RegistersAt, RegisterModel, AliasCandidate, TagVersion, TrainingFails
<1>2. ASSUME NEW p \in Promoters, Promote(p) PROVE UNCHANGED <<trainVars, modelVars>>
  BY <1>2 DEF Promote, ChooseVersion, ReadChampion, Reject, FlipAlias, TagPromotion,
     RecordPromotion, PromotionFails
<1> QED BY <1>1, <1>2 DEF Next

(* The steps of a training that nobody else sees. *)
Private(t) == /\ stage' = [stage EXCEPT ![t] = stage'[t]]
              /\ stage'[t] \in {"loaded", "validated", "evaluated", "running", "failed"}
              /\ UNCHANGED <<sound, score, modelVars>>
              /\ t \in Pipelines /\ stage'[t] \in {"validated", "evaluated", "running"}
                    => \/ stage[t] \in {"validated", "evaluated"}
                       \/ stage[t] = "loaded" /\ sound[t]
              
(* A step of a training is private, or one of the four that the registry sees. *)
LEMMA TrainCases ==
    ASSUME TypeOK, NEW t \in Trainers, Train(t)
    PROVE  Private(t) \/ LogMetrics(t) \/ RegisterModel(t) \/ AliasCandidate(t) \/ TagVersion(t)
<1>1. stage \in [Trainers -> {"idle", "loaded", "validated", "evaluated", "running", "measured",
                              "registered", "aliased", "done", "failed"}]
  BY DEF TypeOK
<1> QED BY <1>1 DEF Train, LoadDataset, ValidateDataset, TrainsAt, TrainAndEvaluate, StartRun,
       TrainingFails, Private

(* Faults are counted and never forgotten. *)
LEMMA FaultsGrow ==
    ASSUME TypeOK, [Next]_vars
    PROVE  faults' \in 0 .. MaxFaults /\ (faults' = 0 => faults = 0)
<1>1. faults \in 0 .. MaxFaults /\ MaxFaults \in Nat BY RegistryAssumption DEF TypeOK
<1>2. \/ faults' = faults
      \/ faults < MaxFaults /\ faults' = faults + 1
  BY DEF Next, vars, Train, LoadDataset, ValidateDataset, TrainsAt, TrainAndEvaluate, StartRun,
     LogMetrics, RegistersAt, RegisterModel, AliasCandidate, TagVersion, TrainingFails,
     Promote, ChooseVersion, ReadChampion, Reject, FlipAlias, TagPromotion,
     RecordPromotion, PromotionFails, Fault
<1> QED BY <1>1, <1>2

(* The registry only grows: versions, metrics and tags stay. *)
LEMMA RegistryGrows == ASSUME TypeOK, [Next]_vars PROVE Grows
<1>1. versions \in Seq(Trainers) /\ Len(versions) \in Nat /\ measured \subseteq Trainers
  BY DEF TypeOK
<1>2. ASSUME NEW t \in Trainers, RegisterModel(t) PROVE Grows
  <2>1. /\ versions' \in Seq(Trainers) /\ Len(versions) < Len(versions')
        /\ \A v \in Registered : versions'[v] = versions[v]
        /\ UNCHANGED <<measured, sound, score>>
    BY <1>2, RegistrationAppends DEF RegisterModel, RegistersAt
  <2>2. Len(versions') \in Nat BY <2>1
  <2> QED BY <1>1, <2>1, <2>2 DEF Grows, Registered
<1>3. ASSUME UNCHANGED <<versions, sound, score>>,
             measured' = measured \/ \E t \in Trainers : measured' = measured \cup {t}
      PROVE  Grows
  BY <1>1, <1>3 DEF Grows, Registered
<1>4. ASSUME NEW t \in Trainers, Train(t) PROVE Grows
  BY <1>2, <1>3, <1>4, TrainCases
  DEF Private, LogMetrics, AliasCandidate, TagVersion, modelVars
<1> QED BY <1>3, <1>4, StepCases DEF vars, trainVars, modelVars

-----------------------------------------------------------------------------
(* The training's part of the invariant. *)
(* The newest version of a run is one of its versions. *)
LEMMA NewestIsOwn ==
    ASSUME NEW t, HasNewest(t)
    PROVE  VersionForRun(t) \in Registered /\ versions[VersionForRun(t)] = t
BY DEF HasNewest, VersionForRun, OwnVersions

(* What a training has passed stays in the registry. *)
LEMMA StagesReachedKept ==
    ASSUME TypeOK, StagesReached, [Next]_vars
    PROVE  StagesReached'
<1>0. /\ stage \in [Trainers -> {"idle", "loaded", "validated", "evaluated", "running", "measured",
                              "registered", "aliased", "done", "failed"}]
      /\ versions \in Seq(Trainers) /\ Len(versions) \in Nat
  BY DEF TypeOK
<1>1. ASSUME NEW t \in Trainers, Private(t) PROVE StagesReached'
  BY <1>0, <1>1 DEF Private, StagesReached, HasNewest, OwnVersions, Registered, modelVars
<1>2. ASSUME NEW t \in Trainers, LogMetrics(t) PROVE StagesReached'
  BY <1>0, <1>2 DEF LogMetrics, StagesReached, HasNewest, OwnVersions, Registered
<1>3. ASSUME NEW t \in Trainers, RegisterModel(t) PROVE StagesReached'
  <2>1. /\ versions' \in Seq(Trainers) /\ Len(versions) < Len(versions')
        /\ \A v \in Registered : versions'[v] = versions[v]
        /\ \A v \in Len(versions) + 1 .. Len(versions') : versions'[v] = t
    BY <1>3, RegistrationAppends
  <2>2. Len(versions') \in Nat BY <2>1
  <2>3. HasNewest(t)'
    <3>1. Len(versions') \in OwnVersions(t)' BY <1>0, <2>1, <2>2 DEF OwnVersions, Registered
    <3>2. \A w \in OwnVersions(t)' : w <= Len(versions') BY <2>2 DEF OwnVersions, Registered
    <3> QED BY <3>1, <3>2 DEF HasNewest
  <2>4. ASSUME NEW q \in Trainers, q # t, HasNewest(q) PROVE HasNewest(q)'
    <3>1. OwnVersions(q)' = OwnVersions(q) BY <1>0, <2>1, <2>2, <2>4 DEF OwnVersions, Registered
    <3> QED BY <2>4, <3>1 DEF HasNewest
  <2> QED BY <1>0, <1>3, <2>3, <2>4 DEF RegisterModel, RegistersAt, StagesReached
<1>4. ASSUME NEW t \in Trainers, AliasCandidate(t) \/ TagVersion(t) PROVE StagesReached'
  BY <1>0, <1>4 DEF AliasCandidate, TagVersion, StagesReached, HasNewest, OwnVersions, Registered
<1>5. ASSUME UNCHANGED <<trainVars, modelVars>> PROVE StagesReached'
  BY <1>5 DEF trainVars, modelVars, StagesReached, HasNewest, OwnVersions, Registered
<1> QED BY <1>1, <1>2, <1>3, <1>4, <1>5, TrainCases, StepCases DEF vars

(* A version under an alias has its metrics, whatever step is taken. *)
LEMMA VersionsJudgedKept ==
    ASSUME TypeOK, StagesReached, VersionsJudged, [Next]_vars
    PROVE  VersionsJudged'
<1>0. Grows BY RegistryGrows
<1>1. ASSUME NEW t \in Trainers, RegisterModel(t) PROVE VersionsJudged'
  <2>1. /\ \A v \in Registered : versions'[v] = versions[v]
        /\ \A v \in Len(versions) + 1 .. Len(versions') : versions'[v] = t
    BY <1>1, RegistrationAppends
  <2>2. t \in measured /\ (t \in Pipelines => sound[t])
    BY <1>1 DEF RegisterModel, RegistersAt, StagesReached
  <2> QED BY <1>0, <2>1, <2>2 DEF Grows, VersionsJudged, Registered
<1>2. ASSUME UNCHANGED versions PROVE VersionsJudged'
  BY <1>0, <1>2 DEF Grows, VersionsJudged, Registered
<1> QED BY <1>1, <1>2, TrainCases, StepCases
       DEF vars, modelVars, Private, LogMetrics, AliasCandidate, TagVersion

(* Tags are those of the run that made the version, and no step rewrites them. *)
LEMMA ProvenanceKept ==
    ASSUME TypeOK, StagesReached, ProvenanceTrue, [Next]_vars
    PROVE  ProvenanceTrue'
<1>0. /\ Grows /\ described \subseteq Registered \X Trainers
      /\ stage \in [Trainers -> {"idle", "loaded", "validated", "evaluated", "running", "measured",
                              "registered", "aliased", "done", "failed"}]
  BY RegistryGrows DEF TypeOK
<1>1. ASSUME NEW t \in Trainers, TagVersion(t) PROVE ProvenanceTrue'
  <2>1. versions[VersionForRun(t)] = t
    BY <1>1, NewestIsOwn DEF TagVersion, StagesReached
  <2> DEFINE new == <<VersionForRun(t), t>>
  <2>2. /\ described' = described \cup {new} /\ versions' = versions
        /\ stage' = [stage EXCEPT ![t] = "done"]
    BY <1>1 DEF TagVersion
  <2>3. new[2] = t /\ versions[new[1]] = t BY <2>1
  <2> HIDE DEF new
  <2> QED BY <1>0, <2>2, <2>3 DEF ProvenanceTrue
<1>2. ASSUME UNCHANGED described,
             \A t \in Trainers : stage'[t] = "done" => stage[t] = "done"
      PROVE  ProvenanceTrue'
  BY <1>0, <1>2 DEF Grows, ProvenanceTrue
<1>3. ASSUME NEW t \in Trainers,
             Private(t) \/ LogMetrics(t) \/ RegisterModel(t) \/ AliasCandidate(t)
      PROVE  ProvenanceTrue'
  BY <1>0, <1>2, <1>3
  DEF Private, LogMetrics, RegisterModel, RegistersAt, AliasCandidate, modelVars
<1> QED BY <1>1, <1>2, <1>3, TrainCases, StepCases DEF vars, modelVars, trainVars

-----------------------------------------------------------------------------
(* The promotions' part of the invariant. *)
(* A new entry of the history of the alias. *)
LEMMA FlipAppends ==
    ASSUME TypeOK, NEW p \in Promoters, FlipAlias(p)
    PROVE  /\ Flip(p) \in Flipped
           /\ Len(flips) \in Nat /\ Len(flips') = Len(flips) + 1
           /\ \A i \in 1 .. Len(flips) : flips'[i] = flips[i]
           /\ flips'[Len(flips) + 1] = Flip(p)
           /\ flips' \in Seq(Flipped)
<1>1. /\ target[p] \in Registered /\ previous[p] \in Aliased /\ champion \in Aliased
      /\ forced[p] \in BOOLEAN /\ compared[p] \in BOOLEAN
  BY DEF TypeOK, FlipAlias, Active, Aliased
<1>2. Flip(p) \in Flipped BY <1>1 DEF Flip, Flipped
<1>3. flips \in Seq(Flipped) /\ Len(flips) \in Nat /\ flips' = Append(flips, Flip(p))
  BY DEF TypeOK, FlipAlias
<1> HIDE DEF Flip
<1> QED BY <1>2, <1>3, Appended

(* A new row of the audit table. *)
LEMMA RecordAppends ==
    ASSUME TypeOK, NEW p \in Promoters, RecordPromotion(p)
    PROVE  /\ Row(p) \in Recorded
           /\ Len(promotions) \in Nat /\ Len(promotions') = Len(promotions) + 1
           /\ \A i \in 1 .. Len(promotions) : promotions'[i] = promotions[i]
           /\ promotions'[Len(promotions) + 1] = Row(p)
           /\ promotions' \in Seq(Recorded)
<1>1. target[p] \in Registered /\ previous[p] \in Aliased
  BY DEF TypeOK, RecordPromotion, Active, Aliased
<1>2. Row(p) \in Recorded BY <1>1 DEF Row, Recorded
<1>3. /\ promotions \in Seq(Recorded) /\ Len(promotions) \in Nat
      /\ promotions' = Append(promotions, Row(p))
  BY DEF TypeOK, RecordPromotion
<1> HIDE DEF Row
<1> QED BY <1>2, <1>3, Appended

(* What a registered version is worth stays what it is, and with it the verdict on a flip. *)
LEMMA VerdictKept ==
    ASSUME TypeOK, VersionsJudged, [Next]_vars, NEW f \in Flipped,
           f.compared => f.previous # None
    PROVE  /\ Cleared(f.version) => Cleared(f.version)'
           /\ f.compared /\ f.previous = f.replaced /\ NotWorse(f.version, f.replaced)
                 => NotWorse(f.version, f.replaced)'
<1>0. Grows BY RegistryGrows
<1>1. f.version \in Registered /\ f.replaced \in Aliased BY DEF Flipped
<1>2. \A v \in Registered : /\ versions'[v] = versions[v]
                            /\ versions[v] \in measured /\ versions[v] \in measured'
  BY <1>0 DEF Grows, VersionsJudged
<1>3. f.compared /\ f.previous = f.replaced => f.replaced \in Registered
  BY <1>1 DEF Aliased
<1>4. score' = score BY <1>0 DEF Grows
<1> QED BY <1>1, <1>2, <1>3, <1>4 DEF Cleared, NotWorse, Accuracy

(* A flip follows the comparison with the champion that was read. *)
LEMMA GateHoldsKept ==
    ASSUME TypeOK, VersionsJudged, FlipsOwned, GateHolds, [Next]_vars
    PROVE  GateHolds'
<1> DEFINE Passed(f) == ~f.forced => /\ Cleared(f.version)
                                     /\ f.compared /\ f.previous = f.replaced
                                           => NotWorse(f.version, f.replaced)
<1>0. flips \in Seq(Flipped) /\ Len(flips) \in Nat BY DEF TypeOK
<1>1. ASSUME NEW i \in 1 .. Len(flips), flips'[i] = flips[i] PROVE Passed(flips[i])'
  <2>1. PICK f \in Flipped : f = flips[i] BY <1>0
  <2>2. Passed(f) /\ (f.compared => f.previous # None) BY <2>1 DEF GateHolds, FlipsOwned
  <2>3. Passed(f)' BY <2>2, VerdictKept
  <2>4. f = flips'[i] BY <1>1, <2>1
  <2> QED BY <2>3, <2>4 DEF Cleared, NotWorse, Accuracy
<1>2. CASE UNCHANGED flips BY <1>0, <1>1, <1>2 DEF GateHolds
<1>3. ASSUME NEW p \in Promoters, FlipAlias(p) PROVE GateHolds'
  <2>1. /\ Len(flips') = Len(flips) + 1
        /\ \A i \in 1 .. Len(flips) : flips'[i] = flips[i]
        /\ flips'[Len(flips) + 1] = Flip(p)
    BY <1>3, FlipAppends
  <2>2. /\ Approved(p) \/ forced[p]
        /\ UNCHANGED <<versions, measured, score>>
    BY <1>3 DEF FlipAlias, trainVars, modelVars
  <2>3. PICK f : f = Flip(p) OBVIOUS
  <2>4. Passed(f) BY <2>2, <2>3 DEF Flip, Approved
  <2>5. Passed(f)' BY <2>2, <2>4 DEF Cleared, NotWorse, Accuracy
  <2>6. Passed(flips[Len(flips)])'
    <3>1. f = flips'[Len(flips')] BY <2>1, <2>3
    <3> QED BY <2>1, <2>5, <3>1 DEF Cleared, NotWorse, Accuracy
  <2> QED BY <1>0, <1>1, <2>1, <2>6 DEF GateHolds
<1>4. flips' = flips \/ \E p \in Promoters : FlipAlias(p)
  BY StepCases DEF vars, promoteVars, Promote, ChooseVersion, ReadChampion, Reject,
     TagPromotion, RecordPromotion, PromotionFails
<1> QED BY <1>2, <1>3, <1>4

(* The history of the alias is of promotions. *)
LEMMA FlipTypes ==
    ASSUME TypeOK
    PROVE  /\ flips \in Seq(Flipped) /\ Len(flips) \in Nat
           /\ \A i \in 1 .. Len(flips) : /\ flips[i] \in Flipped /\ flips[i].by \in Promoters
                                         /\ flips[i].version \in Registered
<1>1. flips \in Seq(Flipped) /\ Len(flips) \in Nat BY DEF TypeOK
<1>2. \A i \in 1 .. Len(flips) : flips[i] \in Flipped BY <1>1, ElementOfSeq
<1>3. \A f \in Flipped : f.by \in Promoters /\ f.version \in Registered BY DEF Flipped
<1> QED BY <1>1, <1>2, <1>3

(* The steps of a promotion that touch neither the alias's history nor the audit table. *)
Aside(p) == /\ pc' = [pc EXCEPT ![p] = pc'[p]]
            /\ UNCHANGED <<flips, promotions>>
            /\ \/ pc[p] = "idle" /\ pc'[p] = "chosen"
               \/ pc[p] = "chosen" /\ pc'[p] = "read" /\ UNCHANGED target
               \/ pc[p] = "read" /\ pc'[p] = "rejected" /\ UNCHANGED callVars
               \/ pc[p] = "flipped" /\ pc'[p] = "tagged" /\ UNCHANGED callVars
               \/ Active(p) /\ pc'[p] = "failed" /\ UNCHANGED callVars
            /\ \A q \in Promoters \ {p} : target'[q] = target[q] /\ previous'[q] = previous[q]

(* A step of a promotion is beside the ledger, flips the alias, or records it. *)
LEMMA PromoteCases ==
    ASSUME TypeOK, NEW p \in Promoters, Promote(p)
    PROVE  Aside(p) \/ FlipAlias(p) \/ RecordPromotion(p)
<1>1. /\ pc \in [Promoters -> {"idle", "chosen", "read", "rejected", "flipped", "tagged", "done",
                              "failed"}]
      /\ target \in [Promoters -> Aliased] /\ previous \in [Promoters -> Aliased]
  BY DEF TypeOK
<1>2. CASE ChooseVersion(p) BY <1>1, <1>2 DEF ChooseVersion, Aside
<1>3. CASE ReadChampion(p) BY <1>1, <1>3 DEF ReadChampion, Aside
<1>4. CASE Reject(p) BY <1>1, <1>4 DEF Reject, Aside, callVars
<1>5. CASE TagPromotion(p) BY <1>1, <1>5 DEF TagPromotion, Aside, callVars
<1>6. CASE PromotionFails(p) BY <1>1, <1>6 DEF PromotionFails, Aside, callVars
<1> QED BY <1>2, <1>3, <1>4, <1>5, <1>6 DEF Promote

(* What an inactive promotion has done stays done, and its row is written. *)
LEMMA FlipsOwnedKept ==
    ASSUME TypeOK, FlipsOwned, [Next]_vars
    PROVE  FlipsOwned'
<1>0. /\ flips \in Seq(Flipped) /\ Len(flips) \in Nat
      /\ \A i \in 1 .. Len(flips) : flips[i] \in Flipped /\ flips[i].by \in Promoters
      /\ pc \in [Promoters -> {"idle", "chosen", "read", "rejected", "flipped", "tagged", "done",
                              "failed"}]
  BY FlipTypes DEF TypeOK
<1>1. ASSUME NEW p \in Promoters, Aside(p) PROVE FlipsOwned'
  <2>1. /\ flips' = flips /\ pc' = [pc EXCEPT ![p] = pc'[p]]
        /\ pc[p] \in {"flipped", "tagged"} => pc'[p] \in {"tagged", "failed"}
        /\ pc'[p] \in {"flipped", "tagged"} => pc[p] = "flipped" /\ UNCHANGED callVars
        /\ pc[p] \in {"idle", "chosen", "read", "flipped", "tagged"}
        /\ \A q \in Promoters \ {p} : target'[q] = target[q] /\ previous'[q] = previous[q]
    BY <1>0, <1>1 DEF Aside, Active
  <2>2. ASSUME NEW i \in 1 .. Len(flips)
        PROVE  /\ pc'[flips[i].by] \in {"flipped", "tagged", "done", "failed"}
               /\ pc'[flips[i].by] \in {"flipped", "tagged"}
                     => RowOf(flips[i]) = Row(flips[i].by)'
    <3>1. PICK f \in Flipped : f = flips[i] BY <1>0
    <3>2. /\ pc[f.by] \in {"flipped", "tagged", "done", "failed"}
          /\ pc[f.by] \in {"flipped", "tagged"} => RowOf(f) = Row(f.by)
          /\ f.by \in Promoters
      BY <1>0, <3>1 DEF FlipsOwned
    <3>3. CASE f.by = p
      BY <1>0, <2>1, <3>1, <3>2, <3>3 DEF RowOf, Row, callVars
    <3>4. CASE f.by # p
      BY <1>0, <2>1, <3>1, <3>2, <3>4 DEF RowOf, Row
    <3> QED BY <3>3, <3>4
  <2>3. \A i \in 1 .. Len(flips) : flips[i].compared => flips[i].previous # None
    BY DEF FlipsOwned
  <2>4. \A q \in Promoters : pc'[q] \in {"flipped", "tagged"}
                                => \E i \in 1 .. Len(flips) : flips[i].by = q
    BY <1>0, <2>1 DEF FlipsOwned
  <2> QED BY <2>1, <2>2, <2>3, <2>4 DEF FlipsOwned, RowOf, Row
<1>2. ASSUME NEW p \in Promoters, FlipAlias(p) PROVE FlipsOwned'
  <2>1. /\ Len(flips') = Len(flips) + 1
        /\ \A i \in 1 .. Len(flips) : flips'[i] = flips[i]
        /\ flips'[Len(flips) + 1] = Flip(p)
    BY <1>2, FlipAppends
  <2>2. /\ pc[p] = "read" /\ pc' = [pc EXCEPT ![p] = pc'[p]] /\ pc'[p] \in {"flipped", "failed"}
        /\ UNCHANGED callVars
    BY <1>0, <1>2 DEF FlipAlias
  <2>3. \A i \in 1 .. Len(flips) : flips[i].by # p BY <2>2 DEF FlipsOwned
  <2>4. ASSUME NEW i \in 1 .. Len(flips)
        PROVE  /\ pc'[flips'[i].by] \in {"flipped", "tagged", "done", "failed"}
               /\ pc'[flips'[i].by] \in {"flipped", "tagged"}
                     => RowOf(flips[i])' = Row(flips[i].by)'
               /\ flips'[i].compared => flips'[i].previous # None
    <3>1. PICK f \in Flipped : f = flips[i] /\ f = flips'[i] BY <1>0, <2>1
    <3>2. /\ pc[f.by] \in {"flipped", "tagged", "done", "failed"}
          /\ pc[f.by] \in {"flipped", "tagged"} => RowOf(f) = Row(f.by)
          /\ f.compared => f.previous # None
      BY <3>1 DEF FlipsOwned
    <3>3. f.by # p /\ f.by \in Promoters BY <2>3, <3>1, <1>0
    <3>4. pc'[f.by] = pc[f.by] BY <2>2, <1>0, <3>3
    <3>5. RowOf(flips[i])' = RowOf(f) BY <3>1 DEF RowOf
    <3>6. Row(flips[i].by)' = Row(f.by) BY <2>2, <3>1 DEF Row, callVars
    <3> QED BY <3>1, <3>2, <3>4, <3>5, <3>6
  <2>5. compared[p] => previous[p] # None BY DEF TypeOK
  <2>6. /\ pc'[flips'[Len(flips')].by] \in {"flipped", "failed"}
        /\ RowOf(flips[Len(flips)])' = Row(flips[Len(flips)].by)'
        /\ flips'[Len(flips')].by = p
        /\ flips'[Len(flips')].compared => flips'[Len(flips')].previous # None
    BY <1>0, <2>1, <2>2, <2>5 DEF Flip, RowOf, Row, callVars
  <2>7. \A q \in Promoters \ {p} : pc'[q] \in {"flipped", "tagged"}
                                      => \E i \in 1 .. Len(flips) : flips'[i].by = q
    BY <1>0, <2>1, <2>2 DEF FlipsOwned
  <2> QED BY <1>0, <2>1, <2>4, <2>6, <2>7 DEF FlipsOwned
<1>3. ASSUME NEW p \in Promoters, RecordPromotion(p) PROVE FlipsOwned'
  BY <1>0, <1>3 DEF RecordPromotion, FlipsOwned, RowOf, Row, callVars
<1>4. ASSUME UNCHANGED promoteVars PROVE FlipsOwned'
  BY <1>4 DEF promoteVars, callVars, FlipsOwned, RowOf, Row
<1> QED BY <1>1, <1>2, <1>3, <1>4, PromoteCases, StepCases DEF vars

(* A flip is owed a row by the promotion that made it until the row is written. *)
LEMMA FlipsAccountedKept ==
    ASSUME TypeOK, FlipsOwned, FlipsAccounted, [Next]_vars
    PROVE  FlipsAccounted'
<1>0. /\ flips \in Seq(Flipped) /\ Len(flips) \in Nat
      /\ promotions \in Seq(Recorded) /\ Len(promotions) \in Nat
      /\ \A i \in 1 .. Len(flips) : flips[i] \in Flipped /\ flips[i].by \in Promoters
      /\ pc \in [Promoters -> {"idle", "chosen", "read", "rejected", "flipped", "tagged", "done",
                              "failed"}]
  BY FlipTypes DEF TypeOK
<1>1. ASSUME NEW p \in Promoters, Aside(p) PROVE FlipsAccounted'
  <2>1. /\ UNCHANGED <<flips, promotions>> /\ pc' = [pc EXCEPT ![p] = pc'[p]]
        /\ pc[p] \in {"flipped", "tagged", "failed"} => pc'[p] \in {"flipped", "tagged", "failed"}
    BY <1>1 DEF Aside, Active
  <2>2. \A i \in 1 .. Len(flips) : pc[flips[i].by] \in {"flipped", "tagged", "failed"}
                                     => pc'[flips[i].by] \in {"flipped", "tagged", "failed"}
    BY <1>0, <2>1
  <2> QED BY <2>1, <2>2 DEF FlipsAccounted, RowOf
<1>2. ASSUME NEW p \in Promoters, FlipAlias(p) PROVE FlipsAccounted'
  <2>1. /\ Len(flips') = Len(flips) + 1
        /\ \A i \in 1 .. Len(flips) : flips'[i] = flips[i]
        /\ flips'[Len(flips) + 1] = Flip(p)
    BY <1>2, FlipAppends
  <2>2. /\ pc' = [pc EXCEPT ![p] = pc'[p]] /\ pc'[p] \in {"flipped", "failed"}
        /\ UNCHANGED promotions
    BY <1>0, <1>2 DEF FlipAlias
  <2>3. Flip(p).by = p BY DEF Flip
  <2>4. ASSUME NEW i \in 1 .. Len(flips')
        PROVE  \/ \E j \in 1 .. Len(promotions) : promotions[j] = RowOf(flips[i])'
               \/ pc'[flips'[i].by] \in {"flipped", "tagged", "failed"}
    <3>1. CASE i = Len(flips) + 1 BY <1>0, <2>1, <2>2, <2>3, <3>1
    <3>2. CASE i \in 1 .. Len(flips)
      <4>1. flips'[i] = flips[i] /\ RowOf(flips[i])' = RowOf(flips[i]) BY <2>1, <3>2 DEF RowOf
      <4>2. pc[flips[i].by] \in {"flipped", "tagged", "failed"}
               => pc'[flips[i].by] \in {"flipped", "tagged", "failed"}
        BY <1>0, <2>2, <3>2
      <4> QED BY <3>2, <4>1, <4>2 DEF FlipsAccounted
    <3> QED BY <1>0, <2>1, <3>1, <3>2
  <2>5. ASSUME NEW j \in 1 .. Len(promotions)
        PROVE  \E i \in 1 .. Len(flips') : promotions[j] = RowOf(flips[i])'
    <3>1. PICK i \in 1 .. Len(flips) : promotions[j] = RowOf(flips[i]) BY DEF FlipsAccounted
    <3>2. RowOf(flips[i])' = RowOf(flips[i]) /\ i \in 1 .. Len(flips')
      BY <1>0, <2>1 DEF RowOf
    <3> QED BY <3>1, <3>2
  <2>6. UNCHANGED promotions BY <2>2
  <2> QED BY <2>4, <2>5, <2>6 DEF FlipsAccounted
<1>3. ASSUME NEW p \in Promoters, RecordPromotion(p) PROVE FlipsAccounted'
  <2>1. /\ Len(promotions') = Len(promotions) + 1
        /\ \A j \in 1 .. Len(promotions) : promotions'[j] = promotions[j]
        /\ promotions'[Len(promotions) + 1] = Row(p)
    BY <1>3, RecordAppends
  <2>2. /\ pc[p] = "tagged" /\ pc' = [pc EXCEPT ![p] = pc'[p]] /\ pc'[p] \in {"done", "failed"}
        /\ UNCHANGED flips
    BY <1>0, <1>3 DEF RecordPromotion
  <2>3. \A i \in 1 .. Len(flips) : flips[i].by = p => RowOf(flips[i]) = Row(p)
    BY <2>2 DEF FlipsOwned
  <2>4. \E i \in 1 .. Len(flips) : flips[i].by = p BY <2>2 DEF FlipsOwned
  <2>5. ASSUME NEW i \in 1 .. Len(flips)
        PROVE  \/ \E j \in 1 .. Len(promotions') : promotions'[j] = RowOf(flips[i])
               \/ pc'[flips[i].by] \in {"flipped", "tagged", "failed"}
    <3>1. CASE flips[i].by = p
      <4>1. Len(promotions) + 1 \in 1 .. Len(promotions') BY <1>0, <2>1
      <4> QED BY <2>1, <2>3, <3>1, <4>1
    <3>2. CASE flips[i].by # p
      <4>1. pc'[flips[i].by] = pc[flips[i].by] BY <1>0, <2>2, <3>2
      <4>2. \A j \in 1 .. Len(promotions) : j \in 1 .. Len(promotions') BY <1>0, <2>1
      <4> QED BY <2>1, <4>1, <4>2 DEF FlipsAccounted
    <3> QED BY <3>1, <3>2
  <2>6. ASSUME NEW j \in 1 .. Len(promotions')
        PROVE  \E i \in 1 .. Len(flips) : promotions'[j] = RowOf(flips[i])
    <3>1. CASE j = Len(promotions) + 1 BY <2>1, <2>3, <2>4, <3>1
    <3>2. CASE j \in 1 .. Len(promotions) BY <2>1, <3>2 DEF FlipsAccounted
    <3> QED BY <1>0, <2>1, <3>1, <3>2
  <2> QED BY <2>2, <2>5, <2>6 DEF FlipsAccounted, RowOf
<1>4. ASSUME UNCHANGED promoteVars PROVE FlipsAccounted'
  BY <1>4 DEF promoteVars, FlipsAccounted, RowOf
<1> QED BY <1>1, <1>2, <1>3, <1>4, PromoteCases, StepCases DEF vars

(* Without overlap at most one promotion is at work. *)
LEMMA OneAtATimeKept ==
    ASSUME TypeOK, OneAtATime, [Next]_vars
    PROVE  OneAtATime'
<1>0. /\ pc \in [Promoters -> {"idle", "chosen", "read", "rejected", "flipped", "tagged", "done",
                              "failed"}]
      /\ overlap \in BOOLEAN
  BY DEF TypeOK
<1>1. ASSUME NEW p \in Promoters, ChooseVersion(p) PROVE OneAtATime'
  BY <1>0, <1>1 DEF ChooseVersion, OneAtATime, Active
<1>2. ASSUME NEW p \in Promoters, Promote(p), ~ChooseVersion(p) PROVE OneAtATime'
  <2>1. /\ overlap' = overlap /\ pc' = [pc EXCEPT ![p] = pc'[p]]
        /\ pc[p] \in {"chosen", "read", "flipped", "tagged"}
    BY <1>0, <1>2 DEF Promote, ReadChampion, Reject, FlipAlias, TagPromotion, RecordPromotion,
       PromotionFails, Active
  <2> QED BY <1>0, <2>1 DEF OneAtATime, Active
<1>3. ASSUME UNCHANGED promoteVars PROVE OneAtATime'
  BY <1>3 DEF promoteVars, OneAtATime, Active
<1> QED BY <1>1, <1>2, <1>3, StepCases DEF vars

(* A calm step comes from a calm state. *)
LEMMA CalmBefore == ASSUME TypeOK, [Next]_vars, Calm' PROVE Calm
<1>1. overlap => overlap'
  BY StepCases DEF vars, promoteVars, Promote, ChooseVersion, ReadChampion, Reject, FlipAlias,
     TagPromotion, RecordPromotion, PromotionFails
<1> QED BY <1>1, FaultsGrow DEF Calm

(* With one promotion at a time the rows follow the flips in order. *)
LEMMA LedgerFollowsKept ==
    ASSUME TypeOK, OneAtATime, LedgerFollows, [Next]_vars
    PROVE  LedgerFollows'
<1> SUFFICES ASSUME Calm' PROVE LedgerFollows' BY DEF LedgerFollows
<1>0. /\ pc \in [Promoters -> {"idle", "chosen", "read", "rejected", "flipped", "tagged", "done",
                              "failed"}]
      /\ promotions \in Seq(Recorded) /\ Len(promotions) \in Nat
      /\ target \in [Promoters -> Aliased] /\ previous \in [Promoters -> Aliased]
      /\ faults \in 0 .. MaxFaults
  BY DEF TypeOK
<1>1. Calm /\ faults' = 0 /\ ~Fault("read") /\ ~Fault("answer") /\ ~Fault("promote")
  BY <1>0, CalmBefore DEF Calm, Fault
<1>2. /\ Chained(promotions)
      /\ (\A p \in Promoters : pc[p] \notin {"flipped", "tagged"})
            => champion = Latest(promotions)
      /\ \A p \in Promoters :
            /\ pc[p] = "read" => previous[p] = champion
            /\ pc[p] \in {"flipped", "tagged"} => /\ champion = target[p]
                                                  /\ previous[p] = Latest(promotions)
      /\ \A p, q \in Promoters : Active(p) /\ Active(q) => p = q
  BY <1>1 DEF LedgerFollows, OneAtATime, Calm
<1>3. ASSUME NEW p \in Promoters, ChooseVersion(p) PROVE LedgerFollows'
  BY <1>0, <1>2, <1>3 DEF ChooseVersion, LedgerFollows, Chained, Latest
<1>4. ASSUME NEW p \in Promoters, ReadChampion(p) PROVE LedgerFollows'
  <2>1. /\ previous' = [previous EXCEPT ![p] = champion] /\ pc' = [pc EXCEPT ![p] = "read"]
        /\ UNCHANGED <<champion, promotions, target>>
    BY <1>1, <1>4 DEF ReadChampion
  <2>2. Chained(promotions)' /\ Latest(promotions)' = Latest(promotions)
    BY <1>2, <2>1 DEF Chained, Latest
  <2>3. pc[p] = "chosen" BY <1>4 DEF ReadChampion
  <2>4. \A q \in Promoters :
           /\ pc'[q] \in {"flipped", "tagged"} <=> pc[q] \in {"flipped", "tagged"}
           /\ pc'[q] = "read" => previous'[q] = champion
           /\ pc'[q] \in {"flipped", "tagged"} => previous'[q] = previous[q]
    BY <1>0, <1>2, <2>1, <2>3
  <2> QED BY <1>2, <2>1, <2>2, <2>4 DEF LedgerFollows
<1>5. ASSUME NEW p \in Promoters, Reject(p) PROVE LedgerFollows'
  BY <1>0, <1>2, <1>5 DEF Reject, LedgerFollows, Chained, Latest, callVars
<1>6. ASSUME NEW p \in Promoters, FlipAlias(p) PROVE LedgerFollows'
  <2>1. /\ champion' = target[p] /\ pc[p] = "read" /\ pc' = [pc EXCEPT ![p] = "flipped"]
        /\ UNCHANGED <<previous, promotions, target>>
    BY <1>1, <1>6 DEF FlipAlias, callVars
  <2>2. \A q \in Promoters \ {p} : pc[q] \notin {"read", "flipped", "tagged"}
    BY <1>2, <2>1 DEF Active
  <2>3. previous[p] = Latest(promotions) BY <1>2, <2>1, <2>2
  <2>4. Chained(promotions)' /\ Latest(promotions)' = Latest(promotions)
    BY <1>2, <2>1 DEF Chained, Latest
  <2>5. \A q \in Promoters : /\ pc'[q] = "read" => q # p /\ pc[q] = "read"
                             /\ pc'[q] \in {"flipped", "tagged"} => q = p
                             /\ pc'[p] = "flipped"
    BY <1>0, <2>1, <2>2
  <2>6. \A q \in Promoters : pc'[q] # "read" BY <2>2, <2>5
  <2> QED BY <2>1, <2>3, <2>4, <2>5, <2>6 DEF LedgerFollows
<1>7. ASSUME NEW p \in Promoters, TagPromotion(p) PROVE LedgerFollows'
  BY <1>0, <1>2, <1>7 DEF TagPromotion, LedgerFollows, Chained, Latest, callVars
<1>8. ASSUME NEW p \in Promoters, RecordPromotion(p) PROVE LedgerFollows'
  <2>1. /\ Len(promotions') = Len(promotions) + 1
        /\ \A i \in 1 .. Len(promotions) : promotions'[i] = promotions[i]
        /\ promotions'[Len(promotions) + 1] = Row(p)
    BY <1>8, RecordAppends
  <2>2. /\ pc[p] = "tagged" /\ pc' = [pc EXCEPT ![p] = "done"]
        /\ UNCHANGED <<champion, previous, target>>
    BY <1>1, <1>8 DEF RecordPromotion, callVars
  <2>3. \A q \in Promoters \ {p} : pc[q] \notin {"read", "flipped", "tagged"}
    BY <1>2, <2>2 DEF Active
  <2>4. champion = target[p] /\ previous[p] = Latest(promotions) BY <1>2, <2>2
  <2>5. Row(p).version = target[p] /\ Row(p).previous = previous[p] BY DEF Row
  <2>6. Latest(promotions)' = champion' BY <1>0, <2>1, <2>2, <2>4, <2>5 DEF Latest
  <2>7. Chained(promotions)'
    <3>1. ASSUME NEW i \in 1 .. Len(promotions')
          PROVE  promotions'[i].previous = IF i = 1 THEN None ELSE promotions'[i - 1].version
      <4>1. CASE i \in 1 .. Len(promotions)
        <5>1. promotions[i].previous = IF i = 1 THEN None ELSE promotions[i - 1].version
          BY <1>2, <4>1 DEF Chained
        <5>2. i # 1 => i - 1 \in 1 .. Len(promotions) BY <1>0, <4>1
        <5> QED BY <2>1, <4>1, <5>1, <5>2
      <4>2. CASE i = Len(promotions) + 1
        BY <1>0, <2>1, <2>4, <2>5, <4>2 DEF Latest
      <4> QED BY <1>0, <2>1, <4>1, <4>2
    <3> QED BY <3>1 DEF Chained
  <2> QED BY <1>0, <2>2, <2>3, <2>6, <2>7 DEF LedgerFollows
<1>9. ASSUME UNCHANGED promoteVars PROVE LedgerFollows'
  BY <1>2, <1>9 DEF promoteVars, callVars, LedgerFollows, Chained, Latest
<1> QED BY <1>1, <1>3, <1>4, <1>5, <1>6, <1>7, <1>8, <1>9, StepCases
       DEF vars, Promote, PromotionFails

(* With one promotion at a time every replaced champion is marked before the next. *)
LEMMA MarksFollowKept ==
    ASSUME TypeOK, OneAtATime, LedgerFollows, MarksFollow, [Next]_vars
    PROVE  MarksFollow'
<1> SUFFICES ASSUME Calm' PROVE MarksFollow' BY DEF MarksFollow
<1>0. /\ pc \in [Promoters -> {"idle", "chosen", "read", "rejected", "flipped", "tagged", "done",
                              "failed"}]
      /\ previous \in [Promoters -> Aliased]
      /\ flips \in Seq(Flipped) /\ Len(flips) \in Nat
      /\ \A i \in 1 .. Len(flips) : flips[i].version \in Registered
      /\ faults \in 0 .. MaxFaults
  BY FlipTypes DEF TypeOK
<1>1. Calm /\ faults' = 0 /\ ~Fault("read") /\ ~Fault("answer") /\ ~Fault("promote")
  BY <1>0, CalmBefore DEF Calm, Fault
<1>2. /\ \A i \in 1 .. Len(flips) :
            \/ flips[i].version = champion
            \/ flips[i].version \in superseded
            \/ \E p \in Promoters : pc[p] = "flipped" /\ previous[p] = flips[i].version
      /\ \A p \in Promoters :
            /\ pc[p] = "read" => previous[p] = champion
            /\ pc[p] \in {"flipped", "tagged"} => champion = target[p]
      /\ \A p, q \in Promoters : Active(p) /\ Active(q) => p = q
  BY <1>1 DEF LedgerFollows, MarksFollow, OneAtATime, Calm
<1>3. ASSUME NEW p \in Promoters, Promote(p), ~FlipAlias(p), ~TagPromotion(p)
      PROVE  MarksFollow'
  <2>1. /\ UNCHANGED <<champion, superseded, flips>> /\ pc' = [pc EXCEPT ![p] = pc'[p]]
        /\ pc[p] # "flipped" /\ pc'[p] # "flipped"
        /\ \A q \in Promoters \ {p} : previous'[q] = previous[q]
    BY <1>0, <1>1, <1>3 DEF Promote, ChooseVersion, ReadChampion, Reject, RecordPromotion,
       PromotionFails, callVars
  <2> QED BY <1>0, <1>2, <2>1 DEF MarksFollow
<1>4. ASSUME NEW p \in Promoters, FlipAlias(p) PROVE MarksFollow'
  <2>1. /\ Len(flips') = Len(flips) + 1
        /\ \A i \in 1 .. Len(flips) : flips'[i] = flips[i]
        /\ flips'[Len(flips) + 1] = Flip(p)
    BY <1>4, FlipAppends
  <2>2. /\ champion' = target[p] /\ pc[p] = "read" /\ pc' = [pc EXCEPT ![p] = "flipped"]
        /\ UNCHANGED <<previous, superseded>>
    BY <1>1, <1>4 DEF FlipAlias, callVars
  <2>3. Flip(p).version = champion' BY <2>2 DEF Flip
  <2>4. \A q \in Promoters \ {p} : pc[q] # "flipped" BY <1>2, <2>2 DEF Active
  <2>5. pc'[p] = "flipped" /\ previous'[p] = champion BY <1>0, <1>2, <2>2
  <2>6. ASSUME NEW i \in 1 .. Len(flips)
        PROVE  \/ flips[i].version = champion'
               \/ flips[i].version \in superseded'
               \/ \E q \in Promoters : pc'[q] = "flipped" /\ previous'[q] = flips[i].version
    BY <1>2, <2>2, <2>4, <2>5
  <2> QED BY <1>0, <2>1, <2>3, <2>6 DEF MarksFollow
<1>5. ASSUME NEW p \in Promoters, TagPromotion(p) PROVE MarksFollow'
  <2>1. /\ superseded' = superseded \cup ({previous[p]} \ {None, target[p]})
        /\ pc[p] = "flipped" /\ pc' = [pc EXCEPT ![p] = "tagged"]
        /\ UNCHANGED <<champion, flips, previous, target>>
    BY <1>5 DEF TagPromotion, callVars
  <2>2. champion = target[p] BY <1>2, <2>1
  <2>3. \A q \in Promoters : pc[q] = "flipped" => q = p BY <1>2, <2>1 DEF Active
  <2>4. None \notin Registered BY DEF None, Registered
  <2> QED BY <1>0, <1>2, <2>1, <2>2, <2>3, <2>4 DEF MarksFollow
<1>6. ASSUME UNCHANGED promoteVars PROVE MarksFollow'
  BY <1>2, <1>6 DEF promoteVars, callVars, MarksFollow
<1> QED BY <1>3, <1>4, <1>5, <1>6, StepCases DEF vars

-----------------------------------------------------------------------------
(* Type correctness. *)
LEMMA TrainTypes ==
    ASSUME TypeOK, StagesReached, [Next]_vars
    PROVE  /\ stage' \in [Trainers -> {"idle", "loaded", "validated", "evaluated", "running",
                              "measured", "registered", "aliased", "done", "failed"}]
           /\ sound' \in [Trainers -> BOOLEAN]
           /\ score' \in [Trainers -> Scores]
           /\ measured' \in SUBSET Trainers
           /\ versions' \in Seq(Trainers)
           /\ candidate' \in Aliased'
           /\ described' \in SUBSET (Registered' \X Trainers)
<1>0. /\ stage \in [Trainers -> {"idle", "loaded", "validated", "evaluated", "running",
                              "measured", "registered", "aliased", "done", "failed"}]
      /\ sound \in [Trainers -> BOOLEAN] /\ score \in [Trainers -> Scores]
      /\ candidate \in Aliased /\ described \in SUBSET (Registered \X Trainers)
  BY DEF TypeOK
<1>1. /\ measured' \subseteq Trainers /\ versions' \in Seq(Trainers)
      /\ Registered \subseteq Registered' /\ sound' = sound /\ score' = score
  BY RegistryGrows DEF Grows
<1>2. stage' \in [Trainers -> {"idle", "loaded", "validated", "evaluated", "running",
                              "measured", "registered", "aliased", "done", "failed"}]
  <2>1. ASSUME NEW t \in Trainers, Train(t)
        PROVE  stage' \in [Trainers -> {"idle", "loaded", "validated", "evaluated", "running",
                              "measured", "registered", "aliased", "done", "failed"}]
    BY <1>0, <2>1, TrainCases
    DEF Private, LogMetrics, RegisterModel, RegistersAt, AliasCandidate, TagVersion
  <2> QED BY <1>0, <2>1, StepCases DEF vars, trainVars
<1>3. ASSUME NEW t \in Trainers, AliasCandidate(t)
      PROVE  candidate' \in Registered /\ described' = described
  BY <1>3, NewestIsOwn DEF AliasCandidate, StagesReached
<1>4. ASSUME NEW t \in Trainers, TagVersion(t)
      PROVE  described' \subseteq Registered \X Trainers /\ candidate' = candidate
  BY <1>0, <1>4, NewestIsOwn DEF TagVersion, StagesReached
<1>5. /\ candidate' \in Registered \/ candidate' = candidate
      /\ described' \subseteq Registered \X Trainers
  BY <1>0, <1>3, <1>4, TrainCases, StepCases
  DEF Private, LogMetrics, RegisterModel, RegistersAt, vars, modelVars
<1> QED BY <1>0, <1>1, <1>2, <1>5 DEF Aliased

(* A promotion's own variables, over the versions before the step. *)
LEMMA CallTypes ==
    ASSUME TypeOK, [Next]_vars
    PROVE  /\ pc' \in [Promoters -> {"idle", "chosen", "read", "rejected", "flipped", "tagged",
                              "done", "failed"}]
           /\ target' \in [Promoters -> Aliased]
           /\ \A p \in Promoters : Active(p)' => target'[p] # None
           /\ forced' \in [Promoters -> BOOLEAN]
           /\ previous' \in [Promoters -> Aliased]
           /\ compared' \in [Promoters -> BOOLEAN]
           /\ \A p \in Promoters : compared'[p] => previous'[p] # None
<1>0. /\ pc \in [Promoters -> {"idle", "chosen", "read", "rejected", "flipped", "tagged",
                              "done", "failed"}]
      /\ target \in [Promoters -> Aliased] /\ previous \in [Promoters -> Aliased]
      /\ forced \in [Promoters -> BOOLEAN] /\ compared \in [Promoters -> BOOLEAN]
      /\ \A p \in Promoters : Active(p) => target[p] # None
      /\ \A p \in Promoters : compared[p] => previous[p] # None
      /\ champion \in Aliased /\ None \in Aliased /\ Registered \subseteq Aliased
      /\ None \notin Registered
  BY DEF TypeOK, Aliased, None, Registered
<1> DEFINE Types == /\ pc' \in [Promoters -> {"idle", "chosen", "read", "rejected", "flipped",
                              "tagged", "done", "failed"}]
                    /\ target' \in [Promoters -> Aliased]
                    /\ \A p \in Promoters : Active(p)' => target'[p] # None
                    /\ forced' \in [Promoters -> BOOLEAN]
                    /\ previous' \in [Promoters -> Aliased]
                    /\ compared' \in [Promoters -> BOOLEAN]
                    /\ \A p \in Promoters : compared'[p] => previous'[p] # None
<1>1. ASSUME NEW p \in Promoters, ChooseVersion(p) PROVE Types
  BY <1>0, <1>1 DEF ChooseVersion, Active
<1>2. ASSUME NEW p \in Promoters, ReadChampion(p) PROVE Types
  <2>1. PICK seen \in {None, champion}, judged \in BOOLEAN :
           /\ previous' = [previous EXCEPT ![p] = seen]
           /\ compared' = [compared EXCEPT ![p] = judged]
           /\ judged => seen # None
    BY <1>2 DEF ReadChampion
  <2>2. /\ previous' \in [Promoters -> Aliased] /\ compared' \in [Promoters -> BOOLEAN]
        /\ \A q \in Promoters : compared'[q] => previous'[q] # None
    BY <1>0, <2>1
  <2>3. /\ UNCHANGED <<target, forced>> /\ pc[p] = "chosen" /\ pc' = [pc EXCEPT ![p] = "read"]
    BY <1>2 DEF ReadChampion
  <2>4. /\ pc' \in [Promoters -> {"idle", "chosen", "read", "rejected", "flipped", "tagged",
                              "done", "failed"}]
        /\ \A q \in Promoters : Active(q)' => target'[q] # None
    BY <1>0, <2>3 DEF Active
  <2> QED BY <1>0, <2>2, <2>3, <2>4
<1>3. ASSUME NEW p \in Promoters, Promote(p), ~ChooseVersion(p), ~ReadChampion(p) PROVE Types
  <2>1. UNCHANGED callVars /\ pc' = [pc EXCEPT ![p] = pc'[p]] /\ Active(p)
        /\ pc'[p] \in {"rejected", "flipped", "tagged", "done", "failed"}
    BY <1>0, <1>3 DEF Promote, Reject, FlipAlias, TagPromotion, RecordPromotion, PromotionFails,
       Active
  <2> QED BY <1>0, <2>1 DEF callVars, Active
<1>4. ASSUME UNCHANGED promoteVars PROVE Types
  BY <1>0, <1>4 DEF promoteVars, callVars, Active
<1> QED BY <1>1, <1>2, <1>3, <1>4, StepCases DEF vars

(* Ledger and history keep their types. *)
LEMMA LedgerTypes ==
    ASSUME TypeOK, [Next]_vars
    PROVE  /\ champion' \in Aliased
           /\ superseded' \in SUBSET Registered
           /\ promotions' \in Seq(Recorded)
           /\ flips' \in Seq(Flipped)
           /\ overlap' \in BOOLEAN
<1>0. /\ champion \in Aliased /\ superseded \in SUBSET Registered
      /\ promotions \in Seq(Recorded) /\ flips \in Seq(Flipped) /\ overlap \in BOOLEAN
      /\ previous \in [Promoters -> Aliased] /\ target \in [Promoters -> Aliased]
  BY DEF TypeOK
<1>1. \/ flips' = flips
      \/ \E p \in Promoters : FlipAlias(p)
  BY StepCases DEF vars, promoteVars, Promote, ChooseVersion, ReadChampion, Reject,
     TagPromotion, RecordPromotion, PromotionFails
<1>2. \/ promotions' = promotions
      \/ \E p \in Promoters : RecordPromotion(p)
  BY StepCases DEF vars, promoteVars, Promote, ChooseVersion, ReadChampion, Reject,
     TagPromotion, FlipAlias, PromotionFails
<1>3. champion' = champion \/ \E p \in Promoters : champion' = target[p]
  BY StepCases DEF vars, promoteVars, Promote, ChooseVersion, ReadChampion, Reject,
     TagPromotion, RecordPromotion, FlipAlias, PromotionFails
<1>4. \/ superseded' = superseded
      \/ \E p \in Promoters : superseded' = superseded \cup ({previous[p]} \ {None, target[p]})
  BY StepCases DEF vars, promoteVars, Promote, ChooseVersion, ReadChampion, Reject,
     TagPromotion, RecordPromotion, FlipAlias, PromotionFails
<1>5. overlap' = overlap \/ \E p \in Promoters : ChooseVersion(p)
  BY StepCases DEF vars, promoteVars, Promote, ReadChampion, Reject,
     TagPromotion, RecordPromotion, FlipAlias, PromotionFails
<1>6. overlap' \in BOOLEAN BY <1>0, <1>5 DEF ChooseVersion
<1>7. superseded' \in SUBSET Registered BY <1>0, <1>4 DEF Aliased
<1>8. champion' \in Aliased BY <1>0, <1>3
<1> QED BY <1>0, <1>1, <1>2, <1>6, <1>7, <1>8, FlipAppends, RecordAppends

(* Every step keeps the types. *)
LEMMA TypesKept ==
    ASSUME TypeOK, StagesReached, [Next]_vars
    PROVE  TypeOK'
<1>1. Registered \subseteq Registered' BY RegistryGrows DEF Grows
<1>2. Aliased \subseteq Aliased' BY <1>1 DEF Aliased
<1>3. Flipped \subseteq Flipped' BY <1>1, <1>2 DEF Flipped
<1>4. Recorded \subseteq Recorded' BY <1>1, <1>2 DEF Recorded
<1>5. flips' \in Seq(Flipped') BY <1>3, LedgerTypes, SeqMonotonic
<1>6. promotions' \in Seq(Recorded') BY <1>4, LedgerTypes, SeqMonotonic
<1>7. target' \in [Promoters -> Aliased'] /\ previous' \in [Promoters -> Aliased']
  BY <1>2, CallTypes
<1>8. champion' \in Aliased' /\ superseded' \in SUBSET Registered'
  BY <1>1, <1>2, LedgerTypes
<1>9. faults' \in 0 .. MaxFaults BY FaultsGrow
<1> QED BY <1>5, <1>6, <1>7, <1>8, <1>9, TrainTypes, CallTypes, LedgerTypes DEF TypeOK

-----------------------------------------------------------------------------
(* The invariant holds in the initial state ... *)
LEMMA InitInductive == Init => Inductive
<1> SUFFICES ASSUME Init PROVE Inductive OBVIOUS
<1>1. /\ versions = <<>> /\ flips = <<>> /\ promotions = <<>> /\ Len(<<>>) = 0
      /\ \A i \in 1 .. 0 : FALSE
  BY DEF Init
<1>2. TypeOK
  <2>1. /\ stage \in [Trainers -> {"idle", "loaded", "validated", "evaluated", "running",
                              "measured", "registered", "aliased", "done", "failed"}]
        /\ sound \in [Trainers -> BOOLEAN] /\ score \in [Trainers -> Scores]
        /\ measured \in SUBSET Trainers /\ described \in SUBSET (Registered \X Trainers)
        /\ superseded \in SUBSET Registered /\ overlap \in BOOLEAN
        /\ None \in Aliased /\ candidate = None /\ champion = None
    BY DEF Init, Aliased
  <2>2. /\ versions \in Seq(Trainers) /\ promotions \in Seq(Recorded) /\ flips \in Seq(Flipped)
    BY <1>1
  <2>3. /\ pc \in [Promoters -> {"idle", "chosen", "read", "rejected", "flipped", "tagged",
                              "done", "failed"}]
        /\ target \in [Promoters -> Aliased] /\ previous \in [Promoters -> Aliased]
        /\ \A p \in Promoters : ~Active(p)
    BY <2>1 DEF Init, Active
  <2>4. /\ forced \in [Promoters -> BOOLEAN] /\ compared \in [Promoters -> BOOLEAN]
        /\ \A p \in Promoters : ~compared[p]
    BY DEF Init
  <2>5. faults \in 0 .. MaxFaults BY RegistryAssumption DEF Init
  <2> QED BY <2>1, <2>2, <2>3, <2>4, <2>5 DEF TypeOK
<1>3. StagesReached /\ VersionsJudged /\ ProvenanceTrue
  BY <1>1 DEF Init, StagesReached, VersionsJudged, ProvenanceTrue, Registered
<1>4. GateHolds /\ FlipsAccounted /\ FlipsOwned
  BY <1>1 DEF Init, GateHolds, FlipsAccounted, FlipsOwned
<1>5. OneAtATime /\ LedgerFollows /\ MarksFollow
  BY <1>1 DEF Init, OneAtATime, Active, LedgerFollows, Chained, Latest, MarksFollow
<1> QED BY <1>2, <1>3, <1>4, <1>5 DEF Inductive

(* ... is kept by every step ... *)
LEMMA StepInductive == Inductive /\ [Next]_vars => Inductive'
BY TypesKept, StagesReachedKept, VersionsJudgedKept, ProvenanceKept, GateHoldsKept,
   FlipsOwnedKept, FlipsAccountedKept, OneAtATimeKept, LedgerFollowsKept, MarksFollowKept
DEF Inductive

(* ... and so holds always. *)
LEMMA InductiveHolds == Spec => []Inductive
BY InitInductive, StepInductive, PTL DEF Spec

(* Type correctness; the aliases name versions that exist. *)
THEOREM RegistryTypes == Spec => []TypeOK
<1>1. Inductive => TypeOK BY DEF Inductive
<1> QED BY <1>1, InductiveHolds, PTL

(* What an alias points at has its metrics logged, whatever trainings interleave. *)
THEOREM AliasesAreMeasured == Spec => []AliasesMeasured
<1>1. Inductive => AliasesMeasured
  BY DEF Inductive, TypeOK, Aliased, VersionsJudged, AliasesMeasured
<1> QED BY <1>1, InductiveHolds, PTL

(* No pipeline run registers a model of a data set with problems. *)
THEOREM PipelineGateIsKept == Spec => []PipelineGateHolds
<1>1. Inductive => PipelineGateHolds BY DEF Inductive, VersionsJudged, PipelineGateHolds
<1> QED BY <1>1, InductiveHolds, PTL

(* The tags of a version describe the run that made it. *)
THEOREM ProvenanceIsTrue == Spec => []ProvenanceTrue
<1>1. Inductive => ProvenanceTrue BY DEF Inductive
<1> QED BY <1>1, InductiveHolds, PTL

(* The promotion gate, for any number of concurrent promotions. *)
THEOREM GateIsKept == Spec => []GateHolds
<1>1. Inductive => GateHolds BY DEF Inductive
<1> QED BY <1>1, InductiveHolds, PTL

(* Every change of the champion is accounted for, and nothing else is. *)
THEOREM FlipsAreAccounted == Spec => []FlipsAccounted
<1>1. Inductive => FlipsAccounted BY DEF Inductive
<1> QED BY <1>1, InductiveHolds, PTL

(* For a single operator the audit table is the history of the alias. *)
THEOREM LedgerIsTheHistory == Spec => []LedgerIsHistory
<1>1. Inductive => LedgerIsHistory
  BY DEF Inductive, LedgerFollows, Calm, Chained, Latest, LedgerIsHistory, Quiet, Active
<1> QED BY <1>1, InductiveHolds, PTL

(* For a single operator every former champion is marked. *)
THEOREM FormerChampionsAreMarked == Spec => []FormerChampionsMarked
<1>1. Inductive => FormerChampionsMarked
  BY DEF Inductive, MarksFollow, Calm, FormerChampionsMarked, Quiet, Active
<1> QED BY <1>1, InductiveHolds, PTL

(* Both together: what an alias can point at was measured and comes from sound data. *)
THEOREM CandidatesAreQualified == Spec => []CandidatesQualify
<1>1. AliasesMeasured /\ PipelineGateHolds => CandidatesQualify BY DEF CandidatesQualify
<1> QED BY <1>1, AliasesAreMeasured, PipelineGateIsKept, PTL
=============================================================================
