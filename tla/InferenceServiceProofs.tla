----------------------- MODULE InferenceServiceProofs -----------------------
(***************************************************************************)
(* Proofs about InferenceService, for any number of requests, versions,    *)
(* promotions and faults.                                                  *)
(***************************************************************************)
EXTENDS InferenceService, SequenceTheorems, TLAPS

(* A request has no version until it has read one, and keeps it from then on. *)
AnswersRead ==
    \A q \in Requests :
        /\ phase[q] \in {"new", "arrived", "fetched"} => answer[q] = NoVersion
        /\ phase[q] \in {"predicted", "saved", "answered"} => answer[q] # NoVersion

(* Whoever refreshes holds the lock. *)
LockHeld == \A r \in Refreshers : refresh[r] # "idle" => lock = r

(* Under the lock, what a refresh has read of the alias is as new as what is served. *)
ReadsAhead == \A r \in Refreshers : refresh[r] = "load" => freshAt <= resolved[r]

(* What is served is what the latest refresh found. *)
ServesLatest == served = IF freshAt = 0 THEN NoVersion ELSE champions[freshAt]

(* No request outlives its process, so what is served is not older than when it arrived. *)
FloorsBelow ==
    \A q \in Requests : Active(q) => life # "down" /\ floor[q] <= freshAt

(* The inductive invariant. *)
Inductive == /\ TypeOK /\ AnswersAgree /\ PersistedMeansStored /\ MetadataTrue /\ AnswersFresh
             /\ OrderlyExitPublishes
             /\ AnswersRead /\ LockHeld /\ ReadsAhead /\ ServesLatest /\ FloorsBelow

-----------------------------------------------------------------------------
(* The steps by whom they are made, with what each of them leaves alone. *)
Refreshes(r) == \/ BeginRefresh(r) \/ ResolveAlias(r) \/ FinishRefresh(r) \/ RefreshFails(r)
                \/ RefreshHangs(r)
Serves(q) == Arrive(q) \/ RequestStep(q)
Delivers == \E e \in queue : Delivered(e) \/ DeliveryFails(e)
Lives == Terminate \/ Exit \/ Crash \/ Start

(* A step is a promotion, a step of one refresher, of one request, or of the producer. *)
LEMMA StepCases ==
    ASSUME [Next]_vars
    PROVE  \/ Promote
           \/ \E r \in Refreshers : /\ Refreshes(r)
                                    /\ UNCHANGED <<champions, rough, requestVars, queue, rows,
                                                   events>>
           \/ \E q \in Requests : Serves(q) /\ UNCHANGED <<champions, life, rough, cacheVars>>
           \/ Delivers /\ UNCHANGED <<champions, life, rough, cacheVars, requestVars, rows>>
           \/ Lives /\ UNCHANGED <<champions, answer, persisted, floor, rows, events>>
           \/ UNCHANGED vars
<1>1. ASSUME NEW r \in Refreshers, Refreshes(r)
      PROVE  UNCHANGED <<champions, rough, requestVars, queue, rows, events>>
  BY <1>1 DEF Refreshes, BeginRefresh, ResolveAlias, FinishRefresh, RefreshFails, RefreshHangs
<1>2. ASSUME NEW q \in Requests, Serves(q) PROVE UNCHANGED <<champions, life, rough, cacheVars>>
  BY <1>2 DEF Serves, RequestStep, Arrive, FetchFeatures, Predict, ReadsModel, Save, Publish
<1>3. ASSUME Delivers
      PROVE  UNCHANGED <<champions, life, rough, cacheVars, requestVars, rows>>
  BY <1>3 DEF Delivers, Delivered, DeliveryFails
<1>4. ASSUME Lives PROVE UNCHANGED <<champions, answer, persisted, floor, rows, events>>
  BY <1>4 DEF Lives, Terminate, Exit, Crash, Start, requestVars
<1> QED BY <1>1, <1>2, <1>3, <1>4 DEF Next, Refreshes, Serves, Delivers, Lives

(* The history of the alias is a sequence of versions. *)
LEMMA HistoryTypes == ASSUME TypeOK PROVE champions \in Seq(Versions) /\ Len(champions) \in Nat
<1>1. champions \in Seq(Versions) BY DEF TypeOK
<1> QED BY <1>1, LenProperties

(* A position is a number up to the length of the history. *)
LEMMA PositionsAreNat ==
    ASSUME TypeOK PROVE \A n \in Positions : n \in Nat /\ n <= Len(champions)
BY HistoryTypes DEF Positions

(* The history of the alias only grows. *)
LEMMA ChampionsGrow ==
    ASSUME TypeOK, [Next]_vars
    PROVE  /\ champions' \in Seq(Versions) /\ Len(champions) \in Nat /\ Len(champions') \in Nat
           /\ Len(champions) <= Len(champions')
           /\ \A i \in 1 .. Len(champions) : champions'[i] = champions[i]
<1>1. champions \in Seq(Versions) /\ Len(champions) \in Nat BY HistoryTypes
<1>2. CASE Promote
  <2>1. PICK v \in Versions : champions' = Append(champions, v) BY <1>2 DEF Promote
  <2> QED BY <1>1, <2>1, AppendProperties
<1>3. CASE ~Promote BY <1>1, <1>3, StepCases DEF vars
<1> QED BY <1>2, <1>3

(* Faults are counted within the bound. *)
LEMMA FaultTypes == ASSUME TypeOK, [Next]_vars PROVE faults' \in 0 .. MaxFaults
<1>1. faults \in 0 .. MaxFaults /\ MaxFaults \in Nat BY ServiceAssumption DEF TypeOK
<1>2. \/ faults' = faults
      \/ faults < MaxFaults /\ faults' = faults + 1
  BY DEF Next, vars, Promote, BeginRefresh, ResolveAlias, FinishRefresh, RefreshFails,
     RefreshHangs, RequestStep, Arrive, FetchFeatures, Predict, ReadsModel, Save, Publish,
     Delivered, DeliveryFails, Terminate, Exit, Crash, Start, Fault
<1> QED BY <1>1, <1>2

-----------------------------------------------------------------------------
(* Type correctness. *)
CacheTypes == /\ served \in Known /\ model \in Known
              /\ lock \in Refreshers \cup {Nobody}
              /\ refresh \in [Refreshers -> {"idle", "resolve", "load", "hung"}]
              /\ resolved \in [Refreshers -> Positions]
              /\ \A r \in Refreshers : refresh[r] = "load" => resolved[r] # 0
              /\ freshAt \in Positions

(* The cache and the refreshers keep their types. *)
LEMMA CacheTypesKept == ASSUME TypeOK, [Next]_vars PROVE CacheTypes'
<1>0. /\ CacheTypes /\ champions \in Seq(Versions) /\ Len(champions) \in Nat
      /\ NoVersion \in Known /\ Versions \subseteq Known /\ 0 \in Positions
  <2>1. CacheTypes BY DEF TypeOK, CacheTypes
  <2> QED BY <2>1, HistoryTypes DEF Known, Positions
<1>1. CASE Promote
  <2>1. Positions \subseteq Positions' BY ChampionsGrow DEF Positions
  <2> QED BY <1>0, <1>1, <2>1 DEF Promote, cacheVars, CacheTypes, Known
<1>2. ASSUME UNCHANGED <<champions, cacheVars>> PROVE CacheTypes'
  BY <1>0, <1>2 DEF cacheVars, CacheTypes, Known, Positions
<1>3. ASSUME NEW r \in Refreshers, Refreshes(r), UNCHANGED champions PROVE CacheTypes'
  <2>1. CASE BeginRefresh(r)
    BY <1>0, <1>3, <2>1 DEF BeginRefresh, CacheTypes, Known, Positions
  <2>2. CASE ResolveAlias(r)
    <3>1. Len(champions) \in Positions /\ Len(champions) # 0
      BY <1>0, <2>2, EmptySeq DEF ResolveAlias, Positions
    <3> QED BY <1>0, <1>3, <2>2, <3>1 DEF ResolveAlias, CacheTypes, Known, Positions
  <2>3. CASE FinishRefresh(r)
    <3>1. champions[resolved[r]] \in Versions
      BY <1>0, <2>3 DEF FinishRefresh, CacheTypes, Positions
    <3>2. served' \in Known /\ model' \in Known
      BY <1>0, <2>3, <3>1 DEF FinishRefresh, Artifact, CacheTypes
    <3>3. freshAt' \in Positions BY <1>0, <2>3 DEF FinishRefresh, CacheTypes
    <3> QED BY <1>0, <1>3, <2>3, <3>2, <3>3
            DEF FinishRefresh, Released, CacheTypes, Known, Positions
  <2>4. CASE RefreshFails(r)
    BY <1>0, <1>3, <2>4 DEF RefreshFails, Released, CacheTypes, Known, Positions
  <2>5. CASE RefreshHangs(r)
    BY <1>0, <1>3, <2>5 DEF RefreshHangs, CacheTypes, Known, Positions
  <2> QED BY <1>3, <2>1, <2>2, <2>3, <2>4, <2>5 DEF Refreshes
<1>4. CASE Start BY <1>0, <1>4 DEF Start, CacheTypes, Known, Positions
<1>5. CASE Terminate \/ Exit \/ Crash BY <1>2, <1>5 DEF Terminate, Exit, Crash
<1> QED BY <1>1, <1>2, <1>3, <1>4, <1>5, StepCases DEF vars, Lives

RequestTypes == /\ phase \in [Requests -> Ongoing \cup {"new", "refused", "answered", "cut off"}]
                /\ answer \in [Requests -> Known]
                /\ persisted \in [Requests -> BOOLEAN]
                /\ floor \in [Requests -> Positions]

(* The requests keep their types. *)
LEMMA RequestTypesKept == ASSUME TypeOK, [Next]_vars PROVE RequestTypes'
<1>0. /\ RequestTypes /\ Len(champions) \in Nat /\ freshAt \in Positions /\ served \in Known
  BY HistoryTypes DEF TypeOK, RequestTypes
<1>1. Positions \subseteq Positions' BY ChampionsGrow DEF Positions
<1>2. ASSUME UNCHANGED requestVars PROVE RequestTypes'
  BY <1>0, <1>1, <1>2 DEF requestVars, RequestTypes, Known
<1>3. ASSUME NEW q \in Requests, Serves(q), UNCHANGED champions PROVE RequestTypes'
  <2>1. CASE Arrive(q) BY <1>0, <1>3, <2>1 DEF Arrive, RequestTypes, Known, Positions, Ongoing
  <2>2. CASE FetchFeatures(q)
    BY <1>0, <1>3, <2>2 DEF FetchFeatures, RequestTypes, Known, Positions, Ongoing
  <2>3. CASE Predict(q)
    BY <1>0, <1>3, <2>3 DEF Predict, ReadsModel, RequestTypes, Known, Positions, Ongoing
  <2>4. CASE Save(q)
    <3>1. persisted' \in [Requests -> BOOLEAN] BY <1>0, <2>4, Zenon DEF Save, RequestTypes
    <3> QED BY <1>0, <1>3, <2>4, <3>1 DEF Save, RequestTypes, Known, Positions, Ongoing
  <2>5. CASE Publish(q) BY <1>0, <1>3, <2>5 DEF Publish, RequestTypes, Known, Positions, Ongoing
  <2> QED BY <1>3, <2>1, <2>2, <2>3, <2>4, <2>5 DEF Serves, RequestStep
<1>4. CASE Crash
  <2>1. phase' \in [Requests -> Ongoing \cup {"new", "refused", "answered", "cut off"}]
    BY <1>0, <1>4 DEF Crash, RequestTypes
  <2> QED BY <1>0, <1>4, <2>1 DEF Crash, RequestTypes, Known, Positions
<1>5. CASE Terminate \/ Exit \/ Start BY <1>2, <1>5 DEF Terminate, Exit, Start
<1>6. CASE Promote BY <1>2, <1>6 DEF Promote
<1> QED BY <1>2, <1>3, <1>4, <1>5, <1>6, StepCases DEF vars, Lives

(* Queue, rows and events hold requests with the versions they read. *)
LEMMA EventTypes ==
    ASSUME TypeOK, AnswersRead, [Next]_vars
    PROVE  /\ queue' \in SUBSET (Requests \X Versions)
           /\ rows' \in SUBSET (Requests \X Versions)
           /\ events' \in SUBSET (Requests \X Versions)
<1>0. /\ queue \in SUBSET (Requests \X Versions) /\ rows \in SUBSET (Requests \X Versions)
      /\ events \in SUBSET (Requests \X Versions) /\ answer \in [Requests -> Known]
  BY DEF TypeOK
<1>1. ASSUME NEW q \in Requests, phase[q] \in {"predicted", "saved"}
      PROVE  <<q, answer[q]>> \in Requests \X Versions
  BY <1>0, <1>1 DEF AnswersRead, Known
<1>2. ASSUME NEW q \in Requests, Serves(q)
      PROVE  /\ \/ queue' = queue
                \/ queue' = queue \cup {<<q, answer[q]>>} /\ phase[q] = "saved"
             /\ \/ rows' = rows
                \/ rows' = rows \cup {<<q, answer[q]>>} /\ phase[q] = "predicted"
             /\ events' = events
  <2>1. CASE Save(q) BY <2>1 DEF Save
  <2>2. CASE Publish(q) BY <2>2 DEF Publish, Event
  <2>3. CASE Arrive(q) \/ FetchFeatures(q) \/ Predict(q)
    BY <2>3 DEF Arrive, FetchFeatures, Predict, ReadsModel
  <2> QED BY <1>2, <2>1, <2>2, <2>3 DEF Serves, RequestStep
<1>3. ASSUME Delivers PROVE queue' \subseteq queue /\ events' \subseteq events \cup queue
  BY <1>3 DEF Delivers, Delivered, DeliveryFails
<1>4. ASSUME Lives PROVE queue' \subseteq queue
  BY <1>4 DEF Lives, Terminate, Exit, Crash, Start
<1> QED BY <1>0, <1>1, <1>2, <1>3, <1>4, StepCases DEF vars, Promote

(* Every step keeps the types. *)
LEMMA TypesKept == ASSUME TypeOK, AnswersRead, [Next]_vars PROVE TypeOK'
<1>1. life' \in {"starting", "serving", "draining", "down"} /\ rough' \in BOOLEAN
  <2>1. life \in {"starting", "serving", "draining", "down"} /\ rough \in BOOLEAN BY DEF TypeOK
  <2>2. ASSUME NEW r \in Refreshers, Refreshes(r) PROVE life' \in {life, "serving"}
    BY <2>2 DEF Refreshes, BeginRefresh, ResolveAlias, FinishRefresh, RefreshFails,
       RefreshHangs, Released
  <2>3. ASSUME Lives PROVE /\ life' \in {"starting", "draining", "down"}
                           /\ rough' = rough \/ rough' \in BOOLEAN
    BY <2>3 DEF Lives, Terminate, Exit, Crash, Start
  <2> QED BY <2>1, <2>2, <2>3, StepCases DEF vars, Promote
<1> QED BY <1>1, CacheTypesKept, RequestTypesKept, EventTypes, ChampionsGrow, FaultTypes
       DEF TypeOK, CacheTypes, RequestTypes

-----------------------------------------------------------------------------
(* What a request reads and what it leaves. *)
(* How a step moves the requests: one of them, by its own step, or all that a crash cuts off. *)
LEMMA RequestMoves ==
    ASSUME TypeOK, [Next]_vars
    PROVE  \/ \E q \in Requests : Serves(q)
           \/ /\ UNCHANGED <<answer, persisted, floor>>
              /\ \A q \in Requests : \/ phase'[q] = phase[q]
                                     \/ phase'[q] = "cut off" /\ Active(q)
<1>1. CASE Crash
  BY <1>1 DEF Crash, TypeOK
<1>2. CASE UNCHANGED requestVars BY <1>2 DEF requestVars
<1> QED BY <1>1, <1>2, StepCases DEF vars, Promote, Lives, Terminate, Exit, Start

(* Steps that leave the requests' versions alone. *)
LEMMA AnswersReadKept == ASSUME TypeOK, AnswersRead, [Next]_vars PROVE AnswersRead'
<1>0. /\ phase \in [Requests -> Ongoing \cup {"new", "refused", "answered", "cut off"}]
      /\ answer \in [Requests -> Known]
  BY DEF TypeOK
<1>1. ASSUME NEW q \in Requests, Serves(q) PROVE AnswersRead'
  <2>1. CASE Predict(q)
    <3>1. CASE answer' = answer /\ phase' = [phase EXCEPT ![q] = "refused"]
      BY <1>0, <3>1 DEF AnswersRead
    <3>2. CASE /\ served # NoVersion /\ answer' = [answer EXCEPT ![q] = served]
               /\ phase' = [phase EXCEPT ![q] = "predicted"]
      BY <1>0, <3>2 DEF AnswersRead
    <3> QED BY <2>1, <3>1, <3>2 DEF Predict, ReadsModel
  <2>2. CASE ~Predict(q)
    <3>1. /\ answer' = answer /\ phase' = [phase EXCEPT ![q] = phase'[q]]
          /\ phase'[q] \in {"arrived", "fetched", "refused"}
                => phase[q] \in {"new", "arrived", "fetched"}
          /\ phase'[q] \in {"predicted", "saved", "answered"} => phase[q] \in {"predicted", "saved"}
          /\ phase'[q] # "new"
      BY <1>0, <1>1, <2>2 DEF Serves, RequestStep, Arrive, FetchFeatures, Save, Publish
    <3> QED BY <1>0, <3>1 DEF AnswersRead
  <2> QED BY <2>1, <2>2
<1> QED BY <1>0, <1>1, RequestMoves DEF AnswersRead

(* Row and event of a request are made from the answer of that request. *)
LEMMA AnswersAgreeKept ==
    ASSUME TypeOK, AnswersRead, AnswersAgree, [Next]_vars
    PROVE  AnswersAgree'
<1>0. /\ queue \in SUBSET (Requests \X Versions) /\ rows \in SUBSET (Requests \X Versions)
      /\ events \in SUBSET (Requests \X Versions) /\ answer \in [Requests -> Known]
  BY DEF TypeOK
<1> DEFINE all == rows \cup queue \cup events
<1>1. \A e \in all : answer[e[1]] = e[2] /\ answer[e[1]] # NoVersion BY DEF AnswersAgree
<1>2. ASSUME answer' = answer, all' \subseteq all PROVE AnswersAgree'
  BY <1>1, <1>2 DEF AnswersAgree
<1>3. ASSUME NEW q \in Requests, Predict(q) PROVE AnswersAgree'
  <2>1. \A e \in all : e[1] # q
    BY <1>1, <1>3 DEF Predict, ReadsModel, AnswersRead
  <2>2. all' = all /\ \A w \in Requests \ {q} : answer'[w] = answer[w]
    BY <1>0, <1>3 DEF Predict, ReadsModel
  <2>3. \A e \in all : e[1] \in Requests BY <1>0
  <2> QED BY <1>1, <2>1, <2>2, <2>3 DEF AnswersAgree
<1>4. ASSUME NEW q \in Requests, Save(q) \/ Publish(q) PROVE AnswersAgree'
  <2> DEFINE new == <<q, answer[q]>>
  <2>1. all' \subseteq all \cup {new} /\ answer' = answer
    BY <1>4 DEF Save, Publish, Event
  <2>2. answer[new[1]] = new[2] /\ answer[new[1]] # NoVersion
    BY <1>4 DEF Save, Publish, AnswersRead
  <2> HIDE DEF new
  <2> QED BY <1>1, <2>1, <2>2 DEF AnswersAgree
<1>5. ASSUME NEW q \in Requests, Arrive(q) \/ FetchFeatures(q) PROVE AnswersAgree'
  BY <1>2, <1>5 DEF Arrive, FetchFeatures
<1>6. ASSUME NEW q \in Requests, Serves(q) PROVE AnswersAgree'
  BY <1>3, <1>4, <1>5, <1>6 DEF Serves, RequestStep
<1>7. ASSUME Delivers \/ Lives PROVE all' \subseteq all
  BY <1>7 DEF Delivers, Delivered, DeliveryFails, Lives, Terminate, Exit, Crash, Start
<1> QED BY <1>2, <1>6, <1>7, StepCases DEF vars, requestVars, Promote

(* persisted is answered only behind the insert. *)
LEMMA PersistedKept ==
    ASSUME TypeOK, AnswersRead, AnswersAgree, PersistedMeansStored, [Next]_vars
    PROVE  PersistedMeansStored'
<1>0. /\ phase \in [Requests -> Ongoing \cup {"new", "refused", "answered", "cut off"}]
      /\ answer \in [Requests -> Known] /\ persisted \in [Requests -> BOOLEAN]
  BY DEF TypeOK
<1>1. ASSUME UNCHANGED <<answer, persisted>>, rows \subseteq rows' PROVE PersistedMeansStored'
  BY <1>1 DEF PersistedMeansStored
<1>2. ASSUME NEW q \in Requests, Predict(q) PROVE PersistedMeansStored'
  <2>1. ~persisted[q]
    <3> SUFFICES ASSUME persisted[q] PROVE FALSE BY <1>0
    <3> DEFINE row == <<q, answer[q]>>
    <3>1. row \in rows /\ row[1] = q BY DEF PersistedMeansStored
    <3>2. answer[q] = NoVersion BY <1>2 DEF Predict, ReadsModel, AnswersRead
    <3> HIDE DEF row
    <3> QED BY <3>1, <3>2 DEF AnswersAgree
  <2>2. /\ UNCHANGED <<persisted, rows>>
        /\ \A w \in Requests \ {q} : answer'[w] = answer[w]
    BY <1>0, <1>2 DEF Predict, ReadsModel
  <2> QED BY <2>1, <2>2 DEF PersistedMeansStored
<1>3. ASSUME NEW q \in Requests, Save(q) PROVE PersistedMeansStored'
  <2>1. /\ answer' = answer /\ rows \subseteq rows'
        /\ \A w \in Requests \ {q} : persisted'[w] = persisted[w]
        /\ \/ <<q, answer[q]>> \in rows'
           \/ persisted' = persisted
    BY <1>0, <1>3 DEF Save
  <2> QED BY <2>1 DEF PersistedMeansStored
<1>4. ASSUME NEW q \in Requests, Serves(q) PROVE PersistedMeansStored'
  BY <1>1, <1>2, <1>3, <1>4 DEF Serves, RequestStep, Arrive, FetchFeatures, Publish
<1> QED BY <1>1, <1>4, StepCases DEF vars, requestVars, Promote

-----------------------------------------------------------------------------
(* The cache. *)
LEMMA MetadataKept == ASSUME MetadataTrue, [Next]_vars PROVE MetadataTrue'
<1>1. ASSUME NEW r \in Refreshers, Refreshes(r) PROVE MetadataTrue'
  BY <1>1 DEF Refreshes, BeginRefresh, ResolveAlias, FinishRefresh, RefreshFails, RefreshHangs,
     MetadataTrue, Artifact
<1>2. CASE Lives
  BY <1>2 DEF Lives, Terminate, Exit, Crash, Start, MetadataTrue, cacheVars
<1>3. ASSUME UNCHANGED cacheVars PROVE MetadataTrue' BY <1>3 DEF cacheVars, MetadataTrue
<1> QED BY <1>1, <1>2, <1>3, StepCases DEF vars, Promote

(* At most one refresher is inside the lock. *)
LEMMA LockHeldKept == ASSUME TypeOK, LockHeld, [Next]_vars PROVE LockHeld'
<1>0. /\ refresh \in [Refreshers -> {"idle", "resolve", "load", "hung"}]
      /\ \A r \in Refreshers : r # Nobody
  BY DEF TypeOK, Refreshers, Nobody
<1>1. ASSUME NEW r \in Refreshers, Refreshes(r) PROVE LockHeld'
  BY <1>0, <1>1 DEF Refreshes, BeginRefresh, ResolveAlias, FinishRefresh, RefreshFails,
     RefreshHangs, Released, LockHeld
<1>2. CASE Start BY <1>2 DEF Start, LockHeld
<1>3. ASSUME UNCHANGED cacheVars PROVE LockHeld' BY <1>3 DEF cacheVars, LockHeld
<1>4. CASE Terminate \/ Exit \/ Crash BY <1>3, <1>4 DEF Terminate, Exit, Crash
<1> QED BY <1>1, <1>2, <1>3, <1>4, StepCases DEF vars, Promote, Lives

(* What a refresh loads under the lock is no older than what is served. *)
LEMMA ServesLatestKept ==
    ASSUME TypeOK, LockHeld, ReadsAhead, ServesLatest, [Next]_vars
    PROVE  ReadsAhead' /\ ServesLatest' /\ (~Start => freshAt <= freshAt')
<1>0. /\ refresh \in [Refreshers -> {"idle", "resolve", "load", "hung"}]
      /\ resolved \in [Refreshers -> Positions] /\ freshAt \in Positions
      /\ \A r \in Refreshers : refresh[r] = "load" => resolved[r] # 0
      /\ Len(champions) \in Nat /\ freshAt \in Nat /\ \A n \in Positions : n \in Nat
      /\ freshAt <= Len(champions)
  <2>1. /\ refresh \in [Refreshers -> {"idle", "resolve", "load", "hung"}]
        /\ resolved \in [Refreshers -> Positions] /\ freshAt \in Positions
        /\ \A r \in Refreshers : refresh[r] = "load" => resolved[r] # 0
    BY DEF TypeOK
  <2> QED BY <2>1, HistoryTypes, PositionsAreNat
<1>1. ASSUME NEW r \in Refreshers, Refreshes(r), UNCHANGED champions
      PROVE  ReadsAhead' /\ ServesLatest' /\ freshAt <= freshAt'
  <2>1. CASE BeginRefresh(r)
    BY <1>0, <1>1, <2>1 DEF BeginRefresh, ReadsAhead, ServesLatest
  <2>2. CASE ResolveAlias(r)
    BY <1>0, <1>1, <2>2 DEF ResolveAlias, ReadsAhead, ServesLatest, Positions
  <2>3. CASE FinishRefresh(r)
    <3>1. freshAt <= resolved[r] /\ resolved[r] # 0 /\ resolved[r] \in Nat
      BY <1>0, <2>3 DEF FinishRefresh, ReadsAhead
    <3>2. freshAt' = resolved[r] BY <1>0, <2>3, <3>1 DEF FinishRefresh
    <3>3. served' = champions[resolved[r]] BY <2>3 DEF FinishRefresh
    <3>4. \A s \in Refreshers : refresh'[s] = "idle"
      BY <1>0, <2>3 DEF FinishRefresh, Released, LockHeld
    <3> QED BY <1>1, <3>1, <3>2, <3>3, <3>4 DEF ReadsAhead, ServesLatest
  <2>4. CASE RefreshFails(r)
    BY <1>0, <1>1, <2>4 DEF RefreshFails, Released, ReadsAhead, ServesLatest
  <2>5. CASE RefreshHangs(r)
    BY <1>0, <1>1, <2>5 DEF RefreshHangs, ReadsAhead, ServesLatest
  <2> QED BY <1>1, <2>1, <2>2, <2>3, <2>4, <2>5 DEF Refreshes
<1>2. CASE Start BY <1>2 DEF Start, ReadsAhead, ServesLatest
<1>3. ASSUME UNCHANGED <<champions, cacheVars>>
      PROVE  ReadsAhead' /\ ServesLatest' /\ freshAt <= freshAt'
  BY <1>0, <1>3 DEF cacheVars, ReadsAhead, ServesLatest
<1>4. CASE Terminate \/ Exit \/ Crash BY <1>3, <1>4 DEF Terminate, Exit, Crash
<1>5. CASE Promote
  <2>1. freshAt # 0 => champions'[freshAt] = champions[freshAt]
    BY <1>0, ChampionsGrow
  <2>2. UNCHANGED <<served, refresh, resolved, freshAt>> BY <1>5 DEF Promote, cacheVars
  <2> QED BY <1>0, <2>1, <2>2 DEF ReadsAhead, ServesLatest
<1> QED BY <1>1, <1>2, <1>3, <1>4, <1>5, StepCases DEF vars, Lives

(* The floor of a request is set at its arrival, and the cache never goes back. *)
LEMMA FloorsBelowKept ==
    ASSUME TypeOK, LockHeld, ReadsAhead, ServesLatest, FloorsBelow, [Next]_vars
    PROVE  FloorsBelow'
<1>0. /\ phase \in [Requests -> Ongoing \cup {"new", "refused", "answered", "cut off"}]
      /\ floor \in [Requests -> Nat] /\ freshAt \in Nat /\ freshAt' \in Nat
      /\ ~Start => freshAt <= freshAt'
  <2>1. freshAt' \in Nat
    <3>1. freshAt' \in Positions' BY CacheTypesKept DEF CacheTypes
    <3> QED BY <3>1, ChampionsGrow DEF Positions
  <2>2. /\ phase \in [Requests -> Ongoing \cup {"new", "refused", "answered", "cut off"}]
        /\ floor \in [Requests -> Positions] /\ freshAt \in Positions
    BY DEF TypeOK
  <2> QED BY <2>1, <2>2, PositionsAreNat, ServesLatestKept
<1>1. ASSUME NEW q \in Requests, Serves(q), UNCHANGED <<life, freshAt>> PROVE FloorsBelow'
  <2>1. CASE Arrive(q)
    <3>1. /\ life = "serving" /\ floor' = [floor EXCEPT ![q] = freshAt]
          /\ \A w \in Requests \ {q} : phase'[w] = phase[w]
      BY <1>0, <2>1 DEF Arrive
    <3>2. floor'[q] = freshAt /\ \A w \in Requests \ {q} : floor'[w] = floor[w] BY <1>0, <3>1
    <3>3. ASSUME NEW w \in Requests, Active(w)' PROVE floor'[w] <= freshAt
      <4>1. CASE w = q
        <5>1. freshAt \in Nat BY <1>0
        <5> QED BY <3>2, <4>1, <5>1
      <4>2. CASE w # q
        <5>1. Active(w) BY <3>1, <3>3, <4>2 DEF Active
        <5>2. floor[w] <= freshAt BY <5>1 DEF FloorsBelow
        <5> QED BY <3>2, <4>2, <5>2
      <4> QED BY <4>1, <4>2
    <3> QED BY <1>1, <3>1, <3>3 DEF FloorsBelow
  <2>2. CASE ~Arrive(q)
    <3>1. /\ floor' = floor /\ phase' = [phase EXCEPT ![q] = phase'[q]] /\ Active(q)
      BY <1>0, <1>1, <2>2
      DEF Serves, RequestStep, FetchFeatures, Predict, ReadsModel, Save, Publish, Active, Ongoing
    <3> QED BY <1>0, <1>1, <3>1 DEF FloorsBelow, Active
  <2> QED BY <2>1, <2>2
<1>2. CASE Start BY <1>2 DEF Start, requestVars, FloorsBelow, Active
<1>3. CASE Exit BY <1>3 DEF Exit, Drained, requestVars, FloorsBelow, Active
<1>4. CASE Crash
  <2>1. \A q \in Requests : ~Active(q)' BY <1>0, <1>4 DEF Crash, Active, Ongoing
  <2> QED BY <2>1 DEF FloorsBelow
<1>5. ASSUME UNCHANGED requestVars, life' # "down" \/ life' = life, ~Start PROVE FloorsBelow'
  <2>1. ASSUME NEW q \in Requests, Active(q)' PROVE life' # "down" /\ floor'[q] <= freshAt'
    <3>1. Active(q) /\ floor'[q] = floor[q] BY <1>5, <2>1 DEF requestVars, Active
    <3>2. life # "down" /\ floor[q] <= freshAt BY <3>1 DEF FloorsBelow
    <3>3. /\ floor[q] \in Nat /\ freshAt \in Nat /\ freshAt' \in Nat
          /\ freshAt <= freshAt'
      BY <1>0, <1>5
    <3>4. floor'[q] <= freshAt' BY <3>1, <3>2, <3>3
    <3> QED BY <1>5, <3>2, <3>4
  <2> QED BY <2>1 DEF FloorsBelow
<1>6. ASSUME NEW r \in Refreshers, Refreshes(r) PROVE life' # "down" \/ life' = life
  BY <1>6 DEF Refreshes, BeginRefresh, ResolveAlias, FinishRefresh, RefreshFails, RefreshHangs,
     Released
<1>7. CASE Terminate BY <1>2, <1>5, <1>7 DEF Terminate
<1> QED BY <1>1, <1>2, <1>3, <1>4, <1>5, <1>6, <1>7, StepCases
       DEF vars, Promote, Lives, cacheVars

(* An answer is the version served at that step, which is not older than the floor. *)
LEMMA AnswersFreshKept ==
    ASSUME TypeOK, AnswersRead, ServesLatest, FloorsBelow, AnswersFresh, [Next]_vars
    PROVE  AnswersFresh'
<1>0. /\ phase \in [Requests -> Ongoing \cup {"new", "refused", "answered", "cut off"}]
      /\ answer \in [Requests -> Known]
      /\ floor \in [Requests -> Nat] /\ freshAt \in Nat /\ freshAt <= Len(champions)
      /\ Len(champions) \in Nat /\ Len(champions') \in Nat /\ Len(champions) <= Len(champions')
      /\ \A i \in 1 .. Len(champions) : champions'[i] = champions[i]
  <2>1. /\ phase \in [Requests -> Ongoing \cup {"new", "refused", "answered", "cut off"}]
        /\ answer \in [Requests -> Known]
        /\ floor \in [Requests -> Positions] /\ freshAt \in Positions
    BY DEF TypeOK
  <2> QED BY <2>1, PositionsAreNat, ChampionsGrow
<1>1. ASSUME NEW q \in Requests, answer'[q] = answer[q], floor'[q] = floor[q],
             phase[q] \in {"predicted", "saved", "answered"}
      PROVE  \E i \in floor'[q] .. Len(champions') : i > 0 /\ champions'[i] = answer'[q]
  <2>1. PICK i \in floor[q] .. Len(champions) : i > 0 /\ champions[i] = answer[q]
    BY <1>1 DEF AnswersFresh
  <2>2. /\ floor[q] \in Nat /\ Len(champions) \in Nat /\ Len(champions') \in Nat
        /\ Len(champions) <= Len(champions')
    BY <1>0
  <2>3. i \in 1 .. Len(champions) /\ i \in floor[q] .. Len(champions') BY <2>1, <2>2
  <2>4. i \in floor'[q] .. Len(champions') /\ i > 0 /\ champions'[i] = answer'[q]
    BY <1>0, <1>1, <2>1, <2>3
  <2> QED BY <2>4
<1>2. ASSUME NEW q \in Requests, Serves(q) PROVE AnswersFresh'
  <2>1. CASE Predict(q)
    <3>1. ASSUME phase'[q] = "predicted"
          PROVE  \E i \in floor'[q] .. Len(champions') : i > 0 /\ champions'[i] = answer'[q]
      <4>1. answer'[q] = served /\ served # NoVersion /\ floor' = floor
        BY <1>0, <2>1, <3>1 DEF Predict, ReadsModel
      <4>2. served = champions[freshAt] /\ freshAt # 0 BY <4>1 DEF ServesLatest
      <4>3. floor[q] <= freshAt BY <2>1 DEF FloorsBelow, Active, Ongoing, Predict, ReadsModel
      <4>4. freshAt \in floor[q] .. Len(champions') /\ freshAt \in 1 .. Len(champions)
        <5>1. /\ floor[q] \in Nat /\ Len(champions) \in Nat /\ Len(champions') \in Nat
              /\ Len(champions) <= Len(champions') /\ freshAt \in Nat
              /\ freshAt <= Len(champions)
          BY <1>0
        <5> QED BY <4>2, <4>3, <5>1
      <4>5. /\ freshAt \in floor'[q] .. Len(champions') /\ freshAt > 0
            /\ champions'[freshAt] = answer'[q]
        <5>1. floor'[q] = floor[q] /\ champions'[freshAt] = champions[freshAt]
          BY <1>0, <4>1, <4>4
        <5>2. freshAt > 0
          <6>1. Len(champions) \in Nat BY <1>0
          <6> QED BY <4>4, <6>1
        <5>3. freshAt \in floor'[q] .. Len(champions') BY <4>4, <5>1
        <5>4. champions'[freshAt] = answer'[q] BY <4>1, <4>2, <5>1
        <5> QED BY <5>2, <5>3, <5>4
      <4> QED BY <4>5
    <3>2. /\ \A w \in Requests \ {q} : phase'[w] = phase[w] /\ answer'[w] = answer[w]
          /\ floor' = floor /\ phase'[q] \in {"predicted", "refused"}
      BY <1>0, <2>1 DEF Predict, ReadsModel
    <3> QED BY <1>1, <3>1, <3>2 DEF AnswersFresh
  <2>2. CASE ~Predict(q)
    <3>1. /\ answer' = answer /\ phase' = [phase EXCEPT ![q] = phase'[q]]
          /\ \A w \in Requests \ {q} : floor'[w] = floor[w]
          /\ phase'[q] \in {"predicted", "saved", "answered"}
                => phase[q] \in {"predicted", "saved"} /\ floor' = floor
      BY <1>0, <1>2, <2>2 DEF Serves, RequestStep, Arrive, FetchFeatures, Save, Publish
    <3>2. \A w \in Requests : phase'[w] \in {"predicted", "saved", "answered"}
             => /\ phase[w] \in {"predicted", "saved", "answered"}
                /\ answer'[w] = answer[w] /\ floor'[w] = floor[w]
      BY <1>0, <3>1
    <3> QED BY <1>1, <3>2 DEF AnswersFresh
  <2> QED BY <2>1, <2>2
<1>3. ASSUME UNCHANGED <<answer, floor>>,
             \A q \in Requests : phase'[q] = phase[q] \/ phase'[q] = "cut off"
      PROVE  AnswersFresh'
  BY <1>1, <1>3 DEF AnswersFresh
<1> QED BY <1>2, <1>3, RequestMoves

(* A stop leaves the queue empty or is counted as rough. *)
LEMMA OrderlyExitKept ==
    ASSUME TypeOK, OrderlyExitPublishes, [Next]_vars
    PROVE  OrderlyExitPublishes'
<1>1. CASE Exit BY <1>1 DEF Exit, OrderlyExitPublishes
<1>2. ASSUME NEW q \in Requests, Serves(q) PROVE queue' = queue \/ life # "down"
  BY <1>2 DEF Serves, RequestStep, Arrive, FetchFeatures, Predict, ReadsModel, Save, Publish, Up
<1>3. ASSUME NEW r \in Refreshers, Refreshes(r) PROVE life' # "down" \/ life' = life
  BY <1>3 DEF Refreshes, BeginRefresh, ResolveAlias, FinishRefresh, RefreshFails, RefreshHangs,
     Released
<1>4. Delivers => queue' \subseteq queue BY DEF Delivers, Delivered, DeliveryFails
<1>5. CASE Terminate \/ Crash \/ Start
  BY <1>5 DEF Terminate, Crash, Start, OrderlyExitPublishes
<1> QED BY <1>1, <1>2, <1>3, <1>4, <1>5, StepCases
       DEF vars, Promote, Lives, OrderlyExitPublishes

-----------------------------------------------------------------------------
(* The invariant holds in the initial state ... *)
LEMMA InitInductive == Init => Inductive
<1> SUFFICES ASSUME Init PROVE Inductive OBVIOUS
<1>1. TypeOK
  <2>1. Len(champions) = 0 /\ champions \in Seq(Versions) BY DEF Init
  <2>2. persisted \in [Requests -> BOOLEAN] /\ rough \in BOOLEAN BY DEF Init
  <2> QED BY <2>1, <2>2, ServiceAssumption
          DEF Init, TypeOK, Known, Positions, Refreshers, Nobody, NoVersion
<1>2. AnswersAgree /\ PersistedMeansStored /\ MetadataTrue /\ AnswersFresh /\ OrderlyExitPublishes
  BY DEF Init, AnswersAgree, PersistedMeansStored, MetadataTrue, AnswersFresh,
     OrderlyExitPublishes
<1>3. AnswersRead /\ LockHeld /\ ReadsAhead /\ ServesLatest /\ FloorsBelow
  BY DEF Init, AnswersRead, LockHeld, ReadsAhead, ServesLatest, FloorsBelow, Active, Ongoing
<1> QED BY <1>1, <1>2, <1>3 DEF Inductive

(* ... is kept by every step ... *)
LEMMA StepInductive == Inductive /\ [Next]_vars => Inductive'
BY TypesKept, AnswersAgreeKept, PersistedKept, MetadataKept, AnswersFreshKept, OrderlyExitKept,
   AnswersReadKept, LockHeldKept, ServesLatestKept, FloorsBelowKept
DEF Inductive

(* ... and so holds always. *)
LEMMA InductiveHolds == Spec => []Inductive
BY InitInductive, StepInductive, PTL DEF Spec

(* Type correctness; a refresh loads only what it has found at the alias. *)
THEOREM ServiceTypes == Spec => []TypeOK
<1>1. Inductive => TypeOK BY DEF Inductive
<1> QED BY <1>1, InductiveHolds, PTL

(* Answer, row and event of a request name one version. *)
THEOREM AnswersDoAgree == Spec => []AnswersAgree
<1>1. Inductive => AnswersAgree BY DEF Inductive
<1> QED BY <1>1, InductiveHolds, PTL

(* A caller that is told persisted finds the row. *)
THEOREM PersistedIsStored == Spec => []PersistedMeansStored
<1>1. Inductive => PersistedMeansStored BY DEF Inductive
<1> QED BY <1>1, InductiveHolds, PTL

(* The metadata are those of the model that is served. *)
THEOREM MetadataIsTrue == Spec => []MetadataTrue
<1>1. Inductive => MetadataTrue BY DEF Inductive
<1> QED BY <1>1, InductiveHolds, PTL

(* No refresh brings an earlier champion back, however refreshes and requests interleave. *)
THEOREM AnswersAreFresh == Spec => []AnswersFresh
<1>1. Inductive => AnswersFresh BY DEF Inductive
<1> QED BY <1>1, InductiveHolds, PTL

(* An orderly shutdown leaves no accepted event behind. *)
THEOREM OrderlyExitIsClean == Spec => []OrderlyExitPublishes
<1>1. Inductive => OrderlyExitPublishes BY DEF Inductive
<1> QED BY <1>1, InductiveHolds, PTL
=============================================================================
