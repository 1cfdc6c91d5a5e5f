-------------------------- MODULE InferenceService --------------------------
(***************************************************************************)
(* The inference API (src/apps/inference_api): the cached champion model   *)
(* (model.py), predictions that are persisted and then published           *)
(* (service.py, store.py, publisher.py), start-up and shutdown (api.py).   *)
(*                                                                         *)
(* One process: request threads, the refresh loop, refreshes asked for by  *)
(* an operator, and librdkafka's poll thread.  The model registry, the     *)
(* feature server, Postgres and Kafka are external; how the champion alias *)
(* comes to move is in ModelRegistry.                                      *)
(***************************************************************************)
EXTENDS Integers, Sequences

CONSTANTS
    Versions,       \* versions of the registered model
    Requests,       \* calls of /predict
    ByEntity,       \* those of /predict/entity, which fetch their features first
    AutoRefresh,    \* Settings.model_refresh_seconds > 0
    MaxPromotions,  \* bound: how often the champion alias is set
    FaultKinds,     \* the kinds of fault that may happen
    MaxFaults       \* bound: how many of them may happen, all kinds together

ASSUME ServiceAssumption ==
    /\ Versions \subseteq Nat \ {0}
    /\ ByEntity \subseteq Requests
    /\ AutoRefresh \in BOOLEAN
    /\ MaxPromotions \in Nat
    /\ FaultKinds \subseteq {"fetch", "load", "hang", "save", "publish", "flush", "sigterm", "crash"}
    /\ MaxFaults \in Nat

NoVersion == 0
Refreshers == {"startup", "loop", "operator"}
Nobody == "nobody"

VARIABLES
    champions,      \* what the champion alias has pointed at, the last one being current
    life,           \* the process
    rough,          \* history: it was killed, or the producer's flush gave up
  (* ModelCache *)
    served,         \* version of the metadata in _current; NoVersion before the first load
    model,          \* version of the estimator in _current
    lock,           \* who holds _lock
    refresh,        \* where each refresh is
    resolved,       \* what it has read of the alias: an index of champions, or 0
    freshAt,        \* history: the latest index a finished refresh of this process has read
  (* requests *)
    phase,          \* where each request is
    answer,         \* the version it has read and answers with
    persisted,      \* what it answers about the row
    floor,          \* history: freshAt when it arrived
  (* PredictionPublisher *)
    queue,          \* events the producer has accepted, no delivery report yet
  (* outside *)
    rows,           \* ml.predictions: <<request, version>>
    events,         \* predictions.v1: <<request, version>>
    faults          \* faults so far

cacheVars == <<served, model, lock, refresh, resolved, freshAt>>
requestVars == <<phase, answer, persisted, floor>>
vars == <<champions, life, rough, cacheVars, requestVars, queue, rows, events, faults>>

Fault(kind) == kind \in FaultKinds /\ faults < MaxFaults /\ faults' = faults + 1

Up == life \in {"starting", "serving", "draining"}
Ongoing == {"arrived", "fetched", "predicted", "saved"}
Active(q) == phase[q] \in Ongoing

(* External: promote.py sets the champion alias. *)
Promote == /\ Len(champions) < MaxPromotions
           /\ \E v \in Versions : champions' = Append(champions, v)
           /\ UNCHANGED <<life, rough, cacheVars, requestVars, queue, rows, events, faults>>

-----------------------------------------------------------------------------
(***************************************************************************)
(* Refresh: load_initial, the refresh loop and POST /model/refresh.        *)
(***************************************************************************)
MayRefresh(r) == \/ r = "startup" /\ life = "starting"
                 \/ r = "loop" /\ life \in {"serving", "draining"} /\ AutoRefresh
                 \/ r = "operator" /\ life = "serving"

(* Mutant: refresh without the lock. *)
BeginRefreshUnlocked(r) ==
    /\ refresh[r] = "idle" /\ MayRefresh(r)
    /\ refresh' = [refresh EXCEPT ![r] = "resolve"]
    /\ UNCHANGED <<champions, life, rough, served, model, lock, resolved, freshAt, requestVars,
                   queue, rows, events, faults>>

BeginRefresh(r) ==
    /\ refresh[r] = "idle" /\ MayRefresh(r)
    /\ lock = Nobody /\ lock' = r
    /\ refresh' = [refresh EXCEPT ![r] = "resolve"]
    /\ UNCHANGED <<champions, life, rough, served, model, resolved, freshAt, requestVars,
                   queue, rows, events, faults>>

(* get_model_version_by_alias *)
ResolveAlias(r) ==
    /\ Up /\ refresh[r] = "resolve" /\ champions # <<>>
    /\ resolved' = [resolved EXCEPT ![r] = Len(champions)]
    /\ refresh' = [refresh EXCEPT ![r] = "load"]
    /\ UNCHANGED <<champions, life, rough, served, model, lock, freshAt, requestVars,
                   queue, rows, events, faults>>

(* The refresh is over: the lock is free, and after load_initial the service starts. *)
Released(r) == /\ lock' = Nobody
               /\ refresh' = [refresh EXCEPT ![r] = "idle"]
               /\ resolved' = [resolved EXCEPT ![r] = 0]
               /\ life' = IF r = "startup" THEN "serving" ELSE life

(* Mutant: the estimator is loaded by the alias and not by the version it has resolved. *)
ArtifactByAlias(r) == champions[Len(champions)]

(* mlflow.sklearn.load_model of models:/name/version *)
Artifact(r) == champions[resolved[r]]

FinishRefresh(r) ==
    /\ Up /\ refresh[r] = "load"
    /\ \/ /\ served = champions[resolved[r]]
          /\ UNCHANGED <<served, model>>
       \/ /\ served # champions[resolved[r]]
          /\ served' = champions[resolved[r]] /\ model' = Artifact(r)
    /\ freshAt' = IF resolved[r] > freshAt THEN resolved[r] ELSE freshAt
    /\ Released(r)
    /\ UNCHANGED <<champions, rough, requestVars, queue, rows, events, faults>>

(* Mutant: the exception of the loader is not caught, and ends the thread of the loop. *)
RefreshFailureRaises(r) ==
    /\ Up /\ refresh[r] \in {"resolve", "load", "hung"}
    /\ \/ refresh[r] = "resolve" /\ champions = <<>> /\ UNCHANGED faults
       \/ refresh[r] = "hung" /\ UNCHANGED faults
       \/ Fault("load")
    /\ lock' = Nobody
    /\ refresh' = [refresh EXCEPT ![r] = IF r = "loop" THEN "over" ELSE "idle"]
    /\ life' = IF r = "startup" THEN "serving" ELSE life
    /\ UNCHANGED <<champions, rough, served, model, resolved, freshAt, requestVars,
                   queue, rows, events>>

(* No champion, or the registry or the artifact store fails: the old model stays. *)
RefreshFails(r) ==
    /\ Up /\ refresh[r] \in {"resolve", "load", "hung"}
    /\ \/ refresh[r] = "resolve" /\ champions = <<>> /\ UNCHANGED faults
       \/ refresh[r] = "hung" /\ UNCHANGED faults
       \/ Fault("load")
    /\ Released(r)
    /\ UNCHANGED <<champions, rough, served, model, freshAt, requestVars,
                   queue, rows, events>>

(* The registry or the artifact store does not answer, with the lock held. *)
RefreshHangs(r) ==
    /\ Up /\ refresh[r] \in {"resolve", "load"}
    /\ Fault("hang")
    /\ refresh' = [refresh EXCEPT ![r] = "hung"]
    /\ UNCHANGED <<champions, life, rough, served, model, lock, resolved, freshAt, requestVars,
                   queue, rows, events>>

-----------------------------------------------------------------------------
(***************************************************************************)
(* Requests.                                                               *)
(***************************************************************************)
Arrive(q) ==
    /\ life = "serving" /\ phase[q] = "new"
    /\ phase' = [phase EXCEPT ![q] = IF q \in ByEntity THEN "arrived" ELSE "fetched"]
    /\ floor' = [floor EXCEPT ![q] = freshAt]
    /\ UNCHANGED <<champions, life, rough, cacheVars, answer, persisted, queue, rows,
                   events, faults>>

(* The feature server knows the entity or not (404), or fails (502). *)
FetchFeatures(q) ==
    /\ Up /\ phase[q] = "arrived"
    /\ \/ \E to \in {"fetched", "refused"} :
             phase' = [phase EXCEPT ![q] = to] /\ UNCHANGED faults
       \/ phase' = [phase EXCEPT ![q] = "refused"] /\ Fault("fetch")
    /\ UNCHANGED <<champions, life, rough, cacheVars, answer, persisted, floor, queue,
                   rows, events>>

ReadsModel(q) ==
    /\ Up /\ phase[q] = "fetched"
    /\ \/ /\ served = NoVersion
          /\ phase' = [phase EXCEPT ![q] = "refused"] /\ UNCHANGED answer
       \/ /\ served # NoVersion
          /\ answer' = [answer EXCEPT ![q] = served]
          /\ phase' = [phase EXCEPT ![q] = "predicted"]
    /\ UNCHANGED <<champions, life, rough, cacheVars, persisted, floor, queue, rows,
                   events, faults>>

(* Mutant: reading the current model takes the lock. *)
PredictLocked(q) == lock = Nobody /\ ReadsModel(q)

(* The one read of cache.current; no model is a 503. *)
Predict(q) == ReadsModel(q)

(* Mutant: save reports success whatever happened. *)
SaveIgnoresErrors(q) ==
    /\ Up /\ phase[q] = "predicted"
    /\ \/ rows' = rows \cup {<<q, answer[q]>>} /\ UNCHANGED faults
       \/ Fault("save") /\ UNCHANGED rows
    /\ persisted' = [persisted EXCEPT ![q] = TRUE]
    /\ phase' = [phase EXCEPT ![q] = "saved"]
    /\ UNCHANGED <<champions, life, rough, cacheVars, answer, floor, queue, events>>

(* The transaction commits; or it fails, and may have committed all the same. *)
Save(q) ==
    /\ Up /\ phase[q] = "predicted"
    /\ \/ /\ rows' = rows \cup {<<q, answer[q]>>}
          /\ persisted' = [persisted EXCEPT ![q] = TRUE]
          /\ UNCHANGED faults
       \/ /\ Fault("save")
          /\ rows' \in {rows, rows \cup {<<q, answer[q]>>}}
          /\ UNCHANGED persisted
    /\ phase' = [phase EXCEPT ![q] = "saved"]
    /\ UNCHANGED <<champions, life, rough, cacheVars, answer, floor, queue, events>>

(* Mutant: the event asks the cache again. *)
EventRereads(q) == <<q, served>>

Event(q) == <<q, answer[q]>>

(* The event goes out whether or not the row was persisted, and the caller is answered; *)
(* produce may raise, which is counted.                                                  *)
Publish(q) ==
    /\ Up /\ phase[q] = "saved"
    /\ \/ /\ queue' = queue \cup {Event(q)}
          /\ UNCHANGED faults
       \/ Fault("publish") /\ UNCHANGED queue
    /\ phase' = [phase EXCEPT ![q] = "answered"]
    /\ UNCHANGED <<champions, life, rough, cacheVars, answer, persisted, floor, rows, events>>

-----------------------------------------------------------------------------
(***************************************************************************)
(* Delivery reports, on the poll thread.                                   *)
(***************************************************************************)
Delivered(e) == /\ Up /\ e \in queue
                /\ queue' = queue \ {e}
                /\ events' = events \cup {e}
                /\ UNCHANGED <<champions, life, rough, cacheVars, requestVars, rows, faults>>

DeliveryFails(e) == /\ Up /\ e \in queue
                    /\ Fault("publish")
                    /\ queue' = queue \ {e}
                    /\ UNCHANGED <<champions, life, rough, cacheVars, requestVars, rows, events>>

-----------------------------------------------------------------------------
(***************************************************************************)
(* Shutdown and start.  The server lets the requests it has accepted end   *)
(* before it leaves the lifespan, which flushes the producer.              *)
(***************************************************************************)
Terminate == /\ life = "serving"
             /\ Fault("sigterm")
             /\ life' = "draining"
             /\ UNCHANGED <<champions, rough, cacheVars, requestVars, queue, rows, events>>

Drained == /\ \A q \in Requests : ~Active(q)
           /\ refresh["operator"] = "idle"

(* Mutant: the lifespan ends without the flush. *)
ExitWithoutFlush == /\ life = "draining" /\ Drained
                    /\ life' = "down"
                    /\ UNCHANGED <<champions, rough, cacheVars, requestVars, queue, rows,
                                   events, faults>>

Exit == /\ life = "draining" /\ Drained
        /\ \/ queue = {} /\ UNCHANGED <<rough, faults>>
           \/ queue # {} /\ Fault("flush") /\ rough' = TRUE
        /\ life' = "down"
        /\ UNCHANGED <<champions, cacheVars, requestVars, queue, rows, events>>

Crash == /\ Up
         /\ Fault("crash")
         /\ life' = "down" /\ rough' = TRUE
         /\ phase' = [q \in Requests |-> IF Active(q) THEN "cut off" ELSE phase[q]]
         /\ UNCHANGED <<champions, cacheVars, answer, persisted, floor, queue, rows, events>>

Start == /\ life = "down"
         /\ life' = "starting" /\ rough' = FALSE
         /\ served' = NoVersion /\ model' = NoVersion /\ lock' = Nobody
         /\ refresh' = [r \in Refreshers |-> "idle"]
         /\ resolved' = [r \in Refreshers |-> 0]
         /\ freshAt' = 0
         /\ queue' = {}
         /\ UNCHANGED <<champions, requestVars, rows, events, faults>>

-----------------------------------------------------------------------------
Init == /\ champions = <<>>
        /\ life = "starting" /\ rough = FALSE
        /\ served = NoVersion /\ model = NoVersion /\ lock = Nobody
        /\ refresh = [r \in Refreshers |-> "idle"]
        /\ resolved = [r \in Refreshers |-> 0]
        /\ freshAt = 0
        /\ phase = [q \in Requests |-> "new"]
        /\ answer = [q \in Requests |-> NoVersion]
        /\ persisted = [q \in Requests |-> FALSE]
        /\ floor = [q \in Requests |-> 0]
        /\ queue = {}
        /\ rows = {} /\ events = {}
        /\ faults = 0

RefreshEnds(r) == FinishRefresh(r) \/ (refresh[r] # "hung" /\ RefreshFails(r))
RefreshStep(r) == ResolveAlias(r) \/ RefreshEnds(r)
RequestStep(q) == FetchFeatures(q) \/ Predict(q) \/ Save(q) \/ Publish(q)

Next == \/ Promote
        \/ \E r \in Refreshers : \/ BeginRefresh(r) \/ ResolveAlias(r) \/ FinishRefresh(r)
                                 \/ RefreshFails(r) \/ RefreshHangs(r)
        \/ \E q \in Requests : Arrive(q) \/ RequestStep(q)
        \/ \E e \in queue : Delivered(e) \/ DeliveryFails(e)
        \/ Terminate \/ Exit \/ Crash \/ Start

Spec == Init /\ [][Next]_vars

(* The threads of the process run, the loop wakes up, the producer reports, and a    *)
(* process that is down is started again.  No fault is fair, no operator has to ask  *)
(* for a refresh, and a call that hangs need not return.                             *)
FairSpec == /\ Spec
            /\ \A r \in Refreshers : WF_vars(RefreshStep(r))
            /\ WF_vars(BeginRefresh("startup")) /\ WF_vars(BeginRefresh("loop"))
            /\ \A q \in Requests : WF_vars(RequestStep(q))
            /\ WF_vars(\E e \in queue : Delivered(e))
            /\ WF_vars(Exit) /\ WF_vars(Start)

-----------------------------------------------------------------------------
(***************************************************************************)
(* Properties                                                              *)
(***************************************************************************)
Positions == 0 .. Len(champions)
Known == Versions \cup {NoVersion}

(* Every variable keeps its range; a refresh that loads has read the alias. *)
TypeOK ==
    /\ champions \in Seq(Versions)
    /\ life \in {"starting", "serving", "draining", "down"} /\ rough \in BOOLEAN
    /\ served \in Known /\ model \in Known
    /\ lock \in Refreshers \cup {Nobody}
    /\ refresh \in [Refreshers -> {"idle", "resolve", "load", "hung"}]
    /\ resolved \in [Refreshers -> Positions]
    /\ \A r \in Refreshers : refresh[r] = "load" => resolved[r] # 0
    /\ freshAt \in Positions
    /\ phase \in [Requests -> Ongoing \cup {"new", "refused", "answered", "cut off"}]
    /\ answer \in [Requests -> Known]
    /\ persisted \in [Requests -> BOOLEAN]
    /\ floor \in [Requests -> Positions]
    /\ queue \in SUBSET (Requests \X Versions)
    /\ rows \in SUBSET (Requests \X Versions)
    /\ events \in SUBSET (Requests \X Versions)
    /\ faults \in 0 .. MaxFaults

(* What the caller gets, the row and the event name one version, even when the model is  *)
(* replaced between the prediction and its publication (PredictionEvent: "exactly what   *)
(* the caller got").                                                                     *)
AnswersAgree ==
    \A e \in rows \cup queue \cup events :
        answer[e[1]] = e[2] /\ answer[e[1]] # NoVersion

(* A caller that is told persisted finds the row, whatever the transaction's failure.    *)
PersistedMeansStored == \A q \in Requests : persisted[q] => <<q, answer[q]>> \in rows

(* The metadata in every answer are those of the estimator that made it, although the    *)
(* alias may move between resolving it and loading the model.                            *)
MetadataTrue == served = model

(* A request is never answered by a model older than what the latest refresh had found   *)
(* when it arrived: concurrent refreshes do not bring an earlier champion back.          *)
AnswersFresh ==
    \A q \in Requests :
        phase[q] \in {"predicted", "saved", "answered"}
            => \E i \in floor[q] .. Len(champions) : i > 0 /\ champions[i] = answer[q]

(* After an orderly shutdown each accepted event is in Kafka or was reported as failed.  *)
OrderlyExitPublishes == life = "down" /\ ~rough => queue = {}

(* With the refresh loop on, the champion is served in the end, whatever refreshes fail, *)
(* unless a hung one holds the lock.                                                     *)
ChampionGetsServed ==
    AutoRefresh => <>[](\/ champions = <<>>
                        \/ life = "serving" /\ served = champions[Len(champions)]
                        \/ \E r \in Refreshers : refresh[r] = "hung")

(* "A request must never pay that" (model.py): each request ends, also while a refresh   *)
(* hangs in the registry and holds the lock.                                             *)
RequestsEnd == \A q \in Requests : Active(q) ~> ~Active(q)
=============================================================================
