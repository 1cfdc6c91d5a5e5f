--------------------------- MODULE StreamIngestor ---------------------------
(***************************************************************************)
(* The stream ingestor (src/services/stream_ingestor): replicas of one     *)
(* consumer group that move feature and label events from Kafka to the     *)
(* Postgres landing tables and hand what fails validation to a dead-letter *)
(* producer.                                                               *)
(*                                                                         *)
(* A replica is a process with a consume-loop thread (consumer.py, _run),  *)
(* an HTTP thread (api.py: probes, shutdown) and librdkafka's background   *)
(* threads (heartbeats, delivery of dead-letter messages).  The group      *)
(* coordinator, Postgres and the kubelet that acts on the probes are       *)
(* external and modelled from how this code uses them.  Offsets are        *)
(* 0-based as in Kafka; committed[p] is the next offset to read.           *)
(***************************************************************************)
EXTENDS EventLog, FiniteSets

CONSTANTS
    Replicas,       \* the ingestor pods
    NoReplica,      \* the owner of a partition nobody is assigned
    BatchSize,      \* Settings.batch_size
    MaxRetries,     \* Settings.max_retries
    DlqCapacity,    \* messages librdkafka's producer queue takes before BufferError
    FaultKinds,     \* the kinds of fault that may happen
    MaxFaults       \* bound: how many of them may happen, all kinds together

ASSUME IngestorAssumption ==
    /\ NoReplica \notin Replicas
    /\ BatchSize \in Nat \ {0}
    /\ MaxRetries \in Nat
    /\ DlqCapacity \in Nat \ {0}
    /\ FaultKinds \subseteq {"crash", "evict", "write", "commit", "stall", "delivery", "sigterm"}
    /\ MaxFaults \in Nat

VARIABLES
  (* Kafka and Postgres: these survive every crash *)
    committed,      \* the group's committed offsets
    group,          \* the coordinator's view of each replica
    owner,          \* the current generation's assignment
    landing,        \* rows of landing.higgs_feature_events / higgs_label_events
    dlqTopic,       \* messages present in a dead-letter topic
    handed,         \* history: messages ever given to the dead-letter producer
  (* a replica's consume loop *)
    phase,          \* where the loop thread is; "exited" when it ended, "down" without a process
    batch,          \* _poll_batch's list
    cursor,         \* the message of batch that is validated next
    max_offset,     \* per partition, -1 when the batch has none of it
    attempt,        \* failed attempts of _write_with_retry
    assigned,       \* self.assigned
    assignment,     \* partitions the consumer fetches from
    position,       \* next offset the consumer returns, per partition
  (* the rest of the process *)
    dlqQueue,       \* messages in the dead-letter producer's local queue
    loop_error,     \* self.loop_error is set
    last_commit_error,
    stop,           \* self._stop
    flushed,        \* stop() has returned from dlq.flush()
    stalled,        \* a call of the loop thread has not returned for stall_timeout_seconds
  (* bookkeeping *)
    faults,         \* faults so far
    dlqFaulted      \* history: a crash, failed delivery or timed-out flush happened

groupVars == <<group, owner, assigned, assignment, position>>
sinkVars  == <<landing, dlqTopic, handed>>
batchVars == <<batch, cursor, max_offset, attempt>>
probeVars == <<loop_error, last_commit_error, stalled>>
stopVars  == <<stop, flushed>>
vars == <<committed, groupVars, sinkVars, phase, batchVars, dlqQueue, probeVars, stopVars,
          faults, dlqFaulted>>

Landing == INSTANCE ReliableLanding
              WITH landing <- landing, handed <- handed, committed <- committed

Fault(kind) == /\ kind \in FaultKinds
               /\ faults < MaxFaults
               /\ faults' = faults + 1

Up(r) == phase[r] # "down"
LoopRuns(r) == phase[r] \notin {"exited", "down"}

(***************************************************************************)
(* Probes (liveness, readiness)                                            *)
(***************************************************************************)
(* Mutant: liveness that knows a dead thread from a live one, but not a stuck one. *)
LivenessIgnoresStalls(r) == ~loop_error[r] /\ ~(phase[r] = "exited" /\ ~stop[r])

Liveness(r) == /\ ~loop_error[r]
               /\ ~(phase[r] = "exited" /\ ~stop[r])
               /\ ~stalled[r]

Readiness(r) == /\ Liveness(r)
                /\ assigned[r]
                /\ ~last_commit_error[r]

-----------------------------------------------------------------------------
(***************************************************************************)
(* Consumer group.  on_revoke / on_lost run inside a poll, before the      *)
(* consumer joins the next generation; on_assign runs inside a later poll  *)
(* and resets the positions to the committed offsets of that moment.       *)
(***************************************************************************)
RebalanceNeeded == \/ \E r \in Replicas : group[r] = "joining"
                   \/ \E p \in Partitions : owner[p] = NoReplica

OnRevoke(r) == /\ assigned' = [assigned EXCEPT ![r] = FALSE]
               /\ assignment' = [assignment EXCEPT ![r] = {}]
               /\ position' = [position EXCEPT ![r] = [p \in Partitions |-> 0]]

Join(r) == /\ phase[r] = "poll" /\ ~stop[r]
           /\ group[r] = "out" \/ (group[r] = "member" /\ RebalanceNeeded)
           /\ group' = [group EXCEPT ![r] = "joining"]
           /\ OnRevoke(r)
           /\ UNCHANGED <<committed, owner, sinkVars, phase, batchVars, dlqQueue, probeVars,
                          stopVars, faults, dlqFaulted>>

Disown(r) == owner' = [p \in Partitions |-> IF owner[p] = r THEN NoReplica ELSE owner[p]]

(* Everybody has rejoined or been dropped: the new generation starts. *)
CompleteRebalance ==
    LET joiners == {r \in Replicas : group[r] = "joining"}
    IN  /\ joiners # {}
        /\ \A r \in Replicas : group[r] # "member"
        /\ owner' \in [Partitions -> joiners]
        /\ group' = [r \in Replicas |-> IF r \in joiners THEN "member" ELSE group[r]]
        /\ UNCHANGED <<committed, assigned, assignment, position, sinkVars, phase, batchVars,
                       dlqQueue, probeVars, stopVars, faults, dlqFaulted>>

OnAssign(r) ==
    LET mine == {p \in Partitions : owner[p] = r}
    IN  /\ phase[r] = "poll" /\ ~stop[r]
        /\ group[r] = "member" /\ ~assigned[r]
        /\ assigned' = [assigned EXCEPT ![r] = TRUE]
        /\ assignment' = [assignment EXCEPT ![r] = mine]
        /\ position' = [position EXCEPT ![r] =
                          [p \in Partitions |-> IF p \in mine THEN committed[p] ELSE 0]]
        /\ UNCHANGED <<committed, group, owner, sinkVars, phase, batchVars, dlqQueue, probeVars,
                       stopVars, faults, dlqFaulted>>

(* The coordinator drops a replica that runs (session or poll-interval timeout). *)
Evict(r) == /\ group[r] = "member" /\ LoopRuns(r)
            /\ Fault("evict")
            /\ group' = [group EXCEPT ![r] = "out"]
            /\ Disown(r)
            /\ UNCHANGED <<committed, assigned, assignment, position, sinkVars, phase, batchVars,
                           dlqQueue, probeVars, stopVars, dlqFaulted>>

(* ... or one whose process is gone. *)
ExpireSession(r) == /\ group[r] # "out" /\ ~Up(r)
                    /\ group' = [group EXCEPT ![r] = "out"]
                    /\ Disown(r)
                    /\ UNCHANGED <<committed, assigned, assignment, position, sinkVars, phase,
                                   batchVars, dlqQueue, probeVars, stopVars, faults, dlqFaulted>>

-----------------------------------------------------------------------------
(***************************************************************************)
(* The consume loop                                                        *)
(***************************************************************************)
NoOffsets == [p \in Partitions |-> -1]

EmptyBatch(r) == /\ batch' = [batch EXCEPT ![r] = <<>>]
                 /\ cursor' = [cursor EXCEPT ![r] = 1]
                 /\ max_offset' = [max_offset EXCEPT ![r] = NoOffsets]
                 /\ attempt' = [attempt EXCEPT ![r] = 0]

Goto(r, where) == phase' = [phase EXCEPT ![r] = where]

(* Mutant: no `finally: self._consumer.close()`. *)
EndLoopWithoutClose(r, died) ==
    /\ Goto(r, "exited")
    /\ loop_error' = [loop_error EXCEPT ![r] = died]
    /\ EmptyBatch(r)
    /\ UNCHANGED <<committed, groupVars, dlqTopic, handed, dlqQueue, last_commit_error, stalled,
                   stopVars, dlqFaulted>>

(* _run's except and finally clauses: the loop ends and the consumer leaves the group. *)
EndLoop(r, died) == /\ Goto(r, "exited")
                    /\ loop_error' = [loop_error EXCEPT ![r] = died]
                    /\ EmptyBatch(r)
                    /\ group' = [group EXCEPT ![r] = "out"]
                    /\ Disown(r)
                    /\ OnRevoke(r)
                    /\ UNCHANGED <<committed, dlqTopic, handed, dlqQueue, last_commit_error,
                                   stalled, stopVars, dlqFaulted>>

PollMessage(r, p) ==
    /\ phase[r] = "poll" /\ ~stop[r]
    /\ Len(batch[r]) < BatchSize
    /\ p \in assignment[r] /\ position[r][p] < LogEnd(p)
    /\ batch' = [batch EXCEPT ![r] = Append(@, <<p, position[r][p]>>)]
    /\ position' = [position EXCEPT ![r][p] = @ + 1]
    /\ UNCHANGED <<committed, group, owner, assigned, assignment, sinkVars, phase, cursor,
                   max_offset, attempt, dlqQueue, probeVars, stopVars, faults, dlqFaulted>>

(* The batch is full, its deadline has passed, or stop was requested. *)
BatchPolled(r) == /\ phase[r] = "poll" /\ batch[r] # <<>>
                  /\ Goto(r, "validate")
                  /\ UNCHANGED <<committed, groupVars, sinkVars, batchVars, dlqQueue, probeVars,
                                 stopVars, faults, dlqFaulted>>

(* DlqProducer.send: hand the message to the local queue of the producer. *)
SendToDlq(r, m) == /\ dlqQueue' = [dlqQueue EXCEPT ![r] = @ \cup {m}]
                   /\ handed' = handed \cup {m}

Validate(r) ==
    LET m == batch[r][cursor[r]]
    IN  /\ phase[r] = "validate" /\ cursor[r] <= Len(batch[r])
        /\ KindOf(m) # "undecodable"
        /\ \/ KindOf(m) # "invalid" /\ UNCHANGED <<dlqQueue, handed>>
           \/ /\ KindOf(m) = "invalid" /\ Cardinality(dlqQueue[r]) < DlqCapacity
              /\ SendToDlq(r, m)
        /\ max_offset' = [max_offset EXCEPT ![r][m[1]] = IF @ < m[2] THEN m[2] ELSE @]
        /\ cursor' = [cursor EXCEPT ![r] = @ + 1]
        /\ UNCHANGED <<committed, groupVars, landing, dlqTopic, phase, batch, attempt, probeVars,
                       stopVars, faults, dlqFaulted>>

(* An exception _validate does not catch, or BufferError from a full queue. *)
ValidateRaises(r) ==
    LET m == batch[r][cursor[r]]
    IN  /\ phase[r] = "validate" /\ cursor[r] <= Len(batch[r])
        /\ \/ KindOf(m) = "undecodable"
           \/ KindOf(m) = "invalid" /\ Cardinality(dlqQueue[r]) >= DlqCapacity
        /\ EndLoop(r, TRUE)
        /\ UNCHANGED <<landing, faults>>

ParsedRows(r) == {i \in DOMAIN batch[r] : KindOf(batch[r][i]) # "invalid"}

BatchValidated(r) ==
    /\ phase[r] = "validate" /\ cursor[r] > Len(batch[r])
    /\ Goto(r, IF ParsedRows(r) = {} THEN "commit" ELSE "write")
    /\ UNCHANGED <<committed, groupVars, sinkVars, batchVars, dlqQueue, probeVars, stopVars,
                   faults, dlqFaulted>>

Storable(r) == \A i \in ParsedRows(r) : KindOf(batch[r][i]) = "valid"

(* INSERT .. ON CONFLICT (event_id) DO NOTHING: an event that is new to the table gets one of *)
(* its rows in the batch, the others are skipped.                                             *)
Inserts(r) ==
    {rows \in SUBSET {Landing!RowOf(batch[r][i]) : i \in ParsedRows(r)} :
        /\ \A row \in rows : row.event \notin Landing!Landed
        /\ \A row1, row2 \in rows : row1.event = row2.event => row1 = row2
        /\ \A i \in ParsedRows(r) : EventOf(batch[r][i]) \in
                                        Landing!Landed \cup {row.event : row \in rows}}

(* Mutant: ON CONFLICT (event_id) DO UPDATE. *)
WriteBatchOverwrites(r) ==
    LET rows == {Landing!RowOf(batch[r][i]) : i \in ParsedRows(r)}
        last == {row \in rows : \A other \in rows :
                    other.event = row.event => other.offset <= row.offset}
        kept == {row \in landing : \A new \in last : new.event # row.event}
    IN  /\ phase[r] = "write" /\ ~stalled[r] /\ Storable(r)
        /\ landing' = kept \cup last
        /\ Goto(r, "commit")
        /\ UNCHANGED <<committed, groupVars, dlqTopic, handed, batchVars, dlqQueue, probeVars,
                       stopVars, faults, dlqFaulted>>

(* _write_batch: both tables in one transaction. *)
WriteBatch(r) == /\ phase[r] = "write" /\ ~stalled[r]
                 /\ Storable(r)
                 /\ \E rows \in Inserts(r) : landing' = landing \cup rows
                 /\ Goto(r, "commit")
                 /\ UNCHANGED <<committed, groupVars, dlqTopic, handed, batchVars, dlqQueue,
                                probeVars, stopVars, faults, dlqFaulted>>

(* What the caller sees as a failed attempt; Postgres may have committed a transaction   *)
(* whose acknowledgement was lost.                                                        *)
AttemptFails(r) == /\ phase[r] = "write" /\ ~stalled[r]
                   /\ \/ ~Storable(r) /\ UNCHANGED <<faults, landing>>
                      \/ Fault("write") /\ UNCHANGED landing
                      \/ /\ Fault("write") /\ Storable(r)
                         /\ \E rows \in Inserts(r) : landing' = landing \cup rows

RetryWrite(r) == /\ attempt[r] < MaxRetries
                 /\ AttemptFails(r)
                 /\ attempt' = [attempt EXCEPT ![r] = @ + 1]
                 /\ UNCHANGED <<committed, groupVars, dlqTopic, handed, phase, batch, cursor,
                                max_offset, dlqQueue, probeVars, stopVars, dlqFaulted>>

(* Mutant: when the retries are exhausted the batch is dropped and the loop goes on. *)
GiveUpWriteDropsBatch(r) ==
    /\ attempt[r] >= MaxRetries
    /\ AttemptFails(r)
    /\ Goto(r, "commit")
    /\ UNCHANGED <<committed, groupVars, dlqTopic, handed, batchVars, dlqQueue, probeVars, stopVars,
                   dlqFaulted>>

(* Retries exhausted: the exception leaves the loop, no offset is committed. *)
GiveUpWrite(r) == /\ attempt[r] >= MaxRetries
                  /\ AttemptFails(r)
                  /\ EndLoop(r, TRUE)

AdvancedOffsets(r) == [p \in Partitions |-> IF max_offset[r][p] >= 0 THEN max_offset[r][p] + 1
                                                                     ELSE committed[p]]

BatchDone(r, rejected) == /\ phase[r] = "commit" /\ ~stalled[r]
                          /\ Goto(r, "poll")
                          /\ EmptyBatch(r)
                          /\ last_commit_error' = [last_commit_error EXCEPT ![r] = rejected]
                          /\ UNCHANGED <<groupVars, sinkVars, dlqQueue, loop_error, stalled,
                                         stopVars, dlqFaulted>>

(* The broker checks the member and its generation, not who owns the partition. *)
CommitAccepted(r) == /\ group[r] # "out"
                     /\ committed' = AdvancedOffsets(r)
                     /\ BatchDone(r, FALSE)
                     /\ UNCHANGED faults

(* Not a current member, another broker error, or an answer that got lost. *)
CommitRejected(r) == /\ \/ group[r] # "member" /\ UNCHANGED <<committed, faults>>
                        \/ Fault("commit") /\ UNCHANGED committed
                        \/ Fault("commit") /\ group[r] # "out" /\ committed' = AdvancedOffsets(r)
                     /\ BatchDone(r, TRUE)

(* `while not self._stop.is_set()`; a stop cuts _poll_batch short, a batch is still processed. *)
LoopStops(r) == /\ phase[r] = "poll" /\ stop[r] /\ batch[r] = <<>>
                /\ EndLoop(r, FALSE)
                /\ UNCHANGED <<landing, faults>>

(* A database or broker call that does not return (a frozen Postgres) ... *)
Stall(r) == /\ phase[r] \in {"write", "commit"} /\ ~stalled[r]
            /\ Fault("stall")
            /\ stalled' = [stalled EXCEPT ![r] = TRUE]
            /\ UNCHANGED <<committed, groupVars, sinkVars, phase, batchVars, dlqQueue, loop_error,
                           last_commit_error, stopVars, dlqFaulted>>

(* ... and that may or may not return later. *)
Unstall(r) == /\ stalled[r]
              /\ stalled' = [stalled EXCEPT ![r] = FALSE]
              /\ UNCHANGED <<committed, groupVars, sinkVars, phase, batchVars, dlqQueue,
                             loop_error, last_commit_error, stopVars, faults, dlqFaulted>>

-----------------------------------------------------------------------------
(***************************************************************************)
(* The dead-letter producer's background thread.  _on_delivery only logs   *)
(* a failure.                                                              *)
(***************************************************************************)
DlqDelivered(r, m) == /\ m \in dlqQueue[r]
                      /\ dlqQueue' = [dlqQueue EXCEPT ![r] = @ \ {m}]
                      /\ dlqTopic' = dlqTopic \cup {m}
                      /\ UNCHANGED <<committed, groupVars, landing, handed, phase, batchVars,
                                     probeVars, stopVars, faults, dlqFaulted>>

DlqDeliveryFailed(r, m) == /\ m \in dlqQueue[r]
                           /\ Fault("delivery")
                           /\ dlqQueue' = [dlqQueue EXCEPT ![r] = @ \ {m}]
                           /\ dlqFaulted' = TRUE
                           /\ UNCHANGED <<committed, groupVars, sinkVars, phase, batchVars,
                                          probeVars, stopVars>>

-----------------------------------------------------------------------------
(***************************************************************************)
(* Process lifecycle (main.py, api.py lifespan, the pod's probes)          *)
(***************************************************************************)

(* SIGTERM: the kubelet on a failed liveness probe, or a rollout.  stop() sets the event. *)
Stop(r) == /\ Up(r) /\ ~stop[r]
           /\ \/ ~Liveness(r) /\ UNCHANGED faults
              \/ Fault("sigterm")
           /\ stop' = [stop EXCEPT ![r] = TRUE]
           /\ UNCHANGED <<committed, groupVars, sinkVars, phase, batchVars, dlqQueue, probeVars,
                          flushed, dlqFaulted>>

(* Mutant: stop() does not flush the dead-letter producer. *)
StopWithoutFlush(r) ==
    /\ stop[r] /\ ~flushed[r] /\ phase[r] \in {"exited", "write", "commit"}
    /\ flushed' = [flushed EXCEPT ![r] = TRUE]
    /\ UNCHANGED <<committed, groupVars, sinkVars, phase, batchVars, dlqQueue, probeVars, stop,
                   faults, dlqFaulted>>

(* stop() after its join: the loop ended, or it is in a call that outlasts the join's timeout. *)
Flush(r) == /\ stop[r] /\ ~flushed[r] /\ phase[r] \in {"exited", "write", "commit"}
            /\ flushed' = [flushed EXCEPT ![r] = TRUE]
            /\ \/ /\ dlqTopic' = dlqTopic \cup dlqQueue[r]
                  /\ dlqQueue' = [dlqQueue EXCEPT ![r] = {}]
                  /\ UNCHANGED <<faults, dlqFaulted>>
               \/ /\ Fault("delivery") /\ dlqQueue[r] # {}
                  /\ dlqFaulted' = TRUE
                  /\ UNCHANGED <<dlqTopic, dlqQueue>>
            /\ UNCHANGED <<committed, groupVars, landing, handed, phase, batchVars, probeVars,
                           stop>>

(* Everything the process held in memory is gone; the coordinator has not noticed yet. *)
ProcessEnds(r) == /\ Goto(r, "down")
                  /\ EmptyBatch(r)
                  /\ OnRevoke(r)
                  /\ dlqQueue' = [dlqQueue EXCEPT ![r] = {}]
                  /\ loop_error' = [loop_error EXCEPT ![r] = FALSE]
                  /\ last_commit_error' = [last_commit_error EXCEPT ![r] = FALSE]
                  /\ stalled' = [stalled EXCEPT ![r] = FALSE]
                  /\ stop' = [stop EXCEPT ![r] = FALSE]
                  /\ flushed' = [flushed EXCEPT ![r] = FALSE]
                  /\ UNCHANGED <<committed, group, owner, sinkVars>>

Exit(r) == /\ flushed[r]
           /\ ProcessEnds(r)
           /\ UNCHANGED <<faults, dlqFaulted>>

Crash(r) == /\ Up(r)
            /\ Fault("crash")
            /\ ProcessEnds(r)
            /\ dlqFaulted' = TRUE

(* A new process joins once its predecessor's session is gone. *)
Start(r) == /\ ~Up(r) /\ group[r] = "out"
            /\ Goto(r, "poll")
            /\ UNCHANGED <<committed, groupVars, sinkVars, batchVars, dlqQueue, probeVars,
                           stopVars, faults, dlqFaulted>>

-----------------------------------------------------------------------------
Init == /\ committed = [p \in Partitions |-> 0]
        /\ group = [r \in Replicas |-> "out"]
        /\ owner = [p \in Partitions |-> NoReplica]
        /\ landing = {} /\ dlqTopic = {} /\ handed = {}
        /\ phase = [r \in Replicas |-> "poll"]
        /\ batch = [r \in Replicas |-> <<>>]
        /\ cursor = [r \in Replicas |-> 1]
        /\ max_offset = [r \in Replicas |-> NoOffsets]
        /\ attempt = [r \in Replicas |-> 0]
        /\ assigned = [r \in Replicas |-> FALSE]
        /\ assignment = [r \in Replicas |-> {}]
        /\ position = [r \in Replicas |-> [p \in Partitions |-> 0]]
        /\ dlqQueue = [r \in Replicas |-> {}]
        /\ loop_error = [r \in Replicas |-> FALSE]
        /\ last_commit_error = [r \in Replicas |-> FALSE]
        /\ stop = [r \in Replicas |-> FALSE]
        /\ flushed = [r \in Replicas |-> FALSE]
        /\ stalled = [r \in Replicas |-> FALSE]
        /\ faults = 0
        /\ dlqFaulted = FALSE

Poll(r) == Join(r) \/ OnAssign(r) \/ (\E p \in Partitions : PollMessage(r, p)) \/ BatchPolled(r)

ProcessBatch(r) == \/ Validate(r) \/ ValidateRaises(r) \/ BatchValidated(r)
                   \/ WriteBatch(r) \/ RetryWrite(r) \/ GiveUpWrite(r)
                   \/ CommitAccepted(r) \/ CommitRejected(r)

Loop(r) == Poll(r) \/ ProcessBatch(r) \/ LoopStops(r)

Lifecycle(r) == Stop(r) \/ Flush(r) \/ Exit(r) \/ Start(r) \/ ExpireSession(r)

Environment(r) == \/ Evict(r) \/ Stall(r) \/ Unstall(r) \/ Crash(r)
                  \/ \E m \in Messages : DlqDelivered(r, m) \/ DlqDeliveryFailed(r, m)

Next == \/ CompleteRebalance
        \/ \E r \in Replicas : Loop(r) \/ Lifecycle(r) \/ Environment(r)

Spec == Init /\ [][Next]_vars

(***************************************************************************)
(* The loop thread is scheduled, the coordinator completes rebalances and  *)
(* drops dead members, and the kubelet restarts a pod whose liveness probe *)
(* fails and lets the restart take its course.  A call that hangs need     *)
(* never return, and nobody is obliged to stop a healthy pod.              *)
(***************************************************************************)
Fairness == /\ WF_vars(CompleteRebalance)
            /\ \A r \in Replicas : /\ WF_vars(Loop(r))
                                   /\ WF_vars(~Liveness(r) /\ Stop(r))
                                   /\ WF_vars(Flush(r))
                                   /\ WF_vars(Exit(r))
                                   /\ WF_vars(Start(r))
                                   /\ WF_vars(ExpireSession(r))

FairSpec == Spec /\ Fairness

-----------------------------------------------------------------------------
(***************************************************************************)
(* Properties                                                              *)
(***************************************************************************)

(* Every variable has the type the code gives it; positions never pass the log's end. *)
TypeOK ==
    /\ committed \in [Partitions -> Nat]
    /\ \A p \in Partitions : committed[p] <= LogEnd(p)
    /\ group \in [Replicas -> {"out", "joining", "member"}]
    /\ owner \in [Partitions -> Replicas \cup {NoReplica}]
    /\ landing \subseteq Landing!Rows
    /\ handed \subseteq Messages /\ dlqTopic \subseteq Messages
    /\ phase \in [Replicas -> {"poll", "validate", "write", "commit", "exited", "down"}]
    /\ batch \in [Replicas -> Seq(Messages)]
    /\ cursor \in [Replicas -> Nat \ {0}]
    /\ max_offset \in [Replicas -> [Partitions -> Int]]
    /\ attempt \in [Replicas -> Nat]
    /\ assigned \in [Replicas -> BOOLEAN]
    /\ assignment \in [Replicas -> SUBSET Partitions]
    /\ position \in [Replicas -> [Partitions -> Nat]]
    /\ dlqQueue \in [Replicas -> SUBSET Messages]
    /\ loop_error \in [Replicas -> BOOLEAN]
    /\ last_commit_error \in [Replicas -> BOOLEAN]
    /\ stop \in [Replicas -> BOOLEAN]
    /\ flushed \in [Replicas -> BOOLEAN]
    /\ stalled \in [Replicas -> BOOLEAN]
    /\ faults \in Nat /\ dlqFaulted \in BOOLEAN

(* Whatever crashes, evictions, rebalances inside a batch and lost commit answers happen, *)
(* a message below a committed offset has landed or was handed to the dead-letter          *)
(* producer: "never silent data loss".                                                     *)
NoLoss == Landing!NoLoss

(* Two replicas that hold the same messages across a rebalance, a redelivery and a         *)
(* duplicate published upstream still leave one row per event_id.                          *)
LandOnce == Landing!LandOnce

(* The observable behaviour is the promised one: rows are only added, one per event,       *)
(* nothing but invalid messages is quarantined, and commits only cover what is accounted   *)
(* for.                                                                                    *)
ImplementsReliableLanding == Landing!Spec

(* stop() joins the loop before it flushes: as long as no process is killed, no delivery   *)
(* fails and no flush times out, every quarantined message is in its dead-letter topic     *)
(* or still in the queue of a live producer, across restarts of failed loops too.          *)
OrderlyShutdownKeepsQuarantine ==
    ~dlqFaulted => handed \subseteq dlqTopic \cup UNION {dlqQueue[r] : r \in Replicas}

(* /ready never says yes for a replica whose consume loop has ended, whether it died, was  *)
(* stopped or left the group while shutting down.                                          *)
ReadyMeansConsuming == \A r \in Replicas : Readiness(r) => LoopRuns(r)

(* With storable and decodable messages only, everything published is eventually landed or *)
(* quarantined: stalls, exhausted retries, evictions and crashes only delay it.            *)
EventuallyAccounted == <>(\A m \in Messages : Landing!Accounted(m))

(* The invariant behind the safety properties, for every number of partitions, replicas    *)
(* and faults.  Covered is what makes commits safe: a replica's positions and the offsets  *)
(* in its batch have nothing before them that is neither settled nor in the same batch,    *)
(* also when the batch spans a rebalance.                                                  *)
InBatch(r, m) == \E i \in DOMAIN batch[r] : batch[r][i] = m

Covered(r, p, upto) ==
    \A o \in 0 .. (upto - 1) : Landing!Accounted(<<p, o>>) \/ InBatch(r, <<p, o>>)

PositionsCovered == \A r \in Replicas : \A p \in assignment[r] : Covered(r, p, position[r][p])

BatchCovered ==
    \A r \in Replicas : \A i \in DOMAIN batch[r] : Covered(r, batch[r][i][1], batch[r][i][2])

ValidatedPrefix ==
    \A r \in Replicas :
        /\ phase[r] \notin {"validate", "write", "commit"} => cursor[r] = 1
        /\ phase[r] \in {"write", "commit"} => cursor[r] > Len(batch[r])
        /\ \A i \in DOMAIN batch[r] :
              i < cursor[r] /\ KindOf(batch[r][i]) = "invalid" => batch[r][i] \in handed

WrittenBeforeCommit ==
    \A r \in Replicas : phase[r] = "commit" =>
        \A i \in ParsedRows(r) : Landing!Accounted(batch[r][i])

MaxOffsetsSeen ==
    \A r \in Replicas : \A p \in Partitions :
        max_offset[r][p] >= 0 => InBatch(r, <<p, max_offset[r][p]>>)

LoopEndReleases ==
    \A r \in Replicas : ~LoopRuns(r) => ~assigned[r] /\ batch[r] = <<>>

FlushIsLast ==
    \A r \in Replicas : flushed[r] =>
        /\ stop[r]
        /\ phase[r] \in {"exited", "write", "commit"} \/ (phase[r] = "poll" /\ batch[r] = <<>>)
        /\ ~dlqFaulted => dlqQueue[r] = {}

IngestorInvariant ==
    /\ TypeOK /\ NoLoss /\ LandOnce
    /\ PositionsCovered /\ BatchCovered /\ ValidatedPrefix /\ WrittenBeforeCommit
    /\ MaxOffsetsSeen /\ LoopEndReleases /\ FlushIsLast /\ OrderlyShutdownKeepsQuarantine

(* dlq.py:1-8 and RUNBOOKS.md:86-90: a message that fails validation is not dropped; once  *)
(* its offset is committed it is in the dead-letter topic or on its way there.             *)
QuarantineDurable ==
    \A p \in Partitions : \A o \in 0 .. (committed[p] - 1) :
        KindOf(<<p, o>>) = "invalid" =>
            <<p, o>> \in dlqTopic \cup UNION {dlqQueue[r] : r \in Replicas}
=============================================================================
