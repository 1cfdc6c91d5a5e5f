--------------------------- MODULE SourceSimulator ---------------------------
(***************************************************************************)
(* The source simulator (src/services/source_simulator): it turns data set *)
(* rows into feature events, and later into label events, on Kafka.        *)
(*                                                                         *)
(* One process with four threads: the publish loop (simulator.py, _loop),  *)
(* the dispatcher of delayed labels (delay_queue.py), librdkafka's poll    *)
(* thread that runs delivery callbacks (producer.py), and the HTTP thread  *)
(* (api.py: probes, pause, resume, shutdown).  Kafka, the kubelet and the  *)
(* operator are external.  An entity is the index of its row.  Corrupted   *)
(* payloads differ from sound ones in content only and are left out.       *)
(***************************************************************************)
EXTENDS Integers, Sequences

CONSTANTS
    MaxRow,         \* bound: the last row index that is read
    QueueSize,      \* messages the producer's local queue takes before BufferError
    StallTimeout,   \* Settings.stall_timeout_seconds, in ticks
    ErrorWindow,    \* Settings.readiness_error_window_seconds, in ticks
    DownloadTicks,  \* the longest ensure_dataset takes
    RestTicks,      \* the longest pause between two rows: 1/rate, and the back-off of an error
    FaultKinds,     \* the kinds of fault that may happen
    MaxFaults       \* bound: how many of them may happen, all kinds together

ASSUME SimulatorAssumption ==
    /\ MaxRow \in Nat
    /\ QueueSize \in Nat \ {0}
    /\ StallTimeout \in Nat /\ ErrorWindow \in Nat
    /\ DownloadTicks \in Nat /\ RestTicks \in Nat
    /\ FaultKinds \subseteq {"delivery", "fatal", "dataset", "wedge", "sigterm", "crash"}
    /\ MaxFaults \in Nat

VARIABLES
    topic,          \* messages Kafka has stored; survives the process
  (* publish loop *)
    loop,           \* where the loop thread is
    first,          \* Settings.higgs_start_index
    row,            \* index of the last row read
    wedge,          \* a call of the loop: "none" hangs, one "hung", one hung and is "over"
    progressAge,    \* ticks since last_progress_at, up to StallTimeout + 1
  (* delayed dispatcher *)
    pending,        \* the heap, in order of run_at; its head is the label being dispatched
    dispatcher,     \* where the dispatcher thread is
    dispatcher_hung,  \* a call of it into the producer does not return
  (* producer *)
    queue,          \* messages accepted, no delivery report yet
    broken,         \* librdkafka has declared the producer unusable
  (* health and counters *)
    errorAge,       \* ticks since a delivery error no later success has cleared,
                    \* up to ErrorWindow + 1, which also stands for "none"
    fatal_error, loop_error,
    handed,         \* messages publish() took: counts features_published, labels_published
    dropped,        \* messages counted in events_dropped
  (* process *)
    paused,         \* pause_event is cleared
    life,           \* "running", the stages of stop(), or "down"
    rough,          \* history: this process lost a delivery or a join of its shutdown gave up
    faults          \* faults so far

loopVars == <<loop, first, row, wedge, progressAge>>
labelVars == <<pending, dispatcher, dispatcher_hung>>
healthVars == <<errorAge, fatal_error, loop_error>>
countVars == <<handed, dropped>>
lifeVars == <<paused, life, rough>>
vars == <<topic, loopVars, labelVars, queue, broken, healthVars, countVars, lifeVars, faults>>

Feature(e) == <<"feature", e>>
Label(e)   == <<"label", e>>
Messages   == {"feature", "label"} \X (1 .. MaxRow)

Up == life # "down"
Stopping == life \notin {"running", "down"}
Fault(kind) == /\ kind \in FaultKinds
               /\ faults < MaxFaults
               /\ faults' = faults + 1

(***************************************************************************)
(* Probes                                                                  *)
(***************************************************************************)
Ready == loop # "loading"
Stalled == ~paused /\ Ready /\ progressAge > StallTimeout

(* Mutant: the liveness probe before the stall watchdog was added. *)
LivenessIgnoresStalls ==
    ~fatal_error /\ ~loop_error /\ ~(loop = "ended" /\ life = "running")

Liveness == /\ ~fatal_error /\ ~loop_error
            /\ ~(loop = "ended" /\ life = "running")
            /\ life \notin {"flushing", "closed"}       \* the poll thread is alive
            /\ ~Stalled

Readiness == Liveness /\ Ready /\ errorAge > ErrorWindow

-----------------------------------------------------------------------------
(***************************************************************************)
(* KafkaEventProducer.publish, called by the loop and by the dispatcher.   *)
(* A full queue is flushed for five seconds: either deliveries make room   *)
(* or the second produce raises BufferError.  A broken producer raises a   *)
(* fatal KafkaException.                                                   *)
(***************************************************************************)
Full == Len(queue) >= QueueSize

Publish(m) == /\ ~broken /\ ~Full
              /\ queue' = Append(queue, m)
              /\ handed' = handed \cup {m}

PublishRaises == broken \/ Full

(* Mutant: an error path that forgets the counter. *)
OnPublishErrorUncounted(m) == /\ PublishRaises
                              /\ UNCHANGED dropped
                              /\ fatal_error' = (fatal_error \/ broken)

OnPublishError(m) == /\ PublishRaises
                     /\ dropped' = dropped \cup {m}
                     /\ fatal_error' = (fatal_error \/ broken)

(* Mutant: a success that does not clear the earlier error. *)
DeliveredKeepsError == /\ Up /\ queue # <<>> /\ ~broken
                       /\ topic' = topic \cup {Head(queue)}
                       /\ queue' = Tail(queue)
                       /\ UNCHANGED <<loopVars, labelVars, broken, healthVars, countVars,
                                      lifeVars, faults>>

(* A delivery report, served by the poll thread or inside a flush. *)
Delivered == /\ Up /\ queue # <<>> /\ ~broken
             /\ topic' = topic \cup {Head(queue)}
             /\ queue' = Tail(queue)
             /\ errorAge' = ErrorWindow + 1
             /\ UNCHANGED <<loopVars, labelVars, broken, fatal_error, loop_error, countVars,
                            lifeVars, faults>>

(* The message may have been stored although it is reported as failed. *)
DeliveryFails == /\ Up /\ queue # <<>>
                 /\ IF broken THEN UNCHANGED faults ELSE Fault("delivery")
                 /\ topic' \in {topic, topic \cup {Head(queue)}}
                 /\ queue' = Tail(queue)
                 /\ errorAge' = 0
                 /\ fatal_error' = (fatal_error \/ broken)
                 /\ rough' = TRUE
                 /\ UNCHANGED <<loopVars, labelVars, broken, loop_error, countVars, paused, life>>

ProducerBreaks == /\ Up /\ ~broken
                  /\ Fault("fatal")
                  /\ broken' = TRUE
                  /\ UNCHANGED <<topic, loopVars, labelVars, queue, healthVars, countVars,
                                 lifeVars>>

-----------------------------------------------------------------------------
(***************************************************************************)
(* The publish loop.                                                       *)
(***************************************************************************)
LoopAt(places) == Up /\ wedge # "hung" /\ loop \in places

DatasetReady == /\ LoopAt({"loading"})
                /\ loop' = "next"
                /\ UNCHANGED <<topic, first, row, wedge, progressAge, labelVars, queue, broken,
                               healthVars, countVars, lifeVars, faults>>

DatasetFails == /\ LoopAt({"loading"})
                /\ Fault("dataset")
                /\ loop' = "ended"
                /\ loop_error' = TRUE
                /\ UNCHANGED <<topic, first, row, wedge, progressAge, labelVars, queue, broken,
                               errorAge, fatal_error, countVars, lifeVars>>

(* Mutant: the label is scheduled before its feature is published. *)
ReadRowSchedulesLabel ==
    /\ LoopAt({"next"}) /\ ~Stopping /\ ~paused
    /\ row < MaxRow
    /\ row' = row + 1
    /\ progressAge' = 0
    /\ wedge' = "none"
    /\ loop' = "publish"
    /\ pending' = Append(pending, [entity |-> row + 1, twice |-> FALSE])
    /\ UNCHANGED <<topic, first, dispatcher, dispatcher_hung, queue, broken, healthVars,
                   countVars, lifeVars, faults>>

(* From the stop check at the top of the loop to last_progress_at. *)
ReadRow == /\ LoopAt({"next"}) /\ ~Stopping /\ ~paused
           /\ row < MaxRow
           /\ row' = row + 1
           /\ progressAge' = 0
           /\ wedge' = "none"
           /\ loop' = "publish"
           /\ UNCHANGED <<topic, first, labelVars, queue, broken, healthVars, countVars,
                          lifeVars, faults>>

LoopStops == /\ LoopAt({"next"}) /\ Stopping
             /\ loop' = "ended"
             /\ UNCHANGED <<topic, first, row, wedge, progressAge, labelVars, queue, broken,
                            healthVars, countVars, lifeVars, faults>>

PublishFeature == /\ LoopAt({"publish"})
                  /\ Publish(Feature(row))
                  /\ loop' \in {"duplicate", "schedule"}
                  /\ UNCHANGED <<topic, first, row, wedge, progressAge, labelVars, broken,
                                 healthVars, dropped, lifeVars, faults>>

DuplicateFeature == /\ LoopAt({"duplicate"})
                    /\ Publish(Feature(row))
                    /\ loop' = "schedule"
                    /\ UNCHANGED <<topic, first, row, wedge, progressAge, labelVars, broken,
                                   healthVars, dropped, lifeVars, faults>>

(* Either send raises: the label of this row is never scheduled. *)
PublishFeatureFails ==
    /\ LoopAt({"publish", "duplicate"})
    /\ OnPublishError(Feature(row))
    /\ loop' = IF broken THEN "ended" ELSE "rest"
    /\ UNCHANGED <<topic, first, row, wedge, progressAge, labelVars, queue, broken, errorAge,
                   loop_error, handed, lifeVars, faults>>

ScheduleLabel ==
    /\ LoopAt({"schedule"})
    /\ \E twice \in BOOLEAN : pending' = Append(pending, [entity |-> row, twice |-> twice])
    /\ loop' = "rest"
    /\ UNCHANGED <<topic, first, row, wedge, progressAge, dispatcher, dispatcher_hung, queue,
                   broken, healthVars, countVars, lifeVars, faults>>

(* The sleep between two rows ends. *)
Rest == /\ LoopAt({"rest"})
        /\ loop' = "next"
        /\ UNCHANGED <<topic, first, row, wedge, progressAge, labelVars, queue, broken,
                       healthVars, countVars, lifeVars, faults>>

(* A call of the loop into the producer does not return, or does so late. *)
Hang == /\ LoopAt({"publish", "duplicate"})
        /\ Fault("wedge")
        /\ wedge' = "hung"
        /\ UNCHANGED <<topic, loop, first, row, progressAge, labelVars, queue, broken,
                       healthVars, countVars, lifeVars>>

Unhang == /\ Up /\ wedge = "hung"
          /\ wedge' = "over"
          /\ UNCHANGED <<topic, loop, first, row, progressAge, labelVars, queue, broken,
                         healthVars, countVars, lifeVars, faults>>

-----------------------------------------------------------------------------
(***************************************************************************)
(* The dispatcher.  The delay is one constant, so labels leave in the      *)
(* order they were scheduled; when the head is due is left open.  close()  *)
(* is noticed between two callbacks and leaves the rest of the heap.       *)
(***************************************************************************)
Dispatch == /\ Up /\ dispatcher = "idle" /\ pending # <<>>
            /\ life \in {"running", "stopping"}
            /\ dispatcher' = "label"
            /\ UNCHANGED <<topic, loopVars, pending, dispatcher_hung, queue, broken, healthVars,
                           countVars, lifeVars, faults>>

DispatcherEnds == /\ dispatcher = "idle"
                  /\ life \in {"closing", "flushing", "closed"}
                  /\ dispatcher' = "ended"
                  /\ UNCHANGED <<topic, loopVars, pending, dispatcher_hung, queue, broken,
                                 healthVars, countVars, lifeVars, faults>>

InCallback(places) == Up /\ ~dispatcher_hung /\ dispatcher \in places
CallbackReturns == dispatcher' = "idle" /\ pending' = Tail(pending)

PublishLabel == /\ InCallback({"label"})
                /\ Publish(Label(Head(pending).entity))
                /\ \/ /\ Head(pending).twice
                      /\ dispatcher' = "duplicate" /\ UNCHANGED pending
                   \/ ~Head(pending).twice /\ CallbackReturns
                /\ UNCHANGED <<topic, loopVars, dispatcher_hung, broken, healthVars, dropped,
                               lifeVars, faults>>

DuplicateLabel == /\ InCallback({"duplicate"})
                  /\ Publish(Label(Head(pending).entity))
                  /\ CallbackReturns
                  /\ UNCHANGED <<topic, loopVars, dispatcher_hung, broken, healthVars, dropped,
                                 lifeVars, faults>>

(* Mutant: the exception escapes the callback and ends the dispatcher thread. *)
PublishLabelEndsDispatcher == /\ InCallback({"label", "duplicate"})
                              /\ OnPublishError(Label(Head(pending).entity))
                              /\ dispatcher' = "ended" /\ pending' = Tail(pending)
                              /\ UNCHANGED <<topic, loopVars, dispatcher_hung, queue, broken,
                                             errorAge, loop_error, handed, lifeVars, faults>>

PublishLabelFails == /\ InCallback({"label", "duplicate"})
                     /\ OnPublishError(Label(Head(pending).entity))
                     /\ CallbackReturns
                     /\ UNCHANGED <<topic, loopVars, dispatcher_hung, queue, broken, errorAge,
                                    loop_error, handed, lifeVars, faults>>

(* The dispatcher makes the same producer call as the loop, and may hang in it *)
(* as well; no probe looks at this thread.                                     *)
HangDispatcher == /\ InCallback({"label", "duplicate"})
                  /\ Fault("wedge")
                  /\ dispatcher_hung' = TRUE
                  /\ UNCHANGED <<topic, loopVars, pending, dispatcher, queue, broken, healthVars,
                                 countVars, lifeVars>>

UnhangDispatcher == /\ Up /\ dispatcher_hung
                    /\ dispatcher_hung' = FALSE
                    /\ UNCHANGED <<topic, loopVars, pending, dispatcher, queue, broken,
                                   healthVars, countVars, lifeVars, faults>>

-----------------------------------------------------------------------------
(***************************************************************************)
(* HTTP, shutdown, restart.                                                *)
(***************************************************************************)
Pause == /\ life = "running" /\ ~paused
         /\ paused' = TRUE
         /\ UNCHANGED <<topic, loopVars, labelVars, queue, broken, healthVars, countVars, life,
                        rough, faults>>

(* Mutant: resuming does not restart the progress clock. *)
ResumeKeepsClock == /\ life = "running"
                    /\ paused' = FALSE
                    /\ UNCHANGED <<topic, loopVars, labelVars, queue, broken, healthVars,
                                   countVars, life, rough, faults>>

(* Also of a process that is not paused: its progress clock starts again. *)
Resume == /\ life = "running"
          /\ progressAge' = 0
          /\ paused' = FALSE
          /\ UNCHANGED <<topic, loop, first, row, wedge, labelVars, queue, broken, healthVars,
                         countVars, life, rough, faults>>

(* SIGTERM, and stop() up to its join of the loop. *)
StopBegins == /\ life = "running"
              /\ life' = "stopping"
              /\ paused' = FALSE
              /\ UNCHANGED <<topic, loopVars, labelVars, queue, broken, healthVars, countVars,
                             rough>>

RestartUnhealthy == ~Liveness /\ StopBegins /\ UNCHANGED faults
Terminate == StopBegins /\ Fault("sigterm")

(* The join returns because the loop ended, or gives up on one that is blocked. *)
LoopBlocked == \/ wedge = "hung"
               \/ loop \in {"loading", "rest"}
               \/ loop \in {"publish", "duplicate"} /\ Full

CloseDispatcher == /\ life = "stopping"
                   /\ loop = "ended" \/ LoopBlocked
                   /\ life' = "closing"
                   /\ rough' = (rough \/ loop # "ended")
                   /\ UNCHANGED <<topic, loopVars, labelVars, queue, broken, healthVars,
                                  countVars, paused, faults>>

CloseProducer == /\ life = "closing"
                 /\ dispatcher = "ended" \/ (dispatcher # "idle" /\ Full) \/ dispatcher_hung
                 /\ life' = "flushing"
                 /\ rough' = (rough \/ dispatcher # "ended")
                 /\ UNCHANGED <<topic, loopVars, labelVars, queue, broken, healthVars,
                                countVars, paused, faults>>

(* Mutant: close() without the flush. *)
CloseWithoutFlush == /\ life = "flushing"
                     /\ life' = "closed"
                     /\ UNCHANGED <<topic, loopVars, labelVars, queue, broken, healthVars,
                                    countVars, paused, rough, faults>>

FlushReturns == /\ life = "flushing"
                /\ \/ queue = <<>> /\ UNCHANGED <<rough, faults>>
                   \/ broken /\ rough' = TRUE /\ UNCHANGED faults
                   \/ Fault("delivery") /\ rough' = TRUE
                /\ life' = "closed"
                /\ UNCHANGED <<topic, loopVars, labelVars, queue, broken, healthVars, countVars,
                               paused>>

Exit == /\ life = "closed"
        /\ life' = "down"
        /\ UNCHANGED <<topic, loopVars, labelVars, queue, broken, healthVars, countVars, paused,
                       rough, faults>>

Crash == /\ Up
         /\ Fault("crash")
         /\ life' = "down" /\ rough' = TRUE
         /\ UNCHANGED <<topic, loopVars, labelVars, queue, broken, healthVars, countVars, paused>>

(* The operator sets HIGGS_START_INDEX past what has landed so far, or leaves it. *)
StartIndices == 1 .. MaxRow + 1
MayStartAt(i) == i = 1 \/ \E m \in topic : m = Feature(i - 1)

Start == /\ life = "down"
         /\ \E i \in StartIndices :
               MayStartAt(i) /\ first' = i /\ row' = i - 1
         /\ loop' = "loading" /\ wedge' = "none" /\ progressAge' = 0
         /\ pending' = <<>> /\ dispatcher' = "idle" /\ dispatcher_hung' = FALSE
         /\ queue' = <<>> /\ broken' = FALSE
         /\ errorAge' = ErrorWindow + 1 /\ fatal_error' = FALSE /\ loop_error' = FALSE
         /\ handed' = {} /\ dropped' = {}
         /\ paused' = FALSE /\ life' = "running" /\ rough' = FALSE
         /\ UNCHANGED <<topic, faults>>

-----------------------------------------------------------------------------
(***************************************************************************)
(* Time.  It passes while the loop thread is blocked: a thread that can    *)
(* run takes no time a timeout would notice.                               *)
(***************************************************************************)
TimePasses == \/ wedge = "hung"
              \/ loop = "ended"
              \/ loop = "next" /\ paused
              \/ loop = "loading" /\ progressAge < DownloadTicks
              \/ loop = "rest" /\ progressAge < RestTicks

Older(age, limit) == IF age > limit THEN age ELSE age + 1

Tick == /\ life = "running" /\ TimePasses
        /\ progressAge' = Older(progressAge, StallTimeout)
        /\ errorAge' = Older(errorAge, ErrorWindow)
        /\ UNCHANGED <<topic, loop, first, row, wedge, labelVars, queue, broken, fatal_error,
                       loop_error, countVars, lifeVars, faults>>

Init == /\ topic = {}
        /\ loop = "loading" /\ first = 1 /\ row = 0 /\ wedge = "none" /\ progressAge = 0
        /\ pending = <<>> /\ dispatcher = "idle" /\ dispatcher_hung = FALSE
        /\ queue = <<>> /\ broken = FALSE
        /\ errorAge = ErrorWindow + 1 /\ fatal_error = FALSE /\ loop_error = FALSE
        /\ handed = {} /\ dropped = {}
        /\ paused = FALSE /\ life = "running" /\ rough = FALSE
        /\ faults = 0

LoopStep == \/ DatasetReady \/ ReadRow \/ LoopStops
            \/ PublishFeature \/ DuplicateFeature \/ PublishFeatureFails
            \/ ScheduleLabel \/ Rest
DispatcherStep == \/ Dispatch \/ DispatcherEnds
                  \/ PublishLabel \/ DuplicateLabel \/ PublishLabelFails
ShutdownStep == CloseDispatcher \/ CloseProducer \/ FlushReturns \/ Exit

Next == \/ LoopStep \/ DatasetFails \/ Hang \/ Unhang
        \/ DispatcherStep \/ HangDispatcher \/ UnhangDispatcher
        \/ Delivered \/ DeliveryFails \/ ProducerBreaks
        \/ Pause \/ Resume
        \/ RestartUnhealthy \/ Terminate \/ ShutdownStep \/ Crash \/ Start
        \/ Tick

Spec == Init /\ [][Next]_vars

(* Every thread runs, Kafka answers, time passes, and the kubelet restarts what is *)
(* not live.  A loop that waits for pause_event proceeds once the event was set,   *)
(* also if it is cleared again at once: hence the strong fairness of ReadRow.  No  *)
(* fault is fair, a hung call need not return, and nobody must resume a pause.     *)
FairSpec == /\ Spec
            /\ WF_vars(LoopStep)
            /\ SF_vars(ReadRow)
            /\ WF_vars(DispatcherStep)
            /\ WF_vars(Delivered)
            /\ WF_vars(RestartUnhealthy)
            /\ WF_vars(ShutdownStep)
            /\ WF_vars(Start)
            /\ WF_vars(Tick)

-----------------------------------------------------------------------------
(***************************************************************************)
(* Properties                                                              *)
(***************************************************************************)
Ages(limit) == 0 .. limit + 1

(* Every variable keeps its range; in particular the label being dispatched exists. *)
TypeOK ==
    /\ topic \in SUBSET Messages
    /\ loop \in {"loading", "next", "publish", "duplicate", "schedule", "rest", "ended"}
    /\ first \in StartIndices
    /\ row \in (first - 1) .. MaxRow
    /\ wedge \in {"none", "hung", "over"}
    /\ progressAge \in Ages(StallTimeout)
    /\ pending \in Seq([entity : 1 .. MaxRow, twice : BOOLEAN])
    /\ dispatcher \in {"idle", "label", "duplicate", "ended"}
    /\ dispatcher \in {"label", "duplicate"} => pending # <<>>
    /\ dispatcher_hung \in BOOLEAN
    /\ queue \in Seq(Messages)
    /\ broken \in BOOLEAN
    /\ errorAge \in Ages(ErrorWindow)
    /\ fatal_error \in BOOLEAN /\ loop_error \in BOOLEAN
    /\ handed \in SUBSET Messages
    /\ dropped \in SUBSET Messages
    /\ paused \in BOOLEAN
    /\ life \in {"running", "stopping", "closing", "flushing", "closed", "down"}
    /\ rough \in BOOLEAN
    /\ faults \in 0 .. MaxFaults

Waiting(e) == \E i \in 1 .. Len(pending) : pending[i].entity = e
InHand(e) == e = row /\ loop \in {"publish", "duplicate", "schedule"}

(* No row vanishes: the loop and the dispatcher, on two threads, see to it that each   *)
(* row read ends as a published label, or in events_dropped, or is still on its way.   *)
RowsAccounted ==
    \A e \in first .. row : \/ Label(e) \in handed \cup dropped
                            \/ Feature(e) \in dropped
                            \/ Waiting(e) \/ InHand(e)

(* A label is only published for an entity whose feature event the producer has taken, *)
(* however the two threads and the failures of either send interleave.                 *)
LabelsFollowFeatures ==
    \A e \in 1 .. MaxRow : Label(e) \in handed \/ Waiting(e) => Feature(e) \in handed

(* The premise of the watchdog's settings: neither the download nor the sleep between  *)
(* two rows is longer than the stall timeout.                                          *)
Timely == DownloadTicks <= StallTimeout /\ RestTicks <= StallTimeout

(* The watchdog never blames a loop that was not stuck: a pause of any length, with    *)
(* the resume and everything after it, is not a stall (the comment in resume()).       *)
StallMeansWedged ==
    Timely /\ life = "running" /\ Stalled => wedge # "none" \/ loop = "ended"

(* A shutdown whose joins found the threads done and whose flush completed has         *)
(* everything the producer took in Kafka before the process is gone.                   *)
OrderlyStopDelivers == life = "down" /\ ~rough => handed \subseteq topic

(* What the probes are for.  A process whose producer is fatally broken or whose loop  *)
(* has died is always replaced.  So is one whose loop hangs, unless it stays paused for *)
(* ever, or someone resumes it again and again, which restarts the watchdog's clock.    *)
Dead == life # "running" \/ fatal_error \/ loop_error
Sound == ~Dead /\ wedge # "hung"
BrokenIsReplaced ==
    /\ Dead ~> Sound
    /\ []<><<Resume>>_vars \/ (wedge = "hung" ~> Sound \/ []paused)

(* Delivery errors and restarts are passing troubles: /ready comes back once Kafka     *)
(* takes messages again (RUNBOOKS: the simulator recovers on its own), as long as rows *)
(* are left to publish.                                                                *)
ReadinessReturns == row < MaxRow ~> Readiness

(* A feature that was published is followed by its label, unless the label was dropped *)
(* and counted, or the process was stopped first.  A dispatcher that hangs for a while  *)
(* only delays its labels; one that hangs for ever loses them, and no probe tells.      *)
LabelsArrive ==
    \A e \in 1 .. MaxRow :
        Feature(e) \in handed ~> \/ Label(e) \in handed \cup dropped
                                 \/ Feature(e) \in dropped
                                 \/ ~Sound
                                 \/ []dispatcher_hung
=============================================================================
