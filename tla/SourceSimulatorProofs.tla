----------------------- MODULE SourceSimulatorProofs -----------------------
(***************************************************************************)
(* The safety properties of SourceSimulator hold for every bound, queue    *)
(* size and timeout.  They follow from one inductive invariant, which says *)
(* besides them where the messages of an undisturbed process are, and how  *)
(* far the progress clock of a loop can get that is not stuck.             *)
(***************************************************************************)
EXTENDS SourceSimulator, SequenceTheorems, TLAPS

(***************************************************************************)
(* Facts about sequences.                                                  *)
(***************************************************************************)
(* An element of a sequence is its head or is in its tail. *)
LEMMA HeadOrTail ==
    ASSUME NEW S, NEW s \in Seq(S), s # <<>>, NEW i \in 1 .. Len(s)
    PROVE  s[i] = Head(s) \/ \E j \in 1 .. Len(Tail(s)) : Tail(s)[j] = s[i]
  <1>1. CASE i = 1
    BY <1>1
  <1>2. CASE i # 1
    <2>1. i - 1 \in 1 .. Len(Tail(s)) /\ Tail(s)[i - 1] = s[i]
      BY <1>2
    <2> QED
      BY <2>1
  <1> QED
    BY <1>1, <1>2

(* What is in the tail was in the sequence. *)
LEMMA TailIsPart ==
    ASSUME NEW S, NEW s \in Seq(S), s # <<>>, NEW j \in 1 .. Len(Tail(s))
    PROVE  j + 1 \in 1 .. Len(s) /\ Tail(s)[j] = s[j + 1]
  OBVIOUS

(* Appending keeps the elements and adds one. *)
LEMMA Appended ==
    ASSUME NEW S, NEW s \in Seq(S), NEW x \in S
    PROVE  /\ \A i \in 1 .. Len(s) : i \in 1 .. Len(Append(s, x)) /\ Append(s, x)[i] = s[i]
           /\ Len(s) + 1 \in 1 .. Len(Append(s, x)) /\ Append(s, x)[Len(s) + 1] = x
           /\ \A i \in 1 .. Len(Append(s, x)) :
                 Append(s, x)[i] = x \/ (i \in 1 .. Len(s) /\ Append(s, x)[i] = s[i])
  <1>1. /\ Len(Append(s, x)) = Len(s) + 1 /\ Len(s) \in Nat
        /\ \A i \in 1 .. Len(s) : Append(s, x)[i] = s[i]
        /\ Append(s, x)[Len(s) + 1] = x
    BY AppendProperties
  <1>2. \A i \in 1 .. Len(s) + 1 : i \in 1 .. Len(s) \/ i = Len(s) + 1
    BY <1>1
  <1>3. \A i \in 1 .. Len(s) : i \in 1 .. Len(s) + 1
    BY <1>1
  <1>4. Len(s) + 1 \in 1 .. Len(s) + 1
    BY <1>1
  <1> QED
    BY <1>1, <1>2, <1>3, <1>4, Zenon

-----------------------------------------------------------------------------
(***************************************************************************)
(* The inductive invariant.                                                *)
(***************************************************************************)
Scheduled == [entity : 1 .. MaxRow, twice : BOOLEAN]
OnRow == {"publish", "duplicate", "schedule"}

(* A loop that works on a row has one. *)
RowAtHand == loop \in OnRow => row >= first

(* LabelsFollowFeatures, and the row whose label is about to be scheduled. *)
LabelsTrail ==
    /\ LabelsFollowFeatures
    /\ loop \in {"duplicate", "schedule"} => Feature(row) \in handed

(* What the producer took is in Kafka or in its queue, and the stages of the shutdown  *)
(* have found the threads done, unless the process was disturbed.                      *)
InFlight(m) == \E i \in 1 .. Len(queue) : queue[i] = m
Undisturbed ==
    ~rough => /\ \A m \in handed : m \in topic \/ InFlight(m)
              /\ life \in {"closing", "flushing", "closed", "down"} => loop = "ended"
              /\ life \in {"flushing", "closed", "down"} => dispatcher = "ended"
              /\ life \in {"closed", "down"} => queue = <<>>

(* The clock of a loop that runs, neither paused nor ever stuck on this row. *)
ClockInTime ==
    Timely /\ life = "running" /\ ~paused /\ wedge = "none" /\ loop # "ended"
        => progressAge <= StallTimeout

SimulatorInvariant == /\ TypeOK
                      /\ RowAtHand
                      /\ RowsAccounted
                      /\ LabelsTrail
                      /\ Undisturbed
                      /\ ClockInTime

(* The initial state satisfies the invariant. *)
LEMMA InitHolds == Init => SimulatorInvariant
  <1> SUFFICES ASSUME Init
               PROVE  SimulatorInvariant
    OBVIOUS
  <1> USE SimulatorAssumption
  <1>1. TypeOK
    <2>1. /\ paused \in BOOLEAN /\ rough \in BOOLEAN /\ broken \in BOOLEAN
          /\ fatal_error \in BOOLEAN /\ loop_error \in BOOLEAN /\ dispatcher_hung \in BOOLEAN
      BY Zenon DEF Init
    <2>2. pending \in Seq(Scheduled) /\ queue \in Seq(Messages)
      BY DEF Init
    <2>3. /\ first \in StartIndices /\ row \in (first - 1) .. MaxRow
          /\ progressAge \in Ages(StallTimeout) /\ errorAge \in Ages(ErrorWindow)
      BY DEF Init, StartIndices, Ages
    <2> QED
      BY <2>1, <2>2, <2>3 DEF Init, TypeOK, Scheduled
  <1>2. RowAtHand /\ RowsAccounted /\ LabelsTrail
    BY DEF Init, RowAtHand, OnRow, RowsAccounted, LabelsTrail, LabelsFollowFeatures, Waiting
  <1>3. Undisturbed /\ ClockInTime
    BY DEF Init, Undisturbed, ClockInTime
  <1> QED
    BY <1>1, <1>2, <1>3 DEF SimulatorInvariant

-----------------------------------------------------------------------------
(***************************************************************************)
(* Types.                                                                  *)
(***************************************************************************)
(* The row at hand names messages of the model. *)
LEMMA RowMessages ==
    ASSUME TypeOK, RowAtHand, loop \in OnRow
    PROVE  /\ row \in 1 .. MaxRow
           /\ Feature(row) \in Messages
  BY SimulatorAssumption DEF TypeOK, RowAtHand, Feature, Messages, StartIndices

(* So does the label at the head of the heap. *)
LEMMA HeadMessages ==
    ASSUME TypeOK, pending # <<>>
    PROVE  /\ Head(pending).entity \in 1 .. MaxRow
           /\ Label(Head(pending).entity) \in Messages
           /\ Tail(pending) \in Seq(Scheduled)
  <1>1. pending \in Seq(Scheduled)
    BY DEF TypeOK, Scheduled
  <1>2. Head(pending) \in Scheduled /\ Tail(pending) \in Seq(Scheduled)
    BY <1>1
  <1> QED
    BY <1>2 DEF Scheduled, Label, Messages

(* Every step keeps the types. *)
LEMMA TypesKept ==
    ASSUME TypeOK, RowAtHand, Next
    PROVE  TypeOK'
  <1> USE SimulatorAssumption
  <1>1. CASE LoopStep \/ DatasetFails \/ Hang \/ Unhang
    <2>1. CASE DatasetReady
      BY <2>1 DEF DatasetReady, LoopAt, TypeOK, labelVars, healthVars, countVars, lifeVars
    <2>2. CASE ReadRow
      BY <2>2 DEF ReadRow, LoopAt, TypeOK, StartIndices, Ages, labelVars, healthVars,
                  countVars, lifeVars
    <2>3. CASE LoopStops
      BY <2>3 DEF LoopStops, LoopAt, TypeOK, labelVars, healthVars, countVars, lifeVars
    <2>4. CASE PublishFeature
      <3>1. Feature(row) \in Messages
        BY <2>4, RowMessages DEF PublishFeature, LoopAt, OnRow
      <3>2. queue' \in Seq(Messages) /\ handed' \in SUBSET Messages
        BY <2>4, <3>1 DEF PublishFeature, Publish, TypeOK
      <3> QED
        BY <2>4, <3>2 DEF PublishFeature, TypeOK, labelVars, healthVars, lifeVars
    <2>5. CASE DuplicateFeature
      <3>1. Feature(row) \in Messages
        BY <2>5, RowMessages DEF DuplicateFeature, LoopAt, OnRow
      <3>2. queue' \in Seq(Messages) /\ handed' \in SUBSET Messages
        BY <2>5, <3>1 DEF DuplicateFeature, Publish, TypeOK
      <3> QED
        BY <2>5, <3>2 DEF DuplicateFeature, TypeOK, labelVars, healthVars, lifeVars
    <2>6. CASE PublishFeatureFails
      <3>1. Feature(row) \in Messages
        BY <2>6, RowMessages DEF PublishFeatureFails, LoopAt, OnRow
      <3>2. dropped' \in SUBSET Messages /\ fatal_error' \in BOOLEAN
        BY <2>6, <3>1 DEF PublishFeatureFails, OnPublishError, TypeOK
      <3> QED
        BY <2>6, <3>2 DEF PublishFeatureFails, TypeOK, labelVars, lifeVars
    <2>7. CASE ScheduleLabel
      <3>1. row \in 1 .. MaxRow
        BY <2>7, RowMessages DEF ScheduleLabel, LoopAt, OnRow
      <3>2. pending' \in Seq(Scheduled) /\ pending' # <<>>
        BY <2>7, <3>1 DEF ScheduleLabel, Scheduled, TypeOK
      <3> QED
        BY <2>7, <3>2 DEF ScheduleLabel, TypeOK, Scheduled, healthVars, countVars, lifeVars
    <2>8. CASE Rest
      BY <2>8 DEF Rest, LoopAt, TypeOK, labelVars, healthVars, countVars, lifeVars
    <2>9. CASE DatasetFails
      BY <2>9 DEF DatasetFails, Fault, TypeOK, labelVars, countVars, lifeVars
    <2>10. CASE Hang
      BY <2>10 DEF Hang, Fault, TypeOK, labelVars, healthVars, countVars, lifeVars
    <2>11. CASE Unhang
      BY <2>11 DEF Unhang, TypeOK, labelVars, healthVars, countVars, lifeVars
    <2> QED
      BY <1>1, <2>1, <2>2, <2>3, <2>4, <2>5, <2>6, <2>7, <2>8, <2>9, <2>10, <2>11 DEF LoopStep
  <1>2. CASE DispatcherStep \/ HangDispatcher \/ UnhangDispatcher
    <2>1. CASE Dispatch
      BY <2>1 DEF Dispatch, TypeOK, loopVars, healthVars, countVars, lifeVars
    <2>2. CASE DispatcherEnds
      BY <2>2 DEF DispatcherEnds, TypeOK, loopVars, healthVars, countVars, lifeVars
    <2>3. ASSUME dispatcher \in {"label", "duplicate"}
          PROVE  /\ Label(Head(pending).entity) \in Messages
                 /\ Tail(pending) \in Seq(Scheduled)
      BY <2>3, HeadMessages DEF TypeOK
    <2>7. CASE HangDispatcher \/ UnhangDispatcher
      <3>1. dispatcher_hung' \in BOOLEAN
        BY <2>7, Zenon DEF HangDispatcher, UnhangDispatcher
      <3>2. faults' \in 0 .. MaxFaults
        BY <2>7 DEF HangDispatcher, UnhangDispatcher, Fault, TypeOK
      <3> QED
        BY <2>7, <3>1, <3>2 DEF HangDispatcher, UnhangDispatcher, TypeOK, loopVars, healthVars,
                                countVars, lifeVars
    <2>4. CASE PublishLabel
      <3>1. queue' \in Seq(Messages) /\ handed' \in SUBSET Messages
        BY <2>4, <2>3 DEF PublishLabel, InCallback, Publish, TypeOK
      <3>2. \/ dispatcher' = "duplicate" /\ pending' = pending
            \/ dispatcher' = "idle" /\ pending' \in Seq(Scheduled)
        BY <2>4, <2>3 DEF PublishLabel, InCallback, CallbackReturns
      <3>3. /\ dispatcher' \in {"idle", "duplicate"} /\ pending' \in Seq(Scheduled)
            /\ dispatcher' = "duplicate" => pending' # <<>>
        BY <2>4, <3>2 DEF PublishLabel, InCallback, TypeOK, Scheduled
      <3> QED
        BY <2>4, <3>1, <3>3 DEF PublishLabel, TypeOK, Scheduled, loopVars, healthVars, lifeVars
    <2>5. CASE DuplicateLabel
      <3>1. queue' \in Seq(Messages) /\ handed' \in SUBSET Messages
        BY <2>5, <2>3 DEF DuplicateLabel, InCallback, Publish, TypeOK
      <3>2. dispatcher' = "idle" /\ pending' \in Seq(Scheduled)
        BY <2>5, <2>3 DEF DuplicateLabel, InCallback, CallbackReturns
      <3> QED
        BY <2>5, <3>1, <3>2 DEF DuplicateLabel, TypeOK, Scheduled, loopVars, healthVars,
                                lifeVars
    <2>6. CASE PublishLabelFails
      <3>1. dropped' \in SUBSET Messages /\ fatal_error' \in BOOLEAN
        BY <2>6, <2>3 DEF PublishLabelFails, InCallback, OnPublishError, TypeOK
      <3>2. dispatcher' = "idle" /\ pending' \in Seq(Scheduled)
        BY <2>6, <2>3 DEF PublishLabelFails, InCallback, CallbackReturns
      <3> QED
        BY <2>6, <3>1, <3>2 DEF PublishLabelFails, TypeOK, Scheduled, loopVars, lifeVars
    <2> QED
      BY <1>2, <2>1, <2>2, <2>4, <2>5, <2>6, <2>7 DEF DispatcherStep
  <1>3. CASE Delivered \/ DeliveryFails \/ ProducerBreaks
    <2>1. CASE ProducerBreaks
      BY <2>1 DEF ProducerBreaks, Fault, TypeOK, loopVars, labelVars, healthVars, countVars,
                  lifeVars
    <2>2. ASSUME queue # <<>>
          PROVE  Head(queue) \in Messages /\ Tail(queue) \in Seq(Messages)
      BY <2>2 DEF TypeOK
    <2>3. CASE Delivered
      <3>1. topic' \in SUBSET Messages /\ queue' \in Seq(Messages)
        BY <2>3, <2>2 DEF Delivered, TypeOK
      <3> QED
        BY <2>3, <3>1 DEF Delivered, TypeOK, Ages, loopVars, labelVars, countVars, lifeVars
    <2>4. CASE DeliveryFails
      <3>1. topic' \in SUBSET Messages /\ queue' \in Seq(Messages)
        BY <2>4, <2>2 DEF DeliveryFails, TypeOK
      <3>2. faults' \in 0 .. MaxFaults
        BY <2>4 DEF DeliveryFails, Fault, TypeOK
      <3>3. fatal_error' \in BOOLEAN
        BY <2>4 DEF DeliveryFails, TypeOK
      <3> QED
        BY <2>4, <3>1, <3>2, <3>3 DEF DeliveryFails, TypeOK, Ages, loopVars, labelVars,
                                      countVars
    <2> QED
      BY <1>3, <2>1, <2>3, <2>4
  <1>4. CASE Pause \/ Resume \/ RestartUnhealthy \/ Terminate \/ ShutdownStep \/ Crash
    <2>1. CASE Pause
      <3>1. paused' \in BOOLEAN
        BY <2>1, Zenon DEF Pause
      <3> QED
        BY <2>1, <3>1 DEF Pause, TypeOK, loopVars, labelVars, healthVars, countVars
    <2>2. CASE Resume
      <3>1. paused' \in BOOLEAN
        BY <2>2, Zenon DEF Resume
      <3> QED
        BY <2>2, <3>1 DEF Resume, TypeOK, Ages, labelVars, healthVars, countVars
    <2>3. CASE RestartUnhealthy \/ Terminate
      <3>1. paused' \in BOOLEAN
        BY <2>3, Zenon DEF RestartUnhealthy, Terminate, StopBegins
      <3> QED
        BY <2>3, <3>1 DEF RestartUnhealthy, Terminate, StopBegins, Fault, TypeOK, loopVars,
                          labelVars, healthVars, countVars
    <2>4. CASE ShutdownStep
      <3>1. rough' \in BOOLEAN
        <4>1. rough \in BOOLEAN
          BY DEF TypeOK
        <4> QED
          BY <2>4, <4>1, Zenon DEF ShutdownStep, CloseDispatcher, CloseProducer, FlushReturns,
                                   Exit
      <3> QED
        <4>1. CASE CloseDispatcher
          BY <3>1, <4>1 DEF CloseDispatcher, TypeOK, loopVars, labelVars, healthVars, countVars
        <4>2. CASE CloseProducer
          BY <3>1, <4>2 DEF CloseProducer, TypeOK, loopVars, labelVars, healthVars, countVars
        <4>3. CASE FlushReturns
          BY <3>1, <4>3 DEF FlushReturns, Fault, TypeOK, loopVars, labelVars, healthVars,
                            countVars
        <4>4. CASE Exit
          BY <3>1, <4>4 DEF Exit, TypeOK, loopVars, labelVars, healthVars, countVars
        <4> QED
          BY <2>4, <4>1, <4>2, <4>3, <4>4 DEF ShutdownStep
    <2>5. CASE Crash
      BY <2>5 DEF Crash, Fault, TypeOK, loopVars, labelVars, healthVars, countVars
    <2> QED
      BY <1>4, <2>1, <2>2, <2>3, <2>4, <2>5
  <1>5. CASE Start
    <2>1. /\ paused' \in BOOLEAN /\ rough' \in BOOLEAN /\ broken' \in BOOLEAN
          /\ fatal_error' \in BOOLEAN /\ loop_error' \in BOOLEAN
          /\ dispatcher_hung' \in BOOLEAN
      BY <1>5, Zenon DEF Start
    <2>2. pending' \in Seq(Scheduled) /\ queue' \in Seq(Messages)
      BY <1>5 DEF Start
    <2>3. /\ first' \in StartIndices /\ row' \in (first' - 1) .. MaxRow
          /\ progressAge' \in Ages(StallTimeout) /\ errorAge' \in Ages(ErrorWindow)
      BY <1>5 DEF Start, StartIndices, Ages
    <2> QED
      BY <1>5, <2>1, <2>2, <2>3 DEF Start, TypeOK, Scheduled
  <1>6. CASE Tick
    BY <1>6 DEF Tick, Older, TypeOK, Ages, labelVars, countVars, lifeVars
  <1> QED
    BY <1>1, <1>2, <1>3, <1>4, <1>5, <1>6 DEF Next

-----------------------------------------------------------------------------
(***************************************************************************)
(* What waits in the heap and in the producer's queue.                     *)
(***************************************************************************)
(* Scheduling a label adds its entity to those that wait. *)
LEMMA WaitingAppended ==
    ASSUME TypeOK, NEW l \in Scheduled, pending' = Append(pending, l)
    PROVE  \A e : Waiting(e)' <=> Waiting(e) \/ e = l.entity
  <1>1. pending \in Seq(Scheduled)
    BY DEF TypeOK, Scheduled
  <1> QED
    BY <1>1, Appended DEF Waiting

(* Taking the head off the heap removes at most its entity. *)
LEMMA WaitingTail ==
    ASSUME TypeOK, pending # <<>>, pending' = Tail(pending)
    PROVE  \A e : /\ Waiting(e)' => Waiting(e)
                  /\ Waiting(e) => Waiting(e)' \/ e = Head(pending).entity
  <1>1. pending \in Seq(Scheduled)
    BY DEF TypeOK, Scheduled
  <1>2. \A e : Waiting(e)' => Waiting(e)
    BY <1>1, TailIsPart DEF Waiting
  <1>3. \A e : Waiting(e) => Waiting(e)' \/ e = Head(pending).entity
    BY <1>1, HeadOrTail DEF Waiting
  <1> QED
    BY <1>2, <1>3

(* The head of the heap waits. *)
LEMMA HeadWaits ==
    ASSUME TypeOK, pending # <<>>
    PROVE  Waiting(Head(pending).entity)
  <1>1. pending \in Seq(Scheduled)
    BY DEF TypeOK, Scheduled
  <1>2. 1 \in 1 .. Len(pending) /\ pending[1] = Head(pending)
    BY <1>1
  <1> QED
    BY <1>2 DEF Waiting

(* The same for the producer's queue: appending a message keeps the rest. *)
LEMMA InFlightAppended ==
    ASSUME TypeOK, NEW m \in Messages, queue' = Append(queue, m)
    PROVE  \A n : InFlight(n) \/ n = m => InFlight(n)'
  <1>1. queue \in Seq(Messages)
    BY DEF TypeOK
  <1> QED
    BY <1>1, Appended DEF InFlight

(* And delivering its head removes at most that message. *)
LEMMA InFlightTail ==
    ASSUME TypeOK, queue # <<>>, queue' = Tail(queue)
    PROVE  \A n : InFlight(n) => InFlight(n)' \/ n = Head(queue)
  <1>1. queue \in Seq(Messages)
    BY DEF TypeOK
  <1> QED
    BY <1>1, HeadOrTail DEF InFlight

-----------------------------------------------------------------------------
(***************************************************************************)
(* The rows.                                                               *)
(***************************************************************************)
(* Every step keeps RowAtHand: only ReadRow and the steps of one row move the loop     *)
(* among the places where it works on a row.                                           *)
LEMMA RowAtHandKept ==
    ASSUME TypeOK, RowAtHand, Next
    PROVE  RowAtHand'
  <1> USE DEF RowAtHand, OnRow
  <1>1. CASE LoopStep
    BY <1>1 DEF LoopStep, LoopAt, DatasetReady, ReadRow, LoopStops, PublishFeature,
                DuplicateFeature, PublishFeatureFails, ScheduleLabel, Rest, TypeOK,
                StartIndices
  <1>2. CASE DatasetFails \/ Hang \/ Unhang
    BY <1>2 DEF DatasetFails, Hang, Unhang
  <1>3. CASE DispatcherStep \/ HangDispatcher \/ UnhangDispatcher
    BY <1>3 DEF DispatcherStep, Dispatch, DispatcherEnds, PublishLabel, DuplicateLabel,
                PublishLabelFails, HangDispatcher, UnhangDispatcher, loopVars
  <1>4. CASE Delivered \/ DeliveryFails \/ ProducerBreaks
    BY <1>4 DEF Delivered, DeliveryFails, ProducerBreaks, loopVars
  <1>5. CASE Pause \/ Resume \/ RestartUnhealthy \/ Terminate \/ ShutdownStep \/ Crash
    BY <1>5 DEF Pause, Resume, RestartUnhealthy, Terminate, StopBegins, ShutdownStep,
                CloseDispatcher, CloseProducer, FlushReturns, Exit, Crash, loopVars
  <1>6. CASE Start \/ Tick
    BY <1>6 DEF Start, Tick
  <1> QED
    BY <1>1, <1>2, <1>3, <1>4, <1>5, <1>6 DEF Next

(* Steps that leave the rows, the labels and the counters alone, and the loop where it *)
(* was or away from its row.                                                           *)
RowsUntouched == /\ UNCHANGED <<first, row, pending, handed, dropped>>
                 /\ loop' = loop \/ (loop \notin OnRow /\ loop' \notin OnRow)

(* Such a step keeps what is known about the rows. *)
LEMMA UntouchedRowsKept ==
    ASSUME RowsAccounted, LabelsTrail, RowsUntouched
    PROVE  RowsAccounted' /\ LabelsTrail'
  <1>1. \A e : Waiting(e)' <=> Waiting(e)
    BY DEF RowsUntouched, Waiting
  <1>2. \A e : InHand(e)' <=> InHand(e)
    BY DEF RowsUntouched, InHand, OnRow
  <1>3. RowsAccounted'
    BY <1>1, <1>2 DEF RowsUntouched, RowsAccounted
  <1>4. LabelsTrail'
    BY <1>1 DEF RowsUntouched, LabelsTrail, LabelsFollowFeatures, OnRow
  <1> QED
    BY <1>3, <1>4

(* Which steps these are. *)
LEMMA UntouchingSteps ==
    ASSUME Next
    PROVE  \/ RowsUntouched
           \/ ReadRow \/ PublishFeature \/ DuplicateFeature \/ PublishFeatureFails
           \/ ScheduleLabel \/ PublishLabel \/ DuplicateLabel \/ PublishLabelFails
           \/ Start
  <1> USE DEF RowsUntouched, OnRow, loopVars, labelVars, countVars
  <1>1. ASSUME DatasetReady \/ DatasetFails \/ LoopStops \/ Rest \/ Hang \/ Unhang
        PROVE  RowsUntouched
    BY <1>1 DEF LoopAt, DatasetReady, DatasetFails, LoopStops, Rest, Hang, Unhang
  <1>2. ASSUME Dispatch \/ DispatcherEnds \/ HangDispatcher \/ UnhangDispatcher
        PROVE  RowsUntouched
    BY <1>2 DEF Dispatch, DispatcherEnds, HangDispatcher, UnhangDispatcher
  <1>3. ASSUME Delivered \/ DeliveryFails \/ ProducerBreaks
        PROVE  RowsUntouched
    BY <1>3 DEF Delivered, DeliveryFails, ProducerBreaks
  <1>4. ASSUME Pause \/ Resume \/ RestartUnhealthy \/ Terminate \/ ShutdownStep \/ Crash
        PROVE  RowsUntouched
    BY <1>4 DEF Pause, Resume, RestartUnhealthy, Terminate, StopBegins, ShutdownStep,
                CloseDispatcher, CloseProducer, FlushReturns, Exit, Crash
  <1>5. ASSUME Tick
        PROVE  RowsUntouched
    BY <1>5 DEF Tick
  <1> QED
    BY <1>1, <1>2, <1>3, <1>4, <1>5 DEF Next, LoopStep, DispatcherStep

(* Taking a message into the producer, with the loop still on its row. *)
LEMMA FeatureTaken ==
    ASSUME TypeOK, RowAtHand, RowsAccounted, LabelsTrail,
           LoopAt({"publish", "duplicate"}), Publish(Feature(row)),
           loop' \in {"duplicate", "schedule"},
           UNCHANGED <<first, row, pending, dropped>>
    PROVE  RowsAccounted' /\ LabelsTrail'
  <1>1. \A e : Waiting(e)' <=> Waiting(e)
    BY DEF Waiting
  <1>2. handed' = handed \cup {Feature(row)}
    BY DEF Publish
  <1>3. \A e : InHand(e) => InHand(e)'
    BY DEF InHand
  <1>4. RowsAccounted'
    BY <1>1, <1>2, <1>3 DEF RowsAccounted
  <1>5. \A e : Label(e) \in handed' => Label(e) \in handed
    BY <1>2 DEF Label, Feature
  <1>6. LabelsTrail'
    BY <1>1, <1>2, <1>5 DEF LabelsTrail, LabelsFollowFeatures
  <1> QED
    BY <1>4, <1>6

(* Taking a label into the producer: its entity may leave the heap. *)
LEMMA LabelTaken ==
    ASSUME TypeOK, RowsAccounted, LabelsTrail,
           pending # <<>>, Publish(Label(Head(pending).entity)),
           pending' = pending \/ pending' = Tail(pending),
           UNCHANGED <<loop, first, row, dropped>>
    PROVE  RowsAccounted' /\ LabelsTrail'
  <1>1. \A e : /\ Waiting(e)' => Waiting(e)
               /\ Waiting(e) => Waiting(e)' \/ e = Head(pending).entity
    <2>1. CASE pending' = pending
      BY <2>1 DEF Waiting
    <2>2. CASE pending' = Tail(pending)
      BY <2>2, WaitingTail
    <2> QED
      BY <2>1, <2>2
  <1>2. handed' = handed \cup {Label(Head(pending).entity)}
    BY DEF Publish
  <1>3. \A e : InHand(e) <=> InHand(e)'
    BY DEF InHand
  <1>4. RowsAccounted'
    BY <1>1, <1>2, <1>3 DEF RowsAccounted
  <1>5. \A e : Label(e) \in handed' => Label(e) \in handed \/ e = Head(pending).entity
    BY <1>2 DEF Label
  <1>6. Head(pending).entity \in 1 .. MaxRow /\ Waiting(Head(pending).entity)
    BY HeadMessages, HeadWaits
  <1>7. LabelsTrail'
    BY <1>1, <1>2, <1>5, <1>6 DEF LabelsTrail, LabelsFollowFeatures
  <1> QED
    BY <1>4, <1>7

(* Nothing lies between a number and the one below it. *)
LEMMA NoRowBefore ==
    ASSUME NEW i \in Int
    PROVE  i .. i - 1 = {}
  OBVIOUS

(* Every step keeps the account of the rows and the order of features and labels. *)
LEMMA RowsKept ==
    ASSUME TypeOK, RowAtHand, RowsAccounted, LabelsTrail, Next
    PROVE  RowsAccounted' /\ LabelsTrail'
  <1>1. CASE RowsUntouched
    BY <1>1, UntouchedRowsKept
  <1>2. CASE ReadRow
    <2>1. /\ first' = first /\ row' = row + 1 /\ loop' = "publish" /\ loop = "next"
          /\ handed' = handed /\ dropped' = dropped /\ pending' = pending
      BY <1>2 DEF ReadRow, LoopAt, labelVars, countVars
    <2>2. \A e : Waiting(e)' <=> Waiting(e)
      BY <2>1 DEF Waiting
    <2>3. \A e \in first .. row : ~InHand(e)
      BY <2>1 DEF InHand
    <2>4. \A e \in first' .. row' : e \in first .. row \/ InHand(e)'
      BY <2>1 DEF InHand, TypeOK, StartIndices
    <2>5. RowsAccounted'
      BY <2>1, <2>2, <2>3, <2>4 DEF RowsAccounted
    <2>6. LabelsTrail'
      BY <2>1, <2>2 DEF LabelsTrail, LabelsFollowFeatures
    <2> QED
      BY <2>5, <2>6
  <1>3. CASE PublishFeature
    BY <1>3, FeatureTaken DEF PublishFeature, LoopAt, labelVars
  <1>4. CASE DuplicateFeature
    BY <1>4, FeatureTaken DEF DuplicateFeature, LoopAt, labelVars
  <1>5. CASE PublishFeatureFails
    <2>1. /\ first' = first /\ row' = row /\ loop' \in {"ended", "rest"}
          /\ handed' = handed /\ dropped' = dropped \cup {Feature(row)}
          /\ pending' = pending
      BY <1>5 DEF PublishFeatureFails, OnPublishError, labelVars
    <2>2. \A e : Waiting(e)' <=> Waiting(e)
      BY <2>1 DEF Waiting
    <2>3. \A e : InHand(e) => Feature(e) \in dropped'
      BY <2>1 DEF InHand
    <2>4. RowsAccounted'
      BY <2>1, <2>2, <2>3 DEF RowsAccounted
    <2>5. LabelsTrail'
      BY <2>1, <2>2 DEF LabelsTrail, LabelsFollowFeatures
    <2> QED
      BY <2>4, <2>5
  <1>6. CASE ScheduleLabel
    <2>1. /\ first' = first /\ row' = row /\ loop' = "rest" /\ loop = "schedule"
          /\ handed' = handed /\ dropped' = dropped
      BY <1>6 DEF ScheduleLabel, LoopAt, countVars
    <2>2. row \in 1 .. MaxRow
      BY <2>1, RowMessages DEF OnRow
    <2>3. PICK twice \in BOOLEAN :
              pending' = Append(pending, [entity |-> row, twice |-> twice])
      BY <1>6 DEF ScheduleLabel
    <2>4. \A e : Waiting(e)' <=> Waiting(e) \/ e = row
      <3>1. [entity |-> row, twice |-> twice] \in Scheduled
        BY <2>2 DEF Scheduled
      <3> QED
        BY <2>3, <3>1, WaitingAppended
    <2>5. RowsAccounted'
      BY <2>1, <2>4 DEF RowsAccounted, InHand
    <2>6. LabelsTrail'
      BY <2>1, <2>4 DEF LabelsTrail, LabelsFollowFeatures
    <2> QED
      BY <2>5, <2>6
  <1>7. CASE PublishLabel \/ DuplicateLabel
    <2>1. pending # <<>>
      BY <1>7 DEF PublishLabel, DuplicateLabel, InCallback, TypeOK
    <2> QED
      BY <1>7, <2>1, LabelTaken DEF PublishLabel, DuplicateLabel, CallbackReturns, loopVars
  <1>8. CASE PublishLabelFails
    <2>1. pending # <<>>
      BY <1>8 DEF PublishLabelFails, InCallback, TypeOK
    <2>2. /\ first' = first /\ row' = row /\ loop' = loop
          /\ handed' = handed /\ dropped' = dropped \cup {Label(Head(pending).entity)}
          /\ pending' = Tail(pending)
      BY <1>8 DEF PublishLabelFails, OnPublishError, CallbackReturns, loopVars
    <2>3. \A e : /\ Waiting(e)' => Waiting(e)
                 /\ Waiting(e) => Waiting(e)' \/ e = Head(pending).entity
      BY <2>1, <2>2, WaitingTail
    <2>4. RowsAccounted'
      BY <2>2, <2>3 DEF RowsAccounted, InHand
    <2>5. LabelsTrail'
      BY <2>2, <2>3 DEF LabelsTrail, LabelsFollowFeatures
    <2> QED
      BY <2>4, <2>5
  <1>9. CASE Start
    <2>1. /\ row' = first' - 1 /\ first' \in StartIndices /\ loop' = "loading"
          /\ handed' = {} /\ dropped' = {} /\ pending' = <<>>
      BY <1>9 DEF Start
    <2>2. RowsAccounted'
      <3>1. first' \in Int
        BY <2>1, SimulatorAssumption DEF StartIndices
      <3>2. first' .. row' = {}
        BY <2>1, <3>1, NoRowBefore
      <3> QED
        BY <3>2 DEF RowsAccounted
    <2>3. LabelsTrail'
      BY <2>1 DEF LabelsTrail, LabelsFollowFeatures, Waiting
    <2> QED
      BY <2>2, <2>3
  <1> QED
    BY <1>1, <1>2, <1>3, <1>4, <1>5, <1>6, <1>7, <1>8, <1>9, UntouchingSteps

-----------------------------------------------------------------------------
(***************************************************************************)
(* The messages.                                                           *)
(***************************************************************************)
(* What Undisturbed speaks of, apart from the messages themselves. *)
StagesFound ==
    ~rough => /\ life \in {"closing", "flushing", "closed", "down"} => loop = "ended"
              /\ life \in {"flushing", "closed", "down"} => dispatcher = "ended"
              /\ life \in {"closed", "down"} => queue = <<>>
MessagesKept == ~rough => \A m \in handed : m \in topic \/ InFlight(m)

(* Undisturbed is the conjunction of the two. *)
LEMMA UndisturbedParts == Undisturbed <=> MessagesKept /\ StagesFound
  BY DEF Undisturbed, MessagesKept, StagesFound

(* A step that leaves the messages alone keeps them. *)
LEMMA SameMessages ==
    ASSUME MessagesKept, UNCHANGED <<topic, queue, handed>>, rough => rough'
    PROVE  MessagesKept'
  BY DEF MessagesKept, InFlight

(* Taking a message keeps them. *)
LEMMA MessageTaken ==
    ASSUME TypeOK, MessagesKept, NEW m \in Messages, Publish(m),
           UNCHANGED <<topic, rough>>
    PROVE  MessagesKept'
  <1>1. queue' = Append(queue, m) /\ handed' = handed \cup {m}
    BY DEF Publish
  <1>2. \A n : InFlight(n) \/ n = m => InFlight(n)'
    BY <1>1, InFlightAppended
  <1> QED
    BY <1>1, <1>2 DEF MessagesKept

(* Every step keeps them: a message leaves the queue into the topic, or the process    *)
(* becomes a disturbed one.                                                            *)
LEMMA MessagesStayKept ==
    ASSUME TypeOK, RowAtHand, MessagesKept, Next
    PROVE  MessagesKept'
  <1>1. CASE DatasetReady \/ DatasetFails \/ ReadRow \/ LoopStops \/ PublishFeatureFails
             \/ ScheduleLabel \/ Rest \/ Hang \/ Unhang
    BY <1>1, SameMessages DEF DatasetReady, DatasetFails, ReadRow, LoopStops,
       PublishFeatureFails, ScheduleLabel, Rest, Hang, Unhang, countVars, lifeVars
  <1>2. CASE PublishFeature \/ DuplicateFeature
    <2>1. Feature(row) \in Messages
      BY <1>2, RowMessages DEF PublishFeature, DuplicateFeature, LoopAt, OnRow
    <2> QED
      BY <1>2, <2>1, MessageTaken DEF PublishFeature, DuplicateFeature, lifeVars
  <1>3. CASE Dispatch \/ DispatcherEnds \/ PublishLabelFails \/ HangDispatcher
             \/ UnhangDispatcher
    BY <1>3, SameMessages DEF Dispatch, DispatcherEnds, PublishLabelFails, HangDispatcher,
       UnhangDispatcher, countVars, lifeVars
  <1>4. CASE PublishLabel \/ DuplicateLabel
    <2>1. Label(Head(pending).entity) \in Messages
      BY <1>4, HeadMessages DEF PublishLabel, DuplicateLabel, InCallback, TypeOK
    <2> QED
      BY <1>4, <2>1, MessageTaken DEF PublishLabel, DuplicateLabel, lifeVars
  <1>5. CASE Delivered
    <2>1. /\ queue # <<>> /\ queue' = Tail(queue) /\ topic' = topic \cup {Head(queue)}
          /\ handed' = handed /\ rough' = rough
      BY <1>5 DEF Delivered, countVars, lifeVars
    <2>2. \A n : InFlight(n) => InFlight(n)' \/ n = Head(queue)
      BY <2>1, InFlightTail
    <2> QED
      BY <2>1, <2>2 DEF MessagesKept
  <1>6. CASE DeliveryFails \/ Crash
    BY <1>6 DEF DeliveryFails, Crash, MessagesKept
  <1>7. CASE ProducerBreaks \/ Pause \/ Resume \/ RestartUnhealthy \/ Terminate \/ Tick
    BY <1>7, SameMessages DEF ProducerBreaks, Pause, Resume, RestartUnhealthy, Terminate,
       StopBegins, Tick, countVars, lifeVars
  <1>8. CASE ShutdownStep
    <2>1. UNCHANGED <<topic, queue, handed>>
      BY <1>8 DEF ShutdownStep, CloseDispatcher, CloseProducer, FlushReturns, Exit, countVars
    <2>2. rough => rough'
      BY <1>8 DEF ShutdownStep, CloseDispatcher, CloseProducer, FlushReturns, Exit
    <2> QED
      BY <2>1, <2>2, SameMessages
  <1>9. CASE Start
    BY <1>9 DEF Start, MessagesKept
  <1> QED
    BY <1>1, <1>2, <1>3, <1>4, <1>5, <1>6, <1>7, <1>8, <1>9
    DEF Next, LoopStep, DispatcherStep

(* Every step keeps what the stages of the shutdown have found: a thread that has      *)
(* ended stays so, and without threads nothing enters the queue.                       *)
LEMMA StagesStayFound ==
    ASSUME TypeOK, StagesFound, Next
    PROVE  StagesFound'
  <1> USE DEF StagesFound
  <1>1. CASE LoopStep \/ DatasetFails \/ Hang \/ Unhang
    BY <1>1 DEF LoopStep, LoopAt, Up, DatasetReady, DatasetFails, ReadRow, LoopStops,
       PublishFeature, DuplicateFeature, PublishFeatureFails, Publish, ScheduleLabel, Rest,
       Hang, Unhang, labelVars, lifeVars
  <1>2. CASE DispatcherStep \/ HangDispatcher \/ UnhangDispatcher
    BY <1>2 DEF DispatcherStep, Up, InCallback, Dispatch, DispatcherEnds, PublishLabel,
       DuplicateLabel, PublishLabelFails, HangDispatcher, UnhangDispatcher, Publish,
       CallbackReturns, loopVars, lifeVars
  <1>3. CASE Delivered
    BY <1>3 DEF Delivered, Up, loopVars, labelVars, lifeVars
  <1>4. CASE DeliveryFails \/ Crash
    BY <1>4 DEF DeliveryFails, Crash
  <1>5. CASE ProducerBreaks \/ Pause \/ Resume \/ RestartUnhealthy \/ Terminate \/ Tick
    BY <1>5 DEF ProducerBreaks, Pause, Resume, RestartUnhealthy, Terminate, StopBegins, Tick,
       loopVars, labelVars, lifeVars
  <1>6. CASE ShutdownStep
    <2>1. CASE CloseDispatcher
      BY <2>1 DEF CloseDispatcher, loopVars, labelVars
    <2>2. CASE CloseProducer
      BY <2>2 DEF CloseProducer, loopVars, labelVars
    <2>3. CASE FlushReturns
      BY <2>3 DEF FlushReturns, loopVars, labelVars
    <2>4. CASE Exit
      BY <2>4 DEF Exit, loopVars, labelVars
    <2> QED
      BY <1>6, <2>1, <2>2, <2>3, <2>4 DEF ShutdownStep
  <1>7. CASE Start
    BY <1>7 DEF Start
  <1> QED
    BY <1>1, <1>2, <1>3, <1>4, <1>5, <1>6, <1>7 DEF Next

-----------------------------------------------------------------------------
(***************************************************************************)
(* The clock.                                                              *)
(***************************************************************************)
(* Every step keeps the clock of a loop that is not stuck below the timeout: time      *)
(* passes for it only while it downloads or sleeps, and both are short.                *)
LEMMA ClockStaysInTime ==
    ASSUME TypeOK, ClockInTime, Next
    PROVE  ClockInTime'
  <1> USE SimulatorAssumption DEF ClockInTime, Timely
  <1>1. CASE LoopStep \/ DatasetFails \/ Hang \/ Unhang
    BY <1>1 DEF LoopStep, LoopAt, DatasetReady, DatasetFails, ReadRow, LoopStops,
       PublishFeature, DuplicateFeature, PublishFeatureFails, ScheduleLabel, Rest,
       Hang, Unhang, lifeVars, TypeOK
  <1>2. CASE DispatcherStep \/ HangDispatcher \/ UnhangDispatcher
    BY <1>2 DEF DispatcherStep, Dispatch, DispatcherEnds, PublishLabel, DuplicateLabel,
       PublishLabelFails, HangDispatcher, UnhangDispatcher, loopVars, lifeVars
  <1>3. CASE Delivered \/ DeliveryFails \/ ProducerBreaks
    BY <1>3 DEF Delivered, DeliveryFails, ProducerBreaks, loopVars, lifeVars
  <1>4. CASE Pause \/ Resume \/ RestartUnhealthy \/ Terminate \/ ShutdownStep \/ Crash
    BY <1>4 DEF Pause, Resume, RestartUnhealthy, Terminate, StopBegins, ShutdownStep,
       CloseDispatcher, CloseProducer, FlushReturns, Exit, Crash, loopVars
  <1>5. CASE Start
    BY <1>5 DEF Start
  <1>6. CASE Tick
    BY <1>6 DEF Tick, TimePasses, Older, TypeOK, Ages, lifeVars
  <1> QED
    BY <1>1, <1>2, <1>3, <1>4, <1>5, <1>6 DEF Next

-----------------------------------------------------------------------------
(***************************************************************************)
(* Theorems.                                                               *)
(***************************************************************************)
(* Every step keeps the invariant. *)
LEMMA StepKeeps == SimulatorInvariant /\ [Next]_vars => SimulatorInvariant'
  <1> SUFFICES ASSUME SimulatorInvariant, [Next]_vars
               PROVE  SimulatorInvariant'
    OBVIOUS
  <1>1. CASE Next
    <2>1. TypeOK' /\ RowAtHand'
      BY <1>1, TypesKept, RowAtHandKept DEF SimulatorInvariant
    <2>2. RowsAccounted' /\ LabelsTrail'
      BY <1>1, RowsKept DEF SimulatorInvariant
    <2>3. Undisturbed'
      <3>1. MessagesKept /\ StagesFound
        BY UndisturbedParts DEF SimulatorInvariant
      <3>2. MessagesKept' /\ StagesFound'
        BY <1>1, <3>1, MessagesStayKept, StagesStayFound DEF SimulatorInvariant
      <3> QED
        BY <3>2 DEF Undisturbed, MessagesKept, StagesFound
    <2>4. ClockInTime'
      BY <1>1, ClockStaysInTime DEF SimulatorInvariant
    <2> QED
      BY <2>1, <2>2, <2>3, <2>4 DEF SimulatorInvariant
  <1>2. CASE UNCHANGED vars
    BY <1>2 DEF vars, loopVars, labelVars, healthVars, countVars, lifeVars, SimulatorInvariant,
       TypeOK, RowAtHand, RowsAccounted, LabelsTrail, LabelsFollowFeatures, Undisturbed,
       ClockInTime, Waiting, InHand, InFlight
  <1> QED
    BY <1>1, <1>2

(* The invariant holds in every reachable state. *)
THEOREM SimulatorInvariantHolds == Spec => []SimulatorInvariant
  BY InitHolds, StepKeeps, PTL DEF Spec

(* Variables keep their ranges, and a label that is being dispatched exists. *)
THEOREM SimulatorTypes == Spec => []TypeOK
  <1>1. SimulatorInvariant => TypeOK
    BY DEF SimulatorInvariant
  <1> QED
    BY <1>1, SimulatorInvariantHolds, PTL

(* No row vanishes between the loop and the dispatcher. *)
THEOREM NoRowVanishes == Spec => []RowsAccounted
  <1>1. SimulatorInvariant => RowsAccounted
    BY DEF SimulatorInvariant
  <1> QED
    BY <1>1, SimulatorInvariantHolds, PTL

(* Only entities whose feature was taken get a label. *)
THEOREM LabelsAreEarned == Spec => []LabelsFollowFeatures
  <1>1. SimulatorInvariant => LabelsFollowFeatures
    BY DEF SimulatorInvariant, LabelsTrail
  <1> QED
    BY <1>1, SimulatorInvariantHolds, PTL

(* With settings that are Timely, the watchdog only blames a loop that was stuck. *)
THEOREM WatchdogIsFair == Spec => []StallMeansWedged
  <1>1. SimulatorInvariant => StallMeansWedged
    BY SimulatorAssumption
    DEF SimulatorInvariant, ClockInTime, StallMeansWedged, Stalled, TypeOK, Ages
  <1> QED
    BY <1>1, SimulatorInvariantHolds, PTL

(* An undisturbed shutdown loses nothing the producer took. *)
THEOREM ShutdownDelivers == Spec => []OrderlyStopDelivers
  <1>1. SimulatorInvariant => OrderlyStopDelivers
    BY DEF SimulatorInvariant, Undisturbed, InFlight, OrderlyStopDelivers
  <1> QED
    BY <1>1, SimulatorInvariantHolds, PTL
=============================================================================
