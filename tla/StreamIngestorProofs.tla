------------------------ MODULE StreamIngestorProofs ------------------------
(***************************************************************************)
(* Proofs about StreamIngestor for any number of partitions, messages,     *)
(* replicas and faults: its invariants, and that it implements             *)
(* ReliableLanding.  The inductive invariant is IngestorInvariant; here it *)
(* is grouped by replica (ReplicasInvariant), because a step changes the   *)
(* loop of one replica and only adds to what the others rely on.           *)
(***************************************************************************)
EXTENDS StreamIngestor, TLAPS

(* The messages of the log are the pairs of a partition and an offset before its end. *)
LEMMA MessageParts ==
    ASSUME NEW m \in Messages
    PROVE  /\ m[1] \in Partitions /\ m[2] \in Nat /\ m[2] < LogEnd(m[1])
           /\ m = <<m[1], m[2]>>
<1>1. PICK p \in Partitions : m \in {p} \X (0 .. LogEnd(p) - 1)
  BY DEF Messages
<1>2. LogEnd(p) \in Nat
  BY LogAssumption DEF LogEnd
<1> QED
  BY <1>1, <1>2

(* ... and every such pair is a message. *)
LEMMA MessageOf ==
    ASSUME NEW p \in Partitions, NEW o \in Nat, o < LogEnd(p)
    PROVE  <<p, o>> \in Messages
<1>1. LogEnd(p) \in Nat
  BY LogAssumption DEF LogEnd
<1>2. <<p, o>> \in {p} \X (0 .. LogEnd(p) - 1)
  BY <1>1
<1> QED
  BY <1>2 DEF Messages

(* Every partition has an end. *)
LEMMA LogEndIsNat == ASSUME NEW p \in Partitions PROVE LogEnd(p) \in Nat
  BY LogAssumption DEF LogEnd

(* TypeOK without the upper bound of the committed offsets, which takes the other invariants. *)
Types ==
    /\ committed \in [Partitions -> Nat]
    /\ group \in [Replicas -> {"out", "joining", "member"}]
    /\ owner \in [Partitions -> Replicas \cup {NoReplica}]
    /\ landing \subseteq Landing!Rows
    /\ handed \subseteq Messages /\ dlqTopic \subseteq Messages
    /\ phase \in [Replicas -> {"poll", "validate", "write", "commit", "exited", "down"}]
    /\ batch \in [Replicas -> Seq(Messages)]
    /\ cursor \in [Replicas -> Nat \ {0}]
    /\ max_offset \in [Replicas -> [Partitions -> Int]]
    /\ attempt \in [Replicas -> Nat]
    /\ assigned \in [Replicas -> BOOLEAN]
    /\ assignment \in [Replicas -> SUBSET Partitions]
    /\ position \in [Replicas -> [Partitions -> Nat]]
    /\ dlqQueue \in [Replicas -> SUBSET Messages]
    /\ loop_error \in [Replicas -> BOOLEAN]
    /\ last_commit_error \in [Replicas -> BOOLEAN]
    /\ stop \in [Replicas -> BOOLEAN]
    /\ flushed \in [Replicas -> BOOLEAN]
    /\ stalled \in [Replicas -> BOOLEAN]
    /\ faults \in Nat /\ dlqFaulted \in BOOLEAN

(* The log seen through the instance of ReliableLanding is the same log. *)
LEMMA LandingLog ==
    /\ Landing!Messages = Messages
    /\ \A p : Landing!LogEnd(p) = LogEnd(p)
    /\ \A m : Landing!EventOf(m) = EventOf(m) /\ Landing!KindOf(m) = KindOf(m)
  BY DEF Landing!Messages, Messages, Landing!LogEnd, LogEnd, Landing!EventOf, EventOf,
         Landing!KindOf, KindOf

(* A batch holds messages of the log. *)
LEMMA BatchMessages ==
    ASSUME Types, NEW r \in Replicas, NEW i \in DOMAIN batch[r]
    PROVE  batch[r][i] \in Messages
  BY DEF Types

(* _write_batch only inserts rows made of consumed messages. *)
LEMMA InsertsAreRows ==
    ASSUME Types, NEW r \in Replicas, NEW rows \in Inserts(r)
    PROVE  rows \subseteq Landing!Rows
<1>1. ASSUME NEW i \in ParsedRows(r) PROVE Landing!RowOf(batch[r][i]) \in Landing!Rows
  <2>1. i \in DOMAIN batch[r]
    BY <1>1 DEF ParsedRows
  <2> QED
    BY <2>1, BatchMessages, LandingLog DEF Landing!Rows
<1> QED
  BY <1>1 DEF Inserts

(* A failed attempt that Postgres committed after all and a successful one insert alike. *)
LEMMA FailedAttempt ==
    ASSUME NEW r \in Replicas, AttemptFails(r)
    PROVE  \/ landing' = landing
           \/ Storable(r) /\ \E rows \in Inserts(r) : landing' = landing \cup rows
  BY DEF AttemptFails

(* The fault counter stays a number. *)
LEMMA FaultsStayNat == ASSUME faults \in Nat, NEW kind, Fault(kind) PROVE faults' \in Nat
  BY DEF Fault

(* Type correctness, action by action. *)
LEMMA StepTypes ==
    ASSUME Types, NEW r \in Replicas
    PROVE  Loop(r) \/ Lifecycle(r) \/ Environment(r) => Types'
<1> USE IngestorAssumption DEF groupVars, sinkVars, batchVars, probeVars, stopVars, Goto, EmptyBatch,
        NoOffsets, OnRevoke, Disown
<1>1. Join(r) => Types'
  BY DEF Types, Join
<1>2. OnAssign(r) => Types'
  BY DEF Types, OnAssign
<1>3. BatchPolled(r) => Types'
  BY DEF Types, BatchPolled
<1>4. ValidateRaises(r) => Types'
  BY DEF Types, ValidateRaises, EndLoop
<1>5. BatchValidated(r) => Types'
  BY DEF Types, BatchValidated
<1>6. LoopStops(r) => Types'
  BY DEF Types, LoopStops, EndLoop
<1>7. Stop(r) => Types'
  BY DEF Types, Stop, Fault
<1>8. Exit(r) => Types'
  BY DEF Types, Exit, ProcessEnds
<1>9. Start(r) => Types'
  BY DEF Types, Start
<1>10. ExpireSession(r) => Types'
  BY DEF Types, ExpireSession
<1>11. Evict(r) => Types'
  BY DEF Types, Evict, Fault
<1>12. Stall(r) => Types'
  BY DEF Types, Stall, Fault
<1>13. Unstall(r) => Types'
  BY DEF Types, Unstall
<1>14. Crash(r) => Types'
  BY DEF Types, Crash, ProcessEnds, Fault
<1>20. ASSUME NEW p \in Partitions, PollMessage(r, p) PROVE Types'
  <2>1. <<p, position[r][p]>> \in Messages
    BY <1>20, MessageOf DEF Types, PollMessage
  <2> QED
    BY <1>20, <2>1 DEF Types, PollMessage
<1>21. ASSUME Validate(r) PROVE Types'
  <2>1. cursor[r] \in DOMAIN batch[r]
    BY <1>21 DEF Types, Validate
  <2>2. PICK m \in Messages : m = batch[r][cursor[r]]
    BY <2>1, BatchMessages
  <2>3. m[1] \in Partitions /\ m[2] \in Nat
    BY MessageParts
  <2>4. max_offset' \in [Replicas -> [Partitions -> Int]]
    BY <1>21, <2>2, <2>3 DEF Types, Validate
  <2>5. dlqQueue' \in [Replicas -> SUBSET Messages] /\ handed' \subseteq Messages
    <3>1. \/ dlqQueue' = dlqQueue /\ handed' = handed
          \/ /\ dlqQueue' = [dlqQueue EXCEPT ![r] = dlqQueue[r] \cup {m}]
             /\ handed' = handed \cup {m}
      BY <1>21, <2>2 DEF Validate, SendToDlq
    <3> QED
      <4>1. handed' \subseteq Messages
        BY <3>1 DEF Types
      <4>2. ASSUME NEW q \in Replicas PROVE dlqQueue'[q] \subseteq Messages
        <5>1. dlqQueue[q] \subseteq Messages /\ dlqQueue \in [Replicas -> SUBSET Messages]
          BY DEF Types
        <5>2. dlqQueue'[q] = dlqQueue[q] \/ dlqQueue'[q] = dlqQueue[q] \cup {m}
          BY <3>1, <5>1
        <5> QED
          BY <5>1, <5>2
      <4>3. dlqQueue' = [q \in Replicas |-> dlqQueue'[q]]
        BY <3>1 DEF Types
      <4> QED
        BY <4>1, <4>2, <4>3
  <2> QED
    BY <1>21, <2>4, <2>5 DEF Types, Validate
<1>22. ASSUME WriteBatch(r) PROVE Types'
  <2>1. landing' \subseteq Landing!Rows
    BY <1>22, InsertsAreRows DEF Types, WriteBatch
  <2> QED
    BY <1>22, <2>1 DEF Types, WriteBatch
<1>23. ASSUME RetryWrite(r) PROVE Types'
  <2>1. landing' \subseteq Landing!Rows /\ faults' \in Nat
    BY <1>23, FailedAttempt, InsertsAreRows, FaultsStayNat DEF Types, RetryWrite, AttemptFails
  <2> QED
    BY <1>23, <2>1 DEF Types, RetryWrite
<1>24. ASSUME GiveUpWrite(r) PROVE Types'
  <2>1. landing' \subseteq Landing!Rows /\ faults' \in Nat
    BY <1>24, FailedAttempt, InsertsAreRows, FaultsStayNat DEF Types, GiveUpWrite, AttemptFails
  <2> QED
    BY <1>24, <2>1 DEF Types, GiveUpWrite, EndLoop
<1>25. AdvancedOffsets(r) \in [Partitions -> Nat]
  BY DEF Types, AdvancedOffsets
<1>26. ASSUME CommitAccepted(r) PROVE Types'
  BY <1>25, <1>26 DEF Types, CommitAccepted, BatchDone
<1>27. ASSUME CommitRejected(r) PROVE Types'
  <2>1. committed' \in [Partitions -> Nat] /\ faults' \in Nat
    BY <1>25, <1>27, FaultsStayNat DEF Types, CommitRejected
  <2> QED
    BY <1>27, <2>1 DEF Types, CommitRejected, BatchDone
<1>28. ASSUME Flush(r) PROVE Types'
  <2>1. /\ dlqTopic' \subseteq Messages
        /\ dlqQueue' \in [Replicas -> SUBSET Messages]
        /\ faults' \in Nat /\ dlqFaulted' \in BOOLEAN
    BY <1>28, FaultsStayNat DEF Types, Flush
  <2> QED
    BY <1>28, <2>1 DEF Types, Flush
<1>29. ASSUME NEW m \in Messages, DlqDelivered(r, m) PROVE Types'
  BY <1>29 DEF Types, DlqDelivered
<1>30. ASSUME NEW m \in Messages, DlqDeliveryFailed(r, m) PROVE Types'
  BY <1>30 DEF Types, DlqDeliveryFailed, Fault
<1> QED
  BY <1>1, <1>2, <1>3, <1>4, <1>5, <1>6, <1>7, <1>8, <1>9, <1>10, <1>11, <1>12, <1>13, <1>14,
     <1>20, <1>21, <1>22, <1>23, <1>24, <1>26, <1>27, <1>28, <1>29, <1>30
     DEF Loop, Poll, ProcessBatch, Lifecycle, Environment

-----------------------------------------------------------------------------
(***************************************************************************)
(* What protects the committed offsets, one replica at a time.             *)
(***************************************************************************)
SafeLoop(r) ==
    /\ \A p \in assignment[r] : Covered(r, p, position[r][p])
    /\ \A i \in DOMAIN batch[r] : Covered(r, batch[r][i][1], batch[r][i][2])
    /\ phase[r] \notin {"validate", "write", "commit"} => cursor[r] = 1
    /\ phase[r] \in {"write", "commit"} => cursor[r] > Len(batch[r])
    /\ \A i \in DOMAIN batch[r] :
          i < cursor[r] /\ KindOf(batch[r][i]) = "invalid" => batch[r][i] \in handed
    /\ phase[r] = "commit" => \A i \in ParsedRows(r) : Landing!Accounted(batch[r][i])
    /\ \A p \in Partitions : max_offset[r][p] >= 0 => InBatch(r, <<p, max_offset[r][p]>>)
    /\ ~LoopRuns(r) => batch[r] = <<>>

(* Rows and hand-overs are only added. *)
SinksGrow == landing \subseteq landing' /\ handed \subseteq handed'

(* The part of a replica's state that SafeLoop is about stays as it is. *)
LoopKept(r) == /\ phase'[r] = phase[r] /\ batch'[r] = batch[r] /\ cursor'[r] = cursor[r]
               /\ max_offset'[r] = max_offset[r]
               /\ assignment'[r] = assignment[r] /\ position'[r] = position[r]

(* The loop holds no message and no partition. *)
LoopReset(r) == /\ batch'[r] = <<>> /\ cursor'[r] = 1 /\ max_offset'[r] = NoOffsets
                /\ assignment'[r] = {}

(* Nothing that was settled becomes unsettled: rows and hand-overs are only added. *)
LEMMA AccountedStays ==
    ASSUME SinksGrow, NEW m, Landing!Accounted(m)
    PROVE  Landing!Accounted(m)'
  BY DEF SinksGrow, Landing!Accounted, Landing!Landed, Landing!EventOf, Landing!KindOf

(* An offset stays covered while the sinks grow and the batch shrinks only by settled messages. *)
LEMMA CoveredStays ==
    ASSUME SinksGrow, NEW r, NEW p, NEW upto,
           \A m : InBatch(r, m) => InBatch(r, m)' \/ Landing!Accounted(m)',
           Covered(r, p, upto)
    PROVE  Covered(r, p, upto)'
  BY AccountedStays DEF Covered

(* A loop that nothing touches stays safe while others fill the sinks. *)
LEMMA KeptLoopStaysSafe ==
    ASSUME NEW r \in Replicas, SinksGrow, LoopKept(r), SafeLoop(r)
    PROVE  SafeLoop(r)'
<1>1. ParsedRows(r)' = ParsedRows(r)
  BY DEF LoopKept, ParsedRows
<1>2. \A m : InBatch(r, m)' = InBatch(r, m)
  BY DEF LoopKept, InBatch
<1>3. \A p \in assignment'[r] : Covered(r, p, position[r][p])'
  BY <1>2, AccountedStays DEF SafeLoop, LoopKept, Covered
<1>4. \A i \in DOMAIN batch'[r] : Covered(r, batch[r][i][1], batch[r][i][2])'
  BY <1>2, AccountedStays DEF SafeLoop, LoopKept, Covered
<1>5. phase'[r] = "commit" => \A i \in ParsedRows(r)' : Landing!Accounted(batch[r][i])'
  BY <1>1, AccountedStays DEF SafeLoop, LoopKept, Landing!Accounted
<1>6. \A p \in Partitions : max_offset'[r][p] >= 0 => InBatch(r, <<p, max_offset[r][p]>>)'
  BY DEF SafeLoop, LoopKept, InBatch
<1>7. \A i \in DOMAIN batch'[r] :
         i < cursor'[r] /\ KindOf(batch'[r][i]) = "invalid" => batch'[r][i] \in handed'
  BY DEF SafeLoop, SinksGrow, LoopKept
<1> QED
  BY <1>3, <1>4, <1>5, <1>6, <1>7 DEF SafeLoop, LoopKept, LoopRuns

(* An empty loop without an assignment is safe. *)
LEMMA ResetLoopIsSafe ==
    ASSUME NEW r \in Replicas, LoopReset(r)
    PROVE  SafeLoop(r)'
<1>1. DOMAIN batch'[r] = {} /\ Len(batch'[r]) = 0
  BY DEF LoopReset
<1>2. ParsedRows(r)' = {}
  BY <1>1 DEF ParsedRows
<1>3. \A p \in Partitions : max_offset'[r][p] = -1
  BY DEF LoopReset, NoOffsets
<1>4. \A p \in Partitions : ~(max_offset'[r][p] >= 0)
  BY <1>3
<1>5. assignment'[r] = {} /\ batch'[r] = <<>> /\ cursor'[r] = 1
  BY DEF LoopReset
<1> QED
  BY <1>1, <1>2, <1>4, <1>5 DEF SafeLoop

(* At the commit everything in the batch is settled. *)
LEMMA CommitBatchAccounted ==
    ASSUME Types, NEW r \in Replicas, SafeLoop(r), phase[r] = "commit", NEW m, InBatch(r, m)
    PROVE  Landing!Accounted(m)
<1>1. PICK i \in DOMAIN batch[r] : batch[r][i] = m
  BY DEF InBatch
<1>2. CASE i \in ParsedRows(r)
  BY <1>1, <1>2 DEF SafeLoop
<1>3. CASE i \notin ParsedRows(r)
  <2>1. KindOf(m) = "invalid"
    BY <1>1, <1>3 DEF ParsedRows
  <2>2. i < cursor[r]
    BY <1>1 DEF Types, SafeLoop
  <2> QED
    BY <1>1, <2>1, <2>2, LandingLog DEF SafeLoop, Landing!Accounted
<1> QED
  BY <1>2, <1>3

-----------------------------------------------------------------------------
(***************************************************************************)
(* The steps of a replica's own loop keep it safe.                         *)
(***************************************************************************)
(* Revoking the partitions inside a poll leaves the batch covered. *)
LEMMA JoinSafe ==
    ASSUME Types, NEW r \in Replicas, SafeLoop(r), Join(r)
    PROVE  SafeLoop(r)'
<1>1. assignment'[r] = {}
  BY DEF Types, Join, OnRevoke
<1>2. SinksGrow /\ \A m : InBatch(r, m)' = InBatch(r, m)
  BY DEF SinksGrow, InBatch, Join, sinkVars, batchVars
<1>3. \A i \in DOMAIN batch'[r] : Covered(r, batch[r][i][1], batch[r][i][2])'
  BY <1>2, AccountedStays DEF SafeLoop, Covered, Join, batchVars
<1> QED
  BY <1>1, <1>3
     DEF SafeLoop, Join, sinkVars, batchVars, InBatch, ParsedRows, LoopRuns, Landing!Accounted,
         Landing!Landed

(* A new assignment starts at the committed offsets, below which nothing is lost. *)
LEMMA OnAssignSafe ==
    ASSUME Types, NoLoss, NEW r \in Replicas, SafeLoop(r), OnAssign(r)
    PROVE  SafeLoop(r)'
<1>1. SinksGrow /\ \A m : InBatch(r, m)' = InBatch(r, m)
  BY DEF SinksGrow, InBatch, OnAssign, sinkVars, batchVars
<1>2. \A i \in DOMAIN batch'[r] : Covered(r, batch[r][i][1], batch[r][i][2])'
  BY <1>1, AccountedStays DEF SafeLoop, Covered, OnAssign, batchVars
<1>3. ASSUME NEW p \in assignment'[r] PROVE Covered(r, p, position[r][p])'
  <2>1. p \in Partitions /\ position'[r][p] = committed[p]
    BY <1>3 DEF Types, OnAssign
  <2>2. \A o \in 0 .. (committed[p] - 1) : Landing!Accounted(<<p, o>>)
    BY <2>1 DEF NoLoss, Landing!NoLoss
  <2> QED
    BY <1>1, <2>1, <2>2, AccountedStays DEF Covered
<1> QED
  BY <1>2, <1>3
     DEF SafeLoop, OnAssign, sinkVars, batchVars, InBatch, ParsedRows, LoopRuns, Landing!Accounted,
         Landing!Landed

(* The message polled is the one at the position, which then counts it as in the batch. *)
LEMMA PollMessageSafe ==
    ASSUME Types, NEW r \in Replicas, SafeLoop(r), NEW p \in Partitions, PollMessage(r, p)
    PROVE  SafeLoop(r)'
<1>0. PICK o0 \in Nat : o0 = position[r][p]
  BY DEF Types
<1>1. /\ p \in assignment[r]
      /\ batch'[r] = Append(batch[r], <<p, o0>>) /\ batch[r] \in Seq(Messages)
      /\ phase'[r] = "poll" /\ cursor'[r] = 1 /\ max_offset' = max_offset
      /\ assignment' = assignment /\ SinksGrow
      /\ \A q \in Partitions : position'[r][q] = IF q = p THEN o0 + 1 ELSE position[r][q]
  BY <1>0 DEF Types, SafeLoop, PollMessage, SinksGrow, sinkVars
<1>2. InBatch(r, <<p, o0>>)' /\ \A m : InBatch(r, m) => InBatch(r, m)'
  <2>1. /\ Len(batch[r]) + 1 \in DOMAIN batch'[r]
        /\ batch'[r][Len(batch[r]) + 1] = <<p, o0>>
    BY <1>1
  <2>2. \A i \in DOMAIN batch[r] : i \in DOMAIN batch'[r] /\ batch'[r][i] = batch[r][i]
    BY <1>1
  <2> QED
    BY <2>1, <2>2 DEF InBatch
<1>3. \A q, upto : Covered(r, q, upto) =>
         \A o \in 0 .. (upto - 1) : Landing!Accounted(<<q, o>>)' \/ InBatch(r, <<q, o>>)'
  BY <1>1, <1>2, AccountedStays DEF Covered
<1>4. ASSUME NEW q \in assignment'[r] PROVE Covered(r, q, position[r][q])'
  <2>1. Covered(r, q, position[r][q]) /\ q \in Partitions
    BY <1>1, <1>4 DEF SafeLoop, Types
  <2>2. \A o \in 0 .. (position[r][q] - 1) :
           Landing!Accounted(<<q, o>>)' \/ InBatch(r, <<q, o>>)'
    BY <1>3, <2>1
  <2>3. \A o \in 0 .. (position'[r][q] - 1) : o \in 0 .. (position[r][q] - 1) \/ (q = p /\ o = o0)
    BY <1>0, <1>1, <2>1 DEF Types
  <2>4. ASSUME NEW o \in 0 .. (position'[r][q] - 1)
        PROVE  Landing!Accounted(<<q, o>>)' \/ InBatch(r, <<q, o>>)'
    BY <1>2, <2>2, <2>3, <2>4
  <2> QED
    BY <2>4 DEF Covered
<1>5. ASSUME NEW i \in DOMAIN batch'[r] PROVE Covered(r, batch[r][i][1], batch[r][i][2])'
  <2>1. CASE i \in DOMAIN batch[r]
    <3>1. batch'[r][i] = batch[r][i] /\ Covered(r, batch[r][i][1], batch[r][i][2])
      BY <1>1, <2>1 DEF SafeLoop
    <3> QED
      BY <1>3, <3>1 DEF Covered
  <2>2. CASE i \notin DOMAIN batch[r]
    <3>1. batch'[r][i] = <<p, o0>>
      BY <1>1, <1>5, <2>2
    <3>2. Covered(r, p, o0)
      BY <1>0, <1>1 DEF SafeLoop
    <3>3. \A o \in 0 .. (o0 - 1) : Landing!Accounted(<<p, o>>)' \/ InBatch(r, <<p, o>>)'
      BY <1>3, <3>2
    <3>4. batch'[r][i][1] = p /\ batch'[r][i][2] = o0
      BY <3>1
    <3> QED
      BY <3>3, <3>4 DEF Covered
  <2> QED
    BY <2>1, <2>2
<1>6. \A i \in DOMAIN batch'[r] : ~(i < cursor'[r])
  BY <1>1
<1>7. ASSUME NEW q \in Partitions, max_offset'[r][q] >= 0
      PROVE  InBatch(r, <<q, max_offset[r][q]>>)'
  BY <1>1, <1>2, <1>7 DEF SafeLoop, InBatch
<1> QED
  BY <1>1, <1>4, <1>5, <1>6, <1>7 DEF SafeLoop, LoopRuns

(* An invalid message is quarantined before the cursor passes it. *)
LEMMA ValidateSafe ==
    ASSUME Types, NEW r \in Replicas, SafeLoop(r), Validate(r)
    PROVE  SafeLoop(r)'
<1>1. /\ cursor[r] \in DOMAIN batch[r] /\ phase'[r] = "validate"
      /\ batch' = batch /\ cursor'[r] = cursor[r] + 1
      /\ assignment' = assignment /\ position' = position
      /\ landing' = landing /\ handed \subseteq handed'
  BY DEF Types, Validate, SendToDlq, groupVars
<1>2. PICK m \in Messages : m = batch[r][cursor[r]]
  BY <1>1, BatchMessages
<1>3. m[1] \in Partitions /\ m[2] \in Nat /\ m = <<m[1], m[2]>>
  BY MessageParts
<1>4. SinksGrow /\ \A n : InBatch(r, n)' = InBatch(r, n)
  BY <1>1 DEF SinksGrow, InBatch
<1>5. \A p \in assignment'[r] : Covered(r, p, position[r][p])'
  BY <1>1, <1>4, AccountedStays DEF SafeLoop, Covered
<1>6. \A i \in DOMAIN batch'[r] : Covered(r, batch[r][i][1], batch[r][i][2])'
  BY <1>1, <1>4, AccountedStays DEF SafeLoop, Covered
<1>7. ASSUME NEW i \in DOMAIN batch'[r], i < cursor'[r], KindOf(batch'[r][i]) = "invalid"
      PROVE  batch'[r][i] \in handed'
  <2>1. CASE i < cursor[r]
    BY <1>1, <1>7, <2>1 DEF SafeLoop
  <2>2. CASE i = cursor[r]
    BY <1>1, <1>2, <1>7, <2>2 DEF Validate, SendToDlq
  <2> QED
    BY <1>1, <1>7, <2>1, <2>2 DEF Types
<1>8. ASSUME NEW p \in Partitions, max_offset'[r][p] >= 0
      PROVE  InBatch(r, <<p, max_offset[r][p]>>)'
  <2>1. \/ max_offset'[r][p] = max_offset[r][p]
        \/ p = m[1] /\ max_offset'[r][p] = m[2]
    BY <1>2, <1>3 DEF Types, Validate
  <2>2. CASE max_offset'[r][p] = max_offset[r][p]
    BY <1>1, <1>8, <2>2 DEF SafeLoop, InBatch
  <2>3. CASE p = m[1] /\ max_offset'[r][p] = m[2]
    BY <1>1, <1>2, <1>3, <2>3 DEF InBatch
  <2> QED
    BY <2>1, <2>2, <2>3
<1> QED
  BY <1>1, <1>5, <1>6, <1>7, <1>8 DEF SafeLoop, LoopRuns

(* BatchPolled and BatchValidated only move the loop on. *)
LEMMA MoveOnSafe ==
    ASSUME Types, NEW r \in Replicas, SafeLoop(r), BatchPolled(r) \/ BatchValidated(r)
    PROVE  SafeLoop(r)'
<1>1. /\ batch' = batch /\ cursor' = cursor /\ max_offset' = max_offset
      /\ assignment' = assignment /\ position' = position
      /\ landing' = landing /\ handed' = handed
      /\ phase'[r] \in {"validate", "write", "commit"}
      /\ phase'[r] \in {"write", "commit"} => cursor[r] > Len(batch[r])
      /\ phase'[r] = "commit" => ParsedRows(r) = {}
  BY DEF Types, BatchPolled, BatchValidated, Goto, groupVars, sinkVars, batchVars
<1>2. SinksGrow /\ (\A n : InBatch(r, n)' = InBatch(r, n)) /\ ParsedRows(r)' = ParsedRows(r)
  BY <1>1 DEF SinksGrow, InBatch, ParsedRows
<1>3. \A p \in assignment'[r] : Covered(r, p, position[r][p])'
  BY <1>1, <1>2, AccountedStays DEF SafeLoop, Covered
<1>4. \A i \in DOMAIN batch'[r] : Covered(r, batch[r][i][1], batch[r][i][2])'
  BY <1>1, <1>2, AccountedStays DEF SafeLoop, Covered
<1>5. \A p \in Partitions : max_offset'[r][p] >= 0 => InBatch(r, <<p, max_offset[r][p]>>)'
  BY <1>1 DEF SafeLoop, InBatch
<1> QED
  BY <1>1, <1>2, <1>3, <1>4, <1>5 DEF SafeLoop, LoopRuns

(* After the transaction every parsed message of the batch is settled. *)
LEMMA WriteBatchSafe ==
    ASSUME Types, NEW r \in Replicas, SafeLoop(r), WriteBatch(r)
    PROVE  SafeLoop(r)'
<1>1. /\ batch' = batch /\ cursor' = cursor /\ max_offset' = max_offset
      /\ assignment' = assignment /\ position' = position /\ handed' = handed
      /\ phase[r] = "write" /\ phase'[r] = "commit"
  BY DEF Types, WriteBatch, Goto, groupVars, batchVars
<1>2. PICK rows \in Inserts(r) : landing' = landing \cup rows
  BY DEF WriteBatch
<1>3. SinksGrow /\ (\A n : InBatch(r, n)' = InBatch(r, n)) /\ ParsedRows(r)' = ParsedRows(r)
  BY <1>1, <1>2 DEF SinksGrow, InBatch, ParsedRows
<1>4. \A p \in assignment'[r] : Covered(r, p, position[r][p])'
  BY <1>1, <1>3, AccountedStays DEF SafeLoop, Covered
<1>5. \A i \in DOMAIN batch'[r] : Covered(r, batch[r][i][1], batch[r][i][2])'
  BY <1>1, <1>3, AccountedStays DEF SafeLoop, Covered
<1>6. \A p \in Partitions : max_offset'[r][p] >= 0 => InBatch(r, <<p, max_offset[r][p]>>)'
  BY <1>1 DEF SafeLoop, InBatch
<1>7. ASSUME NEW i \in ParsedRows(r) PROVE Landing!Accounted(batch[r][i])'
  <2>1. KindOf(batch[r][i]) = "valid"
    BY DEF WriteBatch, Storable
  <2>2. EventOf(batch[r][i]) \in Landing!Landed \cup {row.event : row \in rows}
    BY <1>2 DEF Inserts
  <2>3. EventOf(batch[r][i]) \in Landing!Landed'
    BY <1>2, <2>2 DEF Landing!Landed
  <2> QED
    BY <1>1, <2>1, <2>3, LandingLog DEF Landing!Accounted
<1> QED
  BY <1>1, <1>3, <1>4, <1>5, <1>6, <1>7 DEF SafeLoop, LoopRuns

(* After a commit attempt, accepted or not, the batch is settled and the loop starts over. *)
LEMMA BatchDoneSafe ==
    ASSUME Types, NEW r \in Replicas, SafeLoop(r), NEW rejected, BatchDone(r, rejected)
    PROVE  SafeLoop(r)'
<1>1. /\ phase[r] = "commit" /\ phase'[r] = "poll"
      /\ batch'[r] = <<>> /\ cursor'[r] = 1 /\ max_offset'[r] = NoOffsets
      /\ assignment' = assignment /\ position' = position
      /\ landing' = landing /\ handed' = handed
  BY DEF Types, BatchDone, Goto, EmptyBatch, groupVars, sinkVars
<1>2. ASSUME NEW p \in assignment'[r] PROVE Covered(r, p, position[r][p])'
  <2>1. \A o \in 0 .. (position[r][p] - 1) :
           Landing!Accounted(<<p, o>>) \/ InBatch(r, <<p, o>>)
    BY <1>1, <1>2 DEF SafeLoop, Covered
  <2>2. SinksGrow
    BY <1>1 DEF SinksGrow
  <2>3. \A o \in 0 .. (position[r][p] - 1) : Landing!Accounted(<<p, o>>)'
    BY <1>1, <2>1, <2>2, CommitBatchAccounted, AccountedStays
  <2> QED
    BY <1>1, <2>3 DEF Covered
<1>3. DOMAIN batch'[r] = {} /\ Len(batch'[r]) = 0
  BY <1>1
<1>4. \A p \in Partitions : ~(max_offset'[r][p] >= 0)
  BY <1>1 DEF NoOffsets
<1> QED
  BY <1>1, <1>2, <1>3, <1>4 DEF SafeLoop

(* A new process starts with an empty loop. *)
LEMMA StartSafe ==
    ASSUME Types, NEW r \in Replicas, SafeLoop(r), Start(r)
    PROVE  SafeLoop(r)'
<1>1. /\ phase[r] = "down" /\ phase'[r] = "poll"
      /\ batch' = batch /\ cursor' = cursor /\ max_offset' = max_offset
      /\ assignment' = assignment /\ position' = position
      /\ landing' = landing /\ handed' = handed
  BY DEF Types, Start, Up, Goto, groupVars, sinkVars, batchVars
<1>2. batch'[r] = <<>> /\ cursor'[r] = 1
  BY <1>1 DEF SafeLoop, LoopRuns
<1>3. SinksGrow /\ (\A n : InBatch(r, n)' = InBatch(r, n))
  BY <1>1 DEF SinksGrow, InBatch
<1>4. \A p \in assignment'[r] : Covered(r, p, position[r][p])'
  BY <1>1, <1>3, AccountedStays DEF SafeLoop, Covered
<1>5. \A p \in Partitions : max_offset'[r][p] >= 0 => InBatch(r, <<p, max_offset[r][p]>>)'
  BY <1>1 DEF SafeLoop, InBatch
<1>6. DOMAIN batch'[r] = {}
  BY <1>2
<1> QED
  BY <1>1, <1>2, <1>4, <1>5, <1>6 DEF SafeLoop, LoopRuns

(* A loop that ended and a process that ended keep nothing of the batch. *)
LEMMA EndSafe ==
    ASSUME Types, NEW r \in Replicas, ProcessEnds(r) \/ EndLoop(r, TRUE) \/ EndLoop(r, FALSE)
    PROVE  SafeLoop(r)'
<1>1. LoopReset(r)
  BY DEF Types, LoopReset, ProcessEnds, EndLoop, EmptyBatch, OnRevoke
<1> QED
  BY <1>1, ResetLoopIsSafe

-----------------------------------------------------------------------------
(***************************************************************************)
(* The sinks only grow, and grow by what the abstract specification allows.*)
(***************************************************************************)
(* An attempt to write adds the batch's new rows or nothing. *)
LEMMA WriteGrows ==
    ASSUME NEW r \in Replicas, WriteBatch(r) \/ AttemptFails(r)
    PROVE  \/ landing' = landing
           \/ \E rows \in Inserts(r) : landing' = landing \cup rows
  BY FailedAttempt DEF WriteBatch

(* ON CONFLICT DO NOTHING: what is added is new, and once per event. *)
LEMMA InsertKeepsLandOnce ==
    ASSUME LandOnce, NEW r \in Replicas, NEW rows \in Inserts(r), landing' = landing \cup rows
    PROVE  LandOnce'
<1>1. \A row \in rows : row.event \notin Landing!Landed
  BY DEF Inserts
<1>2. \A row1, row2 \in rows : row1.event = row2.event => row1 = row2
  BY DEF Inserts
<1> QED
  BY <1>1, <1>2 DEF LandOnce, Landing!LandOnce, Landing!Landed

(* Every step of the system, seen from the sinks. *)
LEMMA SinkSteps ==
    ASSUME Types, LandOnce, NEW r \in Replicas, Loop(r) \/ Lifecycle(r) \/ Environment(r)
    PROVE  \/ landing' = landing /\ handed' = handed
           \/ /\ landing \subseteq landing' /\ LandOnce'
              /\ handed' = handed /\ committed' = committed
           \/ /\ landing' = landing /\ committed' = committed
              /\ \E m \in Messages : KindOf(m) = "invalid" /\ handed' = handed \cup {m}
<1>1. ASSUME WriteBatch(r) \/ RetryWrite(r) \/ GiveUpWrite(r)
      PROVE  \/ landing' = landing /\ handed' = handed
             \/ /\ landing \subseteq landing' /\ LandOnce'
                /\ handed' = handed /\ committed' = committed
  <2>1. handed' = handed /\ committed' = committed
    BY <1>1 DEF WriteBatch, RetryWrite, GiveUpWrite, EndLoop
  <2>2. \/ landing' = landing
        \/ \E rows \in Inserts(r) : landing' = landing \cup rows
    BY <1>1, WriteGrows DEF RetryWrite, GiveUpWrite
  <2> QED
    BY <2>1, <2>2, InsertKeepsLandOnce
<1>2. ASSUME Validate(r)
      PROVE  /\ landing' = landing /\ committed' = committed
             /\ \/ handed' = handed
                \/ \E m \in Messages : KindOf(m) = "invalid" /\ handed' = handed \cup {m}
  <2>1. cursor[r] \in DOMAIN batch[r]
    BY <1>2 DEF Types, Validate
  <2>2. batch[r][cursor[r]] \in Messages
    BY <2>1, BatchMessages
  <2> QED
    BY <1>2, <2>2 DEF Validate, SendToDlq
<1>3. ASSUME \/ Poll(r) \/ ValidateRaises(r) \/ BatchValidated(r) \/ LoopStops(r)
             \/ CommitAccepted(r) \/ CommitRejected(r)
      PROVE  landing' = landing /\ handed' = handed
  BY <1>3 DEF Poll, Join, OnAssign, PollMessage, BatchPolled, ValidateRaises, BatchValidated,
              LoopStops, CommitAccepted, CommitRejected, EndLoop, BatchDone, sinkVars
<1>4. ASSUME Lifecycle(r) \/ Environment(r)
      PROVE  landing' = landing /\ handed' = handed
  BY <1>4 DEF Lifecycle, Environment, Stop, Flush, Exit, Start, ExpireSession, Evict, Stall, Unstall,
              Crash, DlqDelivered, DlqDeliveryFailed, ProcessEnds, sinkVars
<1> QED
  BY <1>1, <1>2, <1>3, <1>4 DEF Loop, ProcessBatch

(* A step of one replica leaves the loops of the others alone. *)
LEMMA OthersKept ==
    ASSUME Types, NEW r \in Replicas, Loop(r) \/ Lifecycle(r) \/ Environment(r),
           NEW q \in Replicas, q # r
    PROVE  LoopKept(q)
<1> USE DEF Types, LoopKept, groupVars, sinkVars, batchVars, Goto, EmptyBatch, OnRevoke
<1>1. Poll(r) => LoopKept(q)
  BY DEF Poll, Join, OnAssign, PollMessage, BatchPolled
<1>2. Validate(r) \/ ValidateRaises(r) \/ BatchValidated(r) => LoopKept(q)
  BY DEF Validate, ValidateRaises, BatchValidated, EndLoop
<1>3. WriteBatch(r) \/ RetryWrite(r) \/ GiveUpWrite(r) => LoopKept(q)
  BY DEF WriteBatch, RetryWrite, GiveUpWrite, EndLoop
<1>4. CommitAccepted(r) \/ CommitRejected(r) \/ LoopStops(r) => LoopKept(q)
  BY DEF CommitAccepted, CommitRejected, LoopStops, BatchDone, EndLoop
<1>5. Lifecycle(r) => LoopKept(q)
  BY DEF Lifecycle, Stop, Flush, Exit, Start, ExpireSession, ProcessEnds
<1>6. Environment(r) => LoopKept(q)
  BY DEF Environment, Evict, Stall, Unstall, Crash, DlqDelivered, DlqDeliveryFailed, ProcessEnds
<1> QED
  BY <1>1, <1>2, <1>3, <1>4, <1>5, <1>6 DEF Loop, ProcessBatch

-----------------------------------------------------------------------------
(***************************************************************************)
(* Committed offsets.                                                      *)
(***************************************************************************)
CommittedInLog == \A p \in Partitions : committed[p] <= LogEnd(p)

(* The offsets a replica commits are in the log, and everything below them is settled. *)
LEMMA AdvancedOffsetsAccounted ==
    ASSUME Types, CommittedInLog, NoLoss, NEW r \in Replicas, SafeLoop(r), phase[r] = "commit",
           NEW p \in Partitions
    PROVE  /\ AdvancedOffsets(r)[p] <= LogEnd(p)
           /\ \A o \in 0 .. (AdvancedOffsets(r)[p] - 1) : Landing!Accounted(<<p, o>>)
<1>1. CASE ~(max_offset[r][p] >= 0)
  <2>1. AdvancedOffsets(r)[p] = committed[p]
    BY <1>1 DEF AdvancedOffsets
  <2> QED
    BY <2>1 DEF CommittedInLog, NoLoss, Landing!NoLoss
<1>2. CASE max_offset[r][p] >= 0
  <2>1. PICK top \in Nat : top = max_offset[r][p]
    BY <1>2 DEF Types
  <2>2. AdvancedOffsets(r)[p] = top + 1
    BY <1>2, <2>1 DEF AdvancedOffsets
  <2>3. InBatch(r, <<p, top>>)
    BY <1>2, <2>1 DEF SafeLoop
  <2>4. PICK i \in DOMAIN batch[r] : batch[r][i] = <<p, top>>
    BY <2>3 DEF InBatch
  <2>5. <<p, top>> \in Messages
    BY <2>4, BatchMessages
  <2>6. top < LogEnd(p) /\ LogEnd(p) \in Nat
    BY <2>5, MessageParts, LogEndIsNat
  <2>7. Covered(r, batch[r][i][1], batch[r][i][2])
    BY <2>4 DEF SafeLoop
  <2>8. Covered(r, p, top)
    BY <2>4, <2>7
  <2>9. \A o \in 0 .. (top - 1) : Landing!Accounted(<<p, o>>) \/ InBatch(r, <<p, o>>)
    BY <2>8 DEF Covered
  <2>10. \A o \in 0 .. top : Landing!Accounted(<<p, o>>)
    BY <2>1, <2>3, <2>9, CommitBatchAccounted
  <2> QED
    BY <2>1, <2>2, <2>6, <2>10
<1> QED
  BY <1>1, <1>2

(* No step commits past the end of the log or over a message nobody took care of. *)
LEMMA CommitStep ==
    ASSUME Types, CommittedInLog, NoLoss, LandOnce, NEW r \in Replicas, SafeLoop(r),
           Loop(r) \/ Lifecycle(r) \/ Environment(r)
    PROVE  CommittedInLog' /\ NoLoss'
<1>1. SinksGrow
  BY SinkSteps DEF SinksGrow
<1>2. CASE committed' = committed
  BY <1>1, <1>2, AccountedStays DEF CommittedInLog, NoLoss, Landing!NoLoss
<1>3. CASE phase[r] = "commit" /\ committed' = AdvancedOffsets(r)
  BY <1>1, <1>3, AccountedStays, AdvancedOffsetsAccounted
     DEF CommittedInLog, NoLoss, Landing!NoLoss
<1>4. ASSUME CommitAccepted(r) \/ CommitRejected(r)
      PROVE  committed' = committed \/ (phase[r] = "commit" /\ committed' = AdvancedOffsets(r))
  BY <1>4 DEF CommitAccepted, CommitRejected, BatchDone
<1>5. ASSUME Poll(r) \/ LoopStops(r) PROVE committed' = committed
  BY <1>5 DEF Poll, Join, OnAssign, PollMessage, BatchPolled, LoopStops, EndLoop
<1>6. ASSUME \/ Validate(r) \/ ValidateRaises(r) \/ BatchValidated(r) \/ WriteBatch(r)
             \/ RetryWrite(r) \/ GiveUpWrite(r)
      PROVE  committed' = committed
  BY <1>6 DEF Validate, ValidateRaises, BatchValidated, WriteBatch, RetryWrite, GiveUpWrite, EndLoop
<1>7. ASSUME Lifecycle(r) \/ Environment(r) PROVE committed' = committed
  BY <1>7 DEF Lifecycle, Environment, Stop, Flush, Exit, Start, ExpireSession, Evict, Stall,
              Unstall, Crash, DlqDelivered, DlqDeliveryFailed, ProcessEnds
<1>8. committed' = committed \/ (phase[r] = "commit" /\ committed' = AdvancedOffsets(r))
  BY <1>4, <1>5, <1>6, <1>7 DEF Loop, ProcessBatch
<1> QED
  BY <1>2, <1>3, <1>8

(* The steps of a replica keep its own loop safe. *)
LEMMA OwnLoopSafe ==
    ASSUME Types, NoLoss, LandOnce, NEW r \in Replicas, SafeLoop(r),
           Loop(r) \/ Lifecycle(r) \/ Environment(r)
    PROVE  SafeLoop(r)'
<1>1. SinksGrow
  BY SinkSteps DEF SinksGrow
<1>2. Poll(r) => SafeLoop(r)'
  BY JoinSafe, OnAssignSafe, PollMessageSafe, MoveOnSafe DEF Poll
<1>3. ASSUME RetryWrite(r) PROVE LoopKept(r)
  BY <1>3 DEF RetryWrite, LoopKept, groupVars
<1>4. ASSUME GiveUpWrite(r) \/ ValidateRaises(r) \/ LoopStops(r) PROVE SafeLoop(r)'
  BY <1>4, EndSafe DEF GiveUpWrite, ValidateRaises, LoopStops
<1>5. ASSUME CommitAccepted(r) \/ CommitRejected(r) PROVE SafeLoop(r)'
  BY <1>5, BatchDoneSafe DEF CommitAccepted, CommitRejected
<1>6. ASSUME Exit(r) \/ Crash(r) PROVE SafeLoop(r)'
  BY <1>6, EndSafe DEF Exit, Crash
<1>7. ASSUME Stop(r) \/ Flush(r) \/ ExpireSession(r) PROVE LoopKept(r)
  BY <1>7 DEF Stop, Flush, ExpireSession, LoopKept, groupVars, batchVars
<1>8. ASSUME \/ Evict(r) \/ Stall(r) \/ Unstall(r)
             \/ \E m \in Messages : DlqDelivered(r, m) \/ DlqDeliveryFailed(r, m)
      PROVE  LoopKept(r)
  BY <1>8 DEF Evict, Stall, Unstall, DlqDelivered, DlqDeliveryFailed, LoopKept, groupVars, batchVars
<1>9. LoopKept(r) => SafeLoop(r)'
  BY <1>1, KeptLoopStaysSafe
<1> QED
  BY <1>2, <1>3, <1>4, <1>5, <1>6, <1>7, <1>8, <1>9, ValidateSafe, MoveOnSafe, WriteBatchSafe, StartSafe
     DEF Loop, ProcessBatch, Lifecycle, Environment

-----------------------------------------------------------------------------
(***************************************************************************)
(* Shutdown and the dead-letter queue, one replica at a time.              *)
(***************************************************************************)
OrderlyEnd(r) ==
    /\ ~LoopRuns(r) => ~assigned[r] /\ batch[r] = <<>>
    /\ flushed[r] => /\ stop[r]
                     /\ \/ phase[r] \in {"exited", "write", "commit"}
                        \/ phase[r] = "poll" /\ batch[r] = <<>>
                     /\ ~dlqFaulted => dlqQueue[r] = {}

(* A step of one replica leaves the shutdown of the others alone. *)
LEMMA OthersEndKept ==
    ASSUME Types, NEW r \in Replicas, Loop(r) \/ Lifecycle(r) \/ Environment(r),
           NEW q \in Replicas, q # r, OrderlyEnd(q)
    PROVE  OrderlyEnd(q)'
<1>1. LoopKept(q)
  BY OthersKept
<1>2. /\ assigned'[q] = assigned[q] /\ flushed'[q] = flushed[q] /\ stop'[q] = stop[q]
      /\ dlqQueue'[q] = dlqQueue[q]
  <2> USE DEF Types, groupVars, stopVars, OnRevoke
  <2>1. CASE Poll(r)
    BY <2>1 DEF Poll, Join, OnAssign, PollMessage, BatchPolled
  <2>2. CASE Validate(r) \/ ValidateRaises(r) \/ BatchValidated(r)
    BY <2>2 DEF Validate, SendToDlq, ValidateRaises, BatchValidated, EndLoop
  <2>3. CASE WriteBatch(r) \/ RetryWrite(r) \/ GiveUpWrite(r)
    BY <2>3 DEF WriteBatch, RetryWrite, GiveUpWrite, EndLoop
  <2>4. CASE CommitAccepted(r) \/ CommitRejected(r) \/ LoopStops(r)
    BY <2>4 DEF CommitAccepted, CommitRejected, LoopStops, BatchDone, EndLoop
  <2>5. CASE Lifecycle(r)
    BY <2>5 DEF Lifecycle, Stop, Flush, Exit, Start, ExpireSession, ProcessEnds
  <2>6. CASE Environment(r)
    BY <2>6 DEF Environment, Evict, Stall, Unstall, Crash, DlqDelivered, DlqDeliveryFailed,
                ProcessEnds
  <2> QED
    BY <2>1, <2>2, <2>3, <2>4, <2>5, <2>6 DEF Loop, ProcessBatch
<1>3. dlqFaulted => dlqFaulted'
  <2>1. CASE Loop(r)
    BY <2>1 DEF Loop, Poll, Join, OnAssign, PollMessage, BatchPolled, ProcessBatch, Validate,
                ValidateRaises, BatchValidated, WriteBatch, RetryWrite, GiveUpWrite, CommitAccepted,
                CommitRejected, LoopStops, BatchDone, EndLoop
  <2>2. CASE Lifecycle(r)
    BY <2>2 DEF Lifecycle, Stop, Flush, Exit, Start, ExpireSession
  <2>3. CASE Environment(r)
    BY <2>3 DEF Environment, Evict, Stall, Unstall, Crash, DlqDelivered, DlqDeliveryFailed
  <2> QED
    BY <2>1, <2>2, <2>3
<1> QED
  BY <1>1, <1>2, <1>3 DEF OrderlyEnd, LoopKept, LoopRuns

(* A replica's own steps: once flushed it polls nothing and quarantines nothing any more. *)
LEMMA OwnEndKept ==
    ASSUME Types, NEW r \in Replicas, Loop(r) \/ Lifecycle(r) \/ Environment(r), OrderlyEnd(r)
    PROVE  OrderlyEnd(r)'
<1> USE DEF Types, OrderlyEnd, LoopRuns, groupVars, batchVars, stopVars, OnRevoke, Goto, EmptyBatch
<1>1. CASE Poll(r)
  BY <1>1 DEF Poll, Join, OnAssign, PollMessage, BatchPolled
<1>2. CASE Validate(r) \/ BatchValidated(r)
  BY <1>2 DEF Validate, BatchValidated
<1>3. CASE ValidateRaises(r) \/ GiveUpWrite(r) \/ LoopStops(r)
  BY <1>3 DEF ValidateRaises, GiveUpWrite, LoopStops, EndLoop
<1>4. CASE WriteBatch(r) \/ RetryWrite(r)
  BY <1>4 DEF WriteBatch, RetryWrite, AttemptFails
<1>5. CASE CommitAccepted(r) \/ CommitRejected(r)
  BY <1>5 DEF CommitAccepted, CommitRejected, BatchDone
<1>6. CASE Stop(r) \/ Start(r) \/ ExpireSession(r)
  BY <1>6 DEF Stop, Start, ExpireSession, Up
<1>7. CASE Flush(r)
  BY <1>7 DEF Flush
<1>8. CASE Exit(r) \/ Crash(r)
  BY <1>8 DEF Exit, Crash, ProcessEnds
<1>9. CASE Evict(r) \/ Stall(r) \/ Unstall(r)
  BY <1>9 DEF Evict, Stall, Unstall
<1>10. CASE \E m \in Messages : DlqDelivered(r, m) \/ DlqDeliveryFailed(r, m)
  BY <1>10 DEF DlqDelivered, DlqDeliveryFailed
<1> QED
  BY <1>1, <1>2, <1>3, <1>4, <1>5, <1>6, <1>7, <1>8, <1>9, <1>10
     DEF Loop, ProcessBatch, Lifecycle, Environment

(* A quarantined message leaves its queue for its topic, or by a recorded fault. *)
LEMMA QuarantineKept ==
    ASSUME Types, NEW r \in Replicas, Loop(r) \/ Lifecycle(r) \/ Environment(r), OrderlyEnd(r),
           OrderlyShutdownKeepsQuarantine
    PROVE  OrderlyShutdownKeepsQuarantine'
<1> USE DEF Types, OrderlyShutdownKeepsQuarantine
<1>1. ASSUME UNCHANGED <<handed, dlqTopic, dlqQueue, dlqFaulted>>
      PROVE  OrderlyShutdownKeepsQuarantine'
  BY <1>1
<1>2. CASE Poll(r) \/ BatchValidated(r) \/ RetryWrite(r) \/ WriteBatch(r)
  BY <1>1, <1>2 DEF Poll, Join, OnAssign, PollMessage, BatchPolled, BatchValidated, RetryWrite,
                    WriteBatch, sinkVars
<1>3. CASE \/ ValidateRaises(r) \/ GiveUpWrite(r) \/ LoopStops(r)
           \/ CommitAccepted(r) \/ CommitRejected(r)
  BY <1>1, <1>3 DEF ValidateRaises, GiveUpWrite, LoopStops, EndLoop, CommitAccepted,
                    CommitRejected, BatchDone, sinkVars
<1>4. CASE Validate(r)
  <2>1. CASE UNCHANGED <<dlqQueue, handed>>
    BY <1>1, <1>4, <2>1 DEF Validate
  <2>2. CASE SendToDlq(r, batch[r][cursor[r]])
    <3>1. batch[r][cursor[r]] \in dlqQueue'[r]
      BY <2>2 DEF SendToDlq
    <3>2. \A q \in Replicas : dlqQueue[q] \subseteq dlqQueue'[q]
      BY <2>2 DEF SendToDlq
    <3>3. dlqTopic' = dlqTopic /\ dlqFaulted' = dlqFaulted
          /\ handed' = handed \cup {batch[r][cursor[r]]}
      BY <1>4, <2>2 DEF Validate, SendToDlq
    <3> QED
      BY <3>1, <3>2, <3>3
  <2> QED
    BY <1>4, <2>1, <2>2 DEF Validate
<1>5. CASE Stop(r) \/ Start(r) \/ ExpireSession(r)
  BY <1>1, <1>5 DEF Stop, Start, ExpireSession, sinkVars
<1>6. ASSUME handed' = handed, dlqFaulted' = dlqFaulted,
             dlqTopic \subseteq dlqTopic', dlqQueue[r] \subseteq dlqTopic' \cup dlqQueue'[r],
             \A q \in Replicas \ {r} : dlqQueue'[q] = dlqQueue[q]
      PROVE  OrderlyShutdownKeepsQuarantine'
  <2>1. ASSUME NEW q \in Replicas PROVE dlqQueue[q] \subseteq dlqTopic' \cup dlqQueue'[q]
    <3>1. CASE q = r
      BY <1>6, <3>1
    <3>2. CASE q # r
      BY <1>6, <3>2
    <3> QED
      BY <3>1, <3>2
  <2> QED
    BY <1>6, <2>1
<1>7. CASE Flush(r)
  BY <1>6, <1>7 DEF Flush
<1>8. CASE Exit(r) \/ Crash(r)
  <2>1. dlqFaulted' \/ dlqQueue[r] = {}
    BY <1>8 DEF Exit, Crash, OrderlyEnd
  <2> QED
    BY <1>6, <1>8, <2>1 DEF Exit, Crash, ProcessEnds, sinkVars
<1>9. CASE Evict(r) \/ Stall(r) \/ Unstall(r)
  BY <1>1, <1>9 DEF Evict, Stall, Unstall, sinkVars
<1>10. ASSUME NEW m \in Messages, DlqDelivered(r, m) \/ DlqDeliveryFailed(r, m)
       PROVE  OrderlyShutdownKeepsQuarantine'
  BY <1>6, <1>10 DEF DlqDelivered, DlqDeliveryFailed
<1> QED
  BY <1>2, <1>3, <1>4, <1>5, <1>7, <1>8, <1>9, <1>10 DEF Loop, ProcessBatch, Lifecycle, Environment

-----------------------------------------------------------------------------
(***************************************************************************)
(* The inductive invariant, replica by replica, and the theorems.          *)
(***************************************************************************)
ReplicasInvariant ==
    /\ Types /\ CommittedInLog /\ NoLoss /\ LandOnce
    /\ \A r \in Replicas : SafeLoop(r) /\ OrderlyEnd(r)
    /\ OrderlyShutdownKeepsQuarantine

(* It says what IngestorInvariant says, grouped by replica. *)
LEMMA InvariantParts == ReplicasInvariant => IngestorInvariant
<1> SUFFICES ASSUME ReplicasInvariant PROVE IngestorInvariant
  OBVIOUS
<1>1. TypeOK
  BY DEF ReplicasInvariant, Types, CommittedInLog, TypeOK
<1>2. PositionsCovered /\ BatchCovered
  BY DEF ReplicasInvariant, SafeLoop, PositionsCovered, BatchCovered
<1>3. ValidatedPrefix /\ WrittenBeforeCommit /\ MaxOffsetsSeen
  BY DEF ReplicasInvariant, SafeLoop, ValidatedPrefix, WrittenBeforeCommit, MaxOffsetsSeen
<1>4. LoopEndReleases /\ FlushIsLast
  BY DEF ReplicasInvariant, OrderlyEnd, LoopEndReleases, FlushIsLast
<1> QED
  BY <1>1, <1>2, <1>3, <1>4 DEF ReplicasInvariant, IngestorInvariant

(* Nothing is committed, landed or in flight at first. *)
LEMMA InitInvariant == Init => ReplicasInvariant
<1> SUFFICES ASSUME Init PROVE ReplicasInvariant
  OBVIOUS
<1>1. Types
  <2>1. /\ committed = [p \in Partitions |-> 0]
        /\ position = [r \in Replicas |-> [p \in Partitions |-> 0]]
        /\ max_offset = [r \in Replicas |-> [p \in Partitions |-> -1]]
    BY DEF Init, NoOffsets
  <2>2. /\ committed \in [Partitions -> Nat]
        /\ position \in [Replicas -> [Partitions -> Nat]]
        /\ max_offset \in [Replicas -> [Partitions -> Int]]
    BY <2>1
  <2>3. batch \in [Replicas -> Seq(Messages)] /\ cursor \in [Replicas -> Nat \ {0}]
    BY DEF Init
  <2> QED
    BY <2>2, <2>3 DEF Init, Types
<1>2. CommittedInLog
  <2>1. ASSUME NEW p \in Partitions PROVE committed[p] <= LogEnd(p)
    <3>1. committed[p] = 0
      BY DEF Init
    <3> QED
      BY <3>1, LogEndIsNat
  <2> QED
    BY <2>1 DEF CommittedInLog
<1>3. NoLoss /\ LandOnce
  BY DEF Init, NoLoss, Landing!NoLoss, LandOnce, Landing!LandOnce
<1>4. ASSUME NEW r \in Replicas PROVE SafeLoop(r)
  <2>1. DOMAIN batch[r] = {} /\ ParsedRows(r) = {}
    BY DEF Init, ParsedRows
  <2>2. ASSUME NEW p \in Partitions PROVE ~(max_offset[r][p] >= 0)
    <3>1. max_offset[r] = NoOffsets
      BY DEF Init
    <3> QED
      BY <3>1 DEF NoOffsets
  <2>3. phase[r] = "poll" /\ cursor[r] = 1 /\ assignment[r] = {}
    BY DEF Init
  <2> QED
    BY <2>1, <2>2, <2>3 DEF SafeLoop, LoopRuns
<1>5. \A r \in Replicas : OrderlyEnd(r)
  BY DEF Init, OrderlyEnd, LoopRuns
<1>6. OrderlyShutdownKeepsQuarantine
  BY DEF Init, OrderlyShutdownKeepsQuarantine
<1> QED
  BY <1>1, <1>2, <1>3, <1>4, <1>5, <1>6 DEF ReplicasInvariant

(* A step that touches neither the sinks nor a loop, like a completed rebalance, keeps it. *)
LEMMA QuietStepInvariant ==
    ASSUME ReplicasInvariant, Types',
           UNCHANGED <<committed, landing, handed, dlqTopic, phase, batch, cursor, max_offset,
                       assigned, assignment, position, dlqQueue, stop, flushed, dlqFaulted>>
    PROVE  ReplicasInvariant'
<1>1. CommittedInLog' /\ NoLoss' /\ LandOnce' /\ OrderlyShutdownKeepsQuarantine'
  BY DEF ReplicasInvariant, CommittedInLog, NoLoss, Landing!NoLoss, LandOnce, Landing!LandOnce,
         Landing!Accounted, Landing!Landed, OrderlyShutdownKeepsQuarantine
<1>2. ASSUME NEW r \in Replicas PROVE SafeLoop(r)'
  BY KeptLoopStaysSafe DEF ReplicasInvariant, SinksGrow, LoopKept
<1>3. \A r \in Replicas : OrderlyEnd(r)'
  BY DEF ReplicasInvariant, OrderlyEnd, LoopRuns
<1> QED
  BY <1>1, <1>2, <1>3 DEF ReplicasInvariant

(* Every step keeps it. *)
LEMMA StepInvariant == ReplicasInvariant /\ [Next]_vars => ReplicasInvariant'
<1> SUFFICES ASSUME ReplicasInvariant, [Next]_vars PROVE ReplicasInvariant'
  OBVIOUS
<1>1. CASE CompleteRebalance
  <2>1. Types'
    BY <1>1 DEF ReplicasInvariant, Types, CompleteRebalance, sinkVars, batchVars, probeVars, stopVars
  <2> QED
    BY <1>1, <2>1, QuietStepInvariant DEF CompleteRebalance, sinkVars, batchVars, stopVars
<1>2. CASE UNCHANGED vars
  <2>1. Types'
    BY <1>2 DEF ReplicasInvariant, Types, vars, groupVars, sinkVars, batchVars, probeVars, stopVars
  <2> QED
    BY <1>2, <2>1, QuietStepInvariant DEF vars, groupVars, sinkVars, batchVars, stopVars
<1>3. ASSUME NEW r \in Replicas, Loop(r) \/ Lifecycle(r) \/ Environment(r)
      PROVE  ReplicasInvariant'
  <2> USE DEF ReplicasInvariant
  <2>1. Types'
    BY <1>3, StepTypes
  <2>2. CommittedInLog' /\ NoLoss'
    BY <1>3, CommitStep
  <2>3. LandOnce' /\ SinksGrow
    <3>1. ASSUME landing' = landing PROVE LandOnce'
      BY <3>1 DEF LandOnce, Landing!LandOnce
    <3> QED
      BY <1>3, <3>1, SinkSteps DEF SinksGrow
  <2>4. ASSUME NEW q \in Replicas PROVE SafeLoop(q)' /\ OrderlyEnd(q)'
    <3>1. CASE q = r
      BY <1>3, <3>1, OwnLoopSafe, OwnEndKept
    <3>2. CASE q # r
      BY <1>3, <2>3, <3>2, OthersKept, KeptLoopStaysSafe, OthersEndKept
    <3> QED
      BY <3>1, <3>2
  <2>5. OrderlyShutdownKeepsQuarantine'
    BY <1>3, QuarantineKept
  <2> QED
    BY <2>1, <2>2, <2>3, <2>4, <2>5
<1> QED
  BY <1>1, <1>2, <1>3 DEF Next

(* Every reachable state satisfies the invariant the loops are built on. *)
THEOREM InvariantHolds == Spec => []IngestorInvariant
<1>1. Spec => []ReplicasInvariant
  BY InitInvariant, StepInvariant, PTL DEF Spec
<1> QED
  BY <1>1, InvariantParts, PTL

(* The variables keep their types, and no offset past the end of a partition is committed. *)
THEOREM TypeCorrect == Spec => []TypeOK
  BY InvariantHolds, PTL DEF IngestorInvariant

(* At-least-once: what is committed has landed or was handed to the dead-letter producer,  *)
(* for any number of replicas, rebalances, crashes and failed calls.                       *)
THEOREM NothingLost == Spec => []NoLoss
  BY InvariantHolds, PTL DEF IngestorInvariant

(* Idempotent sink: redelivered and duplicated events leave one row. *)
THEOREM LandedOnce == Spec => []LandOnce
  BY InvariantHolds, PTL DEF IngestorInvariant

(* /ready implies a consume loop that runs. *)
THEOREM ReadyReplicasConsume == Spec => []ReadyMeansConsuming
<1>1. IngestorInvariant => ReadyMeansConsuming
  BY DEF IngestorInvariant, LoopEndReleases, ReadyMeansConsuming, Readiness
<1> QED
  BY <1>1, InvariantHolds, PTL

(* Without a kill or a failed delivery no quarantined message is lost. *)
THEOREM QuarantineSurvivesShutdown == Spec => []OrderlyShutdownKeepsQuarantine
  BY InvariantHolds, PTL DEF IngestorInvariant

-----------------------------------------------------------------------------
(***************************************************************************)
(* The ingestor implements ReliableLanding.                                *)
(***************************************************************************)

(* Every step is a Land, a Quarantine, a Commit or nothing, seen from outside. *)
LEMMA StepImplements ==
    ReplicasInvariant /\ ReplicasInvariant' /\ [Next]_vars => [Landing!Next]_(Landing!vars)
<1> SUFFICES ASSUME ReplicasInvariant, ReplicasInvariant', [Next]_vars
             PROVE  [Landing!Next]_(Landing!vars)
  OBVIOUS
<1>1. CASE CompleteRebalance \/ UNCHANGED vars
  BY <1>1 DEF CompleteRebalance, vars, sinkVars, Landing!vars
<1>2. ASSUME NEW r \in Replicas, Loop(r) \/ Lifecycle(r) \/ Environment(r)
      PROVE  [Landing!Next]_(Landing!vars)
  <2>1. CASE landing' = landing /\ handed' = handed
    <3>1. Landing!Commit
      BY <2>1, LandingLog
         DEF ReplicasInvariant, Types, CommittedInLog, NoLoss, Landing!Commit
    <3> QED
      BY <3>1 DEF Landing!Next
  <2>2. CASE /\ landing \subseteq landing' /\ LandOnce'
             /\ handed' = handed /\ committed' = committed
    <3>1. Landing!Land
      BY <2>2 DEF ReplicasInvariant, Types, LandOnce, Landing!Land
    <3> QED
      BY <3>1 DEF Landing!Next
  <2>3. CASE /\ landing' = landing /\ committed' = committed
             /\ \E m \in Messages : KindOf(m) = "invalid" /\ handed' = handed \cup {m}
    <3>1. \E m \in Landing!Messages : Landing!Quarantine(m)
      BY <2>3, LandingLog DEF Landing!Quarantine
    <3> QED
      BY <3>1 DEF Landing!Next
  <2> QED
    BY <1>2, <2>1, <2>2, <2>3, SinkSteps DEF ReplicasInvariant
<1> QED
  BY <1>1, <1>2 DEF Next

(* The ingestor is an implementation of reliable landing. *)
THEOREM Implements == Spec => ImplementsReliableLanding
<1>1. Init => Landing!Init
  BY DEF Init, Landing!Init
<1>2. Spec => []ReplicasInvariant
  BY InitInvariant, StepInvariant, PTL DEF Spec
<1> QED
  BY <1>1, <1>2, StepImplements, PTL DEF Spec, Landing!Spec, ImplementsReliableLanding
=============================================================================
