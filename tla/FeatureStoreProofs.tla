------------------------- MODULE FeatureStoreProofs -------------------------
(***************************************************************************)
(* Proofs about FeatureStore, for any tables, jobs, chunk size and number  *)
(* of faults.                                                              *)
(*                                                                         *)
(* The argument: while a job is under way, each row it owes is online or   *)
(* inside a window it has not finished (Promise); the window it waits for  *)
(* is one of those, and its request has read, then written, the owed rows  *)
(* of the window (Awaited).  So a job without windows left owes nothing    *)
(* that is not online.  Every request, awaited or abandoned, covers the    *)
(* rows that are not late (RequestsCover), and a backfill's request leaves *)
(* none behind in front of its window (Resumed), so that recording the     *)
(* window keeps PrefixServed.  That a plan's windows cover its rows is the *)
(* lemma WindowsCover.                                                     *)
(***************************************************************************)
EXTENDS FeatureStore, FiniteSetTheorems, WellFoundedInduction, TLAPS

-----------------------------------------------------------------------------
(* Finite sets of times                                                    *)

Less == {p \in Nat \X Nat : p[1] < p[2]}

(* The order of the natural numbers is well-founded. *)
LEMMA LessWellFounded == IsWellFoundedOn(Less, Nat)
<1>1. Less = OpToRel(<, Nat)
  BY DEF OpToRel, Less
<1> QED BY <1>1, NatLessThanWellFounded

(* A nonempty set of naturals has a least element. *)
LEMMA MinExists ==
  ASSUME NEW S, S \subseteq Nat, S # {}
  PROVE  \E m \in S : \A x \in S : m <= x
<1>1. PICK m \in S : \A y \in S : ~ (<<y, m>> \in Less)
  BY LessWellFounded, WFMin
<1>2. ASSUME NEW x \in S PROVE m <= x
  <2>1. m \in Nat /\ x \in Nat
    OBVIOUS
  <2>2. ~ (<<x, m>> \in Less)
    BY <1>1
  <2>3. <<x, m>> \in Nat \X Nat
    BY <2>1
  <2>4. ~ (x < m)
    BY <2>2, <2>3 DEF Less
  <2> QED BY <2>1, <2>4
<1> QED BY <1>2

(* A nonempty bounded set of naturals has a greatest element. *)
LEMMA BoundedMaxExists ==
  ASSUME NEW S, S \subseteq Nat, S # {}, NEW b \in Nat, \A x \in S : x <= b
  PROVE  \E m \in S : \A x \in S : x <= m
<1> DEFINE T == {b - x : x \in S}
<1>1. T \subseteq Nat
  <2>1. \A x \in S : b - x \in Nat
    OBVIOUS
  <2> QED BY <2>1
<1>2. T # {}
  OBVIOUS
<1>3. PICK d \in T : \A y \in T : d <= y
  <2> HIDE DEF T
  <2> QED BY <1>1, <1>2, MinExists
<1>4. PICK m \in S : d = b - m
  BY <1>3
<1>5. ASSUME NEW x \in S PROVE x <= m
  <2>1. b - x \in T
    OBVIOUS
  <2>2. b - m <= b - x
    BY <2>1, <1>3, <1>4
  <2>3. x \in Nat /\ m \in Nat
    OBVIOUS
  <2> QED BY <2>2, <2>3
<1> QED BY <1>5

(* A finite set has an element of the highest value: one with the fewest above it. *)
LEMMA HighestExists ==
  ASSUME NEW S, IsFiniteSet(S), S # {}, NEW f \in [S -> Nat]
  PROVE  \E m \in S : \A x \in S : f[x] <= f[m]
<1> DEFINE Above(x) == {y \in S : f[x] < f[y]}
           C == {Cardinality(Above(x)) : x \in S}
<1>1. ASSUME NEW x \in S
      PROVE  IsFiniteSet(Above(x)) /\ Cardinality(Above(x)) \in Nat
  <2>1. IsFiniteSet(Above(x))
    BY FS_Subset
  <2> HIDE DEF Above
  <2> QED BY <2>1, FS_CardinalityType
<1>2. C \subseteq Nat /\ C # {}
  BY <1>1
<1>3. PICK c \in C : \A d \in C : c <= d
  <2> HIDE DEF C
  <2> QED BY <1>2, MinExists
<1>4. PICK m \in S : c = Cardinality(Above(m))
  BY <1>3
<1>5. ASSUME NEW x \in S, ~ (f[x] <= f[m]) PROVE FALSE
  <2>1. f[m] < f[x]
    BY <1>5
  <2>2. Above(x) \subseteq Above(m)
    BY <2>1
  <2>3. x \in Above(m) /\ x \notin Above(x)
    BY <2>1
  <2>4. /\ IsFiniteSet(Above(m))
        /\ Cardinality(Above(x)) \in Nat /\ Cardinality(Above(m)) \in Nat
    BY <1>1
  <2>5. /\ Cardinality(Above(x)) <= Cardinality(Above(m))
        /\ (Cardinality(Above(m)) = Cardinality(Above(x)) => Above(m) = Above(x))
    <3> HIDE DEF Above
    <3> QED BY <2>2, <2>4, FS_Subset
  <2>6. Cardinality(Above(m)) <= Cardinality(Above(x))
    BY <1>3, <1>4
  <2>7. Above(m) # Above(x)
    BY <2>3
  <2> HIDE DEF Above
  <2> QED BY <2>4, <2>5, <2>6, <2>7
<1> QED BY <1>5

(* Of a nonempty set of rows one is the latest, since every row has an instant below the bound. *)
LEMMA LatestExists ==
  ASSUME NEW rows \in SUBSET Entities, rows # {}
  PROVE  \E m \in rows : \A e \in rows : FeatureTime[e] <= FeatureTime[m]
<1> DEFINE f == [e \in rows |-> FeatureTime[e]]
<1>1. IsFiniteSet(rows)
  BY TablesAssumption, FS_Subset
<1>2. f \in [rows -> Nat]
  BY TablesAssumption
<1>3. PICK m \in rows : \A e \in rows : f[e] <= f[m]
  <2> HIDE DEF f
  <2> QED BY <1>1, <1>2, HighestExists
<1> QED BY <1>3

(* Earliest is an instant no row is before. *)
LEMMA EarliestIsLeast ==
  ASSUME NEW rows \in SUBSET Entities, rows # {}
  PROVE  Earliest(rows) \in Nat /\ \A e \in rows : Earliest(rows) <= FeatureTime[e]
<1>1. Times(rows) \subseteq Nat /\ Times(rows) # {}
  BY TablesAssumption DEF Times
<1>2. \E t \in Times(rows) : \A u \in Times(rows) : t <= u
  BY <1>1, MinExists
<1>3. Earliest(rows) \in Times(rows) /\ \A u \in Times(rows) : Earliest(rows) <= u
  BY <1>2 DEF Earliest
<1> QED BY <1>1, <1>3 DEF Times

(* Latest is an instant no row is after. *)
LEMMA LatestIsGreatest ==
  ASSUME NEW rows \in SUBSET Entities, rows # {}
  PROVE  Latest(rows) \in Nat /\ \A e \in rows : FeatureTime[e] <= Latest(rows)
<1>1. Times(rows) \subseteq Nat
  BY TablesAssumption DEF Times
<1>2. PICK m \in rows : \A e \in rows : FeatureTime[e] <= FeatureTime[m]
  BY LatestExists
<1>3. \E t \in Times(rows) : \A u \in Times(rows) : u <= t
  BY <1>2 DEF Times
<1>4. Latest(rows) \in Times(rows) /\ \A u \in Times(rows) : u <= Latest(rows)
  BY <1>3 DEF Latest
<1> QED BY <1>1, <1>4 DEF Times

-----------------------------------------------------------------------------
(* The windows of a plan *)

(* The windows cut out of an interval of instants are pairs of instants. *)
LEMMA WindowsTyped ==
  ASSUME NEW start \in Nat, NEW end \in Nat, NEW bounds, bounds \subseteq Nat
  PROVE  Windows(start, end, bounds) \in SUBSET (Nat \X Nat)
BY DEF Windows

(* Every moment from the start to the end of a plan is inside a window of it. *)
LEMMA WindowsCover ==
  ASSUME NEW start \in Nat, NEW end \in Nat, start < end,
         NEW bounds, bounds \subseteq Nat,
         NEW t \in Nat, start <= t, t <= end
  PROVE  \E w \in Windows(start, end, bounds) : w[1] <= t /\ t <= w[2]
<1> DEFINE edges == {start, end} \cup {b \in bounds : start < b /\ b < end}
           below == {b \in edges : b <= t /\ b < end}
<1>1. edges \subseteq Nat /\ \A b \in edges : b <= end
  <2>1. edges \subseteq Nat
    OBVIOUS
  <2>2. ASSUME NEW b \in edges PROVE b <= end
    <3>1. b = start \/ b = end \/ (b \in Nat /\ b < end)
      BY <2>1
    <3> QED BY <3>1
  <2> QED BY <2>1, <2>2
<1>2. below \subseteq Nat /\ start \in below /\ \A b \in below : b <= end
  <2>1. below \subseteq edges
    OBVIOUS
  <2>2. start \in below
    OBVIOUS
  <2> HIDE DEF below, edges
  <2> QED BY <1>1, <2>1, <2>2
<1>3. PICK lo \in below : \A b \in below : b <= lo
  <2> HIDE DEF below
  <2> QED BY <1>2, BoundedMaxExists
<1> DEFINE above == {b \in edges : lo < b}
<1>4. above \subseteq Nat /\ end \in above
  OBVIOUS
<1>5. PICK hi \in above : \A b \in above : hi <= b
  <2> HIDE DEF above
  <2> QED BY <1>4, MinExists
<1>6. lo \in Nat /\ hi \in Nat /\ lo <= t /\ lo < hi /\ lo \in edges /\ hi \in edges
  BY <1>1
<1>7. t <= hi
  <2>1. CASE hi = end
    BY <2>1
  <2>2. CASE hi # end /\ ~ (t <= hi)
    <3>1. hi <= end
      BY <1>1, <1>6
    <3>2. hi \in below
      BY <2>2, <1>6, <3>1
    <3> QED BY <3>2, <1>3, <1>6
  <2> QED BY <2>1, <2>2
<1>8. \A b \in edges : b <= lo \/ hi <= b
  BY <1>1, <1>5, <1>6
<1>9. <<lo, hi>> \in Windows(start, end, bounds)
  BY <1>6, <1>8 DEF Windows
<1> QED BY <1>6, <1>7, <1>9

-----------------------------------------------------------------------------
(* Types *)

(* The registry holds finitely many intervals, so that one of them ends last. *)
Types == TypeOK /\ IsFiniteSet(intervals)

(* What the runs have curated are entities. *)
LEMMA FeaturedTyped == ASSUME TypeOK PROVE Featured \in SUBSET Entities
<1>1. \A r \in Runs : featuresOf[r] \subseteq Entities
  BY DEF TypeOK, TablesTypeOK
<1> QED BY <1>1, TablesAssumption DEF Featured

(* The resume point is the end of one of the recorded intervals. *)
LEMMA ResumePointTyped ==
  ASSUME Types, intervals # {}
  PROVE  ResumePoint \in Nat /\ \E i \in intervals : ResumePoint = i[2]
<1> DEFINE f == [i \in intervals |-> i[2]]
<1>1. intervals \subseteq Nat \X Nat
  BY DEF Types, TypeOK
<1>2. f \in [intervals -> Nat]
  BY <1>1
<1>3. PICK m \in intervals : \A i \in intervals : f[i] <= f[m]
  <2> HIDE DEF f
  <2> QED BY <1>2, HighestExists DEF Types
<1>4. \E t \in {i[2] : i \in intervals} : \A i \in intervals : i[2] <= t
  BY <1>3
<1>5. ResumePoint \in {i[2] : i \in intervals}
  BY <1>4 DEF ResumePoint
<1> QED BY <1>1, <1>5

(* The windows of a run are pairs of instants. *)
LEMMA RunWindowsTyped ==
  ASSUME NEW rows \in SUBSET Entities
  PROVE  RunWindows(rows) \in SUBSET (Nat \X Nat)
<1>1. CASE rows = {}
  BY <1>1 DEF RunWindows
<1>2. CASE rows # {}
  <2>1. Earliest(rows) \in Nat /\ Latest(rows) + 1 \in Nat
    BY <1>2, EarliestIsLeast, LatestIsGreatest
  <2>2. Boundaries(rows) \subseteq Nat
    BY TablesAssumption DEF Boundaries, Times
  <2>3. Windows(Earliest(rows), Latest(rows) + 1, Boundaries(rows)) \in SUBSET (Nat \X Nat)
    BY <2>1, <2>2, WindowsTyped
  <2> QED BY <1>2, <2>3 DEF RunWindows
<1> QED BY <1>1, <1>2

(* What the two plans leave: the windows of the plan, and what they are to serve. *)
PlanOf(j, windows, rows) == /\ Undertake(j, windows, rows)
                            /\ windows \in SUBSET (Nat \X Nat)
                            /\ rows \in SUBSET Featured
                            /\ \A e \in rows : \E w \in windows : /\ w[1] <= FeatureTime[e]
                                                                  /\ FeatureTime[e] <= w[2]

(* The plan of a run is the windows around the rows it curated. *)
LEMMA RunPlan ==
  ASSUME TypeOK, NEW r \in Runs, PlanRun(r)
  PROVE  PlanOf(r, RunWindows(featuresOf[r]), featuresOf[r]) /\ asked' = asked
<1> DEFINE rows == featuresOf[r]
<1>1. rows \in SUBSET Entities
  BY DEF TypeOK, TablesTypeOK
<1>2. rows \in SUBSET Featured
  BY DEF Featured
<1>3. RunWindows(rows) \in SUBSET (Nat \X Nat)
  <2> HIDE DEF rows
  <2> QED BY <1>1, RunWindowsTyped
<1>4. ASSUME NEW e \in rows
      PROVE  \E w \in RunWindows(rows) : w[1] <= FeatureTime[e] /\ FeatureTime[e] <= w[2]
  <2> HIDE DEF rows
  <2>1. rows # {}
    BY <1>4
  <2>2. /\ Earliest(rows) \in Nat /\ Latest(rows) \in Nat
        /\ Earliest(rows) <= FeatureTime[e] /\ FeatureTime[e] <= Latest(rows)
    BY <1>1, <2>1, EarliestIsLeast, LatestIsGreatest
  <2>3. FeatureTime[e] \in Nat
    BY <1>1, TablesAssumption
  <2>4. /\ Latest(rows) + 1 \in Nat /\ Earliest(rows) < Latest(rows) + 1
        /\ FeatureTime[e] <= Latest(rows) + 1
    BY <2>2, <2>3
  <2>5. Boundaries(rows) \subseteq Nat
    BY <1>1, TablesAssumption DEF Boundaries, Times
  <2>6. \E w \in Windows(Earliest(rows), Latest(rows) + 1, Boundaries(rows)) :
            w[1] <= FeatureTime[e] /\ FeatureTime[e] <= w[2]
    BY <2>2, <2>3, <2>4, <2>5, WindowsCover
  <2> QED BY <2>1, <2>6 DEF RunWindows
<1>5. Undertake(r, RunWindows(rows), rows) /\ asked' = asked
  BY DEF PlanRun
<1> HIDE DEF rows
<1>6. PlanOf(r, RunWindows(rows), rows)
  BY <1>2, <1>3, <1>4, <1>5 DEF PlanOf
<1> QED BY <1>5, <1>6 DEF rows

(* The plan of a backfill is a set of windows over some rows, which it records as asked. *)
LEMMA BackfillPlan ==
  ASSUME Types, NEW b \in Backfills, PlanBackfill(b)
  PROVE  /\ \E windows, rows : PlanOf(b, windows, rows)
         /\ \E rows \in SUBSET Entities : asked' = [asked EXCEPT ![b] = rows]
<1>0. Featured \in SUBSET Entities
  BY FeaturedTyped DEF Types
<1>1. PICK end \in Instants :
          LET start == IF intervals = {} THEN Earliest(Featured) ELSE ResumePoint
              stop == IF end < Latest(Featured) THEN end ELSE Latest(Featured)
              rows == Within(Featured, <<start, stop>>)
          IN  /\ IF Featured = {} \/ start >= stop
                 THEN Undertake(b, {}, {})
                 ELSE Undertake(b, Windows(start, stop, Boundaries(rows)), rows)
              /\ asked' = [asked EXCEPT ![b] = Within(Featured, <<0, end>>)]
  BY DEF PlanBackfill
<1> DEFINE start == IF intervals = {} THEN Earliest(Featured) ELSE ResumePoint
           stop == IF end < Latest(Featured) THEN end ELSE Latest(Featured)
           rows == Within(Featured, <<start, stop>>)
<1>2. Within(Featured, <<0, end>>) \in SUBSET Entities
  BY <1>0 DEF Within
<1>3. CASE Featured = {} \/ start >= stop
  <2>1. Undertake(b, {}, {})
    BY <1>1, <1>3
  <2>2. PlanOf(b, {}, {})
    BY <2>1 DEF PlanOf
  <2> QED BY <1>1, <1>2, <2>2
<1>4. CASE ~ (Featured = {} \/ start >= stop)
  <2>1. Undertake(b, Windows(start, stop, Boundaries(rows)), rows)
    BY <1>1, <1>4
  <2>2. start \in Nat
    BY <1>0, <1>4, EarliestIsLeast, ResumePointTyped
  <2>3. stop \in Nat
    <3>1. end \in Nat /\ Latest(Featured) \in Nat
      BY <1>0, <1>4, LatestIsGreatest, TablesAssumption
    <3> QED BY <3>1
  <2>4. rows \in SUBSET Featured /\ Boundaries(rows) \subseteq Nat
    BY <1>0, TablesAssumption DEF Within, Boundaries, Times
  <2>5. \A e \in rows : /\ FeatureTime[e] \in Nat
                        /\ start <= FeatureTime[e] /\ FeatureTime[e] <= stop
    BY <1>0, TablesAssumption DEF Within
  <2> HIDE DEF start, stop, rows
  <2>6. start < stop
    BY <1>4, <2>2, <2>3
  <2>7. Windows(start, stop, Boundaries(rows)) \in SUBSET (Nat \X Nat)
    BY <2>2, <2>3, <2>4, WindowsTyped
  <2>8. \A e \in rows : \E w \in Windows(start, stop, Boundaries(rows)) :
                            w[1] <= FeatureTime[e] /\ FeatureTime[e] <= w[2]
    BY <2>2, <2>3, <2>4, <2>5, <2>6, WindowsCover
  <2>9. PlanOf(b, Windows(start, stop, Boundaries(rows)), rows)
    BY <2>1, <2>4, <2>7, <2>8 DEF PlanOf
  <2> QED BY <1>1, <1>2, <2>9
<1> QED BY <1>3, <1>4

(* The empty request is a request. *)
LEMMA NoRequestTyped == NoRequest \in Request
BY DEF NoRequest, Request

(* One attempt's request changes, the others stay. *)
LEMMA SetRequest ==
  ASSUME TypeOK, NEW j \in Jobs, NEW n \in Tries, NEW q \in Request,
         request' = [request EXCEPT ![j][n] = q]
  PROVE  /\ request' \in [Jobs -> [Tries -> Request]]
         /\ request'[j][n] = q
         /\ \A k \in Jobs, m \in Tries : (k # j \/ m # n) => request'[k][m] = request[k][m]
BY DEF TypeOK

(* The variables have their types initially. *)
LEMMA TypesInit == Init => Types
<1> SUFFICES ASSUME Init PROVE Types
  OBVIOUS
<1> USE DEF Init, TablesInit, StoreInit
<1>1. TablesTypeOK
  BY TablesAssumption DEF TablesTypeOK
<1>2. request \in [Jobs -> [Tries -> Request]]
  BY NoRequestTyped
<1>3. IsFiniteSet(intervals)
  BY FS_EmptySet
<1>4. /\ tries \in [Jobs -> Tries] /\ faults \in 0 .. MaxFaults
  BY StoreAssumption DEF Tries
<1>5. pc \in [Jobs -> {"curate", "plan", "send", "wait", "done", "failed"}]
  OBVIOUS
<1>6. /\ todo \in [Jobs -> SUBSET (Nat \X Nat)] /\ seen \in [Jobs -> SUBSET Entities]
      /\ owed \in [Jobs -> SUBSET Entities] /\ asked \in [Jobs -> SUBSET Entities]
  OBVIOUS
<1> QED BY <1>1, <1>2, <1>3, <1>4, <1>5, <1>6 DEF Types, TypeOK

(* Giving up a job keeps the types of what it touches. *)
LEMMA TypesAbort ==
  ASSUME TypeOK, NEW j \in Jobs, Abort(j)
  PROVE  /\ todo' \in [Jobs -> SUBSET (Nat \X Nat)] /\ owed' \in [Jobs -> SUBSET Entities]
         /\ tries' \in [Jobs -> Tries]
         /\ pc' \in [Jobs -> {"curate", "plan", "send", "wait", "done", "failed"}]
<1>1. tries[j] < Retries => tries[j] + 1 \in Tries
  BY StoreAssumption DEF TypeOK, Tries
<1> QED BY <1>1 DEF TypeOK, Abort

(* A fault is counted within the bound. *)
LEMMA TypesFault == ASSUME TypeOK, NEW kind, Fault(kind) PROVE faults' \in 0 .. MaxFaults
BY StoreAssumption DEF TypeOK, Fault

(* Planning, by a run or a backfill, keeps the types. *)
LEMMA TypesPlan ==
  ASSUME Types, NEW j \in Jobs, NEW windows, NEW rows, PlanOf(j, windows, rows),
         asked' \in [Jobs -> SUBSET Entities]
  PROVE  Types'
<1>1. rows \in SUBSET Entities
  BY FeaturedTyped DEF Types, PlanOf
<1>2. /\ todo' \in [Jobs -> SUBSET (Nat \X Nat)] /\ seen' \in [Jobs -> SUBSET Entities]
      /\ owed' \in [Jobs -> SUBSET Entities]
      /\ pc' \in [Jobs -> {"curate", "plan", "send", "wait", "done", "failed"}]
  BY <1>1 DEF Types, TypeOK, PlanOf, Undertake
<1>3. UNCHANGED <<tableVars, online, intervals, tries, request, faults, lost, late, skipped>>
  BY DEF PlanOf, Undertake
<1> QED BY <1>2, <1>3 DEF Types, TypeOK, TablesTypeOK, tableVars

(* Every step of the store keeps the types. *)
LEMMA TypesNext == Types /\ [StoreNext]_vars => Types'
<1> SUFFICES ASSUME Types, [StoreNext]_vars PROVE Types'
  OBVIOUS
<1>0. TypeOK /\ Featured \in SUBSET Entities
  BY FeaturedTyped DEF Types
<1>1. ASSUME NEW r \in Runs, Curate(r) PROVE Types'
  <2>1. PICK newFeatures \in SUBSET Entities, newLabels \in SUBSET Entities :
            /\ Upsert(r, newFeatures, newLabels)
            /\ late' = late \cup {e \in newFeatures : \E t \in Reached : FeatureTime[e] <= t}
    BY <1>1 DEF Curate
  <2>2. TablesTypeOK'
    BY <1>0, <2>1 DEF TypeOK, TablesTypeOK, Upsert
  <2>3. late' \subseteq Entities
    BY <1>0, <2>1 DEF TypeOK
  <2>4. pc' \in [Jobs -> {"curate", "plan", "send", "wait", "done", "failed"}]
    BY <1>0, <1>1 DEF TypeOK, Curate
  <2> QED BY <1>1, <2>2, <2>3, <2>4 DEF Curate, requestVars, historyVars, Types, TypeOK
<1>2. ASSUME NEW r \in Runs, PlanRun(r) PROVE Types'
  <2>1. PlanOf(r, RunWindows(featuresOf[r]), featuresOf[r]) /\ asked' = asked
    BY <1>0, <1>2, RunPlan
  <2> QED BY <2>1, TypesPlan DEF Types, TypeOK, Jobs
<1>3. ASSUME NEW b \in Backfills, PlanBackfill(b) PROVE Types'
  <2>1. PICK windows, rows : PlanOf(b, windows, rows)
    BY <1>3, BackfillPlan
  <2>2. asked' \in [Jobs -> SUBSET Entities]
    BY <1>0, <1>3, BackfillPlan DEF TypeOK
  <2> QED BY <2>1, <2>2, TypesPlan DEF Jobs
<1>4. ASSUME NEW j \in Jobs, Send(j) PROVE Types'
  <2>1. PICK w \in todo[j] : request' = [request EXCEPT ![j][tries[j]] =
                                            [window |-> w, stage |-> "read", rows |-> {}]]
    BY <1>4 DEF Send
  <2>2. [window |-> w, stage |-> "read", rows |-> {}] \in Request /\ tries[j] \in Tries
    BY <1>0 DEF TypeOK, Request
  <2>3. request' \in [Jobs -> [Tries -> Request]]
    BY <1>0, <2>1, <2>2, SetRequest
  <2>4. pc' \in [Jobs -> {"curate", "plan", "send", "wait", "done", "failed"}]
    BY <1>0, <1>4 DEF TypeOK, Send
  <2> QED BY <1>4, <2>3, <2>4 DEF Send, tableVars, historyVars, Types, TypeOK, TablesTypeOK
<1>5. ASSUME NEW j \in Jobs, NEW n \in Tries, ReadRows(j, n) PROVE Types'
  <2> DEFINE q == [window |-> request[j][n].window, stage |-> "write",
                   rows |-> Within(Featured, request[j][n].window)]
  <2>1. q \in Request
    BY <1>0 DEF TypeOK, Request, Within
  <2>2. request' \in [Jobs -> [Tries -> Request]]
    BY <1>0, <1>5, <2>1, SetRequest DEF ReadRows
  <2> QED BY <1>5, <2>2 DEF ReadRows, tableVars, historyVars, Types, TypeOK, TablesTypeOK
<1>6. ASSUME NEW j \in Jobs, NEW n \in Tries, WriteRows(j, n) PROVE Types'
  <2> DEFINE q == [window |-> request[j][n].window, stage |-> "record",
                   rows |-> request[j][n].rows]
  <2>1. q \in Request /\ request[j][n].rows \subseteq Entities
    BY <1>0 DEF TypeOK, Request
  <2>2. request' \in [Jobs -> [Tries -> Request]]
    BY <1>0, <1>6, <2>1, SetRequest DEF WriteRows
  <2>3. online' \subseteq Entities
    BY <1>0, <1>6, <2>1 DEF TypeOK, WriteRows
  <2> QED BY <1>6, <2>2, <2>3 DEF WriteRows, tableVars, historyVars, Types, TypeOK, TablesTypeOK
<1>7. ASSUME NEW j \in Jobs, NEW n \in Tries, RecordInterval(j, n) PROVE Types'
  <2> DEFINE w == request[j][n].window
  <2>1. w \in Nat \X Nat
    BY <1>0 DEF TypeOK, Request
  <2>2. request' \in [Jobs -> [Tries -> Request]]
    BY <1>0, <1>7, NoRequestTyped, SetRequest DEF RecordInterval
  <2>3. intervals' = intervals \cup {w}
    BY <1>7 DEF RecordInterval
  <2>4. intervals' \subseteq Nat \X Nat /\ IsFiniteSet(intervals')
    <3> HIDE DEF w
    <3> QED BY <1>0, <2>1, <2>3, FS_AddElement DEF Types, TypeOK
  <2>5. skipped' \subseteq Entities
    BY <1>0, <1>7 DEF TypeOK, RecordInterval
  <2>6. todo' \in [Jobs -> SUBSET (Nat \X Nat)]
    BY <1>0, <1>7 DEF TypeOK, RecordInterval
  <2>7. pc' \in [Jobs -> {"curate", "plan", "send", "wait", "done", "failed"}]
    BY <1>0, <1>7 DEF TypeOK, RecordInterval
  <2>8. UNCHANGED <<tableVars, online, tries, faults, historyVars, lost, late>>
    BY <1>7 DEF RecordInterval
  <2> QED BY <2>2, <2>4, <2>5, <2>6, <2>7, <2>8
          DEF tableVars, historyVars, Types, TypeOK, TablesTypeOK
<1>8. ASSUME NEW j \in Jobs, NEW n \in Tries, RequestFails(j, n) PROVE Types'
  <2>1. faults' \in 0 .. MaxFaults
    BY <1>0, <1>8, TypesFault DEF RequestFails
  <2>2. request' \in [Jobs -> [Tries -> Request]]
    BY <1>0, <1>8, NoRequestTyped, SetRequest DEF RequestFails
  <2>3. online' \subseteq Entities
    <3>1. request[j][n].rows \subseteq Entities
      BY <1>0 DEF TypeOK, Request
    <3> QED BY <1>0, <1>8, <3>1 DEF TypeOK, RequestFails
  <2>4. /\ todo' \in [Jobs -> SUBSET (Nat \X Nat)] /\ owed' \in [Jobs -> SUBSET Entities]
        /\ tries' \in [Jobs -> Tries]
        /\ pc' \in [Jobs -> {"curate", "plan", "send", "wait", "done", "failed"}]
    <3>1. CASE pc[j] = "wait" /\ n = tries[j]
      BY <1>0, <1>8, <3>1, TypesAbort DEF RequestFails
    <3>2. CASE ~ (pc[j] = "wait" /\ n = tries[j])
      BY <1>0, <1>8, <3>2 DEF RequestFails, TypeOK
    <3> QED BY <3>1, <3>2
  <2>5. UNCHANGED <<tableVars, intervals, seen, asked, lost, late, skipped>>
    BY <1>8 DEF RequestFails
  <2> QED BY <2>1, <2>2, <2>3, <2>4, <2>5 DEF tableVars, Types, TypeOK, TablesTypeOK
<1>9. ASSUME NEW r \in Runs, TimesOut(r) PROVE Types'
  <2>1. faults' \in 0 .. MaxFaults
    BY <1>0, <1>9, TypesFault DEF TimesOut
  <2>2. /\ todo' \in [Jobs -> SUBSET (Nat \X Nat)] /\ owed' \in [Jobs -> SUBSET Entities]
        /\ tries' \in [Jobs -> Tries]
        /\ pc' \in [Jobs -> {"curate", "plan", "send", "wait", "done", "failed"}]
    BY <1>0, <1>9, TypesAbort DEF TimesOut, Jobs
  <2>3. UNCHANGED <<tableVars, online, intervals, request, seen, asked, lost, late, skipped>>
    BY <1>9 DEF TimesOut
  <2> QED BY <2>1, <2>2, <2>3 DEF tableVars, Types, TypeOK, TablesTypeOK
<1>10. ASSUME Lose PROVE Types'
  <2>1. faults' \in 0 .. MaxFaults
    BY <1>0, <1>10, TypesFault DEF Lose
  <2>2. /\ online' \subseteq Entities /\ lost' \subseteq Entities
        /\ owed' \in [Jobs -> SUBSET Entities] /\ asked' \in [Jobs -> SUBSET Entities]
    BY <1>0, <1>10 DEF Lose, TypeOK
  <2>3. UNCHANGED <<tableVars, intervals, pc, tries, requestVars, seen, late, skipped>>
    BY <1>10 DEF Lose
  <2> QED BY <2>1, <2>2, <2>3 DEF tableVars, requestVars, Types, TypeOK, TablesTypeOK
<1>11. ASSUME Tick, UNCHANGED storeVars PROVE Types'
  <2>1. TablesTypeOK'
    BY <1>0, <1>11, TablesAssumption DEF Tick, TypeOK, TablesTypeOK
  <2> QED BY <1>11, <2>1 DEF storeVars, requestVars, historyVars, Types, TypeOK
<1>12. CASE UNCHANGED vars
  BY <1>12 DEF vars, tableVars, storeVars, requestVars, historyVars, Types, TypeOK, TablesTypeOK
<1> QED BY <1>1, <1>2, <1>3, <1>4, <1>5, <1>6, <1>7, <1>8, <1>9, <1>10, <1>11, <1>12
        DEF StoreNext

(* Every variable keeps its type. *)
THEOREM TypeInvariant == Spec => []TypeOK
<1>1. Types => TypeOK
  BY DEF Types
<1> QED BY <1>1, TypesInit, TypesNext, PTL DEF Spec

-----------------------------------------------------------------------------
(* Where a backfill's windows begin *)

(* Steps that curate nothing leave the feature table as it is. *)
LEMMA FeaturedSame == UNCHANGED featuresOf => Featured' = Featured
BY DEF Featured

(* Curating adds the rows of the run to the feature table and takes none away. *)
LEMMA FeaturedGrows ==
  ASSUME TypeOK, NEW r \in Runs, NEW f, NEW l, Upsert(r, f, l)
  PROVE  Featured' = Featured \cup f
<1>1. \A s \in Runs : featuresOf'[s] = IF s = r THEN featuresOf[s] \cup f ELSE featuresOf[s]
  BY DEF TypeOK, TablesTypeOK, Upsert
<1> QED BY <1>1 DEF Featured

Recorded(e) == \E i \in intervals : FeatureTime[e] <= i[2]

(* A backfill's windows leave no row in front of them that no interval and no *)
(* earlier window of the plan reaches, unless it was curated too late.        *)
PlanResumes == \A b \in Backfills : \A v \in todo[b] :
    /\ v[1] < v[2]
    /\ \A e \in Featured \ late : FeatureTime[e] < v[1] =>
           Recorded(e) \/ \E u \in todo[b] : u[1] < v[1] /\ FeatureTime[e] <= u[2]

RequestResumes == \A b \in Backfills, n \in Tries : request[b][n].stage # "none" =>
    LET w == request[b][n].window
    IN  /\ w[1] < w[2]
        /\ \A e \in Featured \ late : FeatureTime[e] < w[1] => Recorded(e)

Resumed == PlanResumes /\ RequestResumes

(* Initially no interval is recorded, so nothing can have been resumed from one. *)
LEMMA ResumedInit == Init => Resumed
BY DEF Init, StoreInit, Jobs, NoRequest, Resumed, PlanResumes, RequestResumes

(* Steps that leave the plans alone, finish a window or abort a plan. *)
LEMMA PlanResumesKept ==
  ASSUME PlanResumes, UNCHANGED <<featuresOf, late>>, intervals \subseteq intervals',
         \A b \in Backfills : \/ todo'[b] = todo[b]
                              \/ todo'[b] = {}
                              \/ \E w \in intervals' : todo'[b] = todo[b] \ {w}
  PROVE  PlanResumes'
<1>1. Featured' = Featured
  BY FeaturedSame
<1> SUFFICES ASSUME NEW b \in Backfills, NEW v \in todo'[b]
             PROVE  /\ v[1] < v[2]
                    /\ \A e \in Featured \ late : FeatureTime[e] < v[1] =>
                           \/ \E i \in intervals' : FeatureTime[e] <= i[2]
                           \/ \E u \in todo'[b] : u[1] < v[1] /\ FeatureTime[e] <= u[2]
  BY <1>1 DEF PlanResumes, Recorded
<1>2. v \in todo[b] /\ \A u \in todo[b] : u \in todo'[b] \/ u \in intervals'
  OBVIOUS
<1>3. v[1] < v[2]
  BY <1>2 DEF PlanResumes
<1>4. ASSUME NEW e \in Featured \ late, FeatureTime[e] < v[1]
      PROVE  \/ \E i \in intervals' : FeatureTime[e] <= i[2]
             \/ \E u \in todo'[b] : u[1] < v[1] /\ FeatureTime[e] <= u[2]
  <2>1. CASE Recorded(e)
    BY <2>1 DEF Recorded
  <2>2. CASE \E u \in todo[b] : u[1] < v[1] /\ FeatureTime[e] <= u[2]
    BY <1>2, <2>2
  <2> QED BY <1>2, <1>4, <2>1, <2>2 DEF PlanResumes
<1> QED BY <1>3, <1>4

(* Steps that end a request or go on with it. *)
LEMMA RequestResumesKept ==
  ASSUME RequestResumes, UNCHANGED <<featuresOf, late>>, intervals \subseteq intervals',
         \A b \in Backfills, n \in Tries :
             request'[b][n].stage # "none" => /\ request[b][n].stage # "none"
                                              /\ request'[b][n].window = request[b][n].window
  PROVE  RequestResumes'
<1>1. Featured' = Featured
  BY FeaturedSame
<1>2. \A e \in Featured : Recorded(e) => \E i \in intervals' : FeatureTime[e] <= i[2]
  BY DEF Recorded
<1> SUFFICES ASSUME NEW b \in Backfills, NEW n \in Tries, request'[b][n].stage # "none"
             PROVE  /\ request'[b][n].window[1] < request'[b][n].window[2]
                    /\ \A e \in Featured \ late : FeatureTime[e] < request'[b][n].window[1] =>
                           \E i \in intervals' : FeatureTime[e] <= i[2]
  BY <1>1 DEF RequestResumes, Recorded
<1>3. /\ request[b][n].stage # "none"
      /\ request'[b][n].window = request[b][n].window
  OBVIOUS
<1>4. /\ request[b][n].window[1] < request[b][n].window[2]
      /\ \A e \in Featured \ late : FeatureTime[e] < request[b][n].window[1] => Recorded(e)
  BY <1>3 DEF RequestResumes
<1> QED BY <1>2, <1>3, <1>4

(* Curating touches no interval and no plan. *)
LEMMA ResumedCurate ==
  ASSUME TypeOK, Resumed, NEW r \in Runs, Curate(r) PROVE Resumed'
<1>1. PICK newFeatures \in SUBSET Entities, newLabels \in SUBSET Entities :
          /\ Upsert(r, newFeatures, newLabels)
          /\ late' = late \cup {e \in newFeatures : \E t \in Reached : FeatureTime[e] <= t}
  BY DEF Curate
<1>2. Featured' = Featured \cup newFeatures
  BY <1>1, FeaturedGrows
<1>3. UNCHANGED <<intervals, todo, request>>
  BY DEF Curate, requestVars
<1>4. \A e \in Featured' \ late' : e \in Entities /\ FeatureTime[e] \in Nat
  <2>1. Featured \in SUBSET Entities
    BY FeaturedTyped
  <2> QED BY <1>2, <2>1, TablesAssumption
<1>5. \A e \in Featured' \ late' : \A t \in Reached : e \in Featured \ late \/ ~ (FeatureTime[e] <= t)
  BY <1>1, <1>2
<1>6. PlanResumes'
  <2> SUFFICES ASSUME NEW b \in Backfills, NEW v \in todo[b]
               PROVE  /\ v[1] < v[2]
                      /\ \A e \in Featured' \ late' : FeatureTime[e] < v[1] =>
                             Recorded(e) \/ \E u \in todo[b] : u[1] < v[1] /\ FeatureTime[e] <= u[2]
    BY <1>3 DEF PlanResumes, Recorded
  <2>1. v[1] < v[2] /\ v[1] \in Nat /\ v[2] \in Nat
    BY DEF Resumed, PlanResumes, TypeOK, Jobs
  <2>2. v[2] \in Reached
    BY DEF Reached, Jobs
  <2>3. \A e \in Featured' \ late' : FeatureTime[e] < v[1] => e \in Featured \ late
    BY <1>4, <1>5, <2>1, <2>2
  <2> QED BY <2>1, <2>3 DEF Resumed, PlanResumes
<1>7. RequestResumes'
  <2> SUFFICES ASSUME NEW b \in Backfills, NEW n \in Tries, request[b][n].stage # "none"
               PROVE  /\ request[b][n].window[1] < request[b][n].window[2]
                      /\ \A e \in Featured' \ late' : FeatureTime[e] < request[b][n].window[1]
                             => Recorded(e)
    BY <1>3 DEF RequestResumes, Recorded
  <2> DEFINE w == request[b][n].window
  <2>1. w[1] < w[2] /\ w[1] \in Nat /\ w[2] \in Nat
    BY DEF Resumed, RequestResumes, TypeOK, Request, Jobs
  <2>2. w[2] \in Reached
    BY DEF Reached, Requests, Jobs
  <2>3. \A e \in Featured' \ late' : FeatureTime[e] < w[1] => e \in Featured \ late
    <3> HIDE DEF w
    <3> QED BY <1>4, <1>5, <2>1, <2>2
  <2> QED BY <2>1, <2>3 DEF Resumed, RequestResumes
<1> QED BY <1>6, <1>7 DEF Resumed

(* A run's plan stands on its own rows, not on the resume point. *)
LEMMA ResumedPlanRun ==
  ASSUME TypeOK, Resumed, NEW r \in Runs, PlanRun(r) PROVE Resumed'
<1>1. /\ UNCHANGED <<featuresOf, late, intervals, request>>
      /\ \A j \in Jobs : j # r => todo'[j] = todo[j]
  BY DEF PlanRun, Undertake, TypeOK, tableVars
<1>2. \A b \in Backfills : todo'[b] = todo[b]
  BY <1>1, StoreAssumption DEF Jobs
<1>3. PlanResumes'
  BY <1>1, <1>2, PlanResumesKept DEF Resumed
<1>4. RequestResumes'
  BY <1>1, RequestResumesKept DEF Resumed
<1> QED BY <1>3, <1>4 DEF Resumed

(* A backfill starts its windows at the resume point or at the earliest row. *)
LEMMA ResumedPlanBackfill ==
  ASSUME Types, Resumed, NEW b \in Backfills, PlanBackfill(b) PROVE Resumed'
<1>0. TypeOK /\ Featured \in SUBSET Entities
  BY FeaturedTyped DEF Types
<1>1. PICK end \in Instants :
          LET start == IF intervals = {} THEN Earliest(Featured) ELSE ResumePoint
              stop == IF end < Latest(Featured) THEN end ELSE Latest(Featured)
              rows == Within(Featured, <<start, stop>>)
          IN  IF Featured = {} \/ start >= stop
              THEN Undertake(b, {}, {})
              ELSE Undertake(b, Windows(start, stop, Boundaries(rows)), rows)
  BY DEF PlanBackfill
<1> DEFINE start == IF intervals = {} THEN Earliest(Featured) ELSE ResumePoint
           stop == IF end < Latest(Featured) THEN end ELSE Latest(Featured)
           rows == Within(Featured, <<start, stop>>)
           windows == Windows(start, stop, Boundaries(rows))
<1>2. UNCHANGED <<featuresOf, late, intervals, request>>
  BY <1>1 DEF Undertake, tableVars
<1>3. RequestResumes'
  BY <1>2, RequestResumesKept DEF Resumed
<1>4. CASE Featured = {} \/ start >= stop
  <2>1. Undertake(b, {}, {})
    BY <1>1, <1>4
  <2>2. \A c \in Backfills : todo'[c] = todo[c] \/ todo'[c] = {}
    BY <1>0, <2>1 DEF Undertake, TypeOK, Jobs
  <2>3. PlanResumes'
    BY <1>2, <2>2, PlanResumesKept DEF Resumed
  <2> QED BY <1>3, <2>3 DEF Resumed
<1>5. CASE ~ (Featured = {} \/ start >= stop)
  <2>1. Undertake(b, windows, rows)
    BY <1>1, <1>5
  <2>2. start \in Nat
    BY <1>0, <1>5, EarliestIsLeast, ResumePointTyped
  <2>3. stop \in Nat
    <3>1. end \in Nat /\ Latest(Featured) \in Nat
      BY <1>0, <1>5, LatestIsGreatest, TablesAssumption
    <3> QED BY <3>1
  <2>4. Boundaries(rows) \subseteq Nat
    BY <1>0, TablesAssumption DEF Within, Boundaries, Times
  <2>5. \A e \in Featured : FeatureTime[e] < start => Recorded(e)
    <3> SUFFICES ASSUME NEW e \in Featured, FeatureTime[e] < start PROVE Recorded(e)
      OBVIOUS
    <3>1. FeatureTime[e] \in Nat
      BY <1>0, TablesAssumption
    <3>2. intervals # {}
      BY <1>0, <3>1, EarliestIsLeast
    <3>3. PICK i \in intervals : ResumePoint = i[2]
      BY <3>2, ResumePointTyped
    <3> QED BY <2>2, <3>1, <3>2, <3>3 DEF Recorded
  <2> HIDE DEF start, stop, rows
  <2>6. \A v \in windows : /\ v \in Nat \X Nat
                           /\ v[1] < v[2] /\ v[1] <= stop
    <3>1. windows \in SUBSET (Nat \X Nat)
      BY <2>2, <2>3, <2>4, WindowsTyped
    <3>2. \A v \in windows : /\ v[1] < v[2]
                             /\ \/ v[1] = start \/ v[1] = stop \/ v[1] < stop
      BY DEF Windows
    <3> HIDE DEF windows
    <3> QED BY <1>5, <2>2, <2>3, <3>1, <3>2
  <2>7. ASSUME NEW v \in windows, NEW e \in Featured, FeatureTime[e] < v[1]
        PROVE  Recorded(e) \/ \E u \in windows : u[1] < v[1] /\ FeatureTime[e] <= u[2]
    <3>1. FeatureTime[e] \in Nat /\ v[1] \in Nat /\ v[1] <= stop
      BY <1>0, <2>6, TablesAssumption
    <3>2. CASE FeatureTime[e] < start
      BY <2>5, <3>2
    <3>3. CASE start <= FeatureTime[e]
      <4>1. start < stop /\ FeatureTime[e] <= stop
        BY <1>5, <2>2, <2>3, <2>7, <3>1
      <4>2. PICK u \in windows : u[1] <= FeatureTime[e] /\ FeatureTime[e] <= u[2]
        BY <2>2, <2>3, <2>4, <3>1, <3>3, <4>1, WindowsCover
      <4>3. u[1] < v[1]
        BY <2>6, <2>7, <3>1, <4>2
      <4> QED BY <4>2, <4>3
    <3> QED BY <2>2, <3>1, <3>2, <3>3
  <2> HIDE DEF windows
  <2>8. \A c \in Backfills : todo'[c] = IF c = b THEN windows ELSE todo[c]
    BY <1>0, <2>1 DEF Undertake, TypeOK, Jobs
  <2>9. Featured' = Featured
    BY <1>2, FeaturedSame
  <2>10. PlanResumes'
    <3> SUFFICES ASSUME NEW c \in Backfills, NEW v \in todo'[c]
                 PROVE  /\ v[1] < v[2]
                        /\ \A e \in Featured \ late : FeatureTime[e] < v[1] =>
                               \/ Recorded(e)
                               \/ \E u \in todo'[c] : u[1] < v[1] /\ FeatureTime[e] <= u[2]
      BY <1>2, <2>9 DEF PlanResumes, Recorded
    <3>1. CASE c = b
      BY <2>6, <2>7, <2>8, <3>1
    <3>2. CASE c # b
      BY <2>8, <3>2 DEF Resumed, PlanResumes
    <3> QED BY <3>1, <3>2
  <2> QED BY <1>3, <2>10 DEF Resumed
<1> QED BY <1>4, <1>5

(* The earliest window of a plan has no window in front of it. *)
LEMMA ResumedSend ==
  ASSUME TypeOK, Resumed, NEW j \in Jobs, Send(j) PROVE Resumed'
<1>1. /\ UNCHANGED <<featuresOf, late, intervals, todo>>
      /\ \E w \in todo[j] : /\ IsNext(j, w)
                            /\ request' = [request EXCEPT ![j][tries[j]] =
                                              [window |-> w, stage |-> "read", rows |-> {}]]
  BY DEF Send, tableVars
<1>2. PICK w \in todo[j] : /\ IsNext(j, w)
                           /\ request' = [request EXCEPT ![j][tries[j]] =
                                             [window |-> w, stage |-> "read", rows |-> {}]]
  BY <1>1
<1>3. PlanResumes'
  BY <1>1, PlanResumesKept DEF Resumed
<1>4. Featured' = Featured
  BY <1>1, FeaturedSame
<1>5. RequestResumes'
  <2> SUFFICES ASSUME NEW b \in Backfills, NEW n \in Tries, request'[b][n].stage # "none"
               PROVE  /\ request'[b][n].window[1] < request'[b][n].window[2]
                      /\ \A e \in Featured \ late : FeatureTime[e] < request'[b][n].window[1]
                             => Recorded(e)
    BY <1>1, <1>4 DEF RequestResumes, Recorded
  <2>1. CASE b = j /\ n = tries[j]
    <3>1. request'[b][n].window = w
      BY <1>2, <2>1 DEF TypeOK
    <3>2. \A u \in todo[b] : ~ (u[1] < w[1])
      <4>1. \A u \in todo[b] : u[1] \in Nat /\ w[1] \in Nat /\ w[1] <= u[1]
        BY <1>2, <2>1 DEF IsNext, TypeOK
      <4> QED BY <4>1
    <3> QED BY <1>2, <2>1, <3>1, <3>2 DEF Resumed, PlanResumes
  <2>2. CASE ~ (b = j /\ n = tries[j])
    <3>1. request'[b][n] = request[b][n]
      BY <1>2, <2>2 DEF TypeOK, Jobs
    <3> QED BY <3>1 DEF Resumed, RequestResumes
  <2> QED BY <2>1, <2>2
<1> QED BY <1>3, <1>5 DEF Resumed

(* Serving a window records at most the interval of a window that was planned. *)
LEMMA ResumedServing ==
  ASSUME TypeOK, Resumed, NEW j \in Jobs, NEW n \in Tries,
         ReadRows(j, n) \/ WriteRows(j, n) \/ RecordInterval(j, n) \/ RequestFails(j, n)
  PROVE  Resumed'
<1>1. UNCHANGED <<featuresOf, late>> /\ intervals \subseteq intervals'
  BY DEF ReadRows, WriteRows, RecordInterval, RequestFails, tableVars, historyVars
<1>2. \A b \in Backfills : \/ todo'[b] = todo[b] \/ todo'[b] = {}
                           \/ \E w \in intervals' : todo'[b] = todo[b] \ {w}
  <2>1. CASE ReadRows(j, n) \/ WriteRows(j, n)
    BY <2>1 DEF ReadRows, WriteRows
  <2>2. CASE RecordInterval(j, n)
    <3> DEFINE w == request[j][n].window
    <3>1. w \in intervals'
      BY <2>2 DEF RecordInterval
    <3>2. todo' = [todo EXCEPT ![j] = todo[j] \ {w}] \/ todo' = todo
      BY <2>2 DEF RecordInterval
    <3> HIDE DEF w
    <3>3. \A b \in Backfills : todo'[b] = todo[b] \/ todo'[b] = todo[b] \ {w}
      BY <3>2 DEF TypeOK, Jobs
    <3> QED BY <3>1, <3>3
  <2>3. CASE RequestFails(j, n)
    <3>1. todo' = [todo EXCEPT ![j] = {}] \/ todo' = todo
      BY <2>3 DEF RequestFails, Abort
    <3> QED BY <3>1 DEF TypeOK, Jobs
  <2> QED BY <2>1, <2>2, <2>3
<1>3. \A b \in Backfills, m \in Tries :
          request'[b][m].stage # "none" => /\ request[b][m].stage # "none"
                                           /\ request'[b][m].window = request[b][m].window
  <2> DEFINE p == request[j][n]
  <2>1. \E q : /\ request' = [request EXCEPT ![j][n] = q]
               /\ q.stage # "none" => p.stage # "none" /\ q.window = p.window
    <3>1. CASE ReadRows(j, n)
      <4> WITNESS [window |-> p.window, stage |-> "write", rows |-> Within(Featured, p.window)]
      <4> QED BY <3>1 DEF ReadRows
    <3>2. CASE WriteRows(j, n)
      <4> WITNESS [window |-> p.window, stage |-> "record", rows |-> p.rows]
      <4> QED BY <3>2 DEF WriteRows
    <3>3. CASE RecordInterval(j, n) \/ RequestFails(j, n)
      <4> WITNESS NoRequest
      <4> QED BY <3>3 DEF RecordInterval, RequestFails, NoRequest
    <3> QED BY <3>1, <3>2, <3>3
  <2>2. PICK q : /\ request' = [request EXCEPT ![j][n] = q]
                 /\ q.stage # "none" => p.stage # "none" /\ q.window = p.window
    BY <2>1
  <2>3. \A b \in Jobs, m \in Tries : request'[b][m] = IF b = j /\ m = n THEN q ELSE request[b][m]
    BY <2>2 DEF TypeOK
  <2> QED BY <2>2, <2>3 DEF Jobs
<1>4. PlanResumes'
  BY <1>1, <1>2, PlanResumesKept DEF Resumed
<1>5. RequestResumes'
  BY <1>1, <1>3, RequestResumesKept DEF Resumed
<1> QED BY <1>4, <1>5 DEF Resumed

(* Every step keeps what is known of the plans and the recorded intervals. *)
LEMMA ResumedNext == Types /\ Resumed /\ [StoreNext]_vars => Resumed'
<1> SUFFICES ASSUME Types, Resumed, [StoreNext]_vars PROVE Resumed'
  OBVIOUS
<1>0. TypeOK
  BY DEF Types
<1>1. ASSUME NEW r \in Runs, Curate(r) PROVE Resumed'
  BY <1>0, <1>1, ResumedCurate
<1>2. ASSUME NEW r \in Runs, PlanRun(r) PROVE Resumed'
  BY <1>0, <1>2, ResumedPlanRun
<1>3. ASSUME NEW b \in Backfills, PlanBackfill(b) PROVE Resumed'
  BY <1>3, ResumedPlanBackfill
<1>4. ASSUME NEW j \in Jobs, Send(j) PROVE Resumed'
  BY <1>0, <1>4, ResumedSend
<1>5. ASSUME NEW j \in Jobs, NEW n \in Tries,
             ReadRows(j, n) \/ WriteRows(j, n) \/ RecordInterval(j, n) \/ RequestFails(j, n)
      PROVE  Resumed'
  BY <1>0, <1>5, ResumedServing
<1>6. ASSUME NEW r \in Runs, TimesOut(r) PROVE Resumed'
  <2>1. /\ UNCHANGED <<featuresOf, late, intervals, request>>
        /\ todo' = [todo EXCEPT ![r] = {}]
    BY <1>6 DEF TimesOut, Abort, tableVars
  <2>2. \A b \in Backfills : todo'[b] = todo[b] \/ todo'[b] = {}
    BY <1>0, <2>1 DEF TypeOK, Jobs
  <2> QED BY <2>1, <2>2, PlanResumesKept, RequestResumesKept DEF Resumed
<1>7. CASE \/ Lose
           \/ Tick /\ UNCHANGED storeVars
           \/ UNCHANGED vars
  <2>1. UNCHANGED <<featuresOf, late, intervals, todo, request>>
    BY <1>7 DEF Lose, Tick, vars, tableVars, storeVars, requestVars, historyVars
  <2> QED BY <2>1, PlanResumesKept, RequestResumesKept DEF Resumed
<1> QED BY <1>1, <1>2, <1>3, <1>4, <1>5, <1>6, <1>7 DEF StoreNext

-----------------------------------------------------------------------------
(* The inductive invariant *)

Covers(w, e) == w[1] <= FeatureTime[e] /\ FeatureTime[e] <= w[2]

Promise == \A j \in Jobs : pc[j] \in {"send", "wait"} =>
               \A e \in owed[j] : e \in online \/ \E w \in todo[j] : Covers(w, e)

Awaited == \A j \in Jobs : pc[j] = "wait" =>
               LET q == request[j][tries[j]]
               IN  \A e \in owed[j] : Covers(q.window, e) =>
                       /\ q.stage = "write" => e \in q.rows \cup online
                       /\ q.stage = "record" => e \in online

NothingOwed == \A j \in Jobs : pc[j] \in {"curate", "plan", "failed"} => owed[j] = {}

OwedCurated == \A j \in Jobs : owed[j] \subseteq Featured

ReadCurated == \A j \in Jobs, n \in Tries : request[j][n].rows \subseteq Featured

RequestsCover == \A j \in Jobs, n \in Tries : LET q == request[j][n]
                     IN  \A e \in Featured \ late : Covers(q.window, e) =>
                             /\ q.stage = "write" => e \in q.rows
                             /\ q.stage = "record" => e \in online \cup lost

Inv == /\ Types
       /\ Promise /\ Awaited /\ NothingOwed /\ OwedCurated
       /\ ReadCurated /\ RequestsCover /\ PrefixServed

(* The invariant holds before the first plan. *)
LEMMA InvInit == Init => Inv
<1> SUFFICES ASSUME Init PROVE Inv
  OBVIOUS
<1>1. Types
  BY TypesInit
<1>2. Promise /\ Awaited /\ NothingOwed /\ OwedCurated
  BY DEF Init, StoreInit, Promise, Awaited, NothingOwed, OwedCurated
<1>3. ReadCurated /\ RequestsCover
  BY DEF Init, StoreInit, NoRequest, ReadCurated, RequestsCover
<1>4. PrefixServed
  BY DEF Init, StoreInit, PrefixServed
<1> QED BY <1>1, <1>2, <1>3, <1>4 DEF Inv

(* A row curated late is behind a plan, which the invariant allows for. *)
LEMMA InvCurate == ASSUME Inv, NEW r \in Runs, Curate(r), Types' PROVE Inv'
<1>0. TypeOK
  BY DEF Inv, Types
<1>1. PICK newFeatures \in SUBSET Entities, newLabels \in SUBSET Entities :
          /\ Upsert(r, newFeatures, newLabels)
          /\ late' = late \cup {e \in newFeatures : \E t \in Reached : FeatureTime[e] <= t}
  BY DEF Curate
<1>2. Featured' = Featured \cup newFeatures
  BY <1>0, <1>1, FeaturedGrows
<1>3. /\ UNCHANGED <<online, intervals, tries, todo, request, owed, lost, skipped>>
      /\ pc[r] = "curate" /\ pc' = [pc EXCEPT ![r] = "plan"]
  BY DEF Curate, requestVars, historyVars
<1>4. Promise' /\ Awaited' /\ NothingOwed' /\ OwedCurated'
  <2>1. \A j \in Jobs : pc'[j] = IF j = r THEN "plan" ELSE pc[j]
    BY <1>0, <1>3 DEF TypeOK
  <2>2. Promise' /\ Awaited'
    BY <1>3, <2>1 DEF Inv, Promise, Awaited, Covers
  <2>3. NothingOwed'
    BY <1>3, <2>1 DEF Inv, NothingOwed
  <2>4. OwedCurated'
    BY <1>2, <1>3 DEF Inv, OwedCurated
  <2> QED BY <2>2, <2>3, <2>4
<1>5. ReadCurated'
  BY <1>2, <1>3 DEF Inv, ReadCurated
<1>6. RequestsCover'
  <2> SUFFICES ASSUME NEW j \in Jobs, NEW n \in Tries, NEW e \in Featured' \ late',
                      Covers(request[j][n].window, e)
               PROVE  /\ request[j][n].stage = "write" => e \in request[j][n].rows
                      /\ request[j][n].stage = "record" => e \in online \cup lost
    BY <1>3 DEF RequestsCover, Covers
  <2>1. CASE e \in Featured
    BY <1>1, <2>1 DEF Inv, RequestsCover
  <2>2. CASE e \in newFeatures /\ request[j][n].stage # "none"
    <3>1. request[j][n].window[2] \in Reached
      BY <2>2 DEF Reached, Requests
    <3>2. FeatureTime[e] <= request[j][n].window[2]
      BY DEF Covers
    <3> QED BY <1>1, <2>2, <3>1, <3>2
  <2> QED BY <1>2, <2>1, <2>2
<1>7. PrefixServed'
  <2> SUFFICES ASSUME NEW e \in Featured', NEW i \in intervals, FeatureTime[e] <= i[2]
               PROVE  e \in online \cup lost \cup late' \cup skipped
    BY <1>3 DEF PrefixServed
  <2>1. CASE e \in Featured
    BY <1>1, <2>1 DEF Inv, PrefixServed
  <2>2. CASE e \in newFeatures
    <3>1. i[2] \in Reached
      BY DEF Reached
    <3> QED BY <1>1, <2>2, <3>1
  <2> QED BY <1>2, <2>1, <2>2
<1> QED BY <1>4, <1>5, <1>6, <1>7 DEF Inv

(* A fresh plan owes the rows of its windows, each covered by one of them. *)
LEMMA InvPlan ==
  ASSUME Inv, NEW j \in Jobs, NEW windows, NEW rows, PlanOf(j, windows, rows), Types'
  PROVE  Inv' /\ (windows = {} => rows = {})
<1>0. TypeOK
  BY DEF Inv, Types
<1>1. /\ UNCHANGED <<featuresOf, online, intervals, tries, request, lost, late, skipped>>
      /\ \A k \in Jobs : /\ todo'[k] = IF k = j THEN windows ELSE todo[k]
                         /\ owed'[k] = IF k = j THEN rows ELSE owed[k]
                         /\ pc'[k] = IF k = j THEN IF windows = {} THEN "done" ELSE "send"
                                               ELSE pc[k]
  BY <1>0 DEF TypeOK, PlanOf, Undertake, tableVars
<1>2. /\ rows \subseteq Featured
      /\ \A e \in rows : \E w \in windows : Covers(w, e)
  BY DEF PlanOf, Covers
<1>3. Featured' = Featured
  BY <1>1, FeaturedSame
<1>4. Promise'
  BY <1>1, <1>2 DEF Inv, Promise, Covers
<1>5. Awaited' /\ NothingOwed'
  BY <1>1 DEF Inv, Awaited, NothingOwed, Covers
<1>6. OwedCurated'
  BY <1>1, <1>2, <1>3 DEF Inv, OwedCurated
<1>7. ReadCurated' /\ RequestsCover' /\ PrefixServed'
  BY <1>1, <1>3 DEF Inv, ReadCurated, RequestsCover, PrefixServed, Covers
<1> QED BY <1>2, <1>4, <1>5, <1>6, <1>7 DEF Inv

(* Sending a request takes a window of the plan and nothing else. *)
LEMMA InvSend == ASSUME Inv, NEW j \in Jobs, Send(j), Types' PROVE Inv'
<1>0. TypeOK
  BY DEF Inv, Types
<1>1. PICK n \in Tries : n = tries[j]
  BY <1>0 DEF TypeOK
<1>2. PICK q \in Request : /\ q.stage = "read" /\ q.rows = {}
                           /\ request' = [request EXCEPT ![j][tries[j]] = q]
  <2>1. PICK w \in todo[j] : request' = [request EXCEPT ![j][tries[j]] =
                                            [window |-> w, stage |-> "read", rows |-> {}]]
    BY DEF Send
  <2>2. [window |-> w, stage |-> "read", rows |-> {}] \in Request
    BY <1>0 DEF TypeOK, Request
  <2> QED BY <2>1, <2>2
<1>3. /\ request'[j][n] = q
      /\ \A k \in Jobs, m \in Tries : (k # j \/ m # n) => request'[k][m] = request[k][m]
  <2>1. request' = [request EXCEPT ![j][n] = q]
    BY <1>1, <1>2
  <2> QED BY <1>0, <2>1, SetRequest, ZenonT(60)
<1>5. /\ UNCHANGED <<featuresOf, online, intervals, tries, todo, owed, lost, late, skipped>>
      /\ pc[j] = "send" /\ \A k \in Jobs : pc'[k] = IF k = j THEN "wait" ELSE pc[k]
  BY <1>0 DEF TypeOK, Send, tableVars, historyVars
<1>6. Featured' = Featured
  BY <1>5, FeaturedSame
<1>7. Promise' /\ NothingOwed' /\ OwedCurated'
  BY <1>5, <1>6 DEF Inv, Promise, NothingOwed, OwedCurated, Covers
<1>8. Awaited'
  <2>1. \A k \in Jobs : tries[k] \in Tries
    BY <1>0 DEF TypeOK
  <2> QED BY <1>1, <1>2, <1>3, <1>5, <2>1 DEF Inv, Awaited, Covers
<1>9. ReadCurated'
  BY <1>1, <1>2, <1>3, <1>6 DEF Inv, ReadCurated
<1>10. RequestsCover'
  BY <1>1, <1>2, <1>3, <1>5, <1>6 DEF Inv, RequestsCover, Covers
<1>11. PrefixServed'
  BY <1>5, <1>6 DEF Inv, PrefixServed
<1> QED BY <1>7, <1>8, <1>9, <1>10, <1>11 DEF Inv

(* A request reads the rows of its window: what it holds is what the window owes. *)
LEMMA InvReadRows == ASSUME Inv, NEW j \in Jobs, NEW n \in Tries, ReadRows(j, n), Types' PROVE Inv'
<1>0. TypeOK
  BY DEF Inv, Types
<1> DEFINE w == request[j][n].window
<1>2. PICK q \in Request : /\ q.stage = "write" /\ q.window = w
                           /\ q.rows = Within(Featured, w)
                           /\ request' = [request EXCEPT ![j][n] = q]
  <2> DEFINE r == [window |-> w, stage |-> "write", rows |-> Within(Featured, w)]
  <2>1. r \in Request
    BY <1>0, FeaturedTyped DEF TypeOK, Request, Within
  <2>2. request' = [request EXCEPT ![j][n] = r]
    BY DEF ReadRows
  <2> QED BY <2>1, <2>2
<1>3. /\ request'[j][n] = q
      /\ \A k \in Jobs, m \in Tries : (k # j \/ m # n) => request'[k][m] = request[k][m]
  <2>1. request' = [request EXCEPT ![j][n] = q]
    BY <1>2
  <2> QED BY <1>0, <2>1, SetRequest, ZenonT(60)
<1>4. /\ q.stage = "write" /\ q.window = w /\ q.rows \subseteq Featured
      /\ \A e \in Featured : Covers(w, e) => e \in q.rows
  BY <1>2 DEF Within, Covers
<1>5. UNCHANGED <<featuresOf, online, intervals, pc, tries, todo, owed, lost, late, skipped>>
  BY DEF ReadRows, tableVars, historyVars
<1>6. Featured' = Featured
  BY <1>5, FeaturedSame
<1>7. Promise' /\ NothingOwed' /\ OwedCurated'
  BY <1>5, <1>6 DEF Inv, Promise, NothingOwed, OwedCurated, Covers
<1>8. Awaited'
  <2>1. \A k \in Jobs : tries[k] \in Tries /\ owed[k] \subseteq Featured
    BY <1>0 DEF TypeOK, Inv, OwedCurated
  <2> HIDE DEF w
  <2> SUFFICES ASSUME NEW k \in Jobs, pc[k] = "wait", NEW e \in owed[k],
                      Covers(request'[k][tries[k]].window, e)
               PROVE  /\ request'[k][tries[k]].stage = "write"
                             => e \in request'[k][tries[k]].rows \cup online
                      /\ request'[k][tries[k]].stage = "record" => e \in online
    BY <1>5 DEF Awaited, Covers
  <2>2. CASE k = j /\ tries[k] = n
    BY <1>3, <1>4, <2>1, <2>2
  <2>3. CASE k # j \/ tries[k] # n
    BY <1>3, <2>1, <2>3 DEF Inv, Awaited
  <2> QED BY <2>2, <2>3
<1>9. ReadCurated'
  BY <1>3, <1>4, <1>6 DEF Inv, ReadCurated
<1>10. RequestsCover'
  <2> HIDE DEF w
  <2> SUFFICES ASSUME NEW k \in Jobs, NEW m \in Tries, NEW e \in Featured \ late,
                      Covers(request'[k][m].window, e)
               PROVE  /\ request'[k][m].stage = "write" => e \in request'[k][m].rows
                      /\ request'[k][m].stage = "record" => e \in online \cup lost
    BY <1>5, <1>6 DEF RequestsCover, Covers
  <2>2. CASE k = j /\ m = n
    BY <1>3, <1>4, <2>2
  <2>3. CASE k # j \/ m # n
    BY <1>3, <2>3 DEF Inv, RequestsCover
  <2> QED BY <2>2, <2>3
<1>11. PrefixServed'
  BY <1>5, <1>6 DEF Inv, PrefixServed
<1> QED BY <1>7, <1>8, <1>9, <1>10, <1>11 DEF Inv

(* What the request read is online after it has written. *)
LEMMA InvWriteRows ==
  ASSUME Inv, NEW j \in Jobs, NEW n \in Tries, WriteRows(j, n), Types' PROVE Inv'
<1>0. TypeOK
  BY DEF Inv, Types
<1> DEFINE p == request[j][n]
<1>2. PICK q \in Request : /\ q.stage = "record" /\ q.window = p.window /\ q.rows = p.rows
                           /\ request' = [request EXCEPT ![j][n] = q]
  <2> DEFINE r == [window |-> p.window, stage |-> "record", rows |-> p.rows]
  <2>1. r \in Request
    BY <1>0 DEF TypeOK, Request
  <2>2. request' = [request EXCEPT ![j][n] = r]
    BY DEF WriteRows
  <2> QED BY <2>1, <2>2
<1>3. /\ request'[j][n] = q
      /\ \A k \in Jobs, m \in Tries : (k # j \/ m # n) => request'[k][m] = request[k][m]
  <2>1. request' = [request EXCEPT ![j][n] = q]
    BY <1>2
  <2> QED BY <1>0, <2>1, SetRequest, ZenonT(60)
<1>4. q.stage = "record" /\ q.window = p.window /\ q.rows = p.rows
  BY <1>2
<1>5. /\ UNCHANGED <<featuresOf, intervals, pc, tries, todo, owed, lost, late, skipped>>
      /\ p.stage = "write" /\ online' = online \cup p.rows
  BY DEF WriteRows, tableVars, historyVars
<1>6. Featured' = Featured
  BY <1>5, FeaturedSame
<1>7. Promise' /\ NothingOwed' /\ OwedCurated'
  BY <1>5, <1>6 DEF Inv, Promise, NothingOwed, OwedCurated, Covers
<1>8. Awaited'
  <2>1. \A k \in Jobs : tries[k] \in Tries
    BY <1>0 DEF TypeOK
  <2> SUFFICES ASSUME NEW k \in Jobs, pc[k] = "wait", NEW e \in owed[k],
                      Covers(request'[k][tries[k]].window, e)
               PROVE  /\ request'[k][tries[k]].stage = "write"
                             => e \in request'[k][tries[k]].rows \cup online'
                      /\ request'[k][tries[k]].stage = "record" => e \in online'
    BY <1>5 DEF Awaited, Covers
  <2>2. CASE k = j /\ tries[k] = n
    <3>1. e \in p.rows \cup online
      BY <1>3, <1>4, <1>5, <2>2 DEF Inv, Awaited
    <3> QED BY <1>5, <3>1
  <2>3. CASE k # j \/ tries[k] # n
    BY <1>3, <1>5, <2>1, <2>3 DEF Inv, Awaited
  <2> QED BY <2>2, <2>3
<1>9. ReadCurated'
  BY <1>3, <1>4, <1>6 DEF Inv, ReadCurated
<1>10. RequestsCover'
  <2> SUFFICES ASSUME NEW k \in Jobs, NEW m \in Tries, NEW e \in Featured \ late,
                      Covers(request'[k][m].window, e)
               PROVE  /\ request'[k][m].stage = "write" => e \in request'[k][m].rows
                      /\ request'[k][m].stage = "record" => e \in online' \cup lost
    BY <1>5, <1>6 DEF RequestsCover, Covers
  <2>2. CASE k = j /\ m = n
    <3>1. e \in p.rows
      BY <1>3, <1>4, <1>5, <2>2 DEF Inv, RequestsCover
    <3> QED BY <1>3, <1>4, <1>5, <2>2, <3>1
  <2>3. CASE k # j \/ m # n
    BY <1>3, <1>5, <2>3 DEF Inv, RequestsCover
  <2> QED BY <2>2, <2>3
<1>11. PrefixServed'
  BY <1>5, <1>6 DEF Inv, PrefixServed
<1> QED BY <1>7, <1>8, <1>9, <1>10, <1>11 DEF Inv

(* A request that ends, however it does, no longer covers anything. *)
LEMMA RequestGone ==
  ASSUME Inv, NEW j \in Jobs, NEW n \in Tries,
         request' = [request EXCEPT ![j][n] = NoRequest],
         UNCHANGED <<featuresOf, lost, late>>, online \subseteq online'
  PROVE  /\ ReadCurated' /\ RequestsCover'
         /\ request'[j][n].stage = "none"
         /\ \A k \in Jobs, m \in Tries : (k # j \/ m # n) => request'[k][m] = request[k][m]
<1>0. TypeOK
  BY DEF Inv, Types
<1>1. Featured' = Featured
  BY FeaturedSame
<1>2. NoRequest.stage = "none" /\ NoRequest.rows = {}
  BY DEF NoRequest
<1>3. /\ request'[j][n] = NoRequest
      /\ \A k \in Jobs, m \in Tries : (k # j \/ m # n) => request'[k][m] = request[k][m]
  BY <1>0, NoRequestTyped, SetRequest, ZenonT(60)
<1>4. ReadCurated'
  BY <1>1, <1>2, <1>3 DEF Inv, ReadCurated
<1>5. RequestsCover'
  BY <1>1, <1>2, <1>3 DEF Inv, RequestsCover, Covers
<1> QED BY <1>2, <1>3, <1>4, <1>5

(* A recorded interval was written, so a job that ends has what it owed online. *)
LEMMA InvRecordInterval ==
  ASSUME Inv, Resumed, NEW j \in Jobs, NEW n \in Tries, RecordInterval(j, n), Types'
  PROVE  /\ Inv'
         /\ (pc[j] # "done" /\ pc'[j] = "done") => owed[j] \subseteq online
<1>0. TypeOK
  BY DEF Inv, Types
<1> DEFINE w == request[j][n].window
           waiting == pc[j] = "wait" /\ n = tries[j]
<1>1. /\ UNCHANGED <<featuresOf, online, tries, owed, lost, late>>
      /\ request[j][n].stage = "record"
      /\ request' = [request EXCEPT ![j][n] = NoRequest]
      /\ intervals' = intervals \cup {w}
      /\ skipped' = skipped \cup {e \in Featured : /\ j \in Runs /\ FeatureTime[e] < w[1]
                                                   /\ \A i \in intervals : i[2] < FeatureTime[e]}
  BY DEF RecordInterval, tableVars, historyVars
<1>2. \A k \in Jobs :
          /\ todo'[k] = IF k = j /\ waiting THEN todo[k] \ {w} ELSE todo[k]
          /\ pc'[k] = IF k = j /\ waiting
                      THEN IF todo[k] \ {w} = {} THEN "done" ELSE "send" ELSE pc[k]
  BY <1>0 DEF RecordInterval, TypeOK
<1>3. Featured' = Featured
  BY <1>1, FeaturedSame
<1>4. /\ ReadCurated' /\ RequestsCover' /\ request'[j][n].stage = "none"
      /\ \A k \in Jobs, m \in Tries : (k # j \/ m # n) => request'[k][m] = request[k][m]
  BY <1>1, RequestGone
<1>5. waiting => \A e \in owed[j] : Covers(w, e) => e \in online
  BY <1>1 DEF Inv, Awaited
<1>6. waiting => \A e \in owed[j] : e \in online \/ \E v \in todo[j] \ {w} : Covers(v, e)
  BY <1>5 DEF Inv, Promise
<1>7. Promise'
  <2> HIDE DEF w, waiting
  <2> QED BY <1>1, <1>2, <1>6 DEF Inv, Promise, Covers
<1>8. Awaited'
  <2>1. \A k \in Jobs : tries[k] \in Tries
    BY <1>0 DEF TypeOK
  <2>2. \A k \in Jobs : pc'[k] = "wait" => pc[k] = "wait" /\ (k # j \/ tries[k] # n)
    BY <1>2
  <2> HIDE DEF w, waiting
  <2>3. \A k \in Jobs : pc'[k] = "wait" =>
            pc[k] = "wait" /\ request'[k][tries[k]] = request[k][tries[k]]
    BY <1>4, <2>1, <2>2
  <2> QED BY <1>1, <2>3 DEF Inv, Awaited, Covers
<1>9. NothingOwed' /\ OwedCurated'
  BY <1>1, <1>2, <1>3 DEF Inv, NothingOwed, OwedCurated
<1>10. PrefixServed'
  <2> SUFFICES ASSUME NEW e \in Featured, NEW i \in intervals', FeatureTime[e] <= i[2]
               PROVE  e \in online \cup lost \cup late \cup skipped'
    BY <1>1, <1>3 DEF PrefixServed
  <2>0. e \in Entities /\ FeatureTime[e] \in Nat /\ w \in Nat \X Nat
        /\ \A v \in intervals : v[2] \in Nat
    BY <1>0, FeaturedTyped, TablesAssumption DEF TypeOK, Request
  <2>1. CASE \E v \in intervals : FeatureTime[e] <= v[2]
    BY <1>1, <2>1 DEF Inv, PrefixServed
  <2>2. CASE ~ \E v \in intervals : FeatureTime[e] <= v[2]
    <3>1. i = w /\ \A v \in intervals : v[2] < FeatureTime[e]
      BY <1>1, <2>0, <2>2
    <3>2. CASE FeatureTime[e] < w[1] /\ j \in Runs
      BY <1>1, <3>1, <3>2
    <3>4. CASE FeatureTime[e] < w[1] /\ j \in Backfills
      <4>1. e \in late \/ Recorded(e)
        BY <1>1, <3>4 DEF Resumed, RequestResumes
      <4> QED BY <2>2, <4>1 DEF Recorded
    <3>3. CASE ~ (FeatureTime[e] < w[1])
      <4>1. Covers(w, e)
        BY <2>0, <3>1, <3>3 DEF Covers
      <4> QED BY <1>1, <4>1 DEF Inv, RequestsCover
    <3> QED BY <3>2, <3>3, <3>4 DEF Jobs
  <2> QED BY <2>1, <2>2
<1>11. (pc[j] # "done" /\ pc'[j] = "done") => owed[j] \subseteq online
  <2> HIDE DEF w, waiting
  <2> QED BY <1>2, <1>6
<1> QED BY <1>4, <1>7, <1>8, <1>9, <1>10, <1>11 DEF Inv

(* A job that is aborted owes nothing; the others do not notice. *)
LEMMA InvAbort ==
  ASSUME Inv, NEW j \in Jobs, Abort(j), Types',
         UNCHANGED <<featuresOf, intervals, lost, late, skipped>>, online \subseteq online',
         \A k \in Jobs : k # j => \A m \in Tries : request'[k][m] = request[k][m],
         ReadCurated', RequestsCover'
  PROVE  Inv' /\ pc'[j] # "done"
<1>0. TypeOK /\ \A k \in Jobs : tries[k] \in Tries
  BY DEF Inv, Types, TypeOK
<1>1. \A k \in Jobs : /\ todo'[k] = IF k = j THEN {} ELSE todo[k]
                      /\ owed'[k] = IF k = j THEN {} ELSE owed[k]
                      /\ k # j => pc'[k] = pc[k] /\ tries'[k] = tries[k]
  BY <1>0 DEF Abort, TypeOK
<1>2. pc'[j] \in {"plan", "failed"}
  BY <1>0 DEF Abort, TypeOK
<1>3. Featured' = Featured
  BY FeaturedSame
<1>4. Promise'
  BY <1>1, <1>2 DEF Inv, Promise, Covers
<1>5. Awaited'
  BY <1>0, <1>1, <1>2 DEF Inv, Awaited, Covers
<1>6. NothingOwed'
  BY <1>1 DEF Inv, NothingOwed
<1>7. OwedCurated'
  BY <1>1, <1>3 DEF Inv, OwedCurated
<1>8. PrefixServed'
  BY <1>3 DEF Inv, PrefixServed
<1> QED BY <1>2, <1>4, <1>5, <1>6, <1>7, <1>8 DEF Inv

(* A failing request leaves the window in the plan and may leave rows online. *)
LEMMA InvRequestFails ==
  ASSUME Inv, NEW j \in Jobs, NEW n \in Tries, RequestFails(j, n), Types'
  PROVE  /\ Inv'
         /\ \A k \in Jobs : pc'[k] = "done" => pc[k] = "done"
         /\ \E rows \in SUBSET Featured : online' = online \cup rows
<1>0. TypeOK
  BY DEF Inv, Types
<1>1. /\ UNCHANGED <<featuresOf, intervals, lost, late, skipped>>
      /\ request' = [request EXCEPT ![j][n] = NoRequest]
  BY DEF RequestFails, tableVars
<1>2. \E rows \in SUBSET Featured : online' = online \cup rows
  <2>1. request[j][n].rows \subseteq Featured
    BY DEF Inv, ReadCurated
  <2>2. PICK rows \in SUBSET request[j][n].rows :
            online' = IF request[j][n].stage = "write" THEN online \cup rows ELSE online
    BY DEF RequestFails
  <2>3. online' = online \cup rows \/ online' = online \cup {}
    BY <2>2
  <2> QED BY <2>1, <2>3
<1>3. online \subseteq online'
  BY <1>2
<1>4. /\ ReadCurated' /\ RequestsCover'
      /\ \A k \in Jobs, m \in Tries : (k # j \/ m # n) => request'[k][m] = request[k][m]
  BY <1>1, <1>3, RequestGone
<1>5. CASE pc[j] = "wait" /\ n = tries[j]
  <2>1. Abort(j)
    BY <1>5 DEF RequestFails
  <2>2. Inv' /\ pc'[j] # "done"
    BY <1>1, <1>3, <1>4, <2>1, InvAbort
  <2>3. \A k \in Jobs : k # j => pc'[k] = pc[k]
    BY <1>0, <2>1 DEF Abort, TypeOK
  <2> QED BY <1>2, <2>2, <2>3
<1>6. CASE ~ (pc[j] = "wait" /\ n = tries[j])
  <2>1. UNCHANGED <<pc, tries, todo, owed>>
    BY <1>6 DEF RequestFails
  <2>2. Featured' = Featured
    BY <1>1, FeaturedSame
  <2>3. Promise' /\ NothingOwed' /\ OwedCurated'
    BY <1>3, <2>1, <2>2 DEF Inv, Promise, NothingOwed, OwedCurated, Covers
  <2>4. Awaited'
    <3>1. \A k \in Jobs : tries[k] \in Tries
      BY <1>0 DEF TypeOK
    <3>2. \A k \in Jobs : pc[k] = "wait" => request'[k][tries[k]] = request[k][tries[k]]
      BY <1>4, <1>6, <3>1
    <3> QED BY <1>3, <2>1, <3>2 DEF Inv, Awaited, Covers
  <2>5. PrefixServed'
    BY <1>1, <1>3, <2>2 DEF Inv, PrefixServed
  <2> QED BY <1>2, <1>4, <2>1, <2>3, <2>4, <2>5 DEF Inv
<1> QED BY <1>5, <1>6

(* A run that stops waiting gives its plan up; it is not done. *)
LEMMA InvTimesOut ==
  ASSUME Inv, NEW r \in Runs, TimesOut(r), Types'
  PROVE  Inv' /\ \A k \in Jobs : pc'[k] = "done" => pc[k] = "done"
<1>0. TypeOK /\ r \in Jobs
  BY DEF Inv, Types, Jobs
<1>1. /\ UNCHANGED <<featuresOf, online, intervals, request, lost, late, skipped>> /\ Abort(r)
  BY DEF TimesOut, tableVars
<1>2. Featured' = Featured
  BY <1>1, FeaturedSame
<1>3. ReadCurated' /\ RequestsCover'
  BY <1>1, <1>2 DEF Inv, ReadCurated, RequestsCover, Covers
<1>4. Inv' /\ pc'[r] # "done"
  BY <1>0, <1>1, <1>3, InvAbort
<1>5. \A k \in Jobs : k # r => pc'[k] = pc[k]
  BY <1>0, <1>1 DEF Abort, TypeOK
<1> QED BY <1>4, <1>5

(* A row lost in Redis is accounted for as lost. *)
LEMMA InvLose == ASSUME Inv, Lose, Types' PROVE Inv'
<1>0. TypeOK
  BY DEF Inv, Types
<1>1. PICK rows \in SUBSET online :
          /\ online' = online \ rows
          /\ lost' = lost \cup rows
          /\ owed' = [j \in Jobs |-> owed[j] \ rows]
  BY DEF Lose
<1>2. UNCHANGED <<featuresOf, intervals, pc, tries, todo, request, late, skipped>>
  BY DEF Lose, tableVars, requestVars
<1>3. Featured' = Featured
  BY <1>2, FeaturedSame
<1>4. Promise'
  BY <1>1, <1>2 DEF Inv, Promise, Covers
<1>5. Awaited'
  BY <1>1, <1>2 DEF Inv, Awaited, Covers
<1>6. NothingOwed' /\ OwedCurated'
  BY <1>1, <1>2, <1>3 DEF Inv, NothingOwed, OwedCurated
<1>7. ReadCurated' /\ RequestsCover' /\ PrefixServed'
  BY <1>1, <1>2, <1>3 DEF Inv, ReadCurated, RequestsCover, PrefixServed, Covers
<1> QED BY <1>4, <1>5, <1>6, <1>7 DEF Inv

(* Nothing of the invariant depends on the clock or on the bookkeeping. *)
LEMMA InvStutter ==
  ASSUME Inv, Types',
         UNCHANGED <<featuresOf, online, intervals, pc, tries, todo, request, owed,
                     lost, late, skipped>>
  PROVE  Inv'
<1>1. Featured' = Featured
  BY FeaturedSame
<1> QED BY <1>1 DEF Inv, Promise, Awaited, NothingOwed, OwedCurated, ReadCurated,
                    RequestsCover, PrefixServed, Covers

(* Every step of the store keeps the invariant. *)
LEMMA InvNext == Inv /\ Resumed /\ [StoreNext]_vars => Inv'
<1> SUFFICES ASSUME Inv, Resumed, [StoreNext]_vars PROVE Inv'
  OBVIOUS
<1>0. Types /\ Types' /\ TypeOK
  BY TypesNext DEF Inv, Types
<1>1. ASSUME NEW r \in Runs, Curate(r) PROVE Inv'
  BY <1>0, <1>1, InvCurate
<1>2. ASSUME NEW r \in Runs, PlanRun(r) PROVE Inv'
  BY <1>0, <1>2, RunPlan, InvPlan DEF Jobs
<1>3. ASSUME NEW r \in Runs, TimesOut(r) PROVE Inv'
  BY <1>0, <1>3, InvTimesOut
<1>4. ASSUME NEW b \in Backfills, PlanBackfill(b) PROVE Inv'
  BY <1>0, <1>4, BackfillPlan, InvPlan DEF Jobs
<1>5. ASSUME NEW j \in Jobs, Send(j) PROVE Inv'
  BY <1>0, <1>5, InvSend
<1>6. ASSUME NEW j \in Jobs, NEW n \in Tries,
             ReadRows(j, n) \/ WriteRows(j, n) \/ RecordInterval(j, n) \/ RequestFails(j, n)
      PROVE  Inv'
  BY <1>0, <1>6, InvReadRows, InvWriteRows, InvRecordInterval, InvRequestFails
<1>7. ASSUME Lose PROVE Inv'
  BY <1>0, <1>7, InvLose
<1>8. ASSUME Tick, UNCHANGED storeVars PROVE Inv'
  BY <1>0, <1>8, InvStutter DEF Tick, storeVars, requestVars, historyVars
<1>9. CASE UNCHANGED vars
  BY <1>0, <1>9, InvStutter DEF vars, tableVars, storeVars, requestVars, historyVars
<1> QED BY <1>1, <1>2, <1>3, <1>4, <1>5, <1>6, <1>7, <1>8, <1>9 DEF StoreNext

(***************************************************************************)
(* Below the end of every recorded interval the table is online, but for   *)
(* the rows that were lost, late or passed over.                           *)
(***************************************************************************)
THEOREM PrefixIsServed == Spec => []PrefixServed
<1>1. Inv => PrefixServed /\ Types
  BY DEF Inv
<1> QED BY <1>1, InvInit, InvNext, ResumedInit, ResumedNext, PTL DEF Spec

-----------------------------------------------------------------------------
(* The refinement *)

(* Initial states map to initial states of ServedFeatures. *)
LEMMA RefinementInit == Init => Served!Init
<1> SUFFICES ASSUME Init PROVE Served!Init
  OBVIOUS
<1>1. Featured \in SUBSET Entities
  BY TypesInit, FeaturedTyped DEF Types
<1>2. {j \in Jobs : pc[j] = "done"} = {}
  BY DEF Init, StoreInit
<1> QED BY <1>1, <1>2 DEF Init, StoreInit, Served!Init

(* A job whose plan has windows undertakes its rows; one without any is done. *)
LEMMA PlanRefines ==
  ASSUME Inv, NEW j \in Jobs, pc[j] = "plan", NEW windows, NEW rows, PlanOf(j, windows, rows), Types'
  PROVE  Served!Undertake(j) \/ Served!Finish(j)
<1>0. TypeOK
  BY DEF Inv, Types
<1>1. /\ UNCHANGED <<featuresOf, online>>
      /\ owed' = [owed EXCEPT ![j] = rows]
      /\ rows \in SUBSET Featured
      /\ \A k \in Jobs : pc'[k] = IF k = j THEN IF windows = {} THEN "done" ELSE "send" ELSE pc[k]
  BY <1>0 DEF PlanOf, Undertake, tableVars, TypeOK
<1>2. Featured' = Featured
  BY <1>1, FeaturedSame
<1>3. owed[j] = {}
  BY DEF Inv, NothingOwed
<1>4. CASE windows = {}
  <2>1. rows = {}
    BY <1>4, InvPlan
  <2>2. owed' = owed
    BY <1>0, <1>1, <1>3, <2>1 DEF TypeOK
  <2>3. {k \in Jobs : pc'[k] = "done"} = {k \in Jobs : pc[k] = "done"} \cup {j}
    BY <1>1, <1>4
  <2> QED BY <1>1, <1>2, <1>3, <2>2, <2>3 DEF Served!Finish
<1>5. CASE windows # {}
  <2>1. {k \in Jobs : pc'[k] = "done"} = {k \in Jobs : pc[k] = "done"}
    BY <1>1, <1>5
  <2> QED BY <1>1, <1>2, <2>1 DEF Served!Undertake
<1> QED BY <1>4, <1>5

(* A step that keeps the rows on both sides, the debts and who is done is a stutter. *)
LEMMA StutterRefines ==
  ASSUME UNCHANGED <<featuresOf, online, owed>>,
         \A j \in Jobs : pc'[j] = "done" <=> pc[j] = "done"
  PROVE  UNCHANGED Served!served
<1>1. Featured' = Featured
  BY FeaturedSame
<1>2. {j \in Jobs : pc'[j] = "done"} = {j \in Jobs : pc[j] = "done"}
  OBVIOUS
<1> QED BY <1>1, <1>2 DEF Served!served

(* A job that is aborted abandons what it owed. *)
LEMMA AbortRefines ==
  ASSUME Inv, NEW j \in Jobs, Abort(j), pc[j] \in {"send", "wait"}, UNCHANGED featuresOf,
         NEW rows \in SUBSET Featured, online' = online \cup rows
  PROVE  Served!Abandon(j)
<1>0. TypeOK
  BY DEF Inv, Types
<1>1. Featured' = Featured
  BY FeaturedSame
<1>2. \A k \in Jobs : pc'[k] = "done" <=> pc[k] = "done"
  BY <1>0 DEF Abort, TypeOK
<1>3. {k \in Jobs : pc'[k] = "done"} = {k \in Jobs : pc[k] = "done"}
  BY <1>2
<1>4. owed' = [owed EXCEPT ![j] = {}]
  BY DEF Abort
<1> QED BY <1>1, <1>3, <1>4 DEF Served!Abandon

(* Every step maps to a step of ServedFeatures or to a stutter. *)
LEMMA RefinementNext == Inv /\ Inv' /\ Resumed /\ [StoreNext]_vars => [Served!Next]_Served!served
<1> SUFFICES ASSUME Inv, Inv', Resumed, [StoreNext]_vars, ~ UNCHANGED Served!served PROVE Served!Next
  OBVIOUS
<1>0. Types /\ Types' /\ TypeOK /\ Featured' \in SUBSET Entities
  <2>1. Types /\ Types'
    BY DEF Inv
  <2>2. Featured' \in SUBSET Entities
    <3>1. \A r \in Runs : featuresOf'[r] \subseteq Entities
      BY <2>1 DEF Types, TypeOK, TablesTypeOK
    <3> QED BY <3>1, TablesAssumption DEF Featured
  <2> QED BY <2>1, <2>2 DEF Types
<1>1. ASSUME NEW r \in Runs, Curate(r) PROVE Served!Next
  <2>1. Featured \subseteq Featured'
    BY <1>0, <1>1, FeaturedGrows DEF Curate
  <2>2. UNCHANGED <<online, owed>> /\ pc[r] = "curate" /\ pc' = [pc EXCEPT ![r] = "plan"]
    BY <1>1 DEF Curate, historyVars
  <2>3. {j \in Jobs : pc'[j] = "done"} = {j \in Jobs : pc[j] = "done"}
    BY <1>0, <2>2 DEF TypeOK
  <2>4. Served!Curate
    BY <1>0, <2>1, <2>2, <2>3 DEF Served!Curate
  <2> QED BY <2>4 DEF Served!Next
<1>2. ASSUME NEW r \in Runs, PlanRun(r) PROVE Served!Next
  <2>1. PlanOf(r, RunWindows(featuresOf[r]), featuresOf[r]) /\ pc[r] = "plan" /\ r \in Jobs
    BY <1>0, <1>2, RunPlan DEF PlanRun, Jobs
  <2>2. Served!Undertake(r) \/ Served!Finish(r)
    BY <1>0, <2>1, PlanRefines
  <2> QED BY <2>1, <2>2 DEF Served!Next
<1>3. ASSUME NEW b \in Backfills, PlanBackfill(b) PROVE Served!Next
  <2>1. PICK windows, rows : PlanOf(b, windows, rows)
    BY <1>0, <1>3, BackfillPlan
  <2>2. pc[b] = "plan" /\ b \in Jobs
    BY <1>3 DEF PlanBackfill, Jobs
  <2>3. Served!Undertake(b) \/ Served!Finish(b)
    BY <1>0, <2>1, <2>2, PlanRefines
  <2> QED BY <2>2, <2>3 DEF Served!Next
<1>4. ASSUME NEW j \in Jobs, Send(j) PROVE Served!Next
  <2>1. /\ UNCHANGED <<featuresOf, online, owed>>
        /\ \A k \in Jobs : pc'[k] = "done" <=> pc[k] = "done"
    BY <1>0, <1>4 DEF Send, TypeOK, tableVars, historyVars
  <2> QED BY <2>1, StutterRefines
<1>5. ASSUME NEW j \in Jobs, NEW n \in Tries, ReadRows(j, n) PROVE Served!Next
  <2>1. UNCHANGED <<featuresOf, online, owed, pc>>
    BY <1>5 DEF ReadRows, tableVars, historyVars
  <2> QED BY <2>1, StutterRefines
<1>6. ASSUME NEW j \in Jobs, NEW n \in Tries, WriteRows(j, n) PROVE Served!Next
  <2>1. UNCHANGED <<featuresOf, owed, pc>> /\ online' = online \cup request[j][n].rows
    BY <1>6 DEF WriteRows, tableVars, historyVars
  <2>2. request[j][n].rows \in SUBSET Featured
    BY DEF Inv, ReadCurated
  <2>3. Featured' = Featured
    BY <2>1, FeaturedSame
  <2>4. Served!Serve
    BY <2>1, <2>2, <2>3 DEF Served!Serve
  <2> QED BY <2>4 DEF Served!Next
<1>7. ASSUME NEW j \in Jobs, NEW n \in Tries, RecordInterval(j, n) PROVE Served!Next
  <2>1. UNCHANGED <<featuresOf, online, owed>>
    BY <1>7 DEF RecordInterval, tableVars, historyVars
  <2>2. \A k \in Jobs : k # j => pc'[k] = pc[k]
    BY <1>0, <1>7 DEF RecordInterval, TypeOK
  <2>3. pc[j] = "done" => pc'[j] = "done"
    BY <1>0, <1>7 DEF RecordInterval, TypeOK
  <2>4. CASE pc[j] # "done" /\ pc'[j] = "done"
    <3>1. owed[j] \subseteq online
      BY <1>0, <1>7, <2>4, InvRecordInterval
    <3>2. {k \in Jobs : pc'[k] = "done"} = {k \in Jobs : pc[k] = "done"} \cup {j}
      BY <2>2, <2>4
    <3>3. Featured' = Featured
      BY <2>1, FeaturedSame
    <3>4. Served!Finish(j)
      BY <2>1, <2>4, <3>1, <3>2, <3>3 DEF Served!Finish
    <3> QED BY <3>4 DEF Served!Next
  <2>5. CASE ~ (pc[j] # "done" /\ pc'[j] = "done")
    <3>1. \A k \in Jobs : pc'[k] = "done" <=> pc[k] = "done"
      BY <2>2, <2>3, <2>5
    <3> QED BY <2>1, <3>1, StutterRefines
  <2> QED BY <2>4, <2>5
<1>8. ASSUME NEW j \in Jobs, NEW n \in Tries, RequestFails(j, n) PROVE Served!Next
  <2>1. PICK rows \in SUBSET Featured : online' = online \cup rows
    BY <1>0, <1>8, InvRequestFails
  <2>2. UNCHANGED featuresOf
    BY <1>8 DEF RequestFails, tableVars
  <2>3. CASE pc[j] = "wait" /\ n = tries[j]
    <3>1. Abort(j)
      BY <1>8, <2>3 DEF RequestFails
    <3>2. Served!Abandon(j)
      BY <2>1, <2>2, <2>3, <3>1, AbortRefines
    <3> QED BY <3>2 DEF Served!Next
  <2>4. CASE ~ (pc[j] = "wait" /\ n = tries[j])
    <3>1. UNCHANGED <<pc, owed>>
      BY <1>8, <2>4 DEF RequestFails
    <3>2. Featured' = Featured
      BY <2>2, FeaturedSame
    <3>3. Served!Serve
      BY <2>1, <3>1, <3>2 DEF Served!Serve
    <3> QED BY <3>3 DEF Served!Next
  <2> QED BY <2>3, <2>4
<1>9. ASSUME NEW r \in Runs, TimesOut(r) PROVE Served!Next
  <2>1. /\ Abort(r) /\ pc[r] \in {"send", "wait"} /\ UNCHANGED <<featuresOf, online>>
        /\ r \in Jobs
    BY <1>9 DEF TimesOut, tableVars, Jobs
  <2>2. online' = online \cup {} /\ {} \in SUBSET Featured
    BY <2>1
  <2>3. Served!Abandon(r)
    BY <2>1, <2>2, AbortRefines
  <2> QED BY <2>1, <2>3 DEF Served!Next
<1>10. ASSUME Lose PROVE Served!Next
  <2>1. PICK rows \in SUBSET online : /\ online' = online \ rows
                                      /\ owed' = [j \in Jobs |-> owed[j] \ rows]
    BY <1>10 DEF Lose
  <2>2. UNCHANGED <<featuresOf, pc>>
    BY <1>10 DEF Lose, tableVars
  <2>3. Featured' = Featured
    BY <2>2, FeaturedSame
  <2>4. Served!Lose
    BY <2>1, <2>2, <2>3 DEF Served!Lose
  <2> QED BY <2>4 DEF Served!Next
<1>11. ASSUME Tick, UNCHANGED storeVars PROVE Served!Next
  BY <1>11, StutterRefines DEF Tick, storeVars, historyVars
<1>12. CASE UNCHANGED vars
  BY <1>12, StutterRefines DEF vars, tableVars, storeVars, historyVars
<1> QED BY <1>1, <1>2, <1>3, <1>4, <1>5, <1>6, <1>7, <1>8, <1>9, <1>10, <1>11, <1>12
        DEF StoreNext

(***************************************************************************)
(* Materialization implements ServedFeatures: a job that reports success   *)
(* has its rows online, but for those lost since it planned.               *)
(***************************************************************************)
THEOREM RefinesServedFeatures == Spec => ImplementsServedFeatures
<1>1. Init => Served!Init
  BY RefinementInit
<1>2. Inv /\ Inv' /\ Resumed /\ [StoreNext]_vars => [Served!Next]_Served!served
  BY RefinementNext
<1>3. Inv => Types
  BY DEF Inv
<1> QED BY <1>1, <1>2, <1>3, InvInit, InvNext, ResumedInit, ResumedNext, PTL
        DEF Spec, ImplementsServedFeatures, Served!Spec

-----------------------------------------------------------------------------
(***************************************************************************)
(* Chunks.  The boundaries are the timestamps whose rank is a multiple of  *)
(* the chunk size, so that ChunkRows rows strictly between two neighbours  *)
(* would have a boundary among them: the multiple next to the rank of the  *)
(* earlier neighbour belongs to one of those rows (RankTaken).             *)
(***************************************************************************)

Before(rows, t) == {e \in rows : FeatureTime[e] < t}
NotAfter(rows, t) == {e \in rows : FeatureTime[e] <= t}

(* Sets of rows are finite, and a part has no more rows than the whole. *)
LEMMA RowsCounted ==
  ASSUME NEW rows \in SUBSET Entities, NEW part \in SUBSET rows
  PROVE  /\ IsFiniteSet(rows) /\ IsFiniteSet(part)
         /\ Cardinality(rows) \in Nat /\ Cardinality(part) \in Nat
         /\ Cardinality(part) <= Cardinality(rows)
<1>1. IsFiniteSet(rows)
  BY TablesAssumption, FS_Subset
<1>2. IsFiniteSet(part) /\ Cardinality(part) <= Cardinality(rows)
  BY <1>1, FS_Subset
<1> QED BY <1>1, <1>2, FS_CardinalityType

(* Behind every number there is a multiple of k at most k away. *)
LEMMA NextMultiple ==
  ASSUME NEW k \in Nat \ {0}, NEW c \in Nat
  PROVE  \E n \in Nat : c < n /\ n <= c + k /\ n % k = 0
<1> DEFINE q == c \div k
<1>1. q \in Nat /\ k * q <= c /\ c < k * q + k
  OBVIOUS
<1>2. (k * q + k) % k = 0
  OBVIOUS
<1> QED BY <1>1, <1>2

(* Every rank from the first to the last is the rank of some row's timestamp. *)
LEMMA RankTaken ==
  ASSUME NEW rows \in SUBSET Entities, NEW n \in Nat, 1 <= n, n <= Cardinality(rows)
  PROVE  \E t \in Times(rows) : AtRank(rows, t, n)
<1> DEFINE Good == {t \in Times(rows) : n <= Cardinality(NotAfter(rows, t))}
<1>1. Good \subseteq Nat
  BY TablesAssumption DEF Times
<1>2. Good # {}
  <2>1. rows # {}
    BY FS_EmptySet
  <2>2. PICK m \in rows : \A e \in rows : FeatureTime[e] <= FeatureTime[m]
    BY <2>1, LatestExists
  <2>3. NotAfter(rows, FeatureTime[m]) = rows
    BY <2>2 DEF NotAfter
  <2> QED BY <2>3 DEF Times
<1>3. PICK t \in Good : \A u \in Good : t <= u
  <2> HIDE DEF Good
  <2> QED BY <1>1, <1>2, MinExists
<1>4. ASSUME n <= Cardinality(Before(rows, t)) PROVE FALSE
  <2>1. Before(rows, t) # {}
    BY <1>4, FS_EmptySet
  <2>2. Before(rows, t) \in SUBSET Entities
    BY DEF Before
  <2>3. PICK m \in Before(rows, t) : \A e \in Before(rows, t) : FeatureTime[e] <= FeatureTime[m]
    BY <2>1, <2>2, LatestExists
  <2>4. FeatureTime \in [Entities -> Nat] /\ t \in Nat
    BY <1>1, TablesAssumption
  <2>5. m \in rows /\ FeatureTime[m] < t
    BY DEF Before
  <2>6. NotAfter(rows, FeatureTime[m]) = Before(rows, t)
    <3>1. ASSUME NEW e \in rows
          PROVE  FeatureTime[e] <= FeatureTime[m] <=> FeatureTime[e] < t
      <4>1. FeatureTime[e] \in Nat /\ FeatureTime[m] \in Nat
        BY <2>4, <2>5
      <4>2. FeatureTime[e] < t => FeatureTime[e] <= FeatureTime[m]
        BY <2>3 DEF Before
      <4> QED BY <2>4, <2>5, <4>1, <4>2
    <3> QED BY <3>1 DEF NotAfter, Before
  <2>7. FeatureTime[m] \in Good
    BY <1>4, <2>5, <2>6 DEF Times
  <2>8. FeatureTime[m] \in Nat /\ t <= FeatureTime[m]
    BY <1>3, <2>4, <2>5, <2>7
  <2> QED BY <2>4, <2>5, <2>8
<1>5. Cardinality(Before(rows, t)) \in Nat
  BY RowsCounted DEF Before
<1>6. Cardinality(Before(rows, t)) < n
  BY <1>4, <1>5
<1> QED BY <1>6, <1>3 DEF AtRank, Before, NotAfter

Chunked(rows, w) == Cardinality(Within(rows, <<w[1] + 1, w[2] - 1>>)) < ChunkRows

(* A window cut at every Chunk-th row holds no more than Chunk of the rows behind its start. *)
LEMMA WindowsAreChunked ==
  ASSUME NEW rows \in SUBSET Entities, NEW start \in Nat, NEW end \in Nat, start < end,
         NEW w \in Windows(start, end, Boundaries(rows))
  PROVE  Chunked(rows, w)
<1> DEFINE low == NotAfter(rows, w[1])
           inside == Within(rows, <<w[1] + 1, w[2] - 1>>)
<1>0. FeatureTime \in [Entities -> Nat] /\ ChunkRows \in Nat \ {0}
  BY TablesAssumption, StoreAssumption
<1>1. Boundaries(rows) \subseteq Nat
  BY <1>0 DEF Boundaries, Times
<1>2. /\ w[1] \in Nat /\ w[2] \in Nat /\ w[1] < w[2]
      /\ start <= w[1] /\ w[2] <= end
      /\ \A b \in Boundaries(rows) : start < b /\ b < end => b <= w[1] \/ w[2] <= b
  BY <1>1 DEF Windows
<1>3. /\ low \in SUBSET rows /\ inside \in SUBSET rows
      /\ low \cap inside = {}
      /\ low \cup inside = Before(rows, w[2])
  <2>1. ASSUME NEW e \in rows
        PROVE  /\ e \in low <=> FeatureTime[e] <= w[1]
               /\ e \in inside <=> w[1] < FeatureTime[e] /\ FeatureTime[e] < w[2]
               /\ e \in Before(rows, w[2]) <=> FeatureTime[e] < w[2]
               /\ FeatureTime[e] \in Nat
    BY <1>0, <1>2 DEF NotAfter, Within, Before
  <2>2. low \in SUBSET rows /\ inside \in SUBSET rows /\ Before(rows, w[2]) \in SUBSET rows
    BY DEF NotAfter, Within, Before
  <2> HIDE DEF low, inside
  <2> QED BY <1>2, <2>1, <2>2
<1>4. /\ IsFiniteSet(low) /\ IsFiniteSet(inside)
      /\ Cardinality(low) \in Nat /\ Cardinality(inside) \in Nat /\ Cardinality(rows) \in Nat
  <2> HIDE DEF low, inside
  <2> QED BY <1>3, RowsCounted
<1>5. /\ Cardinality(Before(rows, w[2])) = Cardinality(low) + Cardinality(inside)
      /\ Cardinality(Before(rows, w[2])) <= Cardinality(rows)
  <2> HIDE DEF low, inside
  <2>1. Cardinality(low \cup inside) = Cardinality(low) + Cardinality(inside) - Cardinality({})
    BY <1>3, <1>4, FS_Union
  <2>2. Cardinality({}) = 0
    BY FS_EmptySet
  <2>3. Before(rows, w[2]) \in SUBSET rows
    BY DEF Before
  <2> QED BY <1>3, <1>4, <2>1, <2>2, <2>3, RowsCounted
<1>6. ASSUME ChunkRows <= Cardinality(inside) PROVE FALSE
  <2>1. PICK n \in Nat : /\ Cardinality(low) < n /\ n <= Cardinality(low) + ChunkRows
                         /\ n % ChunkRows = 0
    BY <1>0, <1>4, NextMultiple
  <2>2. 1 <= n /\ n <= Cardinality(Before(rows, w[2])) /\ n <= Cardinality(rows)
    <3> HIDE DEF low, inside
    <3> QED BY <1>0, <1>4, <1>5, <1>6, <2>1
  <2>3. PICK t \in Times(rows) : AtRank(rows, t, n)
    BY <2>2, RankTaken
  <2>4. t \in Nat
    BY <1>0 DEF Times
  <2>5. t \in Boundaries(rows)
    BY <1>4, <2>1, <2>2, <2>3 DEF Boundaries
  <2>6. Cardinality(Before(rows, t)) < n /\ n <= Cardinality(NotAfter(rows, t))
    BY <2>3 DEF AtRank, Before, NotAfter
  <2>7. ASSUME t <= w[1] PROVE FALSE
    <3>1. NotAfter(rows, t) \in SUBSET low
      BY <1>0, <1>2, <2>4, <2>7 DEF NotAfter
    <3>2. low \in SUBSET Entities
      BY <1>3
    <3>3. Cardinality(NotAfter(rows, t)) \in Nat /\ Cardinality(NotAfter(rows, t)) <= Cardinality(low)
      <4> HIDE DEF low
      <4> QED BY <3>1, <3>2, RowsCounted
    <3> HIDE DEF low
    <3> QED BY <1>4, <2>1, <2>6, <3>3
  <2>8. ASSUME w[2] <= t PROVE FALSE
    <3>1. Before(rows, w[2]) \in SUBSET Before(rows, t)
      BY <1>0, <1>2, <2>4, <2>8 DEF Before
    <3>2. Before(rows, t) \in SUBSET Entities
      BY DEF Before
    <3>3. /\ Cardinality(Before(rows, w[2])) \in Nat /\ Cardinality(Before(rows, t)) \in Nat
          /\ Cardinality(Before(rows, w[2])) <= Cardinality(Before(rows, t))
      BY <3>1, <3>2, RowsCounted
    <3> QED BY <2>2, <2>6, <3>3
  <2>9. t <= w[1] \/ w[2] <= t
    BY <1>2, <2>4, <2>5
  <2> QED BY <2>7, <2>8, <2>9
<1>7. Cardinality(inside) < ChunkRows
  <2> HIDE DEF inside
  <2> QED BY <1>0, <1>4, <1>6
<1> QED BY <1>7 DEF Chunked

(* The plans of runs and backfills; a plan that is kept keeps its rows. *)
LEMMA RunPlanIsChunked ==
  ASSUME TypeOK, NEW r \in Runs
  PROVE  \A w \in RunWindows(featuresOf[r]) : Chunked(featuresOf[r], w)
<1> DEFINE rows == featuresOf[r]
<1>1. rows \in SUBSET Entities
  BY DEF TypeOK, TablesTypeOK
<1>2. ASSUME NEW w \in RunWindows(rows) PROVE Chunked(rows, w)
  <2> HIDE DEF rows
  <2>1. rows # {}
    BY <1>2 DEF RunWindows
  <2>2. PICK m \in rows : \A e \in rows : FeatureTime[e] <= FeatureTime[m]
    BY <1>1, <2>1, LatestExists
  <2>3. /\ Earliest(rows) \in Nat /\ Latest(rows) \in Nat /\ FeatureTime[m] \in Nat
        /\ Earliest(rows) <= FeatureTime[m] /\ FeatureTime[m] <= Latest(rows)
    BY <1>1, <2>1, EarliestIsLeast, LatestIsGreatest, TablesAssumption
  <2>4. Latest(rows) + 1 \in Nat /\ Earliest(rows) < Latest(rows) + 1
    BY <2>3
  <2>5. w \in Windows(Earliest(rows), Latest(rows) + 1, Boundaries(rows))
    BY <2>1, <1>2 DEF RunWindows
  <2> QED BY <1>1, <2>3, <2>4, <2>5, WindowsAreChunked
<1> QED BY <1>2

(* The windows a backfill plans hold at most a chunk of the rows it saw. *)
LEMMA BackfillPlanIsChunked ==
  ASSUME Types, NEW b \in Backfills, PlanBackfill(b)
  PROVE  \E windows, rows : /\ Undertake(b, windows, rows)
                            /\ \A w \in windows : Chunked(rows, w)
<1>0. Featured \in SUBSET Entities
  BY FeaturedTyped DEF Types
<1>1. PICK end \in Instants :
          LET start == IF intervals = {} THEN Earliest(Featured) ELSE ResumePoint
              stop == IF end < Latest(Featured) THEN end ELSE Latest(Featured)
              rows == Within(Featured, <<start, stop>>)
          IN  IF Featured = {} \/ start >= stop
              THEN Undertake(b, {}, {})
              ELSE Undertake(b, Windows(start, stop, Boundaries(rows)), rows)
  BY DEF PlanBackfill
<1> DEFINE start == IF intervals = {} THEN Earliest(Featured) ELSE ResumePoint
           stop == IF end < Latest(Featured) THEN end ELSE Latest(Featured)
           rows == Within(Featured, <<start, stop>>)
<1>2. CASE Featured = {} \/ start >= stop
  BY <1>1, <1>2
<1>3. CASE ~ (Featured = {} \/ start >= stop)
  <2>1. Undertake(b, Windows(start, stop, Boundaries(rows)), rows)
    BY <1>1, <1>3
  <2>2. start \in Nat
    BY <1>0, <1>3, EarliestIsLeast, ResumePointTyped
  <2>3. stop \in Nat
    <3>1. end \in Nat /\ Latest(Featured) \in Nat
      BY <1>0, <1>3, LatestIsGreatest, TablesAssumption
    <3> QED BY <3>1
  <2>4. rows \in SUBSET Entities
    BY <1>0 DEF Within
  <2> HIDE DEF start, stop, rows
  <2>5. start < stop
    BY <1>3, <2>2, <2>3
  <2>6. \A w \in Windows(start, stop, Boundaries(rows)) : Chunked(rows, w)
    BY <2>2, <2>3, <2>4, <2>5, WindowsAreChunked
  <2> QED BY <2>1, <2>6
<1> QED BY <1>2, <1>3

(* A plan of chunked windows keeps all plans chunked. *)
LEMMA ChunksUndertaken ==
  ASSUME TypeOK, PlansAreChunked, NEW j \in Jobs, NEW windows, NEW rows,
         Undertake(j, windows, rows), \A w \in windows : Chunked(rows, w)
  PROVE  PlansAreChunked'
<1>1. ASSUME NEW k \in Jobs, NEW w \in todo'[k] PROVE Chunked(seen'[k], w)
  <2>1. CASE k = j
    <3>1. todo'[k] = windows /\ seen'[k] = rows
      BY <2>1 DEF TypeOK, Undertake
    <3> QED BY <1>1, <3>1
  <2>2. CASE k # j
    <3>1. todo'[k] = todo[k] /\ seen'[k] = seen[k]
      BY <2>2 DEF TypeOK, Undertake
    <3> QED BY <1>1, <3>1 DEF PlansAreChunked, Chunked
  <2> QED BY <2>1, <2>2
<1> QED BY <1>1 DEF PlansAreChunked, Chunked, Within

(* Dropping windows from the plans keeps them chunked. *)
LEMMA ChunksKept ==
  ASSUME PlansAreChunked, seen' = seen, \A j \in Jobs : todo'[j] \subseteq todo[j]
  PROVE  PlansAreChunked'
BY DEF PlansAreChunked, Within

(* Giving up a job only takes windows away. *)
LEMMA AbortDropsPlan ==
  ASSUME TypeOK, NEW j \in Jobs, Abort(j)
  PROVE  \A k \in Jobs : todo'[k] \subseteq todo[k]
BY DEF TypeOK, Abort

(* Every step of the store keeps the plans chunked. *)
LEMMA ChunksNext == Types /\ PlansAreChunked /\ [StoreNext]_vars => PlansAreChunked'
<1> SUFFICES ASSUME Types, PlansAreChunked, [StoreNext]_vars PROVE PlansAreChunked'
  OBVIOUS
<1>0. TypeOK
  BY DEF Types
<1>1. ASSUME NEW r \in Runs, Curate(r) PROVE PlansAreChunked'
  BY <1>1, ChunksKept DEF Curate, requestVars, historyVars
<1>2. ASSUME NEW r \in Runs, PlanRun(r) PROVE PlansAreChunked'
  <2>1. Undertake(r, RunWindows(featuresOf[r]), featuresOf[r])
    BY <1>2 DEF PlanRun
  <2> QED BY <1>0, <2>1, RunPlanIsChunked, ChunksUndertaken DEF Jobs
<1>3. ASSUME NEW r \in Runs, TimesOut(r) PROVE PlansAreChunked'
  <2>1. Abort(r) /\ seen' = seen
    BY <1>3 DEF TimesOut
  <2> QED BY <1>0, <2>1, AbortDropsPlan, ChunksKept DEF Jobs
<1>4. ASSUME NEW b \in Backfills, PlanBackfill(b) PROVE PlansAreChunked'
  <2>1. PICK windows, rows : /\ Undertake(b, windows, rows)
                             /\ \A w \in windows : Chunked(rows, w)
    BY <1>4, BackfillPlanIsChunked
  <2> QED BY <1>0, <2>1, ChunksUndertaken DEF Jobs
<1>5. ASSUME NEW j \in Jobs, Send(j) PROVE PlansAreChunked'
  BY <1>5, ChunksKept DEF Send, historyVars
<1>6. ASSUME NEW j \in Jobs, NEW n \in Tries, ReadRows(j, n) \/ WriteRows(j, n)
      PROVE  PlansAreChunked'
  BY <1>6, ChunksKept DEF ReadRows, WriteRows, historyVars
<1>7. ASSUME NEW j \in Jobs, NEW n \in Tries, RecordInterval(j, n) PROVE PlansAreChunked'
  <2>1. /\ seen' = seen
        /\ \A k \in Jobs : todo'[k] \subseteq todo[k]
    BY <1>0, <1>7 DEF TypeOK, RecordInterval, historyVars
  <2> QED BY <2>1, ChunksKept
<1>8. ASSUME NEW j \in Jobs, NEW n \in Tries, RequestFails(j, n) PROVE PlansAreChunked'
  <2>1. seen' = seen /\ (Abort(j) \/ UNCHANGED todo)
    BY <1>8 DEF RequestFails
  <2> QED BY <1>0, <2>1, AbortDropsPlan, ChunksKept
<1>9. ASSUME Lose PROVE PlansAreChunked'
  BY <1>9, ChunksKept DEF Lose, requestVars
<1>10. ASSUME UNCHANGED storeVars PROVE PlansAreChunked'
  BY <1>10, ChunksKept DEF storeVars, requestVars, historyVars
<1>11. CASE UNCHANGED vars
  BY <1>10, <1>11 DEF vars
<1> QED BY <1>1, <1>2, <1>3, <1>4, <1>5, <1>6, <1>7, <1>8, <1>9, <1>10, <1>11 DEF StoreNext

(***************************************************************************)
(* No window of any plan holds a chunk of rows strictly inside it, for any *)
(* chunk size and any spread of the timestamps.                            *)
(***************************************************************************)
THEOREM WindowsHoldAChunk == Spec => []PlansAreChunked
<1>1. Init => PlansAreChunked
  BY DEF Init, StoreInit, PlansAreChunked
<1>2. Types /\ PlansAreChunked /\ [StoreNext]_vars => PlansAreChunked'
  BY ChunksNext
<1> QED BY <1>1, <1>2, TypesInit, TypesNext, PTL DEF Spec
=============================================================================
