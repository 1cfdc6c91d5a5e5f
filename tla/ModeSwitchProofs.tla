-------------------------- MODULE ModeSwitchProofs --------------------------
(***************************************************************************)
(* Proofs about ModeSwitch.  The inductive invariant says, for every       *)
(* script and every place in it, what the steps behind that place have     *)
(* established and nothing that can happen meanwhile undoes.  The safety   *)
(* of a step then depends on the step at the head alone (Prepared), and    *)
(* the exit status on what is known at the end of the script.              *)
(***************************************************************************)
EXTENDS ModeSwitch, SequenceTheorems, TLAPS

-----------------------------------------------------------------------------
(***************************************************************************)
(* The inductive invariant                                                 *)
(***************************************************************************)

Types == /\ node \in {"absent", "stopped", "running"}
         /\ cap \in {0, 6, 11, 12}
         /\ kfp \in {"none", "installed", "terminating"}
         /\ keda \in {"none", "installed", "terminating"}
         /\ compose \in SUBSET Services
         /\ asked \in Modes \cup {"none"}
         /\ exit \in {"running", "ok", "failed"}
         /\ interrupted \in BOOLEAN
         /\ swallowed \in {"no", "before", "now"}

(* Nothing is left of a cluster that was deleted. *)
NoCluster == node = "absent" => kfp = "none" /\ keda = "none"

Safe == Types /\ NoCluster /\ KfpHasRoom /\ NeverTogether

(* What to_k8s goes through without a cluster, and the ends of its other ways. *)
creating == << <<"trim", "k8s">> >> \o k8s_up
finishing == << <<"trim", "k8s">>, <<"up", "k8s">> >> \o k8s_up \o << <<"status", "any">> >>
leaving_scale == << <<"set_cap", "k8s">> >> \o finishing
through_kfp == (start_node_in_kfp_envelope \o << <<"leave", "kfp">> >>) \o finishing
leaving_kfp == kfp_down \o finishing

From(s, i) == SubSeq(s, i, Len(s))

(* The script s, run to reach the mode, is about to take its step i. *)
On(mode, s, i) == /\ i \in 1 .. Len(s)
                  /\ steps = From(s, i)
                  /\ asked = mode
                  /\ exit = "running"

(* Each fact about Compose has the proviso that the script went past no failure. *)
Blind == swallowed = "now"
Trimmed(mode) == compose \subseteq allowed[mode] \/ Blind
Plain == node = "running" /\ kfp = "none"

OnCompose(i) == /\ On("compose", to_compose, i)
                /\ i > 1 => node # "running" \/ Blind

OnKfp(i) == /\ On("kfp", to_kfp, i)
            /\ i > 2 => Trimmed("kfp")
            /\ i > 3 => cap = 12
            /\ i > 4 => node = "running"

OnScale(i) == /\ On("scale", to_scale, i)
              /\ i > 1 => Plain
              /\ i > 2 => cap = 11

OnK8s(i) == On("k8s", script["k8s"], i)

(* Once the moved services have left Compose, nothing of the way brings them back. *)
OnCreating(i) == /\ On("k8s", creating, i)
                 /\ i <= 3 => node = "absent" \/ Blind
                 /\ i > 1 => Trimmed("k8s")
                 /\ i > 3 => Plain /\ (keda = "none" \/ Blind)
                 /\ i > 4 => cap = 6

(* From here on the node stays as k8s mode wants it; only Compose is worked on. *)
OnFinishing(i) == /\ On("k8s", finishing, i)
                  /\ Plain /\ cap = 6
                  /\ i > 1 => Trimmed("k8s")

OnLeavingScale(i) == On("k8s", leaving_scale, i) /\ i = 1 /\ Plain

OnThroughKfp(i) == /\ On("k8s", through_kfp, i)
                   /\ i <= 4
                   /\ i > 1 => Trimmed("kfp")
                   /\ i > 2 => cap = 12
                   /\ i > 3 => node = "running"

OnLeavingKfp(i) == /\ On("k8s", leaving_kfp, i)
                   /\ i <= 4
                   /\ node = "running"
                   /\ i > 3 => kfp = "none"

OnK8sUp(i) == /\ On("none", k8s_up, i)
              /\ i > 1 => "moved" \notin compose \/ Blind
              /\ i > 2 => Plain

OnK8sDown(i) == /\ On("none", script["k8s_down"], i)
                /\ i > 1 => node = "absent" \/ Blind

OnKfpUp(i) == /\ On("none", script["kfp_up"], i)
              /\ i > 1 => node = "running" /\ cap = 12 /\ Trimmed("kfp")

OnKfpDown(i) == /\ On("none", kfp_down, i)
                /\ i > 3 => kfp = "none"

OnAutoscalingUp(i) == On("none", script["autoscaling_up"], i)
OnAutoscalingDown(i) == On("none", script["autoscaling_down"], i)

Idle == steps = <<>> /\ exit # "running" /\ ExitTellsMode

Somewhere(i) == \/ OnCompose(i) \/ OnKfp(i) \/ OnScale(i) \/ OnK8s(i)
                \/ OnCreating(i) \/ OnFinishing(i) \/ OnLeavingScale(i)
                \/ OnThroughKfp(i) \/ OnLeavingKfp(i)
                \/ OnK8sUp(i) \/ OnK8sDown(i) \/ OnKfpUp(i) \/ OnKfpDown(i)
                \/ OnAutoscalingUp(i) \/ OnAutoscalingDown(i)

Progress == Idle \/ \E i \in 1 .. 11 : Somewhere(i)

Inv == Safe /\ Progress

Verb == Head(steps)[1]
Object == Head(steps)[2]

(* What the step at the head needs in order to be safe. *)
Needs ==
    /\ Verb = "up" /\ node = "running" =>
           /\ kfp = "none" \/ Blind \/ Started(Object) \subseteq allowed["kfp"]
           /\ "moved" \notin Started(Object) \/ Blind
    /\ Verb = "set_cap" /\ node = "running" => kfp = "none" \/ Object = "kfp"
    /\ Verb = "update_cap" => kfp = "none"
    /\ Verb = "node" /\ Object = "start" => cap = 12 /\ Trimmed("kfp")
    /\ Verb = "cluster" /\ Object = "create" => "moved" \notin compose \/ Blind
    /\ Verb = "kfp" /\ Object = "install" => node = "running" /\ cap = 12 /\ Trimmed("kfp")

-----------------------------------------------------------------------------
(***************************************************************************)
(* Scripts as sequences                                                    *)
(***************************************************************************)

Verbs == {"trim", "stop", "up", "set_cap", "update_cap", "node", "cluster", "check", "status",
          "kfp", "keda", "to_k8s", "leave"}
Objects == Modes \cup {"any", "airflow", "handed_back", "moved", "create", "exists", "delete",
                       "gone", "install", "stop", "start"}
Commands == Verbs \X Objects

Is(command, verb, object) == command[1] = verb /\ command[2] = object

(* A sequence of at most four commands is a sequence over them. *)
LEMMA ShortSequences ==
    /\ \A a \in Commands : <<a>> \in Seq(Commands)
    /\ \A a, b \in Commands : <<a, b>> \in Seq(Commands)
    /\ \A a, b, c \in Commands : <<a, b, c>> \in Seq(Commands)
    /\ \A a, b, c, d \in Commands : <<a, b, c, d>> \in Seq(Commands)
OBVIOUS

(* g is s followed by t, element by element. *)
Joins(g, s, t) == /\ g \in Seq(Commands)
                  /\ Len(g) = Len(s) + Len(t)
                  /\ \A i \in 1 .. Len(s) + Len(t) :
                         g[i] = IF i <= Len(s) THEN s[i] ELSE t[i - Len(s)]

(* Concatenation, as the lemmas about the scripts use it. *)
LEMMA Concatenated ==
    ASSUME NEW s \in Seq(Commands), NEW t \in Seq(Commands)
    PROVE  Joins(s \o t, s, t)
BY ConcatProperties DEF Joins

(* What is left of a script before its step i: that step, then the rest. *)
LEMMA OneStepOn ==
    ASSUME NEW T, NEW s \in Seq(T), NEW i \in 1 .. Len(s)
    PROVE  /\ From(s, i) # <<>>
           /\ Head(From(s, i)) = s[i]
           /\ Tail(From(s, i)) = From(s, i + 1)
<1>1. Len(s) \in Nat /\ i \in Int /\ i <= Len(s) /\ Len(s) \in i .. Len(s)
  BY LenProperties
<1>2. \A j \in i .. Len(s) : s[j] \in T
  BY LenProperties
<1>3. Len(From(s, i)) = Len(s) - i + 1
  BY <1>1, <1>2, SubSeqProperties DEF From
<1>4. From(s, i) # <<>>
  BY <1>1, <1>3, EmptySeq
<1> QED
  BY <1>1, <1>4, HeadTailOfSubSeq DEF From

(* The script from its first step is the script, and from behind its last is empty. *)
LEMMA WholeAndNothing ==
    ASSUME NEW T, NEW s \in Seq(T)
    PROVE  From(s, 1) = s /\ From(s, Len(s) + 1) = <<>>
BY SubSeqFull, SubSeqEmpty, LenProperties DEF From

(* After the steps of s, those of t are left of s \o t. *)
LEMMA SecondHalf ==
    ASSUME NEW T, NEW s \in Seq(T), NEW t \in Seq(T)
    PROVE  From(s \o t, Len(s) + 1) = t
<1>1. /\ s \o t \in Seq(T) /\ Len(s \o t) = Len(s) + Len(t)
      /\ \A i \in 1 .. Len(t) : (s \o t)[Len(s) + i] = t[i]
  OBVIOUS
<1>2. Len(s) \in Nat /\ Len(t) \in Nat
  BY LenProperties
<1> DEFINE rest == From(s \o t, Len(s) + 1)
<1>3. /\ rest \in Seq(T)
      /\ Len(rest) = Len(t)
      /\ \A i \in 1 .. Len(t) : rest[i] = (s \o t)[Len(s) + i]
  <2>1. \A i \in Len(s) + 1 .. Len(s) + Len(t) : (s \o t)[i] \in T
    BY <1>1, <1>2, LenProperties
  <2> QED
    BY <2>1, <1>1, <1>2, SubSeqProperties DEF From
<1> HIDE DEF rest
<1>4. rest = t
  BY <1>1, <1>3, SeqEqual
<1> QED
  BY <1>4 DEF rest

(* A command is a verb with an object. *)
LEMMA CommandsAre ==
    ASSUME NEW verb \in Verbs, NEW object \in Objects
    PROVE  <<verb, object>> \in Commands
BY DEF Commands

(***************************************************************************)
(* The scripts, step by step                                               *)
(***************************************************************************)

(* The commands of start_node_in_kfp_envelope, in their order. *)
LEMMA EnvelopeSteps ==
    /\ start_node_in_kfp_envelope \in Seq(Commands)
    /\ Len(start_node_in_kfp_envelope) = 3
    /\ Is(start_node_in_kfp_envelope[1], "trim", "kfp")
    /\ Is(start_node_in_kfp_envelope[2], "set_cap", "kfp")
    /\ Is(start_node_in_kfp_envelope[3], "node", "start")
<1>1. \A s \in {"trim", "set_cap", "node"}, o \in {"kfp", "start"} : <<s, o>> \in Commands
  BY CommandsAre DEF Verbs, Objects, Modes
<1>2. start_node_in_kfp_envelope \in Seq(Commands)
  BY <1>1, ShortSequences DEF start_node_in_kfp_envelope
<1> QED
  BY <1>2 DEF start_node_in_kfp_envelope, Is

(* The commands of kfp_down, in their order. *)
LEMMA KfpDownSteps ==
    /\ kfp_down \in Seq(Commands)
    /\ Len(kfp_down) = 4
    /\ Is(kfp_down[1], "cluster", "exists")
    /\ Is(kfp_down[2], "kfp", "delete")
    /\ Is(kfp_down[3], "kfp", "gone")
    /\ Is(kfp_down[4], "update_cap", "k8s")
<1>1. /\ <<"cluster", "exists">> \in Commands /\ <<"kfp", "delete">> \in Commands
      /\ <<"kfp", "gone">> \in Commands /\ <<"update_cap", "k8s">> \in Commands
  BY CommandsAre DEF Verbs, Objects, Modes
<1>2. kfp_down \in Seq(Commands)
  BY <1>1, ShortSequences DEF kfp_down
<1> QED
  BY <1>2 DEF kfp_down, Is

(* The commands of k8s_up, in their order. *)
LEMMA K8sUpSteps ==
    /\ k8s_up \in Seq(Commands)
    /\ Len(k8s_up) = 4
    /\ Is(k8s_up[1], "stop", "moved")
    /\ Is(k8s_up[2], "cluster", "create")
    /\ Is(k8s_up[3], "update_cap", "k8s")
    /\ Is(k8s_up[4], "up", "airflow")
<1>1. /\ <<"stop", "moved">> \in Commands /\ <<"cluster", "create">> \in Commands
      /\ <<"update_cap", "k8s">> \in Commands /\ <<"up", "airflow">> \in Commands
  BY CommandsAre DEF Verbs, Objects, Modes
<1>2. k8s_up \in Seq(Commands)
  BY <1>1, ShortSequences DEF k8s_up
<1> QED
  BY <1>2 DEF k8s_up, Is

(* The commands of to_compose, in their order. *)
LEMMA ComposeSteps ==
    /\ to_compose \in Seq(Commands)
    /\ Len(to_compose) = 3
    /\ Is(to_compose[1], "node", "stop")
    /\ Is(to_compose[2], "up", "compose")
    /\ Is(to_compose[3], "status", "any")
<1>1. /\ <<"node", "stop">> \in Commands /\ <<"up", "compose">> \in Commands
      /\ <<"status", "any">> \in Commands
  BY CommandsAre DEF Verbs, Objects, Modes
<1>2. to_compose \in Seq(Commands)
  BY <1>1, ShortSequences DEF to_compose
<1> QED
  BY <1>2 DEF to_compose, Is

(* The commands of to_scale, in their order. *)
LEMMA ScaleSteps ==
    /\ to_scale \in Seq(Commands)
    /\ Len(to_scale) = 4
    /\ Is(to_scale[1], "check", "k8s")
    /\ Is(to_scale[2], "set_cap", "scale")
    /\ Is(to_scale[3], "trim", "scale")
    /\ Is(to_scale[4], "status", "any")
<1>1. /\ <<"check", "k8s">> \in Commands /\ <<"set_cap", "scale">> \in Commands
      /\ <<"trim", "scale">> \in Commands /\ <<"status", "any">> \in Commands
  BY CommandsAre DEF Verbs, Objects, Modes
<1>2. to_scale \in Seq(Commands)
  BY <1>1, ShortSequences DEF to_scale
<1> QED
  BY <1>2 DEF to_scale, Is

(* The commands of the short scripts, in their order. *)
LEMMA ShortSteps ==
    /\ script["k8s"] \in Seq(Commands)
    /\ Len(script["k8s"]) = 1
    /\ Is(script["k8s"][1], "to_k8s", "k8s")
    /\ script["k8s_down"] \in Seq(Commands)
    /\ Len(script["k8s_down"]) = 2
    /\ Is(script["k8s_down"][1], "cluster", "delete")
    /\ Is(script["k8s_down"][2], "up", "handed_back")
    /\ script["kfp_up"] \in Seq(Commands)
    /\ Len(script["kfp_up"]) = 2
    /\ Is(script["kfp_up"][1], "check", "kfp")
    /\ Is(script["kfp_up"][2], "kfp", "install")
    /\ script["autoscaling_up"] \in Seq(Commands)
    /\ Len(script["autoscaling_up"]) = 2
    /\ Is(script["autoscaling_up"][1], "check", "scale")
    /\ Is(script["autoscaling_up"][2], "keda", "install")
    /\ script["autoscaling_down"] \in Seq(Commands)
    /\ Len(script["autoscaling_down"]) = 1
    /\ Is(script["autoscaling_down"][1], "keda", "delete")
<1>1. /\ <<"to_k8s", "k8s">> \in Commands
      /\ <<"cluster", "delete">> \in Commands /\ <<"up", "handed_back">> \in Commands
      /\ <<"check", "kfp">> \in Commands /\ <<"kfp", "install">> \in Commands
      /\ <<"check", "scale">> \in Commands /\ <<"keda", "install">> \in Commands
      /\ <<"keda", "delete">> \in Commands
  BY CommandsAre DEF Verbs, Objects, Modes
<1>2. /\ script["k8s"] = << <<"to_k8s", "k8s">> >>
      /\ script["k8s_down"] = << <<"cluster", "delete">>, <<"up", "handed_back">> >>
      /\ script["kfp_up"] = << <<"check", "kfp">>, <<"kfp", "install">> >>
      /\ script["autoscaling_up"] = << <<"check", "scale">>, <<"keda", "install">> >>
      /\ script["autoscaling_down"] = << <<"keda", "delete">> >>
  BY DEF script
<1>3. script["k8s"] \in Seq(Commands)
  BY <1>1, <1>2, ShortSequences
<1>4. script["autoscaling_down"] \in Seq(Commands)
  BY <1>1, <1>2, ShortSequences
<1>5. script["k8s_down"] \in Seq(Commands)
  BY <1>1, <1>2, ShortSequences
<1>6. script["kfp_up"] \in Seq(Commands)
  BY <1>1, <1>2, ShortSequences
<1>7. script["autoscaling_up"] \in Seq(Commands)
  BY <1>1, <1>2, ShortSequences
<1>8. /\ Len(script["k8s"]) = 1 /\ Is(script["k8s"][1], "to_k8s", "k8s")
      /\ Len(script["autoscaling_down"]) = 1 /\ Is(script["autoscaling_down"][1], "keda", "delete")
  BY DEF script, Is
<1>9. /\ Len(script["k8s_down"]) = 2
      /\ Is(script["k8s_down"][1], "cluster", "delete")
      /\ Is(script["k8s_down"][2], "up", "handed_back")
      /\ Len(script["kfp_up"]) = 2
      /\ Is(script["kfp_up"][1], "check", "kfp")
      /\ Is(script["kfp_up"][2], "kfp", "install")
  BY DEF script, Is
<1>10. /\ Len(script["autoscaling_up"]) = 2
      /\ Is(script["autoscaling_up"][1], "check", "scale")
      /\ Is(script["autoscaling_up"][2], "keda", "install")
  BY DEF script, Is
<1> QED
  BY <1>3, <1>4, <1>5, <1>6, <1>7, <1>8, <1>9, <1>10

(* The commands of to_kfp, in their order. *)
LEMMA KfpSteps ==
    /\ to_kfp \in Seq(Commands)
    /\ Len(to_kfp) = 6
    /\ Is(to_kfp[1], "cluster", "exists")
    /\ Is(to_kfp[2], "trim", "kfp")
    /\ Is(to_kfp[3], "set_cap", "kfp")
    /\ Is(to_kfp[4], "node", "start")
    /\ Is(to_kfp[5], "up", "kfp")
    /\ Is(to_kfp[6], "status", "any")
<1> DEFINE first == << <<"cluster", "exists">> >>
           envelope == start_node_in_kfp_envelope
           last == << <<"up", "kfp">>, <<"status", "any">> >>
<1>1. /\ <<"cluster", "exists">> \in Commands /\ <<"up", "kfp">> \in Commands
      /\ <<"status", "any">> \in Commands
  BY CommandsAre DEF Verbs, Objects, Modes
<1>2. first \in Seq(Commands) /\ Len(first) = 1 /\ Is(first[1], "cluster", "exists")
  <2>1. first \in Seq(Commands)
    BY <1>1, ShortSequences
  <2> QED
    BY <2>1 DEF Is
<1>3. /\ last \in Seq(Commands) /\ Len(last) = 2
      /\ Is(last[1], "up", "kfp") /\ Is(last[2], "status", "any")
  <2>1. last \in Seq(Commands)
    BY <1>1, ShortSequences
  <2> QED
    BY <2>1 DEF Is
<1> DEFINE firsts == first \o envelope
<1>4. to_kfp = firsts \o last
  BY DEF to_kfp
<1>5. Joins(firsts, first, envelope)
  BY <1>2, EnvelopeSteps, Concatenated
<1> HIDE DEF first, last, firsts
<1>6. /\ firsts \in Seq(Commands) /\ Len(firsts) = 4
      /\ Is(firsts[1], "cluster", "exists") /\ Is(firsts[2], "trim", "kfp")
      /\ Is(firsts[3], "set_cap", "kfp") /\ Is(firsts[4], "node", "start")
  BY <1>2, <1>5, EnvelopeSteps DEF Joins, Is
<1>7. Joins(to_kfp, firsts, last)
  BY <1>3, <1>4, <1>6, Concatenated
<1>8. Len(to_kfp) = 6
  BY <1>3, <1>6, <1>7 DEF Joins
<1>9. \A i \in 1 .. 4 : to_kfp[i] = firsts[i]
  BY <1>3, <1>6, <1>7 DEF Joins
<1>10. to_kfp[5] = last[1] /\ to_kfp[6] = last[2]
  BY <1>3, <1>6, <1>7 DEF Joins
<1>11. to_kfp \in Seq(Commands)
  BY <1>7 DEF Joins
<1> QED
  BY <1>3, <1>6, <1>8, <1>9, <1>10, <1>11

(* The commands of the way that creates the cluster, in their order. *)
LEMMA CreatingSteps ==
    /\ creating \in Seq(Commands)
    /\ Len(creating) = 5
    /\ Is(creating[1], "trim", "k8s")
    /\ Is(creating[2], "stop", "moved")
    /\ Is(creating[3], "cluster", "create")
    /\ Is(creating[4], "update_cap", "k8s")
    /\ Is(creating[5], "up", "airflow")
<1> DEFINE first == << <<"trim", "k8s">> >>
<1>1. <<"trim", "k8s">> \in Commands
  BY CommandsAre DEF Verbs, Objects, Modes
<1>2. first \in Seq(Commands) /\ Len(first) = 1 /\ Is(first[1], "trim", "k8s")
  <2>1. first \in Seq(Commands)
    BY <1>1, ShortSequences
  <2> QED
    BY <2>1 DEF Is
<1>3. creating = first \o k8s_up
  BY DEF creating
<1> HIDE DEF first
<1>4. Joins(creating, first, k8s_up)
  BY <1>2, <1>3, K8sUpSteps, Concatenated
<1> QED
  BY <1>2, <1>4, K8sUpSteps DEF Joins, Is

(* The commands of the last steps to k8s mode, in their order. *)
LEMMA FinishingSteps ==
    /\ finishing \in Seq(Commands)
    /\ Len(finishing) = 7
    /\ Is(finishing[1], "trim", "k8s")
    /\ Is(finishing[2], "up", "k8s")
    /\ Is(finishing[3], "stop", "moved")
    /\ Is(finishing[4], "cluster", "create")
    /\ Is(finishing[5], "update_cap", "k8s")
    /\ Is(finishing[6], "up", "airflow")
    /\ Is(finishing[7], "status", "any")
<1> DEFINE first == << <<"trim", "k8s">>, <<"up", "k8s">> >>
           last == << <<"status", "any">> >>
<1>1. /\ <<"trim", "k8s">> \in Commands /\ <<"up", "k8s">> \in Commands
      /\ <<"status", "any">> \in Commands
  BY CommandsAre DEF Verbs, Objects, Modes
<1>2. /\ first \in Seq(Commands) /\ Len(first) = 2
      /\ Is(first[1], "trim", "k8s") /\ Is(first[2], "up", "k8s")
  <2>1. first \in Seq(Commands)
    BY <1>1, ShortSequences
  <2> QED
    BY <2>1 DEF Is
<1>3. last \in Seq(Commands) /\ Len(last) = 1 /\ Is(last[1], "status", "any")
  <2>1. last \in Seq(Commands)
    BY <1>1, ShortSequences
  <2> QED
    BY <2>1 DEF Is
<1> DEFINE firsts == first \o k8s_up
<1>4. finishing = firsts \o last
  BY DEF finishing
<1>5. Joins(firsts, first, k8s_up)
  BY <1>2, K8sUpSteps, Concatenated
<1> HIDE DEF first, last, firsts
<1>6. /\ firsts \in Seq(Commands) /\ Len(firsts) = 6
      /\ Is(firsts[1], "trim", "k8s") /\ Is(firsts[2], "up", "k8s")
      /\ Is(firsts[3], "stop", "moved") /\ Is(firsts[4], "cluster", "create")
      /\ Is(firsts[5], "update_cap", "k8s") /\ Is(firsts[6], "up", "airflow")
  BY <1>2, <1>5, K8sUpSteps DEF Joins, Is
<1>7. Joins(finishing, firsts, last)
  BY <1>3, <1>4, <1>6, Concatenated
<1> QED
  BY <1>3, <1>6, <1>7 DEF Joins, Is

(* The commands of the way from scale mode to k8s mode, in their order. *)
LEMMA LeavingScaleSteps ==
    /\ leaving_scale \in Seq(Commands)
    /\ Len(leaving_scale) = 8
    /\ Is(leaving_scale[1], "set_cap", "k8s")
    /\ From(leaving_scale, 2) = finishing
<1> DEFINE first == << <<"set_cap", "k8s">> >>
<1>1. <<"set_cap", "k8s">> \in Commands
  BY CommandsAre DEF Verbs, Objects, Modes
<1>2. first \in Seq(Commands) /\ Len(first) = 1 /\ Is(first[1], "set_cap", "k8s")
  <2>1. first \in Seq(Commands)
    BY <1>1, ShortSequences
  <2> QED
    BY <2>1 DEF Is
<1>3. leaving_scale = first \o finishing
  BY DEF leaving_scale
<1> HIDE DEF first
<1>4. From(leaving_scale, Len(first) + 1) = finishing
  BY <1>2, <1>3, FinishingSteps, SecondHalf
<1>5. Joins(leaving_scale, first, finishing)
  BY <1>2, <1>3, FinishingSteps, Concatenated
<1>6. From(leaving_scale, 2) = finishing
  BY <1>2, <1>4
<1> QED
  BY <1>2, <1>5, <1>6, FinishingSteps DEF Joins, Is

(* The commands of the way from a stopped node to k8s mode, in their order. *)
LEMMA ThroughKfpSteps ==
    /\ through_kfp \in Seq(Commands)
    /\ Len(through_kfp) = 11
    /\ Is(through_kfp[1], "trim", "kfp")
    /\ Is(through_kfp[2], "set_cap", "kfp")
    /\ Is(through_kfp[3], "node", "start")
    /\ Is(through_kfp[4], "leave", "kfp")
    /\ From(through_kfp, 5) = finishing
<1> DEFINE last == << <<"leave", "kfp">> >>
           first == start_node_in_kfp_envelope \o last
<1>1. <<"leave", "kfp">> \in Commands
  BY CommandsAre DEF Verbs, Objects, Modes
<1>2. last \in Seq(Commands) /\ Len(last) = 1 /\ Is(last[1], "leave", "kfp")
  <2>1. last \in Seq(Commands)
    BY <1>1, ShortSequences
  <2> QED
    BY <2>1 DEF Is
<1>3. through_kfp = first \o finishing
  BY DEF through_kfp
<1>4. Joins(first, start_node_in_kfp_envelope, last)
  BY <1>2, EnvelopeSteps, Concatenated
<1> HIDE DEF last, first
<1>5. /\ first \in Seq(Commands) /\ Len(first) = 4
      /\ Is(first[1], "trim", "kfp") /\ Is(first[2], "set_cap", "kfp")
      /\ Is(first[3], "node", "start") /\ Is(first[4], "leave", "kfp")
  BY <1>2, <1>4, EnvelopeSteps DEF Joins, Is
<1>6. From(through_kfp, Len(first) + 1) = finishing
  BY <1>3, <1>5, FinishingSteps, SecondHalf
<1>7. Joins(through_kfp, first, finishing)
  BY <1>3, <1>5, FinishingSteps, Concatenated
<1>8. From(through_kfp, 5) = finishing
  BY <1>5, <1>6
<1> QED
  BY <1>5, <1>7, <1>8, FinishingSteps DEF Joins, Is

(* The commands of the way from kfp mode to k8s mode, in their order. *)
LEMMA LeavingKfpSteps ==
    /\ leaving_kfp \in Seq(Commands)
    /\ Len(leaving_kfp) = 11
    /\ Is(leaving_kfp[1], "cluster", "exists")
    /\ Is(leaving_kfp[2], "kfp", "delete")
    /\ Is(leaving_kfp[3], "kfp", "gone")
    /\ Is(leaving_kfp[4], "update_cap", "k8s")
    /\ From(leaving_kfp, 5) = finishing
<1>1. leaving_kfp = kfp_down \o finishing
  BY DEF leaving_kfp
<1>2. From(leaving_kfp, Len(kfp_down) + 1) = finishing
  BY <1>1, KfpDownSteps, FinishingSteps, SecondHalf
<1>3. Joins(leaving_kfp, kfp_down, finishing)
  BY <1>1, KfpDownSteps, FinishingSteps, Concatenated
<1>4. From(leaving_kfp, 5) = finishing
  BY <1>2, KfpDownSteps
<1> QED
  BY <1>3, <1>4, KfpDownSteps, FinishingSteps DEF Joins, Is

(* None of the scripts, and of the ways of to_k8s, is empty. *)
LEMMA NotEmpty ==
    /\ to_compose # <<>>
    /\ to_kfp # <<>>
    /\ to_scale # <<>>
    /\ k8s_up # <<>>
    /\ kfp_down # <<>>
    /\ creating # <<>>
    /\ finishing # <<>>
    /\ leaving_scale # <<>>
    /\ through_kfp # <<>>
    /\ leaving_kfp # <<>>
    /\ script["k8s"] # <<>> /\ script["k8s_down"] # <<>> /\ script["kfp_up"] # <<>>
    /\ script["autoscaling_up"] # <<>> /\ script["autoscaling_down"] # <<>>
<1>1. to_compose # <<>>
  <2>1. Len(to_compose) = 3
    BY ComposeSteps
  <2> QED
    BY <2>1
<1>2. to_kfp # <<>>
  <2>1. Len(to_kfp) = 6
    BY KfpSteps
  <2> QED
    BY <2>1
<1>3. to_scale # <<>>
  <2>1. Len(to_scale) = 4
    BY ScaleSteps
  <2> QED
    BY <2>1
<1>4. k8s_up # <<>>
  <2>1. Len(k8s_up) = 4
    BY K8sUpSteps
  <2> QED
    BY <2>1
<1>5. kfp_down # <<>>
  <2>1. Len(kfp_down) = 4
    BY KfpDownSteps
  <2> QED
    BY <2>1
<1>6. creating # <<>>
  <2>1. Len(creating) = 5
    BY CreatingSteps
  <2> QED
    BY <2>1
<1>7. finishing # <<>>
  <2>1. Len(finishing) = 7
    BY FinishingSteps
  <2> QED
    BY <2>1
<1>8. leaving_scale # <<>>
  <2>1. Len(leaving_scale) = 8
    BY LeavingScaleSteps
  <2> QED
    BY <2>1
<1>9. through_kfp # <<>>
  <2>1. Len(through_kfp) = 11
    BY ThroughKfpSteps
  <2> QED
    BY <2>1
<1>10. leaving_kfp # <<>>
  <2>1. Len(leaving_kfp) = 11
    BY LeavingKfpSteps
  <2> QED
    BY <2>1
<1>11. script["k8s"] # <<>>
  <2>1. Len(script["k8s"]) = 1
    BY ShortSteps
  <2> QED
    BY <2>1
<1>12. script["k8s_down"] # <<>>
  <2>1. Len(script["k8s_down"]) = 2
    BY ShortSteps
  <2> QED
    BY <2>1
<1>13. script["kfp_up"] # <<>>
  <2>1. Len(script["kfp_up"]) = 2
    BY ShortSteps
  <2> QED
    BY <2>1
<1>14. script["autoscaling_up"] # <<>>
  <2>1. Len(script["autoscaling_up"]) = 2
    BY ShortSteps
  <2> QED
    BY <2>1
<1>15. script["autoscaling_down"] # <<>>
  <2>1. Len(script["autoscaling_down"]) = 1
    BY ShortSteps
  <2> QED
    BY <2>1
<1> QED
  BY <1>1, <1>2, <1>3, <1>4, <1>5, <1>6, <1>7, <1>8, <1>9,
     <1>10, <1>11, <1>12, <1>13, <1>14, <1>15

-----------------------------------------------------------------------------
(***************************************************************************)
(* What the step at the head needs is there                                *)
(***************************************************************************)

(* The envelopes of the modes, group by group. *)
LEMMA Envelopes ==
    /\ Services = {"keep", "airflow", "moved", "rest"}
    /\ allowed["compose"] = Services
    /\ allowed["k8s"] = {"keep", "airflow", "rest"}
    /\ allowed["scale"] = {"keep", "rest"}
    /\ allowed["kfp"] = {"keep"}
    /\ Started("airflow") = {"airflow"}
    /\ Started("handed_back") = {"airflow", "moved"}
    /\ \A mode \in Modes : Started(mode) = allowed[mode]
BY DEF Services, allowed, Started, Modes

(* The memory caps of the modes. *)
LEMMA Caps == cap_for["k8s"] = 6 /\ cap_for["scale"] = 11 /\ cap_for["kfp"] = 12
              /\ DOMAIN cap_for = {"k8s", "scale", "kfp"}
BY DEF cap_for


(* The place of a script determines the step at the head and what follows it. *)
LEMMA Place ==
    ASSUME NEW s \in Seq(Commands), NEW mode, NEW i, On(mode, s, i)
    PROVE  /\ steps # <<>>
           /\ i \in 1 .. Len(s)
           /\ Head(steps) = s[i]
           /\ Verb = s[i][1] /\ Object = s[i][2]
           /\ i < Len(s) => Tail(steps) = From(s, i + 1)
           /\ i = Len(s) => Tail(steps) = <<>>
<1>1. /\ From(s, i) # <<>> /\ Head(From(s, i)) = s[i] /\ Tail(From(s, i)) = From(s, i + 1)
  BY OneStepOn DEF On
<1>2. From(s, Len(s) + 1) = <<>>
  BY WholeAndNothing
<1> QED
  BY <1>1, <1>2 DEF On, Verb, Object

(* The head of every script at every place, as far as it is run from its table. *)
Here(verb, object) == Verb = verb /\ Object = object
(* The command at the head at each place of to_compose, and what follows it. *)
LEMMA ComposePlace ==
    ASSUME NEW i, OnCompose(i)
    PROVE  /\ steps # <<>>
           /\ i \in 1 .. 3
           /\ i = 1 => Here("node", "stop")
           /\ i = 2 => Here("up", "compose")
           /\ i = 3 => Here("status", "any")
           /\ i < 3 => Tail(steps) = From(to_compose, i + 1)
           /\ i = 3 => Tail(steps) = <<>>
<1>1. to_compose \in Seq(Commands)
  BY ComposeSteps
<1>2. On("compose", to_compose, i)
  BY DEF OnCompose
<1>3. /\ steps # <<>>
      /\ i \in 1 .. Len(to_compose)
      /\ Verb = to_compose[i][1] /\ Object = to_compose[i][2]
      /\ i < Len(to_compose) => Tail(steps) = From(to_compose, i + 1)
      /\ i = Len(to_compose) => Tail(steps) = <<>>
  BY <1>1, <1>2, Place
<1> QED
  BY <1>3, ComposeSteps DEF Is, Here

(* The command at the head at each place of to_kfp, and what follows it. *)
LEMMA KfpPlace ==
    ASSUME NEW i, OnKfp(i)
    PROVE  /\ steps # <<>>
           /\ i \in 1 .. 6
           /\ i = 1 => Here("cluster", "exists")
           /\ i = 2 => Here("trim", "kfp")
           /\ i = 3 => Here("set_cap", "kfp")
           /\ i = 4 => Here("node", "start")
           /\ i = 5 => Here("up", "kfp")
           /\ i = 6 => Here("status", "any")
           /\ i < 6 => Tail(steps) = From(to_kfp, i + 1)
           /\ i = 6 => Tail(steps) = <<>>
<1>1. to_kfp \in Seq(Commands)
  BY KfpSteps
<1>2. On("kfp", to_kfp, i)
  BY DEF OnKfp
<1>3. /\ steps # <<>>
      /\ i \in 1 .. Len(to_kfp)
      /\ Verb = to_kfp[i][1] /\ Object = to_kfp[i][2]
      /\ i < Len(to_kfp) => Tail(steps) = From(to_kfp, i + 1)
      /\ i = Len(to_kfp) => Tail(steps) = <<>>
  BY <1>1, <1>2, Place
<1> QED
  BY <1>3, KfpSteps DEF Is, Here

(* The command at the head at each place of to_scale, and what follows it. *)
LEMMA ScalePlace ==
    ASSUME NEW i, OnScale(i)
    PROVE  /\ steps # <<>>
           /\ i \in 1 .. 4
           /\ i = 1 => Here("check", "k8s")
           /\ i = 2 => Here("set_cap", "scale")
           /\ i = 3 => Here("trim", "scale")
           /\ i = 4 => Here("status", "any")
           /\ i < 4 => Tail(steps) = From(to_scale, i + 1)
           /\ i = 4 => Tail(steps) = <<>>
<1>1. to_scale \in Seq(Commands)
  BY ScaleSteps
<1>2. On("scale", to_scale, i)
  BY DEF OnScale
<1>3. /\ steps # <<>>
      /\ i \in 1 .. Len(to_scale)
      /\ Verb = to_scale[i][1] /\ Object = to_scale[i][2]
      /\ i < Len(to_scale) => Tail(steps) = From(to_scale, i + 1)
      /\ i = Len(to_scale) => Tail(steps) = <<>>
  BY <1>1, <1>2, Place
<1> QED
  BY <1>3, ScaleSteps DEF Is, Here

(* The command at the head at each place of to_k8s, and what follows it. *)
LEMMA K8sPlace ==
    ASSUME NEW i, OnK8s(i)
    PROVE  /\ steps # <<>>
           /\ i \in 1 .. 1
           /\ i = 1 => Here("to_k8s", "k8s")
           /\ i = 1 => Tail(steps) = <<>>
<1>1. script["k8s"] \in Seq(Commands)
  BY ShortSteps
<1>2. On("k8s", script["k8s"], i)
  BY DEF OnK8s
<1>3. /\ steps # <<>>
      /\ i \in 1 .. Len(script["k8s"])
      /\ Verb = script["k8s"][i][1] /\ Object = script["k8s"][i][2]
      /\ i < Len(script["k8s"]) => Tail(steps) = From(script["k8s"], i + 1)
      /\ i = Len(script["k8s"]) => Tail(steps) = <<>>
  BY <1>1, <1>2, Place
<1> QED
  BY <1>3, ShortSteps DEF Is, Here

(* The command at the head at each place of k8s_up, and what follows it. *)
LEMMA K8sUpPlace ==
    ASSUME NEW i, OnK8sUp(i)
    PROVE  /\ steps # <<>>
           /\ i \in 1 .. 4
           /\ i = 1 => Here("stop", "moved")
           /\ i = 2 => Here("cluster", "create")
           /\ i = 3 => Here("update_cap", "k8s")
           /\ i = 4 => Here("up", "airflow")
           /\ i < 4 => Tail(steps) = From(k8s_up, i + 1)
           /\ i = 4 => Tail(steps) = <<>>
<1>1. k8s_up \in Seq(Commands)
  BY K8sUpSteps
<1>2. On("none", k8s_up, i)
  BY DEF OnK8sUp
<1>3. /\ steps # <<>>
      /\ i \in 1 .. Len(k8s_up)
      /\ Verb = k8s_up[i][1] /\ Object = k8s_up[i][2]
      /\ i < Len(k8s_up) => Tail(steps) = From(k8s_up, i + 1)
      /\ i = Len(k8s_up) => Tail(steps) = <<>>
  BY <1>1, <1>2, Place
<1> QED
  BY <1>3, K8sUpSteps DEF Is, Here

(* The command at the head at each place of k8s_down, and what follows it. *)
LEMMA K8sDownPlace ==
    ASSUME NEW i, OnK8sDown(i)
    PROVE  /\ steps # <<>>
           /\ i \in 1 .. 2
           /\ i = 1 => Here("cluster", "delete")
           /\ i = 2 => Here("up", "handed_back")
           /\ i < 2 => Tail(steps) = From(script["k8s_down"], i + 1)
           /\ i = 2 => Tail(steps) = <<>>
<1>1. script["k8s_down"] \in Seq(Commands)
  BY ShortSteps
<1>2. On("none", script["k8s_down"], i)
  BY DEF OnK8sDown
<1>3. /\ steps # <<>>
      /\ i \in 1 .. Len(script["k8s_down"])
      /\ Verb = script["k8s_down"][i][1] /\ Object = script["k8s_down"][i][2]
      /\ i < Len(script["k8s_down"]) => Tail(steps) = From(script["k8s_down"], i + 1)
      /\ i = Len(script["k8s_down"]) => Tail(steps) = <<>>
  BY <1>1, <1>2, Place
<1> QED
  BY <1>3, ShortSteps DEF Is, Here

(* The command at the head at each place of kfp_up, and what follows it. *)
LEMMA KfpUpPlace ==
    ASSUME NEW i, OnKfpUp(i)
    PROVE  /\ steps # <<>>
           /\ i \in 1 .. 2
           /\ i = 1 => Here("check", "kfp")
           /\ i = 2 => Here("kfp", "install")
           /\ i < 2 => Tail(steps) = From(script["kfp_up"], i + 1)
           /\ i = 2 => Tail(steps) = <<>>
<1>1. script["kfp_up"] \in Seq(Commands)
  BY ShortSteps
<1>2. On("none", script["kfp_up"], i)
  BY DEF OnKfpUp
<1>3. /\ steps # <<>>
      /\ i \in 1 .. Len(script["kfp_up"])
      /\ Verb = script["kfp_up"][i][1] /\ Object = script["kfp_up"][i][2]
      /\ i < Len(script["kfp_up"]) => Tail(steps) = From(script["kfp_up"], i + 1)
      /\ i = Len(script["kfp_up"]) => Tail(steps) = <<>>
  BY <1>1, <1>2, Place
<1> QED
  BY <1>3, ShortSteps DEF Is, Here

(* The command at the head at each place of kfp_down, and what follows it. *)
LEMMA KfpDownPlace ==
    ASSUME NEW i, OnKfpDown(i)
    PROVE  /\ steps # <<>>
           /\ i \in 1 .. 4
           /\ i = 1 => Here("cluster", "exists")
           /\ i = 2 => Here("kfp", "delete")
           /\ i = 3 => Here("kfp", "gone")
           /\ i = 4 => Here("update_cap", "k8s")
           /\ i < 4 => Tail(steps) = From(kfp_down, i + 1)
           /\ i = 4 => Tail(steps) = <<>>
<1>1. kfp_down \in Seq(Commands)
  BY KfpDownSteps
<1>2. On("none", kfp_down, i)
  BY DEF OnKfpDown
<1>3. /\ steps # <<>>
      /\ i \in 1 .. Len(kfp_down)
      /\ Verb = kfp_down[i][1] /\ Object = kfp_down[i][2]
      /\ i < Len(kfp_down) => Tail(steps) = From(kfp_down, i + 1)
      /\ i = Len(kfp_down) => Tail(steps) = <<>>
  BY <1>1, <1>2, Place
<1> QED
  BY <1>3, KfpDownSteps DEF Is, Here

(* The command at the head at each place of autoscaling_up, and what follows it. *)
LEMMA AutoscalingUpPlace ==
    ASSUME NEW i, OnAutoscalingUp(i)
    PROVE  /\ steps # <<>>
           /\ i \in 1 .. 2
           /\ i = 1 => Here("check", "scale")
           /\ i = 2 => Here("keda", "install")
           /\ i < 2 => Tail(steps) = From(script["autoscaling_up"], i + 1)
           /\ i = 2 => Tail(steps) = <<>>
<1>1. script["autoscaling_up"] \in Seq(Commands)
  BY ShortSteps
<1>2. On("none", script["autoscaling_up"], i)
  BY DEF OnAutoscalingUp
<1>3. /\ steps # <<>>
      /\ i \in 1 .. Len(script["autoscaling_up"])
      /\ Verb = script["autoscaling_up"][i][1] /\ Object = script["autoscaling_up"][i][2]
      /\ i < Len(script["autoscaling_up"]) => Tail(steps) = From(script["autoscaling_up"], i + 1)
      /\ i = Len(script["autoscaling_up"]) => Tail(steps) = <<>>
  BY <1>1, <1>2, Place
<1> QED
  BY <1>3, ShortSteps DEF Is, Here

(* The command at the head at each place of autoscaling_down, and what follows it. *)
LEMMA AutoscalingDownPlace ==
    ASSUME NEW i, OnAutoscalingDown(i)
    PROVE  /\ steps # <<>>
           /\ i \in 1 .. 1
           /\ i = 1 => Here("keda", "delete")
           /\ i = 1 => Tail(steps) = <<>>
<1>1. script["autoscaling_down"] \in Seq(Commands)
  BY ShortSteps
<1>2. On("none", script["autoscaling_down"], i)
  BY DEF OnAutoscalingDown
<1>3. /\ steps # <<>>
      /\ i \in 1 .. Len(script["autoscaling_down"])
      /\ Verb = script["autoscaling_down"][i][1] /\ Object = script["autoscaling_down"][i][2]
      /\ i < Len(script["autoscaling_down"]) => Tail(steps) = From(script["autoscaling_down"], i + 1)
      /\ i = Len(script["autoscaling_down"]) => Tail(steps) = <<>>
  BY <1>1, <1>2, Place
<1> QED
  BY <1>3, ShortSteps DEF Is, Here

(* The command at the head at each place of the way that creates the cluster, and what follows it. *)
LEMMA CreatingPlace ==
    ASSUME NEW i, OnCreating(i)
    PROVE  /\ steps # <<>>
           /\ i \in 1 .. 5
           /\ i = 1 => Here("trim", "k8s")
           /\ i = 2 => Here("stop", "moved")
           /\ i = 3 => Here("cluster", "create")
           /\ i = 4 => Here("update_cap", "k8s")
           /\ i = 5 => Here("up", "airflow")
           /\ i < 5 => Tail(steps) = From(creating, i + 1)
           /\ i = 5 => Tail(steps) = <<>>
<1>1. creating \in Seq(Commands)
  BY CreatingSteps
<1>2. On("k8s", creating, i)
  BY DEF OnCreating
<1>3. /\ steps # <<>>
      /\ i \in 1 .. Len(creating)
      /\ Verb = creating[i][1] /\ Object = creating[i][2]
      /\ i < Len(creating) => Tail(steps) = From(creating, i + 1)
      /\ i = Len(creating) => Tail(steps) = <<>>
  BY <1>1, <1>2, Place
<1> QED
  BY <1>3, CreatingSteps DEF Is, Here

(* The command at the head at each place of the last steps to k8s mode, and what follows it. *)
LEMMA FinishingPlace ==
    ASSUME NEW i, OnFinishing(i)
    PROVE  /\ steps # <<>>
           /\ i \in 1 .. 7
           /\ i = 1 => Here("trim", "k8s")
           /\ i = 2 => Here("up", "k8s")
           /\ i = 3 => Here("stop", "moved")
           /\ i = 4 => Here("cluster", "create")
           /\ i = 5 => Here("update_cap", "k8s")
           /\ i = 6 => Here("up", "airflow")
           /\ i = 7 => Here("status", "any")
           /\ i < 7 => Tail(steps) = From(finishing, i + 1)
           /\ i = 7 => Tail(steps) = <<>>
<1>1. finishing \in Seq(Commands)
  BY FinishingSteps
<1>2. On("k8s", finishing, i)
  BY DEF OnFinishing
<1>3. /\ steps # <<>>
      /\ i \in 1 .. Len(finishing)
      /\ Verb = finishing[i][1] /\ Object = finishing[i][2]
      /\ i < Len(finishing) => Tail(steps) = From(finishing, i + 1)
      /\ i = Len(finishing) => Tail(steps) = <<>>
  BY <1>1, <1>2, Place
<1> QED
  BY <1>3, FinishingSteps DEF Is, Here

(* The command at the head at each place of the way from scale mode to k8s mode, and what follows it. *)
LEMMA LeavingScalePlace ==
    ASSUME NEW i, OnLeavingScale(i)
    PROVE  /\ steps # <<>>
           /\ i \in 1 .. 1
           /\ i = 1 => Here("set_cap", "k8s")
           /\ i = 1 => Tail(steps) = finishing
<1>1. leaving_scale \in Seq(Commands)
  BY LeavingScaleSteps
<1>2. On("k8s", leaving_scale, i)
  BY DEF OnLeavingScale
<1>3. /\ steps # <<>>
      /\ i \in 1 .. Len(leaving_scale)
      /\ Verb = leaving_scale[i][1] /\ Object = leaving_scale[i][2]
      /\ i < Len(leaving_scale) => Tail(steps) = From(leaving_scale, i + 1)
      /\ i = Len(leaving_scale) => Tail(steps) = <<>>
  BY <1>1, <1>2, Place
<1> QED
  BY <1>3, LeavingScaleSteps DEF Is, Here, OnLeavingScale

(* The command at the head at each place of the way from a stopped node to k8s mode, and what follows it. *)
LEMMA ThroughKfpPlace ==
    ASSUME NEW i, OnThroughKfp(i)
    PROVE  /\ steps # <<>>
           /\ i \in 1 .. 4
           /\ i = 1 => Here("trim", "kfp")
           /\ i = 2 => Here("set_cap", "kfp")
           /\ i = 3 => Here("node", "start")
           /\ i = 4 => Here("leave", "kfp")
           /\ i < 4 => Tail(steps) = From(through_kfp, i + 1)
           /\ i = 4 => Tail(steps) = finishing
<1>1. through_kfp \in Seq(Commands)
  BY ThroughKfpSteps
<1>2. On("k8s", through_kfp, i)
  BY DEF OnThroughKfp
<1>3. /\ steps # <<>>
      /\ i \in 1 .. Len(through_kfp)
      /\ Verb = through_kfp[i][1] /\ Object = through_kfp[i][2]
      /\ i < Len(through_kfp) => Tail(steps) = From(through_kfp, i + 1)
      /\ i = Len(through_kfp) => Tail(steps) = <<>>
  BY <1>1, <1>2, Place
<1> QED
  BY <1>3, ThroughKfpSteps DEF Is, Here, OnThroughKfp

(* The command at the head at each place of the way from kfp mode to k8s mode, and what follows it. *)
LEMMA LeavingKfpPlace ==
    ASSUME NEW i, OnLeavingKfp(i)
    PROVE  /\ steps # <<>>
           /\ i \in 1 .. 4
           /\ i = 1 => Here("cluster", "exists")
           /\ i = 2 => Here("kfp", "delete")
           /\ i = 3 => Here("kfp", "gone")
           /\ i = 4 => Here("update_cap", "k8s")
           /\ i < 4 => Tail(steps) = From(leaving_kfp, i + 1)
           /\ i = 4 => Tail(steps) = finishing
<1>1. leaving_kfp \in Seq(Commands)
  BY LeavingKfpSteps
<1>2. On("k8s", leaving_kfp, i)
  BY DEF OnLeavingKfp
<1>3. /\ steps # <<>>
      /\ i \in 1 .. Len(leaving_kfp)
      /\ Verb = leaving_kfp[i][1] /\ Object = leaving_kfp[i][2]
      /\ i < Len(leaving_kfp) => Tail(steps) = From(leaving_kfp, i + 1)
      /\ i = Len(leaving_kfp) => Tail(steps) = <<>>
  BY <1>1, <1>2, Place
<1> QED
  BY <1>3, LeavingKfpSteps DEF Is, Here, OnLeavingKfp


(* Wherever a script is, what its next step needs is there. *)
LEMMA Prepared ==
    ASSUME Inv, steps # <<>>
    PROVE  Needs /\ exit = "running"
<1>1. PICK i \in 1 .. 11 : Somewhere(i)
  BY DEF Inv, Progress, Idle
<1>2. exit = "running"
  BY <1>1 DEF Somewhere, OnCompose, OnKfp, OnScale, OnK8s, OnCreating, OnFinishing,
              OnLeavingScale, OnThroughKfp, OnLeavingKfp, OnK8sUp, OnK8sDown, OnKfpUp,
              OnKfpDown, OnAutoscalingUp, OnAutoscalingDown, On
<1>3. Needs
  <2>1. CASE OnCompose(i)
    BY <2>1, ComposePlace DEF Here, Needs, OnCompose
  <2>2. CASE OnKfp(i)
    BY <2>2, KfpPlace, Envelopes DEF Here, Needs, OnKfp, Modes
  <2>3. CASE OnScale(i)
    BY <2>3, ScalePlace DEF Here, Needs, OnScale, Plain
  <2>4. CASE OnK8s(i)
    BY <2>4, K8sPlace DEF Here, Needs, OnK8s
  <2>5. CASE OnCreating(i)
    BY <2>5, CreatingPlace, Envelopes DEF Here, Needs, OnCreating, Plain, Trimmed, Safe, NoCluster, Modes, Inv
  <2>6. CASE OnFinishing(i)
    BY <2>6, FinishingPlace, Envelopes DEF Here, Needs, OnFinishing, Plain, Trimmed, Modes
  <2>7. CASE OnLeavingScale(i)
    BY <2>7, LeavingScalePlace DEF Here, Needs, OnLeavingScale, Plain
  <2>8. CASE OnThroughKfp(i)
    BY <2>8, ThroughKfpPlace DEF Here, Needs, OnThroughKfp
  <2>9. CASE OnLeavingKfp(i)
    BY <2>9, LeavingKfpPlace DEF Here, Needs, OnLeavingKfp
  <2>10. CASE OnK8sUp(i)
    BY <2>10, K8sUpPlace, Envelopes DEF Here, Needs, OnK8sUp, Plain, Modes
  <2>11. CASE OnK8sDown(i)
    BY <2>11, K8sDownPlace DEF Here, Needs, OnK8sDown
  <2>12. CASE OnKfpUp(i)
    BY <2>12, KfpUpPlace DEF Here, Needs, OnKfpUp
  <2>13. CASE OnKfpDown(i)
    BY <2>13, KfpDownPlace DEF Here, Needs, OnKfpDown
  <2>14. CASE OnAutoscalingUp(i)
    BY <2>14, AutoscalingUpPlace DEF Here, Needs, OnAutoscalingUp
  <2>15. CASE OnAutoscalingDown(i)
    BY <2>15, AutoscalingDownPlace DEF Here, Needs, OnAutoscalingDown
  <2> QED
    BY <1>1, <2>1, <2>2, <2>3, <2>4, <2>5, <2>6, <2>7, <2>8, <2>9, <2>10, <2>11, <2>12, <2>13, <2>14, <2>15
       DEF Somewhere
<1> QED
  BY <1>2, <1>3

(* The scripts start known groups of services. *)
LEMMA UpObjects ==
    ASSUME Inv, steps # <<>>, Verb = "up"
    PROVE  Object \in Modes \cup {"airflow", "handed_back"}
<1>1. PICK i \in 1 .. 11 : Somewhere(i)
  BY DEF Inv, Progress, Idle
<1>2. CASE OnCompose(i)
  BY <1>2, ComposePlace DEF Here, Modes
<1>3. CASE OnKfp(i)
  BY <1>3, KfpPlace DEF Here, Modes
<1>4. CASE OnScale(i)
  BY <1>4, ScalePlace DEF Here, Modes
<1>5. CASE OnK8s(i)
  BY <1>5, K8sPlace DEF Here, Modes
<1>6. CASE OnCreating(i)
  BY <1>6, CreatingPlace DEF Here, Modes
<1>7. CASE OnFinishing(i)
  BY <1>7, FinishingPlace DEF Here, Modes
<1>8. CASE OnLeavingScale(i)
  BY <1>8, LeavingScalePlace DEF Here, Modes
<1>9. CASE OnThroughKfp(i)
  BY <1>9, ThroughKfpPlace DEF Here, Modes
<1>10. CASE OnLeavingKfp(i)
  BY <1>10, LeavingKfpPlace DEF Here, Modes
<1>11. CASE OnK8sUp(i)
  BY <1>11, K8sUpPlace DEF Here, Modes
<1>12. CASE OnK8sDown(i)
  BY <1>12, K8sDownPlace DEF Here, Modes
<1>13. CASE OnKfpUp(i)
  BY <1>13, KfpUpPlace DEF Here, Modes
<1>14. CASE OnKfpDown(i)
  BY <1>14, KfpDownPlace DEF Here, Modes
<1>15. CASE OnAutoscalingUp(i)
  BY <1>15, AutoscalingUpPlace DEF Here, Modes
<1>16. CASE OnAutoscalingDown(i)
  BY <1>16, AutoscalingDownPlace DEF Here, Modes
<1> QED
  BY <1>1, <1>2, <1>3, <1>4, <1>5, <1>6, <1>7, <1>8, <1>9, <1>10, <1>11, <1>12, <1>13, <1>14, <1>15, <1>16
     DEF Somewhere

-----------------------------------------------------------------------------
(***************************************************************************)
(* No step leaves the safe states                                          *)
(***************************************************************************)

(* A step belongs to the command at the head. *)
LEMMA Command ==
    ASSUME NEW verb, NEW object, At(<<verb, object>>)
    PROVE  steps # <<>> /\ Verb = verb /\ Object = object
BY DEF At, Verb, Object

(* However a script goes on or ends, the exit status has a value of its range. *)
LEMMA ExitTypes ==
    ASSUME Types, NEW rest, NEW condition \in BOOLEAN,
           Goto(rest) \/ Continue \/ Fail \/ Proceed(condition)
    PROVE  exit' \in {"running", "ok", "failed"}
BY DEF Types, Goto, Continue, Fail, Proceed

(* Fewer services next to the same cluster are as safe as before. *)
LEMMA FewerServices ==
    ASSUME Safe, UNCHANGED cluster, compose' \subseteq compose,
           swallowed # "no" => swallowed' # "no", Types'
    PROVE  Safe'
BY DEF Safe, NoCluster, KfpHasRoom, NeverTogether, cluster

(* Next to the kfp set alone, the cap decides. *)
LEMMA KfpSetSafe ==
    ASSUME Safe, UNCHANGED cluster, compose' \subseteq allowed["kfp"], Types'
    PROVE  Safe'
BY Envelopes DEF Safe, NoCluster, KfpHasRoom, NeverTogether, cluster

(* Stopping services brings nothing together that was apart, and what trim_compose *)
(* takes off the record has been repaired.                                         *)
LEMMA TrimSafe ==
    ASSUME Inv, Trim
    PROVE  Safe'
<1>1. PICK mode \in Modes :
          /\ \E extra \in Extra(mode) : compose' = compose \ extra
          /\ swallowed' = CASE ~(compose' \subseteq allowed[mode]) -> "now"
                            [] mode = "kfp" /\ compose' \subseteq allowed["kfp"] -> "no"
                            [] OTHER -> swallowed
  BY DEF Trim
<1>2. compose' \subseteq compose /\ UNCHANGED <<cluster, asked, interrupted>> /\ Continue
  BY <1>1 DEF Trim
<1>3. \/ swallowed' = "now"
      \/ swallowed' = "no" /\ compose' \subseteq allowed["kfp"]
      \/ swallowed' = swallowed
  BY <1>1
<1>4. Types'
  BY <1>2, <1>3 DEF Inv, Safe, Types, cluster, Continue, Goto
<1>5. CASE swallowed' = "no" /\ compose' \subseteq allowed["kfp"]
  BY <1>2, <1>4, <1>5, KfpSetSafe DEF Inv
<1>6. CASE swallowed' = "now" \/ swallowed' = swallowed
  BY <1>2, <1>4, <1>6, FewerServices DEF Inv
<1> QED
  BY <1>3, <1>5, <1>6

(* Stopping the moved services, or failing to and going on, is safe. *)
LEMMA StopMovedSafe ==
    ASSUME Inv, StopMoved
    PROVE  Safe'
<1>1. /\ compose' \subseteq compose /\ UNCHANGED <<cluster, asked, interrupted>>
      /\ swallowed' = "now" \/ UNCHANGED swallowed
      /\ Continue
  BY DEF StopMoved, Swallow
<1>2. Types'
  BY <1>1 DEF Inv, Safe, Types, cluster, Continue, Goto
<1> QED
  BY <1>1, <1>2, FewerServices DEF Inv

(* Services are started next to a node only where both have room, or on record. *)
LEMMA MoreServices ==
    ASSUME Safe, Needs, Verb = "up", UNCHANGED cluster, Types',
           \/ swallowed' = "now"
           \/ UNCHANGED swallowed /\ compose' \subseteq compose \cup Started(Object)
    PROVE  Safe'
<1>1. NoCluster'
  BY DEF Safe, NoCluster, cluster
<1>2. CASE swallowed' = "now"
  BY <1>1, <1>2 DEF Safe, KfpHasRoom, NeverTogether, cluster
<1>3. CASE UNCHANGED swallowed /\ compose' \subseteq compose \cup Started(Object)
  <2>1. KfpHasRoom'
    BY <1>3 DEF Safe, Needs, KfpHasRoom, Blind, cluster
  <2>2. NeverTogether'
    BY <1>3 DEF Safe, Needs, NeverTogether, Blind, cluster
  <2> QED
    BY <1>1, <2>1, <2>2 DEF Safe
<1> QED
  BY <1>2, <1>3

(* What docker compose starts are services. *)
LEMMA StartedTypes ==
    \A what \in Modes \cup {"airflow", "handed_back"} :
        /\ Started(what) \subseteq Services
        /\ \A services \in Starts(what) : services \subseteq Services
BY Envelopes DEF Modes, Starts

(* Services start only where the node or their cap leaves room, by what the step needs. *)
LEMMA UpSafe ==
    ASSUME Inv, Up
    PROVE  Safe'
<1>1. PICK what \in Modes \cup {"airflow", "handed_back"} :
          /\ At(<<"up", what>>)
          /\ \E services \in Starts(what) :
                 compose' = compose \cup services /\ Swallow(services # Started(what))
  BY DEF Up
<1>2. PICK services \in Starts(what) :
          compose' = compose \cup services /\ Swallow(services # Started(what))
  BY <1>1
<1>3. Continue /\ UNCHANGED <<cluster, asked, interrupted>>
  BY DEF Up
<1>4. steps # <<>> /\ Verb = "up" /\ Object = what
  BY <1>1, Command
<1>5. Needs
  BY <1>4, Prepared
<1>6. services \subseteq Services
  BY StartedTypes
<1>7. swallowed' = "now" \/ (UNCHANGED swallowed /\ services = Started(what))
  BY <1>2 DEF Swallow
<1>8. Types'
  BY <1>2, <1>3, <1>6, <1>7 DEF Inv, Safe, Types, cluster, Continue, Goto
<1> QED
  BY <1>2, <1>3, <1>4, <1>5, <1>7, <1>8, MoreServices DEF Inv

(* The cap of a running node with kfp on it changes to that of kfp only. *)
LEMMA SetCapSafe ==
    ASSUME Inv, SetCap
    PROVE  Safe'
<1>1. PICK mode \in DOMAIN cap_for :
          /\ At(<<"set_cap", mode>>)
          /\ \/ cap' = cap_for[mode] /\ Continue
             \/ node = "running" /\ cap_for[mode] < cap /\ Fail /\ UNCHANGED cap
  BY DEF SetCap
<1>2. UNCHANGED <<node, kfp, keda, compose, asked, interrupted, swallowed>>
  BY DEF SetCap
<1>3. steps # <<>> /\ Verb = "set_cap" /\ Object = mode
  BY <1>1, Command
<1>4. node = "running" => kfp = "none" \/ mode = "kfp"
  BY <1>3, Prepared DEF Needs
<1>5. Types'
  BY <1>1, <1>2, Caps DEF Inv, Safe, Types, Continue, Goto, Fail
<1> QED
  BY <1>1, <1>2, <1>4, <1>5, Caps DEF Inv, Safe, NoCluster, KfpHasRoom, NeverTogether

(* The cap is updated in place only with kfp gone. *)
LEMMA UpdateCapSafe ==
    ASSUME Inv, UpdateCap
    PROVE  Safe'
<1>1. /\ cap' = 6 /\ Continue
      /\ UNCHANGED <<node, kfp, keda, compose, asked, interrupted, swallowed>>
  BY Caps DEF UpdateCap
<1>2. kfp = "none"
  <2>1. steps # <<>> /\ Verb = "update_cap"
    BY Command DEF UpdateCap
  <2> QED
    BY <2>1, Prepared DEF Needs
<1>3. Types'
  BY <1>1 DEF Inv, Safe, Types, Continue, Goto
<1> QED
  BY <1>1, <1>2, <1>3 DEF Inv, Safe, NoCluster, KfpHasRoom, NeverTogether

(* The node starts under the cap of kfp with Compose trimmed to it, and is safe stopped. *)
LEMMA NodeSafe ==
    ASSUME Inv, StopNode \/ StartNode
    PROVE  Safe'
<1>1. CASE StopNode
  <2>1. /\ Continue /\ UNCHANGED <<cap, kfp, keda, compose, asked, interrupted>>
        /\ node' = node \/ (node = "running" /\ node' = "stopped")
        /\ node' = "running" => swallowed' = "now"
        /\ swallowed' \in {"no", "now"}
    BY <1>1 DEF StopNode, Answers
  <2>2. Types'
    BY <2>1 DEF Inv, Safe, Types, Continue, Goto
  <2> QED
    BY <2>1, <2>2 DEF Inv, Safe, NoCluster, KfpHasRoom, NeverTogether
<1>2. CASE StartNode
  <2>1. steps # <<>> /\ Verb = "node" /\ Object = "start"
    BY <1>2, Command DEF StartNode
  <2>2. cap = 12 /\ (compose \subseteq {"keep"} \/ swallowed = "now")
    BY <2>1, Prepared, Envelopes DEF Needs, Trimmed, Blind
  <2>3. /\ node' = "running" /\ Continue
        /\ UNCHANGED <<cap, kfp, keda, compose, asked, interrupted, swallowed>>
    BY <1>2 DEF StartNode
  <2>4. Types'
    BY <2>3 DEF Inv, Safe, Types, Continue, Goto
  <2> QED
    BY <2>2, <2>3, <2>4, Caps, Envelopes DEF Safe, NoCluster, KfpHasRoom, NeverTogether
<1> QED
  BY <1>1, <1>2

(* Questions change nothing but the script, and the record of what they overlooked. *)
LEMMA AskingSafe ==
    ASSUME Inv, Ask \/ Status \/ AwaitGone \/ to_k8s \/ LeaveKfp
    PROVE  Safe'
<1>1. UNCHANGED <<cluster, compose, asked, interrupted>>
  BY DEF Ask, Status, AwaitGone, to_k8s, LeaveKfp
<1>2. exit' \in {"running", "ok", "failed"}
  BY DEF Ask, Status, AwaitGone, to_k8s, LeaveKfp, Proceed, Continue, Goto, Fail
<1>3. swallowed' = "now" \/ swallowed' = swallowed
  <2>1. CASE Ask \/ Status
    BY <2>1 DEF Ask, Status, Checked, Swallow
  <2>2. CASE AwaitGone \/ LeaveKfp
    BY <2>2 DEF AwaitGone, LeaveKfp
  <2>3. CASE to_k8s
    BY <2>3 DEF to_k8s, Swallow
  <2> QED
    BY <2>1, <2>2, <2>3
<1>4. Types'
  BY <1>1, <1>2, <1>3 DEF Inv, Safe, Types, cluster
<1> QED
  BY <1>1, <1>3, <1>4, FewerServices DEF Inv

(* A cluster is created with the moved services out of Compose. *)
LEMMA CreateSafe ==
    ASSUME Inv, CreateCluster
    PROVE  Safe'
<1>1. steps # <<>> /\ Verb = "cluster" /\ Object = "create"
  BY Command DEF CreateCluster
<1>2. "moved" \notin compose \/ swallowed = "now"
  BY <1>1, Prepared DEF Needs, Blind
<1>3. UNCHANGED <<kfp, keda, compose, asked, interrupted, swallowed>>
  BY DEF CreateCluster
<1>4. CASE node = "absent"
  <2>1. node' = "running" /\ cap' = 0 /\ Continue
    BY <1>4 DEF CreateCluster
  <2>2. Types'
    BY <1>3, <2>1 DEF Inv, Safe, Types, Continue, Goto
  <2> QED
    BY <1>2, <1>3, <1>4, <2>1, <2>2 DEF Inv, Safe, NoCluster, KfpHasRoom, NeverTogether
<1>5. CASE node # "absent"
  <2>1. UNCHANGED <<node, cap>> /\ Proceed(node = "running" /\ kfp = "none" /\ cap = cap_for["k8s"])
    BY <1>5 DEF CreateCluster
  <2>2. Types'
    BY <1>3, <2>1 DEF Inv, Safe, Types, Proceed, Continue, Goto, Fail
  <2> QED
    BY <1>3, <2>1, <2>2, FewerServices DEF Inv, cluster
<1> QED
  BY <1>4, <1>5

(* Deleting the cluster takes what ran on it along. *)
LEMMA DeleteClusterSafe ==
    ASSUME Inv, DeleteCluster
    PROVE  Safe'
<1>1. Continue /\ UNCHANGED <<compose, asked, interrupted>>
  BY DEF DeleteCluster
<1>2. CASE node' = "absent" /\ cap' = 0 /\ kfp' = "none" /\ keda' = "none" /\ swallowed' = "no"
  BY <1>1, <1>2 DEF Inv, Safe, Types, NoCluster, KfpHasRoom, NeverTogether, Continue, Goto
<1>3. CASE node # "absent" /\ Swallow(TRUE) /\ UNCHANGED cluster
  <2>1. Types' /\ swallowed' = "now"
    BY <1>1, <1>3 DEF Inv, Safe, Types, cluster, Continue, Goto, Swallow
  <2> QED
    BY <1>1, <1>3, <2>1, FewerServices DEF Inv
<1> QED
  BY <1>2, <1>3 DEF DeleteCluster

(* kfp is installed only under its own cap and beside its own services. *)
LEMMA InstallSafe ==
    ASSUME Inv, Install
    PROVE  Safe'
<1>1. UNCHANGED <<node, cap, compose, asked, interrupted, swallowed>>
  BY DEF Install
<1>2. CASE /\ At(<<"kfp", "install">>) /\ UNCHANGED keda
           /\ kfp' = IF node = "running" /\ kfp = "none" THEN "installed" ELSE kfp
           /\ Proceed(node = "running" /\ kfp # "terminating")
  <2>1. steps # <<>> /\ Verb = "kfp" /\ Object = "install"
    BY <1>2, Command
  <2>2. node = "running" /\ cap = 12 /\ (compose \subseteq allowed["kfp"] \/ swallowed = "now")
    BY <2>1, Prepared DEF Needs, Trimmed, Blind
  <2>3. Types'
    BY <1>1, <1>2 DEF Inv, Safe, Types, Proceed, Continue, Goto, Fail
  <2> QED
    BY <1>1, <2>2, <2>3, Caps DEF Inv, Safe, NoCluster, KfpHasRoom, NeverTogether
<1>3. CASE /\ At(<<"keda", "install">>) /\ UNCHANGED kfp
           /\ keda' = IF node = "running" /\ keda = "none" THEN "installed" ELSE keda
           /\ Proceed(node = "running" /\ keda # "terminating")
  <2>1. Types'
    BY <1>1, <1>3 DEF Inv, Safe, Types, Proceed, Continue, Goto, Fail
  <2> QED
    BY <1>1, <1>3, <2>1 DEF Inv, Safe, NoCluster, KfpHasRoom, NeverTogether
<1> QED
  BY <1>2, <1>3 DEF Install

(* A namespace that is on its way out, or gone, was there before. *)
LEMMA DeletedNamespace ==
    \A namespace \in {"none", "installed", "terminating"} :
        /\ Deleted(namespace) \in {"none", "installed", "terminating"}
        /\ Deleted(namespace) # "none" => namespace # "none"
BY DEF Deleted

(* An uninstall leaves a terminating namespace, which still occupies the node. *)
LEMMA DeleteSafe ==
    ASSUME Inv, Delete
    PROVE  Safe'
<1>1. /\ UNCHANGED <<node, cap, compose, asked, interrupted, swallowed>>
      /\ exit' \in {"running", "ok", "failed"}
  BY DEF Delete, Proceed, Continue, Goto, Fail
<1>2. \/ kfp' = Deleted(kfp) /\ UNCHANGED keda
      \/ keda' = Deleted(keda) /\ UNCHANGED kfp
  BY DEF Delete
<1>3. /\ kfp' \in {"none", "installed", "terminating"} /\ (kfp' # "none" => kfp # "none")
      /\ keda' \in {"none", "installed", "terminating"} /\ (keda' # "none" => keda # "none")
  BY <1>2, DeletedNamespace DEF Inv, Safe, Types
<1>4. Types'
  BY <1>1, <1>3 DEF Inv, Safe, Types
<1> QED
  BY <1>1, <1>3, <1>4 DEF Inv, Safe, NoCluster, KfpHasRoom, NeverTogether

(* A namespace that is gone frees room. *)
LEMMA NamespaceGoneSafe ==
    ASSUME Inv, NamespaceGone
    PROVE  Safe'
BY DEF Inv, Safe, Types, NoCluster, KfpHasRoom, NeverTogether, NamespaceGone

(* Starting a script touches nothing on the host. *)
LEMMA RunSafe ==
    ASSUME Inv, Run
    PROVE  Safe'
<1>1. /\ UNCHANGED <<cluster, compose>> /\ interrupted' = FALSE
      /\ swallowed' = IF swallowed = "now" THEN "before" ELSE swallowed
  BY DEF Run
<1>2. asked' \in Modes \cup {"none"} /\ exit' \in {"running", "ok", "failed"}
  BY DEF Run, Goto
<1>3. Types'
  BY <1>1, <1>2 DEF Inv, Safe, Types, cluster
<1> QED
  BY <1>1, <1>3, FewerServices DEF Inv

(* An interrupted command has done a part of what it does, which is no less safe. *)
LEMMA InterruptSafe ==
    ASSUME Inv, Interrupt
    PROVE  Safe'
<1>1. steps # <<>> /\ Fail /\ interrupted' = TRUE /\ UNCHANGED <<cluster, asked>>
  BY DEF Interrupt
<1>2. CASE Verb = "up"
  <2>1. PICK services \in Starts(Object) : \E in \in SUBSET services :
            compose' = compose \cup in /\ Swallow(~(in \subseteq Started(Object)))
    BY <1>2 DEF Interrupt, Verb, Object
  <2>2. PICK in \in SUBSET services :
            compose' = compose \cup in /\ Swallow(~(in \subseteq Started(Object)))
    BY <2>1
  <2>3. services \subseteq Services
    <3>1. Object \in Modes \cup {"airflow", "handed_back"}
      BY <1>1, <1>2, UpObjects
    <3> QED
      BY <3>1, StartedTypes
  <2>4. swallowed' = "now" \/ (UNCHANGED swallowed /\ in \subseteq Started(Object))
    BY <2>2 DEF Swallow
  <2>5. Types'
    BY <1>1, <2>2, <2>3, <2>4 DEF Inv, Safe, Types, cluster, Fail
  <2>6. Needs
    BY <1>1, Prepared
  <2> QED
    BY <1>1, <1>2, <2>2, <2>4, <2>5, <2>6, MoreServices DEF Inv
<1>3. CASE Verb # "up"
  <2>1. compose' \subseteq compose /\ UNCHANGED swallowed
    BY <1>3 DEF Interrupt, Verb
  <2>2. Types'
    BY <1>1, <2>1 DEF Inv, Safe, Types, cluster, Fail
  <2> QED
    BY <1>1, <2>1, <2>2, FewerServices DEF Inv
<1> QED
  BY <1>2, <1>3

(* Every step keeps the safe states safe. *)
LEMMA SafetyKept ==
    ASSUME Inv, [Next]_vars
    PROVE  Safe'
<1>1. CASE Run
  BY <1>1, RunSafe
<1>2. CASE Step
  BY <1>2, TrimSafe, StopMovedSafe, UpSafe, SetCapSafe, UpdateCapSafe, NodeSafe, AskingSafe,
     CreateSafe, DeleteClusterSafe, InstallSafe, DeleteSafe DEF Step
<1>3. CASE NamespaceGone
  BY <1>3, NamespaceGoneSafe
<1>4. CASE Interrupt
  BY <1>4, InterruptSafe
<1>5. CASE UNCHANGED vars
  BY <1>5 DEF Inv, Safe, Types, NoCluster, KfpHasRoom, NeverTogether, vars, cluster
<1> QED
  BY <1>1, <1>2, <1>3, <1>4, <1>5 DEF Next

-----------------------------------------------------------------------------
(***************************************************************************)
(* What the command at the head does                                       *)
(***************************************************************************)

(* Which commands an action takes up. *)
LEMMA Taken ==
    /\ Trim => Verb = "trim"
    /\ StopMoved => Here("stop", "moved")
    /\ Up => Verb = "up"
    /\ SetCap => Verb = "set_cap"
    /\ UpdateCap => Here("update_cap", "k8s")
    /\ StopNode => Here("node", "stop")
    /\ StartNode => Here("node", "start")
    /\ Ask => Here("cluster", "exists") \/ Verb = "check"
    /\ Status => Verb = "status"
    /\ CreateCluster => Here("cluster", "create")
    /\ DeleteCluster => Here("cluster", "delete")
    /\ Install => Here("kfp", "install") \/ Here("keda", "install")
    /\ Delete => Here("kfp", "delete") \/ Here("keda", "delete")
    /\ AwaitGone => Here("kfp", "gone")
    /\ to_k8s => Verb = "to_k8s"
    /\ LeaveKfp => Verb = "leave"
<1>1. Trim => Verb = "trim"
  BY Command DEF Trim
<1>2. Up => Verb = "up"
  BY Command DEF Up
<1>3. SetCap => Verb = "set_cap"
  BY Command DEF SetCap
<1>4. /\ StopMoved => Here("stop", "moved")
      /\ UpdateCap => Here("update_cap", "k8s")
      /\ StopNode => Here("node", "stop")
      /\ StartNode => Here("node", "start")
  BY Command DEF StopMoved, UpdateCap, StopNode, StartNode, Here
<1>5. Ask => Here("cluster", "exists") \/ Verb = "check"
  BY Command DEF Ask, Here
<1>6. /\ Status => Verb = "status"
      /\ CreateCluster => Here("cluster", "create")
      /\ DeleteCluster => Here("cluster", "delete")
  BY Command DEF Status, CreateCluster, DeleteCluster, Here
<1>7. Install => Here("kfp", "install") \/ Here("keda", "install")
  BY Command DEF Install, Here
<1>8. Delete => Here("kfp", "delete") \/ Here("keda", "delete")
  BY Command DEF Delete, Here
<1>9. /\ AwaitGone => Here("kfp", "gone")
      /\ to_k8s => Verb = "to_k8s"
      /\ LeaveKfp => Verb = "leave"
  BY Command DEF AwaitGone, to_k8s, LeaveKfp, Here
<1> QED
  BY <1>1, <1>2, <1>3, <1>4, <1>5, <1>6, <1>7, <1>8, <1>9

(* No step changes the mode that was asked for. *)
LEMMA AskedStays == ASSUME Step PROVE UNCHANGED asked
BY DEF Step, Trim, StopMoved, Up, SetCap, UpdateCap, StopNode, StartNode, Ask, Status,
       CreateCluster, DeleteCluster, Install, Delete, AwaitGone, to_k8s, LeaveKfp, cluster

(* What the step does: trim leaves only what the mode allows, or goes past a failure. *)
LEMMA TrimStep ==
    ASSUME Step, Verb = "trim"
    PROVE  /\ Continue /\ UNCHANGED <<node, cap, kfp, keda>>
           /\ compose' \subseteq compose
           /\ compose' \subseteq allowed[Object] \/ Blind'
           /\ Object # "kfp" => (Blind => Blind')
<1>1. Trim
  BY Taken DEF Step, Here
<1>2. PICK mode \in Modes :
          /\ At(<<"trim", mode>>)
          /\ \E extra \in Extra(mode) : compose' = compose \ extra
          /\ swallowed' = CASE ~(compose' \subseteq allowed[mode]) -> "now"
                            [] mode = "kfp" /\ compose' \subseteq allowed["kfp"] -> "no"
                            [] OTHER -> swallowed
  BY <1>1 DEF Trim
<1>3. Object = mode
  BY <1>2, Command
<1>4. compose' \subseteq compose
  BY <1>2
<1>5. /\ compose' \subseteq allowed[Object] \/ Blind'
      /\ Object # "kfp" => (Blind => Blind')
  BY <1>2, <1>3 DEF Blind
<1> QED
  BY <1>1, <1>4, <1>5 DEF Trim, cluster

(* What the step does: stop_moved leaves no moved service, or has swallowed a failure. *)
LEMMA StopMovedStep ==
    ASSUME Step, Verb = "stop"
    PROVE  /\ Continue /\ UNCHANGED <<node, cap, kfp, keda>>
           /\ compose' \subseteq compose
           /\ "moved" \notin compose' \/ Blind'
           /\ Blind => Blind'
<1>1. StopMoved
  BY Taken DEF Step, Here
<1> QED
  BY <1>1 DEF StopMoved, Swallow, Blind, cluster

(* What the step does: up adds services to Compose, others only when it goes past a failure. *)
LEMMA UpStep ==
    ASSUME Step, Verb = "up"
    PROVE  /\ Continue /\ UNCHANGED <<node, cap, kfp, keda>>
           /\ compose' = compose \cup Started(Object) \/ Blind'
           /\ Blind => Blind'
<1>1. Up
  BY Taken DEF Step, Here
<1>2. PICK what \in Modes \cup {"airflow", "handed_back"} :
          /\ At(<<"up", what>>)
          /\ \E services \in Starts(what) :
                 compose' = compose \cup services /\ Swallow(services # Started(what))
  BY <1>1 DEF Up
<1>3. Object = what
  BY <1>2, Command
<1>4. (compose' = compose \cup Started(Object) \/ Blind') /\ (Blind => Blind')
  BY <1>2, <1>3 DEF Swallow, Blind
<1> QED
  BY <1>1, <1>4 DEF Up, cluster

(* What the step does: set_cap sets the cap of its mode, or fails. *)
LEMMA SetCapStep ==
    ASSUME Step, Verb = "set_cap"
    PROVE  /\ UNCHANGED <<node, kfp, keda, compose, swallowed>>
           /\ (cap' = cap_for[Object] /\ Continue) \/ Fail
<1>1. SetCap
  BY Taken DEF Step, Here
<1>2. PICK mode \in DOMAIN cap_for :
          At(<<"set_cap", mode>>) /\ ((cap' = cap_for[mode] /\ Continue) \/ Fail)
  BY <1>1 DEF SetCap
<1>3. Object = mode
  BY <1>2, Command
<1> QED
  BY <1>1, <1>2, <1>3 DEF SetCap

(* What the step does: update_cap sets the cap of the running node. *)
LEMMA UpdateCapStep ==
    ASSUME Step, Verb = "update_cap"
    PROVE  Continue /\ cap' = 6 /\ UNCHANGED <<node, kfp, keda, compose, swallowed>>
<1>1. UpdateCap
  BY Taken DEF Step, Here
<1> QED
  BY <1>1, Caps DEF UpdateCap

(* What the step does: start leaves a running node, stop one that does not run unless it *)
(* went past a failure.                                                                  *)
LEMMA NodeStep ==
    ASSUME Step, Verb = "node"
    PROVE  /\ Continue /\ UNCHANGED <<cap, kfp, keda, compose>>
           /\ Object = "stop" => node' # "running" \/ Blind'
           /\ Object = "start" => node' = "running" /\ UNCHANGED swallowed
<1>1. StopNode \/ StartNode
  BY Taken DEF Step, Here
<1>2. CASE StopNode
  <2>1. Object = "stop"
    BY <1>2, Taken DEF Here
  <2> QED
    BY <1>2, <2>1 DEF StopNode, Blind
<1>3. CASE StartNode
  <2>1. Object = "start"
    BY <1>3, Taken DEF Here
  <2> QED
    BY <1>3, <2>1 DEF StartNode
<1> QED
  BY <1>1, <1>2, <1>3

(* What the step does: check passes only in its mode, or goes past a failure; the node, *)
(* where the mode needs one, it always sees as it is.                                   *)
LEMMA CheckStep ==
    ASSUME Step, Verb = "check"
    PROVE  /\ UNCHANGED <<node, cap, kfp, keda, compose>>
           /\ \/ /\ Continue
                 /\ check(Object) \/ Blind'
                 /\ Blind => Blind'
                 /\ Object # "compose" => NodeFits(Object)
              \/ Fail
<1>1. Ask
  BY Taken DEF Step, Here
<1>2. ~At(<<"cluster", "exists">>)
  BY Command
<1>3. PICK mode \in Modes :
          At(<<"check", mode>>) /\ ((Checked(mode) /\ Continue) \/ Fail)
  BY <1>1, <1>2 DEF Ask
<1>4. Object = mode
  BY <1>3, Command
<1>5. Checked(mode) => /\ check(mode) \/ Blind'
                       /\ Blind => Blind'
                       /\ mode # "compose" => NodeFits(mode)
  BY DEF Checked, Swallow, Blind, check
<1> QED
  BY <1>1, <1>3, <1>4, <1>5 DEF Ask, cluster

(* What the step does: exists goes on only with a cluster. *)
LEMMA ExistsStep ==
    ASSUME Step, Here("cluster", "exists")
    PROVE  /\ UNCHANGED <<node, cap, kfp, keda, compose, swallowed>>
           /\ (node # "absent" /\ Continue) \/ Fail
<1>1. Ask
  BY Taken DEF Step, Here
<1>2. \A mode : ~At(<<"check", mode>>)
  BY Command DEF Here
<1> QED
  BY <1>1, <1>2 DEF Ask, Proceed, cluster

(* What the step does: status goes on only if some mode checks, or past a failure. *)
LEMMA StatusStep ==
    ASSUME Step, Verb = "status"
    PROVE  /\ UNCHANGED <<node, cap, kfp, keda, compose>>
           /\ \/ Continue /\ ((\E mode \in Modes : check(mode)) \/ Blind') /\ (Blind => Blind')
              \/ Fail
<1>1. Status
  BY Taken DEF Step, Here
<1> QED
  BY <1>1 DEF Status, Checked, Swallow, Blind, cluster

(* What the step does: create leaves a running node with no kfp on it, or fails. *)
LEMMA CreateStep ==
    ASSUME Step, Here("cluster", "create")
    PROVE  /\ UNCHANGED <<kfp, keda, compose, swallowed>>
           /\ \/ Continue /\ node' = "running" /\ node = "absent"
              \/ Continue /\ node' = "running" /\ kfp = "none" /\ UNCHANGED <<node, cap>>
              \/ Fail
<1>1. CreateCluster
  BY Taken DEF Step, Here
<1>2. CASE node = "absent"
  <2>1. node' = "running" /\ Continue
    BY <1>1, <1>2 DEF CreateCluster
  <2>2. UNCHANGED <<kfp, keda, compose, swallowed>>
    BY <1>1 DEF CreateCluster
  <2> QED
    BY <1>2, <2>1, <2>2
<1>3. CASE node # "absent"
  <2>1. /\ UNCHANGED <<node, cap, kfp, keda, compose, swallowed>>
        /\ Proceed(node = "running" /\ kfp = "none" /\ cap = cap_for["k8s"])
    BY <1>1, <1>3 DEF CreateCluster
  <2>2. CASE node = "running" /\ kfp = "none" /\ cap = cap_for["k8s"]
    BY <2>1, <2>2 DEF Proceed
  <2>3. CASE ~(node = "running" /\ kfp = "none" /\ cap = cap_for["k8s"])
    BY <2>1, <2>3 DEF Proceed
  <2> QED
    BY <2>2, <2>3
<1> QED
  BY <1>2, <1>3

(* What the step does: delete leaves no cluster, or has swallowed a failure. *)
LEMMA DeleteClusterStep ==
    ASSUME Step, Here("cluster", "delete")
    PROVE  Continue /\ (node' = "absent" \/ Blind')
<1>1. DeleteCluster
  BY Taken DEF Step, Here
<1> QED
  BY <1>1 DEF DeleteCluster, Swallow, Blind

(* What the step does: install goes on or fails. *)
LEMMA InstallStep ==
    ASSUME Step, Here("kfp", "install") \/ Here("keda", "install")
    PROVE  Continue \/ Fail
<1>1. Install
  BY Taken DEF Step, Here
<1> QED
  BY <1>1 DEF Install, Proceed

(* What the step does: an uninstall goes on or fails, and the node stays. *)
LEMMA DeleteStep ==
    ASSUME Step, Here("kfp", "delete") \/ Here("keda", "delete")
    PROVE  UNCHANGED node /\ (Continue \/ Fail)
<1>1. Delete
  BY Taken DEF Step, Here
<1> QED
  BY <1>1 DEF Delete, Proceed

(* What the step does: waiting ends with the namespace gone, or fails. *)
LEMMA AwaitGoneStep ==
    ASSUME Step, Here("kfp", "gone")
    PROVE  /\ UNCHANGED <<node, cap, kfp, keda, compose, swallowed>>
           /\ (kfp = "none" /\ Continue) \/ Fail
<1>1. AwaitGone
  BY Taken DEF Step, Here
<1> QED
  BY <1>1 DEF AwaitGone, Proceed, cluster

-----------------------------------------------------------------------------
(***************************************************************************)
(* Every step leads to the next place of its script, or ends it            *)
(***************************************************************************)

(* A step that does not branch leads to the next place of the same script. *)
LEMMA GoOn ==
    ASSUME NEW s \in Seq(Commands), NEW mode, NEW i, On(mode, s, i), i < Len(s),
           Continue, UNCHANGED asked
    PROVE  On(mode, s, i + 1)'
<1>1. Tail(steps) = From(s, i + 1) /\ i \in 1 .. Len(s)
  BY Place
<1>2. i + 1 \in 1 .. Len(s)
  BY <1>1, LenProperties
<1>3. From(s, i + 1) # <<>>
  BY <1>2, OneStepOn
<1>4. steps' = From(s, i + 1) /\ exit' = "running"
  BY <1>1, <1>3 DEF Continue, Goto
<1> QED
  BY <1>2, <1>4 DEF On

(* Going to a script puts it at its first place. *)
LEMMA Start ==
    ASSUME NEW s \in Seq(Commands), NEW mode, s # <<>>, Goto(s), asked' = mode
    PROVE  On(mode, s, 1)'
<1>1. From(s, 1) = s
  BY WholeAndNothing
<1>2. 1 \in 1 .. Len(s)
  BY EmptySeq
<1> QED
  BY <1>1, <1>2 DEF On, Goto

(* A failed command ends the script with a true exit status. *)
LEMMA Stopped == ASSUME Fail PROVE Idle'
BY DEF Fail, Idle, ExitTellsMode

(* A script that reaches no mode ends with nothing to tell. *)
LEMMA EndedAlone ==
    ASSUME Continue, Tail(steps) = <<>>, asked' = "none"
    PROVE  Idle'
BY DEF Continue, Goto, Idle, ExitTellsMode

(* A script ends well when the check of its mode passes, or it went past a failure. *)
LEMMA EndedIn ==
    ASSUME NEW mode, Continue, Tail(steps) = <<>>, asked' = mode, check(mode)' \/ Blind'
    PROVE  Idle'
BY DEF Continue, Goto, Idle, ExitTellsMode, Blind

(* The only mode whose check can pass with this cap on a running node. *)
LEMMA CapTellsMode ==
    ASSUME NEW mode \in {"k8s", "scale", "kfp"}, node = "running", cap = cap_for[mode],
           \E m \in Modes : check(m)
    PROVE  check(mode)
BY Caps DEF check, NodeFits, Modes

(* A step of to_compose ends it, or leads to its next place with that place's facts. *)
LEMMA ComposeNext ==
    ASSUME Safe, NEW i, OnCompose(i), Step
    PROVE  Idle' \/ (i < 3 /\ OnCompose(i + 1)')
<1>1. On("compose", to_compose, i) /\ i \in 1 .. 3 /\ UNCHANGED asked
  BY ComposePlace, AskedStays DEF OnCompose
<1>2. Continue /\ i < 3 => On("compose", to_compose, i + 1)'
  BY <1>1, ComposeSteps, GoOn
<1>3. CASE i = 1
  BY <1>2, <1>3, ComposePlace, NodeStep, Stopped
     DEF Here, OnCompose
<1>4. CASE i = 2
  BY <1>2, <1>4, ComposePlace, UpStep, Stopped
     DEF Here, OnCompose
<1>5. CASE i = 3
  <2>1. /\ asked' = "compose" /\ Tail(steps) = <<>> /\ (node # "running" \/ Blind)
        /\ UNCHANGED <<node, cap, kfp, keda, compose>>
        /\ (Continue /\ ((\E m \in Modes : check(m)) \/ Blind') /\ (Blind => Blind')) \/ Fail
    BY <1>1, <1>5, ComposePlace, StatusStep DEF Here, On, OnCompose
  <2>2. (\E m \in Modes : check(m)) /\ node # "running" => check("compose")'
    BY <2>1 DEF check, NodeFits, Modes
  <2> QED
    BY <2>1, <2>2, EndedIn, Stopped
<1> QED
  BY <1>1, <1>3, <1>4, <1>5

(* A step of to_kfp ends it, or leads to its next place with that place's facts. *)
LEMMA KfpNext ==
    ASSUME Safe, NEW i, OnKfp(i), Step
    PROVE  Idle' \/ (i < 6 /\ OnKfp(i + 1)')
<1>1. On("kfp", to_kfp, i) /\ i \in 1 .. 6 /\ UNCHANGED asked
  BY KfpPlace, AskedStays DEF OnKfp
<1>2. Continue /\ i < 6 => On("kfp", to_kfp, i + 1)'
  BY <1>1, KfpSteps, GoOn
<1>3. CASE i = 1
  BY <1>2, <1>3, KfpPlace, ExistsStep, Stopped
     DEF Here, OnKfp
<1>4. CASE i = 2
  BY <1>2, <1>4, KfpPlace, TrimStep, Stopped
     DEF Here, OnKfp, Trimmed
<1>5. CASE i = 3
  BY <1>2, <1>5, KfpPlace, SetCapStep, Stopped, Caps
     DEF Here, OnKfp, Trimmed, Blind
<1>6. CASE i = 4
  BY <1>2, <1>6, KfpPlace, NodeStep, Stopped
     DEF Here, OnKfp, Trimmed, Blind
<1>7. CASE i = 5
  BY <1>2, <1>7, KfpPlace, UpStep, Stopped, Envelopes
     DEF Here, OnKfp, Trimmed, Modes
<1>8. CASE i = 6
  <2>1. /\ asked' = "kfp" /\ Tail(steps) = <<>> /\ node = "running" /\ cap = 12
        /\ UNCHANGED <<node, cap, kfp, keda, compose>>
        /\ (Continue /\ ((\E m \in Modes : check(m)) \/ Blind') /\ (Blind => Blind')) \/ Fail
    BY <1>1, <1>8, KfpPlace, StatusStep DEF Here, On, OnKfp
  <2>2. (\E m \in Modes : check(m)) => check("kfp")
    BY <2>1, CapTellsMode, Caps
  <2>3. check("kfp") => check("kfp")'
    BY <2>1 DEF check, NodeFits
  <2> QED
    BY <2>1, <2>2, <2>3, EndedIn, Stopped
<1> QED
  BY <1>1, <1>3, <1>4, <1>5, <1>6, <1>7, <1>8

(* A step of to_scale ends it, or leads to its next place with that place's facts. *)
LEMMA ScaleNext ==
    ASSUME Safe, NEW i, OnScale(i), Step
    PROVE  Idle' \/ (i < 4 /\ OnScale(i + 1)')
<1>1. On("scale", to_scale, i) /\ i \in 1 .. 4 /\ UNCHANGED asked
  BY ScalePlace, AskedStays DEF OnScale
<1>2. Continue /\ i < 4 => On("scale", to_scale, i + 1)'
  BY <1>1, ScaleSteps, GoOn
<1>3. CASE i = 1
  BY <1>2, <1>3, ScalePlace, CheckStep, Stopped
     DEF Here, OnScale, Plain, check, NodeFits, Blind
<1>4. CASE i = 2
  BY <1>2, <1>4, ScalePlace, SetCapStep, Stopped, Caps
     DEF Here, OnScale, Plain
<1>5. CASE i = 3
  BY <1>2, <1>5, ScalePlace, TrimStep, Stopped
     DEF Here, OnScale, Plain
<1>6. CASE i = 4
  <2>1. /\ asked' = "scale" /\ Tail(steps) = <<>> /\ node = "running" /\ cap = 11
        /\ UNCHANGED <<node, cap, kfp, keda, compose>>
        /\ (Continue /\ ((\E m \in Modes : check(m)) \/ Blind') /\ (Blind => Blind')) \/ Fail
    BY <1>1, <1>6, ScalePlace, StatusStep DEF Here, On, OnScale, Plain
  <2>2. (\E m \in Modes : check(m)) => check("scale")
    BY <2>1, CapTellsMode, Caps
  <2>3. check("scale") => check("scale")'
    BY <2>1 DEF check, NodeFits
  <2> QED
    BY <2>1, <2>2, <2>3, EndedIn, Stopped
<1> QED
  BY <1>1, <1>3, <1>4, <1>5, <1>6

(* A step of k8s_up ends it, or leads to its next place with that place's facts. *)
LEMMA K8sUpNext ==
    ASSUME Safe, NEW i, OnK8sUp(i), Step
    PROVE  Idle' \/ (i < 4 /\ OnK8sUp(i + 1)')
<1>1. On("none", k8s_up, i) /\ i \in 1 .. 4 /\ UNCHANGED asked
  BY K8sUpPlace, AskedStays DEF OnK8sUp
<1>2. Continue /\ i < 4 => On("none", k8s_up, i + 1)'
  BY <1>1, K8sUpSteps, GoOn
<1>3. CASE i = 1
  BY <1>2, <1>3, K8sUpPlace, StopMovedStep, Stopped
     DEF Here, OnK8sUp
<1>4. CASE i = 2
  BY <1>2, <1>4, K8sUpPlace, CreateStep, Stopped
     DEF Here, OnK8sUp, Plain, Safe, NoCluster, Blind
<1>5. CASE i = 3
  BY <1>2, <1>5, K8sUpPlace, UpdateCapStep, Stopped
     DEF Here, OnK8sUp, Plain, Blind
<1>6. CASE i = 4
  <2>1. asked' = "none" /\ Tail(steps) = <<>>
    BY <1>1, <1>6, K8sUpPlace DEF On
  <2> QED
    BY <1>6, <2>1, K8sUpPlace, UpStep, EndedAlone, Stopped DEF Here
<1> QED
  BY <1>1, <1>3, <1>4, <1>5, <1>6

(* A step of k8s_down ends it, or leads to its next place with that place's facts. *)
LEMMA K8sDownNext ==
    ASSUME Safe, NEW i, OnK8sDown(i), Step
    PROVE  Idle' \/ (i < 2 /\ OnK8sDown(i + 1)')
<1>1. On("none", script["k8s_down"], i) /\ i \in 1 .. 2 /\ UNCHANGED asked
  BY K8sDownPlace, AskedStays DEF OnK8sDown
<1>2. Continue /\ i < 2 => On("none", script["k8s_down"], i + 1)'
  BY <1>1, ShortSteps, GoOn
<1>3. CASE i = 1
  BY <1>2, <1>3, K8sDownPlace, DeleteClusterStep, Stopped
     DEF Here, OnK8sDown
<1>4. CASE i = 2
  <2>1. asked' = "none" /\ Tail(steps) = <<>>
    BY <1>1, <1>4, K8sDownPlace DEF On
  <2> QED
    BY <1>4, <2>1, K8sDownPlace, UpStep, EndedAlone, Stopped DEF Here
<1> QED
  BY <1>1, <1>3, <1>4

(* A step of kfp_up ends it, or leads to its next place with that place's facts. *)
LEMMA KfpUpNext ==
    ASSUME Safe, NEW i, OnKfpUp(i), Step
    PROVE  Idle' \/ (i < 2 /\ OnKfpUp(i + 1)')
<1>1. On("none", script["kfp_up"], i) /\ i \in 1 .. 2 /\ UNCHANGED asked
  BY KfpUpPlace, AskedStays DEF OnKfpUp
<1>2. Continue /\ i < 2 => On("none", script["kfp_up"], i + 1)'
  BY <1>1, ShortSteps, GoOn
<1>3. CASE i = 1
  BY <1>2, <1>3, KfpUpPlace, CheckStep, Stopped, Caps
     DEF Here, OnKfpUp, check, Trimmed, NodeFits, Blind
<1>4. CASE i = 2
  <2>1. asked' = "none" /\ Tail(steps) = <<>>
    BY <1>1, <1>4, KfpUpPlace DEF On
  <2> QED
    BY <1>4, <2>1, KfpUpPlace, InstallStep, EndedAlone, Stopped DEF Here
<1> QED
  BY <1>1, <1>3, <1>4

(* A step of kfp_down ends it, or leads to its next place with that place's facts. *)
LEMMA KfpDownNext ==
    ASSUME Safe, NEW i, OnKfpDown(i), Step
    PROVE  Idle' \/ (i < 4 /\ OnKfpDown(i + 1)')
<1>1. On("none", kfp_down, i) /\ i \in 1 .. 4 /\ UNCHANGED asked
  BY KfpDownPlace, AskedStays DEF OnKfpDown
<1>2. Continue /\ i < 4 => On("none", kfp_down, i + 1)'
  BY <1>1, KfpDownSteps, GoOn
<1>3. CASE i = 1
  BY <1>2, <1>3, KfpDownPlace, ExistsStep, Stopped
     DEF Here, OnKfpDown
<1>4. CASE i = 2
  BY <1>2, <1>4, KfpDownPlace, DeleteStep, Stopped
     DEF Here, OnKfpDown
<1>5. CASE i = 3
  BY <1>2, <1>5, KfpDownPlace, AwaitGoneStep, Stopped
     DEF Here, OnKfpDown
<1>6. CASE i = 4
  <2>1. asked' = "none" /\ Tail(steps) = <<>>
    BY <1>1, <1>6, KfpDownPlace DEF On
  <2> QED
    BY <1>6, <2>1, KfpDownPlace, UpdateCapStep, EndedAlone, Stopped DEF Here
<1> QED
  BY <1>1, <1>3, <1>4, <1>5, <1>6

(* A step of autoscaling_up ends it, or leads to its next place with that place's facts. *)
LEMMA AutoscalingUpNext ==
    ASSUME Safe, NEW i, OnAutoscalingUp(i), Step
    PROVE  Idle' \/ (i < 2 /\ OnAutoscalingUp(i + 1)')
<1>1. On("none", script["autoscaling_up"], i) /\ i \in 1 .. 2 /\ UNCHANGED asked
  BY AutoscalingUpPlace, AskedStays DEF OnAutoscalingUp
<1>2. Continue /\ i < 2 => On("none", script["autoscaling_up"], i + 1)'
  BY <1>1, ShortSteps, GoOn
<1>3. CASE i = 1
  BY <1>2, <1>3, AutoscalingUpPlace, CheckStep, Stopped
     DEF Here, OnAutoscalingUp
<1>4. CASE i = 2
  <2>1. asked' = "none" /\ Tail(steps) = <<>>
    BY <1>1, <1>4, AutoscalingUpPlace DEF On
  <2> QED
    BY <1>4, <2>1, AutoscalingUpPlace, InstallStep, EndedAlone, Stopped DEF Here
<1> QED
  BY <1>1, <1>3, <1>4

(* A step of autoscaling_down ends it, or leads to its next place with that place's facts. *)
LEMMA AutoscalingDownNext ==
    ASSUME NEW i, OnAutoscalingDown(i), Step
    PROVE  Idle'
<1>1. On("none", script["autoscaling_down"], i) /\ i \in 1 .. 1 /\ UNCHANGED asked
  BY AutoscalingDownPlace, AskedStays DEF OnAutoscalingDown
<1>2. CASE i = 1
  <2>1. asked' = "none" /\ Tail(steps) = <<>>
    BY <1>1, <1>2, AutoscalingDownPlace DEF On
  <2> QED
    BY <1>2, <2>1, AutoscalingDownPlace, DeleteStep, EndedAlone, Stopped DEF Here
<1> QED
  BY <1>1, <1>2

(* A step of the way that creates the cluster ends it, or leads to its next place with that place's facts. *)
LEMMA CreatingNext ==
    ASSUME Safe, NEW i, OnCreating(i), Step
    PROVE  Idle' \/ (i < 5 /\ OnCreating(i + 1)')
<1>1. On("k8s", creating, i) /\ i \in 1 .. 5 /\ UNCHANGED asked
  BY CreatingPlace, AskedStays DEF OnCreating
<1>2. Continue /\ i < 5 => On("k8s", creating, i + 1)'
  BY <1>1, CreatingSteps, GoOn
<1>3. CASE i = 1
  BY <1>2, <1>3, CreatingPlace, TrimStep, Stopped
     DEF Here, OnCreating, Trimmed
<1>4. CASE i = 2
  BY <1>2, <1>4, CreatingPlace, StopMovedStep, Stopped
     DEF Here, OnCreating, Trimmed
<1>5. CASE i = 3
  BY <1>2, <1>5, CreatingPlace, CreateStep, Stopped
     DEF Here, OnCreating, Trimmed, Plain, Safe, NoCluster, Blind
<1>6. CASE i = 4
  BY <1>2, <1>6, CreatingPlace, UpdateCapStep, Stopped
     DEF Here, OnCreating, Trimmed, Plain, Blind
<1>7. CASE i = 5
  <2>1. /\ asked' = "k8s" /\ Tail(steps) = <<>>
        /\ node = "running" /\ cap = 6 /\ kfp = "none" /\ (keda = "none" \/ Blind) /\ Trimmed("k8s")
        /\ UNCHANGED <<node, cap, kfp, keda>> /\ Continue
        /\ (compose' = compose \cup Started("airflow") \/ Blind') /\ (Blind => Blind')
    BY <1>1, <1>7, CreatingPlace, UpStep DEF Here, On, OnCreating, Plain
  <2>2. CASE Blind \/ Blind'
    BY <2>1, <2>2, EndedIn
  <2>3. CASE ~Blind /\ ~Blind'
    <3>1. check("k8s")'
      BY <2>1, <2>3, Caps, Envelopes DEF check, NodeFits, Trimmed
    <3> QED
      BY <2>1, <3>1, EndedIn
  <2> QED
    BY <2>2, <2>3
<1> QED
  BY <1>1, <1>3, <1>4, <1>5, <1>6, <1>7

(* A step of the last steps to k8s mode ends it, or leads to its next place with that place's facts. *)
LEMMA FinishingNext ==
    ASSUME Safe, NEW i, OnFinishing(i), Step
    PROVE  Idle' \/ (i < 7 /\ OnFinishing(i + 1)')
<1>1. On("k8s", finishing, i) /\ i \in 1 .. 7 /\ UNCHANGED asked
  BY FinishingPlace, AskedStays DEF OnFinishing
<1>2. Continue /\ i < 7 => On("k8s", finishing, i + 1)'
  BY <1>1, FinishingSteps, GoOn
<1>3. CASE i = 1
  BY <1>2, <1>3, FinishingPlace, TrimStep, Stopped
     DEF Here, OnFinishing, Plain, Trimmed
<1>4. CASE i = 2
  BY <1>2, <1>4, FinishingPlace, UpStep, Stopped, Envelopes
     DEF Here, OnFinishing, Plain, Trimmed, Modes
<1>5. CASE i = 3
  BY <1>2, <1>5, FinishingPlace, StopMovedStep, Stopped
     DEF Here, OnFinishing, Plain, Trimmed
<1>6. CASE i = 4
  BY <1>2, <1>6, FinishingPlace, CreateStep, Stopped
     DEF Here, OnFinishing, Plain, Trimmed, Blind
<1>7. CASE i = 5
  BY <1>2, <1>7, FinishingPlace, UpdateCapStep, Stopped
     DEF Here, OnFinishing, Plain, Trimmed, Blind
<1>8. CASE i = 6
  BY <1>2, <1>8, FinishingPlace, UpStep, Stopped, Envelopes
     DEF Here, OnFinishing, Plain, Trimmed
<1>9. CASE i = 7
  <2>1. /\ asked' = "k8s" /\ Tail(steps) = <<>> /\ node = "running" /\ cap = 6
        /\ UNCHANGED <<node, cap, kfp, keda, compose>>
        /\ (Continue /\ ((\E m \in Modes : check(m)) \/ Blind') /\ (Blind => Blind')) \/ Fail
    BY <1>1, <1>9, FinishingPlace, StatusStep DEF Here, On, OnFinishing, Plain
  <2>2. (\E m \in Modes : check(m)) => check("k8s")
    BY <2>1, CapTellsMode, Caps
  <2>3. check("k8s") => check("k8s")'
    BY <2>1 DEF check, NodeFits
  <2> QED
    BY <2>1, <2>2, <2>3, EndedIn, Stopped
<1> QED
  BY <1>1, <1>3, <1>4, <1>5, <1>6, <1>7, <1>8, <1>9

(* Every way to k8s mode ends in the same last steps. *)
LEMMA FinishingStarts ==
    ASSUME Goto(finishing), asked' = "k8s", Plain', (cap = 6)'
    PROVE  OnFinishing(1)'
<1>1. On("k8s", finishing, 1)'
  BY NotEmpty, FinishingSteps, Start
<1> QED
  BY <1>1 DEF OnFinishing

(* A step of the way from scale mode to k8s mode ends it, or leads to its next place with that place's facts. *)
LEMMA LeavingScaleNext ==
    ASSUME NEW i, OnLeavingScale(i), Step
    PROVE  Idle' \/ OnFinishing(1)'
<1>1. asked' = "k8s" /\ Plain /\ Tail(steps) = finishing /\ Here("set_cap", "k8s")
  BY LeavingScalePlace, AskedStays DEF OnLeavingScale, On
<1>2. UNCHANGED <<node, kfp>> /\ ((cap' = 6 /\ Continue) \/ Fail)
  BY <1>1, SetCapStep, Caps DEF Here
<1>3. CASE Fail
  BY <1>3, Stopped
<1>4. CASE cap' = 6 /\ Continue
  <2>1. Goto(finishing) /\ Plain'
    BY <1>1, <1>2, <1>4 DEF Continue, Plain
  <2> QED
    BY <1>1, <1>4, <2>1, FinishingStarts
<1> QED
  BY <1>2, <1>3, <1>4

(* A step of the way from a stopped node to k8s mode ends it, or leads to its next place with that place's facts. *)
LEMMA ThroughKfpNext ==
    ASSUME Safe, NEW i, OnThroughKfp(i), Step
    PROVE  Idle' \/ (i < 4 /\ OnThroughKfp(i + 1)') \/ OnLeavingScale(1)' \/ OnLeavingKfp(1)'
<1>1. On("k8s", through_kfp, i) /\ i \in 1 .. 4 /\ UNCHANGED asked
  BY ThroughKfpPlace, AskedStays DEF OnThroughKfp
<1>2. Continue /\ i < 4 => On("k8s", through_kfp, i + 1)'
  <2>1. through_kfp \in Seq(Commands)
    BY ThroughKfpSteps
  <2>2. i < 4 => i < Len(through_kfp)
    <3>1. Len(through_kfp) = 11
      BY ThroughKfpSteps
    <3> QED
      BY <1>1, <3>1
  <2> QED
    BY <1>1, <2>1, <2>2, GoOn
<1>3. CASE i = 1
  BY <1>2, <1>3, ThroughKfpPlace, TrimStep, Stopped
     DEF Here, OnThroughKfp, Trimmed
<1>4. CASE i = 2
  BY <1>2, <1>4, ThroughKfpPlace, SetCapStep, Stopped, Caps
     DEF Here, OnThroughKfp, Trimmed, Blind
<1>5. CASE i = 3
  BY <1>2, <1>5, ThroughKfpPlace, NodeStep, Stopped
     DEF Here, OnThroughKfp, Trimmed, Blind
<1>6. CASE i = 4
  <2>1. asked' = "k8s" /\ node = "running" /\ Tail(steps) = finishing /\ Verb = "leave"
    BY <1>1, <1>6, ThroughKfpPlace DEF OnThroughKfp, On, Here
  <2>2. LeaveKfp
    BY <2>1, Taken DEF Step, Here
  <2>3. UNCHANGED <<node, cap, kfp, keda>>
    BY <2>2 DEF LeaveKfp, cluster
  <2>4. CASE kfp = "none"
    <3>1. Goto(leaving_scale)
      BY <2>1, <2>2, <2>4 DEF LeaveKfp, leaving_scale
    <3>2. On("k8s", leaving_scale, 1)'
      BY <2>1, <3>1, NotEmpty, LeavingScaleSteps, Start
    <3> QED
      BY <2>1, <2>3, <2>4, <3>2 DEF OnLeavingScale, Plain
  <2>5. CASE kfp # "none"
    <3>1. Goto(leaving_kfp)
      BY <2>1, <2>2, <2>5 DEF LeaveKfp, leaving_kfp
    <3>2. On("k8s", leaving_kfp, 1)'
      BY <2>1, <3>1, NotEmpty, LeavingKfpSteps, Start
    <3> QED
      BY <2>1, <2>3, <3>2 DEF OnLeavingKfp
  <2> QED
    BY <2>4, <2>5
<1> QED
  BY <1>1, <1>3, <1>4, <1>5, <1>6

(* A step of the way from kfp mode to k8s mode ends it, or leads to its next place with that place's facts. *)
LEMMA LeavingKfpNext ==
    ASSUME Safe, NEW i, OnLeavingKfp(i), Step
    PROVE  Idle' \/ (i < 4 /\ OnLeavingKfp(i + 1)') \/ OnFinishing(1)'
<1>1. On("k8s", leaving_kfp, i) /\ i \in 1 .. 4 /\ UNCHANGED asked
  BY LeavingKfpPlace, AskedStays DEF OnLeavingKfp
<1>2. Continue /\ i < 4 => On("k8s", leaving_kfp, i + 1)'
  <2>1. leaving_kfp \in Seq(Commands)
    BY LeavingKfpSteps
  <2>2. i < 4 => i < Len(leaving_kfp)
    <3>1. Len(leaving_kfp) = 11
      BY LeavingKfpSteps
    <3> QED
      BY <1>1, <3>1
  <2> QED
    BY <1>1, <2>1, <2>2, GoOn
<1>3. CASE i = 1
  BY <1>2, <1>3, LeavingKfpPlace, ExistsStep, Stopped
     DEF Here, OnLeavingKfp
<1>4. CASE i = 2
  BY <1>2, <1>4, LeavingKfpPlace, DeleteStep, Stopped
     DEF Here, OnLeavingKfp
<1>5. CASE i = 3
  BY <1>2, <1>5, LeavingKfpPlace, AwaitGoneStep, Stopped
     DEF Here, OnLeavingKfp
<1>6. CASE i = 4
  <2>1. /\ asked' = "k8s" /\ node = "running" /\ kfp = "none" /\ Tail(steps) = finishing
        /\ Verb = "update_cap"
    BY <1>1, <1>6, LeavingKfpPlace DEF OnLeavingKfp, On, Here
  <2>2. Continue /\ cap' = 6 /\ UNCHANGED <<node, kfp>>
    BY <2>1, UpdateCapStep
  <2>3. Goto(finishing) /\ Plain'
    BY <2>1, <2>2 DEF Continue, Plain
  <2> QED
    BY <2>1, <2>2, <2>3, FinishingStarts
<1> QED
  BY <1>1, <1>3, <1>4, <1>5, <1>6

(* to_k8s() hands over to one of the ways, in the state that way starts from. *)
LEMMA K8sNext ==
    ASSUME Safe, NEW i, OnK8s(i), Step
    PROVE  Idle' \/ OnCreating(1)' \/ OnLeavingScale(1)' \/ OnThroughKfp(1)' \/ OnFinishing(1)'
<1>1. Verb = "to_k8s" /\ asked' = "k8s"
  BY K8sPlace, AskedStays DEF OnK8s, On, Here
<1>2. to_k8s /\ UNCHANGED <<node, cap, kfp, keda, compose>>
  <2>1. to_k8s
    BY <1>1, Taken DEF Step, Here
  <2> QED
    BY <2>1 DEF to_k8s, cluster
<1>3. PICK exists \in BOOLEAN, hasKeda \in BOOLEAN,
           inScale \in Answers(node = "running" /\ cap = 11 /\ kfp = "none"),
           atCap \in Answers(node = "running" /\ cap = 6) :
          /\ \/ ~exists /\ Goto(creating)
             \/ Fail
             \/ inScale /\ Goto(leaving_scale)
             \/ Goto(through_kfp)
             \/ atCap /\ kfp = "none" /\ Goto(finishing)
          /\ Swallow(~exists /\ node # "absent")
  BY <1>2, Caps DEF to_k8s, Answers, creating, leaving_scale, through_kfp, finishing
<1>4. /\ inScale => node = "running" /\ kfp = "none"
      /\ atCap => node = "running" /\ cap = 6
      /\ ~exists => node = "absent" \/ Blind'
  BY <1>3 DEF Answers, Swallow, Blind
<1>5. CASE ~exists /\ Goto(creating)
  <2>1. On("k8s", creating, 1)'
    BY <1>1, <1>5, NotEmpty, CreatingSteps, Start
  <2> QED
    BY <1>2, <1>4, <1>5, <2>1 DEF OnCreating, Blind
<1>6. CASE Fail
  BY <1>6, Stopped
<1>7. CASE node = "running" /\ kfp = "none" /\ Goto(leaving_scale)
  <2>1. On("k8s", leaving_scale, 1)'
    BY <1>1, <1>7, NotEmpty, LeavingScaleSteps, Start
  <2> QED
    BY <1>2, <1>7, <2>1 DEF OnLeavingScale, Plain
<1>8. CASE Goto(through_kfp)
  <2>1. On("k8s", through_kfp, 1)'
    BY <1>1, <1>8, NotEmpty, ThroughKfpSteps, Start
  <2> QED
    BY <2>1 DEF OnThroughKfp
<1>9. CASE node = "running" /\ kfp = "none" /\ cap = 6 /\ Goto(finishing)
  BY <1>1, <1>2, <1>9, FinishingStarts DEF Plain
<1> QED
  BY <1>3, <1>4, <1>5, <1>6, <1>7, <1>8, <1>9

(* The scripts and what they are called by. *)
LEMMA Scripts ==
    /\ DOMAIN script = {"compose", "kfp", "scale", "k8s", "k8s_up", "k8s_down", "kfp_up",
                        "kfp_down", "autoscaling_up", "autoscaling_down"}
    /\ script["compose"] = to_compose /\ script["kfp"] = to_kfp /\ script["scale"] = to_scale
    /\ script["k8s_up"] = k8s_up /\ script["kfp_down"] = kfp_down
BY DEF script

(* A script starts at its first step, about which nothing has to be known. *)
LEMMA RunStarts ==
    ASSUME Run
    PROVE  Somewhere(1)'
<1>1. PICK name \in DOMAIN script :
          Goto(script[name]) /\ asked' = IF name \in Modes THEN name ELSE "none"
  BY DEF Run
<1> USE Start, NotEmpty DEF Somewhere
<1>2. CASE name = "compose"
  <2>1. On("compose", to_compose, 1)'
    BY <1>1, <1>2, Scripts, ComposeSteps DEF Modes
  <2> QED
    BY <2>1 DEF OnCompose
<1>3. CASE name = "kfp"
  <2>1. On("kfp", to_kfp, 1)'
    BY <1>1, <1>3, Scripts, KfpSteps DEF Modes
  <2> QED
    BY <2>1 DEF OnKfp
<1>4. CASE name = "scale"
  <2>1. On("scale", to_scale, 1)'
    BY <1>1, <1>4, Scripts, ScaleSteps DEF Modes
  <2> QED
    BY <2>1 DEF OnScale
<1>5. CASE name = "k8s"
  <2>1. On("k8s", script["k8s"], 1)'
    BY <1>1, <1>5, ShortSteps DEF Modes
  <2> QED
    BY <2>1 DEF OnK8s
<1>6. CASE name = "k8s_up"
  <2>1. On("none", k8s_up, 1)'
    BY <1>1, <1>6, Scripts, K8sUpSteps DEF Modes
  <2> QED
    BY <2>1 DEF OnK8sUp
<1>7. CASE name = "k8s_down"
  <2>1. On("none", script["k8s_down"], 1)'
    BY <1>1, <1>7, ShortSteps DEF Modes
  <2> QED
    BY <2>1 DEF OnK8sDown
<1>8. CASE name = "kfp_up"
  <2>1. On("none", script["kfp_up"], 1)'
    BY <1>1, <1>8, ShortSteps DEF Modes
  <2> QED
    BY <2>1 DEF OnKfpUp
<1>9. CASE name = "kfp_down"
  <2>1. On("none", kfp_down, 1)'
    BY <1>1, <1>9, Scripts, KfpDownSteps DEF Modes
  <2> QED
    BY <2>1 DEF OnKfpDown
<1>10. CASE name = "autoscaling_up"
  <2>1. On("none", script["autoscaling_up"], 1)'
    BY <1>1, <1>10, ShortSteps DEF Modes
  <2> QED
    BY <2>1 DEF OnAutoscalingUp
<1>11. CASE name = "autoscaling_down"
  <2>1. On("none", script["autoscaling_down"], 1)'
    BY <1>1, <1>11, ShortSteps DEF Modes
  <2> QED
    BY <2>1 DEF OnAutoscalingDown
<1> QED
  BY <1>1, <1>2, <1>3, <1>4, <1>5, <1>6, <1>7, <1>8, <1>9, <1>10, <1>11, Scripts

(* A step from a known place leads to the end or to the next known place. *)
LEMMA StepProgress ==
    ASSUME Inv, Step
    PROVE  Progress'
<1>1. steps # <<>>
  BY DEF Step, Trim, StopMoved, Up, SetCap, UpdateCap, StopNode, StartNode, Ask, Status,
         CreateCluster, DeleteCluster, Install, Delete, AwaitGone, to_k8s, LeaveKfp, At
<1>2. PICK i \in 1 .. 11 : Somewhere(i)
  BY <1>1 DEF Inv, Progress, Idle
<1>3. Idle' \/ Somewhere(1)' \/ (i < 11 /\ Somewhere(i + 1)')
  <2>1. CASE OnCompose(i) \/ OnKfp(i) \/ OnScale(i)
    BY <2>1, ComposeNext, KfpNext, ScaleNext DEF Inv, Somewhere
  <2>2. CASE OnK8s(i) \/ OnLeavingScale(i)
    BY <2>2, K8sNext, LeavingScaleNext DEF Inv, Somewhere
  <2>3. CASE OnCreating(i) \/ OnFinishing(i)
    BY <2>3, CreatingNext, FinishingNext DEF Inv, Somewhere
  <2>4. CASE OnThroughKfp(i) \/ OnLeavingKfp(i)
    BY <2>4, ThroughKfpNext, LeavingKfpNext DEF Inv, Somewhere
  <2>5. CASE OnK8sUp(i) \/ OnK8sDown(i)
    BY <2>5, K8sUpNext, K8sDownNext DEF Inv, Somewhere
  <2>6. CASE OnKfpUp(i) \/ OnKfpDown(i)
    BY <2>6, KfpUpNext, KfpDownNext DEF Inv, Somewhere
  <2>7. CASE OnAutoscalingUp(i) \/ OnAutoscalingDown(i)
    BY <2>7, AutoscalingUpNext, AutoscalingDownNext DEF Inv, Somewhere
  <2> QED
    BY <1>2, <2>1, <2>2, <2>3, <2>4, <2>5, <2>6, <2>7 DEF Somewhere
<1>4. CASE Idle'
  BY <1>4 DEF Progress
<1>5. CASE Somewhere(1)'
  BY <1>5 DEF Progress
<1>6. CASE i < 11 /\ Somewhere(i + 1)'
  <2>1. i + 1 \in 1 .. 11
    BY <1>2, <1>6
  <2> QED
    BY <1>6, <2>1 DEF Progress
<1> QED
  BY <1>3, <1>4, <1>5, <1>6

(* A namespace that goes away takes nothing with it that a script relies on. *)
LEMMA Undisturbed ==
    ASSUME Inv, UNCHANGED <<node, cap, compose, steps, asked, exit, swallowed>>,
           kfp' \in {kfp, "none"}, keda' \in {keda, "none"}
    PROVE  Progress'
<1>1. CASE Idle
  <2>1. exit = "ok" /\ asked # "none" => check(asked)' \/ swallowed' = "now"
    BY <1>1 DEF Idle, ExitTellsMode, check, NodeFits
  <2> QED
    BY <1>1, <2>1 DEF Progress, Idle, ExitTellsMode
<1>2. CASE \E i \in 1 .. 11 : Somewhere(i)
  <2>1. PICK i \in 1 .. 11 : Somewhere(i)
    BY <1>2
  <2>2. Somewhere(i)'
    BY <2>1 DEF Somewhere, OnCompose, OnKfp, OnScale, OnK8s, OnCreating, OnFinishing,
              OnLeavingScale, OnThroughKfp, OnLeavingKfp, OnK8sUp, OnK8sDown, OnKfpUp,
              OnKfpDown, OnAutoscalingUp, OnAutoscalingDown, On, Plain, Trimmed, Blind
  <2> QED
    BY <2>2 DEF Progress
<1> QED
  BY <1>1, <1>2 DEF Inv, Progress

(* Every step keeps the script at a place about which its facts hold. *)
LEMMA ProgressKept ==
    ASSUME Inv, [Next]_vars
    PROVE  Progress'
<1>1. CASE Run
  BY <1>1, RunStarts DEF Progress
<1>2. CASE Step
  BY <1>2, StepProgress
<1>3. CASE NamespaceGone
  BY <1>3, Undisturbed DEF NamespaceGone
<1>4. CASE Interrupt
  BY <1>4, Stopped DEF Interrupt, Progress
<1>5. CASE UNCHANGED vars
  BY <1>5, Undisturbed DEF vars, cluster
<1> QED
  BY <1>1, <1>2, <1>3, <1>4, <1>5 DEF Next

-----------------------------------------------------------------------------
(***************************************************************************)
(* Theorems                                                                *)
(***************************************************************************)

(***************************************************************************)
(* The inductive invariant: whatever scripts were run, completed, refused  *)
(* or interrupted in whatever order, the script at work stands where what  *)
(* its steps so far established still holds; the facts it owes to Compose, *)
(* and to a question that may go unanswered, only while it went past no    *)
(* failure itself.                                                         *)
(***************************************************************************)
THEOREM ModesInvariantHolds == Spec => []Inv
<1>1. Init => Inv
  <2> SUFFICES ASSUME Init PROVE Inv
    OBVIOUS
  <2>1. Safe
    BY DEF Init, Safe, Types, NoCluster, KfpHasRoom, NeverTogether
  <2>2. Idle
    BY DEF Init, Idle, ExitTellsMode
  <2> QED
    BY <2>1, <2>2 DEF Inv, Progress
<1>2. Inv /\ [Next]_vars => Inv'
  BY SafetyKept, ProgressKept DEF Inv
<1> QED
  BY <1>1, <1>2, PTL DEF Spec

(***************************************************************************)
(* A running node that may still hold KFP has the KFP cap, after any       *)
(* sequence of scripts, complete, failed or interrupted at any of their    *)
(* steps, whatever went unanswered on the way.  It has only the kfp set    *)
(* next to it unless a script went past a failure it did not look at       *)
(* since the node last stopped or Compose was last trimmed to that set.    *)
(***************************************************************************)
THEOREM KfpAlwaysHasRoom == Spec => []KfpHasRoom
<1>1. Inv => KfpHasRoom
  BY DEF Inv, Safe
<1> QED
  BY <1>1, ModesInvariantHolds, PTL

(***************************************************************************)
(* The services that exist in Compose and in the cluster do not run in     *)
(* both, after any sequence of scripts, unless a script went past a        *)
(* failure it did not look at since the node last stopped or Compose was   *)
(* last trimmed to the kfp set.                                            *)
(***************************************************************************)
THEOREM ServicesRunOnce == Spec => []NeverTogether
<1>1. Inv => NeverTogether
  BY DEF Inv, Safe
<1> QED
  BY <1>1, ModesInvariantHolds, PTL

(***************************************************************************)
(* mode.sh exits with 0 only in the mode it was asked for, from whatever   *)
(* state it was started in, unless it went past a failure itself: what     *)
(* earlier scripts went past does not matter.                              *)
(***************************************************************************)
THEOREM ExitIsTrue == Spec => []ExitTellsMode
<1>1. Inv => ExitTellsMode
  <2> SUFFICES ASSUME Inv PROVE ExitTellsMode
    OBVIOUS
  <2>1. CASE Idle
    BY <2>1 DEF Idle
  <2>2. CASE \E i \in 1 .. 11 : Somewhere(i)
    <3>1. exit = "running"
      BY <2>2 DEF Somewhere, OnCompose, OnKfp, OnScale, OnK8s, OnCreating, OnFinishing,
              OnLeavingScale, OnThroughKfp, OnLeavingKfp, OnK8sUp, OnK8sDown, OnKfpUp,
              OnKfpDown, OnAutoscalingUp, OnAutoscalingDown, On
    <3> QED
      BY <3>1 DEF ExitTellsMode
  <2> QED
    BY <2>1, <2>2 DEF Inv, Progress
<1> QED
  BY <1>1, ModesInvariantHolds, PTL
=============================================================================
