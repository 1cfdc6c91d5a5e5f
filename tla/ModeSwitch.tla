----------------------------- MODULE ModeSwitch -----------------------------
(***************************************************************************)
(* The resource modes of the stack (scripts/mode.sh and the scripts it     *)
(* calls or shares the node with).  A script is the sequence of the steps  *)
(* it still has to take; a step reads the node, the cluster and Compose as *)
(* they are, not as an earlier step left them.  One script runs at a time, *)
(* and any of them may stop at any step: a command fails under `set -e`,   *)
(* or the operator presses Ctrl-C.  Where `set -e` does not see a command  *)
(* fail (a question in a condition, a process substitution, the words of   *)
(* another command), the script goes on as if the answer was empty.        *)
(*                                                                         *)
(* The set of running Compose services is taken by groups; a group counts  *)
(* as running while any service of it runs.  Caps are in half gibibytes.   *)
(***************************************************************************)
EXTENDS Naturals, Sequences

VARIABLES
    node,           \* amel-control-plane: absent, stopped or running
    cap,            \* its memory cap; 0: none
    kfp, keda,      \* the namespaces kubeflow and keda: none, installed or terminating
    compose,        \* the groups of Compose services that run
    steps,          \* what the script at work still has to do
    asked,          \* the mode the last script was to reach, or none
    exit,           \* running, ok or failed
    interrupted,    \* history: the last script was stopped on its way
    swallowed       \* history: since the node last stopped, or Compose was trimmed to the
                    \* kfp set, a script went on after a failure it did not look at, one
                    \* that made a difference: no, before (an earlier script), now (the last)

cluster == <<node, cap, kfp, keda>>
vars == <<cluster, compose, steps, asked, exit, interrupted, swallowed>>

Modes == {"compose", "k8s", "scale", "kfp"}

(* keep: postgres, minio, mlflow; moved: the four services that run in the cluster *)
Services == {"keep", "airflow", "moved", "rest"}

allowed == [compose |-> Services, k8s |-> Services \ {"moved"},
            scale |-> {"keep", "rest"}, kfp |-> {"keep"}]

cap_for == [k8s |-> 6, scale |-> 11, kfp |-> 12]

NodeFits(mode) ==
    IF mode = "compose"
    THEN node # "running"
    ELSE /\ node = "running" /\ cap = cap_for[mode]
         /\ mode # "kfp" => kfp = "none"
         /\ mode = "k8s" => keda = "none"

check(mode) == compose \subseteq allowed[mode] /\ NodeFits(mode)

Swallow(condition) == swallowed' = IF condition THEN "now" ELSE swallowed

(* A question in a condition: the truth, or no when the command that asks fails. *)
Answers(truth) == {truth, FALSE}

(* check() exits with 0: also when `docker compose ps` fails in its process    *)
(* substitution, and, in compose mode, when docker inspect does.               *)
Checked(mode) == /\ check(mode) \/ mode = "compose" \/ NodeFits(mode)
                 /\ Swallow(~check(mode))

(* What trim_compose takes for running and not allowed: nothing, when              *)
(* `docker compose ps` fails; all that runs, when `docker compose config` does.    *)
Extra(mode) == {{}, compose \ allowed[mode]} \cup (IF mode = "kfp" THEN {} ELSE {compose})

-----------------------------------------------------------------------------
(***************************************************************************)
(* The scripts                                                             *)
(***************************************************************************)

(* Mutant: the node is started before Compose is trimmed. *)
start_node_untrimmed == << <<"set_cap", "kfp">>, <<"node", "start">>, <<"trim", "kfp">> >>

start_node_in_kfp_envelope == << <<"trim", "kfp">>, <<"set_cap", "kfp">>, <<"node", "start">> >>

kfp_down == << <<"cluster", "exists">>, <<"kfp", "delete">>, <<"kfp", "gone">>,
               <<"update_cap", "k8s">> >>

k8s_up == << <<"stop", "moved">>, <<"cluster", "create">>, <<"update_cap", "k8s">>,
             <<"up", "airflow">> >>

to_compose == << <<"node", "stop">>, <<"up", "compose">>, <<"status", "any">> >>

to_kfp == << <<"cluster", "exists">> >> \o start_node_in_kfp_envelope
          \o << <<"up", "kfp">>, <<"status", "any">> >>

to_scale == << <<"check", "k8s">>, <<"set_cap", "scale">>, <<"trim", "scale">>, <<"status", "any">> >>

script == [compose |-> to_compose, kfp |-> to_kfp, scale |-> to_scale,
           k8s |-> << <<"to_k8s", "k8s">> >>,
           k8s_up |-> k8s_up,
           k8s_down |-> << <<"cluster", "delete">>, <<"up", "handed_back">> >>,
           kfp_up |-> << <<"check", "kfp">>, <<"kfp", "install">> >>,
           kfp_down |-> kfp_down,
           autoscaling_up |-> << <<"check", "scale">>, <<"keda", "install">> >>,
           autoscaling_down |-> << <<"keda", "delete">> >>]

(* The groups a `docker compose up` starts. *)
Started(what) == CASE what = "airflow" -> {"airflow"}
                   [] what = "handed_back" -> {"airflow", "moved"}
                   [] OTHER -> allowed[what]

(* `up -d $(allowed k8s)` names no service, and starts all, when the question fails. *)
Starts(what) == {Started(what)} \cup (IF what = "k8s" THEN {Services} ELSE {})

-----------------------------------------------------------------------------
(***************************************************************************)
(* Steps                                                                   *)
(***************************************************************************)

At(step) == steps # <<>> /\ Head(steps) = step

Goto(rest) == /\ steps' = rest
              /\ exit' = IF rest = <<>> THEN "ok" ELSE "running"
Continue == Goto(Tail(steps))
Fail == steps' = <<>> /\ exit' = "failed"
Proceed(condition) == IF condition THEN Continue ELSE Fail

Init == /\ node = "absent" /\ cap = 0 /\ kfp = "none" /\ keda = "none"
        /\ compose = Services
        /\ steps = <<>> /\ asked = "none" /\ exit = "ok"
        /\ interrupted = FALSE /\ swallowed = "no"

Run == /\ steps = <<>>
       /\ \E name \in DOMAIN script :
              /\ Goto(script[name])
              /\ asked' = IF name \in Modes THEN name ELSE "none"
       /\ interrupted' = FALSE
       /\ swallowed' = IF swallowed = "now" THEN "before" ELSE swallowed
       /\ UNCHANGED <<cluster, compose>>

(* A service that is still found running fails the step. *)
Trim == /\ \E mode \in Modes :
               /\ At(<<"trim", mode>>)
               /\ \E extra \in Extra(mode) : compose' = compose \ extra
               /\ swallowed' = CASE ~(compose' \subseteq allowed[mode]) -> "now"
                                 [] mode = "kfp" /\ compose' \subseteq allowed["kfp"] -> "no"
                                 [] OTHER -> swallowed
        /\ Continue
        /\ UNCHANGED <<cluster, asked, interrupted>>

(* k8s_up does not look whether the services have stopped. *)
StopMoved ==
    /\ At(<<"stop", "moved">>)
    /\ \/ compose' = compose \ {"moved"} /\ UNCHANGED swallowed
       \/ "moved" \in compose /\ Swallow(TRUE) /\ UNCHANGED compose
    /\ Continue
    /\ UNCHANGED <<cluster, asked, interrupted>>

Up == /\ \E what \in Modes \cup {"airflow", "handed_back"} :
             /\ At(<<"up", what>>)
             /\ \E services \in Starts(what) :
                    /\ compose' = compose \cup services
                    /\ Swallow(services # Started(what))
      /\ Continue
      /\ UNCHANGED <<cluster, asked, interrupted>>

(* A cap is not lowered onto a running node whose workload may not fit. *)
SetCap ==
    /\ \E mode \in DOMAIN cap_for :
           /\ At(<<"set_cap", mode>>)
           /\ \/ cap' = cap_for[mode] /\ Continue
              \/ node = "running" /\ cap_for[mode] < cap /\ Fail /\ UNCHANGED cap
    /\ UNCHANGED <<node, kfp, keda, compose, asked, interrupted, swallowed>>

UpdateCap == /\ At(<<"update_cap", "k8s">>)
             /\ cap' = cap_for["k8s"]
             /\ Continue
             /\ UNCHANGED <<node, kfp, keda, compose, asked, interrupted, swallowed>>

(* Mutant: docker stop on a node that need not be there. *)
StopNodeUnchecked == /\ At(<<"node", "stop">>)
                     /\ IF node = "running"
                        THEN node' = "stopped" /\ Continue
                        ELSE Fail /\ UNCHANGED node
                     /\ UNCHANGED <<cap, kfp, keda, compose, asked, interrupted, swallowed>>

(* The node is left alone when docker inspect does not say that it runs. *)
StopNode == /\ At(<<"node", "stop">>)
            /\ \E seen \in Answers(node = "running") :
                   node' = IF seen THEN "stopped" ELSE node
            /\ swallowed' = IF node' = "running" THEN "now" ELSE "no"
            /\ Continue
            /\ UNCHANGED <<cap, kfp, keda, compose, asked, interrupted>>

StartNode == /\ At(<<"node", "start">>)
             /\ node' = "running"
             /\ Continue
             /\ UNCHANGED <<cap, kfp, keda, compose, asked, interrupted, swallowed>>

(* The questions a script asks before it goes on. *)
Ask == /\ \/ At(<<"cluster", "exists">>) /\ Proceed(node # "absent") /\ UNCHANGED swallowed
          \/ \E mode \in Modes :
                 /\ At(<<"check", mode>>)
                 /\ \/ Checked(mode) /\ Continue
                    \/ ~check(mode) /\ Fail /\ UNCHANGED swallowed
       /\ UNCHANGED <<cluster, compose, asked, interrupted>>

(* Mutant: the exit status of mode.sh is that of the last command before status. *)
StatusIgnored == /\ At(<<"status", "any">>)
                 /\ Continue
                 /\ UNCHANGED <<cluster, compose, asked, interrupted, swallowed>>

Status == /\ At(<<"status", "any">>)
          /\ \/ (\E mode \in Modes : Checked(mode)) /\ Continue
             \/ (\A mode \in Modes : ~check(mode)) /\ Fail /\ UNCHANGED swallowed
          /\ UNCHANGED <<cluster, compose, asked, interrupted>>

(* k8s_up: a new cluster, with a node without a cap, or one in k8s mode's state. *)
CreateCluster ==
    /\ At(<<"cluster", "create">>)
    /\ IF node = "absent"
       THEN node' = "running" /\ cap' = 0 /\ Continue
       ELSE /\ Proceed(node = "running" /\ kfp = "none" /\ cap = cap_for["k8s"])
            /\ UNCHANGED <<node, cap>>
    /\ UNCHANGED <<kfp, keda, compose, asked, interrupted, swallowed>>

(* k8s_down does not look whether the cluster is gone. *)
DeleteCluster ==
    /\ At(<<"cluster", "delete">>)
    /\ \/ /\ node' = "absent" /\ cap' = 0 /\ kfp' = "none" /\ keda' = "none"
          /\ swallowed' = "no"
       \/ node # "absent" /\ Swallow(TRUE) /\ UNCHANGED cluster
    /\ Continue
    /\ UNCHANGED <<compose, asked, interrupted>>

(* kubectl fails on a node that does not run and in a namespace on its way out. *)
Install ==
    /\ \/ /\ At(<<"kfp", "install">>)
          /\ kfp' = IF node = "running" /\ kfp = "none" THEN "installed" ELSE kfp
          /\ Proceed(node = "running" /\ kfp # "terminating")
          /\ UNCHANGED keda
       \/ /\ At(<<"keda", "install">>)
          /\ keda' = IF node = "running" /\ keda = "none" THEN "installed" ELSE keda
          /\ Proceed(node = "running" /\ keda # "terminating")
          /\ UNCHANGED kfp
    /\ UNCHANGED <<node, cap, compose, asked, interrupted, swallowed>>

(* No script insists that the namespace is gone when its delete returns. *)
Deleted(namespace) == IF node = "running" /\ namespace # "none" THEN "terminating" ELSE namespace

Delete == /\ \/ At(<<"kfp", "delete">>) /\ kfp' = Deleted(kfp) /\ UNCHANGED keda
             \/ At(<<"keda", "delete">>) /\ keda' = Deleted(keda) /\ UNCHANGED kfp
          /\ Proceed(node = "running")
          /\ UNCHANGED <<node, cap, compose, asked, interrupted, swallowed>>

(* Mutant: the cap is lowered when the delete was sent. *)
AwaitGoneNever == /\ At(<<"kfp", "gone">>)
                  /\ Continue
                  /\ UNCHANGED <<cluster, compose, asked, interrupted, swallowed>>

(* The loop of kfp_down, until the namespace is gone or the time is up. *)
AwaitGone == /\ At(<<"kfp", "gone">>)
             /\ Proceed(kfp = "none")
             /\ UNCHANGED <<cluster, compose, asked, interrupted, swallowed>>

NamespaceGone == /\ node = "running"
                 /\ \/ kfp = "terminating" /\ kfp' = "none" /\ UNCHANGED keda
                    \/ keda = "terminating" /\ keda' = "none" /\ UNCHANGED kfp
                 /\ UNCHANGED <<node, cap, compose, steps, asked, exit, interrupted, swallowed>>

(***************************************************************************)
(* to_k8s(): which way depends on where it starts; without a cluster it    *)
(* hands over to k8s_up, and nothing of mode.sh follows.                   *)
(***************************************************************************)
to_k8s ==
    LET finish == << <<"trim", "k8s">>, <<"up", "k8s">> >> \o k8s_up \o << <<"status", "any">> >>
    IN  /\ At(<<"to_k8s", "k8s">>)
        /\ \E exists \in Answers(node # "absent"),
              hasKeda \in Answers(node = "running" /\ keda # "none"),
              inScale \in Answers(node = "running" /\ cap = cap_for["scale"] /\ kfp = "none"),
              atCap \in Answers(node = "running" /\ cap = cap_for["k8s"]) :
              /\ \/ ~exists /\ Goto(<< <<"trim", "k8s">> >> \o k8s_up)
                 \/ exists /\ hasKeda /\ Fail
                 \/ exists /\ ~hasKeda /\ inScale /\ Goto(<< <<"set_cap", "k8s">> >> \o finish)
                 \/ /\ exists /\ ~hasKeda /\ ~inScale /\ ~atCap
                    /\ Goto(start_node_in_kfp_envelope \o << <<"leave", "kfp">> >> \o finish)
                 \/ /\ exists /\ ~hasKeda /\ ~inScale /\ atCap
                    /\ IF kfp = "none" THEN Goto(finish) ELSE Fail
              /\ Swallow(~exists /\ node # "absent")
        /\ UNCHANGED <<cluster, compose, asked, interrupted>>

LeaveKfp == /\ At(<<"leave", "kfp">>)
            /\ Goto((IF kfp = "none" THEN << <<"set_cap", "k8s">> >> ELSE kfp_down) \o Tail(steps))
            /\ UNCHANGED <<cluster, compose, asked, interrupted, swallowed>>

(* A step fails; a stop or a start of services may have been done in part. *)
Interrupt ==
    /\ steps # <<>> /\ Fail
    /\ LET verb == Head(steps)[1]
           what == Head(steps)[2]
       IN  \/ /\ verb = "trim"
              /\ \E extra \in Extra(what) : \E out \in SUBSET extra : compose' = compose \ out
              /\ UNCHANGED swallowed
           \/ /\ verb = "up"
              /\ \E services \in Starts(what) : \E in \in SUBSET services :
                     /\ compose' = compose \cup in
                     /\ Swallow(~(in \subseteq Started(what)))
           \/ verb \notin {"trim", "up"} /\ UNCHANGED <<compose, swallowed>>
    /\ interrupted' = TRUE
    /\ UNCHANGED <<cluster, asked>>

Step == \/ Trim \/ StopMoved \/ Up \/ SetCap \/ UpdateCap \/ StopNode \/ StartNode
        \/ Ask \/ Status \/ CreateCluster \/ DeleteCluster \/ Install \/ Delete \/ AwaitGone
        \/ to_k8s \/ LeaveKfp

Next == Run \/ Step \/ NamespaceGone \/ Interrupt

(* The scripts go on by themselves; nobody promises that a deletion ends. *)
Spec == Init /\ [][Next]_vars /\ WF_vars(Step)

-----------------------------------------------------------------------------
(***************************************************************************)
(* Properties                                                              *)
(***************************************************************************)

(***************************************************************************)
(* mode.sh, header: a node that may still hold KFP runs at the KFP cap, at *)
(* every step of every sequence of complete and interrupted scripts,       *)
(* whatever goes unanswered.  It runs next to nothing but the kfp set,     *)
(* unless a script did not look at a failure since the node last stopped   *)
(* or Compose was last trimmed to that set: trim_compose itself when       *)
(* `docker compose ps` fails, k8s_down when the cluster cannot be deleted. *)
(***************************************************************************)
KfpHasRoom == node = "running" /\ kfp # "none" =>
                  /\ cap = cap_for["kfp"]
                  /\ swallowed # "no" \/ compose \subseteq allowed["kfp"]

(***************************************************************************)
(* The four services that exist in both never run twice (two simulators    *)
(* would publish the same entities): no sequence of scripts has them in    *)
(* Compose while the node runs, unless a script did not look at a failure  *)
(* since the node last stopped or Compose was last trimmed to the kfp set. *)
(***************************************************************************)
NeverTogether == node = "running" /\ "moved" \in compose => swallowed # "no"

(***************************************************************************)
(* A mode script that exits with 0 has reached the mode it was asked for,  *)
(* not merely some mode, from whatever state earlier failures have left,   *)
(* unless it went past a failure itself.                                   *)
(***************************************************************************)
ExitTellsMode == exit = "ok" /\ asked # "none" => check(asked) \/ swallowed = "now"

(***************************************************************************)
(* Compose mode is the way out of every mixture of modes that failed and   *)
(* interrupted scripts leave behind (a stopped or missing cluster, a       *)
(* namespace that never goes away): mode.sh compose is not refused and     *)
(* reaches its mode, unless it is interrupted itself or docker inspect     *)
(* hides the running node from it.                                         *)
(***************************************************************************)
ComposeReached == (asked = "compose" /\ exit = "running")
                      ~> /\ exit # "running"
                         /\ interrupted \/ swallowed = "now" \/ (exit = "ok" /\ check("compose"))
=============================================================================
