--------------------------- MODULE ServedFeatures ---------------------------
(***************************************************************************)
(* What the online store promises to the jobs that fill it: it holds only  *)
(* curated rows, a row leaves it only when the store loses it, and a job   *)
(* that reports success leaves every row it set out to serve in the store. *)
(* A row lost on the way is forgiven; a job that fails owes nothing more.  *)
(***************************************************************************)
CONSTANTS
    Rows,
    Jobs

VARIABLES
    curated,        \* the rows of the offline store
    online,         \* the rows of the online store
    owed,           \* owed[j]: what job j set out to serve, less what has been lost since
    finished        \* the jobs that have reported success

served == <<curated, online, owed, finished>>

Init == /\ curated \in SUBSET Rows
        /\ online = {}
        /\ owed = [j \in Jobs |-> {}]
        /\ finished = {}

Curate == /\ curated' \in SUBSET Rows
          /\ curated \subseteq curated'
          /\ UNCHANGED <<online, owed, finished>>

Undertake(j) == /\ j \notin finished
                /\ \E rows \in SUBSET curated : owed' = [owed EXCEPT ![j] = rows]
                /\ UNCHANGED <<curated, online, finished>>

Serve == /\ \E rows \in SUBSET curated : online' = online \cup rows
         /\ UNCHANGED <<curated, owed, finished>>

(* A failing job may have served some of its rows. *)
Abandon(j) == /\ j \notin finished
              /\ \E rows \in SUBSET curated : online' = online \cup rows
              /\ owed' = [owed EXCEPT ![j] = {}]
              /\ UNCHANGED <<curated, finished>>

Finish(j) == /\ j \notin finished
             /\ owed[j] \subseteq online
             /\ finished' = finished \cup {j}
             /\ UNCHANGED <<curated, online, owed>>

Lose == /\ \E rows \in SUBSET online :
               /\ online' = online \ rows
               /\ owed' = [j \in Jobs |-> owed[j] \ rows]
        /\ UNCHANGED <<curated, finished>>

Next == \/ Curate \/ Serve \/ Lose
        \/ \E j \in Jobs : Undertake(j) \/ Abandon(j) \/ Finish(j)

Spec == Init /\ [][Next]_served
=============================================================================
