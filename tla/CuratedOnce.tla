----------------------------- MODULE CuratedOnce -----------------------------
(***************************************************************************)
(* What the batch pipeline promises to whoever reads its tables, whatever  *)
(* runs overlap, fail and start again: a valid row that has landed is      *)
(* curated by one run and stays that run's, a row is only passed by when   *)
(* it is curated or invalid, a training record is made of both halves of   *)
(* its entity and made once, and a run is called a success only when its   *)
(* features are served and no pair of successful runs lacks its record.    *)
(***************************************************************************)
CONSTANTS
    Entities,
    Invalid,
    Runs,
    NoRun

VARIABLES
    landed,         \* the rows in the landing tables
    passed,         \* those of them that no later run looks at again
    curated,        \* the run that curated a row, or NoRun
    training,       \* the run that made an entity's training record, or NoRun
    online,         \* the entities in the online store
    succeeded       \* the runs recorded as a success

tables == <<landed, passed, curated, training, online, succeeded>>

Rows == {"features", "labels"} \X Entities

(* What is new becomes the run's, what is there stays whose it is. *)
Owned(owner, new, r) == [x \in DOMAIN owner |-> IF x \in new /\ owner[x] = NoRun THEN r ELSE owner[x]]

Halves(e) == {<<"features", e>>, <<"labels", e>>}
Pairs == {e \in Entities : \A row \in Halves(e) : curated[row] # NoRun}

Init == /\ landed = {} /\ passed = {} /\ online = {} /\ succeeded = {}
        /\ curated = [row \in Rows |-> NoRun]
        /\ training = [e \in Entities |-> NoRun]

Land == /\ \E rows \in SUBSET Rows : landed' = landed \cup rows
        /\ UNCHANGED <<passed, curated, training, online, succeeded>>

Curate(r) == /\ r \notin succeeded
             /\ \E batch \in SUBSET (landed \ Invalid) : curated' = Owned(curated, batch, r)
             /\ \E rows \in SUBSET {row \in landed : curated'[row] # NoRun \/ row \in Invalid} :
                    passed' = passed \cup rows
             /\ UNCHANGED <<landed, training, online, succeeded>>

Join(r) == /\ r \notin succeeded
           /\ \E pairs \in SUBSET Pairs : training' = Owned(training, pairs, r)
           /\ UNCHANGED <<landed, passed, curated, online, succeeded>>

Serve == /\ \E entities \in SUBSET {e \in Entities : curated[<<"features", e>>] # NoRun} :
                online' = online \cup entities
         /\ UNCHANGED <<landed, passed, curated, training, succeeded>>

Succeed(r) == /\ r \notin succeeded
              /\ succeeded' = succeeded \cup {r}
              /\ \A e \in Entities : curated[<<"features", e>>] = r => e \in online
              /\ \A e \in Pairs : (\A row \in Halves(e) : curated[row] \in succeeded')
                                      => training[e] # NoRun
              /\ UNCHANGED <<landed, passed, curated, training, online>>

(* The last task of a run fails after it has recorded the success. *)
Revoke(r) == /\ succeeded' = succeeded \ {r}
             /\ UNCHANGED <<landed, passed, curated, training, online>>

Next == \/ Land \/ Serve
        \/ \E r \in Runs : Curate(r) \/ Join(r) \/ Succeed(r) \/ Revoke(r)

Spec == Init /\ [][Next]_tables
=============================================================================
