--------------------------- MODULE ReliableLanding ---------------------------
(***************************************************************************)
(* What the ingestor promises its neighbours (ARCHITECTURE.md, "at-least-  *)
(* once delivery + idempotent sink"): whatever it does in between, an      *)
(* observer of Postgres, of the dead-letter hand-over and of the group's   *)
(* committed offsets sees only                                             *)
(*   - a landing table that gains at most one row per event_id and never   *)
(*     loses or rewrites one,                                              *)
(*   - messages being handed to the dead-letter producer,                  *)
(*   - offsets committed over messages that are accounted for already.     *)
(* A committed offset may go back: that only causes a redelivery.          *)
(***************************************************************************)
EXTENDS EventLog

VARIABLES
    landing,        \* the rows of landing.higgs_*_events
    handed,         \* the messages given to the dead-letter producer
    committed       \* committed[p]: the group's next offset in partition p

vars == <<landing, handed, committed>>

RowOf(m) == [event |-> EventOf(m), partition |-> m[1], offset |-> m[2]]

Landed == {row.event : row \in landing}

(* Nothing more is owed to the message. *)
Accounted(m) == \/ KindOf(m) = "valid" /\ EventOf(m) \in Landed
                \/ KindOf(m) = "invalid" /\ m \in handed

(* The whole point: a committed offset is never a message lost. *)
NoLoss == \A p \in Partitions : \A o \in 0 .. (committed[p] - 1) : Accounted(<<p, o>>)

(* A redelivered or duplicated event lands once. *)
LandOnce == \A row1, row2 \in landing : row1.event = row2.event => row1 = row2

-----------------------------------------------------------------------------

Init == /\ landing = {}
        /\ handed = {}
        /\ committed = [p \in Partitions |-> 0]

Rows == {RowOf(m) : m \in Messages}

Land == /\ landing \subseteq landing'
        /\ landing' \subseteq Rows
        /\ LandOnce'
        /\ UNCHANGED <<handed, committed>>

Quarantine(m) == /\ KindOf(m) = "invalid"
                 /\ handed' = handed \cup {m}
                 /\ UNCHANGED <<landing, committed>>

Commit == /\ committed' \in [Partitions -> Nat]
          /\ \A p \in Partitions : committed'[p] <= LogEnd(p)
          /\ NoLoss'
          /\ UNCHANGED <<landing, handed>>

Next == Land \/ (\E m \in Messages : Quarantine(m)) \/ Commit

Spec == Init /\ [][Next]_vars
=============================================================================
