------------------------------ MODULE EventLog ------------------------------
(***************************************************************************)
(* The contents of the input topics `higgs.features.v1` and                *)
(* `higgs.labels.v1`, which every consumer of them sees alike.  A message  *)
(* is named by its partition and its offset, as the ingestor names it      *)
(* (src/services/stream_ingestor, consumer.py: key, offset).               *)
(***************************************************************************)
EXTENDS Integers, Sequences

CONSTANTS
    Partitions,     \* the (topic, partition) pairs of both input topics
    Events,         \* the event_ids
    Log             \* Log[p][o + 1] is the message at offset o of partition p

(***************************************************************************)
(* What the ingestor makes of a payload, in the order it finds out:        *)
(*   undecodable  json.loads raises something other than JSONDecodeError   *)
(*                (bytes that are not UTF-8: UnicodeDecodeError)           *)
(*   invalid      not JSON, not matching the schema, or no payload at all  *)
(*   unstorable   passes the schema, but Postgres refuses the row          *)
(*                (e.g. an event_id longer than the column's 64 characters)*)
(*   valid        lands                                                    *)
(***************************************************************************)
Kinds == {"valid", "invalid", "undecodable", "unstorable"}

ASSUME LogAssumption == Log \in [Partitions -> Seq([event : Events, kind : Kinds])]

LogEnd(p) == Len(Log[p])

Messages == UNION {{p} \X (0 .. LogEnd(p) - 1) : p \in Partitions}

EventOf(m) == Log[m[1]][m[2] + 1].event
KindOf(m)  == Log[m[1]][m[2] + 1].kind
=============================================================================
