-------------------------- MODULE MCStreamIngestor --------------------------
(***************************************************************************)
(* Small input topics for StreamIngestor, and what the runs share.         *)
(***************************************************************************)
EXTENDS StreamIngestor

Msg(event, kind) == [event |-> event, kind |-> kind]

(* As little as two replicas need to take a half-done batch from each other. *)
ShortLog == [p \in {"features"} |-> <<Msg("f1", "valid"), Msg("f2", "invalid")>>]

(* Two malformed payloads, one more than the producer's queue holds, an event that is  *)
(* published twice, a row Postgres refuses and a payload that is not UTF-8.              *)
RejectedLog == [p \in {"features", "labels"} |->
    IF p = "features"
    THEN <<Msg("f1", "invalid"), Msg("f2", "valid"), Msg("f2", "valid"), Msg("f3", "invalid")>>
    ELSE <<Msg("l1", "unstorable"), Msg("l2", "undecodable")>>]

OnePartition == {"features"}
TwoPartitions == {"features", "labels"}
MCEvents == {"f1", "f2", "f3", "l1", "l2"}
=============================================================================
