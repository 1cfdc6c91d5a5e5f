------------------------- MODULE MCInferenceService -------------------------
(* A small instance of InferenceService for TLC. *)
EXTENDS InferenceService

CONSTANTS q1, q2

MCVersions == {1, 2}
MCRequests == {q1, q2}
MCByEntity == {q1}
=============================================================================
