-------------------------- MODULE MCBatchPipeline --------------------------
(***************************************************************************)
(* Small instances of BatchPipeline.                                       *)
(***************************************************************************)
EXTENDS BatchPipeline, TLC

(* A whole pair, and a second feature whose label is not out yet; its timestamp is later. *)
PairAndFeature == {<<"features", "e1">>, <<"labels", "e1">>, <<"features", "e2">>}
MCEventTime == [e \in {"e1", "e2"} |-> IF e = "e1" THEN 1 ELSE 2]

(* Out of range, one of two features: the run that extracts both leaves it out, a run that *)
(* extracts it alone fails.                                                                *)
OneInvalid == {<<"features", "e2">>}

RunSymmetry == Permutations(Runs)
=============================================================================
