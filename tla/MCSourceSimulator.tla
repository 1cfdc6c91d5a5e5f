------------------------- MODULE MCSourceSimulator -------------------------
(***************************************************************************)
(* SourceSimulator as the runs check it.                                   *)
(***************************************************************************)
EXTENDS SourceSimulator
=============================================================================
