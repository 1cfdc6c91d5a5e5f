--------------------------- MODULE MCModelRegistry ---------------------------
(* A small instance of ModelRegistry for TLC. *)
EXTENDS ModelRegistry, TLC

CONSTANTS t1, t2, p1, p2

MCTrainers == {t1, t2}
MCPipelines == {t2}
MCPromoters == {p1, p2}

(* A weak model, one that clears both floors, and a better one. *)
MCScores == {[accuracy |-> 1, auc |-> 1], [accuracy |-> 2, auc |-> 2], [accuracy |-> 4, auc |-> 2]}

MCSymmetry == Permutations(MCPromoters)
=============================================================================
