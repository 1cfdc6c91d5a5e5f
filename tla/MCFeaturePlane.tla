--------------------------- MODULE MCFeaturePlane ---------------------------
(* Small instances of FeaturePlane. *)
EXTENDS FeaturePlane, TLC

MCEntities == 1 .. 4

(* 3 is curated late, into the middle of what is there; 4 is new. *)
MCFeatureTime == (1 :> 2) @@ (2 :> 6) @@ (3 :> 4) @@ (4 :> 8)
MCLabelTime == (1 :> 4) @@ (2 :> 7) @@ (3 :> 6) @@ (4 :> 9)
MCEarlier == {1, 2}
MCInstants == {7, 9}
=============================================================================
