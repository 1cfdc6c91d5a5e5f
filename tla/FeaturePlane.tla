---------------------------- MODULE FeaturePlane ----------------------------
(***************************************************************************)
(* The two users of the curated tables over one database: materialization  *)
(* keeps the online store that serving reads, training takes its frames    *)
(* from the tables themselves.                                             *)
(***************************************************************************)
EXTENDS FeatureStore, TrainingData

planeVars == <<vars, trainingVars>>

PlaneInit == Init /\ TrainingInit

PlaneNext == \/ StoreNext /\ UNCHANGED trainingVars
             \/ TrainingNext /\ UNCHANGED vars

PlaneSpec == PlaneInit /\ [][PlaneNext]_planeVars

PlaneTypeOK == TypeOK /\ TrainingTypeOK
=============================================================================
