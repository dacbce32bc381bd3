---------------------------- MODULE MCDataPath ----------------------------
(* Instances of DataPath for TLC. *)
EXTENDS DataPath

MCMaxFrames == [u \in Units |-> IF u = "md" THEN 1 ELSE 2]
TwoMdFrames == [u \in Units |-> IF u = "md" THEN 2 ELSE 1]
=============================================================================
