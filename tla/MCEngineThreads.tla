-------------------------- MODULE MCEngineThreads --------------------------
(* Instances of EngineThreads for TLC. *)
EXTENDS EngineThreads

CONSTANTS c1, c2
=============================================================================
