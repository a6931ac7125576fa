-------------------------- MODULE MCEngineManager --------------------------
(* Instances of EngineManager for TLC: an admin, who may trade live, and another *)
(* user, who may not.                                                            *)
EXTENDS EngineManager
=============================================================================
