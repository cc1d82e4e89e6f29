-------------------------- MODULE MCResourceManager --------------------------
(***************************************************************************)
(* A small instance of ResourceManager: three tasks, so that two requests  *)
(* may wait for a third task's locks, and two resources, so that they may  *)
(* overlap without being equal.                                            *)
(***************************************************************************)
EXTENDS ResourceManager, TLC

Symmetry == Permutations(Task) \cup Permutations(Resource)
==============================================================================
