-------------------------- MODULE MCTaskScheduler --------------------------
(***************************************************************************)
(* A small instance of TaskScheduler: two slots, as many tasks as entries, *)
(* and a clock that covers more than two starvation thresholds, so that a  *)
(* background entry can overtake a later interactive one.                  *)
(***************************************************************************)
EXTENDS TaskScheduler
============================================================================
