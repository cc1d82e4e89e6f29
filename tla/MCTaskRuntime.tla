--------------------------- MODULE MCTaskRuntime ---------------------------
(***************************************************************************)
(* Small instances of TaskRuntime.  For the safety properties: one task    *)
(* with all its calls, a retry, a fault and a crash.  For the scheduler's  *)
(* liveness: two tasks that compete for one slot, without faults.          *)
(***************************************************************************)
EXTENDS TaskRuntime
============================================================================
