---------------------------- MODULE TaskManager ----------------------------
(***************************************************************************)
(* The task lifecycle of services/runtime/src/task-manager.ts: the states, *)
(* the transition table, the retry budget and the record a TaskManager     *)
(* keeps for each task.  The operators here are the synchronous bodies of  *)
(* create, transition, appendStepHistory and restore; the actions that     *)
(* call them are in TaskRuntime.                                           *)
(*                                                                         *)
(* Goals, identifiers, owners, time stamps and the reason texts are left   *)
(* out: no transition depends on them.  The blocking reason that           *)
(* transition() asks of "WaitingUser" is left out too, because nothing     *)
(* in src/ ever requests that state.                                       *)
(***************************************************************************)
EXTENDS Naturals, Sequences

CONSTANT
    MaxRetries    \* the constructor's maxRetries

ASSUME RetryAssumption == MaxRetries \in Nat

TaskState ==
    {"Created", "Planning", "WaitingResources", "Executing", "Verifying",
     "Completed", "Unverified", "Failed", "Retrying", "Paused",
     "WaitingUser", "Cancelled"}

\* "Absent" stands for an identifier the map does not hold.
ShownState == TaskState \cup {"Absent"}

\* The table `transitions`; the row of "Absent" is create(), which succeeds
\* only for an identifier that is not in the map.
Successors(s) ==
    CASE s = "Absent"           -> {"Created"}
      [] s = "Created"          -> {"Planning", "Paused", "Cancelled"}
      [] s = "Planning"         -> {"WaitingResources", "Executing", "Paused",
                                    "WaitingUser", "Failed", "Cancelled"}
      [] s = "WaitingResources" -> {"Executing", "Paused", "Cancelled"}
      [] s = "Executing"        -> {"Verifying", "Failed", "Paused", "Cancelled"}
      [] s = "Verifying"        -> {"Completed", "Unverified", "Failed"}
      [] s = "Unverified"       -> {"Retrying"}
      [] s = "Failed"           -> {"Retrying"}
      [] s = "Retrying"         -> {"Planning"}
      [] s = "Paused"           -> {"WaitingUser", "Planning", "Executing"}
      [] s = "WaitingUser"      -> {"Planning", "Executing", "Cancelled"}
      [] OTHER                  -> {}

\* What one entry of step_history says: the verdict on an executed step, or
\* the error that ended an attempt.
HistoryEntry == {"verified", "unverified", "failed", "error"}

TaskRecord ==
    [state : ShownState, retry_count : Nat, step_history : Seq(HistoryEntry)]

Absent == [state |-> "Absent", retry_count |-> 0, step_history |-> <<>>]

Created == [Absent EXCEPT !.state = "Created"]

\* transition() succeeds: the table allows it and the budget is not spent.
CanMove(record, target) ==
    /\ target \in Successors(record.state)
    /\ target = "Retrying" => record.retry_count < MaxRetries

\* The record transition() stores when it succeeds.
Moved(record, target) ==
    [record EXCEPT !.state = target,
                   !.retry_count = IF target = "Retrying" THEN @ + 1 ELSE @]

\* The record appendStepHistory() stores.
WithEntry(record, entry) ==
    [record EXCEPT !.step_history = Append(@, entry)]

\* (Mutation: an interruption gets a state that the table does not know.)
Recovered_NewState(s) == IF s \in {"Executing", "Verifying"} THEN "Interrupted" ELSE s

\* The state a restarted process shows for a checkpointed one: the same rule
\* is in restore() and in TaskCheckpointStore.recoverAfterCrash().
Recovered(s) == IF s \in {"Executing", "Verifying"} THEN "Unverified" ELSE s
============================================================================
