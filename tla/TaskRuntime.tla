---------------------------- MODULE TaskRuntime ----------------------------
(***************************************************************************)
(* The durable task path of the runtime: the calls of                      *)
(* RuntimeTaskCoordinator (submitDurable, execute, retry, resumePaused)    *)
(* that interleave at every await, over the TaskManager's map, the         *)
(* TaskCheckpointStore and the TaskScheduler, with the user's cancel and   *)
(* pause, failing appends and publishes, and crashes followed by the       *)
(* recovery that RuntimeApplication.start() makes.                         *)
(*                                                                         *)
(* JavaScript runs a handler without interruption from one await to the    *)
(* next: an action here is such a stretch.  A call is a record whose pc    *)
(* names the await it is suspended at.  For one task there is at most one  *)
(* call of each CallId in the life of a process (the k-th retry, say): a   *)
(* task identifier is submitted once, enqueued by that submission only,    *)
(* paused at most once, and retried once for every value of retry_count.   *)
(***************************************************************************)
EXTENDS TaskManager, TaskAdmission, Integers

CONSTANTS
    MaxSteps,     \* bound on the steps of a plan
    MaxFaults,    \* bound on failing appends, publishes and planners
    MaxCrashes    \* bound on crashes

ASSUME RuntimeAssumption == MaxSteps \in Nat /\ MaxFaults \in Nat /\ MaxCrashes \in Nat

VARIABLES
    process,    \* "down", "recovering" or "up"
    tasks,      \* tasks[t]: the TaskManager's record of t
    disk,       \* disk[t]: the newest checkpoint of t that is not superseded
    calls,      \* calls[t][c]: the call c of the coordinator for t
    past,       \* history: past[t] holds every state t has been in
    acked,      \* history: the tasks whose submitDurable has returned
    early,      \* history: the tasks paused before it had returned
    planned,    \* history: the number of steps of the attempt's plan
    ran,        \* history: what each step started in the attempt returned
    faults, crashes

store == <<process, disk>>
history == <<past, acked, early, planned, ran>>
vars == <<process, tasks, disk, calls, past, acked, early, planned, ran,
          faults, crashes, queue, running, draining>>

----------------------------------------------------------------------------
(* Calls.                                                                  *)

Submit == -2     \* submitDurable
Resume == -1     \* resumePaused
Run == 0         \* execute, called by TaskScheduler.run
Retry(k) == k    \* the k-th retry

CallId == Submit .. MaxRetries

\* What a tool's result tells the Verifier.
ToolResult == {"success", "failure", "no_evidence"}

\* Verifier.verify
VerdictOf(result) ==
    CASE result = "success"     -> "verified"
      [] result = "failure"     -> "failed"
      [] result = "no_evidence" -> "unverified"

\* (Mutation: a step without evidence counts as verified.)
OutcomeOf_Lenient(verdicts) ==
    IF \E i \in DOMAIN verdicts : verdicts[i] = "failed" THEN "Failed" ELSE "Completed"

\* The states an attempt may end in.
Outcome == {"Completed", "Unverified", "Failed"}

\* execute's final state for the verdicts it has recorded.
OutcomeOf(verdicts) ==
    IF \E i \in DOMAIN verdicts : verdicts[i] = "failed" THEN "Failed"
    ELSE IF \E i \in DOMAIN verdicts : verdicts[i] = "unverified" THEN "Unverified"
    ELSE "Completed"

Pc == {"idle",       \* the call is not going on
       "persist",    \* awaiting the append of `rec` after a transition
       "publish",    \* awaiting the publication of `rec`
       "plan",       \* awaiting the planner
       "tool",       \* awaiting the executor
       "history",    \* awaiting the append of `rec` after a history entry
       "return"}     \* a scheduled execution is over, its finally block is not

Call ==
    [pc      : Pc,
     rec     : TaskRecord,          \* the snapshot being persisted or published
     left    : Nat,                 \* steps of the plan not yet finished
     results : Seq(ToolResult),     \* `executions`
     entries : Seq(HistoryEntry),   \* history entries not yet appended
     target  : Outcome]             \* the state that follows the entries

Idle == [pc |-> "idle", rec |-> Absent, left |-> 0, results |-> <<>>,
         entries |-> <<>>, target |-> "Failed"]

\* (Mutation: run() has no finally block.)
Ended_NoFinally(c) == Idle

\* A call returns or rejects; a scheduled one still has its finally block.
Ended(c) == IF c = Run THEN [Idle EXCEPT !.pc = "return"] ELSE Idle

\* execute() up to its first await, for a task whose record is r.
Executed(c, r) ==
    IF CanMove(r, "Planning")
    THEN [Idle EXCEPT !.pc = "persist", !.rec = Moved(r, "Planning")]
    ELSE Ended(c)

\* The call is an execution between its first transition and its last.
Drives(call) ==
    \/ call.pc \in {"plan", "tool", "history"}
    \/ /\ call.pc \in {"persist", "publish"}
       /\ call.rec.state \in {"Planning", "Executing", "Verifying"}

\* (Mutation: a running task is cancelled on the spot.)
Cancellable_Running ==
    {"Created", "Planning", "WaitingResources", "Executing", "Paused", "WaitingUser"}

\* The states cancelTask accepts.
Cancellable == {"Created", "Planning", "WaitingResources", "Paused", "WaitingUser"}

----------------------------------------------------------------------------
(* Parts of actions.                                                       *)

\* Every state a task passes through is remembered.
Remember == past' = [t \in Task |-> past[t] \cup {tasks'[t].state}]

SetCall(t, c, call) == calls' = [calls EXCEPT ![t][c] = call]

\* (Mutation: the transition table is not consulted.)
Transition_Unchecked(t, c, call, target) ==
    /\ tasks' = [tasks EXCEPT ![t] = Moved(@, target)]
    /\ SetCall(t, c, [call EXCEPT !.pc = "persist", !.rec = Moved(tasks[t], target)])
    /\ Remember

\* (Mutation: the event is published without a checkpoint.)
Transition_NoCheckpoint(t, c, call, target) ==
    /\ IF CanMove(tasks[t], target)
       THEN /\ tasks' = [tasks EXCEPT ![t] = Moved(@, target)]
            /\ SetCall(t, c, [call EXCEPT !.pc = "publish",
                                          !.rec = Moved(tasks[t], target)])
       ELSE /\ SetCall(t, c, Ended(c))
            /\ UNCHANGED tasks
    /\ Remember

\* The coordinator's transition(): an illegal one ends the call, a legal one
\* is stored and its append begins.
Transition(t, c, call, target) ==
    /\ IF CanMove(tasks[t], target)
       THEN /\ tasks' = [tasks EXCEPT ![t] = Moved(@, target)]
            /\ SetCall(t, c, [call EXCEPT !.pc = "persist",
                                          !.rec = Moved(tasks[t], target)])
       ELSE /\ SetCall(t, c, Ended(c))
            /\ UNCHANGED tasks
    /\ Remember

\* The coordinator's appendStepHistory() for the first of the call's entries.
AppendEntry(t, c, call) ==
    /\ LET next == WithEntry(tasks[t], Head(call.entries))
       IN  /\ tasks' = [tasks EXCEPT ![t] = next]
           /\ SetCall(t, c, [call EXCEPT !.pc = "history", !.rec = next,
                                         !.entries = Tail(@)])
    /\ Remember

\* fail(): one entry for the error, then "Failed".
FailAttempt(t, c) ==
    AppendEntry(t, c, [Idle EXCEPT !.entries = <<"error">>, !.target = "Failed"])

\* The executions of the tasks in S begin, and the call c of t ends.
StartRuns(S, t, c) ==
    /\ tasks' = [u \in Task |->
                   IF u \in S /\ CanMove(tasks[u], "Planning")
                   THEN Moved(tasks[u], "Planning") ELSE tasks[u]]
    /\ calls' = [u \in Task |-> [d \in CallId |->
                   IF u \in S /\ d = Run THEN Executed(Run, tasks[u])
                   ELSE IF u = t /\ d = c THEN Idle
                   ELSE calls[u][d]]]
    /\ Remember

\* A task that begins to plan begins a new attempt.
NewAttempt(ts) ==
    ran' = [u \in Task |-> IF u \in ts /\ CanMove(tasks[u], "Planning")
                           THEN <<>> ELSE ran[u]]

\* The step in the log that was started last has its result.
Answered(log, result) == [log EXCEPT ![Len(log)] = result]

At(t, c, pc) == process = "up" /\ calls[t][c].pc = pc

Published(t, c, states) == At(t, c, "publish") /\ calls[t][c].rec.state \in states

NoFault == UNCHANGED <<faults, crashes>>

----------------------------------------------------------------------------
(* The user's requests.                                                    *)

\* submitDesktopTask, or the REST handler submitTask: submitDurable up to
\* the append of the "Created" checkpoint.
SubmitTask(t) ==
    /\ process = "up"
    /\ tasks[t].state = "Absent"
    /\ tasks' = [tasks EXCEPT ![t] = Created]
    /\ SetCall(t, Submit, [Idle EXCEPT !.pc = "persist", !.rec = Created])
    /\ Remember
    /\ NoFault /\ UNCHANGED <<store, acked, early, planned, ran, admission>>

\* (Mutation: the cancellation does not go through transition().)
CancelTask_Unchecked(t) ==
    /\ process = "up"
    /\ tasks[t].state \notin {"Absent", "Cancelled"}
    /\ CancelQueued(t)
    /\ tasks' = [tasks EXCEPT ![t] =
                   IF @.state \in Cancellable THEN Moved(@, "Cancelled") ELSE @]
    /\ Remember
    /\ NoFault /\ UNCHANGED <<store, calls, acked, early, planned, ran>>

\* cancelTask: the task leaves the queue whatever its state is; only then is
\* its state looked at.  The transition is not persisted.
CancelTask(t) ==
    /\ process = "up"
    /\ tasks[t].state \notin {"Absent", "Cancelled"}
    /\ CancelQueued(t)
    /\ tasks' = [tasks EXCEPT ![t] =
                   IF @.state \in Cancellable /\ CanMove(@, "Cancelled")
                   THEN Moved(@, "Cancelled") ELSE @]
    /\ Remember
    /\ NoFault /\ UNCHANGED <<store, calls, acked, early, planned, ran>>

\* pauseTask: only a task that has not been started; not persisted either.
PauseTask(t) ==
    /\ process = "up"
    /\ tasks[t].state = "Created"
    /\ CancelQueued(t)
    /\ tasks' = [tasks EXCEPT ![t] = Moved(@, "Paused")]
    /\ early' = IF t \in acked THEN early ELSE early \cup {t}
    /\ Remember
    /\ NoFault /\ UNCHANGED <<store, calls, acked, planned, ran>>

\* resumePaused executes at once, outside the scheduler.
ResumePaused(t) ==
    /\ process = "up"
    /\ tasks[t].state = "Paused"
    /\ NewAttempt({t})
    /\ Transition(t, Resume, Idle, "Planning")
    /\ NoFault /\ UNCHANGED <<store, acked, early, planned, admission>>

\* retry, up to the append of the "Retrying" checkpoint.
RetryTask(t) ==
    /\ process = "up"
    /\ CanMove(tasks[t], "Retrying")
    /\ Transition(t, Retry(tasks[t].retry_count + 1), Idle, "Retrying")
    /\ ran' = [ran EXCEPT ![t] = <<>>]
    /\ NoFault /\ UNCHANGED <<store, acked, early, planned, admission>>

----------------------------------------------------------------------------
(* The calls go on.                                                        *)

\* TaskCheckpointStore.append commits: the older checkpoints are superseded.
\* Appends of different calls for one task commit in any order.
PersistOk(t, c) ==
    /\ At(t, c, "persist")
    /\ disk' = [disk EXCEPT ![t] = calls[t][c].rec]
    /\ SetCall(t, c, [calls[t][c] EXCEPT !.pc = "publish"])
    /\ NoFault /\ UNCHANGED <<process, tasks, history, admission>>

\* submitDurable returns; the caller enqueues the task and dispatches.
SubmitReturns(t, S) ==
    /\ Published(t, Submit, {"Created"})
    /\ acked' = acked \cup {t}
    /\ EnqueueAndDispatch(t, S)
    /\ StartRuns(S, t, Submit)
    /\ NewAttempt(S)
    /\ NoFault /\ UNCHANGED <<store, early, planned>>

\* retry goes on into execute, outside the scheduler.
RetryExecutes(t, c) ==
    /\ Published(t, c, {"Retrying"})
    /\ NewAttempt({t})
    /\ Transition(t, c, Idle, "Planning")
    /\ NoFault /\ UNCHANGED <<store, acked, early, planned, admission>>

PlanningPublished(t, c) ==
    /\ Published(t, c, {"Planning"})
    /\ SetCall(t, c, [calls[t][c] EXCEPT !.pc = "plan"])
    /\ NoFault /\ UNCHANGED <<store, tasks, history, admission>>

\* The planner returns n steps.
PlanMade(t, c, n) ==
    /\ At(t, c, "plan")
    /\ planned' = [planned EXCEPT ![t] = n]
    /\ Transition(t, c, [Idle EXCEPT !.left = n], "Executing")
    /\ NoFault /\ UNCHANGED <<store, acked, early, ran, admission>>

\* (Mutation: the error is returned without failing the task.)
PlanFails_Silently(t, c) ==
    /\ At(t, c, "plan")
    /\ SetCall(t, c, Ended(c))
    /\ NoFault /\ UNCHANGED <<store, tasks, history, admission>>

\* The planner returns an error, or no steps.
PlanFails(t, c) ==
    /\ At(t, c, "plan")
    /\ FailAttempt(t, c)
    /\ NoFault /\ UNCHANGED <<store, acked, early, planned, ran, admission>>

\* The first step of the plan is handed to the Executor.
ExecutingPublished(t, c) ==
    /\ Published(t, c, {"Executing"})
    /\ SetCall(t, c, [calls[t][c] EXCEPT !.pc = "tool"])
    /\ ran' = [ran EXCEPT ![t] = Append(@, "started")]
    /\ NoFault /\ UNCHANGED <<store, tasks, past, acked, early, planned, admission>>

\* The tool returns, and the next step is handed to the Executor.
StepReturns(t, c, result) ==
    /\ At(t, c, "tool")
    /\ calls[t][c].left > 1
    /\ SetCall(t, c, [calls[t][c] EXCEPT !.left = @ - 1, !.results = Append(@, result)])
    /\ ran' = [ran EXCEPT ![t] = Append(Answered(@, result), "started")]
    /\ NoFault /\ UNCHANGED <<store, tasks, past, acked, early, planned, admission>>

\* The tool of the last step returns.
LastStepReturns(t, c, result) ==
    /\ At(t, c, "tool")
    /\ calls[t][c].left = 1
    /\ ran' = [ran EXCEPT ![t] = Answered(@, result)]
    /\ Transition(t, c, [calls[t][c] EXCEPT !.left = 0, !.results = Append(@, result)],
                  "Verifying")
    /\ NoFault /\ UNCHANGED <<store, acked, early, planned, admission>>

\* The Executor rejects the step (tool, permission, lock) or the tool throws.
StepFails(t, c) ==
    /\ At(t, c, "tool")
    /\ FailAttempt(t, c)
    /\ NoFault /\ UNCHANGED <<store, acked, early, planned, ran, admission>>

\* The results are verified, and the first verdict goes to the history.
VerifyingPublished(t, c) ==
    /\ Published(t, c, {"Verifying"})
    /\ LET results == calls[t][c].results
           verdicts == [i \in 1 .. Len(results) |-> VerdictOf(results[i])]
       IN  AppendEntry(t, c, [Idle EXCEPT !.entries = verdicts,
                                          !.target = OutcomeOf(verdicts)])
    /\ NoFault /\ UNCHANGED <<store, acked, early, planned, ran, admission>>

\* The append of an entry commits, and the next entry follows.
NextEntry(t, c) ==
    /\ At(t, c, "history")
    /\ calls[t][c].entries # <<>>
    /\ disk' = [disk EXCEPT ![t] = calls[t][c].rec]
    /\ AppendEntry(t, c, calls[t][c])
    /\ NoFault /\ UNCHANGED <<process, acked, early, planned, ran, admission>>

\* The append of the last entry commits, and the outcome follows.
LastEntry(t, c) ==
    /\ At(t, c, "history")
    /\ calls[t][c].entries = <<>>
    /\ disk' = [disk EXCEPT ![t] = calls[t][c].rec]
    /\ Transition(t, c, Idle, calls[t][c].target)
    /\ NoFault /\ UNCHANGED <<process, acked, early, planned, ran, admission>>

OutcomePublished(t, c) ==
    /\ Published(t, c, Outcome)
    /\ SetCall(t, c, Ended(c))
    /\ NoFault /\ UNCHANGED <<store, tasks, history, admission>>

\* The finally block of TaskScheduler.run.
RunFinally(t, S) ==
    /\ At(t, Run, "return")
    /\ Finally(t, S)
    /\ StartRuns(S, t, Run)
    /\ NewAttempt(S)
    /\ NoFault /\ UNCHANGED <<store, acked, early, planned>>

----------------------------------------------------------------------------
(* Faults.                                                                 *)

\* An append fails (and the call returns its error), a publish or the planner
\* rejects (and so does the call).  The task stays as it is.
CallFails(t, c) ==
    /\ process = "up"
    /\ calls[t][c].pc \in {"persist", "publish", "plan", "history"}
    /\ faults < MaxFaults
    /\ faults' = faults + 1
    /\ SetCall(t, c, Ended(c))
    /\ UNCHANGED <<crashes, store, tasks, history, admission>>

\* The process dies or is stopped: stop() waits for no task.
Crash ==
    /\ process = "up"
    /\ crashes < MaxCrashes
    /\ crashes' = crashes + 1
    /\ process' = "down"
    /\ tasks' = [t \in Task |-> Absent]
    /\ calls' = [t \in Task |-> [c \in CallId |-> Idle]]
    /\ queue' = {} /\ running' = {} /\ draining' = FALSE
    /\ UNCHANGED <<disk, history, faults>>

\* RuntimeApplication.start: recoverAfterCrash has loaded the checkpoints.
Start ==
    /\ process = "down"
    /\ process' = "recovering"
    /\ NoFault /\ UNCHANGED <<disk, tasks, calls, history, admission>>

\* recoverAfterCrash rewrites the checkpoint of an execution that was cut off.
RecoverTask(t) ==
    /\ process = "recovering"
    /\ Recovered(disk[t].state) # disk[t].state
    /\ disk' = [disk EXCEPT ![t].state = Recovered(@)]
    /\ NoFault /\ UNCHANGED <<process, tasks, calls, history, admission>>

\* An append of the recovery fails and start() throws, or the process dies.
StartFails ==
    /\ process = "recovering"
    /\ faults < MaxFaults
    /\ faults' = faults + 1
    /\ process' = "down"
    /\ UNCHANGED <<crashes, disk, tasks, calls, history, admission>>

\* TaskManager.restore, once every checkpoint has been rewritten.  Nothing is
\* enqueued: what is unfinished waits for the user.
Restore ==
    /\ process = "recovering"
    /\ \A t \in Task : Recovered(disk[t].state) = disk[t].state
    /\ process' = "up"
    /\ tasks' = [t \in Task |-> [disk[t] EXCEPT !.state = Recovered(@)]]
    /\ NoFault /\ UNCHANGED <<disk, calls, history, admission>>

----------------------------------------------------------------------------
Init ==
    /\ process = "down"
    /\ tasks = [t \in Task |-> Absent]
    /\ disk = [t \in Task |-> Absent]
    /\ calls = [t \in Task |-> [c \in CallId |-> Idle]]
    /\ past = [t \in Task |-> {"Absent"}]
    /\ acked = {} /\ early = {}
    /\ planned = [t \in Task |-> 0]
    /\ ran = [t \in Task |-> <<>>]
    /\ faults = 0 /\ crashes = 0
    /\ AdmissionInit

UserStep(t) ==
    \/ SubmitTask(t)
    \/ CancelTask(t)
    \/ PauseTask(t)
    \/ ResumePaused(t)
    \/ RetryTask(t)

\* The tool of the call's current step answers.
ToolStep(t, c) ==
    \/ \E result \in ToolResult :
          StepReturns(t, c, result) \/ LastStepReturns(t, c, result)
    \/ StepFails(t, c)

\* Every other step of a call that is going on.
CallStep(t, c) ==
    \/ PersistOk(t, c)
    \/ RetryExecutes(t, c)
    \/ PlanningPublished(t, c)
    \/ \E n \in 1 .. MaxSteps : PlanMade(t, c, n)
    \/ PlanFails(t, c)
    \/ ExecutingPublished(t, c)
    \/ VerifyingPublished(t, c)
    \/ NextEntry(t, c)
    \/ LastEntry(t, c)
    \/ OutcomePublished(t, c)

SchedulerStep(t) ==
    \/ \E S \in SUBSET Task : SubmitReturns(t, S)
    \/ \E S \in SUBSET Task : RunFinally(t, S)

StartStep == Start \/ (\E t \in Task : RecoverTask(t)) \/ Restore

Next ==
    \/ \E t \in Task :
          \/ UserStep(t)
          \/ SchedulerStep(t)
          \/ \E c \in CallId : CallStep(t, c) \/ ToolStep(t, c) \/ CallFails(t, c)
    \/ StartStep
    \/ StartFails
    \/ Crash

Spec == Init /\ [][Next]_vars

\* The event loop keeps resuming calls whose await is over: the storage, the
\* bus, the planner and (which no timeout of the code enforces) the tools
\* answer.  It need not be fair to any one call, and nothing obliges the user
\* to do anything.
Fairness ==
    /\ WF_vars(\E t \in Task : \/ SchedulerStep(t)
                               \/ \E c \in CallId : CallStep(t, c) \/ ToolStep(t, c))
    /\ WF_vars(StartStep)

FairSpec == Spec /\ Fairness

----------------------------------------------------------------------------
(* Properties.                                                             *)

TypeOK ==
    /\ process \in {"down", "recovering", "up"}
    /\ tasks \in [Task -> TaskRecord]
    /\ disk \in [Task -> TaskRecord]
    /\ calls \in [Task -> [CallId -> Call]]
    /\ past \in [Task -> SUBSET ShownState]
    /\ acked \subseteq Task /\ early \subseteq Task
    /\ planned \in [Task -> Nat]
    /\ ran \in [Task -> Seq(ToolResult \cup {"started"})]
    /\ faults \in Nat /\ crashes \in Nat
    /\ queue \subseteq Task /\ running \subseteq Task /\ draining \in BOOLEAN

\* A task is never executed by two calls at once, although the scheduler,
\* resumePaused and retry each start executions without knowing of the others.
OneDriver ==
    \A t \in Task : \A c, d \in CallId :
        Drives(calls[t][c]) /\ Drives(calls[t][d]) => c = d

\* While a tool runs for a task the task is shown as executing: cancelTask
\* never reports as cancelled a task that still acts, and no other call moves
\* it on.
ToolOnlyWhileExecuting ==
    \A t \in Task : \A c \in CallId :
        calls[t][c].pc = "tool" => tasks[t].state = "Executing"

\* Once a tool was started for a task, no crash can make the task look as if
\* it had not begun: no checkpoint from before the start may be, or become
\* again, the newest one.  Only a task that was paused (and resumed) while its
\* submission was still going on is exposed: the append of its "Created"
\* checkpoint may commit after those of its execution.
ToolRunIsNeverForgotten ==
    \A t \in Task \ early :
        ran[t] # <<>> => disk[t].state \notin {"Created", "Planning", "Retrying", "Paused"}

\* A task becomes Completed only when its plan had a step, every step was run
\* with a success, and the history ends with the verdicts that say so.  It
\* holds in memory and, through every crash, on the disk.
CompletedMeansVerified ==
    \A t \in Task : \A record \in {tasks[t], disk[t]} :
        record.state = "Completed" =>
            /\ planned[t] > 0
            /\ ran[t] = [i \in 1 .. planned[t] |-> "success"]
            /\ Len(record.step_history) >= planned[t]
            /\ \A i \in 1 .. planned[t] :
                  record.step_history[Len(record.step_history) - planned[t] + i] = "verified"

\* The scheduler's slots are held by the executions it started and by nothing
\* else, however those end.
SlotsHeldByRuns ==
    \A t \in Task : t \in running <=> calls[t][Run].pc # "idle"

\* The state a client is shown; while the process is down, the state it is
\* going to be shown.
Shown(t) == IF process = "up" THEN tasks[t].state ELSE Recovered(disk[t].state)

\* The runtime implements the abstract lifecycle: one call moves a task along
\* the table at a time, and a crash takes it back only to where it has been.
Lifecycle == INSTANCE TaskLifecycle WITH state <- [t \in Task |-> Shown(t)]
ImplementsLifecycle == Lifecycle!LifecycleSpec

\* The promise of dispatch() resolves: the queue drains and the executions end,
\* whatever fails, once the user stops making requests (there are finitely
\* many in a behaviour of this module).
DrainEnds == []<>(~draining)

\* A task whose submission has returned reaches a final state, or one that
\* waits for the user, unless an append, a publish or the process has failed.
AckedTasksSettle ==
    []<>(\/ \A t \in acked :
              Shown(t) \in {"Completed", "Unverified", "Failed", "Cancelled", "Paused"}
         \/ faults > 0
         \/ crashes > 0)

\* "Cancelled" is final: once the submission of a task has returned, the state
\* a client is shown for it never leaves "Cancelled".
CancelledIsFinal ==
    [][\A t \in acked : Shown(t) = "Cancelled" => Shown(t)' = "Cancelled"]_vars
============================================================================
