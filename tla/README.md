# NOVA: TLA+ models of the runtime

TLA+ specifications of NOVA (the TypeScript monorepo: `services/runtime`,
`services/memory`, `services/state`, `services/observers`, `packages/shared`,
`apps/desktop`, `apps/browser-extension`), the TLC configurations that check
them on small instances, and theorems about them that TLAPS checks. The
reference is the source; the documents under `docs/` are quoted only where the
code does something else.

## 1. The system

NOVA is one Node process (the runtime, embedded in an Electron application)
that takes goals from a user, plans them, runs tools, verifies the results and
remembers what happened. JavaScript runs a handler without interruption up to
the next `await`; all the concurrency of the process is the interleaving of
such stretches. Beside it there are a database (SQLite), tools, planners and
models that answer late or not at all, other devices, and crashes.

| Component | State | Operations | What makes it correct |
|---|---|---|---|
| Task manager (`task-manager.ts`) | map of task records | create, transition, appendStepHistory, restore, assignOwner | only moves of the transition table; bounded retries |
| Task coordinator (`runtime-task-coordinator.ts`) | none of its own: calls suspended at awaits | submitDurable, execute, retry, resumePaused, confirm/denyWaitingUser | one execution per task; a checkpoint before every event; an outcome that follows the verdicts |
| Task scheduler (`task-scheduler.ts`) | queue, running set, drain promise | enqueue, dispatch, cancel | bounded slots; no starvation; the drain ends |
| Checkpoint store (`task-checkpoint-store.ts`) | checkpoint rows | append, loadLatest, recoverAfterCrash | newest row is the resumption target; cut-off executions become Unverified |
| Planner, executor, verifier (`orchestration.ts`) | none | plan, execute, verify | locks held exactly while a step runs |
| Resource manager (`resource-manager.ts`) | held locks, queued requests | acquire, release, expireLocks | exclusion; no lost wakeup; no orphaned lock |
| Runtime application (`runtime-application.ts`), desktop main | wiring | cancelTask, pauseTask, start, stop, some 200 queries | controls are honest; recovery before the listeners open |
| Job scheduler (`job-scheduler.ts`) | jobs, running groups, job file | register, start, runDue, cancel | a due job runs once; dependencies first; groups exclude; a restart loses nothing |
| Workflow engine (`workflow-engine.ts`) | checkpoints, definitions | run, resume, parallel branches | no node before its predecessors; resume repeats no completed node |
| Communication bus (`communication-bus.ts`, `named-pipe-bus.ts`) | subscriptions, processed ids, dead letters | publish, subscribe | at most once per subscriber; a dead letter for what is given up |
| Event journal and WebSocket sessions (`websocket-api.ts`) | bounded history, sessions | publish, connect, replay, disconnect | a client that reconnects misses nothing that is retained |
| Observers and their bridges (`services/observers`) | state, native process, buffered events | enable, capture, flush, revoke | nothing listens, and nothing is published, after a revoke |
| Model router (`model-router.ts`) | circuit and failures of each provider | invoke | an open circuit spares its provider; a request ends |
| MCP client state (`mcp-*.ts`) | servers, tools, caches, progress, subscriptions, health | add, remove, replace, put, invalidate | a removal takes what is kept of its server, and of no other; servers are separate |
| Cross-device sync (`cross-device-sync.ts`) | records with field clocks, pending and applied changes, checkpoint | sync, applyLocal, flush | replicas converge; no change lost or applied twice |
| Session continuity, resource arbitration, offline queue | sessions, holders, queues | transfer, acquire, release, reconnect | one owner; no lost action |
| Device pairing, remote control, networking | offers, trust, sessions | offer, pair, request, approve, revoke, connect | an offer is used once; no session outlives its trust |
| Supervision (`runtime-manager.ts`, `system-lifecycle.ts`, `incident-lifecycle.ts`) | registrations, heartbeats, restart times | startAll, checkHeartbeats, stopAll | dependency order; restart budget |
| Upgrade, backup, restore, repair | step of the procedure | upgrade, backup, restore | rollback on every failure; tasks resumed once |
| Plugins, provider registry | lifecycles, capability tables | install, enable, call, route | no use of what was removed or is disabled |
| Voice, webhooks | small state machines | start, stop, process | no stuck state |
| Memory, state, world model | stores | write, version, fold | versions are kept |

How they interact. The path of a task:

    desktop / REST --submitDurable--> coordinator --create--> task manager
         |                               |--append--> checkpoint store (SQLite)
         |                               `--publish-> communication bus
         `--enqueue, dispatch--> scheduler --execute--> coordinator
                                                |--plan----> planner (model)
                                                |--execute-> executor --acquire/release--> resource manager
                                                |                  `--> tool
                                                `--verify--> verifier
    desktop --cancel, pause--> scheduler, task manager      (synchronous)
    desktop --resume, retry--> coordinator.execute          (not through the scheduler)
    start --recoverAfterCrash--> checkpoint store --restore--> task manager

Beside that path, all in the same process:

    timer --runDue--> job scheduler --save--> job file
    user --run, resume--> workflow engine --execute, approve, compensate--> coordinator, user, tools
    journal --publish--> communication bus --deliver--> subscribers, WebSocket sessions
    settings --updatePermission--> syncObservers --enable, revoke--> observers --start, stop--> native bridges
    observers --capture--> buffered events --flush--> bus
    planner, assistants --invoke--> model router --healthCheck, invoke--> providers
    configuration --add, remove, replace--> MCP server manager --clear--> tools, caches, progress, health
    devices --push, pull--> relay <--> cross-device sync

What is hard here: `submitDurable`, a scheduled `execute`, `resumePaused` and
`retry` of one task can be suspended at the same time; cancel and pause cut in
between and are synchronous; memory is changed before the append, so that a
failing append or a crash leaves the two apart; appends of two calls commit in
any order; a throwing subscriber ends a call wherever it publishes; the queue
is refilled only when a run ends; locks expire under tools that still run, and
requests for them outlive the steps that made them. `PROJECT.json` lists the
hazards line by line.

In the other components it is the same pattern at other awaits: the branches of
a workflow share one set of completed nodes and write no checkpoint until all
have ended; a publication is suspended in one subscriber while another leaves;
two pulls are answered in the reverse order; a permission is revoked while the
observer's process is still being spawned; a call of a provider ends after its
circuit has been opened by others.

## 2. The modules

`TaskManager` holds the transition table and what `create`, `transition`,
`appendStepHistory` and `restore` do to one record. A record is its state, its
retry count and the verdicts in its history.

`TaskAdmission` is the scheduler without its order: a queue, a set of running
tasks and the promise of `dispatch()`. Filling the slots takes as many queued
tasks as fit, whichever they are.

`TaskScheduler` is the scheduler with its order (priority, age, sequence) and
its clock; it refines `TaskAdmission` (`queue <- TasksOf(entries)`). One action
per operation: `Submit` (enqueue and dispatch, which every caller calls
together), `Cancel`, `Finally` (the finally block of `run` with the refill),
`Tick`.

`TaskRuntime` is the durable task path as a whole. A call of the coordinator is
a record whose `pc` names the await it is suspended at (`persist`, `publish`,
`plan`, `tool`, `history`, and `return` for a scheduled execution whose finally
block is due); an action is the stretch of code from one await to the next.

| Code | Actions |
|---|---|
| `submitDurable`, `submitDesktopTask` | `SubmitTask`, `PersistOk`, `SubmitReturns` |
| `execute` | `Executed` (its beginning), `PlanningPublished`, `PlanMade`, `PlanFails`, `ExecutingPublished`, `StepReturns`, `LastStepReturns`, `StepFails`, `VerifyingPublished`, `NextEntry`, `LastEntry`, `OutcomePublished` |
| `retry`, `resumePaused` | `RetryTask`, `RetryExecutes`, `ResumePaused` |
| `cancelTask`, `pauseTask` (and the desktop's copies) | `CancelTask`, `PauseTask` |
| `TaskScheduler.run` | `StartRuns`, `RunFinally` |
| failing append, publish, planner | `CallFails` |
| `stop`, a crash; `start` | `Crash`; `Start`, `RecoverTask`, `Restore`, `StartFails` |

The scheduler inside it is `TaskAdmission`, so that what holds does not depend
on the order; `TaskScheduler` shows that the real order is one of those allowed.

`TaskLifecycle` is the abstract specification of `TaskRuntime`: what a client
that looks at a task may rely on. The state it is shown moves along the table,
and a restart shows it a state the task has been in (or Unverified if its
execution was cut off), never forgetting an acknowledged task. `TaskRuntime`
implements it with `state[t] <- Shown(t)`: the task's state while the process
is up, and what the recovery is going to show while it is down.

`ResourceManager` is the locks as the executor uses them: `BeginStep` (acquire
granted, tool called), `RejectStep` (acquire queued, step refused), `EndStep`
(the finally block with the grants of `release`), `ExpireLocks`, `Tick`.

`JobScheduler` is the background jobs beside the tasks: it shares no state with
the modules above. `jobs`, `active` (`running` in the code) and `groups` are the
scheduler's maps, `store` the job file; `pass` is the `runDue` that is going
on, with `chain` the stack of `runJob` calls, since `runJob` calls itself for a
dependency.

| Code | Actions |
|---|---|
| `start`; `register`; `cancel` | `Start`; `Register`; `Cancel` |
| `runDue`, `runDueInternal` | `RunDue`, `Walk` |
| `runJob` up to its own run | `Walk` (checks and dependencies), `FailJob` (cycles, dependencies that are missing or did not run), `CannotRun`, `BeginRun` |
| the end of a run | `RunSucceeds`, `RunAborted`, `RunThrows`, `RunIsNotSaved` (the save after it throws) |
| a crash; the clock | `Crash`; `Tick` |

The steps of `runJob` between two awaits are several actions, and `Awaiting`
keeps `register` and `cancel` out between them, as the event loop does. A crash
may fall between them; that adds nothing, since only saves reach the file.

`WorkflowEngine` is one workflow at a time: `pc` is where `executeFrom` stands,
`branches` the `executeBranch` calls of a split, `checkpoint` the valid
checkpoint. An action is one iteration of the walk, or the end of an await.

| Code | Actions |
|---|---|
| `run`; `resume` with `nextPendingNode`, after a failure or the end | `Run`; `Resume` |
| the loop of `executeFrom` | `WalkStep`, made of `PassNode` (start, decision, join, end), `EnterNode` and `LeaveNode` (task, approval, rollback), `EnterSplit` and `LeaveSplit` |
| whatever ends an execution early, up to the timeout that is looked at after a node | `Fails` |
| `executeBranch` and the abort of its siblings | `BranchStep`, `BranchFails` |

`EventBus` is the in-memory bus on one topic with the journal and the WebSocket
sessions above it. `publishing[m]` is the `publish` of a message: the subscriber
it awaits (`at`, and whether that one has left meanwhile), those it has been at,
and its attempt. `called` and `thrown` are history, for the properties only.

| Code | Actions |
|---|---|
| `publish`, up to its first handler, or to its end | `Publish` |
| a handler that answers | `HandlerReturns` |
| a handler that throws, subscribed still or not: an error to the publisher, or a dead letter | `HandlerFails`, `HandlerFailsForGood` |
| `unsubscribe`, a connection that is lost | `Unsubscribe` |
| the WebSocket's connection, `subscribe` and `replay` | `Connect` |

`DeviceSync` is `CrossDeviceSyncManager` on several devices and the relay
between them (external, as the code uses it): `ApplyLocal`; `Sync`,
`PullAnswered`, `SyncReturns`, `SyncFails`; `Flush`, `PushStored`,
`FlushReturns`, `FlushFails`. A push can be stored and then fail.

`McpClient` has one operator for each class of the code, named like it
(`McpServerManager`, `McpToolDiscovery`, the caches, the invalidators,
`McpProgressState`, `McpSubscriptionState`, `McpServerHealthTracker`), and
`Expire` for the end of an entry's life. Every call is synchronous, so that what
is hard is not their interleaving but what a long sequence of them leaves behind.
`ReplaceServers` takes a list of servers, each in any state of `Replaced`, for the
whole configuration. The cleanup of a removal does not reach the cache of read
resources, since its `invalidate` asks for a URI (`mcp-resource-cache.ts:91`).

`Observers` is the change of a permission and what it does to the observers, one
after the other. `call[c]` is an `updatePermission` in progress and what it
awaits. Between two awaits no other call runs: `Turn` says so, and guards
everything that begins a new stretch of code.

| Code | Actions |
|---|---|
| `updatePermission`, `syncObservers` | `UpdatePermission`, `Skip` (nothing to do for an observer), `Synced` (the end) |
| `enable` of an observer, `start` of its bridge | `StartSpawning`, `StartAtOnce`, `StartThrows`; `Spawned`, `NotSpawned` |
| `revoke`, `stop` | `StopAndWait`, `StopAtOnce`; `Closed` |
| the bridge's process | `ProcessDies` |
| `capture`, permitted or not | `Keep`, `CaptureBrowser`; `RejectAndWait`, `RejectAtOnce` |
| `flush`, and the publication of what it returns | `Flush`, `Published` |

`ModelRouter` is the overlapping `invoke` calls of `model-router.ts`: `Invoke`,
`HealthAnswers`, `HealthThrows`, `Answers`, `AnswersBadly` (a response the
schema refuses), `Fails` (an error or the timeout), `CoolsDown`. `begun` and
`caught` are history, for the properties only.

## 3. What the runs check

| Run | Instance | Shows |
|---|---|---|
| `task_safety` | 1 task, 1 slot, 1 retry, 2 steps, 1 fault, 1 crash (about 940 000 states) | types; `OneDriver`; `ToolOnlyWhileExecuting`; `ToolRunIsNeverForgotten`; `CompletedMeansVerified`; `SlotsHeldByRuns`; the refinement of `TaskLifecycle` |
| `task_liveness` | 2 tasks, 1 slot, 1 step, no fault, no crash (about 150 000 states) | `NeverStuck`; `DrainEnds`; `AckedTasksSettle` |
| `task_scheduler` | 4 tasks, 2 slots, threshold 2, clock to 5, 4 entries | `SlotsBounded`; `OvertakingIsBounded`; the refinement of `TaskAdmission` |
| `resource_locks` | 3 tasks, 2 resources, duration 2, clock to 4, 3 queued requests | `StepKeepsItsLocks`; `MutualExclusion`; `NoLostGrant` |
| `jobs` | 3 jobs, 4 definitions, clock to 1, one failing save or crash (about 1 700 000 states) | `GroupsExclude`; `DependenciesFirst`; `NobodyWaitsForItself`; `FileIsCurrent`; `DelayedJobsSucceedOnce`; `StartsWhenDue` |
| `workflow` | 3 workflows: the documented one, one with long branches, one whose branch the walk refuses; 4 failures | `JoinWaits`: a join waits for all its branches, also after a resume. `ResumeRepeatsNothing`: what the valid checkpoint holds is not executed again. `SiblingsStop`: after a failing branch no other begins a task |
| `events` | 2 messages, one through the journal; two subscribers that may throw, one client; 2 attempts, a journal of 1, 3 publications of a message, 2 connections (about 6 200 000 states) | `NothingSilentlyLost`: after an accepted publication a subscriber has the message or a dead letter. `RetriesAreBounded`: attempts within the limit; who does not fail is called once; who fails is called more often than the limit only where another fails too |
| `device_sync` | 2 devices, 3 changes of one record, 2 overlapping calls of each kind, 2 suspended at a time, a log of 3 | `NothingSkipped` (the checkpoint never runs ahead); `NothingLost`; `AppliedOnce`; `Converged` |
| `mcp` | 3 servers, `a`, `b` and `a.b`; tools `x` and `b.x`; maps of 1 place, 4 calls; lists that replace all have connected servers (about 270 000 states) | `McpTypeOK`: types with the bounds of the maps. `RemovalTakesItsOwn`: a removal takes all that is kept of its server but the read resources, and of the others nothing but tools. `SourcesAreSeparate`: the tools of a server change only by what is done for it or for one whose identifier begins like its own |
| `observers` | 4 observers of different kinds, 2 callers, 5 requests, 2 processes per bridge (about 180 000 states) | `ReconciledIsStopped`: after a request that succeeded no observer without permission listens, where `stop()` does not wait; `TakenSincePurge`: nothing from before a revoke is published; `RequestsReturn` |
| `revoked_listener` | the browser's and the mouse's observer | `RevokedIsStopped` is violated (see 6) |
| `model_router` | a local and a cloud provider, 2 callers, 5 requests, 2 attempts, threshold 2 (about 75 000 states) | `CircuitFollowsFailures`; `OpenCircuitSpares`: an open circuit's provider gets only the repetitions of calls that were under way; `RequestsEnd` |

The bounds. Calls of different tasks meet only in the scheduler, so that one
task is enough for what concerns its own calls, and the two tasks of the
liveness run (and the proofs) cover the competition for a slot. Two steps tell
a first step from a last one; one retry makes a second attempt with a history
to confuse with the first; one fault and one crash at any point are enough to
leave memory and disk apart, and the second start after a failed recovery is
covered by `StartFails`. With two slots and four tasks the scheduler fills
slots by one and by two and leaves a queue behind. Three tasks let two requests
wait for the locks of a third. Any job may be registered with
any of the definitions, so that three jobs form chains, a job with two
dependencies, and cycles of two and three; with intervals of 1 and 2 one tick
makes jobs due, not yet due, and due again.

Four failures let a workflow fail in a branch, in its repetition and after the
join, and be resumed each time. A publication is refused once, given up once,
and overlaps another, with two subscribers whose failures are counted together;
a journal of one event forgets the first of two. Of the three changes two are of
one device, the later with the higher priority, so that the relay gets them in
the other order, and the other device's clock lies between; two suspended calls
are answered in both orders. Maps of one place evict at every second entry; four
calls are enough to add a server, keep something for it, remove it and add it
again; `a`'s tool `b.x` may have the name of `a.b`'s tool `x`. Two processes of
a bridge let an old one be waited for while its successor runs. Five requests
over two callers open both circuits and try them again after their cool-down.

All these bounds are constants of the modules (`MaxMishaps`, `MaxSteps`,
`MaxFaults`, `MaxCrashes`, `MaxTime`, `MaxEntries`, `MaxTickets`, `MaxFailures`,
`MaxPublishes`, `MaxConnections`, `MaxOverlap`, `MaxSuspended`, `MaxLog`,
`MaxOperations`, `Replaced`, `MaxRequests`, `MaxStarts`); the theorems do not
depend on their values. `MaxRetries`, `MaxHistory`, `Capacity`, `Attempts` and `Threshold`
are the code's own limits, made small.

Deadlock is not checked: the process really stops when no user makes a request,
and the bounded clocks stop too.

Fairness is stated in three places.

- `TaskRuntime` (`task_liveness`). The event loop resumes some
  call whose await is over as long as there is one, and a start that began goes
  on. This is one weak fairness condition over all calls, not one per call; it
  stands for storage, bus, planner and tools that answer. The executor has no
  timeout, so that for tools this is an assumption about the tools. No user
  request is fair. `AckedTasksSettle` is claimed only while nothing has failed:
  after a failing append or a crash a task may stay where it is.
- `Observers`. A call whose await is over continues, and a process that was
  told to end ends; that a process is killed is what the operating system does.
  No request, no event and no death of a process by itself is fair.
- `ModelRouter`. A call of a provider ends, since the code gives it a timeout.
  A health check has none: that it ends is an assumption about the
  providers, as that tools answer is one above.

`ToolRunIsNeverForgotten` excludes the tasks in `early`: a task that was paused
and resumed while `submitDurable` still awaited its first append can have its
`Created` checkpoint committed last. It is a window the code really has.
`RetriesAreBounded` says what the code keeps of a bound: attempts are counted for
the message and not for the subscriber, so that where two fail one of them may be
called more than `MaxRetries` times (see 6). `Converged` leaves out the fields two
changes set with the same clock, which the code gives to the one applied last.

Every property has a mutant in `PROJECT.json`: an operator next to the mapped
one (`..._Unchecked`, `..._NoRefill`, ...), with a plausible bug, under which
the same run finds the property violated.

## 4. What is proved

For every value of the constants that satisfies the modules' assumptions: finite
sets of tasks, resources, jobs and callers, at least one slot and one attempt, a
positive threshold and duration, natural bounds and clocks, definitions of jobs
as `parseInterval` accepts them, a ranking of the providers without ties, and
observers that are reconciled in some order, workflows that `validate()`
accepts, and MCP identifiers of one part or more. The bounds of a run (steps, faults,
crashes, mishaps, requests, operations) are constants too, so that nothing rests
on the numbers the configurations choose.

The proofs of a module are in a module of their own, which begins with the
inductive invariant. TLC checked an invariant on the instance of the module's run
before it was proved.

- `TaskAdmission_proofs`: `AdmissionSafe`. The conjunction of the types and the
  four safety properties is inductive; the core is that a maximal filling
  leaves a queue only behind a full set of slots.
- `TaskScheduler_proofs`: `QueueWellFormed` (types), `AdmissionImplemented`
  (each step is a step of `TaskAdmission` or a stutter), `SlotsSafe` (the
  safety properties carried over by the refinement) and `OvertakingBounded`.
  The last rests on `ThresholdsAdd`: waiting boosts of two entries differ by at
  most what their ages do.
- `TaskRuntime_proofs`, in four parts that build on each other:
  - `RuntimeInvariant`, `TypesCorrect`, `DriversExclude`,
    `ToolsRunWhileExecuting`. `OneDriver` is not inductive: the invariant adds,
    for every call that drives a task, the states the task may be in (`Admits`).
    No such state can move to Planning, which is how every driver begins; and the
    only foreign move a driven task can make is a cancellation while it plans,
    after which its driver fails at its next transition.
  - `SlotsInvariant`, `SlotsAreHeldByRuns`, `QueueIsNeverStuck`:
    `TaskAdmission`'s invariant carried through the runtime.
  - `LifecycleImplemented`. The invariant adds that everything on the disk or in
    a call about to be appended is a record of a state the task has been in, and
    that an acknowledged task is on the disk.
  - `AttemptInvariant`, `CompletionIsVerified`. How far the driver has come
    determines what the log of tools and the history must be (`InStep`): in
    "tool" one more started than answered, in Verifying all of the plan's steps,
    while verdicts are appended as many good ones as entries are gone. A record
    that says Completed, in memory, on the disk or in a call that is about to
    append it, has earned it (`Earned`); and while the process is up a task with
    such a checkpoint is Completed in memory too, so that no attempt of it begins.
  - `RememberedInvariant`, `ToolRunsAreNotForgotten`. No call holds a snapshot
    from before the first tool (`Before`) once one has run. The delicate part is
    the submission: while it awaits its first append the task may be cancelled
    but not driven, since it is neither acknowledged nor queued; where it was
    driven the task is in `early` and excluded, as the property says.
- `Services_proofs` has the theorems of two components, one after the other.
  - `ResourceManager`: `LocksTypeCorrect`, `LocksAreKept`, `LocksExclude`,
    `NoGrantIsLost`, from one invariant that ties a step to its locks and their
    times.
  - `WorkflowEngine`: `WorkflowTypes` and `SiblingsOfAFailureStop` hold for every
    definition. That no branch has failed while another that is not aborted runs
    (`SiblingsAborted`) is inductive, since a failure aborts in the same stretch
    of code. `WalkIsSafe`, `JoinsWaitForBranches` and `ResumesRepeatNothing` have
    a hypothesis on the shape of the definitions, `AllWellBranched`: the branches
    of a split are lanes that are entered at their beginning and lead to a join.
    `validate()` does not ask for this, but the properties need it: of other
    graphs it accepts, a split may execute a task the walk has completed, and a
    decision may lead to a join past the other nodes before it. The invariant
    (`WalkInv`) says that a node of a branch is completed exactly when its split
    is, in the checkpoint always and in memory except for the split that is
    going on or has failed; of that one, the nodes before the one a branch is at
    are. `MCWorkflowEngine` assumes, and TLC evaluates, that the workflows of the
    run are of this shape.
- `DeviceSync_proofs`: `SyncInvariant`, `TypeCorrect`, `ChangesAreNotLost`,
  `CheckpointIsApplied`, `ChangesAreAppliedOnce`, `UpToDateDevicesAgree`. The
  invariant says that a pull has asked for a position its device had reached and
  was answered from the log (`PullsFollow`), that a push holds its device's own
  changes and is in the log when stored (`PushesOwn`), that what was applied comes
  from the log, each change once (`AppliedFromLog`), and that each field of a
  record is what the last writers among the changes heard of have made of it
  (`RecordsFollow`). The last is independent of their order, which is why replicas
  agree.
- `JobScheduler_proofs`: `JobsInvariant` gives the shape of the stack of runJob
  calls: every frame was called for the dependency its caller is at, only
  registered jobs are on it, and each job with a controller has its group to
  itself. `GroupsAreExclusive` and `CyclesAreNoticed` are parts of it. `PassInvariant`
  adds why a job on the stack is due and which dependencies are done; with it,
  `DependenciesRunFirst` and `JobsStartWhenDue`. `DelayedJobsSucceedOnlyOnce` has an
  invariant across restarts: a delayed job that has succeeded has ended in the
  file, and in memory. `FileIsKept` has the hypothesis `Store = "injected"`, a
  store that keeps the promise of the interface; the class `FileJobStore` does
  not (section 6).
- `Clients_proofs` has the theorems of three components that share nothing.
  - `ModelRouter`: `RouterInvariant`, `CircuitsFollowFailures`,
    `OpenCircuitsSpare`. That an open circuit spares its provider is not
    inductive: the invariant counts the repetitions the calls under way may still
    make (`Left`) as if they had been made (`Budget`). A repetition is one less
    of those, a call that ends without one gives up the rest, and when a circuit
    opens each call that is caught has at most `Attempts - 1` left.
  - `EventBus`: `BusTypes`; `MessagesAreNotLost`, with the invariant that
    those who were subscribed when a publication began and still are have its
    message, or are named in a dead letter, as soon as the publication has been
    at them and gone on (`AudienceKept`); and `RetriesStayBounded`, however
    many subscribers fail. Its invariant (`RetryInv`) follows a message from one
    refused publication to the next: those that have not thrown are called once, and
    as long as only one has, those in the Set before that one have processed the
    message, so that a repetition begins with that one and the count is its own.
  - `McpClient`: `McpTypes`, with the bounds of the maps; `RemovalsAreExact`,
    for which the proof shows what `DeleteServers` leaves in a map: none of the
    entries of the servers that go and all of the others'; and
    `SourcesStaySeparate`, for any identifiers: of two prefixes of one `tool_id`
    the one is a prefix of the other (`PrefixesNest`), so that who takes a tool
    of another is related to it.
- `Observers_proofs`: `ObserversInvariant`, `ReconciledStops`,
  `EventsAreTakenSincePurge`. The call that changed a permission last has stopped
  every observer without permission it has come by (`StoppedBehind`), and a call
  that starts a bridge and is the last has the permission (`StartsPermitted`). It is
  proved of the bridges whose `stop()` does not wait, since it is false of the
  others (`KnownAreListened` is what they lack).

`ApplyAll` and `Unsent` of `DeviceSync` and `DeleteServers` of `McpClient` are
recursive functions. The prover cannot instantiate the library's theorems on
induction and recursion, which take an operator as a parameter; `SetInduction`
states the induction for sets, from the well-foundedness of `<`, and with it the
proofs show that these functions are defined and what they return for every
sequence.

Only model-checked:

- `DrainEnds`, `AckedTasksSettle`, `RequestsReturn` and `RequestsEnd`: liveness
  under fairness and `ENABLED` are out of the prover's reach;
- the violation.

Every other property of the runs is stated by a theorem. Two of the hypotheses
are not on the constants' types: `AllWellBranched` on the shape of the workflows,
which the run's instance satisfies and the code does not enforce, and the store of
`FileIsKept`.

None of the modules declares a `RECURSIVE` operator, so that each can be proved
about.

## 5. Abstractions

- Goals, texts, reasons, identifiers and times of records are left out. A tool
  result is what the verifier makes of it. A plan is its number of steps.
- A failing append commits nothing; an append that commits but reports an error
  is not modelled.
- The non-durable `submit` (a runtime without persistence), `WaitingUser` and
  `WaitingResources` (no code moves a task there), `assignOwner` and the manual
  lock interface are left out.
- `ResourceManager` takes one step per task at a time, which `OneDriver` shows
  for the coordinator's executions.
- `TaskScheduler` and `JobScheduler` take the clock to be monotone.
- In `JobScheduler` a schedule is a number: the interval, the time, or the
  distance of a cron job's occurrences. The store is any that keeps the promise
  of `JobStore` (a save happens or throws); with `Store = "file"` every
  save throws, as that class's does. `start()`
  comes first: a job registered in a process that has not loaded the file
  replaces what the file holds. Which runner a job gets is left out (`start()`
  forgets the jobs' own runners, and a second registration is refused, so that
  the default one runs them after a restart). Two saves that fail in one pass
  (the second in the catch block) are not modelled.
- `WorkflowEngine` has one execution of a workflow at a time and runs an
  identifier once; `resume` gets the checkpoint that is valid. Everything that
  ends an execution early is one failure; what an operation does that a timeout
  gave up is not in the engine's state. The values that decisions and approvals
  put into the context are the condition they select, or one that no edge has.
- `EventBus` has one topic. Envelopes and commands are valid, sessions are
  authorized, clients are not slow; the named-pipe bus, whose frames go through
  the operating system, is left out. Within this process a publisher publishes a
  message again only after an error.
- `DeviceSync` leaves out the encryption, malformed envelopes and the history of
  a record. The state of the class is in memory: there is no restart to model.
- In `McpClient` an identifier is the sequence of its parts between dots. What a
  listing, a resource or a message says is left out, and an input that a
  validator refuses changes nothing. Time is the moment an entry goes stale.
- In `Observers` an event is the number of times its observer had purged its
  events when it was captured. The six observers repeat the same code: a
  definition stands for all of them and is mapped to one. The filesystem's
  observer, which nothing constructs, and excluded domains are left out.
- `ModelRouter` has no clock: a circuit that is open cools down at some moment.
  Failures are counted up to the threshold, since only that is compared. The
  health kept for display is left out, and so is what a call that timed out
  answers later.

## 6. Disagreements with the documents

One is checked by a run, `revoked_listener`. `stop()` of the mouse's bridge
forgets its process before it awaits the end of it. A request that reconciles
meanwhile finds no process and sets Disabled at once; a grant then spawns a
second process; the end of the first clears the bridge's `child`, which is the
second by now (`mouse-observer.ts:325`), and sets Disabled, so that the next
revoke stops nothing and the second process goes on (its events are rejected).
`docs/03-runtime/observer.md:37-39` says that an observer whose permission is
revoked stops capturing. `ReconciledIsStopped` shows that this is confined to
the bridges whose `stop()` waits.

The others are stated as properties in the modules but by no run: the code does
not keep them, and each is known to be violated on the instance named.

- `CancelledIsFinal` (`TaskRuntime`, `task_safety`): a cancelled task comes back
  as Created after a restart, since
  `cancelTask` persists nothing; `docs/03-runtime/task-persistence.md:19` says
  that every transition writes a checkpoint, and
  `docs/03-runtime/task-manager.md:81` that Cancelled is final.
- `NoOrphanedLock` (`ResourceManager`): a step that does not get its locks is
  refused, but its
  request stays queued and is granted later to a task that executes nothing;
  `docs/03-runtime/resource-manager.md:68-70` says that a failed task never
  leaves an orphaned lock.
- `NoGhostRun` (`JobScheduler`): a job that runs when the process crashes is
  shown as running
  after the restart and never run again; `docs/03-runtime/job-scheduler.md:69`
  says that a restart runs at once any job that missed its window.
- `CancelledRunWaits` (`JobScheduler`): a job that ran as a dependency and was
  cancelled is started
  again in the same pass; `docs/03-runtime/job-scheduler.md:61` says it is
  rescheduled for its next normal occurrence. `StartsWhenDue` shows that this is
  the only way a job is started early.
- `FileIsCurrent` with `Store = "file"`: `FileJobStore.save` writes its
  temporary file below the job file
  itself, where no file can be, so that every save throws;
  `docs/03-runtime/job-scheduler.md:76` says that it persists atomically.
- `OnlyChosenNodes` (`WorkflowEngine`): `nextPendingNode`, which `resume` asks
  for its node (`workflow-engine.ts:223`), is not given the context and takes any
  edge to a node whose predecessors are completed, whatever its condition
  (`:444`), so that a resumed workflow may enter a branch its decision had not
  chosen; `docs/17-workflow/workflow-engine.md:24-26` has a step gate which of
  several paths executes, and `:88-92` the path taken persisted for the
  resumption.
- `RemovedServersLeaveNothing` (`McpClient`, `mcp`): the cleanup of a removal
  has no call for the cache of read resources
  (`mcp-server-local-state-cleanup.ts:41-63`, `mcp-resource-cache.ts:33`), so that
  a later server of the same name finds what was read from the one before until
  it expires; `docs/18-providers/mcp-server-management.md:108-112` says that a
  removal can clear the server's resource records.
- Dotted identifiers (`McpClient`, `mcp`): `SourcesAreSeparate` makes an
  exception for servers that are `Related`, `a` and `a.b`. The prefix
  `${serverId}.` holds the tools of both (`mcp-tool-discovery.ts:82`, `:112`), so
  that refreshing or removing `a` removes tools of `a.b`; without the exception the
  property is violated. `docs/06-tools/mcp.md:38` and
  `docs/18-providers/mcp-server-management.md:113-114` say that other servers are
  not affected.
- The attempts of two subscribers (`EventBus`, `events`): they have one counter
  (`communication-bus.ts:106`), so that one that fails may be called more than
  `maxRetries` times and be given up again and again, while the other never is.
  `RetriesAreBounded` makes an exception for it.
  `docs/02-architecture/communication-model.md` has a message go to the dead
  letters rather than be retried indefinitely (`:62-63`).
- `ReplayIsComplete` with messages that do not go through the journal
  (`events`, where one of the two does not): the runtime publishes some events on
  the bus itself (`runtime-application.ts:493`, `:508`), which a client that was away
  does not get; `docs/08-api/websocket.md:69-72` says a brief interruption does
  not silently lose a task-completion notification.
- `OneTrial` (`ModelRouter`): after its cool-down a circuit is open to every
  request until one has failed or answered (`model-router.ts:243`);
  `19-ordering-concurrency-and-retry-rules.md:119-120` says the breaker admits
  exactly one trial call.

- An open circuit (`ModelRouter`): the calls that were under way when it opened are
  repeated up to their last attempt (`model-router.ts:103`), and `OpenCircuitSpares`
  counts them in; `19-ordering-concurrency-and-retry-rules.md:108-110` says that
  while it is open calls fail fast.

Seen on the way, and no property: nobody calls `flush()` of the clipboard's and
the notifications' observer, so that the runtime does not publish what they keep;
`syncObservers` does not start again an observer that has failed; a response
that the schema refuses ends a request without the next candidate, and one health
check that throws ends it before any.

## 7. Plan

1. (done) `TaskManager`, `TaskAdmission`, `TaskScheduler`, `TaskRuntime`,
   `TaskLifecycle`, `ResourceManager`, and their proofs.
2. (done) `JobScheduler`: jobs, dependencies, groups, the job file, restarts.
3. (done) `WorkflowEngine`: splits, joins, decisions, rollbacks and resumption.
4. (done) `DeviceSync`: replicas, overlapping calls, a relay.
5. (done) `EventBus`: the bus, the journal and the clients of the WebSocket API.
6. (done) `McpClient`, `Observers`, `ModelRouter`.
7. (done) Proofs of everything the runs check but liveness.
8. Left to model, in this order: the plugin manager (enabling and disabling a
   plugin while its dependencies change), the provider registry, supervision and
   incidents, device pairing and remote control, upgrade with its rollback,
   session continuity with the offline queue, workspace locks, voice turns, and
   versioned memory; a module for cron fields (`*` stands for 0 alone in
   `parseCronField`, so that most expressions have no occurrence).

## 8. Not modelled, and why

Most lines of the implementation keep no state whose orders of change a model
checker could tell apart:

- the Electron shell and its renderer (`apps/desktop`), the browser extension
  and the platform calls: wiring and rendering;
- the greater part of `runtime-application.ts`: the construction of the
  components and some 200 projections of their state for clients; what it does
  with tasks and permissions is in `TaskRuntime` and `Observers`;
- `rest-api.ts`, the channels and the MCP message codecs: parsing, checking and
  routing of single requests;
- `configuration-store.ts`, schemas and contracts: checks of values around one
  write;
- the Groq adapter, the local model manager, the hardware scan and the code
  executor: one call of a process or a remote service each;
- assistants, analytics, ranking and logging: sequential processing of data.

The components of 7.8 do have state worth checking and are left for later; their
status in `PROJECT.json` says so. A component that is `partly` modelled names
there what is left out of it.
