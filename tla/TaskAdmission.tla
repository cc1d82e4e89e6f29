--------------------------- MODULE TaskAdmission ---------------------------
(***************************************************************************)
(* What services/runtime/src/task-scheduler.ts promises, without the order *)
(* in which it picks tasks: a queue and a set of running executions, at    *)
(* most MaxConcurrent of them, and a drain that lasts from the first       *)
(* dispatch() until both are empty.  TaskScheduler refines this module     *)
(* with priorities and aging; TaskRuntime uses its actions directly.       *)
(*                                                                         *)
(* In each action S is the set of tasks that fillSlots() starts.           *)
(***************************************************************************)
EXTENDS Naturals, FiniteSets

CONSTANTS
    Task,            \* identifiers of the tasks that may be enqueued
    MaxConcurrent    \* options.maxConcurrent

ASSUME AdmissionAssumption ==
    /\ IsFiniteSet(Task)
    /\ MaxConcurrent \in Nat \ {0}     \* the constructor throws otherwise

VARIABLES
    queue,      \* the tasks in this.queue
    running,    \* this.running
    draining    \* whether this.drainPromise is set

admission == <<queue, running, draining>>

AdmissionInit ==
    /\ queue = {}
    /\ running = {}
    /\ draining = FALSE

\* fillSlots() moves S from the queue q to the running set r: it stops only
\* when the queue is empty or the slots are all taken.
Fills(q, r, S) ==
    /\ S \subseteq q
    /\ S = {} \/ Cardinality(r \cup S) <= MaxConcurrent
    /\ S = q \/ Cardinality(r \cup S) >= MaxConcurrent

\* enqueue(): a task that is queued or running is not queued again.
Enqueued(t) == IF t \in running THEN queue ELSE queue \cup {t}

\* finishDrain() runs when nothing is queued and nothing is running.
StillDraining(q, r) == q # {} \/ r # {}

\* enqueue(t) and then dispatch(), which fills the slots only when no drain
\* is going on.
EnqueueAndDispatch(t, S) ==
    /\ IF draining THEN S = {} ELSE Fills(Enqueued(t), running, S)
    /\ queue' = Enqueued(t) \ S
    /\ running' = running \cup S
    /\ draining' = (draining \/ StillDraining(queue', running'))

\* cancel(t)
CancelQueued(t) ==
    /\ queue' = queue \ {t}
    /\ running' = running
    /\ draining' = (draining /\ (t \in queue => StillDraining(queue', running)))

\* (Mutation: the freed slot is not filled again.)
Finally_NoRefill(t, S) ==
    /\ t \in running /\ S = {}
    /\ running' = running \ {t}
    /\ draining' = (draining /\ StillDraining(queue, running'))
    /\ UNCHANGED queue

\* (Mutation: the end of the drain is not noticed.)
Finally_NoFinishDrain(t, S) ==
    /\ t \in running
    /\ Fills(queue, running \ {t}, S)
    /\ queue' = queue \ S
    /\ running' = (running \ {t}) \cup S
    /\ UNCHANGED draining

\* The finally block of run(t).
Finally(t, S) ==
    /\ t \in running
    /\ Fills(queue, running \ {t}, S)
    /\ queue' = queue \ S
    /\ running' = (running \ {t}) \cup S
    /\ draining' = (draining /\ StillDraining(queue', running'))

AdmissionNext ==
    \E t \in Task :
        \/ \E S \in SUBSET Task : EnqueueAndDispatch(t, S)
        \/ CancelQueued(t)
        \/ \E S \in SUBSET queue : Finally(t, S)

AdmissionSpec == AdmissionInit /\ [][AdmissionNext]_admission

----------------------------------------------------------------------------
\* No task is queued while it runs, so none is executed twice at once.
NeverQueuedTwice == queue \cap running = {}

\* Dispatch never starts more than maxConcurrent executions.
SlotsBounded == Cardinality(running) <= MaxConcurrent

\* A queued task is never left waiting with nobody running to fill the slots
\* when it ends: dispatch() fills them only when no drain is going on, so this
\* is what keeps the queue from getting stuck.
NeverStuck == queue # {} => running # {}

\* The promise dispatch() returns is pending exactly while something runs.
DrainLastsWhileRunning == draining <=> running # {}
============================================================================
