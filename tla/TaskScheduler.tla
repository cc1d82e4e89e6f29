--------------------------- MODULE TaskScheduler ---------------------------
(***************************************************************************)
(* The TaskScheduler of services/runtime/src/task-scheduler.ts: a queue    *)
(* ordered by priority and age in front of a bounded number of slots.  It  *)
(* refines TaskAdmission, which leaves the order open.                     *)
(*                                                                         *)
(* A stretch of code without an await sees one value of now().  The clock  *)
(* is taken to be monotone, which Date.now() is unless the system clock is *)
(* set back.                                                               *)
(***************************************************************************)
EXTENDS Integers, FiniteSets

CONSTANTS
    Task,                   \* identifiers of the tasks that may be enqueued
    MaxConcurrent,          \* options.maxConcurrent
    StarvationThreshold,    \* options.starvationThresholdMs, in ticks
    MaxTime,                \* bound on the clock
    MaxEntries              \* bound on the entries ever made

ASSUME SchedulerAssumption ==
    /\ IsFiniteSet(Task)
    /\ MaxConcurrent \in Nat \ {0}
    /\ StarvationThreshold \in Nat \ {0}
    /\ MaxTime \in Nat /\ MaxEntries \in Nat

VARIABLES
    entries,     \* this.queue; its order in the array never matters
    running,     \* this.running
    draining,    \* whether this.drainPromise is set
    sequence,    \* this.sequence
    now          \* what this.now() returns

vars == <<entries, running, draining, sequence, now>>

\* priorityRank: background, default and interactive.
Rank == {0, 1, 2}

Entry == [task : Task, rank : Rank, sequence : Nat, enqueuedAt : Nat]

TasksOf(es) == {e.task : e \in es}

----------------------------------------------------------------------------
\* (Mutation: waiting does not raise an entry.)
AgeBoost_NoAging(e) == 0

\* The score of nextIndex(): one rank more for every threshold waited.
AgeBoost(e) == (now - e.enqueuedAt) \div StarvationThreshold
Score(e) == e.rank + AgeBoost(e)

\* nextIndex() prefers e to f.
Precedes(e, f) ==
    \/ Score(e) > Score(f)
    \/ Score(e) = Score(f) /\ e.sequence < f.sequence

\* (Mutation: one slot too many.)
Fills_OffByOne(es, r, P) ==
    /\ P \subseteq es
    /\ P = {} \/ Cardinality(r \cup TasksOf(P)) <= MaxConcurrent + 1
    /\ P = es \/ Cardinality(r \cup TasksOf(P)) >= MaxConcurrent + 1
    /\ \A e \in P, f \in es \ P : Precedes(e, f)

\* fillSlots() takes the entries of P from es, one by one, while there is a
\* slot beside the tasks of r: each time the best of those left.
Fills(es, r, P) ==
    /\ P \subseteq es
    /\ P = {} \/ Cardinality(r \cup TasksOf(P)) <= MaxConcurrent
    /\ P = es \/ Cardinality(r \cup TasksOf(P)) >= MaxConcurrent
    /\ \A e \in P, f \in es \ P : Precedes(e, f)

\* enqueue() of a task that is neither queued nor running.
NewEntry(t, rank) ==
    [task |-> t, rank |-> rank, sequence |-> sequence, enqueuedAt |-> now]

StillDraining(es, r) == es # {} \/ r # {}

----------------------------------------------------------------------------
Init ==
    /\ entries = {}
    /\ running = {}
    /\ draining = FALSE
    /\ sequence = 0
    /\ now = 0

\* (Mutation: a running task is queued again.)
Enqueue_Requeues(t, rank) ==
    IF t \in TasksOf(entries)
    THEN [queue |-> entries, next |-> sequence]
    ELSE [queue |-> entries \cup {NewEntry(t, rank)}, next |-> sequence + 1]

\* (Mutation: the sequence number is not counted up.)
Enqueue_SameNumber(t, rank) ==
    IF t \in running \cup TasksOf(entries)
    THEN [queue |-> entries, next |-> sequence]
    ELSE [queue |-> entries \cup {NewEntry(t, rank)}, next |-> sequence]

\* enqueue(t, rank)
Enqueue(t, rank) ==
    IF t \in running \cup TasksOf(entries)
    THEN [queue |-> entries, next |-> sequence]
    ELSE [queue |-> entries \cup {NewEntry(t, rank)}, next |-> sequence + 1]

\* enqueue(t, rank) and dispatch(), which every caller calls together.
Submit(t, rank, P) ==
    LET enqueued == Enqueue(t, rank)
    IN  /\ IF draining THEN P = {} ELSE Fills(enqueued.queue, running, P)
        /\ entries' = enqueued.queue \ P
        /\ running' = running \cup TasksOf(P)
        /\ draining' = (draining \/ StillDraining(entries', running'))
        /\ sequence' = enqueued.next
        /\ now' = now

\* (Mutation: splice(index) instead of splice(index, 1).)
Cancel_CutsTail(t) ==
    /\ t \in TasksOf(entries)
    /\ entries' = {e \in entries :
                     \A f \in entries : f.task = t => e.sequence < f.sequence}
    /\ draining' = (draining /\ StillDraining(entries', running))
    /\ UNCHANGED <<running, sequence, now>>

\* cancel(t)
Cancel(t) ==
    /\ t \in TasksOf(entries)
    /\ entries' = {e \in entries : e.task # t}
    /\ draining' = (draining /\ StillDraining(entries', running))
    /\ UNCHANGED <<running, sequence, now>>

\* (Mutation: the freed slot is not filled again.)
Finally_NoRefill(t, P) ==
    /\ t \in running /\ P = {}
    /\ running' = running \ {t}
    /\ draining' = (draining /\ StillDraining(entries, running'))
    /\ UNCHANGED <<entries, sequence, now>>

\* (Mutation: the end of the drain is not noticed.)
Finally_NoFinishDrain(t, P) ==
    /\ t \in running
    /\ Fills(entries, running \ {t}, P)
    /\ entries' = entries \ P
    /\ running' = (running \ {t}) \cup TasksOf(P)
    /\ UNCHANGED <<draining, sequence, now>>

\* The finally block of run(t): the dispatcher's promise has settled.
Finally(t, P) ==
    /\ t \in running
    /\ Fills(entries, running \ {t}, P)
    /\ entries' = entries \ P
    /\ running' = (running \ {t}) \cup TasksOf(P)
    /\ draining' = (draining /\ StillDraining(entries', running'))
    /\ UNCHANGED <<sequence, now>>

Tick ==
    /\ now < MaxTime
    /\ now' = now + 1
    /\ UNCHANGED <<entries, running, draining, sequence>>

Next ==
    \/ /\ sequence < MaxEntries
       /\ \E t \in Task, rank \in Rank :
             \E P \in SUBSET Enqueue(t, rank).queue : Submit(t, rank, P)
    \/ \E t \in Task : Cancel(t)
    \/ \E t \in Task : \E P \in SUBSET entries : Finally(t, P)
    \/ Tick

Spec == Init /\ [][Next]_vars

----------------------------------------------------------------------------
\* Entries are told apart by their task and by their sequence number, were
\* numbered in the order of their times, and none is from the future.
EntriesOrdered ==
    /\ \A e \in entries : e.sequence < sequence /\ e.enqueuedAt <= now
    /\ \A e, f \in entries :
          /\ e.task = f.task \/ e.sequence = f.sequence => e = f
          /\ e.sequence < f.sequence => e.enqueuedAt <= f.enqueuedAt

\* The variables have their types, and the queue is well formed: enqueue()
\* relies on it to find a task by its identifier, nextIndex() to break ties.
TypeOK ==
    /\ entries \subseteq Entry
    /\ EntriesOrdered
    /\ running \subseteq Task
    /\ draining \in BOOLEAN
    /\ sequence \in Nat
    /\ now \in Nat

\* The entries that leave the queue to be executed in this step.
Started == {e \in entries : e \notin entries' /\ e.task \in running'}

\* Aging bounds how long an older entry can be passed over: a later one is
\* started before it only if its rank is higher by more than the number of
\* whole thresholds that lie between their arrivals.  So entries of equal
\* rank are started in their order, and no entry is ever passed over by one
\* that came two thresholds after it: an unbounded stream of interactive
\* tasks starves nobody.
OvertakingIsBounded ==
    [][\A e \in entries \cap entries', f \in Started :
          e.sequence < f.sequence =>
              f.rank > e.rank + (f.enqueuedAt - e.enqueuedAt) \div StarvationThreshold]_vars

\* The scheduler is a TaskAdmission with a particular choice of tasks.
Admission == INSTANCE TaskAdmission WITH queue <- TasksOf(entries)
ImplementsAdmission == Admission!AdmissionSpec

\* No task is queued while it runs, so none is executed twice at once.
NeverQueuedTwice == Admission!NeverQueuedTwice

\* Dispatch never starts more than maxConcurrent executions.
SlotsBounded == Admission!SlotsBounded

\* A task is never left in the queue with nobody running to start it later.
NeverStuck == Admission!NeverStuck

\* The promise of dispatch() is pending exactly while something runs.
DrainLastsWhileRunning == Admission!DrainLastsWhileRunning
============================================================================
