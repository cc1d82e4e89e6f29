-------------------------- MODULE ResourceManager --------------------------
(***************************************************************************)
(* The exclusive locks of services/runtime/src/resource-manager.ts as the  *)
(* Executor uses them (orchestration.ts): acquire before a step that is    *)
(* not read-only, release in the finally block after it.                   *)
(*                                                                         *)
(* Locks are held by tasks, not by steps, so a task is taken to have one   *)
(* step at a time: TaskRuntime shows that it has one driver.  A step that  *)
(* does not get its locks at once is rejected, and the task fails; the     *)
(* request it has left in the queue stays there.                           *)
(***************************************************************************)
EXTENDS Naturals, FiniteSets

CONSTANTS
    Task,           \* identifiers of tasks
    Resource,       \* identifiers of lockable resources
    MaxDuration,    \* options.maxLockDurationMs, in ticks
    MaxTime,        \* bound on the clock
    MaxTickets      \* bound on the requests ever queued

ASSUME LockAssumption ==
    /\ IsFiniteSet(Task) /\ IsFiniteSet(Resource)
    /\ MaxDuration \in Nat \ {0}
    /\ MaxTime \in Nat /\ MaxTickets \in Nat

VARIABLES
    held,       \* held[r]: the lock on r, or Free
    queued,     \* the queue's requests, each with its place in the order
    tickets,    \* the number of requests ever queued
    steps,      \* steps[t]: the step of t that a tool is executing, or NoStep
    now,        \* what this.now() returns
    expired     \* history: locks have expired since the last release

vars == <<held, queued, tickets, steps, now, expired>>

Free == [free |-> TRUE]
Lock == [task : Task, acquired_at : Nat]

NoStep == [idle |-> TRUE]
Step == [needs : SUBSET Resource, since : Nat]

Request == [task : Task, resources : SUBSET Resource, ticket : Nat]

IsHeld(r) == held[r] # Free
HeldBy(r, t) == IsHeld(r) /\ held[r].task = t
Running(t) == steps[t] # NoStep

----------------------------------------------------------------------------
\* (Mutation: every() instead of some().)
Conflicts_Every(t, needs) == needs # {} /\ \A r \in needs : IsHeld(r) /\ ~HeldBy(r, t)

\* acquire() refuses: another task holds one of the resources.
Conflicts(t, needs) == \E r \in needs : IsHeld(r) /\ ~HeldBy(r, t)

Init ==
    /\ held = [r \in Resource |-> Free]
    /\ queued = {}
    /\ tickets = 0
    /\ steps = [t \in Task |-> NoStep]
    /\ now = 0
    /\ expired = FALSE

\* (Mutation: a lock the task has already is not acquired anew.)
BeginStep_KeepsOldTime(t, needs) ==
    /\ ~Running(t)
    /\ ~Conflicts(t, needs)
    /\ held' = [r \in Resource |->
                  IF r \in needs /\ ~IsHeld(r)
                  THEN [task |-> t, acquired_at |-> now] ELSE held[r]]
    /\ steps' = [steps EXCEPT ![t] = [needs |-> needs, since |-> now]]
    /\ UNCHANGED <<queued, tickets, now, expired>>

\* Executor.execute: acquire() grants the locks, the tool is called.  A step may
\* need no lock at all; its release() wakes the queue all the same.
BeginStep(t, needs) ==
    /\ ~Running(t)
    /\ ~Conflicts(t, needs)
    /\ held' = [r \in Resource |->
                  IF r \in needs THEN [task |-> t, acquired_at |-> now] ELSE held[r]]
    /\ steps' = [steps EXCEPT ![t] = [needs |-> needs, since |-> now]]
    /\ UNCHANGED <<queued, tickets, now, expired>>

\* (Mutation: a task may have several requests in the queue.)
RejectStep_QueuesAgain(t, needs) ==
    /\ ~Running(t)
    /\ Conflicts(t, needs)
    /\ queued' = queued \cup {[task |-> t, resources |-> needs, ticket |-> tickets]}
    /\ tickets' = tickets + 1
    /\ UNCHANGED <<held, steps, now, expired>>

\* Executor.execute: acquire() queues the request and the step is rejected.  (If
\* the task has a request in the queue, it is rejected and nothing changes.)
RejectStep(t, needs) ==
    /\ ~Running(t)
    /\ Conflicts(t, needs)
    /\ \A q \in queued : q.task # t
    /\ queued' = queued \cup {[task |-> t, resources |-> needs, ticket |-> tickets]}
    /\ tickets' = tickets + 1
    /\ UNCHANGED <<held, steps, now, expired>>

\* (Mutation: the scan stops at the first request it cannot grant.)
Grants_InOrderOnly(t, granted) ==
    \A q \in queued :
        q \in granted <=>
            /\ \A p \in queued : p.ticket < q.ticket => p \in granted
            /\ \A r \in q.resources :
                  /\ ~IsHeld(r) \/ HeldBy(r, t)
                  /\ \A p \in granted : p.ticket < q.ticket => r \notin p.resources

\* The requests that the scan in release(t) grants: in the order of the queue,
\* each one whose resources are all free when its turn comes.
Grants(t, granted) ==
    \A q \in queued :
        q \in granted <=>
            \A r \in q.resources :
                /\ ~IsHeld(r) \/ HeldBy(r, t)
                /\ \A p \in granted : p.ticket < q.ticket => r \notin p.resources

\* The finally block of Executor.execute: release(t), however the step ended.
EndStep(t, granted) ==
    /\ Running(t)
    /\ Grants(t, granted)
    /\ held' = [r \in Resource |->
                  IF \E q \in granted : r \in q.resources
                  THEN [task |-> (CHOOSE q \in granted : r \in q.resources).task,
                        acquired_at |-> now]
                  ELSE IF HeldBy(r, t) THEN Free ELSE held[r]]
    /\ queued' = queued \ granted
    /\ steps' = [steps EXCEPT ![t] = NoStep]
    /\ expired' = FALSE
    /\ UNCHANGED <<tickets, now>>

\* expireLocks(): overdue locks are dropped; nothing is granted, and neither
\* their holders nor their steps are told.
ExpireLocks ==
    LET overdue == {r \in Resource : IsHeld(r) /\ now - held[r].acquired_at >= MaxDuration}
    IN  /\ overdue # {}
        /\ held' = [r \in Resource |-> IF r \in overdue THEN Free ELSE held[r]]
        /\ expired' = TRUE
        /\ UNCHANGED <<queued, tickets, steps, now>>

Tick ==
    /\ now < MaxTime
    /\ now' = now + 1
    /\ UNCHANGED <<held, queued, tickets, steps, expired>>

Next ==
    \/ \E t \in Task : \E needs \in SUBSET Resource : BeginStep(t, needs)
    \/ /\ tickets < MaxTickets
       /\ \E t \in Task : \E needs \in SUBSET Resource \ {{}} : RejectStep(t, needs)
    \/ \E t \in Task : \E granted \in SUBSET queued : EndStep(t, granted)
    \/ ExpireLocks
    \/ Tick

Spec == Init /\ [][Next]_vars

----------------------------------------------------------------------------
TypeOK ==
    /\ held \in [Resource -> Lock \cup {Free}]
    /\ queued \subseteq Request
    /\ \A p, q \in queued : p.task = q.task \/ p.ticket = q.ticket => p = q
    /\ \A q \in queued : q.ticket < tickets
    /\ tickets \in Nat
    /\ steps \in [Task -> Step \cup {NoStep}]
    /\ now \in Nat
    /\ expired \in BOOLEAN

\* The step of t has not run for so long that its locks may have expired.
InTime(t) == Running(t) /\ now - steps[t].since < MaxDuration

\* A tool that has not outrun the lock duration still has every lock it was
\* started with, whatever was released, granted or expired in between.
StepKeepsItsLocks ==
    \A t \in Task : InTime(t) => \A r \in steps[t].needs : HeldBy(r, t)

\* Two tools work on one resource at once only if one of them has outrun the
\* lock duration, which is the only way to lose a lock.
MutualExclusion ==
    \A t, u \in Task :
        t # u /\ InTime(t) /\ InTime(u) => steps[t].needs \cap steps[u].needs = {}

\* No wakeup is lost: unless locks have expired (which wakes nobody) since the
\* last release, every request in the queue waits for a resource that is held.
NoLostGrant ==
    ~expired => \A q \in queued : \E r \in q.resources : IsHeld(r)

\* A lock belongs to a step: a task that is not executing one holds nothing.
NoOrphanedLock == \A r \in Resource : IsHeld(r) => Running(held[r].task)
============================================================================
