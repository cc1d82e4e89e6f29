----------------------- MODULE TaskScheduler_proofs -----------------------
(***************************************************************************)
(* Theorems about TaskScheduler for every set of tasks, slot count and     *)
(* starvation threshold, and without a bound on the clock that matters.    *)
(*                                                                         *)
(* Entries are told apart by their tasks and by their numbers (TypeOK), so *)
(* moving entries is moving tasks: that is the refinement of TaskAdmission,*)
(* from which the invariants on slots follow.  What aging guarantees is    *)
(* arithmetic: (a + b) \div T is at least a \div T + b \div T.             *)
(***************************************************************************)
EXTENDS TaskScheduler, TLAPS

Slots == INSTANCE TaskAdmission_proofs WITH queue <- TasksOf(entries)

LEMMA ThresholdsAdd ==
  ASSUME NEW a \in Nat, NEW b \in Nat, NEW T \in Nat \ {0}
  PROVE  a \div T + b \div T <= (a + b) \div T
  <1> DEFINE p == a \div T
             q == b \div T
             s == (a + b) \div T
  <1>1. p \in Int /\ q \in Int /\ s \in Int
    OBVIOUS
  <1>2. T * p <= a /\ T * q <= b /\ a + b < T * (s + 1)
    OBVIOUS
  <1> HIDE DEF p, q, s
  <1>3. T * (p + q) < T * (s + 1)
    BY <1>1, <1>2
  <1>4. p + q < s + 1
    BY <1>1, <1>3
  <1>5. p + q <= s
    BY <1>1, <1>4
  <1> QED  BY <1>5 DEF p, q, s

----------------------------------------------------------------------------
(* The queue.                                                              *)

\* What enqueue() returns is a well-formed queue again.
LEMMA EnqueueTypes ==
  ASSUME TypeOK, NEW t \in Task, NEW rank \in Rank
  PROVE  LET es == Enqueue(t, rank).queue
             n == Enqueue(t, rank).next
         IN  /\ es \subseteq Entry /\ n \in Nat
             /\ \A e \in es : e.sequence < n /\ e.enqueuedAt <= now
             /\ \A e, f \in es :
                   /\ e.task = f.task \/ e.sequence = f.sequence => e = f
                   /\ e.sequence < f.sequence => e.enqueuedAt <= f.enqueuedAt
  <1>1. CASE t \in running \cup TasksOf(entries)
    BY <1>1 DEF Enqueue, TypeOK, EntriesOrdered
  <1>2. CASE t \notin running \cup TasksOf(entries)
    <2> DEFINE new == NewEntry(t, rank)
    <2>1. /\ Enqueue(t, rank).queue = entries \cup {new}
          /\ Enqueue(t, rank).next = sequence + 1
      BY <1>2 DEF Enqueue
    <2>2. /\ new \in Entry /\ new.task = t
          /\ new.sequence = sequence /\ new.enqueuedAt = now
      BY DEF NewEntry, Entry, TypeOK
    <2>3. \A e \in entries : e.task # t
      BY <1>2 DEF TasksOf
    <2>4. \A e \in entries : e.sequence \in Nat /\ e.enqueuedAt \in Nat
      BY DEF TypeOK, Entry
    <2> HIDE DEF new
    <2> QED  BY <2>1, <2>2, <2>3, <2>4 DEF TypeOK, EntriesOrdered
  <1> QED  BY <1>1, <1>2

LEMMA TypePreserved == TypeOK /\ [Next]_vars => TypeOK'
  <1> SUFFICES ASSUME TypeOK, [Next]_vars
               PROVE  TypeOK'
    OBVIOUS
  <1>1. ASSUME NEW P, P \subseteq entries
        PROVE  TasksOf(P) \subseteq Task
    BY <1>1 DEF TasksOf, TypeOK, Entry
  <1>2. ASSUME NEW t \in Task, NEW rank \in Rank,
               NEW P \in SUBSET Enqueue(t, rank).queue, Submit(t, rank, P)
        PROVE  TypeOK'
    <2> DEFINE es == Enqueue(t, rank).queue
    <2>1. /\ entries' = es \ P /\ running' = running \cup TasksOf(P)
          /\ sequence' = Enqueue(t, rank).next /\ now' = now
          /\ draining' = (draining \/ StillDraining(entries', running'))
      BY <1>2 DEF Submit
    <2>2. TasksOf(P) \subseteq Task
      BY EnqueueTypes DEF TasksOf, Entry
    <2>3. draining' \in BOOLEAN
      BY <2>1 DEF StillDraining
    <2>4. entries' \subseteq es
      BY <2>1
    <2>5. entries' \subseteq Entry /\ sequence' \in Nat
      BY <2>1, <2>4, EnqueueTypes
    <2>6. EntriesOrdered'
      BY <2>1, <2>4, EnqueueTypes DEF EntriesOrdered
    <2> HIDE DEF es
    <2> QED  BY <2>1, <2>2, <2>3, <2>5, <2>6 DEF TypeOK
  <1>3. ASSUME NEW t \in Task, Cancel(t)
        PROVE  TypeOK'
    <2>1. entries' \subseteq entries
      BY <1>3 DEF Cancel
    <2>2. EntriesOrdered'
      BY <1>3, <2>1 DEF TypeOK, EntriesOrdered, Cancel
    <2> QED  BY <1>3, <2>1, <2>2 DEF Cancel, TypeOK
  <1>4. ASSUME NEW t \in Task, NEW P \in SUBSET entries, Finally(t, P)
        PROVE  TypeOK'
    <2>1. entries' \subseteq entries
      BY <1>4 DEF Finally
    <2>2. EntriesOrdered'
      BY <1>4, <2>1 DEF TypeOK, EntriesOrdered, Finally
    <2> QED  BY <1>1, <1>4, <2>1, <2>2 DEF Finally, TypeOK
  <1>5. CASE Tick
    <2>1. \A e \in entries : e.enqueuedAt \in Nat
      BY DEF TypeOK, Entry
    <2> QED  BY <1>5, <2>1 DEF Tick, TypeOK, EntriesOrdered
  <1>6. CASE UNCHANGED vars
    BY <1>6 DEF vars, TypeOK, EntriesOrdered
  <1> QED  BY <1>2, <1>3, <1>4, <1>5, <1>6 DEF Next

\* The queue is always well formed, so that a task has one entry at most and
\* ties between equal scores are broken by one number.
THEOREM QueueWellFormed == Spec => []TypeOK
  <1>1. Init => TypeOK
    <2> SUFFICES ASSUME Init PROVE TypeOK
      OBVIOUS
    <2>1. entries = {} /\ running = {} /\ draining = FALSE /\ sequence = 0 /\ now = 0
      BY DEF Init
    <2>2. EntriesOrdered
      BY <2>1 DEF EntriesOrdered
    <2> QED  BY <2>1, <2>2 DEF TypeOK
  <1> QED  BY <1>1, TypePreserved, PTL DEF Spec

----------------------------------------------------------------------------
(* Refinement of TaskAdmission.                                            *)

\* Taking entries out of the queue is taking their tasks out.
LEMMA TasksLeft ==
  ASSUME NEW es, NEW P \in SUBSET es, \A e, f \in es : e.task = f.task => e = f
  PROVE  TasksOf(es \ P) = TasksOf(es) \ TasksOf(P)
  BY DEF TasksOf

LEMMA SameCardinality == \A S : Admission!Cardinality(S) = Cardinality(S)
  BY DEF Admission!Cardinality, Cardinality

LEMMA FillsTasks ==
  ASSUME NEW es, NEW r, NEW P, Fills(es, r, P)
  PROVE  Admission!Fills(TasksOf(es), r, TasksOf(P))
  <1>1. TasksOf(P) \subseteq TasksOf(es)
    BY DEF Fills, TasksOf
  <1>2. P = {} => TasksOf(P) = {}
    BY DEF TasksOf
  <1>3. P = es => TasksOf(P) = TasksOf(es)
    OBVIOUS
  <1> QED  BY <1>1, <1>2, <1>3, SameCardinality DEF Fills, Admission!Fills

LEMMA StepRefines ==
  ASSUME TypeOK, [Next]_vars
  PROVE  [Admission!AdmissionNext]_(Admission!admission)
  <1>1. ASSUME NEW t \in Task, NEW rank \in Rank,
               NEW P \in SUBSET Enqueue(t, rank).queue, Submit(t, rank, P)
        PROVE  Admission!AdmissionNext
    <2> DEFINE es == Enqueue(t, rank).queue
               S == TasksOf(P)
    <2>1. TasksOf(es) = Admission!Enqueued(t)
      <3>1. NewEntry(t, rank).task = t
        BY DEF NewEntry
      <3> QED  BY <3>1 DEF Enqueue, Admission!Enqueued, TasksOf
    <2>2. TasksOf(es \ P) = TasksOf(es) \ S
      <3>1. \A e, f \in es : e.task = f.task => e = f
        BY EnqueueTypes
      <3> HIDE DEF es
      <3> QED  BY <3>1, TasksLeft, P \in SUBSET es DEF es
    <2>3. S \in SUBSET Task
      BY EnqueueTypes DEF TasksOf, Entry
    <2>4. IF draining THEN S = {} ELSE Admission!Fills(Admission!Enqueued(t), running, S)
      <3>1. CASE draining
        BY <1>1, <3>1 DEF Submit, TasksOf
      <3>2. CASE ~draining
        <4>1. Fills(es, running, P)
          BY <1>1, <3>2 DEF Submit
        <4> QED  BY <2>1, <3>2, <4>1, FillsTasks
      <3> QED  BY <3>1, <3>2
    <2>5. /\ TasksOf(entries)' = Admission!Enqueued(t) \ S
          /\ running' = running \cup S
      BY <1>1, <2>1, <2>2 DEF Submit
    <2>6. draining' = (draining \/ Admission!StillDraining(TasksOf(entries)', running'))
      BY <1>1 DEF Submit, StillDraining, Admission!StillDraining, TasksOf
    <2>7. Admission!EnqueueAndDispatch(t, S)
      BY <2>4, <2>5, <2>6 DEF Admission!EnqueueAndDispatch
    <2> QED  BY <2>3, <2>7 DEF Admission!AdmissionNext
  <1>2. ASSUME NEW t \in Task, Cancel(t)
        PROVE  Admission!AdmissionNext
    <2>1. TasksOf(entries)' = TasksOf(entries) \ {t}
      BY <1>2 DEF Cancel, TasksOf
    <2>2. running' = running
          /\ draining' = (draining /\ Admission!StillDraining(TasksOf(entries)', running))
      BY <1>2 DEF Cancel, StillDraining, Admission!StillDraining, TasksOf
    <2>3. t \in TasksOf(entries)
      BY <1>2 DEF Cancel
    <2>4. Admission!CancelQueued(t)
      BY <2>1, <2>2, <2>3 DEF Admission!CancelQueued
    <2> QED  BY <2>4 DEF Admission!AdmissionNext
  <1>3. ASSUME NEW t \in Task, NEW P \in SUBSET entries, Finally(t, P)
        PROVE  Admission!AdmissionNext
    <2> DEFINE S == TasksOf(P)
    <2>1. t \in running /\ Admission!Fills(TasksOf(entries), running \ {t}, S)
      BY <1>3, FillsTasks DEF Finally
    <2>2. TasksOf(entries)' = TasksOf(entries) \ S
      <3>1. TasksOf(entries \ P) = TasksOf(entries) \ TasksOf(P)
        BY TasksLeft DEF TypeOK, EntriesOrdered
      <3> QED  BY <1>3, <3>1 DEF Finally
    <2>3. /\ running' = (running \ {t}) \cup S
          /\ draining' = (draining /\ Admission!StillDraining(TasksOf(entries)', running'))
      BY <1>3 DEF Finally, StillDraining, Admission!StillDraining, TasksOf
    <2>4. S \in SUBSET TasksOf(entries)
      BY DEF TasksOf
    <2>5. Admission!Finally(t, S)
      BY <2>1, <2>2, <2>3 DEF Admission!Finally
    <2> QED  BY <2>4, <2>5 DEF Admission!AdmissionNext
  <1>4. CASE Tick \/ UNCHANGED vars
    BY <1>4 DEF Tick, vars, Admission!admission, TasksOf
  <1> QED  BY <1>1, <1>2, <1>3, <1>4 DEF Next

\* Priorities and aging only choose among what TaskAdmission leaves open.
THEOREM AdmissionImplemented == Spec => ImplementsAdmission
  <1>1. Init => Admission!AdmissionInit
    BY DEF Init, Admission!AdmissionInit, TasksOf
  <1> QED  BY <1>1, StepRefines, QueueWellFormed, PTL
           DEF Spec, ImplementsAdmission, Admission!AdmissionSpec

\* Its invariants are TaskScheduler's: the slots are never more than
\* maxConcurrent, no task is both queued and running, the queue is never left
\* with nobody running, and dispatch() resolves when nothing runs any more.
THEOREM SlotsSafe ==
    Spec => [](NeverQueuedTwice /\ SlotsBounded /\ NeverStuck /\ DrainLastsWhileRunning)
  <1>1. Slots!AdmissionAssumption
    <2>1. Slots!IsFiniteSet(Task)
      BY SchedulerAssumption DEF Slots!IsFiniteSet, IsFiniteSet
    <2> QED  BY <2>1, SchedulerAssumption DEF Slots!AdmissionAssumption
  <1>2. Slots!AdmissionSpec => []Slots!AdmissionInv
    BY <1>1, Slots!AdmissionSafe
  <1>3. Admission!AdmissionInit => Slots!AdmissionInit
    BY DEF Admission!AdmissionInit, Slots!AdmissionInit
  <1>4. \A S : Slots!Cardinality(S) = Admission!Cardinality(S)
    BY DEF Slots!Cardinality, Admission!Cardinality
  <1>5. [Admission!AdmissionNext]_(Admission!admission)
           => [Slots!AdmissionNext]_(Slots!admission)
    BY <1>4 DEF Admission!AdmissionNext, Admission!admission, Admission!EnqueueAndDispatch,
           Admission!Enqueued, Admission!Fills, Admission!StillDraining,
           Admission!CancelQueued, Admission!Finally,
           Slots!AdmissionNext, Slots!admission, Slots!EnqueueAndDispatch,
           Slots!Enqueued, Slots!Fills, Slots!StillDraining,
           Slots!CancelQueued, Slots!Finally
  <1>6. Slots!AdmissionInv
           => NeverQueuedTwice /\ SlotsBounded /\ NeverStuck /\ DrainLastsWhileRunning
    BY <1>4 DEF Slots!AdmissionInv, Slots!NeverQueuedTwice, Slots!SlotsBounded,
           Slots!NeverStuck, Slots!DrainLastsWhileRunning,
           NeverQueuedTwice, SlotsBounded, NeverStuck, DrainLastsWhileRunning,
           Admission!NeverQueuedTwice, Admission!SlotsBounded,
           Admission!NeverStuck, Admission!DrainLastsWhileRunning
  <1> QED  BY <1>2, <1>3, <1>5, <1>6, AdmissionImplemented, PTL
           DEF ImplementsAdmission, Admission!AdmissionSpec, Slots!AdmissionSpec

----------------------------------------------------------------------------
(* Aging.                                                                  *)

\* Among entries of one queue, a later one precedes an earlier one only by a
\* rank that is higher than the earlier one's by the thresholds between them.
LEMMA OvertakingNeedsRank ==
  ASSUME NEW e \in Entry, NEW f \in Entry, now \in Nat,
         e.enqueuedAt <= f.enqueuedAt, f.enqueuedAt <= now,
         e.sequence < f.sequence, Precedes(f, e)
  PROVE  f.rank > e.rank + (f.enqueuedAt - e.enqueuedAt) \div StarvationThreshold
  <1> DEFINE a == f.enqueuedAt - e.enqueuedAt
             b == now - f.enqueuedAt
             T == StarvationThreshold
  <1>1. /\ e.enqueuedAt \in Nat /\ f.enqueuedAt \in Nat
        /\ e.sequence \in Nat /\ f.sequence \in Nat
        /\ e.rank \in Int /\ f.rank \in Int
    BY DEF Entry, Rank
  <1>2. a \in Nat /\ b \in Nat /\ T \in Nat \ {0} /\ now - e.enqueuedAt = a + b
    BY <1>1, SchedulerAssumption
  <1>3. Score(f) > Score(e)
    <2>1. ~(f.sequence < e.sequence)
      BY <1>1
    <2> QED  BY <2>1 DEF Precedes
  <1>4. Score(f) = f.rank + b \div T /\ Score(e) = e.rank + (a + b) \div T
    BY <1>2 DEF Score, AgeBoost
  <1>5. a \div T + b \div T <= (a + b) \div T
    BY <1>2, ThresholdsAdd
  <1>6. a \div T \in Int /\ b \div T \in Int /\ (a + b) \div T \in Int
    BY <1>2
  <1>7. \A x, y, z \in Int, p, q \in Int : q + x > p + z /\ y + x <= z => q > p + y
    OBVIOUS
  <1> HIDE DEF a, b, T
  <1>8. f.rank > e.rank + a \div T
    BY <1>1, <1>3, <1>4, <1>5, <1>6, <1>7
  <1> QED  BY <1>8 DEF a, T

\* However long the stream of later and more urgent tasks is, an entry is
\* overtaken only by the rank that its age does not yet make up for.
THEOREM OvertakingBounded == Spec => OvertakingIsBounded
  <1>1. ASSUME TypeOK, NeverQueuedTwice, [Next]_vars,
               NEW e \in entries \cap entries', NEW f \in Started, e.sequence < f.sequence
        PROVE  f.rank > e.rank + (f.enqueuedAt - e.enqueuedAt) \div StarvationThreshold
    <2>1. /\ e \in entries /\ e \in entries'
          /\ f \in entries /\ f \notin entries' /\ f.task \in running'
      BY <1>1 DEF Started
    <2>2. SUFFICES Precedes(f, e)
      <3>1. e \in Entry /\ f \in Entry /\ now \in Nat
        BY <1>1, <2>1 DEF TypeOK
      <3>2. e.enqueuedAt <= f.enqueuedAt /\ f.enqueuedAt <= now
        BY <1>1, <2>1 DEF TypeOK, EntriesOrdered
      <3> QED  BY <1>1, <3>1, <3>2, OvertakingNeedsRank
    <2>3. ASSUME NEW t \in Task, NEW rank \in Rank,
                 NEW P \in SUBSET Enqueue(t, rank).queue, Submit(t, rank, P)
          PROVE  Precedes(f, e)
      <3> DEFINE es == Enqueue(t, rank).queue
      <3>1. entries \subseteq es /\ entries' = es \ P
        BY <2>3 DEF Enqueue, Submit
      <3>2. f \in P /\ e \in es \ P
        BY <2>1, <3>1
      <3>3. Fills(es, running, P)
        BY <2>3, <3>2 DEF Submit
      <3> QED  BY <3>2, <3>3 DEF Fills
    <2>4. ASSUME NEW t \in Task, Cancel(t)
          PROVE  FALSE
      <3>1. f.task = t /\ t \notin running'
        BY <1>1, <2>1, <2>4 DEF Cancel, NeverQueuedTwice, Admission!NeverQueuedTwice
      <3> QED  BY <2>1, <3>1
    <2>5. ASSUME NEW t \in Task, NEW P \in SUBSET entries, Finally(t, P)
          PROVE  Precedes(f, e)
      BY <2>1, <2>5 DEF Finally, Fills
    <2>6. CASE Tick \/ UNCHANGED vars
      BY <2>1, <2>6 DEF Tick, vars
    <2> QED  BY <1>1, <2>3, <2>4, <2>5, <2>6 DEF Next
  <1>2. TypeOK /\ NeverQueuedTwice /\ [Next]_vars =>
           [\A e \in entries \cap entries', f \in Started :
               e.sequence < f.sequence =>
                  f.rank > e.rank + (f.enqueuedAt - e.enqueuedAt) \div StarvationThreshold]_vars
    BY <1>1
  <1> QED  BY <1>2, QueueWellFormed, SlotsSafe, PTL DEF Spec, OvertakingIsBounded
============================================================================
