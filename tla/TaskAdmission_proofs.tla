----------------------- MODULE TaskAdmission_proofs -----------------------
(***************************************************************************)
(* The invariants of TaskAdmission for every set of tasks and every        *)
(* maxConcurrent.  They are inductive together: the slots are refilled     *)
(* only by dispatch() outside a drain and by the finally block of an       *)
(* execution, so NeverStuck needs DrainLastsWhileRunning and the reverse.  *)
(***************************************************************************)
EXTENDS TaskAdmission, FiniteSetTheorems, TLAPS

AdmissionTypeOK ==
    /\ queue \subseteq Task
    /\ running \subseteq Task
    /\ draining \in BOOLEAN

AdmissionInv ==
    /\ AdmissionTypeOK
    /\ NeverQueuedTwice
    /\ SlotsBounded
    /\ NeverStuck
    /\ DrainLastsWhileRunning

\* The facts about cardinalities that the slots need.
LEMMA SlotFacts ==
    ASSUME NEW r, r \subseteq Task
    PROVE  /\ IsFiniteSet(r)
           /\ Cardinality(r) \in Nat
           /\ Cardinality({}) = 0
           /\ \A t : Cardinality(r \ {t}) <= Cardinality(r)
  <1>1. IsFiniteSet(r) /\ Cardinality(r) \in Nat
    BY FS_Subset, FS_CardinalityType, AdmissionAssumption
  <1>2. ASSUME NEW t PROVE Cardinality(r \ {t}) <= Cardinality(r)
    BY <1>1, FS_Subset, r \ {t} \in SUBSET r
  <1> QED  BY <1>1, <1>2, FS_EmptySet

\* After fillSlots(), somebody runs if anybody waits.
LEMMA FillsLeavesNobodyStuck ==
    ASSUME NEW q, NEW r, NEW S, q \subseteq Task, r \subseteq Task, Fills(q, r, S),
           q \ S # {}
    PROVE  r \cup S # {}
  <1>1. Cardinality(r \cup S) >= MaxConcurrent
    BY DEF Fills
  <1>2. Cardinality({}) = 0 /\ MaxConcurrent > 0
    BY FS_EmptySet, AdmissionAssumption
  <1>3. ASSUME r \cup S = {} PROVE FALSE
    <2>1. Cardinality(r \cup S) = 0
      BY <1>3, <1>2
    <2> QED  BY <2>1, <1>1, <1>2, AdmissionAssumption
  <1> QED  BY <1>3

\* enqueue() and dispatch() keep the invariant.
LEMMA EnqueueAndDispatchKeeps ==
    ASSUME NEW t \in Task, NEW S, AdmissionInv, EnqueueAndDispatch(t, S)
    PROVE  AdmissionInv'
  <1> USE DEF AdmissionInv, AdmissionTypeOK
  <1> DEFINE q == Enqueued(t)
  <1>1. /\ q \subseteq Task /\ q \cap running = {}
        /\ queue \subseteq q
    BY DEF Enqueued, NeverQueuedTwice
  <1>2. CASE draining
    <2>1. S = {} /\ queue' = q /\ running' = running /\ draining' = TRUE
      BY <1>2 DEF EnqueueAndDispatch
    <2>2. running # {}
      BY <1>2 DEF DrainLastsWhileRunning
    <2> QED
      BY <1>1, <2>1, <2>2 DEF NeverQueuedTwice, SlotsBounded, NeverStuck, DrainLastsWhileRunning
  <1>3. CASE ~draining
    <2>1. running = {} /\ queue = {}
      BY <1>3 DEF DrainLastsWhileRunning, NeverStuck
    <2>2. /\ Fills(q, running, S)
          /\ queue' = q \ S /\ running' = running \cup S
          /\ draining' = (queue' # {} \/ running' # {})
      BY <1>3 DEF EnqueueAndDispatch, StillDraining
    <2>3. S \subseteq q /\ (S = {} \/ Cardinality(running') <= MaxConcurrent)
      BY <2>2 DEF Fills
    <2>4. AdmissionTypeOK' /\ NeverQueuedTwice'
      BY <1>1, <2>1, <2>2, <2>3 DEF NeverQueuedTwice
    <2>5. SlotsBounded'
      BY <2>1, <2>2, <2>3 DEF SlotsBounded
    <2>6. NeverStuck'
      BY <1>1, <2>2, FillsLeavesNobodyStuck DEF NeverStuck
    <2>7. DrainLastsWhileRunning'
      BY <2>2, <2>6 DEF DrainLastsWhileRunning, NeverStuck
    <2> QED  BY <2>4, <2>5, <2>6, <2>7
  <1> QED  BY <1>2, <1>3

\* cancel() keeps the invariant.
LEMMA CancelQueuedKeeps ==
    ASSUME NEW t \in Task, AdmissionInv, CancelQueued(t)
    PROVE  AdmissionInv'
  BY DEF AdmissionInv, AdmissionTypeOK, CancelQueued, StillDraining, NeverQueuedTwice,
         SlotsBounded, NeverStuck, DrainLastsWhileRunning

\* The finally block of run() keeps the invariant.
LEMMA FinallyKeeps ==
    ASSUME NEW t \in Task, NEW S, AdmissionInv, Finally(t, S)
    PROVE  AdmissionInv'
  <1> USE DEF AdmissionInv, AdmissionTypeOK
  <1>1. /\ t \in running /\ draining
        /\ Fills(queue, running \ {t}, S)
        /\ queue' = queue \ S /\ running' = (running \ {t}) \cup S
        /\ draining' = (queue' # {} \/ running' # {})
    BY DEF Finally, StillDraining, DrainLastsWhileRunning
  <1>2. S \subseteq queue /\ (S = {} \/ Cardinality(running') <= MaxConcurrent)
    BY <1>1 DEF Fills
  <1>3. AdmissionTypeOK' /\ NeverQueuedTwice'
    BY <1>1, <1>2 DEF NeverQueuedTwice
  <1>4. SlotsBounded'
    <2>1. CASE S = {}
      <3>1. running' = running \ {t}
        BY <1>1, <2>1
      <3>2. /\ Cardinality(running \ {t}) <= Cardinality(running)
            /\ Cardinality(running) \in Nat /\ Cardinality(running \ {t}) \in Nat
        BY SlotFacts
      <3> QED  BY <3>1, <3>2, AdmissionAssumption DEF SlotsBounded
    <2>2. CASE S # {}
      BY <1>2, <2>2 DEF SlotsBounded
    <2> QED  BY <2>1, <2>2
  <1>5. NeverStuck'
    BY <1>1, FillsLeavesNobodyStuck DEF NeverStuck
  <1>6. DrainLastsWhileRunning'
    BY <1>1, <1>5 DEF DrainLastsWhileRunning, NeverStuck
  <1> QED  BY <1>3, <1>4, <1>5, <1>6

\* The scheduler never runs too many tasks, never runs a queued one again,
\* never leaves a task waiting for nobody, and ends the drain in time.
THEOREM AdmissionSafe == AdmissionSpec => []AdmissionInv
  <1>1. AdmissionInit => AdmissionInv
    <2> SUFFICES ASSUME AdmissionInit PROVE AdmissionInv
      OBVIOUS
    <2>1. queue = {} /\ running = {} /\ draining = FALSE
      BY DEF AdmissionInit
    <2>2. Cardinality(running) = 0
      BY <2>1, FS_EmptySet
    <2>3. SlotsBounded
      BY <2>2, AdmissionAssumption DEF SlotsBounded
    <2> QED
      BY <2>1, <2>3 DEF AdmissionInv, AdmissionTypeOK, NeverQueuedTwice, NeverStuck,
                        DrainLastsWhileRunning
  <1>2. AdmissionInv /\ [AdmissionNext]_admission => AdmissionInv'
    <2> SUFFICES ASSUME AdmissionInv, [AdmissionNext]_admission PROVE AdmissionInv'
      OBVIOUS
    <2>1. CASE AdmissionNext
      BY <2>1, EnqueueAndDispatchKeeps, CancelQueuedKeeps, FinallyKeeps DEF AdmissionNext
    <2>2. CASE UNCHANGED admission
      BY <2>2 DEF admission, AdmissionInv, AdmissionTypeOK, NeverQueuedTwice,
                  SlotsBounded, NeverStuck, DrainLastsWhileRunning
    <2> QED  BY <2>1, <2>2
  <1> QED  BY <1>1, <1>2, PTL DEF AdmissionSpec
============================================================================
