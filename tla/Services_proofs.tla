--------------------------- MODULE Services_proofs ---------------------------
(***************************************************************************)
(* The locks of ResourceManager and the runs of WorkflowEngine.            *)
(*                                                                         *)
(* Of the resource manager: its safety for every set of tasks and          *)
(* resources and every lock duration.  What is inductive is                *)
(* StepKeepsItsLocks together with a bound on the ages: the lock of a step *)
(* that is in time cannot be older than the step.                          *)
(*                                                                         *)
(* Of the workflow engine: for every definition whose branches are lanes   *)
(* (WellBranched), a join waits for its branches and a resume repeats no   *)
(* step.  The invariant (WalkInv) says where the branches of a run may be: *)
(* at the steps of their own lane, or past its end.                        *)
(***************************************************************************)
EXTENDS ResourceManager, WorkflowEngine,
        NaturalsInduction, WellFoundedInduction, TLAPS

\* A running step was started in the past, and a lock it still holds on a
\* resource it needs was taken no earlier than the step.
LockAges ==
    /\ \A t \in Task : Running(t) => steps[t].since <= now
    /\ \A t \in Task : Running(t) =>
          \A r \in steps[t].needs :
              HeldBy(r, t) => steps[t].since <= held[r].acquired_at

LockInv == TypeOK /\ LockAges /\ StepKeepsItsLocks

\* A record of a lock or a step is not the record of none.
LEMMA Distinct ==
    /\ \A l \in Lock : l # Free
    /\ \A s \in Step : s # NoStep
  BY DEF Lock, Free, Step, NoStep

LEMMA InitInv == Init => LockInv
  <1> SUFFICES ASSUME Init PROVE LockInv
    OBVIOUS
  <1>1. TypeOK
    BY DEF Init, TypeOK
  <1>2. \A t \in Task : ~Running(t)
    BY DEF Init, Running
  <1> QED  BY <1>1, <1>2 DEF LockInv, LockAges, StepKeepsItsLocks, InTime

LEMMA BeginStepKeeps ==
    ASSUME LockInv, NEW t \in Task, NEW needs \in SUBSET Resource, BeginStep(t, needs)
    PROVE  LockInv'
  <1> USE DEF LockInv
  <1>1. /\ ~Running(t) /\ ~Conflicts(t, needs)
        /\ held' = [r \in Resource |->
                      IF r \in needs THEN [task |-> t, acquired_at |-> now] ELSE held[r]]
        /\ steps' = [steps EXCEPT ![t] = [needs |-> needs, since |-> now]]
        /\ UNCHANGED <<queued, tickets, now, expired>>
    BY DEF BeginStep
  <1>2. /\ [task |-> t, acquired_at |-> now] \in Lock
        /\ [needs |-> needs, since |-> now] \in Step
    BY DEF Lock, Step, TypeOK
  <1>3. TypeOK'
    BY <1>1, <1>2 DEF TypeOK
  <1>4. /\ steps'[t] = [needs |-> needs, since |-> now]
        /\ \A u \in Task \ {t} : steps'[u] = steps[u]
        /\ \A r \in needs : held'[r] = [task |-> t, acquired_at |-> now]
        /\ \A r \in Resource \ needs : held'[r] = held[r]
        /\ now' = now
    BY <1>1 DEF TypeOK
  <1>5. ASSUME NEW u \in Task, u # t, Running(u)', NEW r \in steps[u].needs, HeldBy(r, u)
        PROVE  held'[r] = held[r]
    <2>1. Running(u) /\ r \in Resource
      BY <1>4, <1>5 DEF Running, TypeOK, Step
    <2>2. r \notin needs
      BY <1>1, <1>5 DEF Conflicts, HeldBy
    <2> QED  BY <1>4, <2>1, <2>2
  <1>6. LockAges'
    <2>1. ASSUME NEW u \in Task, Running(u)'
          PROVE  /\ steps'[u].since <= now'
                 /\ \A r \in steps'[u].needs :
                        HeldBy(r, u)' => steps'[u].since <= held'[r].acquired_at
      <3>1. CASE u = t
        BY <3>1, <1>4 DEF TypeOK
      <3>2. CASE u # t
        <4>1. Running(u) /\ steps'[u] = steps[u] /\ steps[u].needs \subseteq Resource
          BY <3>2, <2>1, <1>4 DEF Running, TypeOK, Step
        <4>2. ASSUME NEW r \in steps[u].needs, HeldBy(r, u)'
              PROVE  steps[u].since <= held'[r].acquired_at
          <5>1. CASE r \in needs
            BY <5>1, <4>2, <3>2, <1>4 DEF HeldBy, IsHeld
          <5>2. CASE r \notin needs
            BY <5>2, <4>1, <4>2, <1>4 DEF HeldBy, IsHeld, LockAges
          <5> QED  BY <5>1, <5>2
        <4> QED  BY <4>1, <4>2, <1>4 DEF LockAges
      <3> QED  BY <3>1, <3>2
    <2> QED  BY <2>1 DEF LockAges, Running
  <1>7. StepKeepsItsLocks'
    <2>1. ASSUME NEW u \in Task, InTime(u)', NEW r \in steps'[u].needs
          PROVE  HeldBy(r, u)'
      <3>1. CASE u = t
        BY <3>1, <2>1, <1>2, <1>4, Distinct DEF HeldBy, IsHeld
      <3>2. CASE u # t
        <4>1. InTime(u) /\ steps'[u] = steps[u] /\ Running(u)'
          BY <3>2, <2>1, <1>4 DEF InTime, Running
        <4>2. HeldBy(r, u)
          BY <4>1, <2>1 DEF StepKeepsItsLocks
        <4> QED  BY <4>1, <4>2, <3>2, <2>1, <1>5 DEF HeldBy, IsHeld
      <3> QED  BY <3>1, <3>2
    <2> QED  BY <2>1 DEF StepKeepsItsLocks
  <1> QED  BY <1>3, <1>6, <1>7

LEMMA RejectStepKeeps ==
    ASSUME LockInv, NEW t \in Task, NEW needs \in SUBSET Resource, RejectStep(t, needs)
    PROVE  LockInv'
  <1> USE DEF LockInv
  <1>1. /\ \A q \in queued : q.task # t
        /\ queued' = queued \cup {[task |-> t, resources |-> needs, ticket |-> tickets]}
        /\ tickets' = tickets + 1
        /\ UNCHANGED <<held, steps, now, expired>>
    BY DEF RejectStep
  <1>2. [task |-> t, resources |-> needs, ticket |-> tickets] \in Request
    BY DEF Request, TypeOK
  <1>3. \A q \in queued : q.ticket \in Nat /\ q.ticket # tickets
    BY DEF TypeOK, Request
  <1>4. TypeOK'
    BY <1>1, <1>2, <1>3 DEF TypeOK
  <1>5. LockAges' /\ StepKeepsItsLocks'
    BY <1>1 DEF LockAges, StepKeepsItsLocks, InTime, Running, HeldBy, IsHeld
  <1> QED  BY <1>4, <1>5

LEMMA EndStepKeeps ==
    ASSUME LockInv, NEW t \in Task, NEW granted \in SUBSET queued, EndStep(t, granted)
    PROVE  LockInv'
  <1> USE DEF LockInv
  <1> DEFINE Winner(r) == CHOOSE q \in granted : r \in q.resources
  <1>1. /\ Running(t)
        /\ Grants(t, granted)
        /\ held' = [r \in Resource |->
                      IF \E q \in granted : r \in q.resources
                      THEN [task |-> Winner(r).task, acquired_at |-> now]
                      ELSE IF HeldBy(r, t) THEN Free ELSE held[r]]
        /\ queued' = queued \ granted
        /\ steps' = [steps EXCEPT ![t] = NoStep]
        /\ expired' = FALSE
        /\ UNCHANGED <<tickets, now>>
    BY DEF EndStep
  <1>2. ASSUME NEW r \in Resource, \E q \in granted : r \in q.resources
        PROVE  /\ [task |-> Winner(r).task, acquired_at |-> now] \in Lock
               /\ ~IsHeld(r) \/ HeldBy(r, t)
    <2>1. Winner(r) \in granted /\ r \in Winner(r).resources
      BY <1>2
    <2>2. Winner(r) \in Request
      BY <2>1 DEF TypeOK
    <2>3. ~IsHeld(r) \/ HeldBy(r, t)
      BY <2>1, <1>1 DEF Grants
    <2> QED  BY <2>2, <2>3 DEF Request, Lock, TypeOK
  <1>3. TypeOK'
    <2>1. held' \in [Resource -> Lock \cup {Free}]
      BY <1>1, <1>2 DEF TypeOK
    <2>2. steps' \in [Task -> Step \cup {NoStep}]
      BY <1>1 DEF TypeOK
    <2> QED  BY <1>1, <2>1, <2>2 DEF TypeOK
  <1>4. ASSUME NEW u \in Task, Running(u)'
        PROVE  /\ u # t /\ Running(u) /\ steps'[u] = steps[u]
               /\ steps[u].needs \subseteq Resource /\ steps[u].since \in Nat
    BY <1>1, <1>4 DEF Running, TypeOK, Step
  <1>5. ASSUME NEW u \in Task, u # t, NEW r \in Resource, HeldBy(r, u)
        PROVE  held'[r] = held[r]
    <2>1. IsHeld(r) /\ ~HeldBy(r, t)
      BY <1>5 DEF HeldBy
    <2> QED  BY <1>1, <1>2, <2>1
  <1>6. ASSUME NEW u \in Task, Running(u)', NEW r \in Resource, HeldBy(r, u)'
        PROVE  held'[r] = held[r] \/ held'[r].acquired_at = now
    BY <1>1, <1>6 DEF HeldBy, IsHeld
  <1>7. LockAges'
    <2>1. ASSUME NEW u \in Task, Running(u)', NEW r \in steps[u].needs, HeldBy(r, u)'
          PROVE  steps[u].since <= held'[r].acquired_at
      <3>1. r \in Resource /\ Running(u)
        BY <2>1, <1>4
      <3>2. CASE held'[r].acquired_at = now
        BY <3>2, <2>1, <1>4 DEF LockAges
      <3>3. CASE held'[r] = held[r]
        BY <3>1, <3>3, <2>1, <1>4 DEF LockAges, HeldBy, IsHeld
      <3> QED  BY <3>1, <3>2, <3>3, <2>1, <1>6
    <2> QED  BY <2>1, <1>1, <1>4 DEF LockAges
  <1>8. StepKeepsItsLocks'
    <2>1. ASSUME NEW u \in Task, InTime(u)', NEW r \in steps'[u].needs
          PROVE  HeldBy(r, u)'
      <3>1. /\ Running(u)' /\ u # t /\ r \in Resource
            /\ InTime(u) /\ steps'[u] = steps[u]
        BY <2>1, <1>1, <1>4 DEF InTime
      <3>2. HeldBy(r, u)
        BY <3>1, <2>1 DEF StepKeepsItsLocks
      <3> QED  BY <3>1, <3>2, <1>5 DEF HeldBy, IsHeld
    <2> QED  BY <2>1 DEF StepKeepsItsLocks
  <1> QED  BY <1>3, <1>7, <1>8

LEMMA ExpireLocksKeeps == ASSUME LockInv, ExpireLocks PROVE LockInv'
  <1> USE DEF LockInv
  <1> DEFINE overdue ==
        {r \in Resource : IsHeld(r) /\ now - held[r].acquired_at >= MaxDuration}
  <1>1. /\ held' = [r \in Resource |-> IF r \in overdue THEN Free ELSE held[r]]
        /\ expired' = TRUE
        /\ UNCHANGED <<queued, tickets, steps, now>>
    BY DEF ExpireLocks
  <1>2. TypeOK'
    BY <1>1 DEF TypeOK
  <1>3. \A t \in Task : Running(t) => steps[t].needs \subseteq Resource /\ steps[t].since \in Nat
    BY DEF TypeOK, Running, Step
  <1>4. LockAges'
    BY <1>1, <1>3 DEF LockAges, Running, HeldBy, IsHeld
  <1>5. StepKeepsItsLocks'
    <2>1. ASSUME NEW u \in Task, InTime(u)', NEW r \in steps'[u].needs
          PROVE  HeldBy(r, u)'
      <3>1. InTime(u) /\ Running(u) /\ steps'[u] = steps[u] /\ r \in Resource
        BY <2>1, <1>1, <1>3 DEF InTime, Running
      <3>2. HeldBy(r, u)
        BY <3>1, <2>1 DEF StepKeepsItsLocks
      <3>3. steps[u].since <= held[r].acquired_at /\ held[r].acquired_at \in Nat
        BY <3>1, <3>2, <2>1 DEF LockAges, HeldBy, IsHeld, TypeOK, Lock
      <3>4. r \notin overdue
        BY <3>1, <3>3, <1>3, LockAssumption DEF InTime, TypeOK
      <3> QED  BY <3>1, <3>2, <3>4, <1>1 DEF HeldBy, IsHeld
    <2> QED  BY <2>1 DEF StepKeepsItsLocks
  <1> QED  BY <1>2, <1>4, <1>5

LEMMA TickKeeps == ASSUME LockInv, Tick PROVE LockInv'
  <1> USE DEF LockInv
  <1>1. now' = now + 1 /\ UNCHANGED <<held, queued, tickets, steps, expired>>
    BY DEF Tick
  <1>2. TypeOK'
    BY <1>1 DEF TypeOK
  <1>3. \A t \in Task : Running(t) => steps[t].since \in Nat
    BY DEF TypeOK, Running, Step
  <1>4. LockAges'
    BY <1>1, <1>3 DEF LockAges, Running, HeldBy, IsHeld, TypeOK
  <1>5. \A t \in Task : InTime(t)' => InTime(t)
    BY <1>1, <1>3, LockAssumption DEF InTime, Running, TypeOK
  <1>6. StepKeepsItsLocks'
    BY <1>1, <1>5 DEF StepKeepsItsLocks, HeldBy, IsHeld
  <1> QED  BY <1>2, <1>4, <1>6

LEMMA LockInvariant == Spec => []LockInv
  <1>1. LockInv /\ [Next]_vars => LockInv'
    <2> SUFFICES ASSUME LockInv, [Next]_vars PROVE LockInv'
      OBVIOUS
    <2>1. CASE Next
      BY <2>1, BeginStepKeeps, RejectStepKeeps, EndStepKeeps, ExpireLocksKeeps, TickKeeps
         DEF Next
    <2>2. CASE UNCHANGED vars
      BY <2>2 DEF vars, LockInv, TypeOK, LockAges, StepKeepsItsLocks, InTime, Running,
                  HeldBy, IsHeld
    <2> QED  BY <2>1, <2>2
  <1> QED  BY InitInv, <1>1, PTL DEF Spec

\* The manager's state is well formed: in particular no task has two requests
\* in the queue.
THEOREM LocksTypeCorrect == Spec => []TypeOK
  BY LockInvariant, PTL DEF LockInv

\* No tool loses a lock it was started with before the lock duration is over.
THEOREM LocksAreKept == Spec => []StepKeepsItsLocks
  BY LockInvariant, PTL DEF LockInv

\* Two tools work on one resource at once only if one has outrun the duration.
THEOREM LocksExclude == Spec => []MutualExclusion
  <1>1. LockInv => MutualExclusion
    <2> SUFFICES ASSUME LockInv, NEW t \in Task, NEW u \in Task, t # u,
                        InTime(t), InTime(u), NEW r \in steps[t].needs \cap steps[u].needs
                 PROVE  FALSE
      BY DEF MutualExclusion
    <2>1. HeldBy(r, t) /\ HeldBy(r, u)
      BY DEF LockInv, StepKeepsItsLocks
    <2> QED  BY <2>1 DEF HeldBy
  <1> QED  BY LockInvariant, <1>1, PTL

\* release() leaves no request in the queue that could be granted; only an
\* expiry of locks does.
THEOREM NoGrantIsLost == Spec => []NoLostGrant
  <1>1. Init => NoLostGrant
    BY DEF Init, NoLostGrant
  <1>2. TypeOK /\ NoLostGrant /\ [Next]_vars => NoLostGrant'
    <2> SUFFICES ASSUME TypeOK, NoLostGrant, [Next]_vars PROVE NoLostGrant'
      OBVIOUS
    <2>1. ASSUME NEW t \in Task, NEW needs \in SUBSET Resource, BeginStep(t, needs)
          PROVE  NoLostGrant'
      <3>1. /\ queued' = queued /\ expired' = expired
            /\ \A r \in Resource : IsHeld(r) => IsHeld(r)'
        BY <2>1 DEF BeginStep, IsHeld, Free
      <3>2. \A q \in queued : q.resources \subseteq Resource
        BY DEF TypeOK, Request
      <3> QED  BY <3>1, <3>2 DEF NoLostGrant
    <2>2. ASSUME NEW t \in Task, NEW needs \in SUBSET Resource, RejectStep(t, needs)
          PROVE  NoLostGrant'
      BY <2>2 DEF RejectStep, Conflicts, NoLostGrant, IsHeld
    <2>3. ASSUME NEW t \in Task, NEW granted \in SUBSET queued, EndStep(t, granted)
          PROVE  NoLostGrant'
      <3> SUFFICES ASSUME NEW q \in queued \ granted
                   PROVE  \E r \in q.resources : IsHeld(r)'
        BY <2>3 DEF EndStep, NoLostGrant
      <3>1. q.resources \subseteq Resource
        BY DEF TypeOK, Request
      <3>2. PICK r \in q.resources :
                \/ IsHeld(r) /\ ~HeldBy(r, t)
                \/ \E p \in granted : r \in p.resources
        BY <2>3 DEF EndStep, Grants
      <3>3. CASE \E p \in granted : r \in p.resources
        BY <2>3, <3>1, <3>2, <3>3 DEF EndStep, IsHeld, Free
      <3>4. CASE /\ IsHeld(r) /\ ~HeldBy(r, t)
                 /\ ~\E p \in granted : r \in p.resources
        BY <2>3, <3>1, <3>2, <3>4 DEF EndStep, IsHeld
      <3> QED  BY <3>2, <3>3, <3>4
    <2>4. CASE ExpireLocks
      BY <2>4 DEF ExpireLocks, NoLostGrant
    <2>5. CASE Tick
      BY <2>5 DEF Tick, NoLostGrant, IsHeld
    <2>6. CASE UNCHANGED vars
      BY <2>6 DEF vars, NoLostGrant, IsHeld
    <2> QED  BY <2>1, <2>2, <2>3, <2>4, <2>5, <2>6 DEF Next
  <1> QED  BY <1>1, <1>2, LocksTypeCorrect, PTL DEF Spec

----------------------------------------------------------------------------
(* The workflow engine.                                                    *)

LEMMA FirstIsOne ==
  ASSUME NEW S \in SUBSET Nat, S # {}
  PROVE  FirstOf(S) \in S
  <1> DEFINE R == {ss \in Nat \X Nat : ss[1] < ss[2]}
  <1>1. IsWellFoundedOn(R, Nat)
    BY NatLessThanWellFounded DEF OpToRel
  <1>2. PICK x \in S : \A y \in S : <<y, x>> \notin R
    <2> HIDE DEF R
    <2> QED  BY <1>1, WFMin
  <1>3. \A y \in S : y < x => <<y, x>> \in R
    OBVIOUS
  <1> HIDE DEF R
  <1>4. \A y \in S : y \in Nat /\ x \in Nat /\ ~(y < x)
    BY <1>2, <1>3
  <1>5. x \in S /\ \A y \in S : x <= y
    BY <1>4
  <1> QED  BY <1>5 DEF FirstOf

LEMMA Definitions ==
  ASSUME NEW d \in Definition
  PROVE  /\ d # NoDefinition
         /\ d.start \in Node /\ None \notin Node
         /\ DOMAIN d.edges \subseteq Nat \ {0}
         /\ \A k \in DOMAIN d.edges : d.edges[k].from \in Node /\ d.edges[k].to \in Node
         /\ \A n \in Node : d.type[n] \in NodeType
  <1>1. d.start \in Node /\ None \notin Node /\ d.type \in [Node -> NodeType]
        /\ d.edges \in Seq(EdgeOf)
    BY DefinitionsAreValid
  <1>2. d # NoDefinition
    BY <1>1 DEF NoDefinition
  <1>3. DOMAIN d.edges \subseteq Nat \ {0} /\ \A k \in DOMAIN d.edges : d.edges[k] \in EdgeOf
    BY <1>1
  <1>4. \A k \in DOMAIN d.edges : d.edges[k].from \in Node /\ d.edges[k].to \in Node
    BY <1>3 DEF EdgeOf
  <1> QED  BY <1>1, <1>2, <1>3, <1>4

LEMMA FirstTargetIsOne ==
  ASSUME definition \in Definition, NEW S \in SUBSET Edges
  PROVE  /\ S = {} => FirstTarget(S) = None
         /\ S # {} => \E k \in S : FirstTarget(S) = To(k) /\ To(k) \in Node
  <1>1. S \in SUBSET Nat /\ \A k \in S : To(k) \in Node
    BY Definitions DEF Edges, To
  <1> QED  BY <1>1, FirstIsOne DEF FirstTarget

\* The walk goes on to a node that is not completed and that an edge leads to
\* from the one it leaves or from one that is.
LEMMA NextIsPending ==
  ASSUME definition \in Definition, NEW done, NEW from, NEW choices,
         NEW n, n = NextPendingNode(from, done, choices), n # None
  PROVE  /\ n \in Node \ done
         /\ \E k \in Edges : To(k) = n /\ From(k) \in done \cup {from}
  <1> DEFINE direct == {k \in Outgoing(from) : Matches(k, choices) /\ To(k) \notin done}
             ready  == {k \in Edges : From(k) \in done /\ To(k) \notin done
                                          /\ Incoming(To(k)) \subseteq done}
             S == IF direct # {} THEN direct ELSE ready
  <1>1. n = FirstTarget(S)
    BY DEF NextPendingNode
  <1>2. S \subseteq Edges /\ \A k \in S : To(k) \notin done /\ From(k) \in done \cup {from}
    BY DEF Outgoing
  <1> HIDE DEF S
  <1>3. S # {}
    BY <1>1, <1>2, FirstTargetIsOne
  <1>4. PICK k \in S : FirstTarget(S) = To(k) /\ To(k) \in Node
    BY <1>2, <1>3, FirstTargetIsOne
  <1> QED  BY <1>1, <1>2, <1>4

----------------------------------------------------------------------------
Walking == {"step", "task", "approval", "rollback"}

LEMMA CompletesTypes ==
  ASSUME WorkflowTypeOK, definition \in Definition, NEW choices,
         current \in Node, Completes(completed, choices), branches' = <<>>
  PROVE  WorkflowTypeOK'
  <1>1. /\ completed' = completed \cup {current} /\ checkpoint'.completed = completed'
        /\ definition' = definition /\ failures' = failures
        /\ pc' \in {"ended", "idle", "step"}
        /\ pc' = "step" => current' # None
        /\ current' = NextPendingNode(current, completed', choices)
    BY DEF Completes
  <1>3. current' # None => current' \in Node \ completed'
    BY <1>1, NextIsPending
  <1>4. DOMAIN branches' = {} /\ branches' \in [DOMAIN branches' -> Branch]
    OBVIOUS
  <1>5. pc' \in Pc /\ pc' # "split"
    BY <1>1 DEF Pc
  <1>6. completed' \subseteq Node /\ checkpoint'.completed \subseteq Node
    BY <1>1 DEF WorkflowTypeOK
  <1>7. pc' \in Walking => current' \in Node \ completed'
    BY <1>1, <1>3 DEF Walking
  <1>8. definition' \in Definition /\ definition' # NoDefinition
    BY <1>1, Definitions
  <1> QED  BY <1>1, <1>3, <1>4, <1>5, <1>6, <1>7, <1>8 DEF WorkflowTypeOK, Walking

\* Where a branch goes is a state of a branch, and so is what an abort leaves.
LEMMA BranchTypes ==
  ASSUME WorkflowTypeOK, definition \in Definition
  PROVE  /\ \A n \in Node \cup {None} : BranchAt(n, FALSE) \in Branch
         /\ \A n : FirstTarget(Outgoing(n)) \in Node \cup {None}
         /\ \A k \in DOMAIN branches :
               /\ branches[k] \in Branch
               /\ AbortSiblings(k) \in [DOMAIN branches -> Branch]
  <1>1. \A n \in Node \cup {None} : BranchAt(n, FALSE) \in Branch
    BY DEF BranchAt, Branch
  <1>2. \A n : Outgoing(n) \in SUBSET Edges
    BY DEF Outgoing
  <1>3. \A n : FirstTarget(Outgoing(n)) \in Node \cup {None}
    BY <1>2, FirstTargetIsOne
  <1>4. \A k \in DOMAIN branches : branches[k] \in Branch
    BY DEF WorkflowTypeOK
  <1>5. ASSUME NEW k \in DOMAIN branches, NEW i \in DOMAIN branches
        PROVE  /\ [branches[k] EXCEPT !.state = "failed"] \in Branch
               /\ [branches[i] EXCEPT !.aborted = @ \/ FirstFailure] \in Branch
    <2>1. branches[k] \in Branch /\ branches[i] \in Branch /\ FirstFailure \in BOOLEAN
      BY <1>4 DEF FirstFailure
    <2>2. (branches[i].aborted \/ FirstFailure) \in BOOLEAN
      OBVIOUS
    <2> HIDE DEF FirstFailure
    <2> QED  BY <2>1, <2>2 DEF Branch
  <1>6. ASSUME NEW k \in DOMAIN branches
        PROVE  AbortSiblings(k) \in [DOMAIN branches -> Branch]
    BY <1>5 DEF AbortSiblings
  <1> QED  BY <1>1, <1>3, <1>4, <1>6

LEMMA TypePreserved ==
  ASSUME WorkflowTypeOK, [WorkflowNext]_workflow
  PROVE  WorkflowTypeOK'
  <1> USE DEF walk
  <1>1. definition = NoDefinition \/ definition \in Definition
    BY DEF WorkflowTypeOK
  <1>2. ASSUME NEW d \in Definition, Run(d) PROVE WorkflowTypeOK'
    <2>1. d.start \in Node /\ d # NoDefinition
      BY Definitions
    <2>2. completed = {} /\ pc = "idle"
      BY <1>2 DEF Run, WorkflowTypeOK
    <2> QED  BY <1>2, <2>1, <2>2 DEF Run, WorkflowTypeOK, Pc
  <1>3. CASE Resume
    <2>1. /\ definition' = definition /\ definition \in Definition
          /\ pc \in {"idle", "ended"}
          /\ checkpoint' = checkpoint /\ branches' = branches /\ failures' = failures
          /\ completed' = checkpoint.completed /\ pc' \in {"step", "idle"}
          /\ pc' = "step" => current' # None
      BY <1>1, <1>3 DEF Resume
    <2>5. definition # NoDefinition
      BY <2>1, Definitions
    <2>2. CASE completed' = {}
      <3>1. current' = definition.start
        BY <1>3, <2>2 DEF Resume
      <3>2. current' \in Node
        BY <2>1, <3>1, Definitions
      <3> QED  BY <2>1, <2>2, <2>5, <3>2 DEF WorkflowTypeOK, Pc
    <2>3. CASE completed' # {}
      <3>1. current' = NextPendingNode(definition.start, completed', Undecided_All)
        BY <1>3, <2>3 DEF Resume
      <3>2. current' # None => current' \in Node \ completed'
        BY <2>1, <3>1, NextIsPending
      <3> QED  BY <2>1, <2>5, <3>2 DEF WorkflowTypeOK, Pc
    <2> QED  BY <2>2, <2>3
  <1>4. CASE PassNode \/ LeaveNode
    <2>1. current \in Node /\ branches' = branches /\ branches = <<>>
      BY <1>4 DEF PassNode, LeaveNode, WorkflowTypeOK
    <2>3. \E choices : Completes(completed, choices)
      BY <1>4 DEF PassNode, LeaveNode
    <2>2. definition \in Definition
      BY <1>1, <1>4 DEF PassNode, LeaveNode, WorkflowTypeOK
    <2> QED  BY <2>1, <2>2, <2>3, CompletesTypes
  <1>5. CASE EnterNode
    <2>1. pc' \in {"task", "approval", "rollback"}
      BY <1>5 DEF EnterNode, Awaits
    <2> QED  BY <1>5, <2>1 DEF EnterNode, WorkflowTypeOK, Pc
  <1>6. CASE Fails
    <2>1. failures' \in 0 .. MaxFailures
      BY <1>6, DefinitionsAreValid DEF Fails, Fail, WorkflowTypeOK
    <2>2. /\ pc' = "idle" /\ branches' = <<>>
          /\ UNCHANGED <<definition, checkpoint, current, completed>>
      BY <1>6 DEF Fails, Fail
    <2> QED  BY <2>1, <2>2 DEF WorkflowTypeOK, Pc
  <1>7. CASE EnterSplit
    <2>1. /\ definition' = definition /\ definition \in Definition
          /\ current' = current /\ current \in Node /\ pc' = "split"
          /\ completed' = completed \cup {current}
          /\ checkpoint' = checkpoint /\ failures' = failures
      BY <1>1, <1>7 DEF EnterSplit, WorkflowTypeOK
    <2>2. /\ DOMAIN branches' = Outgoing(current)
          /\ \A k \in DOMAIN branches' : branches'[k] \in Branch
      <3> DEFINE started == [k \in Outgoing(current) |-> BranchAt(To(k), FALSE)]
                 failed(k) == \E i \in Outgoing(current) \ {k} : started[i].state = "failed"
      <3>1. branches' = [k \in Outgoing(current) |-> [started[k] EXCEPT !.aborted = failed(k)]]
        BY <1>7 DEF EnterSplit
      <3>2. ASSUME NEW k \in Outgoing(current)
            PROVE  started[k] \in Branch
        BY <2>1, Definitions, BranchTypes DEF Outgoing, Edges, To
      <3>3. \A k : failed(k) \in BOOLEAN
        OBVIOUS
      <3> HIDE DEF started, failed
      <3>4. \A k \in Outgoing(current) : [started[k] EXCEPT !.aborted = failed(k)] \in Branch
        BY <3>2, <3>3 DEF Branch
      <3> QED  BY <3>1, <3>4
    <2>3. Outgoing(current)' = Outgoing(current)
      BY <2>1 DEF Outgoing, Edges, From
    <2>4. branches' \in [DOMAIN branches' -> Branch]
      BY <2>2, <1>7 DEF EnterSplit
    <2>5. definition # NoDefinition
      BY <2>1, Definitions
    <2> QED  BY <2>1, <2>2, <2>3, <2>4, <2>5 DEF WorkflowTypeOK, Pc
  <1>8. CASE LeaveSplit
    <2>1. definition \in Definition /\ current \in Node /\ branches' = <<>>
      BY <1>1, <1>8 DEF LeaveSplit, WorkflowTypeOK
    <2>2. CASE "failed" \in BranchStates
      BY <1>8, <2>1, <2>2 DEF LeaveSplit, WorkflowTypeOK, Pc
    <2>3. CASE "failed" \notin BranchStates
      BY <1>8, <2>1, <2>3, CompletesTypes DEF LeaveSplit
    <2> QED  BY <2>2, <2>3
  <1>9. ASSUME NEW k \in DOMAIN branches, BranchStep(k) \/ BranchFails(k)
        PROVE  WorkflowTypeOK'
    <2>1. /\ definition' = definition /\ definition \in Definition
          /\ current' = current /\ pc' = pc /\ pc = "split"
          /\ completed' \in {completed, completed \cup {branches[k].at}}
          /\ checkpoint' = checkpoint /\ failures' \in 0 .. MaxFailures
      <3>1. /\ pc = "split" /\ definition' = definition /\ current' = current
            /\ pc' = pc /\ checkpoint' = checkpoint
        BY <1>9 DEF BranchStep, BranchFails
      <3>2. definition \in Definition
        BY <1>1, <3>1 DEF WorkflowTypeOK
      <3>3. failures' \in 0 .. MaxFailures
        <4>1. CASE BranchStep(k)
          BY <4>1 DEF BranchStep, WorkflowTypeOK
        <4>2. CASE BranchFails(k)
          BY <4>2, DefinitionsAreValid DEF BranchFails, WorkflowTypeOK
        <4> QED  BY <1>9, <4>1, <4>2
      <3>4. completed' = completed \/ completed' = completed \cup {branches[k].at}
        BY <1>9 DEF BranchStep, BranchFails
      <3> QED  BY <3>1, <3>2, <3>3, <3>4
    <2>2. completed' \subseteq Node
      <3>1. branches[k].state = "running" /\ branches[k] \in Branch
        BY <1>9 DEF BranchStep, BranchFails, WorkflowTypeOK
      <3>2. branches[k].at \in Node
        BY <3>1 DEF Branch
      <3> QED  BY <2>1, <3>2 DEF WorkflowTypeOK
    <2>3. branches' \in [DOMAIN branches -> Branch]
      <3>1. CASE branches' = AbortSiblings(k)
        BY <2>1, <3>1, BranchTypes
      <3>2. CASE branches' # AbortSiblings(k)
        <4> DEFINE next == BranchAt(FirstTarget(Outgoing(branches[k].at)), FALSE)
        <4>1. branches' = [branches EXCEPT ![k] = next]
          BY <1>9, <3>2 DEF BranchStep, BranchFails
        <4>2. next \in Branch
          BY <2>1, BranchTypes
        <4> HIDE DEF next
        <4> QED  BY <4>1, <4>2 DEF WorkflowTypeOK
      <3> QED  BY <3>1, <3>2
    <2>4. Outgoing(current)' = Outgoing(current)
      BY <2>1 DEF Outgoing, Edges, From
    <2> QED  BY <2>1, <2>2, <2>3, <2>4 DEF WorkflowTypeOK
  <1>10. CASE UNCHANGED workflow
    BY <1>10 DEF workflow, WorkflowTypeOK, Outgoing, Edges, From
  <1> QED
    BY <1>2, <1>3, <1>4, <1>5, <1>6, <1>7, <1>8, <1>9, <1>10 DEF WorkflowNext, WalkStep

\* At every await of executeFrom, executeBranch and resume, the walk is where it
\* says it is: a node of its definition, with a branch for each edge of a split,
\* and the completed nodes and the choices of a checkpoint.
THEOREM WorkflowTypes == WorkflowSpec => []WorkflowTypeOK
  <1>1. WorkflowInit => WorkflowTypeOK
    BY DefinitionsAreValid DEF WorkflowInit, WorkflowTypeOK, Pc
  <1> QED  BY <1>1, TypePreserved, PTL DEF WorkflowSpec

----------------------------------------------------------------------------
(* The siblings of a failed branch.                                        *)

SiblingsAborted ==
    "failed" \in BranchStates =>
        \A k \in DOMAIN branches : branches[k].state = "running" => branches[k].aborted

\* A branch that fails leaves the others where they are ...
LEMMA AbortsShape ==
  ASSUME WorkflowTypeOK, NEW k \in DOMAIN branches, branches' = AbortSiblings(k)
  PROVE  /\ DOMAIN branches' = DOMAIN branches
         /\ \A i \in DOMAIN branches \ {k} :
               branches'[i].aborted = (branches[i].aborted \/ FirstFailure)
         /\ \A i \in DOMAIN branches :
               /\ branches'[i].at = branches[i].at
               /\ branches'[i].state = IF i = k THEN "failed" ELSE branches[i].state
  <1>1. \A i \in DOMAIN branches : branches[i] \in [at : Node \cup {None},
                                      state : {"running", "done", "failed"}, aborted : BOOLEAN]
    BY DEF WorkflowTypeOK, Branch
  <1>2. /\ DOMAIN branches' = DOMAIN branches
        /\ branches'[k] = [branches[k] EXCEPT !.state = "failed"]
        /\ \A i \in DOMAIN branches \ {k} :
              branches'[i] = [branches[i] EXCEPT !.aborted = branches[i].aborted \/ FirstFailure]
    BY DEF AbortSiblings
  <1>3. /\ branches'[k].at = branches[k].at
        /\ branches'[k].state = "failed"
    BY <1>1, <1>2
  <1>4. ASSUME NEW i \in DOMAIN branches \ {k}
        PROVE  /\ branches'[i].at = branches[i].at
               /\ branches'[i].state = branches[i].state
               /\ branches'[i].aborted = (branches[i].aborted \/ FirstFailure)
    BY <1>1, <1>2
  <1> QED  BY <1>2, <1>3, <1>4

\* ... and aborted, whether it is the first or not.
LEMMA AbortsAll ==
  ASSUME WorkflowTypeOK, SiblingsAborted, NEW k \in DOMAIN branches, branches' = AbortSiblings(k)
  PROVE  SiblingsAborted'
  <1>1. ASSUME NEW i \in DOMAIN branches', branches'[i].state = "running"
        PROVE  branches'[i].aborted
    <2>1. i \in DOMAIN branches \ {k} /\ branches[i].state = "running"
      BY <1>1, AbortsShape
    <2>2. FirstFailure \/ "failed" \in BranchStates
      BY DEF FirstFailure, BranchStates
    <2> QED  BY <2>1, <2>2, AbortsShape DEF SiblingsAborted
  <1> QED  BY <1>1 DEF SiblingsAborted

LEMMA SiblingsPreserved ==
  ASSUME WorkflowTypeOK, SiblingsAborted, [WorkflowNext]_workflow
  PROVE  SiblingsAborted'
  <1> USE DEF walk
  <1>1. CASE branches' = branches
    BY <1>1 DEF SiblingsAborted, BranchStates
  <1>2. CASE branches' = <<>>
    BY <1>2 DEF SiblingsAborted, BranchStates
  <1>3. CASE EnterSplit
    <2> DEFINE started == [k \in Outgoing(current) |-> BranchAt(To(k), FALSE)]
               failed(k) == \E i \in Outgoing(current) \ {k} : started[i].state = "failed"
    <2>1. branches' = [k \in Outgoing(current) |-> [started[k] EXCEPT !.aborted = failed(k)]]
      BY <1>3 DEF EnterSplit
    <2>2. ASSUME NEW k \in Outgoing(current)
          PROVE  /\ branches'[k].state = started[k].state
                 /\ branches'[k].aborted = failed(k)
      <3>1. started[k] = [at |-> started[k].at, aborted |-> started[k].aborted,
                          state |-> started[k].state]
        BY DEF BranchAt
      <3> HIDE DEF started, failed
      <3> QED  BY <2>1, <3>1
    <2>3. ASSUME NEW i \in Outgoing(current), started[i].state = "failed",
                 NEW k \in Outgoing(current), started[k].state = "running"
          PROVE  failed(k)
      BY <2>3
    <2>4. DOMAIN branches' = Outgoing(current)
      BY <2>1
    <2> HIDE DEF started, failed
    <2> QED  BY <2>2, <2>3, <2>4 DEF SiblingsAborted, BranchStates
  <1>4. ASSUME NEW k \in DOMAIN branches, BranchStep(k) \/ BranchFails(k)
        PROVE  SiblingsAborted'
    <2>1. CASE branches' = AbortSiblings(k)
      BY <2>1, AbortsAll
    <2>2. CASE branches' # AbortSiblings(k)
      <3> DEFINE next == BranchAt(FirstTarget(Outgoing(branches[k].at)), FALSE)
      <3>1. branches' = [branches EXCEPT ![k] = next] /\ next.state # "failed"
            /\ ~branches[k].aborted /\ branches[k].state = "running"
        BY <1>4, <2>2 DEF BranchStep, BranchFails
      <3> HIDE DEF next
      <3>2. "failed" \notin BranchStates
        BY <3>1 DEF SiblingsAborted
      <3>3. \A i \in DOMAIN branches' : branches'[i].state # "failed"
        BY <3>1, <3>2 DEF BranchStates
      <3> QED  BY <3>3 DEF SiblingsAborted, BranchStates
    <2> QED  BY <2>1, <2>2
  <1>5. \/ branches' = branches \/ branches' = <<>> \/ EnterSplit
        \/ \E k \in DOMAIN branches : BranchStep(k) \/ BranchFails(k)
    BY DEF WorkflowNext, WalkStep, Run, Resume, PassNode, EnterNode, LeaveNode, LeaveSplit,
           Fails, Fail, workflow
  <1> QED  BY <1>1, <1>2, <1>3, <1>4, <1>5

\* Once a branch has failed, the steps that remain in the split begin no task.
LEMMA SiblingsStopStep ==
  ASSUME WorkflowTypeOK, SiblingsAborted, [WorkflowNext]_workflow,
         pc = "split", "failed" \in BranchStates
  PROVE  Executing' \subseteq Executing
  <1> USE DEF walk
  <1>1. CASE UNCHANGED workflow
    BY <1>1 DEF workflow, Executing
  <1>2. CASE LeaveSplit
    BY <1>2 DEF LeaveSplit, Executing
  <1>3. ASSUME NEW k \in DOMAIN branches, BranchStep(k) \/ BranchFails(k)
        PROVE  Executing' \subseteq Executing
    <2>1. branches[k].aborted /\ pc' = pc
      BY <1>3 DEF SiblingsAborted, BranchStep, BranchFails
    <2>2. branches' = AbortSiblings(k)
      BY <1>3, <2>1 DEF BranchStep, BranchFails
    <2> QED  BY <2>1, <2>2, AbortsShape DEF Executing
  <1>4. \/ LeaveSplit \/ UNCHANGED workflow
        \/ \E k \in DOMAIN branches : BranchStep(k) \/ BranchFails(k)
    <2>1. definition # NoDefinition
      BY DEF WorkflowTypeOK
    <2> QED  BY <2>1 DEF WorkflowNext, WalkStep, Run, Resume, PassNode, EnterNode, LeaveNode,
                       EnterSplit, Fails, Fail
  <1> QED  BY <1>1, <1>2, <1>3, <1>4

\* Once a branch of a split has failed no other branch of it begins a task: the
\* failure aborts, in the same stretch of code, every branch that still runs.
THEOREM SiblingsOfAFailureStop == WorkflowSpec => SiblingsStop
  <1>1. WorkflowInit => SiblingsAborted
    BY DEF WorkflowInit, SiblingsAborted, BranchStates
  <1>2. WorkflowTypeOK /\ SiblingsAborted /\ [WorkflowNext]_workflow
            => [pc = "split" /\ "failed" \in BranchStates => Executing' \subseteq Executing]_workflow
    BY SiblingsStopStep
  <1>3. WorkflowTypeOK /\ SiblingsAborted /\ [WorkflowNext]_workflow => SiblingsAborted'
    BY SiblingsPreserved
  <1> QED  BY <1>1, <1>2, <1>3, WorkflowTypes, PTL DEF WorkflowSpec, SiblingsStop

----------------------------------------------------------------------------
(* Branches and joins.  Where the branches of a definition lie is chosen    *)
(* once; what has been completed holds a split exactly if it holds all of   *)
(* its branches, but for the split that is going on.                        *)

LaneOf(d) == CHOOSE lane \in [Node -> Nat] :
                 \E depth \in [Node -> Nat] : BranchesAreLanes(d, lane, depth)
DepthOf(d) == CHOOSE depth \in [Node -> Nat] : BranchesAreLanes(d, LaneOf(d), depth)

SplitOf(d, n) == d.edges[LaneOf(d)[n]].from
Inside(d, n) == LaneOf(d)[n] # 0
Preds(d, n) == {d.edges[k].from : k \in {i \in DOMAIN d.edges : d.edges[i].to = n}}

Closed(d, done) == \A n \in Node : Inside(d, n) => (n \in done <=> SplitOf(d, n) \in done)
ClosedBut(d, done, split) ==
    \A n \in Node : Inside(d, n) /\ SplitOf(d, n) # split => (n \in done <=> SplitOf(d, n) \in done)
JoinsWaited(d, done) == \A n \in done : d.type[n] = "join" => Preds(d, n) \subseteq done

\* Whether the walk may be at n when done is completed.
MayEnter(d, done, n) ==
    /\ n \in Node \ done
    /\ ~Inside(d, n)
    /\ d.type[n] = "join" => Preds(d, n) \subseteq done
    /\ d.start \in done \cup {n}

\* A branch has completed the nodes before the one it is at.
BranchFollowed(d, done, k, b) ==
    \A n \in Node : LaneOf(d)[n] = k =>
        /\ b.state = "done" => n \in done
        /\ b.state = "running" /\ DepthOf(d)[n] < DepthOf(d)[b.at] => n \in done
BranchIsAt(d, k, b) == b.state = "running" => LaneOf(d)[b.at] = k /\ d.type[b.at] = "task"

LEMMA LanesExist ==
  ASSUME NEW d, WellBranched(d)
  PROVE  /\ LaneOf(d) \in [Node -> Nat] /\ DepthOf(d) \in [Node -> Nat]
         /\ BranchesAreLanes(d, LaneOf(d), DepthOf(d))
  <1>1. \E lane \in [Node -> Nat] : \E depth \in [Node -> Nat] : BranchesAreLanes(d, lane, depth)
    BY DEF WellBranched
  <1> DEFINE P(lane) == \E depth \in [Node -> Nat] : BranchesAreLanes(d, lane, depth)
  <1>2. LaneOf(d) \in [Node -> Nat] /\ P(LaneOf(d))
    <2>1. LaneOf(d) = CHOOSE lane \in [Node -> Nat] : P(lane)
      BY DEF LaneOf
    <2>2. \E lane \in [Node -> Nat] : P(lane)
      BY <1>1
    <2> HIDE DEF P
    <2> QED  BY <2>1, <2>2
  <1>3. \E depth \in [Node -> Nat] : BranchesAreLanes(d, LaneOf(d), depth)
    BY <1>2
  <1>4. DepthOf(d) \in [Node -> Nat] /\ BranchesAreLanes(d, LaneOf(d), DepthOf(d))
    BY <1>3 DEF DepthOf
  <1> QED  BY <1>2, <1>4

\* The shape of the branches, in the terms of the invariant.
LEMMA Shape ==
  ASSUME NEW d \in Definition, WellBranched(d)
  PROVE  /\ \A k \in DOMAIN d.edges : d.edges[k].to # d.start
         /\ \A n \in Node : Inside(d, n) =>
               /\ d.type[SplitOf(d, n)] = "parallel_split" /\ SplitOf(d, n) \in Node
               /\ LaneOf(d)[n] \in DOMAIN d.edges
               /\ n # d.start /\ d.type[n] # "join" /\ d.type[n] # "parallel_split"
         /\ \A k \in DOMAIN d.edges :
               /\ d.type[d.edges[k].from] = "parallel_split" =>
                     IF d.type[d.edges[k].to] = "join" THEN \A n \in Node : LaneOf(d)[n] # k
                     ELSE /\ LaneOf(d)[d.edges[k].to] = k
                          /\ \A n \in Node : ~(DepthOf(d)[n] < DepthOf(d)[d.edges[k].to])
               /\ Inside(d, d.edges[k].to) =>
                     \/ d.type[d.edges[k].from] = "parallel_split"
                     \/ LaneOf(d)[d.edges[k].from] = LaneOf(d)[d.edges[k].to]
  <1> DEFINE L == LaneOf(d)
             D == DepthOf(d)
  <1>1. L \in [Node -> Nat] /\ D \in [Node -> Nat] /\ BranchesAreLanes(d, L, D)
    BY LanesExist
  <1> HIDE DEF L, D
  <1>2. \A k \in DOMAIN d.edges : d.edges[k].from \in Node /\ d.edges[k].to \in Node
    BY Definitions
  <1>3. /\ \A k \in DOMAIN d.edges : d.edges[k].to # d.start
        /\ \A n \in Node : L[n] # 0 =>
              /\ L[n] \in DOMAIN d.edges /\ d.type[d.edges[L[n]].from] = "parallel_split"
              /\ n # d.start /\ d.type[n] # "join" /\ d.type[n] # "parallel_split"
    BY <1>1 DEF BranchesAreLanes
  <1>4. ASSUME NEW k \in DOMAIN d.edges
        PROVE  /\ d.type[d.edges[k].from] = "parallel_split" =>
                     IF d.type[d.edges[k].to] = "join" THEN \A n \in Node : L[n] # k
                     ELSE L[d.edges[k].to] = k /\ D[d.edges[k].to] = 0
               /\ L[d.edges[k].to] # 0 =>
                     \/ d.type[d.edges[k].from] = "parallel_split"
                     \/ L[d.edges[k].from] = L[d.edges[k].to]
    BY <1>1 DEF BranchesAreLanes
  <1>5. \A n \in Node : D[n] \in Nat /\ ~(D[n] < 0)
    BY <1>1
  <1> QED  BY <1>2, <1>3, <1>4, <1>5 DEF L, D, Inside, SplitOf

\* Where an edge out of a branch leads: on in the branch, or to a join from its end.
LEMMA BranchGoesOn ==
  ASSUME NEW d \in Definition, WellBranched(d), NEW k \in DOMAIN d.edges,
         Inside(d, d.edges[k].from)
  PROVE  LET m == d.edges[k].from
             n == d.edges[k].to
         IN  IF d.type[n] = "join"
             THEN \A x \in Node : LaneOf(d)[x] = LaneOf(d)[m] => x = m \/ DepthOf(d)[x] < DepthOf(d)[m]
             ELSE /\ LaneOf(d)[n] = LaneOf(d)[m]
                  /\ \A x \in Node : LaneOf(d)[x] = LaneOf(d)[m] /\ DepthOf(d)[x] < DepthOf(d)[n]
                        => x = m \/ DepthOf(d)[x] < DepthOf(d)[m]
  <1> DEFINE L == LaneOf(d)
             D == DepthOf(d)
             m == d.edges[k].from
             n == d.edges[k].to
  <1>1. L \in [Node -> Nat] /\ D \in [Node -> Nat] /\ BranchesAreLanes(d, L, D)
    BY LanesExist
  <1>2. m \in Node /\ n \in Node /\ L[m] # 0
    BY Definitions DEF Inside
  <1> HIDE DEF L, D
  <1>3. \A x \in Node : L[x] = L[m] /\ D[x] = D[m] => x = m
    BY <1>1, <1>2 DEF BranchesAreLanes
  <1>4. IF d.type[n] = "join" THEN \A x \in Node : L[x] = L[m] => D[x] <= D[m]
        ELSE L[n] = L[m] /\ D[n] = D[m] + 1
    BY <1>1, <1>2 DEF BranchesAreLanes
  <1>5. \A x \in Node : D[x] \in Nat
    BY <1>1
  <1> HIDE DEF m, n
  <1>6. CASE d.type[n] = "join"
    <2>1. \A x \in Node : L[x] = L[m] => x = m \/ D[x] < D[m]
      BY <1>2, <1>3, <1>4, <1>5, <1>6
    <2> QED  BY <1>6, <2>1 DEF L, D, m, n
  <1>7. CASE d.type[n] # "join"
    <2>1. L[n] = L[m] /\ \A x \in Node : L[x] = L[m] /\ D[x] < D[n] => x = m \/ D[x] < D[m]
      BY <1>2, <1>3, <1>4, <1>5, <1>7
    <2> QED  BY <1>7, <2>1 DEF L, D, m, n
  <1> QED  BY <1>6, <1>7

\* A branch that leads nowhere further has no node after its last.
LEMMA BranchEnds ==
  ASSUME NEW d \in Definition, WellBranched(d), NEW m \in Node, Inside(d, m),
         \A k \in DOMAIN d.edges : d.edges[k].from # m
  PROVE  \A x \in Node : LaneOf(d)[x] = LaneOf(d)[m] => x = m \/ DepthOf(d)[x] < DepthOf(d)[m]
  <1> DEFINE L == LaneOf(d)
             D == DepthOf(d)
  <1>1. L \in [Node -> Nat] /\ D \in [Node -> Nat] /\ BranchesAreLanes(d, L, D)
    BY LanesExist
  <1>2. L[m] # 0
    BY DEF Inside
  <1> HIDE DEF L, D
  <1>3. \A x \in Node : L[x] = L[m] => (D[x] = D[m] => x = m) /\ ~(D[m] < D[x])
    BY <1>1, <1>2 DEF BranchesAreLanes
  <1>4. \A x \in Node : D[x] \in Nat
    BY <1>1
  <1> QED  BY <1>3, <1>4 DEF L, D

\* An edge from a completed node leads outside of the branches, or to a completed
\* node; the predecessors of a join are completed together.
LEMMA EntryIsSafe ==
  ASSUME NEW d \in Definition, WellBranched(d), NEW done \in SUBSET Node, Closed(d, done),
         d.start \in done, NEW k \in DOMAIN d.edges, d.edges[k].from \in done,
         d.edges[k].to \notin done
  PROVE  MayEnter(d, done, d.edges[k].to)
  <1> DEFINE m == d.edges[k].from
             n == d.edges[k].to
  <1>1. m \in Node /\ n \in Node
    BY Definitions
  <1>2. ~Inside(d, n)
    <2>1. SUFFICES ASSUME Inside(d, n) PROVE FALSE
      OBVIOUS
    <2>2. SplitOf(d, n) \notin done
      BY <1>1, <2>1 DEF Closed
    <2>3. CASE d.type[m] = "parallel_split"
      <3>1. LaneOf(d)[n] = k
        BY <1>1, <2>1, <2>3, Shape
      <3> QED  BY <2>2, <3>1 DEF SplitOf
    <2>4. CASE LaneOf(d)[m] = LaneOf(d)[n]
      <3>1. Inside(d, m) /\ SplitOf(d, m) = SplitOf(d, n)
        BY <2>1, <2>4 DEF Inside, SplitOf
      <3> QED  BY <1>1, <2>2, <3>1 DEF Closed
    <2> QED  BY <2>1, <2>3, <2>4, Shape
  <1>3. ASSUME d.type[n] = "join", NEW i \in DOMAIN d.edges, d.edges[i].to = n
        PROVE  d.edges[i].from \in done
    <2> DEFINE p == d.edges[i].from
               origin(x) == IF LaneOf(d)[x] = 0 THEN x ELSE d.edges[LaneOf(d)[x]].from
    <2>1. origin(p) = origin(m)
      <3>1. BranchesAreLanes(d, LaneOf(d), DepthOf(d))
        BY LanesExist
      <3> QED  BY <1>3, <3>1 DEF BranchesAreLanes
    <2>2. origin(m) \in done
      BY <1>1 DEF Closed, Inside, SplitOf
    <2>3. p \in Node
      BY Definitions
    <2> QED  BY <2>1, <2>2, <2>3 DEF Closed, Inside, SplitOf
  <1> QED  BY <1>1, <1>2, <1>3 DEF MayEnter, Preds

AllWellBranched == \A d \in Definition : WellBranched(d)

WalkInv ==
    definition # NoDefinition =>
        /\ Closed(definition, checkpoint.completed)
        /\ JoinsWaited(definition, checkpoint.completed)
        /\ checkpoint.completed = {} \/ definition.start \in checkpoint.completed
        /\ JoinsWaited(definition, completed)
        /\ pc \in Walking \cup {"split"} => checkpoint.completed \subseteq completed
        /\ pc \in Walking =>
              /\ Closed(definition, completed)
              /\ MayEnter(definition, completed, current)
              /\ pc # "step" => Type(current) # "parallel_split"
        /\ pc = "split" =>
              /\ current \in completed \ checkpoint.completed
              /\ Type(current) = "parallel_split"
              /\ definition.start \in completed
              /\ ClosedBut(definition, completed, current)
              /\ \A k \in DOMAIN branches : BranchIsAt(definition, k, branches[k])
              /\ \A k \in DOMAIN branches :
                    BranchFollowed(definition, completed, k, branches[k])

\* The walk begins at the start.
LEMMA MayStart ==
  ASSUME NEW d \in Definition, WellBranched(d)
  PROVE  MayEnter(d, {}, d.start) /\ Closed(d, {}) /\ JoinsWaited(d, {})
  <1>1. d.start \in Node /\ ~Inside(d, d.start)
    BY Shape, Definitions
  <1>2. Preds(d, d.start) = {}
    BY Shape DEF Preds
  <1> QED  BY <1>1, <1>2 DEF MayEnter, Closed, JoinsWaited

\* A node that is no split and lies outside of the branches.
LEMMA CompletedOutside ==
  ASSUME NEW d \in Definition, WellBranched(d), NEW done \in SUBSET Node, NEW n,
         Closed(d, done), JoinsWaited(d, done), MayEnter(d, done, n),
         d.type[n] # "parallel_split"
  PROVE  Closed(d, done \cup {n}) /\ JoinsWaited(d, done \cup {n}) /\ d.start \in done \cup {n}
  <1>1. ASSUME NEW x \in Node, Inside(d, x)
        PROVE  x # n /\ SplitOf(d, x) # n
    BY <1>1, Shape DEF MayEnter
  <1> QED  BY <1>1 DEF Closed, JoinsWaited, MayEnter

LEMMA CompletesWalk ==
  ASSUME AllWellBranched, WorkflowTypeOK, definition \in Definition, current \in Node,
         Closed(definition, completed \cup {current}),
         JoinsWaited(definition, completed \cup {current}),
         definition.start \in completed \cup {current},
         NEW choices, Completes(completed, choices)
  PROVE  WalkInv'
  <1> DEFINE done == completed \cup {current}
  <1>1. /\ completed' = done /\ checkpoint'.completed = done
        /\ definition' = definition
        /\ current' = NextPendingNode(current, done, choices)
        /\ pc' \in {"ended", "idle", "step"}
        /\ pc' = "step" => current' # None
    BY DEF Completes
  <1>2. done \in SUBSET Node /\ current \in done /\ WellBranched(definition)
    BY DEF WorkflowTypeOK, AllWellBranched
  <1>3. Closed(definition, done) /\ JoinsWaited(definition, done) /\ definition.start \in done
    OBVIOUS
  <1> HIDE DEF done
  <1>4. ASSUME pc' = "step" PROVE MayEnter(definition, done, current')
    <2>1. PICK k \in Edges : To(k) = current' /\ From(k) \in done \cup {current}
      BY <1>1, <1>4, NextIsPending
    <2>2. current' \notin done
      BY <1>1, <1>4, NextIsPending
    <2> QED  BY <1>2, <1>3, <2>1, <2>2, EntryIsSafe DEF Edges, To, From
  <1>5. pc' \notin {"task", "approval", "rollback", "split"} /\ (pc' \in Walking => pc' = "step")
    BY <1>1 DEF Walking
  <1> QED  BY <1>1, <1>3, <1>4, <1>5 DEF WalkInv

\* The branches of a split begin.
LEMMA SplitBegins ==
  ASSUME AllWellBranched, WorkflowTypeOK, WalkInv, EnterSplit
  PROVE  WalkInv'
  <1> DEFINE d == definition
             done == completed \cup {current}
             started == [k \in Outgoing(current) |-> BranchAt(To(k), FALSE)]
  <1>1. /\ definition \in Definition /\ definition' = definition
        /\ current' = current /\ pc' = "split" /\ checkpoint' = checkpoint
        /\ pc = "step" /\ Type(current) = "parallel_split" /\ completed' = done
        /\ DOMAIN branches' = Outgoing(current)
    BY DEF EnterSplit, WorkflowTypeOK
  <1>2. /\ WellBranched(d) /\ completed \in SUBSET Node
        /\ Closed(d, completed) /\ MayEnter(d, completed, current)
        /\ JoinsWaited(d, completed) /\ checkpoint.completed \subseteq completed
    BY <1>1, Definitions DEF WalkInv, AllWellBranched, WorkflowTypeOK, Walking
  <1>3. ASSUME NEW k \in Outgoing(current)
        PROVE  /\ branches'[k].at = To(k)
               /\ branches'[k].state = "done" => d.type[To(k)] = "join"
               /\ branches'[k].state = "running" => d.type[To(k)] = "task"
    <2> DEFINE failed == \E i \in Outgoing(current) \ {k} : started[i].state = "failed"
    <2>1. branches'[k] = [started[k] EXCEPT !.aborted = failed]
      BY DEF EnterSplit
    <2>2. started[k] = BranchAt(To(k), FALSE)
      OBVIOUS
    <2>3. To(k) # None
      BY <1>1, Definitions DEF Outgoing, Edges, To
    <2>4. /\ BranchAt(To(k), FALSE).at = To(k)
          /\ BranchAt(To(k), FALSE).state = "done" => d.type[To(k)] = "join"
          /\ BranchAt(To(k), FALSE).state = "running" => d.type[To(k)] = "task"
      BY <2>3 DEF BranchAt, Type
    <2>5. [BranchAt(To(k), FALSE) EXCEPT !.aborted = failed].at = BranchAt(To(k), FALSE).at
          /\ [BranchAt(To(k), FALSE) EXCEPT !.aborted = failed].state = BranchAt(To(k), FALSE).state
      BY DEF BranchAt
    <2> HIDE DEF failed, started
    <2> QED  BY <2>1, <2>2, <2>4, <2>5
  <1>4. ASSUME NEW k \in Outgoing(current)
        PROVE  BranchIsAt(d, k, branches'[k]) /\ BranchFollowed(d, done, k, branches'[k])
    <2>1. k \in DOMAIN d.edges /\ d.type[d.edges[k].from] = "parallel_split"
      BY <1>1 DEF Outgoing, Edges, From, Type
    <2>2. IF d.type[To(k)] = "join" THEN \A n \in Node : LaneOf(d)[n] # k
          ELSE LaneOf(d)[To(k)] = k /\ \A n \in Node : ~(DepthOf(d)[n] < DepthOf(d)[To(k)])
      BY <1>1, <1>2, <2>1, Shape DEF To
    <2> QED  BY <1>3, <2>2 DEF BranchIsAt, BranchFollowed
  <1>5. ClosedBut(d, done, current)
    BY <1>2 DEF Closed, ClosedBut, MayEnter
  <1>6. JoinsWaited(d, done)
    BY <1>1, <1>2 DEF JoinsWaited, Type
  <1>7. d.start \in done /\ current \in done \ checkpoint.completed
    BY <1>2 DEF MayEnter
  <1>8. d # NoDefinition /\ Type(current)' = "parallel_split" /\ "split" \notin Walking
    BY <1>1, Definitions DEF Type, Walking
  <1>9. checkpoint.completed \subseteq done
    BY <1>2
  <1> HIDE DEF d, done
  <1>10. /\ Closed(d, checkpoint.completed) /\ JoinsWaited(d, checkpoint.completed)
         /\ checkpoint.completed = {} \/ d.start \in checkpoint.completed
    BY <1>8 DEF WalkInv, d
  <1> QED
    BY <1>1, <1>4, <1>5, <1>6, <1>7, <1>8, <1>9, <1>10 DEF WalkInv, d

\* A branch fails, and the others are aborted.
LEMMA AbortKeepsWalk ==
  ASSUME WorkflowTypeOK, WalkInv, NEW k \in DOMAIN branches, pc = "split",
         branches' = AbortSiblings(k), UNCHANGED <<definition, checkpoint, pc, current>>,
         ClosedBut(definition, completed', current), JoinsWaited(definition, completed'),
         completed \subseteq completed'
  PROVE  WalkInv'
  <1>1. definition # NoDefinition
    BY DEF WorkflowTypeOK
  <1>2. /\ DOMAIN branches' = DOMAIN branches
        /\ \A i \in DOMAIN branches :
              /\ branches'[i].at = branches[i].at
              /\ branches'[i].state = IF i = k THEN "failed" ELSE branches[i].state
    BY AbortsShape
  <1>3. /\ \A i \in DOMAIN branches' : BranchIsAt(definition, i, branches'[i])
        /\ \A i \in DOMAIN branches' : BranchFollowed(definition, completed', i, branches'[i])
    BY <1>1, <1>2 DEF WalkInv, BranchIsAt, BranchFollowed
  <1>4. "split" \notin Walking /\ Type(current)' = Type(current)
    BY DEF Walking, Type
  <1> QED  BY <1>1, <1>3, <1>4 DEF WalkInv

\* A branch completes its task, and goes on or ends.
LEMMA BranchStepWalk ==
  ASSUME AllWellBranched, WorkflowTypeOK, WalkInv, NEW k \in DOMAIN branches, BranchStep(k)
  PROVE  WalkInv'
  <1> DEFINE d == definition
             m == branches[k].at
             done == completed \cup {m}
             next == BranchAt(FirstTarget(Outgoing(m)), FALSE)
  <1>1. /\ pc = "split" /\ branches[k].state = "running"
        /\ UNCHANGED <<definition, checkpoint, pc, current>>
    BY DEF BranchStep
  <1>2. /\ definition \in Definition /\ definition # NoDefinition /\ WellBranched(d)
        /\ completed \in SUBSET Node /\ m \in Node
        /\ k \in DOMAIN d.edges /\ d.edges[k].from = current
    BY <1>1 DEF WorkflowTypeOK, AllWellBranched, Branch, Outgoing, Edges, From
  <1>3. /\ LaneOf(d)[m] = k /\ d.type[m] = "task" /\ SplitOf(d, m) = current
        /\ ClosedBut(d, completed, current) /\ JoinsWaited(d, completed)
        /\ Type(current) = "parallel_split"
    BY <1>1, <1>2 DEF WalkInv, BranchIsAt, SplitOf
  <1>4. Inside(d, m)
    BY <1>2, <1>3, Definitions DEF Inside
  <1>5. ClosedBut(d, done, current) /\ JoinsWaited(d, done)
    <2>1. \A x \in Node : Inside(d, x) => SplitOf(d, x) # m
      BY <1>2, <1>3, Shape
    <2> QED  BY <1>3, <2>1 DEF ClosedBut, JoinsWaited
  <1>6. CASE branches' = AbortSiblings(k)
    <2>1. completed' = completed \/ completed' = done
      BY DEF BranchStep
    <2> QED  BY <1>1, <1>3, <1>5, <1>6, <2>1, AbortKeepsWalk
  <1>7. CASE branches' # AbortSiblings(k)
    <2>1. /\ completed' = done /\ branches' = [branches EXCEPT ![k] = next]
          /\ next.state # "failed"
      BY <1>7 DEF BranchStep
    <2>2. BranchIsAt(d, k, next) /\ BranchFollowed(d, done, k, next)
      <3>0. \A x \in Node : LaneOf(d)[x] = k /\ DepthOf(d)[x] < DepthOf(d)[m] => x \in done
        BY <1>1, <1>2 DEF WalkInv, BranchFollowed
      <3>1. CASE Outgoing(m) = {}
        <4>1. next.state = "done"
          BY <3>1 DEF BranchAt, FirstTarget
        <4>2. \A x \in Node : LaneOf(d)[x] = k => x = m \/ DepthOf(d)[x] < DepthOf(d)[m]
          BY <1>2, <1>3, <1>4, <3>1, BranchEnds DEF Outgoing, Edges, From
        <4> QED  BY <3>0, <4>1, <4>2 DEF BranchIsAt, BranchFollowed
      <3>2. CASE Outgoing(m) # {}
        <4>1. PICK e \in Outgoing(m) : FirstTarget(Outgoing(m)) = To(e) /\ To(e) \in Node
          BY <1>2, <3>2, FirstTargetIsOne DEF Outgoing
        <4> DEFINE n == To(e)
        <4>2. /\ e \in DOMAIN d.edges /\ d.edges[e].from = m /\ d.edges[e].to = n
              /\ n # None
          BY <1>2, <4>1, Definitions DEF Outgoing, Edges, From, To
        <4>3. next = BranchAt(n, FALSE)
          BY <4>1
        <4> HIDE DEF n, next
        <4>4. next.state = (IF d.type[n] = "join" THEN "done" ELSE "running") /\ next.at = n
              /\ (next.state = "running" => d.type[n] = "task")
          BY <2>1, <4>2, <4>3 DEF BranchAt, Type
        <4>5. IF d.type[n] = "join"
              THEN \A x \in Node : LaneOf(d)[x] = k => x = m \/ DepthOf(d)[x] < DepthOf(d)[m]
              ELSE /\ LaneOf(d)[n] = k
                   /\ \A x \in Node : LaneOf(d)[x] = k /\ DepthOf(d)[x] < DepthOf(d)[n]
                         => x = m \/ DepthOf(d)[x] < DepthOf(d)[m]
          BY <1>2, <1>3, <1>4, <4>2, BranchGoesOn
        <4> QED  BY <3>0, <4>4, <4>5 DEF BranchIsAt, BranchFollowed
      <3> QED  BY <3>1, <3>2
    <2>3. /\ DOMAIN branches' = DOMAIN branches /\ branches'[k] = next
          /\ \A i \in DOMAIN branches \ {k} : branches'[i] = branches[i]
      BY <2>1
    <2>4. completed \subseteq done
      OBVIOUS
    <2> HIDE DEF next, done
    <2>5. /\ \A i \in DOMAIN branches' : BranchIsAt(d, i, branches'[i])
          /\ \A i \in DOMAIN branches' : BranchFollowed(d, done, i, branches'[i])
      BY <1>1, <1>2, <2>2, <2>3, <2>4 DEF WalkInv, BranchIsAt, BranchFollowed
    <2>6. "split" \notin Walking /\ Type(current)' = "parallel_split"
      BY <1>1, <1>3 DEF Walking, Type
    <2> QED  BY <1>1, <1>2, <1>5, <2>1, <2>4, <2>5, <2>6 DEF WalkInv
  <1> QED  BY <1>6, <1>7

\* All branches have ended at their joins: the split is completed.
LEMMA SplitEnds ==
  ASSUME AllWellBranched, WorkflowTypeOK, WalkInv, LeaveSplit
  PROVE  WalkInv'
  <1> DEFINE d == definition
  <1>1. pc = "split" /\ "running" \notin BranchStates
    BY DEF LeaveSplit
  <1>2. /\ definition \in Definition /\ definition # NoDefinition /\ WellBranched(d)
        /\ current \in Node /\ DOMAIN branches = Outgoing(current)
        /\ current \in completed /\ completed \in SUBSET Node
    BY <1>1 DEF WorkflowTypeOK, AllWellBranched, WalkInv
  <1>3. CASE "failed" \in BranchStates
    <2>1. pc' = "idle" /\ UNCHANGED <<definition, checkpoint, current, completed>>
      BY <1>3 DEF LeaveSplit
    <2> QED  BY <1>2, <2>1 DEF WalkInv, Walking
  <1>4. CASE "failed" \notin BranchStates
    <2>1. Completes(completed, context)
      BY <1>4 DEF LeaveSplit
    <2>2. \A k \in DOMAIN branches : branches[k].state = "done"
      <3>1. \A k \in DOMAIN branches : branches[k].state \in {"running", "done", "failed"}
        BY DEF WorkflowTypeOK, Branch
      <3> QED  BY <1>1, <1>4, <3>1 DEF BranchStates
    <2>3. ASSUME NEW n \in Node, Inside(d, n), SplitOf(d, n) = current
          PROVE  n \in completed
      <3>1. LaneOf(d)[n] \in DOMAIN branches
        BY <1>2, <2>3, Shape DEF SplitOf, Outgoing, Edges, From
      <3> QED  BY <1>1, <1>2, <2>2, <3>1 DEF WalkInv, BranchFollowed
    <2>4. Closed(d, completed)
      BY <1>1, <1>2, <2>3 DEF WalkInv, ClosedBut, Closed
    <2>5. completed \cup {current} = completed
      BY <1>2
    <2>6. JoinsWaited(d, completed) /\ d.start \in completed
      BY <1>1, <1>2 DEF WalkInv
    <2> QED  BY <1>2, <2>1, <2>4, <2>5, <2>6, CompletesWalk
  <1> QED  BY <1>3, <1>4

LEMMA WalkPreserved ==
  ASSUME AllWellBranched, WorkflowTypeOK, WalkInv, [WorkflowNext]_workflow
  PROVE  WalkInv'
  <1> USE DEF walk
  <1>1. definition = NoDefinition \/ (definition \in Definition /\ definition # NoDefinition
                                         /\ WellBranched(definition))
    BY Definitions DEF WorkflowTypeOK, AllWellBranched
  <1>2. ASSUME NEW d \in Definition, Run(d) PROVE WalkInv'
    <2>1. /\ definition' = d /\ completed' = {} /\ checkpoint'.completed = {}
          /\ pc' = "step" /\ current' = d.start
      BY <1>2 DEF Run, WorkflowTypeOK
    <2>2. MayEnter(d, {}, d.start) /\ Closed(d, {}) /\ JoinsWaited(d, {})
      BY MayStart DEF AllWellBranched
    <2> QED  BY <2>1, <2>2 DEF WalkInv, Walking
  <1>3. CASE Resume
    <2> DEFINE d == definition
               saved == checkpoint.completed
    <2>1. /\ definition' = definition /\ definition \in Definition /\ definition # NoDefinition
          /\ checkpoint' = checkpoint /\ completed' = saved /\ WellBranched(d)
          /\ pc' = IF current' # None THEN "step" ELSE "idle"
          /\ saved \in SUBSET Node
      BY <1>1, <1>3 DEF Resume, WorkflowTypeOK
    <2>2. Closed(d, saved) /\ JoinsWaited(d, saved) /\ (saved = {} \/ d.start \in saved)
      BY <2>1 DEF WalkInv
    <2>3. CASE saved = {}
      <3>1. current' = d.start
        BY <1>3, <2>1, <2>3 DEF Resume
      <3>2. MayEnter(d, saved, d.start)
        BY <2>1, <2>3, MayStart
      <3> HIDE DEF d, saved
      <3> QED  BY <2>1, <2>2, <3>1, <3>2 DEF WalkInv, Walking, d, saved
    <2>4. CASE saved # {}
      <3>1. current' = NextPendingNode(d.start, saved, Undecided_All)
        BY <1>3, <2>1, <2>4 DEF Resume
      <3>2. ASSUME current' # None PROVE MayEnter(d, saved, current')
        <4>1. PICK k \in Edges : To(k) = current' /\ From(k) \in saved \cup {d.start}
          BY <2>1, <3>1, <3>2, NextIsPending
        <4>2. current' \notin saved
          BY <2>1, <3>1, <3>2, NextIsPending
        <4> QED  BY <2>1, <2>2, <2>4, <4>1, <4>2, EntryIsSafe DEF Edges, To, From
      <3> HIDE DEF d, saved
      <3> QED  BY <2>1, <2>2, <3>2 DEF WalkInv, Walking, d, saved
    <2> QED  BY <2>3, <2>4
  <1>4. CASE PassNode \/ LeaveNode
    <2>1. /\ pc \in Walking /\ definition \in Definition /\ definition # NoDefinition
          /\ WellBranched(definition)
          /\ completed \in SUBSET Node /\ current \in Node
      BY <1>1, <1>4 DEF PassNode, LeaveNode, WorkflowTypeOK, Walking
    <2>2. Type(current) # "parallel_split"
      <3>1. CASE PassNode
        BY <3>1 DEF PassNode
      <3>2. CASE LeaveNode
        BY <2>1, <3>2 DEF LeaveNode, WalkInv
      <3> QED  BY <1>4, <3>1, <3>2
    <2>3. \E choices : Completes(completed, choices)
      BY <1>4 DEF PassNode, LeaveNode
    <2>4. /\ Closed(definition, completed \cup {current})
          /\ JoinsWaited(definition, completed \cup {current})
          /\ definition.start \in completed \cup {current}
      BY <2>1, <2>2, CompletedOutside DEF WalkInv, Type
    <2> QED  BY <2>1, <2>3, <2>4, CompletesWalk
  <1>5. CASE EnterNode
    <2>1. /\ pc' \in {"task", "approval", "rollback"} /\ pc = "step"
          /\ Type(current) # "parallel_split"
          /\ UNCHANGED <<definition, checkpoint, current, completed>>
      BY <1>5 DEF EnterNode, Awaits
    <2> QED  BY <2>1 DEF WalkInv, Walking, Type
  <1>6. CASE Fails
    BY <1>6 DEF Fails, Fail, WalkInv, Walking
  <1>7. CASE EnterSplit
    BY <1>7, SplitBegins
  <1>8. CASE LeaveSplit
    BY <1>8, SplitEnds
  <1>9. ASSUME NEW k \in DOMAIN branches, BranchStep(k) PROVE WalkInv'
    BY <1>9, BranchStepWalk
  <1>10. ASSUME NEW k \in DOMAIN branches, BranchFails(k) PROVE WalkInv'
    <2>1. /\ pc = "split" /\ branches' = AbortSiblings(k)
          /\ UNCHANGED <<definition, checkpoint, pc, current>> /\ completed' = completed
          /\ definition # NoDefinition
      BY <1>10 DEF BranchFails, WorkflowTypeOK
    <2> QED  BY <2>1, AbortKeepsWalk DEF WalkInv
  <1>11. CASE UNCHANGED workflow
    BY <1>11 DEF workflow, WalkInv, Type
  <1> QED
    BY <1>2, <1>3, <1>4, <1>5, <1>6, <1>7, <1>8, <1>9, <1>10, <1>11 DEF WorkflowNext, WalkStep

\* For workflows whose branches are lanes: the walk is where the completed nodes
\* allow it to be, in every execution and after every resume.
THEOREM WalkIsSafe ==
  ASSUME AllWellBranched PROVE WorkflowSpec => []WalkInv
  <1>1. WorkflowInit => WalkInv
    BY DEF WorkflowInit, WalkInv
  <1>2. WorkflowTypeOK /\ WalkInv /\ [WorkflowNext]_workflow => WalkInv'
    BY WalkPreserved
  <1> QED  BY <1>1, <1>2, WorkflowTypes, PTL DEF WorkflowSpec

\* The walk enters a join only when each node with an edge to it is completed,
\* also when a resume has skipped some of its branches.
THEOREM JoinsWaitForBranches ==
  ASSUME AllWellBranched PROVE WorkflowSpec => []JoinWaits
  <1>1. WalkInv => JoinWaits
    BY DEF WalkInv, JoinsWaited, JoinWaits, Preds, Incoming, Type, Edges, From, To
  <1> QED  BY <1>1, WalkIsSafe, PTL

NothingSavedExecutes == \A n \in Executing : n \notin checkpoint.completed

LEMMA ExecutingIsNotSaved ==
  ASSUME WorkflowTypeOK, WalkInv
  PROVE  NothingSavedExecutes
  <1> USE DEF NothingSavedExecutes
  <1> SUFFICES ASSUME NEW n \in Executing, n \in checkpoint.completed PROVE FALSE
    OBVIOUS
  <1>1. CASE pc = "task" /\ current = n
    <2>1. definition # NoDefinition
      BY <1>1 DEF WorkflowTypeOK
    <2> QED  BY <1>1, <2>1 DEF WalkInv, Walking, MayEnter
  <1>2. ASSUME pc = "split", NEW k \in DOMAIN branches, branches[k].at = n,
               branches[k].state = "running"
        PROVE  FALSE
    <2>1. /\ definition \in Definition /\ definition # NoDefinition
          /\ k \in DOMAIN definition.edges /\ definition.edges[k].from = current
          /\ n \in Node
      BY <1>2 DEF WorkflowTypeOK, Outgoing, Edges, From, Executing
    <2>2. LaneOf(definition)[n] = k /\ current \notin checkpoint.completed
          /\ Closed(definition, checkpoint.completed)
      BY <1>2, <2>1 DEF WalkInv, BranchIsAt
    <2>3. Inside(definition, n) /\ SplitOf(definition, n) = current
      BY <2>1, <2>2, Definitions DEF Inside, SplitOf
    <2> QED  BY <2>1, <2>2, <2>3 DEF Closed
  <1> QED  BY <1>1, <1>2 DEF Executing

\* A step either begins no task or leaves the checkpoint as it is.
LEMMA CheckpointOrTask ==
  ASSUME WorkflowTypeOK, [WorkflowNext]_workflow
  PROVE  checkpoint' = checkpoint \/ Executing' = {}
  <1> USE DEF walk
  <1>1. ASSUME NEW choices, Completes(completed, choices) PROVE Executing' = {}
    <2>1. pc' \notin {"task", "split"}
      BY <1>1 DEF Completes
    <2> QED  BY <2>1 DEF Executing
  <1>2. checkpoint' = checkpoint \/ \E choices : Completes(completed, choices)
    BY DEF WorkflowNext, WalkStep, Run, Resume, PassNode, EnterNode, LeaveNode, EnterSplit,
           BranchStep, BranchFails, LeaveSplit, Fails, Fail, workflow
  <1> QED  BY <1>1, <1>2

\* A task the valid checkpoint holds as completed is not started again, by the
\* walk or in a branch, however often the workflow has failed and was resumed.
THEOREM ResumesRepeatNothing ==
  ASSUME AllWellBranched PROVE WorkflowSpec => ResumeRepeatsNothing
  <1>1. NothingSavedExecutes' /\ WorkflowTypeOK /\ [WorkflowNext]_workflow
            => [\A n \in Executing' \ Executing : n \notin checkpoint.completed]_workflow
    BY CheckpointOrTask DEF NothingSavedExecutes
  <1>2. WorkflowTypeOK /\ WalkInv => NothingSavedExecutes
    BY ExecutingIsNotSaved
  <1> QED  BY <1>1, <1>2, WalkIsSafe, WorkflowTypes, PTL DEF WorkflowSpec, ResumeRepeatsNothing
==============================================================================
