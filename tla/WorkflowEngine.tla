-------------------------- MODULE WorkflowEngine --------------------------
(***************************************************************************)
(* The WorkflowEngine of services/runtime/src/workflow-engine.ts: one      *)
(* workflow is walked node by node from its start, a checkpoint after each *)
(* one, the branches of a split side by side; when the walk has failed or  *)
(* ended, resume() walks on from the checkpoint that is still valid.       *)
(*                                                                         *)
(* An action is one iteration of the walk, or one end of an await of it.   *)
(* What ends an execution early (a task that fails, is not verified or     *)
(* runs into its timeout, the bounds on steps and time, a compensation     *)
(* that throws) is one failure, of which there are MaxFailures.  The       *)
(* operation a timeout gives up changes nothing in the engine any more.    *)
(* A caller starts one execution at a time and runs a workflow once.       *)
(***************************************************************************)
EXTENDS Integers, Sequences, FiniteSets

CONSTANTS
    Node,          \* identifiers of nodes
    Definition,    \* the workflow definitions that may be run
    MaxFailures    \* bound on executions that fail

VARIABLES
    definition,    \* the stored definition, or NoDefinition before run()
    checkpoint,    \* the checkpoint that is Valid: what it holds
    pc,            \* what executeFrom does, see Pc
    current,       \* the node the walk is at
    completed,     \* its set of completed nodes
    context,       \* what decisions and approvals have put into the context
    branches,      \* the executeBranch of each edge out of a split
    failures

walk == <<pc, current, completed, context, branches>>
workflow == <<definition, checkpoint, walk, failures>>

Pc == {"idle",      \* no execution
       "step",      \* the beginning of the loop
       "task",      \* awaiting execute
       "approval",  \* awaiting approve
       "rollback",  \* awaiting compensate
       "split",     \* awaiting the branches
       "ended"}     \* an end node was reached

NodeType == {"task", "decision", "parallel_split", "join", "human_approval", "rollback", "end"}

\* A choice is the value of a decision, "approved" or "denied"; an edge without
\* a condition has "always".
Undecided == "undecided"
Choice == STRING \ {Undecided}

None == "none"
NoDefinition == [start |-> None]

EdgeOf == [from : Node, to : Node, condition : Choice]

\* What validate() checks, except for cycles.
ASSUME DefinitionsAreValid ==
    /\ None \notin Node
    /\ \A d \in Definition :
          d.start \in Node /\ d.type \in [Node -> NodeType] /\ d.edges \in Seq(EdgeOf)
    /\ MaxFailures \in Nat

Branch == {b \in [at : Node \cup {None}, state : {"running", "done", "failed"}, aborted : BOOLEAN] :
               b.state = "running" => b.at # None}

----------------------------------------------------------------------------
Type(n) == definition.type[n]

\* The definition's edges are known by their positions, and go in that order.
Edges == DOMAIN definition.edges
From(k) == definition.edges[k].from
To(k) == definition.edges[k].to

Outgoing(n) == {k \in Edges : From(k) = n}
Incoming(n) == {From(k) : k \in {i \in Edges : To(i) = n}}

Matches(k, choices) == definition.edges[k].condition \in {"always", choices[From(k)]}

FirstOf(edges) == CHOOSE i \in edges : \A j \in edges : i <= j
FirstTarget(edges) == IF edges = {} THEN None ELSE To(FirstOf(edges))

NextPendingNode_Again(from, done, choices) ==
    LET direct == {k \in Outgoing(from) : Matches(k, choices)}
        ready  == {k \in Edges : Incoming(To(k)) \subseteq done}
    IN  FirstTarget(IF direct # {} THEN direct ELSE ready)

\* A successor whose condition holds; or else any node whose predecessors are
\* all completed, whatever the conditions of the edges to it.
NextPendingNode(from, done, choices) ==
    LET direct == {k \in Outgoing(from) : Matches(k, choices) /\ To(k) \notin done}
        ready  == {k \in Edges : From(k) \in done /\ To(k) \notin done
                                    /\ Incoming(To(k)) \subseteq done}
    IN  FirstTarget(IF direct # {} THEN direct ELSE ready)

Undecided_All == [n \in Node |-> Undecided]

WorkflowInit ==
    /\ definition = NoDefinition
    /\ checkpoint = [completed |-> {}, context |-> Undecided_All]
    /\ pc = "idle" /\ current = None
    /\ completed = {} /\ context = Undecided_All
    /\ branches = <<>>
    /\ failures = 0

Run(d) ==
    /\ definition = NoDefinition
    /\ definition' = d
    /\ pc' = "step" /\ current' = d.start
    /\ UNCHANGED <<checkpoint, completed, context, branches, failures>>

Resume_FromNothing ==
    /\ definition # NoDefinition /\ pc \in {"idle", "ended"}
    /\ completed' = {} /\ context' = checkpoint.context
    /\ current' = definition.start
    /\ pc' = "step"
    /\ UNCHANGED <<definition, checkpoint, branches, failures>>

\* resume() of the checkpoint that the execution before has reported, failed or
\* not: the last one is still valid when the walk has reached an end node.  The
\* next node is found without the context.
Resume ==
    /\ definition # NoDefinition /\ pc \in {"idle", "ended"}
    /\ completed' = checkpoint.completed
    /\ context' = checkpoint.context
    /\ current' = IF completed' = {} THEN definition.start
                  ELSE NextPendingNode(definition.start, completed', Undecided_All)
    /\ pc' = IF current' # None THEN "step" ELSE "idle"
    /\ UNCHANGED <<definition, checkpoint, branches, failures>>

----------------------------------------------------------------------------
\* The rest of an iteration: the node is completed, a checkpoint supersedes
\* the one before it, and the walk goes on.  A walk that finds no node although
\* some are not completed is a deadlock, and it fails too when it has completed
\* all of them without an end node.
Completes(done, choices) ==
    /\ completed' = done \cup {current}
    /\ context' = choices
    /\ checkpoint' = [completed |-> completed', context |-> choices]
    /\ current' = NextPendingNode(current, completed', choices)
    /\ pc' = IF Type(current) = "end" THEN "ended"
             ELSE IF current' = None THEN "idle" ELSE "step"
    /\ UNCHANGED <<definition, failures>>

Fail ==
    /\ failures < MaxFailures
    /\ failures' = failures + 1
    /\ pc' = "idle"
    /\ branches' = <<>>
    /\ UNCHANGED <<definition, checkpoint, current, completed, context>>

\* A node that takes no time.  What a decision chooses may be a value that no edge
\* carries.
PassNode ==
    /\ pc = "step"
    /\ \/ Type(current) \in {"join", "end"} /\ Completes(completed, context)
       \/ /\ Type(current) = "decision"
          /\ \E choice \in {definition.edges[k].condition : k \in Outgoing(current)}
                            \cup {Undecided} :
                Completes(completed, [context EXCEPT ![current] = choice])
    /\ UNCHANGED branches

Awaits == [task |-> "task", human_approval |-> "approval", rollback |-> "rollback"]

EnterNode ==
    /\ pc = "step"
    /\ Type(current) \in DOMAIN Awaits
    /\ pc' = Awaits[Type(current)]
    /\ UNCHANGED <<definition, checkpoint, current, completed, context, branches, failures>>

\* approve() that throws or is not answered in time is a denial.
LeaveNode ==
    /\ \/ pc \in {"task", "rollback"} /\ Completes(completed, context)
       \/ /\ pc = "approval"
          /\ \E choice \in {"approved", "denied"} :
                Completes(completed, [context EXCEPT ![current] = choice])
    /\ UNCHANGED branches


----------------------------------------------------------------------------
\* executeBranch goes on to a node: a join ends the branch, anything else than
\* a task fails it.
BranchAt(n, aborted) ==
    [at |-> n, aborted |-> aborted,
     state |-> IF n = None \/ Type(n) = "join" THEN "done"
               ELSE IF aborted \/ Type(n) # "task" THEN "failed" ELSE "running"]

FirstFailure == \A k \in DOMAIN branches : branches[k].state # "failed"

AbortSiblings_None(k) == [branches EXCEPT ![k].state = "failed"]

\* The first branch that fails aborts the others.
AbortSiblings(k) ==
    [i \in DOMAIN branches |->
        IF i = k THEN [branches[k] EXCEPT !.state = "failed"]
        ELSE [branches[i] EXCEPT !.aborted = @ \/ FirstFailure]]

EnterSplit ==
    /\ pc = "step" /\ Type(current) = "parallel_split"
    /\ pc' = "split"
    /\ completed' = completed \cup {current}
    /\ LET started == [k \in Outgoing(current) |-> BranchAt(To(k), FALSE)]
       IN  branches' = [k \in Outgoing(current) |->
                          [started[k] EXCEPT !.aborted =
                              \E i \in Outgoing(current) \ {k} : started[i].state = "failed"]]
    /\ UNCHANGED <<definition, checkpoint, current, context, failures>>

\* The task of a branch is verified.  The branch was aborted, or it goes on.
BranchStep(k) ==
    /\ pc = "split" /\ branches[k].state = "running"
    /\ LET next == BranchAt(FirstTarget(Outgoing(branches[k].at)), FALSE)
       IN  IF branches[k].aborted
           THEN branches' = AbortSiblings(k) /\ UNCHANGED completed
           ELSE /\ completed' = completed \cup {branches[k].at}
                /\ branches' = IF next.state = "failed" THEN AbortSiblings(k)
                               ELSE [branches EXCEPT ![k] = next]
    /\ UNCHANGED <<definition, checkpoint, pc, current, context, failures>>

BranchFails(k) ==
    /\ pc = "split" /\ branches[k].state = "running" /\ ~branches[k].aborted
    /\ failures < MaxFailures
    /\ failures' = failures + 1
    /\ branches' = AbortSiblings(k)
    /\ UNCHANGED <<definition, checkpoint, pc, current, completed, context>>

BranchStates == {branches[k].state : k \in DOMAIN branches}

LeaveSplit_AllSettled ==
    /\ pc = "split" /\ "running" \notin BranchStates
    /\ Completes(completed, context)
    /\ branches' = <<>>

\* Promise.all: every branch has settled.
LeaveSplit ==
    /\ pc = "split" /\ "running" \notin BranchStates
    /\ IF "failed" \in BranchStates
       THEN pc' = "idle" /\ UNCHANGED <<definition, checkpoint, current, completed, context,
                                        failures>>
       ELSE Completes(completed, context)
    /\ branches' = <<>>

\* The bounds at the beginning of the loop, what may go wrong in an await, and the
\* bound on time after a node: an approval that was given and branches that have all
\* come to their join are not in the checkpoint then.
Fails ==
    \/ pc \in {"step", "task", "approval", "rollback"} /\ Fail
    \/ pc = "split" /\ BranchStates \subseteq {"done"} /\ Fail

----------------------------------------------------------------------------
WalkStep ==
    \/ PassNode \/ EnterNode \/ LeaveNode \/ EnterSplit \/ LeaveSplit
    \/ \E k \in DOMAIN branches : BranchStep(k)

WorkflowNext ==
    \/ \E d \in Definition : Run(d)
    \/ Resume
    \/ WalkStep
    \/ Fails
    \/ \E k \in DOMAIN branches : BranchFails(k)

WorkflowSpec == WorkflowInit /\ [][WorkflowNext]_workflow

----------------------------------------------------------------------------
WorkflowTypeOK ==
    /\ definition \in Definition \cup {NoDefinition}
    /\ pc \in Pc
    /\ definition = NoDefinition => pc = "idle" /\ completed = {} /\ checkpoint.completed = {}
    /\ current \in Node \cup {None}
    /\ pc \in {"step", "task", "approval", "rollback"} => current \in Node \ completed
    /\ checkpoint.completed \subseteq Node /\ completed \subseteq Node
    /\ branches \in [DOMAIN branches -> Branch]
    /\ pc = "split" => current \in Node /\ DOMAIN branches = Outgoing(current)
    /\ pc # "split" => DOMAIN branches = {}
    /\ failures \in 0 .. MaxFailures

\* The shape of the workflows that docs/17-workflow draws, which validate() does
\* not ask for.  Nothing leads to the start.  lane[n] is 0 outside of branches,
\* and else the edge out of a split with which the branch of n begins; depth[n]
\* counts the nodes of the branch before n.  A branch is entered at its
\* beginning only and goes on until a join, and a join ends branches of one split.
BranchesAreLanes(d, lane, depth) ==
    LET at(k) == d.edges[k].from
        to(k) == d.edges[k].to
        origin(n) == IF lane[n] = 0 THEN n ELSE at(lane[n])
    IN  /\ \A k \in DOMAIN d.edges : to(k) # d.start
        /\ \A n \in Node : lane[n] # 0 =>
              /\ lane[n] \in DOMAIN d.edges /\ d.type[at(lane[n])] = "parallel_split"
              /\ n # d.start /\ d.type[n] \notin {"join", "parallel_split"}
        /\ \A m, n \in Node : lane[m] # 0 /\ lane[m] = lane[n] =>
              /\ depth[m] = depth[n] => m = n
              /\ depth[m] < depth[n] => \E k \in DOMAIN d.edges : at(k) = m
        /\ \A k \in DOMAIN d.edges :
              /\ d.type[at(k)] = "parallel_split" =>
                    IF d.type[to(k)] = "join" THEN \A n \in Node : lane[n] # k
                    ELSE lane[to(k)] = k /\ depth[to(k)] = 0
              /\ lane[at(k)] # 0 =>
                    IF d.type[to(k)] = "join"
                    THEN \A n \in Node : lane[n] = lane[at(k)] => depth[n] <= depth[at(k)]
                    ELSE lane[to(k)] = lane[at(k)] /\ depth[to(k)] = depth[at(k)] + 1
              /\ lane[to(k)] # 0 =>
                    d.type[at(k)] = "parallel_split" \/ lane[at(k)] = lane[to(k)]
              /\ d.type[to(k)] = "join" =>
                    \A i \in DOMAIN d.edges : to(i) = to(k) => origin(at(i)) = origin(at(k))

WellBranched(d) ==
    \E lane \in [Node -> Nat], depth \in [Node -> Nat] : BranchesAreLanes(d, lane, depth)

\* The nodes whose task a call of execute is working on.
Executing ==
    {n \in Node : \/ pc = "task" /\ current = n
                  \/ pc = "split" /\ \E k \in DOMAIN branches :
                                        branches[k].at = n /\ branches[k].state = "running"}

\* A join is passed only when every branch that leads to it has got there,
\* whichever of them was the last, also in an execution that was resumed.
JoinWaits ==
    \A n \in Node : definition # NoDefinition /\ n \in completed /\ Type(n) = "join" =>
                       Incoming(n) \subseteq completed

\* What the valid checkpoint holds is never executed again, however often the
\* workflow fails and is resumed.
ResumeRepeatsNothing ==
    [][\A n \in Executing' \ Executing : n \notin checkpoint.completed]_workflow

\* Once a branch has failed, no branch of the split begins another task.
SiblingsStop ==
    [][pc = "split" /\ "failed" \in BranchStates => Executing' \subseteq Executing]_workflow

\* A node that only conditional edges lead to is entered when the decision or
\* approval before it has chosen it.
OnlyChosenNodes ==
    \A n \in Node : n \in Executing =>
        \/ Incoming(n) = {}
        \/ \E k \in Edges :
              /\ To(k) = n
              /\ From(k) \in completed
              /\ Matches(k, context)
============================================================================
