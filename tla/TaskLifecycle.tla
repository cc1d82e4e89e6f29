--------------------------- MODULE TaskLifecycle ---------------------------
(***************************************************************************)
(* What a client of the runtime may rely on when it looks at a task: the   *)
(* state it is shown moves only along the transition table, and when the   *)
(* process dies and comes back, each task is shown a state it really was   *)
(* in (or "Unverified", if its execution was cut off), a task whose        *)
(* submission was acknowledged being never lost.  TaskRuntime implements   *)
(* it with calls that interleave, a checkpoint store and a crash.          *)
(***************************************************************************)
EXTENDS TaskManager

CONSTANT
    Task    \* identifiers of the tasks that may be submitted

VARIABLES
    state,    \* state[t]: the state a client is shown for t
    past,     \* past[t]: every state t has been in
    acked     \* the tasks whose durable submission has returned

lifecycle == <<state, past, acked>>

LifecycleInit ==
    /\ state = [t \in Task |-> "Absent"]
    /\ past = [t \in Task |-> {"Absent"}]
    /\ acked = {}

\* Any number of tasks take a step of the table; a submission may return.
Proceed ==
    /\ state' \in [Task -> ShownState]
    /\ \A t \in Task : state'[t] \in {state[t]} \cup Successors(state[t])
    /\ past' = [t \in Task |-> past[t] \cup {state'[t]}]
    /\ acked \subseteq acked'
    /\ acked' \subseteq acked \cup {t \in Task : state[t] # "Absent"}

\* The process dies: what is shown from then on comes from the checkpoints.
Restart ==
    /\ state' \in [Task -> ShownState]
    /\ \A t \in Task : \E s \in past[t] : state'[t] = Recovered(s)
    /\ \A t \in acked : state'[t] # "Absent"
    /\ UNCHANGED <<past, acked>>

LifecycleNext == Proceed \/ Restart

LifecycleSpec == LifecycleInit /\ [][LifecycleNext]_lifecycle
============================================================================
