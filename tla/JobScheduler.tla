--------------------------- MODULE JobScheduler ---------------------------
(***************************************************************************)
(* The JobScheduler of services/runtime/src/job-scheduler.ts: recurring,   *)
(* cron and delayed jobs with dependencies and concurrency groups, kept in *)
(* a file that is rewritten at every change.  A pass (runDue) runs the due *)
(* jobs one after the other, each one after its due dependencies; it may   *)
(* be interleaved with cancellations and registrations whenever it awaits. *)
(*                                                                         *)
(* runJob calls itself for a dependency: `chain` is the stack of these     *)
(* calls.  The steps of one stretch of code without an await are separate  *)
(* actions here, between which no other handler may run (Awaiting).        *)
(*                                                                         *)
(* start() comes before the first registration: a job registered in a      *)
(* process that has not loaded the file replaces what the file holds.      *)
(* Left out: which function runs a job, last_run_at and last_error, which  *)
(* decide nothing, and the minutes of cron expressions.                    *)
(***************************************************************************)
EXTENDS Integers, Sequences, FiniteSets

CONSTANTS
    Job,           \* identifiers of jobs
    Definition,    \* the definitions a job may be registered with
    Store,         \* "file": FileJobStore; "injected": any store that keeps its promise
    MaxTime,       \* bound on the clock
    MaxMishaps     \* bound on failing saves and crashes together

\* parseInterval refuses an interval of zero; a schedule is the interval of a
\* recurring job, the distance of a cron job's occurrences, the time of a
\* delayed one.
ASSUME JobAssumption ==
    /\ IsFiniteSet(Job)
    /\ Definition \subseteq
         [type : {"recurring", "cron", "delayed"}, schedule : Nat \ {0},
          dependencies : Seq(Job), priority : {"low", "normal"}, group : STRING,
          skip_missed_occurrences : BOOLEAN]
    /\ Store \in {"file", "injected"}
    /\ MaxTime \in Nat /\ MaxMishaps \in Nat

VARIABLES
    jobs,         \* this.jobs; a job that is not registered is Absent
    store,        \* what the job file holds
    active,       \* this.running: the jobs with a controller
    aborted,      \* those of them whose controller was aborted
    groups,       \* this.groups
    pass,         \* the runDue that is going on, or NoPass
    up,           \* whether the process has been started
    now,          \* what this.now() returns
    faults, crashes,
    window,       \* history: the jobs that were due when the pass began
    interrupted,  \* history: the jobs whose run was cancelled in this pass
    finished      \* history: the delayed jobs whose runner has succeeded

memory == <<jobs, active, aborted, groups, pass>>
history == <<window, interrupted, finished>>
vars == <<memory, store, up, now, faults, crashes, history>>

Status == {"scheduled", "running", "completed", "failed", "cancelled"}

JobState == [definition : Definition, next_run_at : Nat, status : Status]
Absent == [status |-> "absent"]

Frame == [job : Job, dependency : Nat \ {0}]

Pass ==
    [pc : {"none",       \* no pass is going on
           "next",       \* the next due job is to be taken
           "enter",      \* runJob is called for that job, or for a dependency
           "loop",       \* the last frame looks at its dependency
           "run",        \* awaiting the runner of the last frame
           "ran",        \* awaiting a runJob that has returned true
          "not_run"},   \* awaiting a runJob that has returned false
     due : Seq(Job), chain : Seq(Frame), completed : SUBSET Job]

NoPass == [pc |-> "none", due |-> <<>>, chain |-> <<>>, completed |-> {}]

----------------------------------------------------------------------------
NextOccurrence(definition, from) ==
    CASE definition.type = "recurring" -> from + definition.schedule
      [] definition.type = "delayed"   -> definition.schedule
      [] definition.type = "cron"      ->
            (from \div definition.schedule + 1) * definition.schedule

InitialOccurrence(definition) ==
    IF definition.type = "recurring" THEN now ELSE NextOccurrence(definition, now)

Rescheduled(state) ==
    [state EXCEPT !.status = "scheduled",
                  !.next_run_at = NextOccurrence(state.definition, now)]

Succeeded_Again(state) == Rescheduled(state)

\* nextStateAfterSuccess
Succeeded(state) ==
    IF state.definition.type = "delayed"
    THEN [state EXCEPT !.status = "completed", !.next_run_at = now]
    ELSE Rescheduled(state)

Due(state) == state.status = "scheduled" /\ state.next_run_at <= now

DependencyDue_Late(state) == state.status = "scheduled" /\ state.next_run_at < now
DependencyDue_Early(state) == state.status = "scheduled"

DependencyDue(state) == Due(state)

\* runDueInternal's order: normal before low, then by time.
Before(i, j) ==
    LET left == jobs[i]
        right == jobs[j]
    IN  IF left.definition.priority = right.definition.priority
        THEN left.next_run_at <= right.next_run_at
        ELSE left.definition.priority = "normal"

Orders(S) ==
    {order \in [1 .. Cardinality(S) -> S] :
        \A m, n \in DOMAIN order : m < n => order[m] # order[n] /\ Before(order[m], order[n])}

Depth == Len(pass.chain)
Top == pass.chain[Depth]

OnChain_Never(j) == FALSE
OnChain(j) == \E k \in 1 .. Depth : pass.chain[k].job = j

\* Handlers other than the pass run only while it awaits something.
Awaiting == pass.pc \in {"none", "run", "ran", "not_run"}

Failed(j) == [jobs EXCEPT ![j].status = "failed"]

\* FileJobStore.save makes the directory of the job file, and then writes a
\* temporary file below the job file itself, as if that were a directory.
JobFile == <<"data", "jobs.json">>
TemporaryFile == Append(JobFile, "tmp")
Parent(path) == SubSeq(path, 1, Len(path) - 1)
CanSave == Store = "file" => Parent(TemporaryFile) = Parent(JobFile)

Mishap == faults + crashes < MaxMishaps /\ faults' = faults + 1

\* persist(): a save that fails leaves the file as it was.
Save(ok) ==
    /\ ok => CanSave
    /\ store' = IF ok THEN jobs' ELSE store
    /\ IF ok \/ ~CanSave THEN UNCHANGED faults ELSE Mishap

\* A save that fails throws, which ends the pass.
IfSaved(ok, step) == pass' = IF ok THEN step ELSE NoPass

NoRun == UNCHANGED <<active, aborted, groups, finished, interrupted>>
PassOnly == UNCHANGED <<up, now, crashes, window>>

\* The runJob of the last frame returns.
Returned(outcome) ==
    [pass EXCEPT !.pc = outcome, !.chain = SubSeq(@, 1, Depth - 1)]

----------------------------------------------------------------------------
Init ==
    /\ jobs = [j \in Job |-> Absent]
    /\ store = [j \in Job |-> Absent]
    /\ active = {} /\ aborted = {} /\ groups = {}
    /\ pass = NoPass
    /\ up = FALSE
    /\ now = 0
    /\ faults = 0 /\ crashes = 0
    /\ window = {} /\ interrupted = {}
    /\ finished = {}

\* start(): the file is loaded; what may skip a missed occurrence does.
Start(ok) ==
    /\ ~up
    /\ up' = TRUE
    /\ jobs' = [j \in Job |->
                  IF Due(store[j]) /\ store[j].definition.skip_missed_occurrences
                  THEN Rescheduled(store[j]) ELSE store[j]]
    /\ Save(ok)
    /\ UNCHANGED <<active, aborted, groups, pass, now, crashes, history>>

\* runDue(), also the one that start() ends with.  A call during a pass joins it.
RunDue(order) ==
    /\ up
    /\ pass = NoPass
    /\ pass' = [pass EXCEPT !.pc = "next", !.due = order]
    /\ window' = {j \in Job : Due(jobs[j])}
    /\ interrupted' = {}
    /\ UNCHANGED <<jobs, active, aborted, groups, store, up, now, faults, crashes, finished>>

Register(j, definition, ok) ==
    /\ up /\ Awaiting
    /\ jobs[j] = Absent
    /\ \A k \in DOMAIN definition.dependencies : definition.dependencies[k] # j
    /\ jobs' = [jobs EXCEPT ![j] = [definition |-> definition, status |-> "scheduled",
                                    next_run_at |-> InitialOccurrence(definition)]]
    /\ Save(ok)
    /\ UNCHANGED <<active, aborted, groups, pass, up, now, crashes, history>>

\* cancel(): a running job's controller is aborted, and its runner may notice.
Cancel(j, ok) ==
    /\ up /\ Awaiting
    /\ j \in active \/ jobs[j].status = "scheduled"
    /\ aborted' = IF j \in active THEN aborted \cup {j} ELSE aborted
    /\ interrupted' = IF j \in active THEN interrupted \cup {j} ELSE interrupted
    /\ jobs' = [jobs EXCEPT ![j].status = "cancelled"]
    /\ Save(ok)
    /\ UNCHANGED <<active, groups, pass, up, now, crashes, window, finished>>

----------------------------------------------------------------------------
(* The pass.                                                               *)

\* The dependency the last frame looks at, and the job runJob is called for.
AtDependency ==
    pass.pc = "loop" /\ Top.dependency <= Len(jobs[Top.job].definition.dependencies)
Dependency == jobs[Top.job].definition.dependencies[Top.dependency]
Entered == IF pass.chain = <<>> THEN Head(pass.due) ELSE Dependency

\* runJob goes further than its first checks.
Entering ==
    /\ pass.pc = "enter"
    /\ Entered \notin pass.completed
    /\ jobs[Entered].status = "scheduled"

GoTo(pc) == pass' = [pass EXCEPT !.pc = pc]
NextDependency == pass' = [pass EXCEPT !.pc = "loop", !.chain[Depth].dependency = @ + 1]

\* The loop of runDueInternal, and what runJob does without changing a job.
Walk ==
    /\ \/ pass.pc = "next" /\ pass.due # <<>> /\ GoTo("enter")
       \/ pass.pc = "next" /\ pass.due = <<>> /\ pass' = NoPass
       \/ pass.pc \in {"ran", "not_run"} /\ pass.chain = <<>>
          /\ pass' = [pass EXCEPT !.pc = "next", !.due = Tail(@)]
       \/ pass.pc = "enter" /\ Entered \in pass.completed /\ GoTo("ran")
       \/ pass.pc = "enter" /\ Entered \notin pass.completed
          /\ jobs[Entered].status # "scheduled" /\ GoTo("not_run")
       \/ Entering /\ ~OnChain(Entered)
          /\ pass' = [pass EXCEPT !.pc = "loop",
                                  !.chain = Append(@, [job |-> Entered, dependency |-> 1])]
       \/ AtDependency /\ DependencyDue(jobs[Dependency]) /\ GoTo("enter")
       \/ AtDependency /\ ~DependencyDue(jobs[Dependency])
          /\ jobs[Dependency].status \in {"scheduled", "running", "completed"} /\ NextDependency
       \/ pass.pc = "ran" /\ pass.chain # <<>> /\ NextDependency
    /\ UNCHANGED <<jobs, store, faults>> /\ NoRun /\ PassOnly

\* A job waits for itself, or one of its dependencies cannot run or did not.
Unrunnable(j) ==
    \/ Entering /\ j = Entered /\ OnChain(j)
    \/ /\ j = Top.job
       /\ \/ AtDependency /\ jobs[Dependency].status \in {"absent", "failed", "cancelled"}
          \/ pass.pc = "not_run"

FailJob_NotSaved(j, ok) ==
    /\ ok
    /\ pass.chain # <<>>
    /\ Unrunnable(j)
    /\ jobs' = Failed(j)
    /\ pass' = IF pass.pc = "enter" THEN [pass EXCEPT !.pc = "not_run"]
               ELSE Returned("not_run")
    /\ UNCHANGED <<store, faults>> /\ NoRun /\ PassOnly

FailJob(j, ok) ==
    /\ pass.chain # <<>>
    /\ Unrunnable(j)
    /\ jobs' = Failed(j)
    /\ Save(ok)
    /\ IfSaved(ok, IF pass.pc = "enter" THEN [pass EXCEPT !.pc = "not_run"]
                   ELSE Returned("not_run"))
    /\ NoRun /\ PassOnly

----------------------------------------------------------------------------
(* The run of the job of the last frame.                                   *)

Ready == pass.pc = "loop" /\ ~AtDependency
Group == jobs[Top.job].definition.group

MayBegin_AnyGroup == jobs[Top.job].status = "scheduled"

MayBegin == jobs[Top.job].status = "scheduled" /\ Group \notin groups

\* It was cancelled while a dependency ran, or its group is taken.
CannotRun ==
    /\ Ready /\ ~MayBegin
    /\ pass' = Returned("not_run")
    /\ UNCHANGED <<jobs, store, faults>> /\ NoRun /\ PassOnly

\* The save comes before the try block: when it fails, the controller and the
\* group stay behind.
BeginRun(ok) ==
    /\ Ready /\ MayBegin
    /\ active' = active \cup {Top.job}
    /\ aborted' = aborted \ {Top.job}
    /\ groups' = groups \cup {Group}
    /\ jobs' = [jobs EXCEPT ![Top.job].status = "running"]
    /\ Save(ok)
    /\ IfSaved(ok, [pass EXCEPT !.pc = "run"])
    /\ UNCHANGED <<interrupted, finished>> /\ PassOnly

ReleaseRun_KeepsAborted ==
    /\ active' = active \ {Top.job}
    /\ groups' = groups \ {Group}
    /\ UNCHANGED <<aborted, interrupted>>

\* The finally block.
ReleaseRun ==
    /\ active' = active \ {Top.job}
    /\ aborted' = aborted \ {Top.job}
    /\ groups' = groups \ {Group}
    /\ UNCHANGED interrupted

WasAborted == Top.job \in aborted \/ jobs[Top.job].status = "cancelled"

Delayed == IF jobs[Top.job].definition.type = "delayed" THEN {Top.job} ELSE {}

\* The runner resolves although the job was cancelled: it is scheduled again.
RunAborted ==
    /\ pass.pc = "run"
    /\ WasAborted
    /\ jobs' = [jobs EXCEPT ![Top.job] = Rescheduled(@)]
    /\ Save(TRUE)
    /\ pass' = Returned("not_run")
    /\ ReleaseRun
    /\ UNCHANGED finished /\ PassOnly

RunSucceeds ==
    /\ pass.pc = "run"
    /\ ~WasAborted
    /\ jobs' = [jobs EXCEPT ![Top.job] = Succeeded(@)]
    /\ Save(TRUE)
    /\ pass' = [Returned("ran") EXCEPT !.completed = @ \cup {Top.job}]
    /\ finished' = finished \cup Delayed
    /\ ReleaseRun
    /\ PassOnly

\* The runner resolves, and the save after it fails: the catch block, made for
\* a runner that throws, fails the job.  (Its own save is taken to succeed.)
RunIsNotSaved ==
    /\ pass.pc = "run"
    /\ Mishap
    /\ jobs' = Failed(Top.job)
    /\ store' = jobs'
    /\ pass' = IF WasAborted THEN Returned("not_run")
               ELSE [Returned("not_run") EXCEPT !.completed = @ \cup {Top.job}]
    /\ finished' = IF WasAborted THEN finished ELSE finished \cup Delayed
    /\ ReleaseRun
    /\ PassOnly

RunThrows(ok) ==
    /\ pass.pc = "run"
    /\ jobs' = Failed(Top.job)
    /\ Save(ok)
    /\ IfSaved(ok, Returned("not_run"))
    /\ ReleaseRun
    /\ UNCHANGED finished /\ PassOnly

----------------------------------------------------------------------------
Crash ==
    /\ up
    /\ faults + crashes < MaxMishaps
    /\ crashes' = crashes + 1
    /\ up' = FALSE
    /\ jobs' = [j \in Job |-> Absent]
    /\ active' = {} /\ aborted' = {} /\ groups' = {}
    /\ pass' = NoPass
    /\ UNCHANGED <<store, now, faults, history>>

Tick ==
    /\ now < MaxTime
    /\ now' = now + 1
    /\ UNCHANGED <<memory, store, up, faults, crashes, history>>

PassStep ==
    \/ Walk
    \/ CannotRun
    \/ \E ok \in BOOLEAN : BeginRun(ok) \/ \E j \in Job : FailJob(j, ok)

RunStep ==
    \/ RunAborted \/ RunSucceeds \/ RunIsNotSaved
    \/ \E ok \in BOOLEAN : RunThrows(ok)

Next ==
    \/ \E ok \in BOOLEAN : Start(ok)
    \/ \E order \in Orders({j \in Job : Due(jobs[j])}) : RunDue(order)
    \/ \E j \in Job, ok \in BOOLEAN :
          \/ Cancel(j, ok)
          \/ \E definition \in Definition : Register(j, definition, ok)
    \/ PassStep
    \/ RunStep
    \/ Crash
    \/ Tick

Spec == Init /\ [][Next]_vars

----------------------------------------------------------------------------
TypeOK ==
    /\ jobs \in [Job -> JobState \cup {Absent}]
    /\ store \in [Job -> JobState \cup {Absent}]
    /\ active \subseteq Job /\ aborted \subseteq active
    /\ groups \subseteq {d.group : d \in Definition}
    /\ pass \in Pass
    /\ up \in BOOLEAN
    /\ now \in Nat /\ faults \in Nat /\ crashes \in Nat
    /\ window \subseteq Job /\ interrupted \subseteq Job
    /\ finished \subseteq Job

Runs(j) == pass.pc = "run" /\ Top.job = j

\* Jobs of one group never run at the same time, also when a failed save has
\* left behind the controller of a job that never ended.
GroupsExclude ==
    \A i, j \in active : i # j => jobs[i].definition.group # jobs[j].definition.group

\* When a job runs, each of its dependencies that was due when the pass began
\* has run in the pass with success, unless somebody cancelled its run.
DependenciesFirst ==
    \A j \in Job : Runs(j) =>
        \A k \in DOMAIN jobs[j].definition.dependencies :
            LET d == jobs[j].definition.dependencies[k]
            IN  d \in window \ interrupted => d \in pass.completed

\* A dependency cycle is noticed: no job waits for itself, so every pass ends.
NobodyWaitsForItself ==
    \A m, n \in DOMAIN pass.chain : m # n => pass.chain[m].job # pass.chain[n].job

\* The file holds what memory holds whenever another handler may look, or the
\* process may be killed while it awaits, unless a save has failed.
FileIsCurrent == up /\ Awaiting /\ faults = 0 => store = jobs

\* Through every crash and failing save, a delayed job whose runner has
\* succeeded is never started again.
DelayedJobsSucceedOnce ==
    [][\A j \in finished : Runs(j)' => Runs(j)]_vars

\* A job is started when it is due, unless its run was cancelled in this pass.
StartsWhenDue ==
    [][\A j \in Job : Runs(j)' /\ ~Runs(j) /\ j \notin interrupted =>
          Due(jobs[j])]_vars

\* A cancelled run is rescheduled for its next occurrence: no job is started
\* before it is due, whatever was cancelled in this pass.
CancelledRunWaits ==
    [][\A j \in Job : Runs(j)' /\ ~Runs(j) => Due(jobs[j])]_vars

\* A restart loses no job: one that is shown as running, and so is not run when
\* it is due, has a runner in this process.
NoGhostRun == \A j \in Job : up /\ jobs[j].status = "running" => j \in active
============================================================================
