------------------------ MODULE JobScheduler_proofs ------------------------
(***************************************************************************)
(* What holds of the job scheduler for any jobs, definitions, bounds on    *)
(* time and mishaps.  The invariant says what the stack of runJob calls    *)
(* is, why each job on it is due, and what the file and the set of groups  *)
(* hold of the jobs; four properties follow from it as invariants, two as  *)
(* properties of every step.                                               *)
(***************************************************************************)
EXTENDS JobScheduler, FiniteSetTheorems, SequenceTheorems, TLAPS

Known(j) == jobs[j] # Absent
Dependencies(j) == jobs[j].definition.dependencies

\* The stack of calls: the pass is at a due job, each frame was called for the
\* dependency its caller looks at, and only jobs that are registered are on it.
Linked ==
    \A k \in 1..(Depth - 1) :
        LET caller == pass.chain[k]
        IN  /\ caller.dependency <= Len(Dependencies(caller.job))
            /\ pass.chain[k + 1].job = Dependencies(caller.job)[caller.dependency]

PassShape ==
    /\ ~up => pass = NoPass
    /\ pass.pc = "none" => pass = NoPass
    /\ pass.pc = "next" => pass.chain = <<>>
    /\ pass.pc \notin {"none", "next"} => pass.due # <<>>
    /\ pass.pc \in {"loop", "run"} => pass.chain # <<>>
    /\ \A k \in 1..Depth : Known(pass.chain[k].job)
    /\ Linked
    /\ pass.pc \in {"enter", "ran"} /\ pass.chain # <<>> =>
           Top.dependency <= Len(Dependencies(Top.job))

\* The groups of the jobs that run are taken, each by one of them.
GroupsHeld ==
    /\ ~up => active = {}
    /\ \A j \in active : Known(j) /\ jobs[j].definition.group \in groups
    /\ pass.pc = "run" => Top.job \in active
    /\ GroupsExclude

JobsInv == TypeOK /\ PassShape /\ GroupsHeld /\ NobodyWaitsForItself

----------------------------------------------------------------------------
(* Why a job is run.                                                       *)

\* A job that was due when the pass began still is, has run in it, was
\* cancelled, or has failed.
StillDue(j) ==
    \/ jobs[j].status \in {"failed", "cancelled"}
    \/ jobs[j].status = "running" /\ Runs(j)
    \/ jobs[j].status \in {"scheduled", "completed"} /\ j \in pass.completed
    \/ jobs[j].status = "scheduled" /\ (j \in interrupted \/ jobs[j].next_run_at <= now)

WindowIsDue ==
    pass # NoPass => /\ \A n \in 1..Len(pass.due) : pass.due[n] \in window
                     /\ \A j \in window : StillDue(j)

\* A job on the stack is due as long as it is to be run.
MayRun(j) == jobs[j].status = "scheduled" => j \in interrupted \/ jobs[j].next_run_at <= now

ChainMayRun == \A k \in 1..Depth : MayRun(pass.chain[k].job)
EnteredMayRun == Entering => MayRun(Entered)
AbortedIsInterrupted == pass.pc = "run" /\ WasAborted => Top.job \in interrupted

\* The dependencies a frame has looked at are done.
Done(d) == d \in window \ interrupted => d \in pass.completed

EarlierDone ==
    \A k \in 1..Depth : \A i \in 1..Len(Dependencies(pass.chain[k].job)) :
        i < pass.chain[k].dependency => Done(Dependencies(pass.chain[k].job)[i])
ReturnedIsDone == pass.pc = "ran" /\ pass.chain # <<>> => Dependency \in pass.completed
AllLookedAt == pass.pc = "run" => Top.dependency > Len(Dependencies(Top.job))

PassInv ==
    /\ WindowIsDue
    /\ ChainMayRun /\ EnteredMayRun /\ AbortedIsInterrupted
    /\ EarlierDone /\ ReturnedIsDone /\ AllLookedAt

----------------------------------------------------------------------------
(* What the file holds.                                                    *)
Ended == {"completed", "failed", "cancelled"}

FinishedStay ==
    \A j \in finished : /\ j \notin active
                        /\ store[j].status \in Ended
                        /\ up => jobs[j].status \in Ended

FileFollows == up /\ faults = 0 => store = jobs

----------------------------------------------------------------------------
(* The data.                                                               *)

LEMMA DefinitionTypes ==
  ASSUME NEW d \in Definition
  PROVE  /\ d.dependencies \in Seq(Job) /\ d.schedule \in Nat \ {0}
         /\ d.type \in {"recurring", "cron", "delayed"}
  BY JobAssumption

LEMMA StateTypes ==
  ASSUME NEW state \in JobState
  PROVE  /\ state # Absent /\ state.status \in Status /\ state.next_run_at \in Nat
         /\ state.definition \in Definition /\ state.status # "absent"
         /\ \A status \in Status :
                LET next == [state EXCEPT !.status = status]
                IN  /\ next \in JobState /\ next.definition = state.definition
                    /\ next.status = status /\ next.next_run_at = state.next_run_at
  BY DEF JobState, Status, Absent

LEMMA RescheduledTypes ==
  ASSUME NEW state \in JobState, now \in Nat
  PROVE  /\ Rescheduled(state) \in JobState
         /\ Rescheduled(state).definition = state.definition
         /\ Rescheduled(state).status = "scheduled"
         /\ Succeeded(state) \in JobState
         /\ Succeeded(state).definition = state.definition
         /\ Succeeded(state).status = IF state.definition.type = "delayed" THEN "completed"
                                      ELSE "scheduled"
  <1> DEFINE d == state.definition
             next == NextOccurrence(d, now)
  <1>1. d \in Definition /\ d.schedule \in Nat \ {0} /\ d.type \in {"recurring", "cron", "delayed"}
    BY DefinitionTypes DEF JobState
  <1>2. next \in Nat
    <2>1. now \div d.schedule \in Nat
      BY <1>1
    <2>2. (now \div d.schedule + 1) * d.schedule \in Nat
      BY <1>1, <2>1
    <2> HIDE DEF d
    <2> QED  BY <1>1, <2>2 DEF NextOccurrence
  <1> HIDE DEF next
  <1>3. Rescheduled(state) = [state EXCEPT !.status = "scheduled", !.next_run_at = next]
    BY DEF Rescheduled, next
  <1>4. /\ Rescheduled(state) \in JobState
        /\ Rescheduled(state).definition = state.definition
        /\ Rescheduled(state).status = "scheduled"
    BY <1>2, <1>3 DEF JobState, Status
  <1>5. CASE d.type = "delayed"
    <2>1. Succeeded(state) = [state EXCEPT !.status = "completed", !.next_run_at = now]
      BY <1>5 DEF Succeeded
    <2> QED  BY <1>4, <1>5, <2>1 DEF JobState, Status
  <1>6. CASE d.type # "delayed"
    <2>1. Succeeded(state) = Rescheduled(state)
      BY <1>6 DEF Succeeded
    <2> QED  BY <1>4, <1>6, <2>1
  <1> QED  BY <1>5, <1>6

JobMap == [Job -> JobState \cup {Absent}]

\* A step changes one job.
ChangesTo(j, state) == /\ jobs' \in JobMap
                       /\ \A i \in Job : jobs'[i] = IF i = j THEN state ELSE jobs[i]

LEMMA OneJobChanges ==
  ASSUME NEW j \in Job, NEW state \in JobState, TypeOK, jobs' = [jobs EXCEPT ![j] = state]
  PROVE  ChangesTo(j, state)
  BY DEF TypeOK, ChangesTo, JobMap

LEMMA StatusChanges ==
  ASSUME NEW j \in Job, NEW status \in Status, TypeOK, Known(j),
         jobs' = [jobs EXCEPT ![j].status = status]
  PROVE  /\ ChangesTo(j, [jobs[j] EXCEPT !.status = status])
         /\ jobs[j] \in JobState /\ [jobs[j] EXCEPT !.status = status] \in JobState
  <1>1. jobs[j] \in JobState
    BY DEF TypeOK, Known
  <1>2. [jobs[j] EXCEPT !.status = status] \in JobState
    BY <1>1, StateTypes
  <1>3. jobs' = [jobs EXCEPT ![j] = [jobs[j] EXCEPT !.status = status]]
    BY DEF TypeOK
  <1> QED  BY <1>1, <1>2, <1>3, OneJobChanges

LEMMA Saved ==
  ASSUME NEW ok \in BOOLEAN, Save(ok), TypeOK, jobs' \in JobMap
  PROVE  /\ store' \in JobMap /\ faults' \in Nat /\ faults' >= faults
         /\ store' \in {jobs', store}
         /\ CanSave /\ faults' = faults => store' = jobs'
  BY DEF Save, Mishap, TypeOK, JobMap

----------------------------------------------------------------------------
(* The pass.                                                               *)

LEMMA PassTypes ==
  ASSUME NEW p \in Pass
  PROVE  /\ p.due \in Seq(Job) /\ p.chain \in Seq(Frame) /\ p.completed \subseteq Job
         /\ Len(p.chain) \in Nat
         /\ \A k \in 1..Len(p.chain) : p.chain[k] \in Frame /\ p.chain[k].job \in Job
                                       /\ p.chain[k].dependency \in Nat \ {0}
         /\ \A k \in 1..Len(p.due) : p.due[k] \in Job
         /\ p.chain = <<>> <=> Len(p.chain) = 0
         /\ NoPass \in Pass /\ NoPass.pc = "none" /\ NoPass.chain = <<>> /\ NoPass.due = <<>>
         /\ NoPass.completed = {}
  <1>1. p.due \in Seq(Job) /\ p.chain \in Seq(Frame) /\ p.completed \subseteq Job
    BY DEF Pass
  <1>2. NoPass \in Pass
    BY DEF NoPass, Pass
  <1>3. p.chain = <<>> <=> Len(p.chain) = 0
    BY <1>1, EmptySeq
  <1>4. \A k \in 1..Len(p.chain) : p.chain[k] \in Frame
    BY <1>1
  <1>5. \A frame \in Frame : frame.job \in Job /\ frame.dependency \in Nat \ {0}
    BY DEF Frame
  <1>6. Len(p.chain) \in Nat /\ \A k \in 1..Len(p.due) : p.due[k] \in Job
    BY <1>1
  <1>7. NoPass.pc = "none" /\ NoPass.chain = <<>> /\ NoPass.due = <<>> /\ NoPass.completed = {}
    BY DEF NoPass
  <1> QED  BY <1>1, <1>2, <1>3, <1>4, <1>5, <1>6, <1>7

\* GoTo
LEMMA GoesTo ==
  ASSUME TypeOK, NEW pc \in {"none", "next", "enter", "loop", "run", "ran", "not_run"},
         pass' = [pass EXCEPT !.pc = pc]
  PROVE  /\ pass' \in Pass /\ pass'.pc = pc /\ pass'.due = pass.due
         /\ pass'.chain = pass.chain /\ pass'.completed = pass.completed
  BY DEF TypeOK, Pass

LEMMA Returns ==
  ASSUME TypeOK, pass.chain # <<>>, NEW outcome \in {"ran", "not_run"},
         NEW D \in SUBSET Job, pass' = [Returned(outcome) EXCEPT !.completed = D]
  PROVE  /\ pass' \in Pass /\ pass'.pc = outcome /\ pass'.due = pass.due
         /\ pass'.completed = D
         /\ Len(pass'.chain) = Depth - 1
         /\ \A k \in 1..(Depth - 1) : pass'.chain[k] = pass.chain[k]
  <1>1. pass \in Pass /\ pass.chain \in Seq(Frame)
    BY DEF TypeOK, Pass
  <1> DEFINE chain == SubSeq(pass.chain, 1, Depth - 1)
  <1>2. /\ chain \in Seq(Frame) /\ Len(chain) = Depth - 1
        /\ \A k \in 1..(Depth - 1) : chain[k] = pass.chain[k]
    BY <1>1 DEF Depth
  <1> HIDE DEF chain
  <1>3. pass' = [[pass EXCEPT !.pc = outcome, !.chain = chain] EXCEPT !.completed = D]
    BY <1>1 DEF Returned, Pass, chain
  <1>4. /\ pass' \in Pass /\ pass'.pc = outcome /\ pass'.due = pass.due
        /\ pass'.completed = D /\ pass'.chain = chain
    BY <1>1, <1>2, <1>3 DEF Pass
  <1> QED  BY <1>2, <1>4

LEMMA ReturnsOnly ==
  ASSUME TypeOK, NEW outcome \in {"ran", "not_run"}, pass' = Returned(outcome)
  PROVE  pass' = [Returned(outcome) EXCEPT !.completed = pass.completed]
  <1>1. pass \in Pass
    BY DEF TypeOK
  <1> QED  BY <1>1 DEF Returned, Pass

LEMMA TurnsToNext ==
  ASSUME TypeOK, pass.chain # <<>>, NextDependency
  PROVE  /\ pass' \in Pass /\ pass'.pc = "loop" /\ pass'.due = pass.due
         /\ pass'.completed = pass.completed /\ Len(pass'.chain) = Depth
         /\ \A k \in 1..(Depth - 1) : pass'.chain[k] = pass.chain[k]
         /\ pass'.chain[Depth].job = Top.job
         /\ pass'.chain[Depth].dependency = Top.dependency + 1
  <1>1. pass \in Pass /\ pass.chain \in Seq(Frame) /\ Depth \in Nat /\ Depth > 0
    BY DEF TypeOK, Pass, Depth
  <1>2. Top \in Frame
    BY <1>1 DEF Top, Depth
  <1> DEFINE top == [Top EXCEPT !.dependency = Top.dependency + 1]
             chain == [pass.chain EXCEPT ![Depth] = top]
  <1>3. top \in Frame /\ top.job = Top.job /\ top.dependency = Top.dependency + 1
    BY <1>2 DEF Frame
  <1> HIDE DEF top
  <1>4. /\ chain \in Seq(Frame) /\ Len(chain) = Depth /\ chain[Depth] = top
        /\ \A k \in 1..(Depth - 1) : chain[k] = pass.chain[k]
    BY <1>1, <1>3 DEF Depth
  <1>5. pass' = [pass EXCEPT !.pc = "loop", !.chain = chain]
    BY <1>1 DEF NextDependency, Pass, Top, top
  <1> HIDE DEF chain
  <1>6. /\ pass' \in Pass /\ pass'.pc = "loop" /\ pass'.due = pass.due
        /\ pass'.completed = pass.completed /\ pass'.chain = chain
    BY <1>1, <1>4, <1>5 DEF Pass
  <1> QED  BY <1>3, <1>4, <1>6

LEMMA Pushes ==
  ASSUME TypeOK, NEW j \in Job,
         pass' = [pass EXCEPT !.pc = "loop", !.chain = Append(@, [job |-> j, dependency |-> 1])]
  PROVE  /\ pass' \in Pass /\ pass'.pc = "loop" /\ pass'.due = pass.due
         /\ pass'.completed = pass.completed /\ Len(pass'.chain) = Depth + 1
         /\ \A k \in 1..Depth : pass'.chain[k] = pass.chain[k]
         /\ pass'.chain[Depth + 1].job = j
         /\ pass'.chain[Depth + 1].dependency = 1
  <1>1. pass \in Pass /\ pass.chain \in Seq(Frame)
    BY DEF TypeOK, Pass
  <1> DEFINE frame == [job |-> j, dependency |-> 1]
             chain == Append(pass.chain, frame)
  <1>2. frame \in Frame
    BY DEF Frame
  <1> HIDE DEF frame
  <1>3. /\ chain \in Seq(Frame) /\ Len(chain) = Depth + 1 /\ chain[Depth + 1] = frame
        /\ \A k \in 1..Depth : chain[k] = pass.chain[k]
    BY <1>1, <1>2 DEF Depth
  <1>4. pass' = [pass EXCEPT !.pc = "loop", !.chain = chain]
    BY <1>1 DEF Pass, frame
  <1> HIDE DEF chain
  <1>5. /\ pass' \in Pass /\ pass'.pc = "loop" /\ pass'.due = pass.due
        /\ pass'.completed = pass.completed /\ pass'.chain = chain
    BY <1>1, <1>3, <1>4 DEF Pass
  <1>6. frame.job = j /\ frame.dependency = 1
    BY DEF frame
  <1>7. pass'.chain[Depth + 1] = frame
    BY <1>3, <1>5
  <1> QED  BY <1>3, <1>5, <1>6, <1>7
----------------------------------------------------------------------------
(* The stack, after each kind of step.                                     *)

\* No step but a crash takes a registered job away or gives it another definition.
DefinitionsKept ==
    \A j \in Job : Known(j) => jobs'[j] # Absent /\ jobs'[j].definition = jobs[j].definition

StackOK == PassShape /\ NobodyWaitsForItself

LEMMA OnStack ==
  ASSUME JobsInv
  PROVE  /\ pass \in Pass /\ Depth \in Nat /\ DOMAIN pass.chain = 1..Depth
         /\ pass.chain = <<>> <=> Depth = 0
         /\ \A k \in 1..Depth : pass.chain[k].job \in Job /\ Known(pass.chain[k].job)
                                /\ jobs[pass.chain[k].job] \in JobState
                                /\ pass.chain[k].dependency \in Nat \ {0}
         /\ pass.chain # <<>> => Depth > 0 /\ Top = pass.chain[Depth] /\ Top.job \in Job
                                 /\ Known(Top.job) /\ jobs[Top.job] \in JobState
  <1>1. pass \in Pass
    BY DEF JobsInv, TypeOK
  <1>2. /\ Depth \in Nat /\ DOMAIN pass.chain = 1..Depth
        /\ pass.chain = <<>> <=> Depth = 0
        /\ \A k \in 1..Depth : pass.chain[k].job \in Job /\ pass.chain[k].dependency \in Nat \ {0}
    BY <1>1, PassTypes DEF Depth, Pass
  <1>3. \A k \in 1..Depth : Known(pass.chain[k].job)
    BY DEF JobsInv, PassShape
  <1>4. \A j \in Job : Known(j) => jobs[j] \in JobState
    BY DEF JobsInv, TypeOK, Known
  <1>5. pass.chain # <<>> => Depth > 0 /\ Depth \in 1..Depth /\ Top = pass.chain[Depth]
    BY <1>2 DEF Top
  <1> QED  BY <1>1, <1>2, <1>3, <1>4, <1>5

\* What the jobs of the stack were registered with stays.
LEMMA StackKept ==
  ASSUME JobsInv, DefinitionsKept
  PROVE  \A k \in 1..Depth :
             /\ jobs'[pass.chain[k].job] # Absent
             /\ jobs'[pass.chain[k].job].definition.dependencies =
                    Dependencies(pass.chain[k].job)
  BY OnStack DEF DefinitionsKept, Dependencies

LEMMA StackStays ==
  ASSUME JobsInv, TypeOK', DefinitionsKept, up', pass'.due # <<>>, pass'.chain = pass.chain,
         pass'.pc \in {"enter", "loop", "run", "ran", "not_run"},
         pass'.pc \in {"loop", "run"} => pass.chain # <<>>,
         pass'.pc \in {"enter", "ran"} /\ pass.chain # <<>> =>
             Top.dependency <= Len(Dependencies(Top.job))
  PROVE  StackOK'
  <1>1. /\ Depth \in Nat /\ Depth' = Depth
        /\ pass.chain = <<>> <=> Depth = 0
    BY OnStack DEF Depth
  <1>2. \A k \in 1..Depth :
             /\ jobs'[pass.chain[k].job] # Absent
             /\ jobs'[pass.chain[k].job].definition.dependencies =
                    Dependencies(pass.chain[k].job)
    BY StackKept
  <1>3. Linked'
    <2>1. \A k \in 1..(Depth - 1) : k \in 1..Depth
      BY <1>1
    <2> QED  BY <1>1, <1>2, <2>1 DEF JobsInv, PassShape, Linked, Dependencies
  <1>4. pass.chain # <<>> => Top' = Top /\ Depth \in 1..Depth /\ Top = pass.chain[Depth]
    BY <1>1 DEF Top
  <1>5. NobodyWaitsForItself'
    BY DEF JobsInv, NobodyWaitsForItself
  <1>6. pass.chain # <<>> => jobs'[Top.job].definition.dependencies = Dependencies(Top.job)
    BY <1>2, <1>4
  <1>7. PassShape'
    <2>1. \A k \in 1..Depth' : jobs'[pass'.chain[k].job] # Absent
      BY <1>1, <1>2
    <2> QED  BY <1>3, <1>4, <1>6, <2>1 DEF PassShape, Dependencies, Known
  <1> QED  BY <1>5, <1>7 DEF StackOK

LEMMA StackIsEmpty ==
  ASSUME TypeOK', pass'.chain = <<>>, ~up' => pass' = NoPass,
         pass'.pc = "none" => pass' = NoPass,
         pass'.pc \notin {"none", "next"} => pass'.due # <<>>,
         pass'.pc \notin {"loop", "run"}
  PROVE  StackOK'
  <1>1. Depth' = 0
    BY DEF Depth
  <1> QED  BY <1>1 DEF StackOK, PassShape, Linked, NobodyWaitsForItself

LEMMA StackPops ==
  ASSUME JobsInv, TypeOK', DefinitionsKept, up', pass.chain # <<>>,
         pass.pc \notin {"none", "next"},
         pass'.pc \in {"ran", "not_run"}, pass'.due = pass.due, Len(pass'.chain) = Depth - 1,
         \A k \in 1..(Depth - 1) : pass'.chain[k] = pass.chain[k]
  PROVE  /\ StackOK'
         /\ pass'.chain # <<>> => Dependency' = Top.job
  <1>1. /\ Depth \in Nat /\ Depth > 0 /\ Depth' = Depth - 1
        /\ pass'.chain = <<>> <=> Depth' = 0
    <2>1. pass' \in Pass
      BY DEF TypeOK
    <2> QED  BY <2>1, OnStack, PassTypes DEF Depth
  <1>2. \A k \in 1..Depth :
             /\ jobs'[pass.chain[k].job] # Absent
             /\ jobs'[pass.chain[k].job].definition.dependencies =
                    Dependencies(pass.chain[k].job)
    BY StackKept
  <1>3. \A k \in 1..Depth' : pass'.chain[k] = pass.chain[k] /\ k \in 1..Depth
    BY <1>1
  <1>4. Linked'
    <2> SUFFICES ASSUME NEW k \in 1..(Depth' - 1)
                 PROVE  /\ pass'.chain[k].dependency <=
                               Len(jobs'[pass'.chain[k].job].definition.dependencies)
                        /\ pass'.chain[k + 1].job =
                               jobs'[pass'.chain[k].job].definition.dependencies
                                   [pass'.chain[k].dependency]
      BY DEF Linked, Dependencies
    <2>1. k \in 1..Depth /\ k \in 1..Depth' /\ k + 1 \in 1..Depth' /\ k \in 1..(Depth - 1)
      BY <1>1
    <2>2. pass'.chain[k] = pass.chain[k] /\ pass'.chain[k + 1] = pass.chain[k + 1]
      BY <1>3, <2>1
    <2>3. /\ pass.chain[k].dependency <= Len(Dependencies(pass.chain[k].job))
          /\ pass.chain[k + 1].job =
                 Dependencies(pass.chain[k].job)[pass.chain[k].dependency]
      BY <2>1 DEF JobsInv, PassShape, Linked
    <2> QED  BY <1>2, <2>1, <2>2, <2>3
  <1>5. ASSUME pass'.chain # <<>>
        PROVE  /\ Top'.dependency <= Len(jobs'[Top'.job].definition.dependencies)
               /\ Dependency' = Top.job
    <2>1. Depth - 1 \in 1..(Depth - 1) /\ Depth - 1 \in 1..Depth' /\ Depth - 1 + 1 = Depth
          /\ Depth - 1 \in 1..Depth
      BY <1>1, <1>5
    <2> DEFINE caller == pass.chain[Depth - 1]
    <2>2. Top' = caller
      BY <1>1, <1>3, <2>1 DEF Top
    <2>3. /\ caller.dependency <= Len(Dependencies(caller.job))
          /\ Top.job = Dependencies(caller.job)[caller.dependency]
      BY <2>1 DEF JobsInv, PassShape, Linked, Top
    <2>4. jobs'[caller.job].definition.dependencies = Dependencies(caller.job)
      BY <1>2, <2>1
    <2>5. Dependency' = jobs'[Top'.job].definition.dependencies[Top'.dependency]
      BY DEF Dependency
    <2> HIDE DEF caller
    <2> QED  BY <2>2, <2>3, <2>4, <2>5
  <1>6. NobodyWaitsForItself'
    <2>1. DOMAIN pass'.chain = 1..Depth' /\ DOMAIN pass.chain = 1..Depth
      BY <1>1, OnStack DEF TypeOK, Pass, Depth
    <2> QED  BY <1>3, <2>1 DEF JobsInv, NobodyWaitsForItself
  <1>7. PassShape'
    <2>1. \A k \in 1..Depth' : jobs'[pass'.chain[k].job] # Absent
      BY <1>2, <1>3
    <2>2. pass.due # <<>>
      BY DEF JobsInv, PassShape
    <2> QED  BY <1>4, <1>5, <2>1, <2>2 DEF PassShape, Dependencies, Known
  <1> QED  BY <1>5, <1>6, <1>7 DEF StackOK

LEMMA StackTurns ==
  ASSUME JobsInv, TypeOK', DefinitionsKept, up', pass.chain # <<>>,
         pass.pc \notin {"none", "next"},
         pass'.pc = "loop", pass'.due = pass.due, Len(pass'.chain) = Depth,
         \A k \in 1..(Depth - 1) : pass'.chain[k] = pass.chain[k],
         pass'.chain[Depth].job = Top.job
  PROVE  StackOK'
  <1>1. Depth \in Nat /\ Depth > 0 /\ Depth' = Depth /\ Top = pass.chain[Depth]
    BY OnStack DEF Depth
  <1>2. pass'.chain # <<>>
    BY <1>1, PassTypes DEF TypeOK
  <1>3. \A k \in 1..Depth :
             /\ jobs'[pass.chain[k].job] # Absent
             /\ jobs'[pass.chain[k].job].definition.dependencies =
                    Dependencies(pass.chain[k].job)
    BY StackKept
  <1>4. \A k \in 1..Depth : pass'.chain[k].job = pass.chain[k].job
    <2>1. \A k \in 1..Depth : k \in 1..(Depth - 1) \/ k = Depth
      BY <1>1
    <2> QED  BY <1>1, <2>1
  <1>5. Linked'
    <2> SUFFICES ASSUME NEW k \in 1..(Depth - 1)
                 PROVE  /\ pass'.chain[k].dependency <=
                               Len(jobs'[pass'.chain[k].job].definition.dependencies)
                        /\ pass'.chain[k + 1].job =
                               jobs'[pass'.chain[k].job].definition.dependencies
                                   [pass'.chain[k].dependency]
      BY <1>1 DEF Linked, Dependencies
    <2>1. k \in 1..Depth /\ k + 1 \in 1..Depth
      BY <1>1
    <2>2. pass'.chain[k] = pass.chain[k] /\ pass'.chain[k + 1].job = pass.chain[k + 1].job
      BY <1>4, <2>1
    <2>3. /\ pass.chain[k].dependency <= Len(Dependencies(pass.chain[k].job))
          /\ pass.chain[k + 1].job =
                 Dependencies(pass.chain[k].job)[pass.chain[k].dependency]
      BY DEF JobsInv, PassShape, Linked
    <2> QED  BY <1>3, <2>1, <2>2, <2>3
  <1>6. NobodyWaitsForItself'
    <2>1. DOMAIN pass.chain = 1..Depth
      BY OnStack
    <2>2. DOMAIN pass'.chain = 1..Depth
      BY DEF TypeOK, Pass
    <2> QED  BY <1>4, <2>1, <2>2 DEF JobsInv, NobodyWaitsForItself
  <1>7. PassShape'
    <2>1. \A k \in 1..Depth' : jobs'[pass'.chain[k].job] # Absent
      BY <1>1, <1>3, <1>4
    <2>2. pass.due # <<>>
      BY DEF JobsInv, PassShape
    <2> QED  BY <1>2, <1>5, <2>1, <2>2 DEF PassShape, Known
  <1> QED  BY <1>6, <1>7 DEF StackOK

LEMMA StackGrows ==
  ASSUME JobsInv, TypeOK', DefinitionsKept, up', pass.pc = "enter",
         NEW j \in Job, Known(j), ~OnChain(j), pass.chain # <<>> => j = Dependency,
         pass'.pc = "loop", pass'.due = pass.due, Len(pass'.chain) = Depth + 1,
         \A k \in 1..Depth : pass'.chain[k] = pass.chain[k],
         pass'.chain[Depth + 1].job = j
  PROVE  StackOK'
  <1>1. /\ Depth \in Nat /\ Depth' = Depth + 1
        /\ pass.chain = <<>> <=> Depth = 0
    BY OnStack DEF Depth
  <1>2. pass'.chain # <<>>
    BY <1>1, PassTypes DEF TypeOK
  <1>3. \A k \in 1..Depth :
             /\ jobs'[pass.chain[k].job] # Absent
             /\ jobs'[pass.chain[k].job].definition.dependencies =
                    Dependencies(pass.chain[k].job)
    BY StackKept
  <1>4. jobs'[j] # Absent
    BY DEF DefinitionsKept
  <1>5. ASSUME Depth > 0
        PROVE  /\ Top.dependency <= Len(Dependencies(Top.job))
               /\ j = Dependencies(Top.job)[Top.dependency]
    BY <1>1, <1>5 DEF JobsInv, PassShape, Dependency, Dependencies
  <1>6. ASSUME NEW k \in 1..Depth
        PROVE  /\ pass.chain[k].dependency <= Len(Dependencies(pass.chain[k].job))
               /\ pass'.chain[k + 1].job =
                      Dependencies(pass.chain[k].job)[pass.chain[k].dependency]
    <2>1. CASE k = Depth
      <3>1. Depth > 0 /\ pass.chain[k] = Top /\ pass'.chain[k + 1].job = j
        BY <1>1, <2>1 DEF Top
      <3> QED  BY <1>5, <3>1
    <2>2. CASE k # Depth
      <3>1. k \in 1..(Depth - 1) /\ k + 1 \in 1..Depth
        BY <1>1, <2>2
      <3>2. pass'.chain[k + 1] = pass.chain[k + 1]
        BY <3>1
      <3> QED  BY <3>1, <3>2 DEF JobsInv, PassShape, Linked
    <2> QED  BY <2>1, <2>2
  <1>7. Linked'
    <2>1. Depth' - 1 = Depth
      BY <1>1
    <2>2. \A k \in 1..Depth : pass'.chain[k] = pass.chain[k]
      OBVIOUS
    <2>3. \A k \in 1..Depth : jobs'[pass'.chain[k].job].definition.dependencies =
                                  Dependencies(pass.chain[k].job)
      BY <1>3, <2>2
    <2>4. \A k \in 1..Depth :
              /\ pass'.chain[k].dependency <= Len(Dependencies(pass.chain[k].job))
              /\ pass'.chain[k + 1].job =
                     Dependencies(pass.chain[k].job)[pass'.chain[k].dependency]
      BY <1>6, <2>2
    <2> QED  BY <2>1, <2>3, <2>4 DEF Linked, Dependencies
  <1>8. \A k \in 1..(Depth + 1) : k \in 1..Depth \/ k = Depth + 1
    BY <1>1
  <1>9. NobodyWaitsForItself'
    <2>1. DOMAIN pass'.chain = 1..(Depth + 1) /\ DOMAIN pass.chain = 1..Depth
      BY <1>1, OnStack DEF TypeOK, Pass
    <2>2. \A k \in 1..Depth : pass.chain[k].job # j
      BY DEF OnChain
    <2> QED  BY <1>8, <2>1, <2>2 DEF JobsInv, NobodyWaitsForItself
  <1>10. PassShape'
    <2>1. \A k \in 1..Depth' : jobs'[pass'.chain[k].job] # Absent
      BY <1>1, <1>3, <1>4, <1>8
    <2>2. pass.due # <<>>
      BY DEF JobsInv, PassShape
    <2> QED  BY <1>2, <1>7, <2>1, <2>2 DEF PassShape, Known
  <1> QED  BY <1>9, <1>10 DEF StackOK

LEMMA NoStack ==
  ASSUME TypeOK', pass' = NoPass
  PROVE  StackOK'
  <1>1. NoPass.chain = <<>> /\ NoPass.pc = "none"
    BY DEF NoPass
  <1> QED  BY <1>1, StackIsEmpty

LEMMA StackUnchanged ==
  ASSUME JobsInv, TypeOK', DefinitionsKept, up', pass' = pass
  PROVE  StackOK'
  <1>1. pass.pc = "none" \/ pass.pc = "next" => pass.chain = <<>>
    BY DEF JobsInv, PassShape, NoPass
  <1>2. pass.pc \in {"none", "next", "enter", "loop", "run", "ran", "not_run"}
    BY DEF JobsInv, TypeOK, Pass
  <1>3. CASE pass.pc \in {"none", "next"}
    BY <1>1, <1>3, StackIsEmpty DEF JobsInv, PassShape
  <1>4. CASE pass.pc \notin {"none", "next"}
    BY <1>2, <1>4, StackStays DEF JobsInv, PassShape
  <1> QED  BY <1>3, <1>4

LEMMA NothingRedefined ==
  ASSUME jobs' = jobs
  PROVE  DefinitionsKept
  BY DEF DefinitionsKept, Known

LEMMA OneRedefined ==
  ASSUME NEW j \in Job, NEW state \in JobState, ChangesTo(j, state),
         Known(j) => state.definition = jobs[j].definition
  PROVE  DefinitionsKept
  BY StateTypes DEF DefinitionsKept, ChangesTo, Known

----------------------------------------------------------------------------
(* The groups, after each kind of step.                                    *)

LEMMA GroupsStay ==
  ASSUME JobsInv, DefinitionsKept, active' = active, groups' = groups, up',
         pass'.pc = "run" => pass' = pass
  PROVE  GroupsHeld'
  <1>1. \A j \in active : /\ jobs'[j] # Absent /\ jobs'[j].definition = jobs[j].definition
                          /\ jobs[j].definition.group \in groups
    BY DEF JobsInv, TypeOK, GroupsHeld, DefinitionsKept
  <1>2. pass'.pc = "run" => Top' \in {Top} /\ Top.job \in active
    BY DEF JobsInv, GroupsHeld, Top, Depth
  <1>3. \A i, j \in active : i # j => jobs[i].definition.group # jobs[j].definition.group
    BY DEF JobsInv, GroupsHeld, GroupsExclude
  <1> QED  BY <1>1, <1>2, <1>3 DEF GroupsHeld, GroupsExclude, Known

LEMMA GroupsReleased ==
  ASSUME JobsInv, DefinitionsKept, pass.pc = "run", ReleaseRun, up', pass'.pc # "run"
  PROVE  GroupsHeld' /\ Top.job \in active /\ Known(Top.job)
  <1>1. \A j \in active : /\ jobs'[j] # Absent /\ jobs'[j].definition = jobs[j].definition
                          /\ jobs[j].definition.group \in groups
    BY DEF JobsInv, TypeOK, GroupsHeld, DefinitionsKept
  <1>2. Top.job \in active /\ Known(Top.job)
    BY DEF JobsInv, GroupsHeld
  <1>3. \A i, j \in active : i # j => jobs[i].definition.group # jobs[j].definition.group
    BY DEF JobsInv, GroupsHeld, GroupsExclude
  <1>4. active' = active \ {Top.job} /\ groups' = groups \ {jobs[Top.job].definition.group}
    BY DEF ReleaseRun, Group
  <1> QED  BY <1>1, <1>2, <1>3, <1>4 DEF GroupsHeld, GroupsExclude, Known

----------------------------------------------------------------------------
(* The actions.                                                            *)

LEMMA InitKeeps ==
  ASSUME Init
  PROVE  JobsInv
  <1>1. NoPass \in Pass /\ NoPass.pc = "none" /\ NoPass.chain = <<>> /\ NoPass.due = <<>>
    BY DEF NoPass, Pass
  <1>2. Depth = 0
    BY <1>1 DEF Init, Depth
  <1>3. TypeOK
    BY <1>1 DEF Init, TypeOK
  <1>4. PassShape /\ NobodyWaitsForItself
    BY <1>1, <1>2 DEF Init, PassShape, Linked, NobodyWaitsForItself
  <1>5. GroupsHeld
    BY <1>1 DEF Init, GroupsHeld, GroupsExclude
  <1> QED  BY <1>3, <1>4, <1>5 DEF JobsInv

LEMMA StartKeeps ==
  ASSUME JobsInv, NEW ok \in BOOLEAN, Start(ok)
  PROVE  JobsInv'
  <1>1. jobs' \in JobMap
    <2>1. \A j \in Job : Due(store[j]) => store[j] \in JobState
      BY DEF JobsInv, TypeOK, Due, Absent
    <2>2. \A j \in Job : Due(store[j]) => Rescheduled(store[j]) \in JobState
      BY <2>1, RescheduledTypes DEF JobsInv, TypeOK
    <2> QED  BY <2>2 DEF Start, JobMap, JobsInv, TypeOK
  <1>2. store' \in JobMap /\ faults' \in Nat
    BY <1>1, Saved DEF Start, JobsInv
  <1>3. TypeOK'
    BY <1>1, <1>2 DEF Start, JobsInv, TypeOK, JobMap, history
  <1>4. pass' = NoPass /\ active' = {} /\ up'
    BY DEF Start, JobsInv, PassShape, GroupsHeld
  <1>5. StackOK'
    BY <1>3, <1>4, NoStack
  <1>6. GroupsHeld'
    BY <1>4 DEF GroupsHeld, GroupsExclude, NoPass
  <1> QED  BY <1>3, <1>5, <1>6 DEF JobsInv, StackOK

LEMMA OrderTypes ==
  ASSUME NEW S \in SUBSET Job, NEW order \in Orders(S)
  PROVE  /\ order \in Seq(Job) /\ Len(order) \in Nat
         /\ \A n \in 1..Len(order) : order[n] \in S
  <1>1. IsFiniteSet(S)
    BY JobAssumption, FS_Subset
  <1>2. Cardinality(S) \in Nat
    BY <1>1, FS_CardinalityType
  <1>3. order \in [1..Cardinality(S) -> S]
    BY DEF Orders
  <1> QED  BY <1>2, <1>3

LEMMA RunDueKeeps ==
  ASSUME JobsInv, NEW order \in Orders({j \in Job : Due(jobs[j])}), RunDue(order)
  PROVE  /\ JobsInv' /\ pass'.pc = "next" /\ pass'.chain = <<>> /\ pass'.completed = {}
         /\ \A n \in 1..Len(pass'.due) : pass'.due[n] \in window'
  <1>1. order \in Seq(Job) /\ \A n \in 1..Len(order) : order[n] \in {j \in Job : Due(jobs[j])}
    BY OrderTypes
  <1>2. pass' \in Pass /\ pass'.pc = "next" /\ pass'.chain = <<>> /\ pass'.completed = {}
        /\ pass'.due = order
    <2>1. pass' = [pc |-> "next", due |-> order, chain |-> <<>>, completed |-> {}]
      BY DEF RunDue, NoPass
    <2>2. <<>> \in Seq(Frame)
      OBVIOUS
    <2> QED  BY <1>1, <2>1, <2>2 DEF Pass
  <1>3. TypeOK'
    BY <1>2 DEF RunDue, JobsInv, TypeOK
  <1>4. up'
    BY DEF RunDue
  <1>5. StackOK'
    BY <1>2, <1>3, <1>4, StackIsEmpty
  <1>6. GroupsHeld'
    BY <1>2, <1>4, NothingRedefined, GroupsStay DEF RunDue
  <1> QED  BY <1>1, <1>2, <1>3, <1>5, <1>6 DEF JobsInv, StackOK, RunDue

LEMMA RegisterKeeps ==
  ASSUME JobsInv, NEW j \in Job, NEW definition \in Definition, NEW ok \in BOOLEAN,
         Register(j, definition, ok)
  PROVE  /\ JobsInv' /\ DefinitionsKept
         /\ ChangesTo(j, [definition |-> definition, status |-> "scheduled",
                          next_run_at |-> InitialOccurrence(definition)])
  <1> DEFINE state == [definition |-> definition, status |-> "scheduled",
                       next_run_at |-> InitialOccurrence(definition)]
  <1>1. NextOccurrence(definition, now) \in Nat
    <2>1. /\ definition.schedule \in Nat \ {0} /\ now \in Nat
          /\ definition.type \in {"recurring", "cron", "delayed"}
      BY DefinitionTypes DEF JobsInv, TypeOK
    <2>2. now \div definition.schedule \in Nat
      BY <2>1
    <2>3. (now \div definition.schedule + 1) * definition.schedule \in Nat
      BY <2>1, <2>2
    <2> QED  BY <2>1, <2>3 DEF NextOccurrence
  <1>2. state \in JobState
    BY <1>1 DEF InitialOccurrence, JobState, Status, JobsInv, TypeOK
  <1>3. ChangesTo(j, state)
    BY <1>2, OneJobChanges DEF Register, JobsInv
  <1>4. DefinitionsKept
    BY <1>2, <1>3, OneRedefined DEF Register, Known
  <1> HIDE DEF state
  <1>5. store' \in JobMap /\ faults' \in Nat
    BY <1>3, Saved DEF Register, JobsInv, ChangesTo
  <1>6. TypeOK'
    BY <1>3, <1>5 DEF Register, JobsInv, TypeOK, JobMap, ChangesTo, history
  <1>7. up' /\ pass' = pass /\ active' = active /\ groups' = groups
    BY DEF Register
  <1> QED  BY <1>3, <1>4, <1>6, <1>7, StackUnchanged, GroupsStay DEF JobsInv, StackOK, state

LEMMA CancelKeeps ==
  ASSUME JobsInv, NEW j \in Job, NEW ok \in BOOLEAN, Cancel(j, ok)
  PROVE  /\ JobsInv' /\ DefinitionsKept /\ Known(j)
         /\ ChangesTo(j, [jobs[j] EXCEPT !.status = "cancelled"])
  <1>1. Known(j)
    BY DEF Cancel, JobsInv, GroupsHeld, Known, Absent
  <1>2. /\ ChangesTo(j, [jobs[j] EXCEPT !.status = "cancelled"])
        /\ jobs[j] \in JobState /\ [jobs[j] EXCEPT !.status = "cancelled"] \in JobState
    BY <1>1, StatusChanges DEF Cancel, JobsInv, Status
  <1>3. DefinitionsKept
    BY <1>2, OneRedefined DEF JobState
  <1>5. store' \in JobMap /\ faults' \in Nat
    BY <1>2, Saved DEF Cancel, JobsInv, ChangesTo
  <1>6. TypeOK'
    BY <1>2, <1>5 DEF Cancel, JobsInv, TypeOK, JobMap, ChangesTo
  <1>7. up' /\ pass' = pass /\ active' = active /\ groups' = groups
    BY DEF Cancel
  <1> QED  BY <1>1, <1>2, <1>3, <1>6, <1>7, StackUnchanged, GroupsStay DEF JobsInv, StackOK

LEMMA CrashKeeps ==
  ASSUME JobsInv, Crash
  PROVE  JobsInv'
  <1>1. /\ pass' = NoPass /\ pass' \in Pass /\ NoPass.pc = "none"
        /\ active' = {} /\ aborted' = {} /\ groups' = {}
    BY PassTypes DEF Crash, JobsInv, TypeOK
  <1>2. TypeOK'
    <2>1. jobs' \in [Job -> JobState \cup {Absent}]
      BY DEF Crash
    <2>2. up' = FALSE /\ crashes' = crashes + 1 /\ crashes \in Nat
      BY DEF Crash, JobsInv, TypeOK
    <2>3. /\ store' \in [Job -> JobState \cup {Absent}] /\ now' \in Nat /\ faults' \in Nat
          /\ window' \subseteq Job /\ interrupted' \subseteq Job /\ finished' \subseteq Job
      BY DEF Crash, history, JobsInv, TypeOK
    <2>4. up' \in BOOLEAN
      BY <2>2, Zenon
    <2>5. crashes' \in Nat
      BY <2>2, SMT
    <2> QED  BY <1>1, <2>1, <2>3, <2>4, <2>5 DEF TypeOK
  <1>3. StackOK'
    BY <1>1, <1>2, NoStack
  <1>4. GroupsHeld'
    BY <1>1 DEF GroupsHeld, GroupsExclude
  <1> QED  BY <1>2, <1>3, <1>4 DEF JobsInv, StackOK

LEMMA TickKeeps ==
  ASSUME JobsInv, Tick
  PROVE  JobsInv'
  <1>1. /\ UNCHANGED <<jobs, active, aborted, groups, pass, store, up, faults, crashes>>
        /\ UNCHANGED <<window, interrupted, finished>>
        /\ now' = now + 1
    BY DEF Tick, memory, history
  <1>2. TypeOK'
    <2>1. now' \in Nat
      BY <1>1 DEF JobsInv, TypeOK
    <2> QED  BY <1>1, <2>1 DEF JobsInv, TypeOK
  <1>3. PassShape'
    BY <1>1 DEF JobsInv, PassShape, Linked, Known, Dependencies, Depth, Top
  <1>4. GroupsHeld' /\ NobodyWaitsForItself'
    BY <1>1 DEF JobsInv, GroupsHeld, GroupsExclude, NobodyWaitsForItself, Known, Top, Depth
  <1> QED  BY <1>2, <1>3, <1>4 DEF JobsInv

LEMMA StutterKeeps ==
  ASSUME JobsInv, UNCHANGED vars
  PROVE  JobsInv'
  BY DEF vars, memory, history, JobsInv, TypeOK, PassShape, Linked, GroupsHeld, GroupsExclude,
         NobodyWaitsForItself, Known, Dependencies, Depth, Top

\* The process is up while a pass goes on.
LEMMA PassIsUp ==
  ASSUME JobsInv, pass.pc # "none"
  PROVE  up
  BY DEF JobsInv, PassShape, NoPass

\* A step of the pass that changes no job.
LEMMA PassMoves ==
  ASSUME JobsInv, UNCHANGED <<jobs, store, faults>>, NoRun, PassOnly, up,
         pass' \in Pass, pass'.pc # "run", StackOK'
  PROVE  JobsInv'
  <1>1. TypeOK'
    BY DEF JobsInv, TypeOK, NoRun, PassOnly
  <1>2. GroupsHeld'
    BY NothingRedefined, GroupsStay DEF NoRun, PassOnly
  <1> QED  BY <1>1, <1>2 DEF JobsInv, StackOK

LEMMA TypesAfterWalk ==
  ASSUME JobsInv, UNCHANGED <<jobs, store, faults>>, NoRun, PassOnly, pass' \in Pass
  PROVE  TypeOK'
  BY DEF JobsInv, TypeOK, NoRun, PassOnly

LEMMA GoesToKeeps ==
  ASSUME JobsInv, UNCHANGED <<jobs, store, faults>>, NoRun, PassOnly,
         NEW pc \in {"enter", "ran", "not_run"}, pass' = [pass EXCEPT !.pc = pc],
         pass.pc # "none", pass.due # <<>>,
         pc \in {"enter", "ran"} /\ pass.chain # <<>> =>
             Top.dependency <= Len(Dependencies(Top.job))
  PROVE  /\ JobsInv' /\ DefinitionsKept /\ pass' \in Pass /\ pass'.pc = pc
         /\ pass'.due = pass.due /\ pass'.chain = pass.chain /\ pass'.completed = pass.completed
  <1>1. /\ pass' \in Pass /\ pass'.pc = pc
        /\ pass'.due = pass.due /\ pass'.chain = pass.chain /\ pass'.completed = pass.completed
    BY GoesTo DEF JobsInv
  <1>2. TypeOK' /\ DefinitionsKept /\ up /\ up'
    BY <1>1, TypesAfterWalk, NothingRedefined, PassIsUp DEF PassOnly
  <1>3. StackOK'
    BY <1>1, <1>2, StackStays
  <1> QED  BY <1>1, <1>2, <1>3, PassMoves

LEMMA PopsKeeps ==
  ASSUME JobsInv, UNCHANGED <<jobs, store, faults>>, NoRun, PassOnly,
         pass.chain # <<>>, pass.pc \notin {"none", "next"}, pass' = Returned("not_run")
  PROVE  /\ JobsInv' /\ DefinitionsKept /\ pass'.pc = "not_run"
         /\ pass'.due = pass.due /\ pass'.completed = pass.completed
         /\ Len(pass'.chain) = Depth - 1
         /\ \A k \in 1..(Depth - 1) : pass'.chain[k] = pass.chain[k]
  <1>1. /\ pass' \in Pass /\ pass'.pc = "not_run" /\ pass'.due = pass.due
        /\ pass'.completed = pass.completed
        /\ Len(pass'.chain) = Depth - 1
        /\ \A k \in 1..(Depth - 1) : pass'.chain[k] = pass.chain[k]
    BY ReturnsOnly, Returns, PassTypes DEF JobsInv, TypeOK
  <1>2. TypeOK' /\ DefinitionsKept /\ up /\ up'
    BY <1>1, TypesAfterWalk, NothingRedefined, PassIsUp DEF PassOnly
  <1>3. StackOK'
    BY <1>1, <1>2, StackPops
  <1> QED  BY <1>1, <1>2, <1>3, PassMoves

LEMMA TurnsKeeps ==
  ASSUME JobsInv, UNCHANGED <<jobs, store, faults>>, NoRun, PassOnly,
         pass.chain # <<>>, pass.pc \notin {"none", "next"}, NextDependency
  PROVE  JobsInv' /\ DefinitionsKept
  <1>1. /\ pass' \in Pass /\ pass'.pc = "loop" /\ pass'.due = pass.due
        /\ Len(pass'.chain) = Depth
        /\ \A k \in 1..(Depth - 1) : pass'.chain[k] = pass.chain[k]
        /\ pass'.chain[Depth].job = Top.job
    BY TurnsToNext DEF JobsInv
  <1>2. TypeOK' /\ DefinitionsKept /\ up /\ up'
    BY <1>1, TypesAfterWalk, NothingRedefined, PassIsUp DEF PassOnly
  <1>3. StackOK'
    BY <1>1, <1>2, StackTurns
  <1> QED  BY <1>1, <1>2, <1>3, PassMoves

LEMMA EnteredTypes ==
  ASSUME JobsInv, Entering
  PROVE  Entered \in Job /\ Known(Entered)
  <1>1. Entered \in Job
    <2>1. CASE pass.chain = <<>>
      <3>1. pass.due # <<>> /\ pass.due \in Seq(Job)
        BY DEF Entering, JobsInv, PassShape, TypeOK, Pass
      <3> QED  BY <2>1, <3>1 DEF Entered
    <2>2. CASE pass.chain # <<>>
      <3>1. /\ Dependencies(Top.job) \in Seq(Job)
            /\ Top.dependency \in 1..Len(Dependencies(Top.job))
        <4>1. /\ jobs[Top.job] \in JobState /\ Top.dependency \in Nat \ {0}
          BY <2>2, OnStack
        <4>2. Dependencies(Top.job) \in Seq(Job)
          BY <4>1, StateTypes, DefinitionTypes DEF Dependencies
        <4>3. Top.dependency <= Len(Dependencies(Top.job))
          BY <2>2 DEF Entering, JobsInv, PassShape
        <4> QED  BY <4>1, <4>2, <4>3
      <3> QED  BY <2>2, <3>1 DEF Entered, Dependency, Dependencies
    <2> QED  BY <2>1, <2>2
  <1>2. Known(Entered)
    BY DEF Entering, Known, Absent
  <1> QED  BY <1>1, <1>2

LEMMA PushesKeeps ==
  ASSUME JobsInv, UNCHANGED <<jobs, store, faults>>, NoRun, PassOnly,
         NEW j, j = Entered, Entering, ~OnChain(j),
         pass' = [pass EXCEPT !.pc = "loop", !.chain = Append(@, [job |-> j, dependency |-> 1])]
  PROVE  JobsInv' /\ DefinitionsKept /\ j \in Job /\ Known(j)
  <1>1. j \in Job
    BY EnteredTypes
  <1>2. Known(j)
    BY EnteredTypes
  <1>3. pass.pc = "enter" /\ (pass.chain # <<>> => j = Dependency)
    BY DEF Entering, Entered
  <1>4. /\ pass' \in Pass /\ pass'.pc = "loop" /\ pass'.due = pass.due
        /\ Len(pass'.chain) = Depth + 1
        /\ \A k \in 1..Depth : pass'.chain[k] = pass.chain[k]
        /\ pass'.chain[Depth + 1].job = j
    <2>1. TypeOK
      BY DEF JobsInv
    <2> QED  BY <1>1, <2>1, Pushes
  <1>5. TypeOK' /\ DefinitionsKept /\ up /\ up'
    BY <1>3, <1>4, TypesAfterWalk, NothingRedefined, PassIsUp DEF PassOnly
  <1>6. StackOK'
    BY <1>1, <1>2, <1>3, <1>4, <1>5, StackGrows
  <1> QED  BY <1>1, <1>2, <1>4, <1>5, <1>6, PassMoves

\* The disjuncts of Walk.
LEMMA WalkKeeps ==
  ASSUME JobsInv, Walk
  PROVE  JobsInv' /\ DefinitionsKept
  <1> USE DEF Walk
  <1>1. DefinitionsKept
    BY NothingRedefined
  <1>2. pass.pc # "none" => up /\ up'
    BY PassIsUp DEF PassOnly
  <1>3. CASE pass.pc = "next" /\ pass.due # <<>> /\ GoTo("enter")
    <2>1. pass.chain = <<>>
      BY <1>3 DEF JobsInv, PassShape
    <2> QED  BY <1>1, <1>3, <2>1, GoesToKeeps DEF GoTo
  <1>4. CASE pass.pc = "next" /\ pass.due = <<>> /\ pass' = NoPass
    <2>1. NoPass \in Pass /\ NoPass.pc = "none"
      BY PassTypes DEF JobsInv, TypeOK
    <2>2. TypeOK'
      BY <1>4, <2>1, TypesAfterWalk
    <2>3. StackOK'
      BY <1>4, <2>2, NoStack
    <2> QED  BY <1>1, <1>2, <1>4, <2>1, <2>3, PassMoves
  <1>5. CASE /\ pass.pc \in {"ran", "not_run"} /\ pass.chain = <<>>
             /\ pass' = [pass EXCEPT !.pc = "next", !.due = Tail(@)]
    <2>1. pass \in Pass /\ pass.due # <<>>
      BY <1>5 DEF JobsInv, TypeOK, PassShape
    <2>2. Tail(pass.due) \in Seq(Job)
      BY <2>1 DEF Pass
    <2>3. pass' \in Pass /\ pass'.pc = "next" /\ pass'.chain = <<>>
      BY <1>5, <2>1, <2>2 DEF Pass
    <2>4. TypeOK' /\ up'
      BY <1>2, <1>5, <2>3, TypesAfterWalk
    <2>5. StackOK'
      BY <2>3, <2>4, StackIsEmpty
    <2> QED  BY <1>1, <1>2, <1>5, <2>3, <2>5, PassMoves
  <1>6. CASE pass.pc = "enter" /\ Entered \in pass.completed /\ GoTo("ran")
    <2>1. pass.due # <<>>
      BY <1>6 DEF JobsInv, PassShape
    <2>2. pass.chain # <<>> => Top.dependency <= Len(Dependencies(Top.job))
      BY <1>6 DEF JobsInv, PassShape
    <2> QED  BY <1>1, <1>6, <2>1, <2>2, GoesToKeeps DEF GoTo
  <1>7. CASE /\ pass.pc = "enter" /\ Entered \notin pass.completed
             /\ jobs[Entered].status # "scheduled" /\ GoTo("not_run")
    <2>1. pass.due # <<>>
      BY <1>7 DEF JobsInv, PassShape
    <2> QED  BY <1>1, <1>7, <2>1, GoesToKeeps DEF GoTo
  <1>8. CASE /\ Entering /\ ~OnChain(Entered)
             /\ pass' = [pass EXCEPT !.pc = "loop",
                                     !.chain = Append(@, [job |-> Entered, dependency |-> 1])]
    BY <1>8, PushesKeeps
  <1>9. CASE AtDependency /\ DependencyDue(jobs[Dependency]) /\ GoTo("enter")
    <2>1. pass.due # <<>> /\ pass.pc = "loop"
      BY <1>9 DEF AtDependency, JobsInv, PassShape
    <2>2. Top.dependency <= Len(Dependencies(Top.job))
      BY <1>9 DEF AtDependency, Dependencies
    <2> QED  BY <1>1, <1>9, <2>1, <2>2, GoesToKeeps DEF GoTo
  <1>10. CASE /\ AtDependency /\ ~DependencyDue(jobs[Dependency])
              /\ jobs[Dependency].status \in {"scheduled", "running", "completed"}
              /\ NextDependency
    <2>1. pass.chain # <<>> /\ pass.pc = "loop"
      BY <1>10 DEF AtDependency, JobsInv, PassShape
    <2> QED  BY <1>10, <2>1, TurnsKeeps
  <1>11. CASE pass.pc = "ran" /\ pass.chain # <<>> /\ NextDependency
    BY <1>11, TurnsKeeps
  <1> QED  BY <1>3, <1>4, <1>5, <1>6, <1>7, <1>8, <1>9, <1>10, <1>11

LEMMA CannotRunKeeps ==
  ASSUME JobsInv, CannotRun
  PROVE  /\ JobsInv' /\ DefinitionsKept /\ pass'.pc = "not_run"
         /\ pass'.due = pass.due /\ pass'.completed = pass.completed
         /\ Len(pass'.chain) = Depth - 1
         /\ \A k \in 1..(Depth - 1) : pass'.chain[k] = pass.chain[k]
  <1>1. pass.pc = "loop" /\ pass.chain # <<>>
    BY DEF CannotRun, Ready, JobsInv, PassShape
  <1> QED  BY <1>1, PopsKeeps DEF CannotRun

\* The job that a step of the pass is about is registered.
LEMMA FailJobKeeps ==
  ASSUME JobsInv, NEW j \in Job, NEW ok \in BOOLEAN, FailJob(j, ok)
  PROVE  /\ JobsInv' /\ DefinitionsKept /\ Known(j)
         /\ ChangesTo(j, [jobs[j] EXCEPT !.status = "failed"])
         /\ \/ pass' = NoPass
            \/ /\ pass'.pc = "not_run" /\ pass'.due = pass.due
               /\ pass'.completed = pass.completed /\ pass'.chain = pass.chain
            \/ /\ pass'.pc = "not_run" /\ pass'.due = pass.due
               /\ pass'.completed = pass.completed /\ Len(pass'.chain) = Depth - 1
               /\ \A k \in 1..(Depth - 1) : pass'.chain[k] = pass.chain[k]
  <1>1. pass.pc \in {"enter", "loop", "not_run"} /\ pass.chain # <<>> /\ up /\ up'
    BY PassIsUp DEF FailJob, Unrunnable, Entering, AtDependency, PassOnly
  <1>2. Known(j)
    BY <1>1, OnStack DEF FailJob, Unrunnable, Entering, Known, Absent
  <1>3. /\ ChangesTo(j, [jobs[j] EXCEPT !.status = "failed"])
        /\ jobs[j] \in JobState /\ [jobs[j] EXCEPT !.status = "failed"] \in JobState
    BY <1>2, StatusChanges DEF FailJob, Failed, JobsInv, Status
  <1>4. DefinitionsKept
    BY <1>3, OneRedefined DEF JobState
  <1>5. store' \in JobMap /\ faults' \in Nat
    BY <1>3, Saved DEF FailJob, JobsInv, ChangesTo
  <1>6. ASSUME pass' \in Pass
        PROVE  TypeOK'
    BY <1>3, <1>5, <1>6 DEF FailJob, NoRun, PassOnly, JobsInv, TypeOK, JobMap, ChangesTo
  <1>7. ASSUME pass'.pc # "run"
        PROVE  GroupsHeld'
    BY <1>1, <1>4, <1>7, GroupsStay DEF FailJob, NoRun
  <1>8. CASE ~ok
    <2>1. pass' = NoPass /\ NoPass \in Pass /\ NoPass.pc = "none"
      BY <1>8, PassTypes DEF FailJob, IfSaved, JobsInv, TypeOK
    <2>2. TypeOK'
      BY <1>6, <2>1
    <2> QED  BY <1>2, <1>3, <1>4, <1>7, <2>1, <2>2, NoStack DEF JobsInv, StackOK
  <1>9. CASE ok /\ pass.pc = "enter"
    <2>1. pass' = [pass EXCEPT !.pc = "not_run"]
      BY <1>9 DEF FailJob, IfSaved
    <2>2. /\ pass' \in Pass /\ pass'.pc = "not_run" /\ pass'.due = pass.due
          /\ pass'.chain = pass.chain /\ pass'.completed = pass.completed
      BY <2>1, GoesTo DEF JobsInv
    <2>3. TypeOK'
      BY <1>6, <2>2
    <2>4. pass.due # <<>>
      BY <1>9 DEF JobsInv, PassShape
    <2>5. StackOK'
      BY <1>1, <1>4, <2>2, <2>3, <2>4, StackStays
    <2> QED  BY <1>2, <1>3, <1>4, <1>7, <2>2, <2>3, <2>5 DEF JobsInv, StackOK
  <1>10. CASE ok /\ pass.pc # "enter"
    <2>1. pass' = Returned("not_run") /\ TypeOK
      BY <1>10 DEF FailJob, IfSaved, JobsInv
    <2>2. /\ pass' \in Pass /\ pass'.pc = "not_run" /\ pass'.due = pass.due
          /\ pass'.completed = pass.completed /\ Len(pass'.chain) = Depth - 1
          /\ \A k \in 1..(Depth - 1) : pass'.chain[k] = pass.chain[k]
      BY <1>1, <2>1, ReturnsOnly, Returns, PassTypes DEF TypeOK
    <2>3. TypeOK'
      BY <1>6, <2>2
    <2>4. StackOK'
      BY <1>1, <1>4, <2>2, <2>3, StackPops
    <2> QED  BY <1>2, <1>3, <1>4, <1>7, <2>2, <2>3, <2>4 DEF JobsInv, StackOK
  <1> QED  BY <1>8, <1>9, <1>10

LEMMA BeginRunKeeps ==
  ASSUME JobsInv, NEW ok \in BOOLEAN, BeginRun(ok)
  PROVE  /\ JobsInv' /\ DefinitionsKept /\ Top.job \in Job /\ Known(Top.job)
         /\ Top.job \notin active
         /\ ChangesTo(Top.job, [jobs[Top.job] EXCEPT !.status = "running"])
         /\ \/ pass' = NoPass
            \/ /\ pass'.pc = "run" /\ pass'.due = pass.due /\ Top' = Top
               /\ pass'.completed = pass.completed /\ pass'.chain = pass.chain
  <1> DEFINE t == Top.job
  <1>1. /\ pass.pc = "loop" /\ pass.chain # <<>> /\ up /\ up'
        /\ jobs[t].status = "scheduled" /\ jobs[t].definition.group \notin groups
    BY PassIsUp DEF BeginRun, Ready, MayBegin, Group, PassOnly, JobsInv, PassShape
  <1>2. t \in Job /\ Known(t) /\ jobs[t] \in JobState
    BY <1>1, OnStack
  <1>3. t \notin active
    BY <1>1 DEF JobsInv, GroupsHeld
  <1>4. /\ active' = active \cup {t} /\ aborted' = aborted \ {t}
        /\ groups' = groups \cup {jobs[t].definition.group}
        /\ jobs' = [jobs EXCEPT ![t].status = "running"]
    BY DEF BeginRun, Group
  <1> HIDE DEF t
  <1>5. /\ ChangesTo(t, [jobs[t] EXCEPT !.status = "running"])
        /\ [jobs[t] EXCEPT !.status = "running"] \in JobState
        /\ [jobs[t] EXCEPT !.status = "running"].definition = jobs[t].definition
    BY <1>2, <1>4, StatusChanges, StateTypes DEF JobsInv, Status
  <1>6. DefinitionsKept
    BY <1>2, <1>5, OneRedefined
  <1>7. store' \in JobMap /\ faults' \in Nat
    BY <1>5, Saved DEF BeginRun, JobsInv, ChangesTo
  <1>8. ASSUME pass' \in Pass
        PROVE  TypeOK'
    <2>1. jobs[t].definition.group \in {d.group : d \in Definition}
      BY <1>2 DEF JobState
    <2>2. jobs' \in JobMap
      BY <1>5 DEF ChangesTo
    <2>3. UNCHANGED <<interrupted, finished, up, now, crashes, window>>
      BY DEF BeginRun, PassOnly
    <2> QED  BY <1>2, <1>4, <1>7, <1>8, <2>1, <2>2, <2>3 DEF JobsInv, TypeOK, JobMap
  <1>9. ASSUME pass'.pc = "run" => Top' = Top
        PROVE  GroupsHeld'
    <2>1. \A j \in active : /\ jobs'[j] # Absent /\ jobs'[j].definition = jobs[j].definition
                            /\ jobs[j].definition.group \in groups
      BY <1>6 DEF JobsInv, TypeOK, GroupsHeld, DefinitionsKept
    <2>2. \A i, j \in active : i # j => jobs[i].definition.group # jobs[j].definition.group
      BY DEF JobsInv, GroupsHeld, GroupsExclude
    <2>3. jobs'[t] # Absent /\ jobs'[t].definition = jobs[t].definition
      BY <1>2, <1>6 DEF DefinitionsKept
    <2>4. \A j \in active' : j \in active \/ j = t
      BY <1>4
    <2>5. \A j \in active' : /\ jobs'[j] # Absent
                             /\ jobs'[j].definition.group \in groups'
      BY <1>4, <2>1, <2>3, <2>4
    <2>6. \A i, j \in active' : i # j => jobs'[i].definition.group # jobs'[j].definition.group
      BY <1>1, <2>1, <2>2, <2>3, <2>4
    <2>7. pass'.pc = "run" => Top'.job \in active'
      BY <1>4, <1>9 DEF t
    <2> QED  BY <1>1, <2>5, <2>6, <2>7 DEF GroupsHeld, GroupsExclude, Known
  <1>10. CASE ~ok
    <2>1. pass' = NoPass /\ NoPass \in Pass /\ NoPass.pc = "none"
      BY <1>10, PassTypes DEF BeginRun, IfSaved, JobsInv, TypeOK
    <2>2. TypeOK'
      BY <1>8, <2>1
    <2> QED  BY <1>2, <1>3, <1>5, <1>6, <1>9, <2>1, <2>2, NoStack DEF JobsInv, StackOK, t
  <1>11. CASE ok
    <2>1. pass' = [pass EXCEPT !.pc = "run"]
      BY <1>11 DEF BeginRun, IfSaved
    <2>2. /\ pass' \in Pass /\ pass'.pc = "run" /\ pass'.due = pass.due
          /\ pass'.chain = pass.chain /\ pass'.completed = pass.completed
      BY <2>1, GoesTo DEF JobsInv
    <2>3. TypeOK' /\ Top' = Top
      BY <1>8, <2>2 DEF Top, Depth
    <2>4. pass.due # <<>>
      BY <1>1 DEF JobsInv, PassShape
    <2>5. StackOK'
      BY <1>1, <1>6, <2>2, <2>3, <2>4, StackStays
    <2> QED  BY <1>2, <1>3, <1>5, <1>6, <1>9, <2>2, <2>3, <2>5 DEF JobsInv, StackOK, t
  <1> QED  BY <1>10, <1>11

\* The run of the last frame ends: what its four outcomes have in common.
LEMMA RunEnds ==
  ASSUME JobsInv, pass.pc = "run", ReleaseRun, PassOnly, NEW state \in JobState,
         state.definition = jobs[Top.job].definition,
         jobs' = [jobs EXCEPT ![Top.job] = state],
         store' \in JobMap, faults' \in Nat, finished' \subseteq Job, pass' \in Pass
  PROVE  /\ TypeOK' /\ DefinitionsKept /\ Top.job \in active /\ up /\ up'
         /\ Top.job \in Job /\ ChangesTo(Top.job, state)
         /\ pass'.pc # "run" => GroupsHeld'
  <1>1. pass.chain # <<>> /\ up /\ up'
    BY PassIsUp DEF PassOnly, JobsInv, PassShape
  <1>2. Top.job \in Job /\ Known(Top.job) /\ Top.job \in active
    BY <1>1, OnStack DEF JobsInv, GroupsHeld
  <1>3. ChangesTo(Top.job, state)
    BY <1>2, OneJobChanges DEF JobsInv
  <1>4. DefinitionsKept
    BY <1>2, <1>3, OneRedefined
  <1>5. TypeOK'
    <2>1. jobs' \in JobMap
      BY <1>3 DEF ChangesTo
    <2>2. active' \subseteq active /\ aborted' \subseteq active' /\ groups' \subseteq groups
      BY DEF ReleaseRun, JobsInv, TypeOK
    <2>3. UNCHANGED <<interrupted, up, now, crashes, window>>
      BY DEF ReleaseRun, PassOnly
    <2> QED  BY <2>1, <2>2, <2>3 DEF JobsInv, TypeOK, JobMap
  <1>6. pass'.pc # "run" => GroupsHeld'
    BY <1>1, <1>4, GroupsReleased
  <1> QED  BY <1>1, <1>2, <1>3, <1>4, <1>5, <1>6

LEMMA RunReturns ==
  ASSUME JobsInv, pass.pc = "run", ReleaseRun, PassOnly, NEW state \in JobState,
         state.definition = jobs[Top.job].definition,
         jobs' = [jobs EXCEPT ![Top.job] = state],
         store' \in JobMap, faults' \in Nat, finished' \subseteq Job,
         NEW outcome \in {"ran", "not_run"}, NEW D \in SUBSET Job,
         pass' = [Returned(outcome) EXCEPT !.completed = D]
  PROVE  /\ JobsInv' /\ DefinitionsKept /\ Top.job \in active
         /\ Top.job \in Job /\ ChangesTo(Top.job, state)
         /\ pass'.pc = outcome /\ pass'.due = pass.due /\ pass'.completed = D
         /\ Len(pass'.chain) = Depth - 1
         /\ \A k \in 1..(Depth - 1) : pass'.chain[k] = pass.chain[k]
         /\ pass'.chain # <<>> => Dependency' = Top.job
  <1>1. pass.chain # <<>>
    BY DEF JobsInv, PassShape
  <1>2. /\ pass' \in Pass /\ pass'.pc = outcome /\ pass'.due = pass.due
        /\ pass'.completed = D /\ Len(pass'.chain) = Depth - 1
        /\ \A k \in 1..(Depth - 1) : pass'.chain[k] = pass.chain[k]
    BY <1>1, Returns DEF JobsInv
  <1>3. /\ TypeOK' /\ DefinitionsKept /\ Top.job \in active /\ up'
        /\ Top.job \in Job /\ ChangesTo(Top.job, state) /\ GroupsHeld'
    BY <1>2, RunEnds
  <1>4. StackOK' /\ (pass'.chain # <<>> => Dependency' = Top.job)
    BY <1>1, <1>2, <1>3, StackPops
  <1> QED  BY <1>2, <1>3, <1>4 DEF JobsInv, StackOK

LEMMA RunIsLost ==
  ASSUME JobsInv, pass.pc = "run", ReleaseRun, PassOnly, NEW state \in JobState,
         state.definition = jobs[Top.job].definition,
         jobs' = [jobs EXCEPT ![Top.job] = state],
         store' \in JobMap, faults' \in Nat, finished' \subseteq Job, pass' = NoPass
  PROVE  /\ JobsInv' /\ DefinitionsKept /\ Top.job \in active
         /\ Top.job \in Job /\ ChangesTo(Top.job, state)
  <1>1. NoPass \in Pass /\ NoPass.pc = "none"
    BY PassTypes DEF JobsInv, TypeOK
  <1>2. /\ TypeOK' /\ DefinitionsKept /\ Top.job \in active /\ up'
        /\ Top.job \in Job /\ ChangesTo(Top.job, state) /\ GroupsHeld'
    BY <1>1, RunEnds
  <1>3. StackOK'
    BY <1>2, NoStack
  <1> QED  BY <1>2, <1>3 DEF JobsInv, StackOK

\* runJob has returned: `chain` is a frame shorter, and the frame below looks at
\* the job that the last one was called for.
Popped(outcome, D) ==
    /\ pass'.pc = outcome /\ pass'.due = pass.due /\ pass'.completed = D
    /\ Len(pass'.chain) = Depth - 1
    /\ \A k \in 1..(Depth - 1) : pass'.chain[k] = pass.chain[k]
    /\ pass'.chain # <<>> => Dependency' = Top.job

LEMMA TopState ==
  ASSUME JobsInv, pass.pc = "run"
  PROVE  /\ Top.job \in Job /\ Known(Top.job) /\ jobs[Top.job] \in JobState /\ now \in Nat
         /\ pass.completed \subseteq Job /\ finished \subseteq Job /\ Top.job \in active
         /\ faults \in Nat
         /\ jobs \in JobMap
  <1>1. pass.chain # <<>> /\ Top.job \in active
    BY DEF JobsInv, PassShape, GroupsHeld
  <1>2. Top.job \in Job /\ Known(Top.job) /\ jobs[Top.job] \in JobState
    BY <1>1, OnStack
  <1> QED  BY <1>1, <1>2 DEF JobsInv, TypeOK, Pass, JobMap

LEMMA RunAbortedKeeps ==
  ASSUME JobsInv, RunAborted
  PROVE  /\ JobsInv' /\ DefinitionsKept /\ ChangesTo(Top.job, Rescheduled(jobs[Top.job]))
         /\ Popped("not_run", pass.completed) /\ store' = jobs'
  <1> DEFINE state == Rescheduled(jobs[Top.job])
  <1>1. pass.pc = "run" /\ ReleaseRun /\ PassOnly /\ Save(TRUE) /\ finished' = finished
    BY DEF RunAborted
  <1>2. /\ Top.job \in Job /\ jobs[Top.job] \in JobState /\ now \in Nat /\ jobs \in JobMap
        /\ pass.completed \subseteq Job /\ finished \subseteq Job
    BY <1>1, TopState
  <1>3. state \in JobState /\ state.definition = jobs[Top.job].definition
    BY <1>2, RescheduledTypes
  <1>4. jobs' = [jobs EXCEPT ![Top.job] = state]
    BY <1>2 DEF RunAborted, JobMap
  <1> HIDE DEF state
  <1>5. jobs' \in JobMap
    BY <1>2, <1>3, <1>4 DEF JobMap
  <1>6. store' = jobs' /\ store' \in JobMap /\ faults' \in Nat
    BY <1>1, <1>5, Saved DEF Save, JobsInv
  <1>7. pass' = [Returned("not_run") EXCEPT !.completed = pass.completed]
    BY ReturnsOnly DEF RunAborted, JobsInv
  <1> QED  BY <1>1, <1>2, <1>3, <1>4, <1>6, <1>7, RunReturns DEF Popped, state

LEMMA RunSucceedsKeeps ==
  ASSUME JobsInv, RunSucceeds
  PROVE  /\ JobsInv' /\ DefinitionsKept /\ ChangesTo(Top.job, Succeeded(jobs[Top.job]))
         /\ Popped("ran", pass.completed \cup {Top.job}) /\ store' = jobs'
  <1> DEFINE state == Succeeded(jobs[Top.job])
             D == pass.completed \cup {Top.job}
  <1>1. pass.pc = "run" /\ ReleaseRun /\ PassOnly /\ Save(TRUE)
        /\ finished' = finished \cup Delayed
    BY DEF RunSucceeds
  <1>2. /\ Top.job \in Job /\ jobs[Top.job] \in JobState /\ now \in Nat /\ jobs \in JobMap
        /\ pass.completed \subseteq Job /\ finished \subseteq Job
    BY <1>1, TopState
  <1>3. state \in JobState /\ state.definition = jobs[Top.job].definition
    BY <1>2, RescheduledTypes
  <1>4. jobs' = [jobs EXCEPT ![Top.job] = state]
    BY <1>2 DEF RunSucceeds, JobMap
  <1> HIDE DEF state
  <1>5. jobs' \in JobMap
    BY <1>2, <1>3, <1>4 DEF JobMap
  <1>6. store' = jobs' /\ store' \in JobMap /\ faults' \in Nat
    BY <1>1, <1>5, Saved DEF Save, JobsInv
  <1>7. finished' \subseteq Job
    BY <1>1, <1>2 DEF Delayed
  <1>8. pass' = [Returned("ran") EXCEPT !.completed = D]
    <2>1. Returned("ran").completed = pass.completed
      BY DEF Returned, JobsInv, TypeOK, Pass
    <2> QED  BY <2>1 DEF RunSucceeds
  <1>9. D \in SUBSET Job
    BY <1>2
  <1> HIDE DEF D
  <1>10. JobsInv' /\ DefinitionsKept /\ ChangesTo(Top.job, state) /\ Popped("ran", D)
    BY <1>1, <1>2, <1>3, <1>4, <1>6, <1>7, <1>8, <1>9, RunReturns DEF Popped
  <1> QED  BY <1>6, <1>10 DEF state, D

LEMMA RunIsNotSavedKeeps ==
  ASSUME JobsInv, RunIsNotSaved
  PROVE  /\ JobsInv' /\ DefinitionsKept
         /\ ChangesTo(Top.job, [jobs[Top.job] EXCEPT !.status = "failed"])
         /\ \E D \in SUBSET Job : pass.completed \subseteq D /\ Popped("not_run", D)
         /\ store' = jobs' /\ faults' > 0
  <1> DEFINE state == [jobs[Top.job] EXCEPT !.status = "failed"]
             D == IF WasAborted THEN pass.completed ELSE pass.completed \cup {Top.job}
  <1>1. /\ pass.pc = "run" /\ ReleaseRun /\ PassOnly /\ store' = jobs'
        /\ faults' = faults + 1 /\ finished' \subseteq finished \cup {Top.job}
    BY DEF RunIsNotSaved, Mishap, Delayed
  <1>2. /\ Top.job \in Job /\ jobs[Top.job] \in JobState /\ jobs \in JobMap
        /\ pass.completed \subseteq Job /\ finished \subseteq Job /\ faults \in Nat
    BY <1>1, TopState
  <1>3. state \in JobState /\ state.definition = jobs[Top.job].definition
    BY <1>2, StateTypes DEF Status
  <1>4. jobs' = [jobs EXCEPT ![Top.job] = state]
    BY <1>2 DEF RunIsNotSaved, Failed, JobMap
  <1> HIDE DEF state
  <1>5. jobs' \in JobMap /\ D \in SUBSET Job
    BY <1>2, <1>3, <1>4 DEF JobMap
  <1>6. faults' \in Nat /\ faults' > 0 /\ finished' \subseteq Job
    BY <1>1, <1>2
  <1>7. pass' = [Returned("not_run") EXCEPT !.completed = D]
    <2>1. Returned("not_run").completed = pass.completed
      BY DEF Returned, JobsInv, TypeOK, Pass
    <2>2. CASE WasAborted
      BY <2>2, ReturnsOnly DEF RunIsNotSaved, JobsInv
    <2>3. CASE ~WasAborted
      BY <2>1, <2>3 DEF RunIsNotSaved
    <2> QED  BY <2>2, <2>3
  <1>8. pass.completed \subseteq D
    OBVIOUS
  <1> HIDE DEF D
  <1>9. /\ JobsInv' /\ DefinitionsKept /\ ChangesTo(Top.job, state)
        /\ Popped("not_run", D)
    BY <1>1, <1>2, <1>3, <1>4, <1>5, <1>6, <1>7, RunReturns DEF Popped
  <1> QED  BY <1>1, <1>5, <1>6, <1>8, <1>9 DEF state

LEMMA RunThrowsKeeps ==
  ASSUME JobsInv, NEW ok \in BOOLEAN, RunThrows(ok)
  PROVE  /\ JobsInv' /\ DefinitionsKept
         /\ ChangesTo(Top.job, [jobs[Top.job] EXCEPT !.status = "failed"])
         /\ pass' = NoPass \/ Popped("not_run", pass.completed)
  <1> DEFINE state == [jobs[Top.job] EXCEPT !.status = "failed"]
  <1>1. /\ pass.pc = "run" /\ ReleaseRun /\ PassOnly /\ Save(ok) /\ finished' = finished
    BY DEF RunThrows
  <1>2. /\ Top.job \in Job /\ jobs[Top.job] \in JobState /\ jobs \in JobMap
        /\ pass.completed \subseteq Job /\ finished \subseteq Job
    BY <1>1, TopState
  <1>3. state \in JobState /\ state.definition = jobs[Top.job].definition
    BY <1>2, StateTypes DEF Status
  <1>4. jobs' = [jobs EXCEPT ![Top.job] = state]
    BY <1>2 DEF RunThrows, Failed, JobMap
  <1> HIDE DEF state
  <1>5. jobs' \in JobMap
    BY <1>2, <1>3, <1>4 DEF JobMap
  <1>6. store' \in JobMap /\ faults' \in Nat
    BY <1>1, <1>5, Saved DEF JobsInv
  <1>7. CASE ok
    <2>1. pass' = [Returned("not_run") EXCEPT !.completed = pass.completed]
      BY <1>7, ReturnsOnly DEF RunThrows, IfSaved, JobsInv
    <2> QED  BY <1>1, <1>2, <1>3, <1>4, <1>6, <2>1, RunReturns DEF Popped, state
  <1>8. CASE ~ok
    <2>1. pass' = NoPass
      BY <1>8 DEF RunThrows, IfSaved
    <2> QED  BY <1>1, <1>2, <1>3, <1>4, <1>6, <2>1, RunIsLost DEF state
  <1> QED  BY <1>7, <1>8

----------------------------------------------------------------------------
(* The invariant of the stack and the groups.                              *)

LEMMA JobsNext == JobsInv /\ [Next]_vars => JobsInv'
  <1> SUFFICES ASSUME JobsInv, [Next]_vars
               PROVE  JobsInv'
    OBVIOUS
  <1>1. ASSUME NEW ok \in BOOLEAN, Start(ok)
        PROVE  JobsInv'
    BY <1>1, StartKeeps
  <1>2. ASSUME NEW order \in Orders({j \in Job : Due(jobs[j])}), RunDue(order)
        PROVE  JobsInv'
    BY <1>2, RunDueKeeps
  <1>3. ASSUME NEW j \in Job, NEW ok \in BOOLEAN, Cancel(j, ok)
        PROVE  JobsInv'
    BY <1>3, CancelKeeps
  <1>4. ASSUME NEW j \in Job, NEW ok \in BOOLEAN, NEW definition \in Definition,
               Register(j, definition, ok)
        PROVE  JobsInv'
    BY <1>4, RegisterKeeps
  <1>5. ASSUME NEW ok \in BOOLEAN, BeginRun(ok)
        PROVE  JobsInv'
    BY <1>5, BeginRunKeeps
  <1>6. ASSUME NEW ok \in BOOLEAN, NEW j \in Job, FailJob(j, ok)
        PROVE  JobsInv'
    BY <1>6, FailJobKeeps
  <1>7. ASSUME NEW ok \in BOOLEAN, RunThrows(ok)
        PROVE  JobsInv'
    BY <1>7, RunThrowsKeeps
  <1> QED  BY <1>1, <1>2, <1>3, <1>4, <1>5, <1>6, <1>7, WalkKeeps, CannotRunKeeps,
              RunAbortedKeeps, RunSucceedsKeeps, RunIsNotSavedKeeps, CrashKeeps, TickKeeps,
              StutterKeeps
           DEF Next, PassStep, RunStep

\* In every reachable state the stack of calls, the groups and the jobs that run
\* agree with each other.
THEOREM JobsInvariant == Spec => []JobsInv
  <1>1. Init => JobsInv
    BY InitKeeps
  <1> QED  BY <1>1, JobsNext, PTL DEF Spec

\* JobMap of one group never run at the same time, whatever fails to be saved
\* (runJob's check of this.groups, and the finally block that gives it back).
THEOREM GroupsAreExclusive == Spec => []GroupsExclude
  <1>1. JobsInv => GroupsExclude
    BY DEF JobsInv, GroupsHeld
  <1> QED  BY <1>1, JobsInvariant, PTL

\* No runJob is called for a job that is being run further down the stack
\* (runJob's check of its chain), so that a dependency cycle ends the pass.
THEOREM CyclesAreNoticed == Spec => []NobodyWaitsForItself
  <1>1. JobsInv => NobodyWaitsForItself
    BY DEF JobsInv
  <1> QED  BY <1>1, JobsInvariant, PTL

----------------------------------------------------------------------------
(* The file.                                                               *)

\* The store that keeps its promise can save: a save that fails is a mishap.
LEMMA SavedOrMishap ==
  ASSUME Store = "injected", NEW ok \in BOOLEAN, Save(ok), faults \in Nat
  PROVE  store' = jobs' \/ faults' # 0
  <1>1. CanSave
    BY DEF CanSave
  <1>2. CASE ok
    BY <1>2 DEF Save
  <1>3. CASE ~ok
    <2>1. faults' = faults + 1
      BY <1>1, <1>3 DEF Save, Mishap
    <2> QED  BY <2>1
  <1> QED  BY <1>2, <1>3

LEMMA FileNext ==
  ASSUME Store = "injected", JobsInv, FileFollows, [Next]_vars
  PROVE  FileFollows'
  <1>1. faults \in Nat
    BY DEF JobsInv, TypeOK
  <1>2. ASSUME NEW ok \in BOOLEAN, Save(ok)
        PROVE  FileFollows'
    BY <1>1, <1>2, SavedOrMishap DEF FileFollows
  <1>3. ASSUME UNCHANGED <<jobs, store, faults>>, up \/ up' = up
        PROVE  FileFollows'
    BY <1>3 DEF FileFollows
  <1>4. ASSUME NEW order \in Orders({j \in Job : Due(jobs[j])}), RunDue(order)
        PROVE  FileFollows'
    BY <1>3, <1>4 DEF RunDue
  <1>5. ASSUME Walk \/ CannotRun
        PROVE  FileFollows'
    BY <1>3, <1>5 DEF Walk, CannotRun, PassOnly
  <1>6. ASSUME RunAborted \/ RunSucceeds
        PROVE  FileFollows'
    BY <1>2, <1>6 DEF RunAborted, RunSucceeds
  <1>7. ASSUME RunIsNotSaved
        PROVE  FileFollows'
    BY <1>7, RunIsNotSavedKeeps DEF FileFollows
  <1>8. ASSUME Crash
        PROVE  FileFollows'
    BY <1>8 DEF Crash, FileFollows
  <1>9. ASSUME Tick \/ UNCHANGED vars
        PROVE  FileFollows'
    BY <1>3, <1>9 DEF Tick, vars, memory
  <1>10. ASSUME NEW ok \in BOOLEAN, NEW j \in Job, NEW definition \in Definition,
                Register(j, definition, ok)
         PROVE  FileFollows'
    BY <1>2, <1>10 DEF Register
  <1>11. ASSUME NEW ok \in BOOLEAN, Start(ok) \/ BeginRun(ok) \/ RunThrows(ok)
         PROVE  FileFollows'
    BY <1>2, <1>11 DEF Start, BeginRun, RunThrows
  <1>12. ASSUME NEW ok \in BOOLEAN, NEW j \in Job, Cancel(j, ok) \/ FailJob(j, ok)
         PROVE  FileFollows'
    BY <1>2, <1>12 DEF Cancel, FailJob
  <1> QED  BY <1>4, <1>5, <1>6, <1>7, <1>8, <1>9, <1>10, <1>11, <1>12
           DEF Next, PassStep, RunStep

\* With a store that keeps its promise, the file holds what memory holds whenever
\* another handler may look or the process may be killed (persist, at every change).
THEOREM FileIsKept ==
  ASSUME Store = "injected"
  PROVE  Spec => []FileIsCurrent
  <1>1. Init => FileFollows
    BY DEF Init, FileFollows
  <1>2. JobsInv /\ FileFollows /\ [Next]_vars => FileFollows'
    BY FileNext
  <1>3. FileFollows => FileIsCurrent
    BY DEF FileFollows, FileIsCurrent
  <1> QED  BY <1>1, <1>2, <1>3, JobsInvariant, PTL DEF Spec

----------------------------------------------------------------------------
(* The delayed jobs that have succeeded.                                   *)

\* The file after a step that may save: what it was, or what memory now is.
LEMMA SavesEither ==
  ASSUME NEW ok \in BOOLEAN, Save(ok)
  PROVE  store' = jobs' \/ store' = store
  BY DEF Save

\* A step that changes the status of one job, which is not finished unless the
\* step ends it.
LEMMA FinishedStays ==
  ASSUME JobsInv, FinishedStay, NEW j \in Job, NEW state, ChangesTo(j, state), up,
         store' = jobs' \/ store' = store, finished' \subseteq finished,
         j \in finished => state.status \in Ended /\ j \notin active',
         active' \subseteq active \cup {j}
  PROVE  FinishedStay'
  <1> SUFFICES ASSUME NEW i \in finished'
               PROVE  /\ i \notin active' /\ store'[i].status \in Ended
                      /\ jobs'[i].status \in Ended
    BY DEF FinishedStay
  <1>1. i \in finished /\ i \in Job
    BY DEF JobsInv, TypeOK
  <1>2. i \notin active /\ store[i].status \in Ended /\ jobs[i].status \in Ended
    BY <1>1 DEF FinishedStay
  <1>3. jobs'[i] = IF i = j THEN state ELSE jobs[i]
    BY <1>1 DEF ChangesTo
  <1> QED  BY <1>1, <1>2, <1>3

\* The same for the end of a run: its job is not finished before.
LEMMA FinishedAtEnd ==
  ASSUME JobsInv, FinishedStay, pass.pc = "run", ReleaseRun, NEW state,
         ChangesTo(Top.job, state),
         \/ finished' = finished /\ (store' = jobs' \/ store' = store)
         \/ finished' \subseteq finished \cup {Top.job} /\ store' = jobs'
            /\ (Top.job \in finished' => state.status \in Ended)
  PROVE  FinishedStay'
  <1>1. Top.job \in active /\ up /\ Top.job \in Job
    BY TopState, PassIsUp
  <1>2. Top.job \notin finished
    BY <1>1 DEF FinishedStay
  <1>3. active' = active \ {Top.job}
    BY DEF ReleaseRun
  <1> SUFFICES ASSUME NEW i \in finished'
               PROVE  /\ i \notin active' /\ store'[i].status \in Ended
                      /\ jobs'[i].status \in Ended
    BY DEF FinishedStay
  <1>4. CASE i \in finished
    <2>1. i \notin active /\ store[i].status \in Ended /\ jobs[i].status \in Ended
      BY <1>1, <1>4 DEF FinishedStay
    <2>2. jobs'[i] = jobs[i]
      BY <1>2, <1>4 DEF ChangesTo, JobsInv, TypeOK
    <2> QED  BY <1>3, <2>1, <2>2
  <1>5. CASE i \notin finished
    <2>1. i = Top.job /\ store' = jobs' /\ state.status \in Ended
      BY <1>5
    <2>2. jobs'[i] = state
      BY <1>1, <2>1 DEF ChangesTo
    <2> QED  BY <1>3, <2>1, <2>2
  <1> QED  BY <1>4, <1>5

LEMMA FinishedNext ==
  ASSUME JobsInv, FinishedStay, [Next]_vars
  PROVE  FinishedStay'
  <1>1. ASSUME NEW ok \in BOOLEAN, Start(ok)
        PROVE  FinishedStay'
    <2>1. \A j \in finished : j \in Job /\ j \notin active /\ store[j].status \in Ended
      BY DEF FinishedStay, JobsInv, TypeOK
    <2>2. \A j \in finished : jobs'[j] = store[j]
      BY <1>1, <2>1 DEF Start, Due, Ended
    <2>3. store' = jobs' \/ store' = store
      BY <1>1, SavesEither DEF Start
    <2>4. finished' = finished /\ active' = active
      BY <1>1 DEF Start, history
    <2> QED  BY <2>1, <2>2, <2>3, <2>4 DEF FinishedStay
  <1>2. ASSUME UNCHANGED <<jobs, store, active, finished, up>>
        PROVE  FinishedStay'
    BY <1>2 DEF FinishedStay
  <1>3. ASSUME NEW order \in Orders({j \in Job : Due(jobs[j])}), RunDue(order)
        PROVE  FinishedStay'
    BY <1>2, <1>3 DEF RunDue
  <1>4. ASSUME Walk \/ CannotRun
        PROVE  FinishedStay'
    BY <1>2, <1>4 DEF Walk, CannotRun, NoRun, PassOnly
  <1>5. ASSUME NEW j \in Job, NEW ok \in BOOLEAN, NEW definition \in Definition,
               Register(j, definition, ok)
        PROVE  FinishedStay'
    <2>1. up /\ finished' = finished /\ active' = active /\ (store' = jobs' \/ store' = store)
      BY <1>5, SavesEither DEF Register, history
    <2>2. j \notin finished
      BY <1>5, <2>1 DEF Register, Absent, FinishedStay, Ended
    <2> QED  BY <1>5, <2>1, <2>2, RegisterKeeps, FinishedStays
  <1>6. ASSUME NEW j \in Job, NEW ok \in BOOLEAN, Cancel(j, ok)
        PROVE  FinishedStay'
    <2> DEFINE state == [jobs[j] EXCEPT !.status = "cancelled"]
    <2>1. up /\ finished' = finished /\ active' = active /\ (store' = jobs' \/ store' = store)
      BY <1>6, SavesEither DEF Cancel
    <2>2. ChangesTo(j, state) /\ state.status \in Ended
      <3>1. Known(j) /\ ChangesTo(j, state)
        BY <1>6, CancelKeeps
      <3>2. jobs[j] \in JobState
        BY <3>1 DEF Known, JobsInv, TypeOK
      <3> QED  BY <3>1, <3>2, StateTypes DEF Ended, Status
    <2>3. j \in finished => j \notin active
      BY DEF FinishedStay
    <2> HIDE DEF state
    <2> QED  BY <2>1, <2>2, <2>3, FinishedStays
  <1>7. ASSUME NEW j \in Job, NEW ok \in BOOLEAN, FailJob(j, ok)
        PROVE  FinishedStay'
    <2> DEFINE state == [jobs[j] EXCEPT !.status = "failed"]
    <2>1. up /\ finished' = finished /\ active' = active /\ (store' = jobs' \/ store' = store)
      BY <1>7, SavesEither, PassIsUp DEF FailJob, Unrunnable, Entering, AtDependency, NoRun
    <2>2. ChangesTo(j, state) /\ state.status \in Ended
      <3>1. Known(j) /\ ChangesTo(j, state)
        BY <1>7, FailJobKeeps
      <3>2. jobs[j] \in JobState
        BY <3>1 DEF Known, JobsInv, TypeOK
      <3> QED  BY <3>1, <3>2, StateTypes DEF Ended, Status
    <2>3. j \in finished => j \notin active
      BY DEF FinishedStay
    <2> HIDE DEF state
    <2> QED  BY <2>1, <2>2, <2>3, FinishedStays
  <1>8. ASSUME NEW ok \in BOOLEAN, BeginRun(ok)
        PROVE  FinishedStay'
    <2>1. up /\ finished' = finished /\ active' = active \cup {Top.job}
          /\ (store' = jobs' \/ store' = store)
      BY <1>8, SavesEither, PassIsUp DEF BeginRun, Ready
    <2>2. Top.job \notin finished
      BY <1>8, <2>1 DEF BeginRun, MayBegin, FinishedStay, Ended
    <2>3. Top.job \in Job /\ ChangesTo(Top.job, [jobs[Top.job] EXCEPT !.status = "running"])
      BY <1>8, BeginRunKeeps
    <2> QED  BY <2>1, <2>2, <2>3, FinishedStays
  <1>9. ASSUME RunAborted
        PROVE  FinishedStay'
    <2>1. pass.pc = "run" /\ ReleaseRun /\ finished' = finished
      BY <1>9 DEF RunAborted
    <2> QED  BY <1>9, <2>1, RunAbortedKeeps, FinishedAtEnd
  <1>10. ASSUME RunSucceeds
         PROVE  FinishedStay'
    <2> DEFINE state == Succeeded(jobs[Top.job])
    <2>1. pass.pc = "run" /\ ReleaseRun /\ finished' = finished \cup Delayed
      BY <1>10 DEF RunSucceeds
    <2>2. ChangesTo(Top.job, state) /\ store' = jobs'
      BY <1>10, RunSucceedsKeeps
    <2>3. Top.job \notin finished
      BY <2>1, TopState DEF FinishedStay
    <2>4. Delayed # {} => state.status \in Ended
      <3>1. jobs[Top.job] \in JobState /\ now \in Nat
        BY <2>1, TopState
      <3> QED  BY <3>1, RescheduledTypes DEF Delayed, Ended
    <2>5. finished' \subseteq finished \cup {Top.job}
          /\ (Top.job \in finished' => state.status \in Ended)
      BY <2>1, <2>3, <2>4 DEF Delayed
    <2> HIDE DEF state
    <2> QED  BY <2>1, <2>2, <2>5, FinishedAtEnd
  <1>11. ASSUME RunIsNotSaved
         PROVE  FinishedStay'
    <2> DEFINE state == [jobs[Top.job] EXCEPT !.status = "failed"]
    <2>1. /\ pass.pc = "run" /\ ReleaseRun /\ finished' \subseteq finished \cup {Top.job}
      BY <1>11 DEF RunIsNotSaved, Delayed
    <2>2. ChangesTo(Top.job, state) /\ store' = jobs'
      BY <1>11, RunIsNotSavedKeeps
    <2>3. state.status \in Ended
      <3>1. jobs[Top.job] \in JobState
        BY <2>1, TopState
      <3> QED  BY <3>1, StateTypes DEF Ended, Status
    <2> HIDE DEF state
    <2> QED  BY <2>1, <2>2, <2>3, FinishedAtEnd
  <1>12. ASSUME NEW ok \in BOOLEAN, RunThrows(ok)
         PROVE  FinishedStay'
    <2>1. pass.pc = "run" /\ ReleaseRun /\ finished' = finished /\ (store' = jobs' \/ store' = store)
      BY <1>12, SavesEither DEF RunThrows
    <2> QED  BY <1>12, <2>1, RunThrowsKeeps, FinishedAtEnd
  <1>13. ASSUME Crash
         PROVE  FinishedStay'
    BY <1>13 DEF Crash, history, FinishedStay
  <1>14. ASSUME Tick \/ UNCHANGED vars
         PROVE  FinishedStay'
    BY <1>2, <1>14 DEF Tick, vars, memory, history
  <1> QED  BY <1>1, <1>3, <1>4, <1>5, <1>6, <1>7, <1>8, <1>9, <1>10, <1>11, <1>12, <1>13, <1>14
           DEF Next, PassStep, RunStep

\* What a step may begin: the run of the last frame's job, and no other.
LEMMA OnlyBeginRunBegins ==
  ASSUME JobsInv, [Next]_vars, NEW j \in Job, Runs(j)', ~Runs(j)
  PROVE  j = Top.job /\ \E ok \in BOOLEAN : BeginRun(ok)
  <1>1. pass' # pass /\ pass'.pc = "run"
    BY DEF Runs, Top, Depth
  <1>2. ASSUME NEW ok \in BOOLEAN, BeginRun(ok)
        PROVE  j = Top.job
    <2>1. NoPass.pc = "none"
      BY DEF NoPass
    <2> QED  BY <1>1, <1>2, <2>1, BeginRunKeeps DEF Runs
  <1>3. NoPass.pc = "none"
    BY DEF NoPass
  <1>4. ASSUME NEW ok \in BOOLEAN, NEW i \in Job, FailJob(i, ok)
        PROVE  FALSE
    BY <1>1, <1>3, <1>4, FailJobKeeps
  <1>5. ASSUME RunStep
        PROVE  FALSE
    BY <1>1, <1>3, <1>5, RunAbortedKeeps, RunSucceedsKeeps, RunIsNotSavedKeeps, RunThrowsKeeps
       DEF RunStep, Popped
  <1>6. ASSUME CannotRun
        PROVE  FALSE
    BY <1>1, <1>6, CannotRunKeeps
  <1>7. ASSUME Walk
        PROVE  FALSE
    <2>1. pass \in Pass
      BY DEF JobsInv, TypeOK
    <2> QED  BY <1>1, <1>3, <1>7, <2>1 DEF Walk, GoTo, NextDependency, Pass
  <1>8. ASSUME NEW order \in Orders({i \in Job : Due(jobs[i])}), RunDue(order)
        PROVE  FALSE
    BY <1>1, <1>8, RunDueKeeps
  <1>9. ASSUME Crash
        PROVE  FALSE
    BY <1>1, <1>3, <1>9 DEF Crash
  <1>10. ASSUME \/ \E ok \in BOOLEAN : Start(ok)
                \/ \E i \in Job, ok \in BOOLEAN :
                      Cancel(i, ok) \/ \E definition \in Definition : Register(i, definition, ok)
                \/ Tick \/ UNCHANGED vars
         PROVE  FALSE
    BY <1>1, <1>10 DEF Start, Cancel, Register, Tick, vars, memory
  <1> QED  BY <1>2, <1>4, <1>5, <1>6, <1>7, <1>8, <1>9, <1>10 DEF Next, PassStep

\* A delayed job whose runner has succeeded is never started again, whatever
\* crash or failing save follows (nextStateAfterSuccess, and what start() loads).
THEOREM DelayedJobsSucceedOnlyOnce == Spec => DelayedJobsSucceedOnce
  <1>1. Init => FinishedStay
    BY DEF Init, FinishedStay
  <1>2. JobsInv /\ FinishedStay /\ [Next]_vars => FinishedStay'
    BY FinishedNext
  <1>3. ASSUME JobsInv, FinishedStay, [Next]_vars
        PROVE  \A j \in finished : Runs(j)' => Runs(j)
    <2> SUFFICES ASSUME NEW j \in finished, Runs(j)', ~Runs(j)
                 PROVE  FALSE
      OBVIOUS
    <2>1. j \in Job
      BY <1>3 DEF JobsInv, TypeOK
    <2>2. j = Top.job /\ \E ok \in BOOLEAN : BeginRun(ok)
      BY <1>3, <2>1, OnlyBeginRunBegins
    <2>3. up /\ jobs[j].status = "scheduled"
      BY <1>3, <2>2, PassIsUp DEF BeginRun, Ready, MayBegin
    <2> QED  BY <1>3, <2>3 DEF FinishedStay, Ended
  <1> QED  BY <1>1, <1>2, <1>3, JobsInvariant, PTL DEF Spec, DelayedJobsSucceedOnce

----------------------------------------------------------------------------
(* Why a job is run, after each kind of step.                              *)

\* What the history of a pass and the clock do in every step of the pass.
Grows ==
    /\ window' = window /\ interrupted \subseteq interrupted'
    /\ now \in Nat /\ now' \in Nat /\ now <= now'

\* The state of a job stays, or is one in which it is not run.
Rests(j) == jobs'[j] = jobs[j] \/ jobs'[j].status # "scheduled"

LEMMA MayRunStays ==
  ASSUME JobsInv, NEW j \in Job, Known(j), MayRun(j), Rests(j), Grows
  PROVE  jobs'[j].status = "scheduled" => j \in interrupted' \/ jobs'[j].next_run_at <= now'
  <1>1. jobs[j] \in JobState
    BY DEF Known, JobsInv, TypeOK
  <1>2. jobs[j].next_run_at \in Nat
    BY <1>1, StateTypes
  <1> QED  BY <1>2 DEF MayRun, Rests, Grows

LEMMA WindowStays ==
  ASSUME JobsInv, WindowIsDue, Grows, NEW S \in SUBSET Job,
         \A i \in Job \ S : jobs'[i] = jobs[i] /\ (Runs(i) => Runs(i)'),
         pass # NoPass, pass.completed \subseteq pass'.completed,
         \A n \in 1..Len(pass'.due) : pass'.due[n] \in window,
         \A i \in S \cap window : StillDue(i)'
  PROVE  WindowIsDue'
  <1>1. ASSUME NEW i \in window, i \notin S
        PROVE  StillDue(i)'
    <2>1. i \in Job /\ StillDue(i) /\ jobs'[i] = jobs[i] /\ (Runs(i) => Runs(i)')
      BY <1>1 DEF JobsInv, TypeOK, WindowIsDue
    <2>2. jobs[i].status = "scheduled" => jobs[i].next_run_at \in Nat
      BY <2>1, StateTypes DEF JobsInv, TypeOK, Absent
    <2> QED  BY <2>1, <2>2 DEF StillDue, Grows
  <1> QED  BY <1>1 DEF WindowIsDue, Grows

\* The frames that are left of the stack, and jobs that rest.
LEMMA PrefixStays ==
  ASSUME JobsInv, PassInv, DefinitionsKept, Grows, pass.completed \subseteq pass'.completed,
         Len(pass'.chain) \in 0..Depth,
         \A k \in 1..Len(pass'.chain) : pass'.chain[k] = pass.chain[k] /\ Rests(pass.chain[k].job)
  PROVE  ChainMayRun' /\ EarlierDone'
  <1>1. Depth \in Nat /\ Depth' = Len(pass'.chain)
    BY OnStack DEF Depth
  <1> SUFFICES ASSUME NEW k \in 1..Depth'
               PROVE  LET j == pass'.chain[k].job
                          d == jobs'[j].definition.dependencies
                      IN  /\ jobs'[j].status = "scheduled" =>
                                 j \in interrupted' \/ jobs'[j].next_run_at <= now'
                          /\ \A i \in 1..Len(d) :
                                 i < pass'.chain[k].dependency =>
                                     (d[i] \in window' \ interrupted' => d[i] \in pass'.completed)
    BY DEF ChainMayRun, MayRun, EarlierDone, Dependencies, Done
  <1>2. k \in 1..Depth /\ pass'.chain[k] = pass.chain[k] /\ Rests(pass.chain[k].job)
    BY <1>1
  <1> DEFINE j == pass.chain[k].job
  <1>3. j \in Job /\ Known(j) /\ MayRun(j)
    BY <1>2, OnStack DEF PassInv, ChainMayRun
  <1>4. jobs'[j].status = "scheduled" => j \in interrupted' \/ jobs'[j].next_run_at <= now'
    BY <1>2, <1>3, MayRunStays
  <1>5. jobs'[j].definition.dependencies = Dependencies(j)
    BY <1>2, StackKept
  <1>6. \A i \in 1..Len(Dependencies(j)) :
            i < pass.chain[k].dependency => Done(Dependencies(j)[i])
    BY <1>2 DEF PassInv, EarlierDone
  <1> HIDE DEF j
  <1> QED  BY <1>2, <1>4, <1>5, <1>6 DEF Done, Grows, j

LEMMA PassIsOver ==
  ASSUME pass' = NoPass
  PROVE  PassInv'
  <1>1. NoPass.pc = "none" /\ NoPass.chain = <<>>
    BY DEF NoPass
  <1>2. Depth' = 0
    BY <1>1 DEF Depth
  <1> QED  BY <1>1, <1>2 DEF PassInv, WindowIsDue, ChainMayRun, EnteredMayRun, Entering,
                             AbortedIsInterrupted, EarlierDone, ReturnedIsDone, AllLookedAt

\* Steps of other handlers, during which the pass stays where it is.
LEMMA PassWaits ==
  ASSUME JobsInv, PassInv, DefinitionsKept, Grows, pass' = pass, NEW S \in SUBSET Job,
         \A i \in Job \ S : jobs'[i] = jobs[i],
         pass # NoPass => \A i \in S \cap window : StillDue(i)',
         \A i \in S : Known(i) => jobs'[i].status # "scheduled",
         pass.pc = "enter" => jobs' = jobs,
         AbortedIsInterrupted'
  PROVE  PassInv'
  <1>1. \A i \in Job : Known(i) => Rests(i)
    BY DEF Rests
  <1>2. \A k \in 1..Depth : Rests(pass.chain[k].job)
    BY <1>1, OnStack
  <1>3. ChainMayRun' /\ EarlierDone'
    <2>1. Depth \in Nat /\ Len(pass'.chain) = Depth /\ Depth \in 0..Depth
      BY OnStack DEF Depth
    <2> QED  BY <1>2, <2>1, PrefixStays
  <1>4. WindowIsDue'
    <2>1. CASE pass # NoPass
      <3>1. \A i \in Job : Runs(i) => Runs(i)'
        BY DEF Runs, Top, Depth
      <3>2. \A n \in 1..Len(pass'.due) : pass'.due[n] \in window
        BY <2>1 DEF PassInv, WindowIsDue
      <3> QED  BY <2>1, <3>1, <3>2, WindowStays DEF PassInv
    <2>2. CASE pass = NoPass
      BY <2>2 DEF WindowIsDue
    <2> QED  BY <2>1, <2>2
  <1>5. Top' = Top /\ Depth' = Depth
    BY DEF Top, Depth
  <1>6. pass.chain # <<>> =>
            jobs'[Top.job].definition.dependencies = Dependencies(Top.job)
    <2>1. pass.chain # <<>> => Depth \in 1..Depth /\ Top = pass.chain[Depth]
      BY OnStack
    <2> QED  BY <2>1, StackKept
  <1>7. ReturnedIsDone' /\ AllLookedAt'
    <2>1. pass.pc = "run" => pass.chain # <<>>
      BY DEF JobsInv, PassShape
    <2> QED  BY <1>5, <1>6, <2>1 DEF PassInv, ReturnedIsDone, AllLookedAt, Dependency, Dependencies
  <1>8. EnteredMayRun'
    <2> SUFFICES ASSUME Entering'
                 PROVE  MayRun(Entered)'
      BY DEF EnteredMayRun
    <2>1. jobs' = jobs /\ Entered' = Entered /\ Entering
      BY <1>5 DEF Entering, Entered, Dependency
    <2>2. Entered \in Job /\ Known(Entered) /\ MayRun(Entered)
      BY <2>1, EnteredTypes DEF PassInv, EnteredMayRun
    <2>3. Rests(Entered)
      BY <2>1 DEF Rests
    <2> QED  BY <2>1, <2>2, <2>3, MayRunStays DEF MayRun
  <1> QED  BY <1>3, <1>4, <1>7, <1>8 DEF PassInv

\* Steps of the pass that leave the stack alone, other than the start of a run.
LEMMA PassTurns ==
  ASSUME JobsInv, PassInv, DefinitionsKept, Grows, pass # NoPass,
         pass.pc # "run", pass'.pc # "run", pass'.chain = pass.chain,
         pass.completed \subseteq pass'.completed,
         \A n \in 1..Len(pass'.due) : pass'.due[n] \in window,
         \A i \in Job : \/ jobs'[i] = jobs[i]
                        \/ jobs'[i].status \in {"failed", "cancelled"},
         EnteredMayRun', ReturnedIsDone'
  PROVE  PassInv'
  <1> DEFINE S == {i \in Job : jobs'[i].status \in {"failed", "cancelled"}}
  <1>1. WindowIsDue'
    <2>1. \A i \in Job \ S : jobs'[i] = jobs[i] /\ (Runs(i) => Runs(i)')
      BY DEF Runs
    <2>2. \A i \in S \cap window : StillDue(i)'
      BY DEF StillDue
    <2>3. S \in SUBSET Job
      OBVIOUS
    <2> HIDE DEF S
    <2> QED  BY <2>1, <2>2, <2>3, WindowStays DEF PassInv
  <1>2. ChainMayRun' /\ EarlierDone'
    <2>1. Depth \in Nat /\ Len(pass'.chain) = Depth /\ Depth \in 0..Depth
      BY OnStack DEF Depth
    <2>2. \A i \in Job : Rests(i)
      BY DEF Rests
    <2>3. \A k \in 1..Depth : Rests(pass.chain[k].job)
      BY <2>2, OnStack
    <2> QED  BY <2>1, <2>3, PrefixStays
  <1> QED  BY <1>1, <1>2 DEF PassInv, AbortedIsInterrupted, AllLookedAt

\* The last frame's runJob returns.
LEMMA PassReturns ==
  ASSUME JobsInv, PassInv, DefinitionsKept, Grows, pass.chain # <<>>,
         pass.pc \notin {"none", "next"}, NEW t \in Job, t = Top.job,
         pass'.pc \in {"ran", "not_run"}, pass'.due = pass.due,
         pass.completed \subseteq pass'.completed, Len(pass'.chain) = Depth - 1,
         \A k \in 1..(Depth - 1) : pass'.chain[k] = pass.chain[k],
         \A i \in Job : i # t => jobs'[i] = jobs[i],
         t \in window => StillDue(t)',
         pass'.pc = "ran" => t \in pass'.completed /\ (pass'.chain # <<>> => Dependency' = t)
  PROVE  PassInv'
  <1>1. Depth \in Nat /\ Depth > 0 /\ Top = pass.chain[Depth] /\ DOMAIN pass.chain = 1..Depth
    BY OnStack
  <1>2. WindowIsDue'
    <2>1. \A i \in Job \ {t} : jobs'[i] = jobs[i] /\ (Runs(i) => Runs(i)')
      BY DEF Runs
    <2>2. pass # NoPass
      BY DEF NoPass
    <2>3. \A n \in 1..Len(pass'.due) : pass'.due[n] \in window
      BY <2>2 DEF PassInv, WindowIsDue
    <2>4. {t} \in SUBSET Job /\ \A i \in {t} \cap window : StillDue(i)'
      OBVIOUS
    <2> QED  BY <2>1, <2>2, <2>3, <2>4, WindowStays DEF PassInv
  <1>3. ChainMayRun' /\ EarlierDone'
    <2>1. Len(pass'.chain) \in 0..Depth
      BY <1>1
    <2>2. ASSUME NEW k \in 1..(Depth - 1)
          PROVE  Rests(pass.chain[k].job)
      <3>1. k \in 1..Depth /\ Depth \in 1..Depth /\ k # Depth
        BY <1>1
      <3>2. pass.chain[k].job # t
        BY <1>1, <3>1 DEF JobsInv, NobodyWaitsForItself
      <3>3. pass.chain[k].job \in Job
        BY <3>1, OnStack
      <3> QED  BY <3>2, <3>3 DEF Rests
    <2> QED  BY <1>1, <2>1, <2>2, PrefixStays
  <1> QED  BY <1>2, <1>3 DEF PassInv, EnteredMayRun, Entering, AbortedIsInterrupted,
                             ReturnedIsDone, AllLookedAt

\* The job of the last frame is run.
LEMMA PassRuns ==
  ASSUME JobsInv, PassInv, DefinitionsKept, Grows, pass.pc = "loop", NEW t \in Job, t = Top.job,
         ~AtDependency, pass'.pc = "run", pass'.due = pass.due, pass'.chain = pass.chain,
         pass'.completed = pass.completed, Top' = Top, t \notin aborted',
         \A i \in Job : i # t => jobs'[i] = jobs[i],
         jobs'[t].status = "running"
  PROVE  PassInv'
  <1>1. pass.chain # <<>> /\ pass # NoPass
    BY DEF JobsInv, PassShape, NoPass
  <1>2. Depth \in 1..Depth /\ Depth \in Nat /\ Top = pass.chain[Depth] /\ Len(pass'.chain) = Depth
    BY <1>1, OnStack DEF Depth
  <1>3. WindowIsDue'
    <2>1. \A i \in Job \ {t} : jobs'[i] = jobs[i] /\ (Runs(i) => Runs(i)')
      BY DEF Runs
    <2>2. \A n \in 1..Len(pass'.due) : pass'.due[n] \in window
      BY <1>1 DEF PassInv, WindowIsDue
    <2>3. {t} \in SUBSET Job /\ \A i \in {t} \cap window : StillDue(i)'
      BY DEF StillDue, Runs
    <2> QED  BY <1>1, <2>1, <2>2, <2>3, WindowStays DEF PassInv
  <1>4. ChainMayRun' /\ EarlierDone'
    <2>1. \A i \in Job : Rests(i)
      BY DEF Rests
    <2>2. \A k \in 1..Depth : Rests(pass.chain[k].job)
      BY <2>1, OnStack
    <2> QED  BY <1>2, <2>2, PrefixStays
  <1>5. AllLookedAt'
    <2>1. jobs'[t].definition.dependencies = Dependencies(t)
      BY <1>2, StackKept
    <2>2. ~(Top.dependency <= Len(Dependencies(t)))
      BY DEF AtDependency, Dependencies
    <2>3. Top.dependency \in Nat
      BY <1>2, OnStack
    <2>4. Len(Dependencies(t)) \in Nat
      <3>1. jobs[t] \in JobState
        BY <1>1, OnStack
      <3>2. Dependencies(t) \in Seq(Job)
        BY <3>1, StateTypes, DefinitionTypes DEF Dependencies
      <3> QED  BY <3>2
    <2>5. Top.dependency > Len(Dependencies(t))
      BY <2>2, <2>3, <2>4
    <2> QED  BY <2>1, <2>5 DEF AllLookedAt, Dependencies
  <1>6. AbortedIsInterrupted'
    BY DEF AbortedIsInterrupted, WasAborted
  <1> QED  BY <1>3, <1>4, <1>5, <1>6 DEF PassInv, EnteredMayRun, Entering, ReturnedIsDone

\* A dependency that runJob is to pass over, or that it has just run, is done.
LEMMA NextIsDone ==
  ASSUME JobsInv, PassInv, pass.chain # <<>>,
         \/ pass.pc = "ran"
         \/ /\ AtDependency /\ ~DependencyDue(jobs[Dependency])
            /\ jobs[Dependency].status \in {"scheduled", "running", "completed"}
  PROVE  Done(Dependency)
  <1>1. CASE pass.pc = "ran"
    BY <1>1 DEF PassInv, ReturnedIsDone, Done
  <1>2. CASE /\ AtDependency /\ ~DependencyDue(jobs[Dependency])
             /\ jobs[Dependency].status \in {"scheduled", "running", "completed"}
    <2> SUFFICES ASSUME Dependency \in window \ interrupted
                 PROVE  Dependency \in pass.completed
      BY DEF Done
    <2>1. pass.pc = "loop" /\ pass # NoPass
      BY <1>2 DEF AtDependency, NoPass
    <2>2. StillDue(Dependency)
      BY <2>1 DEF PassInv, WindowIsDue
    <2> QED  BY <1>2, <2>1, <2>2 DEF StillDue, Runs, DependencyDue, Due
  <1> QED  BY <1>1, <1>2

\* The loop of the last frame goes on with the next dependency.
LEMMA PassGoesOn ==
  ASSUME JobsInv, PassInv, Grows, jobs' = jobs, interrupted' = interrupted,
         pass.chain # <<>>, pass.pc \notin {"none", "next", "run"},
         Done(Dependency), NextDependency
  PROVE  PassInv'
  <1>1. /\ pass'.pc = "loop" /\ pass'.due = pass.due /\ pass'.completed = pass.completed
        /\ Len(pass'.chain) = Depth
        /\ \A k \in 1..(Depth - 1) : pass'.chain[k] = pass.chain[k]
        /\ pass'.chain[Depth].job = Top.job
        /\ pass'.chain[Depth].dependency = Top.dependency + 1
    BY TurnsToNext DEF JobsInv
  <1>2. Depth \in Nat /\ Depth' = Depth /\ Top = pass.chain[Depth] /\ Depth \in 1..Depth
        /\ Top.dependency \in Nat /\ pass # NoPass
    BY <1>1, OnStack DEF Depth, NoPass
  <1>3. WindowIsDue'
    <2> DEFINE S == {}
    <2>1. \A i \in Job \ S : jobs'[i] = jobs[i] /\ (Runs(i) => Runs(i)')
      BY DEF Runs
    <2>2. \A n \in 1..Len(pass'.due) : pass'.due[n] \in window
      BY <1>1, <1>2 DEF PassInv, WindowIsDue
    <2>3. S \in SUBSET Job /\ \A i \in S \cap window : StillDue(i)'
      OBVIOUS
    <2> HIDE DEF S
    <2> QED  BY <1>1, <1>2, <2>1, <2>2, <2>3, WindowStays DEF PassInv
  <1>4. \A k \in 1..Depth : k \in 1..(Depth - 1) \/ k = Depth
    BY <1>2
  <1>5. ChainMayRun'
    <2> SUFFICES ASSUME NEW k \in 1..Depth
                 PROVE  LET j == pass'.chain[k].job
                        IN  jobs[j].status = "scheduled" =>
                                j \in interrupted \/ jobs[j].next_run_at <= now'
      BY <1>2 DEF ChainMayRun, MayRun
    <2>1. pass'.chain[k].job = pass.chain[k].job
      BY <1>1, <1>2, <1>4
    <2> DEFINE j == pass.chain[k].job
    <2>2. j \in Job /\ Known(j) /\ MayRun(j) /\ Rests(j)
      BY OnStack DEF PassInv, ChainMayRun, Rests
    <2> HIDE DEF j
    <2> QED  BY <2>1, <2>2, MayRunStays DEF j
  <1>6. EarlierDone'
    <2> SUFFICES ASSUME NEW k \in 1..Depth,
                        NEW i \in 1..Len(Dependencies(pass'.chain[k].job)),
                        i < pass'.chain[k].dependency
                 PROVE  Done(Dependencies(pass'.chain[k].job)[i])
      BY <1>1, <1>2 DEF EarlierDone, Done, Dependencies, Grows
    <2>1. CASE k \in 1..(Depth - 1)
      BY <1>1, <2>1 DEF PassInv, EarlierDone
    <2>2. CASE k = Depth
      <3>1. pass'.chain[k].job = Top.job /\ i \in Nat /\ (i < Top.dependency \/ i = Top.dependency)
        BY <1>1, <1>2, <2>2
      <3>2. CASE i < Top.dependency
        BY <1>2, <3>1, <3>2 DEF PassInv, EarlierDone
      <3>3. CASE i = Top.dependency
        BY <3>1, <3>3 DEF Dependency, Dependencies
      <3> QED  BY <3>1, <3>2, <3>3
    <2> QED  BY <1>4, <2>1, <2>2
  <1> QED  BY <1>1, <1>3, <1>5, <1>6 DEF PassInv, EnteredMayRun, Entering, AbortedIsInterrupted,
                                         ReturnedIsDone, AllLookedAt

\* runJob goes further with the job it was called for.
LEMMA PassEnters ==
  ASSUME JobsInv, PassInv, Grows, jobs' = jobs, interrupted' = interrupted,
         NEW j \in Job, j = Entered, Entering,
         pass' = [pass EXCEPT !.pc = "loop", !.chain = Append(@, [job |-> j, dependency |-> 1])]
  PROVE  PassInv'
  <1>1. /\ pass'.pc = "loop" /\ pass'.due = pass.due /\ pass'.completed = pass.completed
        /\ Len(pass'.chain) = Depth + 1
        /\ \A k \in 1..Depth : pass'.chain[k] = pass.chain[k]
        /\ pass'.chain[Depth + 1].job = j
        /\ pass'.chain[Depth + 1].dependency = 1
    <2>1. TypeOK
      BY DEF JobsInv
    <2> QED  BY <2>1, Pushes
  <1>2. Depth \in Nat /\ Depth' = Depth + 1 /\ pass # NoPass /\ pass.pc = "enter" /\ Known(j)
    BY <1>1, OnStack, EnteredTypes DEF Depth, NoPass, Entering
  <1>3. WindowIsDue'
    <2> DEFINE S == {}
    <2>1. \A i \in Job \ S : jobs'[i] = jobs[i] /\ (Runs(i) => Runs(i)')
      BY <1>2 DEF Runs
    <2>2. \A n \in 1..Len(pass'.due) : pass'.due[n] \in window
      BY <1>1, <1>2 DEF PassInv, WindowIsDue
    <2>3. S \in SUBSET Job /\ \A i \in S \cap window : StillDue(i)'
      OBVIOUS
    <2> HIDE DEF S
    <2> QED  BY <1>1, <1>2, <2>1, <2>2, <2>3, WindowStays DEF PassInv
  <1>4. \A k \in 1..(Depth + 1) : k \in 1..Depth \/ k = Depth + 1
    BY <1>2
  <1>5. ChainMayRun'
    <2> SUFFICES ASSUME NEW k \in 1..(Depth + 1)
                 PROVE  LET i == pass'.chain[k].job
                        IN  jobs[i].status = "scheduled" =>
                                i \in interrupted \/ jobs[i].next_run_at <= now'
      BY <1>2 DEF ChainMayRun, MayRun
    <2> DEFINE i == pass'.chain[k].job
    <2>1. CASE k \in 1..Depth
      <3>1. i = pass.chain[k].job
        BY <1>1, <2>1
      <3>2. i \in Job /\ Known(i) /\ MayRun(i)
        BY <2>1, <3>1, OnStack DEF PassInv, ChainMayRun
      <3> QED  BY <3>2, MayRunStays DEF Rests
    <2>2. CASE k = Depth + 1
      <3>1. i = j /\ MayRun(j)
        BY <1>1, <2>2 DEF PassInv, EnteredMayRun
      <3> QED  BY <1>2, <3>1, MayRunStays DEF Rests
    <2> QED  BY <1>4, <2>1, <2>2
  <1>6. EarlierDone'
    <2> SUFFICES ASSUME NEW k \in 1..(Depth + 1),
                        NEW i \in 1..Len(Dependencies(pass'.chain[k].job)),
                        i < pass'.chain[k].dependency
                 PROVE  Done(Dependencies(pass'.chain[k].job)[i])
      BY <1>1, <1>2 DEF EarlierDone, Done, Dependencies, Grows
    <2>1. k # Depth + 1
      BY <1>1
    <2> QED  BY <1>1, <1>4, <2>1 DEF PassInv, EarlierDone
  <1> QED  BY <1>1, <1>3, <1>5, <1>6 DEF PassInv, EnteredMayRun, Entering, AbortedIsInterrupted,
                                         ReturnedIsDone, AllLookedAt

\* A job at which runJob is called is due.
LEMMA WalkIsDue ==
  ASSUME JobsInv, PassInv, Walk
  PROVE  PassInv'
  <1> USE DEF Walk
  <1>1. Grows /\ jobs' = jobs /\ interrupted' = interrupted /\ DefinitionsKept
    BY NothingRedefined DEF Grows, NoRun, PassOnly, JobsInv, TypeOK
  <1>2. pass \in Pass /\ Depth \in Nat /\ TypeOK
    BY OnStack DEF JobsInv, TypeOK
  <1>3. pass # NoPass => \A n \in 1..Len(pass.due) : pass.due[n] \in window
    BY DEF PassInv, WindowIsDue
  <1>4. ASSUME NEW pc \in {"enter", "ran", "not_run"}, pass' = [pass EXCEPT !.pc = pc],
               pass.pc \notin {"none", "run"},
               pc = "enter" => EnteredMayRun',
               pc = "ran" /\ pass.chain # <<>> => Dependency \in pass.completed
        PROVE  PassInv'
    <2>1. /\ pass'.pc = pc /\ pass'.due = pass.due
          /\ pass'.chain = pass.chain /\ pass'.completed = pass.completed
      BY <1>2, <1>4, GoesTo
    <2>2. EnteredMayRun'
      BY <1>4, <2>1 DEF EnteredMayRun, Entering
    <2>3. ReturnedIsDone'
      BY <1>1, <1>4, <2>1 DEF ReturnedIsDone, Dependency, Top, Depth
    <2>4. pass # NoPass
      BY <1>4 DEF NoPass
    <2> QED  BY <1>1, <1>3, <1>4, <2>1, <2>2, <2>3, <2>4, PassTurns
  <1>5. CASE pass.pc = "next" /\ pass.due # <<>> /\ GoTo("enter")
    <2>1. pass.chain = <<>> /\ pass # NoPass /\ pass.due \in Seq(Job)
      BY <1>2, <1>5 DEF JobsInv, PassShape, NoPass, Pass
    <2>2. /\ pass'.due = pass.due /\ pass'.chain = pass.chain /\ pass'.completed = pass.completed
      BY <1>2, <1>5 DEF GoTo, Pass
    <2>3. Entered' = pass.due[1] /\ pass.due[1] \in window
      BY <1>3, <1>5, <2>1, <2>2 DEF Entered
    <2>4. StillDue(pass.due[1])
      BY <2>1, <2>3 DEF PassInv, WindowIsDue
    <2>5. EnteredMayRun'
      BY <1>1, <1>5, <2>2, <2>3, <2>4
         DEF EnteredMayRun, Entering, MayRun, StillDue, Runs, NoRun, PassOnly
    <2> QED  BY <1>4, <1>5, <2>1, <2>5 DEF GoTo
  <1>6. CASE pass.pc = "next" /\ pass.due = <<>> /\ pass' = NoPass
    BY <1>6, PassIsOver
  <1>7. CASE /\ pass.pc \in {"ran", "not_run"} /\ pass.chain = <<>>
             /\ pass' = [pass EXCEPT !.pc = "next", !.due = Tail(@)]
    <2>1. pass'.pc = "next" /\ pass'.due = Tail(pass.due) /\ pass'.chain = pass.chain
          /\ pass'.completed = pass.completed /\ pass # NoPass
      BY <1>2, <1>7 DEF Pass, NoPass
    <2>2. pass.due \in Seq(Job) /\ pass.due # <<>>
      BY <1>2, <1>7 DEF Pass, JobsInv, PassShape
    <2>3. \A n \in 1..Len(Tail(pass.due)) : Tail(pass.due)[n] = pass.due[n + 1]
                                            /\ n + 1 \in 1..Len(pass.due)
      BY <2>2
    <2>4. \A n \in 1..Len(pass'.due) : pass'.due[n] \in window
      BY <1>3, <2>1, <2>3
    <2>5. EnteredMayRun' /\ ReturnedIsDone'
      BY <2>1 DEF EnteredMayRun, Entering, ReturnedIsDone
    <2> QED  BY <1>1, <1>7, <2>1, <2>4, <2>5, PassTurns
  <1>8. CASE pass.pc = "enter" /\ Entered \in pass.completed /\ GoTo("ran")
    <2>1. pass.chain # <<>> => Dependency \in pass.completed
      BY <1>8 DEF Entered
    <2> QED  BY <1>4, <1>8, <2>1 DEF GoTo
  <1>9. CASE /\ pass.pc = "enter" /\ Entered \notin pass.completed
             /\ jobs[Entered].status # "scheduled" /\ GoTo("not_run")
    BY <1>4, <1>9 DEF GoTo
  <1>10. CASE /\ Entering /\ ~OnChain(Entered)
              /\ pass' = [pass EXCEPT !.pc = "loop",
                                      !.chain = Append(@, [job |-> Entered, dependency |-> 1])]
    BY <1>1, <1>10, EnteredTypes, PassEnters
  <1>11. CASE AtDependency /\ DependencyDue(jobs[Dependency]) /\ GoTo("enter")
    <2>1. pass.pc = "loop" /\ pass.chain # <<>>
      BY <1>11 DEF AtDependency, JobsInv, PassShape
    <2>2. pass'.chain = pass.chain
      BY <1>2, <1>11 DEF GoTo, Pass
    <2>3. Entered' = Dependency
      BY <1>1, <2>1, <2>2 DEF Entered, Dependency, Top, Depth
    <2>4. EnteredMayRun'
      BY <1>1, <1>11, <2>3 DEF EnteredMayRun, MayRun, DependencyDue, Due, PassOnly
    <2> QED  BY <1>4, <1>11, <2>1, <2>4 DEF GoTo
  <1>12. CASE /\ AtDependency /\ ~DependencyDue(jobs[Dependency])
              /\ jobs[Dependency].status \in {"scheduled", "running", "completed"}
              /\ NextDependency
    <2>1. pass.chain # <<>> /\ pass.pc = "loop"
      BY <1>12 DEF AtDependency, JobsInv, PassShape
    <2>2. Done(Dependency)
      BY <1>12, <2>1, NextIsDone
    <2> QED  BY <1>1, <1>12, <2>1, <2>2, PassGoesOn
  <1>13. CASE pass.pc = "ran" /\ pass.chain # <<>> /\ NextDependency
    <2>1. Done(Dependency)
      BY <1>13, NextIsDone
    <2> QED  BY <1>1, <1>13, <2>1, PassGoesOn
  <1> QED  BY <1>5, <1>6, <1>7, <1>8, <1>9, <1>10, <1>11, <1>12, <1>13

LEMMA FailJobIsDue ==
  ASSUME JobsInv, PassInv, NEW j \in Job, NEW ok \in BOOLEAN, FailJob(j, ok)
  PROVE  PassInv'
  <1>1. /\ pass.pc \in {"enter", "loop", "not_run"} /\ pass.chain # <<>> /\ pass # NoPass
        /\ interrupted' = interrupted /\ Grows
    BY DEF FailJob, Unrunnable, Entering, AtDependency, NoPass, Grows, NoRun, PassOnly,
           JobsInv, TypeOK
  <1>2. DefinitionsKept /\ Known(j) /\ ChangesTo(j, [jobs[j] EXCEPT !.status = "failed"])
    BY FailJobKeeps
  <1>3. /\ jobs'[j].status = "failed" /\ \A i \in Job : i # j => jobs'[i] = jobs[i]
    <2>1. jobs[j] \in JobState
      BY <1>2 DEF Known, JobsInv, TypeOK
    <2>2. [jobs[j] EXCEPT !.status = "failed"].status = "failed"
      BY <2>1, StateTypes DEF Status
    <2> QED  BY <1>2, <2>2 DEF ChangesTo
  <1>4. CASE ~ok
    BY <1>4, PassIsOver DEF FailJob, IfSaved
  <1>5. CASE ok /\ pass.pc = "enter"
    <2>1. /\ pass'.pc = "not_run" /\ pass'.due = pass.due
          /\ pass'.chain = pass.chain /\ pass'.completed = pass.completed
      BY <1>5, GoesTo DEF FailJob, IfSaved, JobsInv
    <2>2. \A n \in 1..Len(pass'.due) : pass'.due[n] \in window
      BY <1>1, <2>1 DEF PassInv, WindowIsDue
    <2>3. EnteredMayRun' /\ ReturnedIsDone'
      BY <2>1 DEF EnteredMayRun, Entering, ReturnedIsDone
    <2> QED  BY <1>1, <1>2, <1>3, <1>5, <2>1, <2>2, <2>3, PassTurns
  <1>6. CASE ok /\ pass.pc # "enter"
    <2>1. j = Top.job
      BY <1>6 DEF FailJob, Unrunnable, Entering
    <2>2. pass' = Returned("not_run") /\ TypeOK
      BY <1>6 DEF FailJob, IfSaved, JobsInv
    <2>3. /\ pass'.pc = "not_run" /\ pass'.due = pass.due
          /\ pass'.completed = pass.completed /\ Len(pass'.chain) = Depth - 1
          /\ \A k \in 1..(Depth - 1) : pass'.chain[k] = pass.chain[k]
      BY <1>1, <2>2, ReturnsOnly, Returns, PassTypes DEF TypeOK
    <2>4. StillDue(j)'
      BY <1>3 DEF StillDue
    <2> QED  BY <1>1, <1>2, <1>3, <2>1, <2>3, <2>4, PassReturns
  <1> QED  BY <1>4, <1>5, <1>6

LEMMA CannotRunIsDue ==
  ASSUME JobsInv, PassInv, CannotRun
  PROVE  PassInv'
  <1>1. /\ pass.pc = "loop" /\ pass.chain # <<>> /\ pass # NoPass /\ jobs' = jobs
        /\ interrupted' = interrupted /\ Grows
    BY DEF CannotRun, Ready, NoPass, Grows, NoRun, PassOnly, JobsInv, TypeOK, PassShape
  <1>2. /\ DefinitionsKept /\ pass'.pc = "not_run"
        /\ pass'.due = pass.due /\ pass'.completed = pass.completed
        /\ Len(pass'.chain) = Depth - 1
        /\ \A k \in 1..(Depth - 1) : pass'.chain[k] = pass.chain[k]
    BY CannotRunKeeps
  <1>3. PICK t \in Job : t = Top.job
    BY <1>1, OnStack
  <1>4. t \in window => StillDue(t)'
    <2>1. now' = now
      BY DEF CannotRun, PassOnly
    <2> QED  BY <1>1, <1>2, <2>1 DEF PassInv, WindowIsDue, StillDue, Runs
  <1> QED  BY <1>1, <1>2, <1>3, <1>4, PassReturns

LEMMA BeginRunIsDue ==
  ASSUME JobsInv, PassInv, NEW ok \in BOOLEAN, BeginRun(ok)
  PROVE  PassInv'
  <1> DEFINE t == Top.job
  <1>1. /\ pass.pc = "loop" /\ ~AtDependency /\ t \notin aborted'
        /\ interrupted' = interrupted /\ Grows
    BY DEF BeginRun, Ready, Grows, PassOnly, JobsInv, TypeOK
  <1>2. /\ DefinitionsKept /\ t \in Job /\ Known(t) /\ t = Top.job
        /\ ChangesTo(t, [jobs[t] EXCEPT !.status = "running"])
        /\ \/ pass' = NoPass
           \/ /\ pass'.pc = "run" /\ pass'.due = pass.due /\ Top' = Top
              /\ pass'.completed = pass.completed /\ pass'.chain = pass.chain
    BY BeginRunKeeps
  <1> HIDE DEF t
  <1>3. jobs'[t].status = "running" /\ \A i \in Job : i # t => jobs'[i] = jobs[i]
    <2>1. jobs[t] \in JobState
      BY <1>2 DEF Known, JobsInv, TypeOK
    <2>2. [jobs[t] EXCEPT !.status = "running"].status = "running"
      BY <2>1, StateTypes DEF Status
    <2> QED  BY <1>2, <2>2 DEF ChangesTo
  <1>4. CASE pass' = NoPass
    BY <1>4, PassIsOver
  <1>5. CASE pass' # NoPass
    BY <1>1, <1>2, <1>3, <1>5, PassRuns
  <1> QED  BY <1>4, <1>5

\* The end of a run, for each of its outcomes.
LEMMA RunEndIsDue ==
  ASSUME JobsInv, PassInv, DefinitionsKept, pass.pc = "run", ReleaseRun, PassOnly,
         NEW t \in Job, t = Top.job, NEW state, ChangesTo(t, state),
         NEW outcome \in {"ran", "not_run"}, NEW D, pass.completed \subseteq D,
         Popped(outcome, D), outcome = "ran" => t \in D,
         \/ state.status = "failed"
         \/ state.status \in {"scheduled", "completed"} /\ t \in D
         \/ state.status = "scheduled" /\ t \in interrupted
  PROVE  PassInv'
  <1>1. Grows /\ pass.chain # <<>> /\ interrupted' = interrupted
    BY DEF Grows, ReleaseRun, PassOnly, JobsInv, TypeOK, PassShape
  <1>2. /\ pass'.pc = outcome /\ pass'.due = pass.due /\ pass'.completed = D
        /\ Len(pass'.chain) = Depth - 1
        /\ \A k \in 1..(Depth - 1) : pass'.chain[k] = pass.chain[k]
        /\ pass'.chain # <<>> => Dependency' = t
    BY DEF Popped
  <1>3. jobs'[t] = state /\ \A i \in Job : i # t => jobs'[i] = jobs[i]
    BY DEF ChangesTo
  <1>4. StillDue(t)'
    BY <1>1, <1>2, <1>3 DEF StillDue
  <1> QED  BY <1>1, <1>2, <1>3, <1>4, PassReturns

LEMMA RunStepIsDue ==
  ASSUME JobsInv, PassInv, RunStep
  PROVE  PassInv'
  <1> DEFINE t == Top.job
  <1>1. pass.pc = "run" /\ ReleaseRun /\ PassOnly
    BY DEF RunStep, RunAborted, RunSucceeds, RunIsNotSaved, RunThrows
  <1>2. /\ t \in Job /\ t = Top.job /\ jobs[t] \in JobState /\ now \in Nat
        /\ pass.completed \subseteq Job
    BY <1>1, TopState
  <1>3. [jobs[t] EXCEPT !.status = "failed"].status = "failed"
    BY <1>2, StateTypes DEF Status
  <1> HIDE DEF t
  <1>4. CASE RunAborted
    <2>1. /\ DefinitionsKept /\ ChangesTo(t, Rescheduled(jobs[t]))
          /\ Popped("not_run", pass.completed)
      BY <1>4, RunAbortedKeeps DEF t
    <2>2. Rescheduled(jobs[t]).status = "scheduled" /\ t \in interrupted
      BY <1>1, <1>2, <1>4, RescheduledTypes DEF RunAborted, PassInv, AbortedIsInterrupted
    <2> QED  BY <1>1, <1>2, <2>1, <2>2, RunEndIsDue
  <1>5. CASE RunSucceeds
    <2> DEFINE D == pass.completed \cup {t}
    <2>1. /\ DefinitionsKept /\ ChangesTo(t, Succeeded(jobs[t])) /\ Popped("ran", D)
      BY <1>5, RunSucceedsKeeps DEF t
    <2>2. Succeeded(jobs[t]).status \in {"scheduled", "completed"}
      BY <1>2, RescheduledTypes
    <2>3. pass.completed \subseteq D /\ t \in D
      OBVIOUS
    <2> HIDE DEF D
    <2> QED  BY <1>1, <1>2, <2>1, <2>2, <2>3, RunEndIsDue
  <1>6. CASE RunIsNotSaved
    <2>1. /\ DefinitionsKept /\ ChangesTo(t, [jobs[t] EXCEPT !.status = "failed"])
          /\ \E D \in SUBSET Job : pass.completed \subseteq D /\ Popped("not_run", D)
      BY <1>6, RunIsNotSavedKeeps DEF t
    <2>2. PICK D \in SUBSET Job : pass.completed \subseteq D /\ Popped("not_run", D)
      BY <2>1
    <2> QED  BY <1>1, <1>2, <1>3, <2>1, <2>2, RunEndIsDue
  <1>7. ASSUME NEW ok \in BOOLEAN, RunThrows(ok)
        PROVE  PassInv'
    <2>1. /\ DefinitionsKept /\ ChangesTo(t, [jobs[t] EXCEPT !.status = "failed"])
          /\ pass' = NoPass \/ Popped("not_run", pass.completed)
      BY <1>7, RunThrowsKeeps DEF t
    <2>2. CASE pass' = NoPass
      BY <2>2, PassIsOver
    <2>3. CASE Popped("not_run", pass.completed)
      BY <1>1, <1>2, <1>3, <2>1, <2>3, RunEndIsDue
    <2> QED  BY <2>1, <2>2, <2>3
  <1> QED  BY <1>4, <1>5, <1>6, <1>7 DEF RunStep

LEMMA RegisterIsDue ==
  ASSUME JobsInv, PassInv, NEW j \in Job, NEW definition \in Definition, NEW ok \in BOOLEAN,
         Register(j, definition, ok)
  PROVE  PassInv'
  <1>1. /\ pass' = pass /\ jobs[j] = Absent /\ pass.pc # "enter"
        /\ UNCHANGED <<window, interrupted, aborted, now>> /\ Grows
    BY DEF Register, Awaiting, history, Grows, JobsInv, TypeOK
  <1>2. DefinitionsKept /\ \A i \in Job : i # j => jobs'[i] = jobs[i]
    BY RegisterKeeps DEF ChangesTo
  <1>3. pass # NoPass => j \notin window
    BY <1>1 DEF PassInv, WindowIsDue, StillDue, Absent
  <1>4. AbortedIsInterrupted'
    <2> SUFFICES ASSUME pass.pc = "run", WasAborted'
                 PROVE  Top'.job \in interrupted
      BY <1>1 DEF AbortedIsInterrupted
    <2>1. Top' = Top /\ Top.job \in Job /\ Top.job # j
      BY <1>1, TopState DEF Top, Depth, Known
    <2>2. WasAborted
      BY <1>1, <1>2, <2>1 DEF WasAborted
    <2> QED  BY <2>1, <2>2 DEF PassInv, AbortedIsInterrupted
  <1>5. ~Known(j)
    BY <1>1 DEF Known
  <1> DEFINE S == {j}
  <1>6. /\ S \in SUBSET Job /\ \A i \in Job \ S : jobs'[i] = jobs[i]
        /\ pass # NoPass => \A i \in S \cap window : StillDue(i)'
        /\ \A i \in S : Known(i) => jobs'[i].status # "scheduled"
    BY <1>2, <1>3, <1>5
  <1> HIDE DEF S
  <1> QED  BY <1>1, <1>2, <1>4, <1>6, PassWaits

LEMMA CancelIsDue ==
  ASSUME JobsInv, PassInv, NEW j \in Job, NEW ok \in BOOLEAN, Cancel(j, ok)
  PROVE  PassInv'
  <1>1. /\ pass' = pass /\ pass.pc # "enter" /\ UNCHANGED <<window, now>> /\ Grows
        /\ j \in active => j \in interrupted'
        /\ aborted' \subseteq aborted \cup {j} /\ (j \in aborted' => j \in aborted \/ j \in active)
    BY DEF Cancel, Awaiting, Grows, JobsInv, TypeOK
  <1>2. DefinitionsKept /\ \A i \in Job : i # j => jobs'[i] = jobs[i]
    BY CancelKeeps DEF ChangesTo
  <1>3. jobs'[j].status = "cancelled"
    <2>1. Known(j) /\ ChangesTo(j, [jobs[j] EXCEPT !.status = "cancelled"])
      BY CancelKeeps
    <2>2. jobs[j] \in JobState
      BY <2>1 DEF Known, JobsInv, TypeOK
    <2>3. [jobs[j] EXCEPT !.status = "cancelled"].status = "cancelled"
      BY <2>2, StateTypes DEF Status
    <2> QED  BY <2>1, <2>3 DEF ChangesTo
  <1>4. AbortedIsInterrupted'
    <2> SUFFICES ASSUME pass.pc = "run", WasAborted'
                 PROVE  Top'.job \in interrupted'
      BY <1>1 DEF AbortedIsInterrupted
    <2>1. Top' = Top /\ Top.job \in Job /\ Top.job \in active
      BY <1>1, TopState DEF Top, Depth
    <2>2. CASE Top.job = j
      BY <1>1, <2>1, <2>2
    <2>3. CASE Top.job # j
      <3>1. WasAborted
        BY <1>1, <1>2, <2>1, <2>3 DEF WasAborted
      <3> QED  BY <1>1, <2>1, <3>1 DEF PassInv, AbortedIsInterrupted, Grows
    <2> QED  BY <2>2, <2>3
  <1> DEFINE S == {j}
  <1>5. /\ S \in SUBSET Job /\ \A i \in Job \ S : jobs'[i] = jobs[i]
        /\ pass # NoPass => \A i \in S \cap window : StillDue(i)'
        /\ \A i \in S : Known(i) => jobs'[i].status # "scheduled"
    BY <1>2, <1>3 DEF StillDue
  <1> HIDE DEF S
  <1> QED  BY <1>1, <1>2, <1>4, <1>5, PassWaits

LEMMA TickIsDue ==
  ASSUME JobsInv, PassInv, Tick \/ UNCHANGED vars
  PROVE  PassInv'
  <1>1. /\ pass' = pass /\ jobs' = jobs /\ UNCHANGED <<window, interrupted, aborted>> /\ Grows
    BY DEF Tick, vars, memory, history, Grows, JobsInv, TypeOK
  <1>2. DefinitionsKept
    BY <1>1, NothingRedefined
  <1>3. AbortedIsInterrupted'
    BY <1>1 DEF PassInv, AbortedIsInterrupted, WasAborted, Top, Depth
  <1> DEFINE S == {}
  <1>4. /\ S \in SUBSET Job /\ \A i \in Job \ S : jobs'[i] = jobs[i]
        /\ pass # NoPass => \A i \in S \cap window : StillDue(i)'
        /\ \A i \in S : Known(i) => jobs'[i].status # "scheduled"
    BY <1>1
  <1> HIDE DEF S
  <1> QED  BY <1>1, <1>2, <1>3, <1>4, PassWaits

LEMMA RunDueIsDue ==
  ASSUME JobsInv, PassInv, NEW order \in Orders({j \in Job : Due(jobs[j])}), RunDue(order)
  PROVE  PassInv'
  <1>1. /\ pass'.pc = "next" /\ pass'.chain = <<>>
        /\ \A n \in 1..Len(pass'.due) : pass'.due[n] \in window'
    BY RunDueKeeps
  <1>2. \A j \in window' : StillDue(j)'
    BY DEF RunDue, Due, StillDue
  <1>3. Depth' = 0
    BY <1>1 DEF Depth
  <1> QED  BY <1>1, <1>2, <1>3
           DEF PassInv, WindowIsDue, ChainMayRun, EnteredMayRun, Entering,
               AbortedIsInterrupted, EarlierDone, ReturnedIsDone, AllLookedAt

LEMMA PassNext ==
  ASSUME JobsInv, PassInv, [Next]_vars
  PROVE  PassInv'
  <1>1. ASSUME NEW ok \in BOOLEAN, Start(ok)
        PROVE  PassInv'
    <2>1. pass' = NoPass
      BY <1>1 DEF Start, JobsInv, PassShape
    <2> QED  BY <2>1, PassIsOver
  <1>2. ASSUME NEW order \in Orders({j \in Job : Due(jobs[j])}), RunDue(order)
        PROVE  PassInv'
    BY <1>2, RunDueIsDue
  <1>3. ASSUME NEW j \in Job, NEW ok \in BOOLEAN, Cancel(j, ok)
        PROVE  PassInv'
    BY <1>3, CancelIsDue
  <1>4. ASSUME NEW j \in Job, NEW ok \in BOOLEAN, NEW definition \in Definition,
               Register(j, definition, ok)
        PROVE  PassInv'
    BY <1>4, RegisterIsDue
  <1>5. ASSUME NEW ok \in BOOLEAN, BeginRun(ok)
        PROVE  PassInv'
    BY <1>5, BeginRunIsDue
  <1>6. ASSUME NEW ok \in BOOLEAN, NEW j \in Job, FailJob(j, ok)
        PROVE  PassInv'
    BY <1>6, FailJobIsDue
  <1>7. ASSUME Crash
        PROVE  PassInv'
    BY <1>7, PassIsOver DEF Crash
  <1> QED  BY <1>1, <1>2, <1>3, <1>4, <1>5, <1>6, <1>7, WalkIsDue, CannotRunIsDue,
              RunStepIsDue, TickIsDue
           DEF Next, PassStep

\* In every pass, each due job waits for its turn, has had it or is out of the
\* question, and what runs is due and has had its dependencies run.
THEOREM PassInvariant == Spec => []PassInv
  <1>1. Init => PassInv
    <2> SUFFICES ASSUME Init
                 PROVE  PassInv
      OBVIOUS
    <2>1. pass = NoPass /\ NoPass.pc = "none" /\ NoPass.chain = <<>> /\ Depth = 0
      BY DEF Init, NoPass, Depth
    <2> QED  BY <2>1 DEF PassInv, WindowIsDue, ChainMayRun, EnteredMayRun, Entering,
                         AbortedIsInterrupted, EarlierDone, ReturnedIsDone, AllLookedAt
  <1>2. JobsInv /\ PassInv /\ [Next]_vars => PassInv'
    BY PassNext
  <1> QED  BY <1>1, <1>2, JobsInvariant, PTL DEF Spec

\* When a job runs, each of its dependencies that was due when the pass began has
\* run in the pass with success, unless its run was cancelled (runJob's loop over
\* definition.dependencies, with the calls of runJob it makes).
THEOREM DependenciesRunFirst == Spec => []DependenciesFirst
  <1>1. ASSUME JobsInv, PassInv
        PROVE  DependenciesFirst
    <2> SUFFICES ASSUME NEW j \in Job, Runs(j), NEW k \in DOMAIN Dependencies(j)
                 PROVE  Done(Dependencies(j)[k])
      BY DEF DependenciesFirst, Done, Dependencies
    <2>1. pass.pc = "run" /\ j = Top.job /\ pass.chain # <<>>
      BY <1>1 DEF Runs, JobsInv, PassShape
    <2>2. /\ Depth \in 1..Depth /\ Top = pass.chain[Depth] /\ jobs[j] \in JobState
          /\ Top.dependency \in Nat
      BY <1>1, <2>1, OnStack
    <2>3. Dependencies(j) \in Seq(Job)
      BY <2>2, StateTypes, DefinitionTypes DEF Dependencies
    <2>4. k \in 1..Len(Dependencies(j)) /\ Top.dependency > Len(Dependencies(j))
      BY <1>1, <2>1, <2>3 DEF PassInv, AllLookedAt
    <2>5. k < Top.dependency
      BY <2>2, <2>3, <2>4
    <2> QED  BY <1>1, <2>1, <2>2, <2>4, <2>5 DEF PassInv, EarlierDone
  <1> QED  BY <1>1, JobsInvariant, PassInvariant, PTL

\* A job is started only when it is due, unless its run was cancelled in the same
\* pass (runDueInternal's filter, and runJob's look at a dependency).
THEOREM JobsStartWhenDue == Spec => StartsWhenDue
  <1>1. ASSUME JobsInv, PassInv, [Next]_vars
        PROVE  \A j \in Job : Runs(j)' /\ ~Runs(j) /\ j \notin interrupted => Due(jobs[j])
    <2> SUFFICES ASSUME NEW j \in Job, Runs(j)', ~Runs(j), j \notin interrupted
                 PROVE  Due(jobs[j])
      OBVIOUS
    <2>1. j = Top.job /\ \E ok \in BOOLEAN : BeginRun(ok)
      BY <1>1, OnlyBeginRunBegins
    <2>2. jobs[j].status = "scheduled" /\ pass.chain # <<>>
      BY <1>1, <2>1 DEF BeginRun, Ready, MayBegin, JobsInv, PassShape
    <2>3. MayRun(j)
      <3>1. Depth \in 1..Depth /\ Top = pass.chain[Depth]
        BY <1>1, <2>2, OnStack
      <3> QED  BY <1>1, <2>1, <3>1 DEF PassInv, ChainMayRun
    <2> QED  BY <2>2, <2>3 DEF MayRun, Due
  <1> QED  BY <1>1, JobsInvariant, PassInvariant, PTL DEF Spec, StartsWhenDue
=============================================================================
