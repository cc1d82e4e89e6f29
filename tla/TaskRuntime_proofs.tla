------------------------ MODULE TaskRuntime_proofs ------------------------
(***************************************************************************)
(* Theorems about TaskRuntime for every set of tasks, every slot count,    *)
(* retry budget and plan length, and any number of faults and crashes.     *)
(*                                                                         *)
(* The argument: the state of a task admits only certain drivers (Admits), *)
(* and no state that admits a driver can move to "Planning", which is how  *)
(* every driver begins.  So there is never a second one, and only the      *)
(* driver, or a cancellation while it plans, moves the task on.            *)
(***************************************************************************)
EXTENDS TaskRuntime, TaskAdmission_proofs, TLAPS

\* The states a task may be in while the call drives it.
Admits(call) ==
    CASE call.pc = "history" -> {"Planning", "Executing", "Verifying", "Cancelled"}
      [] call.pc = "plan"    -> {"Planning", "Cancelled"}
      [] call.pc = "tool"    -> {"Executing"}
      [] OTHER -> IF call.rec.state = "Planning" THEN {"Planning", "Cancelled"}
                  ELSE {call.rec.state}

DrivenWell(t) ==
    /\ \A c \in CallId :
          Drives(calls[t][c]) => tasks[t].state \in Admits(calls[t][c])
    /\ \A c, d \in CallId :
          Drives(calls[t][c]) /\ Drives(calls[t][d]) => c = d

\* A call that is about to verify has a result to verify.
HasResults ==
    \A t \in Task : \A c \in CallId :
        /\ calls[t][c].pc \in {"persist", "publish"}
        /\ calls[t][c].rec.state = "Verifying"
        => calls[t][c].results # <<>>

\* No call outlives the process.
NoCallWhileDown ==
    process # "up" => \A t \in Task : \A c \in CallId : calls[t][c] = Idle

RuntimeInv ==
    /\ TypeOK
    /\ HasResults
    /\ NoCallWhileDown
    /\ \A t \in Task : DrivenWell(t)

----------------------------------------------------------------------------
(* Types of the parts.                                                     *)

LEMMA RecordTypes ==
    /\ Absent \in TaskRecord
    /\ Created \in TaskRecord
    /\ \A r \in TaskRecord, s \in ShownState : Moved(r, s) \in TaskRecord
    /\ \A r \in TaskRecord, e \in HistoryEntry : WithEntry(r, e) \in TaskRecord
    /\ \A r \in TaskRecord : [r EXCEPT !.state = Recovered(@)] \in TaskRecord
  <1>1. Absent \in TaskRecord /\ Created \in TaskRecord
    <2>1. <<>> \in Seq(HistoryEntry)
      OBVIOUS
    <2>2. Absent \in TaskRecord
      BY <2>1 DEF Absent, TaskRecord, ShownState
    <2> QED  BY <2>2 DEF Created, TaskRecord, ShownState, TaskState
  <1>2. ASSUME NEW r \in TaskRecord, NEW s \in ShownState
        PROVE  Moved(r, s) \in TaskRecord
    <2>1. CASE s = "Retrying"
      <3>1. r.retry_count \in Nat
        BY DEF TaskRecord
      <3>2. r.retry_count + 1 \in Nat
        BY <3>1
      <3>3. Moved(r, s) = [r EXCEPT !.state = s, !.retry_count = r.retry_count + 1]
        BY <2>1 DEF Moved
      <3> QED  BY <3>2, <3>3 DEF TaskRecord
    <2>2. CASE s # "Retrying"
      BY <2>2 DEF TaskRecord, Moved
    <2> QED  BY <2>1, <2>2
  <1>3. \A r \in TaskRecord, e \in HistoryEntry : WithEntry(r, e) \in TaskRecord
    BY DEF TaskRecord, WithEntry
  <1>4. \A r \in TaskRecord : [r EXCEPT !.state = Recovered(@)] \in TaskRecord
    BY DEF TaskRecord, Recovered, ShownState, TaskState
  <1> QED  BY <1>1, <1>2, <1>3, <1>4

\* What the operators on records do to the state.
LEMMA RecordStates ==
    /\ Absent.state = "Absent"
    /\ Created.state = "Created"
    /\ \A r \in TaskRecord, s \in ShownState : Moved(r, s).state = s
    /\ \A r \in TaskRecord, e \in HistoryEntry : WithEntry(r, e).state = r.state
  BY DEF Absent, Created, TaskRecord, Moved, WithEntry

LEMMA CallIds ==
    /\ Submit \in CallId /\ Run \in CallId /\ Resume \in CallId
    /\ \A k \in 1 .. MaxRetries : Retry(k) \in CallId
    /\ Submit # Run /\ Resume # Run /\ Submit # Resume
  BY RetryAssumption DEF Submit, Run, Resume, Retry, CallId

LEMMA CallTypes ==
    /\ Idle \in Call
    /\ \A c : Ended(c) \in Call
    /\ \A c, r : r \in TaskRecord => Executed(c, r) \in Call
  <1>1. Idle \in Call
    BY RecordTypes DEF Idle, Call, Pc, Outcome
  <1>2. \A c : Ended(c) \in Call
    BY <1>1 DEF Ended, Idle, Call, Pc
  <1>3. ASSUME NEW r \in TaskRecord
        PROVE  [Idle EXCEPT !.pc = "persist", !.rec = Moved(r, "Planning")] \in Call
    BY <1>1, RecordTypes DEF Call, Pc, ShownState, TaskState, Idle
  <1> QED  BY <1>1, <1>2, <1>3 DEF Executed

\* What execute() does with the results of its tools: there is a verdict for
\* each of them to append, and one state to end in.
LEMMA VerdictsToAppend ==
  ASSUME NEW results \in Seq(ToolResult), results # <<>>
  PROVE  LET verdicts == [i \in 1 .. Len(results) |-> VerdictOf(results[i])]
             call == [Idle EXCEPT !.entries = verdicts, !.target = OutcomeOf(verdicts)]
         IN  call \in Call /\ call.entries # <<>>
  <1> DEFINE verdicts == [i \in 1 .. Len(results) |-> VerdictOf(results[i])]
  <1>1. \A i \in 1 .. Len(results) : VerdictOf(results[i]) \in HistoryEntry
    BY DEF VerdictOf, ToolResult, HistoryEntry
  <1>2. Len(results) \in Nat \ {0}
    OBVIOUS
  <1>3. verdicts \in Seq(HistoryEntry) /\ Len(verdicts) = Len(results)
    BY <1>1, <1>2
  <1>4. OutcomeOf(verdicts) \in Outcome
    BY DEF OutcomeOf, Outcome
  <1>5. verdicts # <<>>
    BY <1>2, <1>3
  <1> HIDE DEF verdicts
  <1>6. [Idle EXCEPT !.entries = verdicts, !.target = OutcomeOf(verdicts)] \in Call
    BY <1>3, <1>4, CallTypes DEF Call
  <1>7. [Idle EXCEPT !.entries = verdicts, !.target = OutcomeOf(verdicts)].entries = verdicts
    BY DEF Idle
  <1> QED  BY <1>5, <1>6, <1>7 DEF verdicts

\* A call that is idle, or over, drives nothing.
LEMMA IdleDrivesNothing ==
    /\ ~Drives(Idle)
    /\ \A c : ~Drives(Ended(c))
  BY DEF Drives, Idle, Ended

----------------------------------------------------------------------------
(* Who drives a task, and what one call may do to it.                      *)

LEMMA AdmittedStates ==
    \A call : Drives(call) =>
        Admits(call) \subseteq {"Planning", "Executing", "Verifying", "Cancelled"}
  BY DEF Drives, Admits

\* A task in any other state is driven by no call.
LEMMA NobodyDrives ==
  ASSUME NEW t \in Task, DrivenWell(t),
         tasks[t].state \notin {"Planning", "Executing", "Verifying", "Cancelled"}
  PROVE  \A c \in CallId : ~Drives(calls[t][c])
  BY AdmittedStates DEF DrivenWell

\* The transitions by which a driver begins leave such a state.
LEMMA BeginningStates ==
    \A r : CanMove(r, "Planning") \/ CanMove(r, "Retrying") =>
        r.state \notin {"Planning", "Executing", "Verifying", "Cancelled"}
  BY DEF CanMove, Successors

\* One call moves the task, or begins to drive it, only if it is the driver
\* or if there is none.
LEMMA OneCallMoves ==
  ASSUME NEW t \in Task, NEW c \in CallId, NEW call \in Call, NEW rec \in TaskRecord,
         RuntimeInv,
         tasks' = [tasks EXCEPT ![t] = rec],
         calls' = [calls EXCEPT ![t][c] = call],
         Drives(call) => /\ rec.state \in Admits(call)
                         /\ \/ Drives(calls[t][c])
                            \/ \A d \in CallId : ~Drives(calls[t][d]),
         \/ rec.state = tasks[t].state
         \/ Drives(calls[t][c])
         \/ \A d \in CallId : ~Drives(calls[t][d]),
         (call.pc \in {"persist", "publish"} /\ call.rec.state = "Verifying")
            => call.results # <<>>
  PROVE  /\ tasks' \in [Task -> TaskRecord]
         /\ calls' \in [Task -> [CallId -> Call]]
         /\ HasResults'
         /\ \A u \in Task : DrivenWell(u)'
  <1>1. tasks \in [Task -> TaskRecord] /\ calls \in [Task -> [CallId -> Call]]
    BY DEF RuntimeInv, TypeOK
  <1>2. tasks' \in [Task -> TaskRecord]
    BY <1>1
  <1>3. calls' \in [Task -> [CallId -> Call]]
    BY <1>1
  <1>4. \A u \in Task, d \in CallId :
           calls'[u][d] = IF u = t /\ d = c THEN call ELSE calls[u][d]
    BY <1>1
  <1>5. HasResults'
    BY <1>4 DEF RuntimeInv, HasResults
  <1>6. ASSUME NEW u \in Task, u # t
        PROVE  DrivenWell(u)'
    <2>1. tasks'[u] = tasks[u] /\ \A d \in CallId : calls'[u][d] = calls[u][d]
      BY <1>1, <1>4, <1>6
    <2>2. DrivenWell(u)
      BY DEF RuntimeInv
    <2> QED  BY <2>1, <2>2 DEF DrivenWell
  <1>7. DrivenWell(t)'
    <2>1. tasks'[t] = rec
      BY <1>1
    <2>2. DrivenWell(t)
      BY DEF RuntimeInv
    <2>3. ASSUME NEW d \in CallId, Drives(calls'[t][d])
          PROVE  tasks'[t].state \in Admits(calls'[t][d])
      <3>1. CASE d = c
        BY <1>4, <2>1, <2>3, <3>1
      <3>2. CASE d # c
        <4>1. Drives(calls[t][d])
          BY <1>4, <2>3, <3>2
        <4>2. rec.state = tasks[t].state
          BY <2>2, <3>2, <4>1 DEF DrivenWell
        <4> QED  BY <1>4, <2>1, <2>2, <3>2, <4>1, <4>2 DEF DrivenWell
      <3> QED  BY <3>1, <3>2
    <2>4. ASSUME NEW d \in CallId, NEW e \in CallId,
                 Drives(calls'[t][d]), Drives(calls'[t][e])
          PROVE  d = e
      BY <1>4, <2>2, <2>4 DEF DrivenWell
    <2> QED  BY <2>3, <2>4 DEF DrivenWell
  <1> QED  BY <1>2, <1>3, <1>5, <1>6, <1>7

LEMMA RememberTypes ==
  ASSUME TypeOK, tasks' \in [Task -> TaskRecord], Remember
  PROVE  past' \in [Task -> SUBSET ShownState]
  BY DEF TypeOK, Remember, TaskRecord

\* The coordinator's transition(), by the driver or by a call that begins.
LEMMA TransitionKeeps ==
  ASSUME NEW t \in Task, NEW c \in CallId, NEW call \in Call, NEW target \in TaskState,
         RuntimeInv,
         Drives(calls[t][c]) \/ target \in {"Planning", "Retrying"},
         target = "Verifying" => call.results # <<>>,
         Transition(t, c, call, target)
  PROVE  /\ tasks' \in [Task -> TaskRecord]
         /\ calls' \in [Task -> [CallId -> Call]]
         /\ past' \in [Task -> SUBSET ShownState]
         /\ HasResults'
         /\ \A u \in Task : DrivenWell(u)'
  <1> DEFINE moved == Moved(tasks[t], target)
             next == [call EXCEPT !.pc = "persist", !.rec = moved]
  <1>1. tasks \in [Task -> TaskRecord] /\ tasks[t] \in TaskRecord
    BY DEF RuntimeInv, TypeOK
  <1>2. TypeOK /\ DrivenWell(t)
    BY DEF RuntimeInv
  <1>3. moved \in TaskRecord /\ moved.state = target
    BY <1>1, RecordTypes, RecordStates DEF ShownState
  <1>4. next \in Call /\ next.pc = "persist" /\ next.rec = moved
        /\ next.results = call.results
    BY <1>3 DEF Call, Pc
  <1>5. CASE CanMove(tasks[t], target)
    <2>1. tasks' = [tasks EXCEPT ![t] = moved] /\ calls' = [calls EXCEPT ![t][c] = next]
      BY <1>5 DEF Transition, SetCall
    <2>2. Drives(calls[t][c]) \/ \A d \in CallId : ~Drives(calls[t][d])
      BY <1>2, <1>5, BeginningStates, NobodyDrives
    <2>3. Drives(next) => moved.state \in Admits(next)
      BY <1>3, <1>4 DEF Drives, Admits
    <2>4. /\ tasks' \in [Task -> TaskRecord]
          /\ calls' \in [Task -> [CallId -> Call]]
          /\ HasResults'
          /\ \A u \in Task : DrivenWell(u)'
      <3> HIDE DEF moved, next
      <3> QED  BY <1>3, <1>4, <2>1, <2>2, <2>3, OneCallMoves
    <2> QED  BY <1>2, <2>4, RememberTypes DEF Transition
  <1>6. CASE ~CanMove(tasks[t], target)
    <2>1. tasks' = tasks /\ calls' = [calls EXCEPT ![t][c] = Ended(c)]
      BY <1>6 DEF Transition, SetCall
    <2>2. tasks' = [tasks EXCEPT ![t] = tasks[t]]
      BY <1>1, <2>1
    <2>3. Ended(c) \in Call /\ ~Drives(Ended(c)) /\ Ended(c).pc \notin {"persist", "publish"}
      BY CallTypes, IdleDrivesNothing DEF Ended, Idle
    <2>4. /\ tasks' \in [Task -> TaskRecord]
          /\ calls' \in [Task -> [CallId -> Call]]
          /\ HasResults'
          /\ \A u \in Task : DrivenWell(u)'
      BY <1>1, <2>1, <2>2, <2>3, OneCallMoves
    <2> QED  BY <1>2, <2>4, RememberTypes DEF Transition
  <1> QED  BY <1>5, <1>6

\* The coordinator's appendStepHistory(), which only a driver calls.
LEMMA AppendEntryKeeps ==
  ASSUME NEW t \in Task, NEW c \in CallId, NEW call \in Call,
         RuntimeInv, Drives(calls[t][c]), call.entries # <<>>,
         AppendEntry(t, c, call)
  PROVE  /\ tasks' \in [Task -> TaskRecord]
         /\ calls' \in [Task -> [CallId -> Call]]
         /\ past' \in [Task -> SUBSET ShownState]
         /\ HasResults'
         /\ \A u \in Task : DrivenWell(u)'
  <1> DEFINE rec == WithEntry(tasks[t], Head(call.entries))
             next == [call EXCEPT !.pc = "history", !.rec = rec, !.entries = Tail(@)]
  <1>1. tasks \in [Task -> TaskRecord] /\ tasks[t] \in TaskRecord
    BY DEF RuntimeInv, TypeOK
  <1>2. TypeOK /\ DrivenWell(t)
    BY DEF RuntimeInv
  <1>3. call.entries \in Seq(HistoryEntry)
    BY DEF Call
  <1>4. Head(call.entries) \in HistoryEntry /\ Tail(call.entries) \in Seq(HistoryEntry)
    BY <1>3
  <1>5. rec \in TaskRecord /\ rec.state = tasks[t].state
    BY <1>1, <1>4, RecordTypes, RecordStates
  <1>6. next \in Call /\ next.pc = "history"
    BY <1>4, <1>5 DEF Call, Pc
  <1>7. tasks[t].state \in Admits(next)
    BY <1>2, <1>6, AdmittedStates DEF DrivenWell, Admits
  <1>8. tasks' = [tasks EXCEPT ![t] = rec] /\ calls' = [calls EXCEPT ![t][c] = next]
    BY DEF AppendEntry, SetCall
  <1>9. /\ tasks' \in [Task -> TaskRecord]
        /\ calls' \in [Task -> [CallId -> Call]]
        /\ HasResults'
        /\ \A u \in Task : DrivenWell(u)'
    <2> HIDE DEF rec, next
    <2> QED  BY <1>5, <1>6, <1>7, <1>8, OneCallMoves
  <1> QED  BY <1>2, <1>9, RememberTypes DEF AppendEntry

\* fail(): only a driver fails an attempt.
LEMMA FailAttemptKeeps ==
  ASSUME NEW t \in Task, NEW c \in CallId,
         RuntimeInv, Drives(calls[t][c]), FailAttempt(t, c)
  PROVE  /\ tasks' \in [Task -> TaskRecord]
         /\ calls' \in [Task -> [CallId -> Call]]
         /\ past' \in [Task -> SUBSET ShownState]
         /\ HasResults'
         /\ \A u \in Task : DrivenWell(u)'
  <1> DEFINE call == [Idle EXCEPT !.entries = <<"error">>, !.target = "Failed"]
  <1>1. <<"error">> \in Seq(HistoryEntry)
    BY DEF HistoryEntry
  <1>2. call \in Call /\ call.entries # <<>>
    BY <1>1, CallTypes DEF Call, Outcome, Idle
  <1>3. AppendEntry(t, c, call)
    BY DEF FailAttempt
  <1> QED  BY <1>2, <1>3, AppendEntryKeeps

\* A step that changes the call c of t, and no record.
LEMMA CallChanges ==
  ASSUME NEW t \in Task, NEW c \in CallId, NEW call \in Call, RuntimeInv,
         UNCHANGED tasks, SetCall(t, c, call),
         Drives(call) => Drives(calls[t][c]) /\ tasks[t].state \in Admits(call),
         (call.pc \in {"persist", "publish"} /\ call.rec.state = "Verifying")
            => call.results # <<>>
  PROVE  /\ tasks' \in [Task -> TaskRecord]
         /\ calls' \in [Task -> [CallId -> Call]]
         /\ HasResults'
         /\ \A u \in Task : DrivenWell(u)'
  <1>1. tasks' = [tasks EXCEPT ![t] = tasks[t]] /\ tasks[t] \in TaskRecord
    BY DEF RuntimeInv, TypeOK
  <1> QED  BY <1>1, OneCallMoves DEF SetCall

\* Scheduled executions begin, each for a task that nobody drives or not at all.
LEMMA StartRunsKeeps ==
  ASSUME NEW S \in SUBSET Task, NEW t \in Task, NEW c \in CallId,
         RuntimeInv, StartRuns(S, t, c)
  PROVE  /\ tasks' \in [Task -> TaskRecord]
         /\ calls' \in [Task -> [CallId -> Call]]
         /\ past' \in [Task -> SUBSET ShownState]
         /\ HasResults'
         /\ \A u \in Task : DrivenWell(u)'
  <1>1. TypeOK /\ tasks \in [Task -> TaskRecord] /\ calls \in [Task -> [CallId -> Call]]
    BY DEF RuntimeInv, TypeOK
  <1>2. "Planning" \in ShownState
    BY DEF ShownState, TaskState
  <1>3. tasks' \in [Task -> TaskRecord]
    BY <1>1, <1>2, RecordTypes DEF StartRuns
  <1>4. calls' \in [Task -> [CallId -> Call]]
    BY <1>1, CallTypes DEF StartRuns
  <1>5. past' \in [Task -> SUBSET ShownState]
    BY <1>1, <1>3, RememberTypes DEF StartRuns
  <1>6. \A u \in Task, d \in CallId :
           \/ calls'[u][d] = calls[u][d]
           \/ calls'[u][d] = Idle
           \/ u \in S /\ d = Run /\ calls'[u][d] = Executed(Run, tasks[u])
    BY DEF StartRuns
  <1>7. ASSUME NEW u \in Task, ~CanMove(tasks[u], "Planning")
        PROVE  \A d \in CallId : \/ calls'[u][d] = calls[u][d]
                                 \/ calls'[u][d] = Idle
                                 \/ calls'[u][d] = Ended(Run)
    BY <1>6, <1>7 DEF Executed
  <1>8. ASSUME NEW u \in Task, CanMove(tasks[u], "Planning"), NEW d \in CallId
        PROVE  \/ calls'[u][d] = calls[u][d]
               \/ calls'[u][d] = Idle
               \/ /\ u \in S /\ d = Run /\ calls'[u][d].pc = "persist"
                  /\ calls'[u][d].rec.state = "Planning"
    <2>1. Moved(tasks[u], "Planning").state = "Planning"
      BY <1>1, <1>2, RecordStates
    <2>2. Executed(Run, tasks[u]).pc = "persist"
          /\ Executed(Run, tasks[u]).rec.state = "Planning"
      BY <1>8, <2>1 DEF Executed, Idle
    <2> QED  BY <1>6, <2>2
  <1>9. HasResults'
    <2>1. ASSUME NEW u \in Task, NEW d \in CallId,
                 calls'[u][d].pc \in {"persist", "publish"},
                 calls'[u][d].rec.state = "Verifying"
          PROVE  calls'[u][d].results # <<>>
      <3>1. calls'[u][d] # Idle /\ calls'[u][d] # Ended(Run)
        BY <2>1 DEF Idle, Ended
      <3>2. calls'[u][d] = calls[u][d]
        BY <1>7, <1>8, <2>1, <3>1
      <3> QED  BY <2>1, <3>2 DEF RuntimeInv, HasResults
    <2> QED  BY <2>1 DEF HasResults
  <1>10. ASSUME NEW u \in Task PROVE DrivenWell(u)'
    <2>1. DrivenWell(u)
      BY DEF RuntimeInv
    <2>2. CASE u \in S /\ CanMove(tasks[u], "Planning")
      <3>1. \A d \in CallId : ~Drives(calls[u][d])
        BY <2>1, <2>2, BeginningStates, NobodyDrives
      <3>2. tasks'[u].state = "Planning"
        BY <1>1, <1>2, <2>2, RecordStates DEF StartRuns
      <3>3. ASSUME NEW d \in CallId, Drives(calls'[u][d])
            PROVE  d = Run /\ tasks'[u].state \in Admits(calls'[u][d])
        <4>1. d = Run /\ calls'[u][d].pc = "persist" /\ calls'[u][d].rec.state = "Planning"
          BY <1>8, <2>2, <3>1, <3>3, IdleDrivesNothing
        <4> QED  BY <3>2, <4>1 DEF Admits
      <3> QED  BY <3>3 DEF DrivenWell
    <2>3. CASE ~(u \in S /\ CanMove(tasks[u], "Planning"))
      <3>1. tasks'[u] = tasks[u]
        BY <2>3 DEF StartRuns
      <3>2. \A d \in CallId : Drives(calls'[u][d]) => calls'[u][d] = calls[u][d]
        BY <1>7, <1>8, <2>3, IdleDrivesNothing
      <3> QED  BY <2>1, <3>1, <3>2 DEF DrivenWell
    <2> QED  BY <2>2, <2>3
  <1> QED  BY <1>3, <1>4, <1>5, <1>9, <1>10

\* The log of the steps started in an attempt.
LEMMA RanTypes ==
  ASSUME NEW log \in Seq(ToolResult \cup {"started"}), NEW result \in ToolResult
  PROVE  /\ <<>> \in Seq(ToolResult \cup {"started"})
         /\ Append(log, "started") \in Seq(ToolResult \cup {"started"})
         /\ Answered(log, result) \in Seq(ToolResult \cup {"started"})
  <1> DEFINE E == ToolResult \cup {"started"}
  <1>1. result \in E /\ "started" \in E
    OBVIOUS
  <1>2. <<>> \in Seq(E) /\ Append(log, "started") \in Seq(E)
    BY <1>1
  <1>3. \A i \in 1 .. Len(log) : log[i] \in E
    OBVIOUS
  <1>4. Answered(log, result) = [i \in 1 .. Len(log) |-> IF i = Len(log) THEN result ELSE log[i]]
    BY DEF Answered
  <1>5. [i \in 1 .. Len(log) |-> IF i = Len(log) THEN result ELSE log[i]] \in Seq(E)
    BY <1>1, <1>3
  <1> QED  BY <1>2, <1>4, <1>5

LEMMA NewAttemptTypes ==
  ASSUME TypeOK, NEW S \in SUBSET Task, NewAttempt(S)
  PROVE  ran' \in [Task -> Seq(ToolResult \cup {"started"})]
  <1>1. <<>> \in Seq(ToolResult \cup {"started"})
    OBVIOUS
  <1> QED  BY <1>1 DEF TypeOK, NewAttempt

----------------------------------------------------------------------------
(* The steps, one kind after the other.                                    *)

LEMMA UserStepKeeps ==
  ASSUME NEW t \in Task, RuntimeInv, UserStep(t)
  PROVE  RuntimeInv'
  <1>1. TypeOK /\ DrivenWell(t) /\ tasks[t] \in TaskRecord /\ calls[t] \in [CallId -> Call]
    BY DEF RuntimeInv, TypeOK
  <1> USE <1>1
  <1>2. CASE SubmitTask(t)
    <2> DEFINE call == [Idle EXCEPT !.pc = "persist", !.rec = Created]
    <2>1. call \in Call /\ ~Drives(call) /\ call.rec.state # "Verifying"
      BY CallTypes, RecordTypes, RecordStates DEF Call, Pc, Idle, Drives
    <2>2. \A d \in CallId : ~Drives(calls[t][d])
      BY <1>2, NobodyDrives DEF SubmitTask
    <2>3. tasks' = [tasks EXCEPT ![t] = Created] /\ calls' = [calls EXCEPT ![t][Submit] = call]
      BY <1>2 DEF SubmitTask, SetCall
    <2>4. /\ tasks' \in [Task -> TaskRecord]
          /\ calls' \in [Task -> [CallId -> Call]]
          /\ HasResults'
          /\ \A u \in Task : DrivenWell(u)'
      <3> HIDE DEF call
      <3> QED  BY <2>1, <2>2, <2>3, CallIds, RecordTypes, OneCallMoves
    <2>5. past' \in [Task -> SUBSET ShownState]
      BY <1>2, <2>4, RememberTypes DEF SubmitTask
    <2> QED  BY <1>2, <2>4, <2>5
             DEF SubmitTask, RuntimeInv, TypeOK, NoCallWhileDown, NoFault, store, admission
  <1>3. CASE CancelTask(t)
    <2> DEFINE rec == IF tasks[t].state \in Cancellable /\ CanMove(tasks[t], "Cancelled")
                      THEN Moved(tasks[t], "Cancelled") ELSE tasks[t]
    <2>1. rec \in TaskRecord /\ rec.state \in {tasks[t].state, "Cancelled"}
      BY RecordTypes, RecordStates DEF ShownState, TaskState
    <2>2. \A u \in Task : tasks'[u] = IF u = t THEN rec ELSE tasks[u]
      BY <1>3 DEF CancelTask, TypeOK
    <2>3. tasks' \in [Task -> TaskRecord]
      <3>1. tasks' = [tasks EXCEPT ![t] = rec]
        BY <1>3 DEF CancelTask
      <3> HIDE DEF rec
      <3> QED  BY <2>1, <3>1 DEF TypeOK
    <2>4. \A c \in CallId : Drives(calls[t][c]) => rec.state \in Admits(calls[t][c])
      <3>1. SUFFICES ASSUME NEW c \in CallId, Drives(calls[t][c]), rec # tasks[t]
                     PROVE  rec.state \in Admits(calls[t][c])
        BY DEF DrivenWell
      <3>2. tasks[t].state \in Cancellable /\ rec.state = "Cancelled"
        BY <3>1, RecordStates DEF ShownState, TaskState
      <3>3. tasks[t].state \in Admits(calls[t][c])
        BY <3>1 DEF DrivenWell
      <3> QED  BY <3>1, <3>2, <3>3 DEF Admits, Drives, Cancellable
    <2>5. ASSUME NEW u \in Task PROVE DrivenWell(u)'
      <3>1. DrivenWell(u) /\ calls' = calls
        BY <1>3 DEF RuntimeInv, CancelTask
      <3> HIDE DEF rec
      <3> QED  BY <2>2, <2>4, <3>1 DEF DrivenWell
    <2>6. past' \in [Task -> SUBSET ShownState]
      BY <1>3, <2>3, RememberTypes DEF CancelTask
    <2>7. queue' \subseteq Task /\ running' \subseteq Task /\ draining' \in BOOLEAN
      BY <1>3 DEF TypeOK, CancelTask, CancelQueued
    <2> QED  BY <1>3, <2>3, <2>5, <2>6, <2>7
             DEF CancelTask, RuntimeInv, TypeOK, NoCallWhileDown, HasResults, NoFault, store
  <1>4. CASE PauseTask(t)
    <2>1. Moved(tasks[t], "Paused") \in TaskRecord
      BY RecordTypes DEF ShownState, TaskState
    <2>2. tasks' \in [Task -> TaskRecord] /\ \A u \in Task : u # t => tasks'[u] = tasks[u]
      BY <1>4, <2>1 DEF PauseTask, TypeOK
    <2>3. \A c \in CallId : ~Drives(calls[t][c])
      BY <1>4, NobodyDrives DEF PauseTask
    <2>4. ASSUME NEW u \in Task PROVE DrivenWell(u)'
      <3>1. DrivenWell(u) /\ calls' = calls
        BY <1>4 DEF RuntimeInv, PauseTask
      <3> QED  BY <2>2, <2>3, <3>1 DEF DrivenWell
    <2>5. past' \in [Task -> SUBSET ShownState]
      BY <1>4, <2>2, RememberTypes DEF PauseTask
    <2>6. queue' \subseteq Task /\ running' \subseteq Task /\ draining' \in BOOLEAN
      BY <1>4 DEF TypeOK, PauseTask, CancelQueued
    <2> QED  BY <1>4, <2>2, <2>4, <2>5, <2>6
             DEF PauseTask, RuntimeInv, TypeOK, NoCallWhileDown, HasResults, NoFault, store
  <1>5. CASE ResumePaused(t)
    <2>1. Transition(t, Resume, Idle, "Planning")
      BY <1>5 DEF ResumePaused
    <2>2. /\ tasks' \in [Task -> TaskRecord]
          /\ calls' \in [Task -> [CallId -> Call]]
          /\ past' \in [Task -> SUBSET ShownState]
          /\ HasResults'
          /\ \A u \in Task : DrivenWell(u)'
      BY <2>1, CallIds, CallTypes, TransitionKeeps DEF TaskState
    <2>3. ran' \in [Task -> Seq(ToolResult \cup {"started"})]
      BY <1>5, NewAttemptTypes DEF ResumePaused
    <2> QED  BY <1>5, <2>2, <2>3
             DEF ResumePaused, RuntimeInv, TypeOK, NoCallWhileDown, NoFault, store, admission
  <1>6. CASE RetryTask(t)
    <2> DEFINE k == Retry(tasks[t].retry_count + 1)
    <2>1. Transition(t, k, Idle, "Retrying")
      BY <1>6 DEF RetryTask
    <2>2. k \in CallId
      <3>1. tasks[t].retry_count \in Nat /\ tasks[t].retry_count < MaxRetries
        BY <1>6 DEF RetryTask, CanMove, TaskRecord
      <3> QED  BY <3>1, RetryAssumption DEF CallId, Retry, Submit
    <2>3. /\ tasks' \in [Task -> TaskRecord]
          /\ calls' \in [Task -> [CallId -> Call]]
          /\ past' \in [Task -> SUBSET ShownState]
          /\ HasResults'
          /\ \A u \in Task : DrivenWell(u)'
      <3> HIDE DEF k
      <3> QED  BY <2>1, <2>2, CallTypes, TransitionKeeps DEF TaskState
    <2>4. ran' \in [Task -> Seq(ToolResult \cup {"started"})]
      <3>1. <<>> \in Seq(ToolResult \cup {"started"})
        OBVIOUS
      <3> QED  BY <1>6, <3>1 DEF RetryTask, TypeOK
    <2> QED  BY <1>6, <2>3, <2>4
             DEF RetryTask, RuntimeInv, TypeOK, NoCallWhileDown, NoFault, store, admission
  <1> QED  BY <1>2, <1>3, <1>4, <1>5, <1>6 DEF UserStep

LEMMA CallStepKeeps ==
  ASSUME NEW t \in Task, NEW c \in CallId, RuntimeInv, CallStep(t, c)
  PROVE  RuntimeInv'
  <1>1. /\ TypeOK /\ DrivenWell(t)
        /\ tasks[t] \in TaskRecord /\ calls[t][c] \in Call
        /\ HasResults
    BY DEF RuntimeInv, TypeOK
  <1> USE <1>1
  <1> DEFINE old == calls[t][c]
  <1>2. CASE PersistOk(t, c)
    <2> DEFINE call == [old EXCEPT !.pc = "publish"]
    <2>1. old.pc = "persist" /\ UNCHANGED tasks /\ SetCall(t, c, call)
      BY <1>2 DEF PersistOk, At
    <2>2. call \in Call /\ (Drives(call) => Drives(old) /\ Admits(call) = Admits(old))
      BY <2>1 DEF Call, Pc, Drives, Admits
    <2>3. call.rec.state = "Verifying" => call.results # <<>>
      BY <2>1 DEF HasResults, Call
    <2>4. /\ tasks' \in [Task -> TaskRecord]
          /\ calls' \in [Task -> [CallId -> Call]]
          /\ HasResults'
          /\ \A u \in Task : DrivenWell(u)'
      <3>1. Drives(call) => Drives(old) /\ tasks[t].state \in Admits(call)
        BY <2>2 DEF DrivenWell
      <3> HIDE DEF call
      <3> QED  BY <2>1, <2>2, <2>3, <3>1, CallChanges
    <2>5. disk' \in [Task -> TaskRecord]
      BY <1>2 DEF PersistOk, TypeOK, Call
    <2> QED  BY <1>2, <2>4, <2>5
             DEF PersistOk, RuntimeInv, TypeOK, NoCallWhileDown,
                 At, Published, NoFault, store, history, admission
  <1>3. CASE RetryExecutes(t, c)
    <2>1. Transition(t, c, Idle, "Planning")
      BY <1>3 DEF RetryExecutes
    <2>2. /\ tasks' \in [Task -> TaskRecord]
          /\ calls' \in [Task -> [CallId -> Call]]
          /\ past' \in [Task -> SUBSET ShownState]
          /\ HasResults'
          /\ \A u \in Task : DrivenWell(u)'
      BY <2>1, CallTypes, TransitionKeeps DEF TaskState
    <2>3. ran' \in [Task -> Seq(ToolResult \cup {"started"})]
      BY <1>3, NewAttemptTypes DEF RetryExecutes
    <2> QED  BY <1>3, <2>2, <2>3
             DEF RetryExecutes, RuntimeInv, TypeOK, NoCallWhileDown,
                 At, Published, NoFault, store, history, admission
  <1>4. CASE PlanningPublished(t, c)
    <2> DEFINE call == [old EXCEPT !.pc = "plan"]
    <2>1. old.pc = "publish" /\ old.rec.state = "Planning" /\ UNCHANGED tasks
          /\ SetCall(t, c, call)
      BY <1>4 DEF PlanningPublished, Published, At
    <2>2. call \in Call /\ Drives(old) /\ Admits(call) = Admits(old)
          /\ call.pc \notin {"persist", "publish"}
      BY <2>1 DEF Call, Pc, Drives, Admits
    <2>3. /\ tasks' \in [Task -> TaskRecord]
          /\ calls' \in [Task -> [CallId -> Call]]
          /\ HasResults'
          /\ \A u \in Task : DrivenWell(u)'
      <3>1. tasks[t].state \in Admits(call)
        BY <2>2 DEF DrivenWell
      <3> HIDE DEF call
      <3> QED  BY <2>1, <2>2, <3>1, CallChanges
    <2> QED  BY <1>4, <2>3
             DEF PlanningPublished, RuntimeInv, TypeOK, NoCallWhileDown,
                 At, Published, NoFault, store, history, admission
  <1>5. ASSUME NEW n \in 1 .. MaxSteps, PlanMade(t, c, n)
        PROVE  RuntimeInv'
    <2> DEFINE call == [Idle EXCEPT !.left = n]
    <2>1. Transition(t, c, call, "Executing") /\ old.pc = "plan"
      BY <1>5 DEF PlanMade, At
    <2>2. n \in Nat
      BY RuntimeAssumption
    <2>3. call \in Call /\ Drives(old)
      BY <2>1, <2>2, CallTypes DEF Call, Drives
    <2>4. /\ tasks' \in [Task -> TaskRecord]
          /\ calls' \in [Task -> [CallId -> Call]]
          /\ past' \in [Task -> SUBSET ShownState]
          /\ HasResults'
          /\ \A u \in Task : DrivenWell(u)'
      <3> HIDE DEF call
      <3> QED  BY <2>1, <2>3, TransitionKeeps DEF TaskState
    <2>5. planned' \in [Task -> Nat]
      BY <1>5, <2>2 DEF PlanMade, TypeOK
    <2> QED  BY <1>5, <2>4, <2>5
             DEF PlanMade, RuntimeInv, TypeOK, NoCallWhileDown,
                 At, Published, NoFault, store, history, admission
  <1>6. CASE PlanFails(t, c)
    <2>1. FailAttempt(t, c) /\ Drives(old)
      BY <1>6 DEF PlanFails, At, Drives
    <2>2. /\ tasks' \in [Task -> TaskRecord]
          /\ calls' \in [Task -> [CallId -> Call]]
          /\ past' \in [Task -> SUBSET ShownState]
          /\ HasResults'
          /\ \A u \in Task : DrivenWell(u)'
      BY <2>1, FailAttemptKeeps
    <2> QED  BY <1>6, <2>2
             DEF PlanFails, RuntimeInv, TypeOK, NoCallWhileDown,
                 At, Published, NoFault, store, history, admission
  <1>7. CASE ExecutingPublished(t, c)
    <2> DEFINE call == [old EXCEPT !.pc = "tool"]
    <2>1. old.pc = "publish" /\ old.rec.state = "Executing" /\ UNCHANGED tasks
          /\ SetCall(t, c, call)
      BY <1>7 DEF ExecutingPublished, Published, At
    <2>2. call \in Call /\ Drives(old) /\ Admits(call) = Admits(old)
          /\ call.pc \notin {"persist", "publish"}
      BY <2>1 DEF Call, Pc, Drives, Admits
    <2>3. /\ tasks' \in [Task -> TaskRecord]
          /\ calls' \in [Task -> [CallId -> Call]]
          /\ HasResults'
          /\ \A u \in Task : DrivenWell(u)'
      <3>1. tasks[t].state \in Admits(call)
        BY <2>2 DEF DrivenWell
      <3> HIDE DEF call
      <3> QED  BY <2>1, <2>2, <3>1, CallChanges
    <2>4. ran' \in [Task -> Seq(ToolResult \cup {"started"})]
      BY <1>7 DEF ExecutingPublished, TypeOK
    <2> QED  BY <1>7, <2>3, <2>4
             DEF ExecutingPublished, RuntimeInv, TypeOK, NoCallWhileDown,
                 At, Published, NoFault, store, history, admission
  <1>8. CASE VerifyingPublished(t, c)
    <2> DEFINE verdicts == [i \in 1 .. Len(old.results) |-> VerdictOf(old.results[i])]
               call == [Idle EXCEPT !.entries = verdicts, !.target = OutcomeOf(verdicts)]
    <2>1. old.pc = "publish" /\ old.rec.state = "Verifying" /\ AppendEntry(t, c, call)
      BY <1>8 DEF VerifyingPublished, Published, At
    <2>2. Drives(old) /\ old.results # <<>> /\ old.results \in Seq(ToolResult)
      BY <2>1 DEF Drives, HasResults, Call
    <2>3. call \in Call /\ call.entries # <<>>
      BY <2>2, VerdictsToAppend
    <2>4. /\ tasks' \in [Task -> TaskRecord]
          /\ calls' \in [Task -> [CallId -> Call]]
          /\ past' \in [Task -> SUBSET ShownState]
          /\ HasResults'
          /\ \A u \in Task : DrivenWell(u)'
      <3> HIDE DEF call
      <3> QED  BY <2>1, <2>2, <2>3, AppendEntryKeeps
    <2> QED  BY <1>8, <2>4
             DEF VerifyingPublished, RuntimeInv, TypeOK, NoCallWhileDown,
                 At, Published, NoFault, store, history, admission
  <1>9. CASE NextEntry(t, c)
    <2>1. old.entries # <<>> /\ AppendEntry(t, c, old) /\ Drives(old)
      BY <1>9 DEF NextEntry, At, Drives
    <2>2. /\ tasks' \in [Task -> TaskRecord]
          /\ calls' \in [Task -> [CallId -> Call]]
          /\ past' \in [Task -> SUBSET ShownState]
          /\ HasResults'
          /\ \A u \in Task : DrivenWell(u)'
      BY <2>1, AppendEntryKeeps
    <2>3. disk' \in [Task -> TaskRecord]
      BY <1>9 DEF NextEntry, TypeOK, Call
    <2> QED  BY <1>9, <2>2, <2>3
             DEF NextEntry, RuntimeInv, TypeOK, NoCallWhileDown,
                 At, Published, NoFault, store, history, admission
  <1>10. CASE LastEntry(t, c)
    <2>1. Transition(t, c, Idle, old.target) /\ Drives(old)
      BY <1>10 DEF LastEntry, At, Drives
    <2>2. old.target \in TaskState /\ old.target # "Verifying"
      BY DEF Call, Outcome, TaskState
    <2>3. /\ tasks' \in [Task -> TaskRecord]
          /\ calls' \in [Task -> [CallId -> Call]]
          /\ past' \in [Task -> SUBSET ShownState]
          /\ HasResults'
          /\ \A u \in Task : DrivenWell(u)'
      BY <2>1, <2>2, CallTypes, TransitionKeeps
    <2>4. disk' \in [Task -> TaskRecord]
      BY <1>10 DEF LastEntry, TypeOK, Call
    <2> QED  BY <1>10, <2>3, <2>4
             DEF LastEntry, RuntimeInv, TypeOK, NoCallWhileDown,
                 At, Published, NoFault, store, history, admission
  <1>11. CASE OutcomePublished(t, c)
    <2>1. UNCHANGED tasks /\ SetCall(t, c, Ended(c))
      BY <1>11 DEF OutcomePublished
    <2>2. /\ tasks' \in [Task -> TaskRecord]
          /\ calls' \in [Task -> [CallId -> Call]]
          /\ HasResults'
          /\ \A u \in Task : DrivenWell(u)'
      <3>1. Ended(c).pc \notin {"persist", "publish"}
        BY DEF Ended, Idle
      <3> QED  BY <2>1, <3>1, CallTypes, IdleDrivesNothing, CallChanges
    <2> QED  BY <1>11, <2>2
             DEF OutcomePublished, RuntimeInv, TypeOK, NoCallWhileDown,
                 At, Published, NoFault, store, history, admission
  <1> QED  BY <1>2, <1>3, <1>4, <1>5, <1>6, <1>7, <1>8, <1>9, <1>10, <1>11 DEF CallStep

LEMMA ToolStepKeeps ==
  ASSUME NEW t \in Task, NEW c \in CallId, RuntimeInv, ToolStep(t, c)
  PROVE  RuntimeInv'
  <1>1. /\ TypeOK /\ DrivenWell(t)
        /\ tasks[t] \in TaskRecord /\ calls[t][c] \in Call
        /\ ran[t] \in Seq(ToolResult \cup {"started"})
    BY DEF RuntimeInv, TypeOK
  <1> USE <1>1
  <1> DEFINE old == calls[t][c]
  <1>2. \A result \in ToolResult :
           /\ Append(old.results, result) \in Seq(ToolResult)
           /\ Append(old.results, result) # <<>>
    <2>1. old.results \in Seq(ToolResult)
      BY DEF Call
    <2> HIDE DEF old
    <2>2. \A result \in ToolResult : Append(old.results, result) \in Seq(ToolResult)
      BY <2>1
    <2>3. \A result \in ToolResult : Append(old.results, result) # <<>>
      <3>1. \A result \in ToolResult : Len(Append(old.results, result)) = Len(old.results) + 1
        BY <2>1
      <3>2. Len(old.results) \in Nat
        BY <2>1
      <3>3. Len(old.results) + 1 # 0
        BY <3>2
      <3> QED  BY <3>1, <3>3
    <2> QED  BY <2>2, <2>3
  <1>3. ASSUME NEW result \in ToolResult, StepReturns(t, c, result)
        PROVE  RuntimeInv'
    <2> DEFINE call == [old EXCEPT !.left = @ - 1, !.results = Append(@, result)]
    <2>1. old.pc = "tool" /\ old.left > 1 /\ UNCHANGED tasks /\ SetCall(t, c, call)
      BY <1>3 DEF StepReturns, At
    <2>2. old.left - 1 \in Nat
      BY <2>1 DEF Call
    <2>3. call \in Call /\ call.pc = "tool"
      BY <1>2, <2>1, <2>2 DEF Call
    <2>4. Drives(old) /\ Admits(call) = Admits(old)
      BY <2>1, <2>3 DEF Drives, Admits
    <2>5. /\ tasks' \in [Task -> TaskRecord]
          /\ calls' \in [Task -> [CallId -> Call]]
          /\ HasResults'
          /\ \A u \in Task : DrivenWell(u)'
      <3>1. tasks[t].state \in Admits(call)
        BY <2>4 DEF DrivenWell
      <3> HIDE DEF call
      <3> QED  BY <2>1, <2>3, <2>4, <3>1, CallChanges
    <2>6. ran' \in [Task -> Seq(ToolResult \cup {"started"})]
      <3> DEFINE log == Answered(ran[t], result)
      <3>1. log \in Seq(ToolResult \cup {"started"})
        BY RanTypes
      <3>2. ran' = [ran EXCEPT ![t] = Append(log, "started")]
        BY <1>3 DEF StepReturns
      <3> HIDE DEF log
      <3> QED  BY <3>1, <3>2 DEF TypeOK
    <2> QED  BY <1>3, <2>5, <2>6
             DEF StepReturns, RuntimeInv, TypeOK, NoCallWhileDown,
                 At, Published, NoFault, store, history, admission
  <1>4. ASSUME NEW result \in ToolResult, LastStepReturns(t, c, result)
        PROVE  RuntimeInv'
    <2> DEFINE call == [old EXCEPT !.left = 0, !.results = Append(@, result)]
    <2>1. Transition(t, c, call, "Verifying") /\ Drives(old)
      BY <1>4 DEF LastStepReturns, At, Drives
    <2>2. call \in Call /\ call.results # <<>>
      BY <1>2 DEF Call
    <2>3. /\ tasks' \in [Task -> TaskRecord]
          /\ calls' \in [Task -> [CallId -> Call]]
          /\ past' \in [Task -> SUBSET ShownState]
          /\ HasResults'
          /\ \A u \in Task : DrivenWell(u)'
      <3> HIDE DEF call
      <3> QED  BY <2>1, <2>2, TransitionKeeps DEF TaskState
    <2>4. ran' \in [Task -> Seq(ToolResult \cup {"started"})]
      <3> DEFINE log == Answered(ran[t], result)
      <3>1. log \in Seq(ToolResult \cup {"started"})
        BY RanTypes
      <3>2. ran' = [ran EXCEPT ![t] = log]
        BY <1>4 DEF LastStepReturns
      <3> HIDE DEF log
      <3> QED  BY <3>1, <3>2 DEF TypeOK
    <2> QED  BY <1>4, <2>3, <2>4
             DEF LastStepReturns, RuntimeInv, TypeOK, NoCallWhileDown,
                 At, Published, NoFault, store, history, admission
  <1>5. CASE StepFails(t, c)
    <2>1. FailAttempt(t, c) /\ Drives(old)
      BY <1>5 DEF StepFails, At, Drives
    <2>2. /\ tasks' \in [Task -> TaskRecord]
          /\ calls' \in [Task -> [CallId -> Call]]
          /\ past' \in [Task -> SUBSET ShownState]
          /\ HasResults'
          /\ \A u \in Task : DrivenWell(u)'
      BY <2>1, FailAttemptKeeps
    <2> QED  BY <1>5, <2>2
             DEF StepFails, RuntimeInv, TypeOK, NoCallWhileDown,
                 At, Published, NoFault, store, history, admission
  <1> QED  BY <1>3, <1>4, <1>5 DEF ToolStep

LEMMA CallFailsKeeps ==
  ASSUME NEW t \in Task, NEW c \in CallId, RuntimeInv, CallFails(t, c)
  PROVE  RuntimeInv'
  <1>1. UNCHANGED tasks /\ SetCall(t, c, Ended(c))
    BY DEF CallFails
  <1>2. /\ tasks' \in [Task -> TaskRecord]
          /\ calls' \in [Task -> [CallId -> Call]]
          /\ HasResults'
          /\ \A u \in Task : DrivenWell(u)'
    <2>1. Ended(c).pc \notin {"persist", "publish"}
      BY DEF Ended, Idle
    <2> QED  BY <1>1, <2>1, CallTypes, IdleDrivesNothing, CallChanges
  <1>3. faults' \in Nat
    BY DEF RuntimeInv, TypeOK, CallFails
  <1> QED  BY <1>2, <1>3 DEF CallFails, RuntimeInv, TypeOK, NoCallWhileDown,
                 At, Published, NoFault, store, history, admission

LEMMA SchedulerStepKeeps ==
  ASSUME NEW t \in Task, RuntimeInv, SchedulerStep(t)
  PROVE  RuntimeInv'
  <1>1. TypeOK
    BY DEF RuntimeInv
  <1>2. ASSUME NEW S \in SUBSET Task, SubmitReturns(t, S)
        PROVE  RuntimeInv'
    <2>1. /\ tasks' \in [Task -> TaskRecord]
          /\ calls' \in [Task -> [CallId -> Call]]
          /\ past' \in [Task -> SUBSET ShownState]
          /\ HasResults'
          /\ \A u \in Task : DrivenWell(u)'
      BY <1>2, CallIds, StartRunsKeeps DEF SubmitReturns
    <2>2. ran' \in [Task -> Seq(ToolResult \cup {"started"})]
      BY <1>1, <1>2, NewAttemptTypes DEF SubmitReturns
    <2>3. queue' \subseteq Task /\ running' \subseteq Task /\ draining' \in BOOLEAN
      <3>1. queue' \subseteq Task /\ running' \subseteq Task
        BY <1>1, <1>2 DEF SubmitReturns, EnqueueAndDispatch, Enqueued, TypeOK
      <3>2. draining' = (draining \/ StillDraining(queue', running'))
        BY <1>2 DEF SubmitReturns, EnqueueAndDispatch
      <3> QED  BY <3>1, <3>2 DEF StillDraining
    <2> QED  BY <1>1, <1>2, <2>1, <2>2, <2>3
             DEF SubmitReturns, RuntimeInv, TypeOK, NoCallWhileDown,
                 At, Published, NoFault, store, history, admission
  <1>3. ASSUME NEW S \in SUBSET Task, RunFinally(t, S)
        PROVE  RuntimeInv'
    <2>1. /\ tasks' \in [Task -> TaskRecord]
          /\ calls' \in [Task -> [CallId -> Call]]
          /\ past' \in [Task -> SUBSET ShownState]
          /\ HasResults'
          /\ \A u \in Task : DrivenWell(u)'
      BY <1>3, CallIds, StartRunsKeeps DEF RunFinally
    <2>2. ran' \in [Task -> Seq(ToolResult \cup {"started"})]
      BY <1>1, <1>3, NewAttemptTypes DEF RunFinally
    <2>3. queue' \subseteq Task /\ running' \subseteq Task /\ draining' \in BOOLEAN
      BY <1>1, <1>3 DEF RunFinally, Finally, TypeOK
    <2> QED  BY <1>1, <1>3, <2>1, <2>2, <2>3
             DEF RunFinally, RuntimeInv, TypeOK, NoCallWhileDown,
                 At, Published, NoFault, store, history, admission
  <1> QED  BY <1>2, <1>3 DEF SchedulerStep

\* Starting and crashing: there are no calls before the process is up.
LEMMA ProcessStepKeeps ==
  ASSUME RuntimeInv, StartStep \/ StartFails \/ Crash
  PROVE  RuntimeInv'
  <1>1. TypeOK /\ NoCallWhileDown
    BY DEF RuntimeInv
  <1> USE <1>1
  <1>2. ASSUME \A t \in Task, c \in CallId : calls'[t][c] = Idle
        PROVE  HasResults' /\ \A t \in Task : DrivenWell(t)'
    <2>1. HasResults'
      BY <1>2 DEF HasResults, Idle
    <2>2. \A t \in Task : DrivenWell(t)'
      BY <1>2, IdleDrivesNothing DEF DrivenWell
    <2> QED  BY <2>1, <2>2
  <1>3. CASE Start
    BY <1>2, <1>3 DEF Start, RuntimeInv, TypeOK, NoCallWhileDown,
                 At, Published, NoFault, store, history, admission
  <1>4. ASSUME NEW t \in Task, RecoverTask(t)
        PROVE  RuntimeInv'
    <2>1. disk' \in [Task -> TaskRecord]
      <3>1. [disk[t] EXCEPT !.state = Recovered(@)] \in TaskRecord
        BY RecordTypes DEF TypeOK
      <3>2. disk' = [disk EXCEPT ![t] = [disk[t] EXCEPT !.state = Recovered(@)]]
        BY <1>4 DEF RecoverTask, TypeOK
      <3> QED  BY <3>1, <3>2 DEF TypeOK
    <2> QED  BY <1>2, <1>4, <2>1 DEF RecoverTask, RuntimeInv, TypeOK, NoCallWhileDown,
                 At, Published, NoFault, store, history, admission
  <1>5. CASE Restore
    <2>1. tasks' \in [Task -> TaskRecord]
      BY <1>5, RecordTypes DEF Restore, TypeOK
    <2> QED  BY <1>2, <1>5, <2>1 DEF Restore, RuntimeInv, TypeOK, NoCallWhileDown,
                 At, Published, NoFault, store, history, admission
  <1>6. CASE StartFails
    <2>1. faults' \in Nat
      BY <1>6 DEF TypeOK, StartFails
    <2> QED  BY <1>2, <1>6, <2>1 DEF StartFails, RuntimeInv, TypeOK, NoCallWhileDown,
                 At, Published, NoFault, store, history, admission
  <1>7. CASE Crash
    <2>1. crashes' \in Nat
      BY <1>7 DEF TypeOK, Crash
    <2>2. \A t \in Task, c \in CallId : calls'[t][c] = Idle
      BY <1>7 DEF Crash
    <2>3. tasks' \in [Task -> TaskRecord] /\ calls' \in [Task -> [CallId -> Call]]
      BY <1>7, RecordTypes, CallTypes DEF Crash
    <2> QED  BY <1>2, <1>7, <2>1, <2>2, <2>3 DEF Crash, RuntimeInv, TypeOK, NoCallWhileDown,
                 At, Published, NoFault, store, history, admission
  <1> QED  BY <1>3, <1>4, <1>5, <1>6, <1>7 DEF StartStep

LEMMA InitHolds ==
  ASSUME Init
  PROVE  RuntimeInv
  <1>1. \A t \in Task, c \in CallId : calls[t][c] = Idle
    BY DEF Init
  <1>2. HasResults /\ NoCallWhileDown
    BY <1>1 DEF HasResults, NoCallWhileDown, Idle
  <1>3. \A t \in Task : DrivenWell(t)
    BY <1>1, IdleDrivesNothing DEF DrivenWell
  <1>4. TypeOK
    <2>1. \A t \in Task : <<>> \in Seq(ToolResult \cup {"started"})
      OBVIOUS
    <2> QED  BY <2>1, RecordTypes, CallTypes DEF Init, AdmissionInit, TypeOK, ShownState
  <1> QED  BY <1>2, <1>3, <1>4 DEF RuntimeInv

\* The invariant from which the theorems below follow.
THEOREM RuntimeInvariant == Spec => []RuntimeInv
  <1>1. Init => RuntimeInv
    BY InitHolds
  <1>2. RuntimeInv /\ [Next]_vars => RuntimeInv'
    <2> SUFFICES ASSUME RuntimeInv, [Next]_vars
                 PROVE  RuntimeInv'
      OBVIOUS
    <2>1. CASE Next
      BY <2>1, UserStepKeeps, SchedulerStepKeeps, CallStepKeeps, ToolStepKeeps,
         CallFailsKeeps, ProcessStepKeeps DEF Next
    <2>2. CASE UNCHANGED vars
      BY <2>2 DEF vars, RuntimeInv, TypeOK, HasResults, NoCallWhileDown, DrivenWell
    <2> QED  BY <2>1, <2>2
  <1> QED  BY <1>1, <1>2, PTL DEF Spec

----------------------------------------------------------------------------
\* Every reachable state of the runtime is well typed: no interleaving of the
\* coordinator's calls, no failure and no crash makes a record, a snapshot or
\* a call that the code could not hold.
THEOREM TypesCorrect == Spec => []TypeOK
  <1>1. RuntimeInv => TypeOK
    BY DEF RuntimeInv
  <1> QED  BY <1>1, RuntimeInvariant, PTL

\* A task is executed by one call at a time, although the scheduler, retry and
\* resumePaused start executions independently of each other.
THEOREM DriversExclude == Spec => []OneDriver
  <1>1. RuntimeInv => OneDriver
    BY DEF RuntimeInv, DrivenWell, OneDriver
  <1> QED  BY <1>1, RuntimeInvariant, PTL

\* While a tool runs for a task, neither cancelTask nor another call of the
\* coordinator changes the state the task is shown in.
THEOREM ToolsRunWhileExecuting == Spec => []ToolOnlyWhileExecuting
  <1>1. RuntimeInv => ToolOnlyWhileExecuting
    <2> SUFFICES ASSUME RuntimeInv, NEW t \in Task, NEW c \in CallId, calls[t][c].pc = "tool"
                 PROVE  tasks[t].state = "Executing"
      BY DEF ToolOnlyWhileExecuting
    <2>1. Drives(calls[t][c]) /\ Admits(calls[t][c]) = {"Executing"}
      BY DEF Drives, Admits
    <2> QED  BY <2>1 DEF RuntimeInv, DrivenWell
  <1> QED  BY <1>1, RuntimeInvariant, PTL

----------------------------------------------------------------------------
(* The runtime over the scheduler: a slot is held exactly while the        *)
(* execution the scheduler started in it goes on, and no task is left in   *)
(* the queue with nobody to take it out.  Proved from the invariant of     *)
(* TaskAdmission, whose actions the steps of the runtime contain.          *)

SlotsInv == AdmissionInv /\ SlotsHeldByRuns

LEMMA EndedIsNotIdle ==
    /\ Ended(Run).pc # "idle"
    /\ \A r : Executed(Run, r).pc # "idle"
    /\ Idle.pc = "idle"
  BY DEF Ended, Executed, Idle

\* A step of another call, or of a scheduled execution that goes on.
LEMMA SlotKept ==
  ASSUME NEW t \in Task, NEW c \in CallId, NEW call, TypeOK, SlotsInv,
         SetCall(t, c, call), UNCHANGED admission,
         c = Run => calls[t][c].pc # "idle" /\ call.pc # "idle"
  PROVE  SlotsInv'
  <1>1. \A u \in Task, d \in CallId :
           calls'[u][d] = IF u = t /\ d = c THEN call ELSE calls[u][d]
    BY DEF TypeOK, SetCall
  <1>2. SlotsHeldByRuns'
    BY <1>1, CallIds DEF SlotsInv, SlotsHeldByRuns, admission
  <1>3. AdmissionInv'
    BY DEF SlotsInv, admission, AdmissionInv, AdmissionTypeOK, NeverQueuedTwice,
           SlotsBounded, NeverStuck, DrainLastsWhileRunning
  <1> QED  BY <1>2, <1>3 DEF SlotsInv

LEMMA TransitionSlots ==
  ASSUME NEW t \in Task, NEW c \in CallId, NEW call \in Call, NEW target,
         TypeOK, SlotsInv, Transition(t, c, call, target), UNCHANGED admission,
         c = Run => calls[t][c].pc # "idle"
  PROVE  SlotsInv'
  <1> DEFINE next == [call EXCEPT !.pc = "persist", !.rec = Moved(tasks[t], target)]
  <1>1. next.pc # "idle"
    BY DEF Call
  <1>2. SetCall(t, c, next) \/ SetCall(t, c, Ended(c))
    BY DEF Transition
  <1> HIDE DEF next
  <1> QED  BY <1>1, <1>2, EndedIsNotIdle, SlotKept

LEMMA AppendEntrySlots ==
  ASSUME NEW t \in Task, NEW c \in CallId, NEW call,
         TypeOK, SlotsInv, AppendEntry(t, c, call), UNCHANGED admission,
         call \in Call, c = Run => calls[t][c].pc # "idle"
  PROVE  SlotsInv'
  <1> DEFINE next == [call EXCEPT !.pc = "history",
                                  !.rec = WithEntry(tasks[t], Head(call.entries)),
                                  !.entries = Tail(@)]
  <1>1. next.pc # "idle"
    BY DEF Call
  <1>2. SetCall(t, c, next)
    BY DEF AppendEntry
  <1> HIDE DEF next
  <1> QED  BY <1>1, <1>2, SlotKept

LEMMA FailAttemptSlots ==
  ASSUME NEW t \in Task, NEW c \in CallId,
         TypeOK, SlotsInv, FailAttempt(t, c), UNCHANGED admission,
         c = Run => calls[t][c].pc # "idle"
  PROVE  SlotsInv'
  <1> DEFINE call == [Idle EXCEPT !.entries = <<"error">>, !.target = "Failed"]
  <1>1. <<"error">> \in Seq(HistoryEntry)
    BY DEF HistoryEntry
  <1>2. call \in Call
    BY <1>1, CallTypes DEF Call, Outcome
  <1>3. AppendEntry(t, c, call)
    BY DEF FailAttempt
  <1> HIDE DEF call
  <1> QED  BY <1>2, <1>3, AppendEntrySlots

LEMMA UserStepSlots ==
  ASSUME NEW t \in Task, TypeOK, SlotsInv, UserStep(t)
  PROVE  SlotsInv'
  <1>1. CASE SubmitTask(t)
    BY <1>1, CallIds, SlotKept DEF SubmitTask
  <1>2. CASE CancelTask(t)
    <2>1. AdmissionInv'
      BY <1>2, CancelQueuedKeeps DEF SlotsInv, CancelTask
    <2>2. running' = running /\ calls' = calls
      BY <1>2 DEF CancelTask, CancelQueued
    <2> QED  BY <2>1, <2>2 DEF SlotsInv, SlotsHeldByRuns
  <1>3. CASE PauseTask(t)
    <2>1. AdmissionInv'
      BY <1>3, CancelQueuedKeeps DEF SlotsInv, PauseTask
    <2>2. running' = running /\ calls' = calls
      BY <1>3 DEF PauseTask, CancelQueued
    <2> QED  BY <2>1, <2>2 DEF SlotsInv, SlotsHeldByRuns
  <1>4. CASE ResumePaused(t)
    BY <1>4, CallIds, CallTypes, TransitionSlots DEF ResumePaused
  <1>5. CASE RetryTask(t)
    <2> DEFINE k == Retry(tasks[t].retry_count + 1)
    <2>1. k \in CallId /\ k # Run
      <3>1. tasks[t].retry_count \in Nat
        BY DEF TypeOK, TaskRecord
      <3>2. tasks[t].retry_count < MaxRetries
        BY <1>5 DEF RetryTask, CanMove
      <3> QED  BY <3>1, <3>2, RetryAssumption DEF CallId, Retry, Submit, Run
    <2>2. Transition(t, k, Idle, "Retrying") /\ UNCHANGED admission
      BY <1>5 DEF RetryTask
    <2> HIDE DEF k
    <2> QED  BY <2>1, <2>2, CallTypes, TransitionSlots
  <1> QED  BY <1>1, <1>2, <1>3, <1>4, <1>5 DEF UserStep

LEMMA CallStepSlots ==
  ASSUME NEW t \in Task, NEW c \in CallId, TypeOK, HasResults, SlotsInv,
         CallStep(t, c) \/ ToolStep(t, c) \/ CallFails(t, c)
  PROVE  SlotsInv'
  <1> DEFINE old == calls[t][c]
  <1>1. old \in Call
    BY DEF TypeOK
  <1>2. old.pc # "idle" /\ UNCHANGED admission
    BY DEF CallStep, ToolStep, CallFails, PersistOk, RetryExecutes, PlanningPublished,
           PlanMade, PlanFails, ExecutingPublished, VerifyingPublished, NextEntry,
           LastEntry, OutcomePublished, StepReturns, LastStepReturns, StepFails,
           Published, At
  <1>3. \A pc : pc # "idle" => [old EXCEPT !.pc = pc].pc # "idle"
    BY <1>1 DEF Call
  <1>4. CASE PersistOk(t, c)
    BY <1>2, <1>3, <1>4, SlotKept DEF PersistOk
  <1>5. CASE RetryExecutes(t, c)
    BY <1>2, <1>5, CallTypes, TransitionSlots DEF RetryExecutes
  <1>6. CASE PlanningPublished(t, c)
    BY <1>2, <1>3, <1>6, SlotKept DEF PlanningPublished
  <1>7. ASSUME NEW n \in 1 .. MaxSteps, PlanMade(t, c, n) PROVE SlotsInv'
    <2> DEFINE call == [Idle EXCEPT !.left = n]
    <2>1. call \in Call
      <3>1. n \in Nat
        BY RuntimeAssumption
      <3> QED  BY <3>1, CallTypes DEF Call
    <2>2. Transition(t, c, call, "Executing")
      BY <1>7 DEF PlanMade
    <2> HIDE DEF call
    <2> QED  BY <1>2, <2>1, <2>2, TransitionSlots
  <1>8. CASE PlanFails(t, c) \/ StepFails(t, c)
    BY <1>2, <1>8, FailAttemptSlots DEF PlanFails, StepFails
  <1>9. CASE ExecutingPublished(t, c)
    BY <1>2, <1>3, <1>9, SlotKept DEF ExecutingPublished
  <1>10. CASE VerifyingPublished(t, c)
    <2> DEFINE verdicts == [i \in 1 .. Len(old.results) |-> VerdictOf(old.results[i])]
               call == [Idle EXCEPT !.entries = verdicts, !.target = OutcomeOf(verdicts)]
    <2>1. AppendEntry(t, c, call)
      BY <1>10 DEF VerifyingPublished
    <2>2. old.results # <<>> /\ old.results \in Seq(ToolResult)
      BY <1>1, <1>10 DEF VerifyingPublished, Published, At, HasResults, Call
    <2>3. call \in Call
      BY <2>2, VerdictsToAppend
    <2> HIDE DEF call
    <2> QED  BY <1>2, <2>1, <2>3, AppendEntrySlots
  <1>11. CASE NextEntry(t, c)
    BY <1>1, <1>2, <1>11, AppendEntrySlots DEF NextEntry
  <1>12. CASE LastEntry(t, c)
    BY <1>2, <1>12, CallTypes, TransitionSlots DEF LastEntry
  <1>13. CASE OutcomePublished(t, c) \/ CallFails(t, c)
    BY <1>2, <1>13, EndedIsNotIdle, SlotKept DEF OutcomePublished, CallFails
  <1>14. ASSUME NEW result \in ToolResult, StepReturns(t, c, result) PROVE SlotsInv'
    <2> DEFINE call == [old EXCEPT !.left = @ - 1, !.results = Append(@, result)]
    <2>1. call.pc # "idle"
      BY <1>1, <1>2 DEF Call
    <2>2. SetCall(t, c, call)
      BY <1>14 DEF StepReturns
    <2> HIDE DEF call
    <2> QED  BY <1>2, <2>1, <2>2, SlotKept
  <1>15. ASSUME NEW result \in ToolResult, LastStepReturns(t, c, result) PROVE SlotsInv'
    <2> DEFINE call == [old EXCEPT !.left = 0, !.results = Append(@, result)]
    <2>1. call \in Call
      <3>1. Append(old.results, result) \in Seq(ToolResult)
        <4>1. old.results \in Seq(ToolResult)
          BY <1>1 DEF Call
        <4> QED  BY <4>1
      <3> QED  BY <1>1, <3>1 DEF Call
    <2>2. Transition(t, c, call, "Verifying")
      BY <1>15 DEF LastStepReturns
    <2> HIDE DEF call
    <2> QED  BY <1>2, <2>1, <2>2, TransitionSlots
  <1> QED  BY <1>4, <1>5, <1>6, <1>7, <1>8, <1>9, <1>10, <1>11, <1>12, <1>13, <1>14, <1>15
           DEF CallStep, ToolStep

LEMMA SchedulerStepSlots ==
  ASSUME NEW t \in Task, TypeOK, SlotsInv, SchedulerStep(t)
  PROVE  SlotsInv'
  <1>1. ASSUME NEW S \in SUBSET Task, SubmitReturns(t, S) PROVE SlotsInv'
    <2>1. AdmissionInv' /\ running' = running \cup S
      BY <1>1, EnqueueAndDispatchKeeps DEF SlotsInv, SubmitReturns, EnqueueAndDispatch
    <2>2. \A u \in Task :
             calls'[u][Run] = IF u \in S THEN Executed(Run, tasks[u]) ELSE calls[u][Run]
      BY <1>1, CallIds DEF SubmitReturns, StartRuns
    <2> QED  BY <2>1, <2>2, EndedIsNotIdle DEF SlotsInv, SlotsHeldByRuns
  <1>2. ASSUME NEW S \in SUBSET Task, RunFinally(t, S) PROVE SlotsInv'
    <2>1. AdmissionInv' /\ running' = (running \ {t}) \cup S
      BY <1>2, FinallyKeeps DEF SlotsInv, RunFinally, Finally
    <2>2. \A u \in Task :
             calls'[u][Run] = IF u \in S THEN Executed(Run, tasks[u])
                              ELSE IF u = t THEN Idle ELSE calls[u][Run]
      BY <1>2, CallIds DEF RunFinally, StartRuns
    <2> QED  BY <2>1, <2>2, EndedIsNotIdle DEF SlotsInv, SlotsHeldByRuns
  <1> QED  BY <1>1, <1>2 DEF SchedulerStep

\* Nobody is queued and nobody runs when a process begins and when it dies.
LEMMA ProcessStepSlots ==
  ASSUME SlotsInv, StartStep \/ StartFails \/ Crash
  PROVE  SlotsInv'
  <1>1. CASE Crash
    <2>1. queue' = {} /\ running' = {} /\ draining' = FALSE
          /\ \A t \in Task : calls'[t][Run] = Idle
      BY <1>1, CallIds DEF Crash
    <2>2. SlotsBounded'
      BY <2>1, FS_EmptySet, AdmissionAssumption DEF SlotsBounded
    <2> QED  BY <2>1, <2>2, EndedIsNotIdle
             DEF SlotsInv, SlotsHeldByRuns, AdmissionInv, AdmissionTypeOK,
                 NeverQueuedTwice, NeverStuck, DrainLastsWhileRunning
  <1>2. CASE StartStep \/ StartFails
    <2>1. UNCHANGED <<calls, admission>>
      BY <1>2 DEF StartStep, StartFails, Start, RecoverTask, Restore
    <2> QED  BY <2>1 DEF SlotsInv, SlotsHeldByRuns, admission, AdmissionInv,
                         AdmissionTypeOK, NeverQueuedTwice, SlotsBounded, NeverStuck,
                         DrainLastsWhileRunning
  <1> QED  BY <1>1, <1>2

THEOREM SlotsInvariant == Spec => []SlotsInv
  <1>1. Init => SlotsInv
    <2> SUFFICES ASSUME Init PROVE SlotsInv
      OBVIOUS
    <2>1. queue = {} /\ running = {} /\ draining = FALSE
          /\ \A t \in Task : calls[t][Run] = Idle
      BY CallIds DEF Init, AdmissionInit
    <2>2. SlotsBounded
      BY <2>1, FS_EmptySet, AdmissionAssumption DEF SlotsBounded
    <2> QED  BY <2>1, <2>2, EndedIsNotIdle
             DEF SlotsInv, SlotsHeldByRuns, AdmissionInv, AdmissionTypeOK,
                 NeverQueuedTwice, NeverStuck, DrainLastsWhileRunning
  <1>2. RuntimeInv /\ SlotsInv /\ [Next]_vars => SlotsInv'
    <2> SUFFICES ASSUME RuntimeInv, SlotsInv, [Next]_vars PROVE SlotsInv'
      OBVIOUS
    <2>1. TypeOK /\ HasResults
      BY DEF RuntimeInv
    <2>2. CASE Next
      BY <2>1, <2>2, UserStepSlots, SchedulerStepSlots, CallStepSlots, ProcessStepSlots
         DEF Next
    <2>3. CASE UNCHANGED vars
      BY <2>3 DEF vars, SlotsInv, SlotsHeldByRuns, AdmissionInv, AdmissionTypeOK,
                  NeverQueuedTwice, SlotsBounded, NeverStuck, DrainLastsWhileRunning
    <2> QED  BY <2>2, <2>3
  <1> QED  BY <1>1, <1>2, RuntimeInvariant, PTL DEF Spec

\* The scheduler's slots are held by the executions it started, whatever way
\* those end, and are freed by nothing else.
THEOREM SlotsAreHeldByRuns == Spec => []SlotsHeldByRuns
  <1>1. SlotsInv => SlotsHeldByRuns
    BY DEF SlotsInv
  <1> QED  BY <1>1, SlotsInvariant, PTL

\* A queued task never waits with no execution left whose end would start it,
\* although dispatch() does nothing while a drain goes on.
THEOREM QueueIsNeverStuck == Spec => []NeverStuck
  <1>1. SlotsInv => NeverStuck
    BY DEF SlotsInv, AdmissionInv
  <1> QED  BY <1>1, SlotsInvariant, PTL

----------------------------------------------------------------------------
(* TaskRuntime implements TaskLifecycle.                                   *)
(*                                                                         *)
(* What a step within the life of a process may do is gathered in the      *)
(* action RunningStep; that every checkpoint, and every snapshot on its    *)
(* way to becoming one, is of a state the task has been in is the          *)
(* invariant Traced.  The two imply that a running process moves its tasks *)
(* along the table, and that a crash shows states they were in.            *)

\* The awaits at which a call holds a snapshot.
Holding == {"persist", "publish", "history"}

Traced(t) ==
    /\ "Absent" \in past[t]
    /\ \E s \in past[t] : Recovered(s) = Recovered(disk[t].state)
    /\ \A c \in CallId : calls[t][c].pc \in Holding =>
          /\ calls[t][c].rec.state \in past[t] \ {"Absent"}
          /\ tasks[t].state # "Absent"
    /\ \/ t \in acked
       \/ \E c \in CallId : calls[t][c].pc = "publish"
       => disk[t].state # "Absent"

TraceInv == \A t \in Task : Traced(t)

\* What one step may do to a call: leave it, end it or its hold on a
\* snapshot, give it the task's present record, or commit its snapshot.
CallMoves(t, c) ==
    \/ calls'[t][c] = calls[t][c]
    \/ calls'[t][c].pc \notin Holding
    \/ /\ calls'[t][c].pc \in {"persist", "history"}
       /\ calls'[t][c].rec.state = tasks'[t].state
       /\ tasks'[t].state # "Absent"
       /\ Remember
    \/ /\ calls[t][c].pc = "persist"
       /\ calls'[t][c].rec = calls[t][c].rec
       /\ disk'[t] = calls[t][c].rec

RunningStep ==
    /\ process = "up" /\ process' = "up"
    /\ \A t \in Task :
          tasks'[t].state \in {tasks[t].state} \cup Successors(tasks[t].state)
    /\ Remember \/ UNCHANGED <<past, tasks, acked>>
    /\ \A t \in Task, c \in CallId : CallMoves(t, c)
    /\ \A t \in Task :
          \/ disk'[t] = disk[t]
          \/ \E c \in CallId : /\ calls[t][c].pc \in {"persist", "history"}
                               /\ disk'[t] = calls[t][c].rec
    /\ acked \subseteq acked'
    /\ \A t \in acked' \ acked : \E c \in CallId : calls[t][c].pc = "publish"

----------------------------------------------------------------------------
(* Every step of a running process is a RunningStep.                       *)

\* What the parts of the actions do to records and calls.
Moves ==
    /\ \A t \in Task :
          tasks'[t].state \in {tasks[t].state} \cup Successors(tasks[t].state)
    /\ \A t \in Task, c \in CallId : CallMoves(t, c)

LEMMA TransitionMoves ==
  ASSUME NEW t \in Task, NEW c \in CallId, NEW call \in Call, NEW target \in TaskState,
         TypeOK, Transition(t, c, call, target)
  PROVE  Moves
  <1>1. tasks \in [Task -> TaskRecord] /\ calls \in [Task -> [CallId -> Call]]
    BY DEF TypeOK
  <1>2. Moved(tasks[t], target).state = target /\ target # "Absent"
    BY <1>1, RecordStates DEF ShownState, TaskState
  <1>3. CASE CanMove(tasks[t], target)
    <2>1. \A u \in Task : tasks'[u] = IF u = t THEN Moved(tasks[t], target) ELSE tasks[u]
      BY <1>1, <1>3 DEF Transition
    <2>2. /\ \A u \in Task, d \in CallId :
                 u # t \/ d # c => calls'[u][d] = calls[u][d]
          /\ calls'[t][c].pc = "persist"
          /\ calls'[t][c].rec = Moved(tasks[t], target)
      <3> DEFINE next == [call EXCEPT !.pc = "persist", !.rec = Moved(tasks[t], target)]
      <3>1. next.pc = "persist" /\ next.rec = Moved(tasks[t], target)
        BY DEF Call
      <3>2. calls' = [calls EXCEPT ![t][c] = next]
        BY <1>3 DEF Transition, SetCall
      <3> HIDE DEF next
      <3> QED  BY <1>1, <3>1, <3>2
    <2>3. \A u \in Task, d \in CallId : CallMoves(u, d)
      BY <1>2, <2>1, <2>2 DEF CallMoves, Transition
    <2> QED  BY <1>2, <1>3, <2>1, <2>3 DEF Moves, CanMove
  <1>4. CASE ~CanMove(tasks[t], target)
    <2>1. tasks' = tasks
      BY <1>4 DEF Transition
    <2>2. /\ \A u \in Task, d \in CallId :
                 u # t \/ d # c => calls'[u][d] = calls[u][d]
          /\ calls'[t][c] = Ended(c)
      BY <1>1, <1>4 DEF Transition, SetCall
    <2>3. Ended(c).pc \notin Holding
      BY DEF Ended, Idle, Holding
    <2> QED  BY <2>1, <2>2, <2>3 DEF Moves, CallMoves
  <1> QED  BY <1>3, <1>4

LEMMA AppendEntryMoves ==
  ASSUME NEW t \in Task, NEW c \in CallId, NEW call \in Call,
         TypeOK, DrivenWell(t), Drives(calls[t][c]), call.entries # <<>>,
         AppendEntry(t, c, call)
  PROVE  Moves
  <1>1. tasks \in [Task -> TaskRecord] /\ calls \in [Task -> [CallId -> Call]]
    BY DEF TypeOK
  <1>2. call.entries \in Seq(HistoryEntry)
    BY DEF Call
  <1>3. Head(call.entries) \in HistoryEntry
    BY <1>2
  <1>4. WithEntry(tasks[t], Head(call.entries)).state = tasks[t].state
    BY <1>1, <1>3, RecordStates
  <1>5. tasks[t].state # "Absent"
    BY AdmittedStates DEF DrivenWell
  <1>6. \A u \in Task : tasks'[u].state = tasks[u].state
    BY <1>1, <1>4 DEF AppendEntry
  <1>7. /\ \A u \in Task, d \in CallId :
               u # t \/ d # c => calls'[u][d] = calls[u][d]
        /\ calls'[t][c].pc = "history"
        /\ calls'[t][c].rec.state = tasks[t].state
    BY <1>1, <1>4 DEF AppendEntry, SetCall, Call
  <1> QED  BY <1>5, <1>6, <1>7 DEF Moves, CallMoves, AppendEntry

LEMMA FailAttemptMoves ==
  ASSUME NEW t \in Task, NEW c \in CallId,
         TypeOK, DrivenWell(t), Drives(calls[t][c]), FailAttempt(t, c)
  PROVE  Moves
  <1> DEFINE call == [Idle EXCEPT !.entries = <<"error">>, !.target = "Failed"]
  <1>1. <<"error">> \in Seq(HistoryEntry)
    BY DEF HistoryEntry
  <1>2. call \in Call /\ call.entries # <<>>
    BY <1>1, CallTypes DEF Call, Outcome, Idle
  <1>3. AppendEntry(t, c, call)
    BY DEF FailAttempt
  <1> QED  BY <1>2, <1>3, AppendEntryMoves

LEMMA StartRunsMoves ==
  ASSUME NEW S \in SUBSET Task, NEW t \in Task, NEW c \in CallId,
         TypeOK, StartRuns(S, t, c)
  PROVE  Moves
  <1>1. \A u \in Task : Moved(tasks[u], "Planning").state = "Planning"
    BY RecordStates DEF TypeOK, ShownState, TaskState
  <1>2. \A u \in Task :
           tasks'[u].state = IF u \in S /\ CanMove(tasks[u], "Planning")
                             THEN "Planning" ELSE tasks[u].state
    BY <1>1 DEF StartRuns
  <1>3. ASSUME NEW u \in Task, NEW d \in CallId
        PROVE  CallMoves(u, d)
    <2>1. CASE u \in S /\ d = Run /\ CanMove(tasks[u], "Planning")
      <3>1. calls'[u][d].pc = "persist" /\ calls'[u][d].rec = Moved(tasks[u], "Planning")
        BY <2>1 DEF StartRuns, Executed, Idle
      <3> QED  BY <1>1, <1>2, <2>1, <3>1 DEF CallMoves, StartRuns
    <2>2. CASE ~(u \in S /\ d = Run /\ CanMove(tasks[u], "Planning"))
      <3>1. calls'[u][d] \in {calls[u][d], Idle, Ended(Run)}
        BY <2>2 DEF StartRuns, Executed
      <3>2. Idle.pc \notin Holding /\ Ended(Run).pc \notin Holding
        BY DEF Ended, Idle, Holding
      <3> QED  BY <3>1, <3>2 DEF CallMoves
    <2> QED  BY <2>1, <2>2
  <1>4. \A u \in Task :
           tasks'[u].state \in {tasks[u].state} \cup Successors(tasks[u].state)
    BY <1>2 DEF CanMove
  <1> QED  BY <1>3, <1>4 DEF Moves

\* A step that changes no record, and of the calls only the call c of t.
LEMMA OneCallChanges ==
  ASSUME NEW t \in Task, NEW c \in CallId, NEW call,
         TypeOK, UNCHANGED tasks, SetCall(t, c, call),
         call.pc \notin Holding
  PROVE  Moves
  <1>1. \A u \in Task, d \in CallId :
           calls'[u][d] = IF u = t /\ d = c THEN call ELSE calls[u][d]
    BY DEF TypeOK, SetCall
  <1> QED  BY <1>1 DEF Moves, CallMoves

LEMMA UserStepRuns ==
  ASSUME NEW t \in Task, RuntimeInv, UserStep(t)
  PROVE  RunningStep
  <1>1. TypeOK /\ tasks[t] \in TaskRecord
    BY DEF RuntimeInv, TypeOK
  <1>2. CASE SubmitTask(t)
    <2>1. \A u \in Task : tasks'[u] = IF u = t THEN Created ELSE tasks[u]
      BY <1>1, <1>2 DEF SubmitTask, TypeOK
    <2>2. /\ \A u \in Task, d \in CallId :
                 u # t \/ d # Submit => calls'[u][d] = calls[u][d]
          /\ calls'[t][Submit] = [Idle EXCEPT !.pc = "persist", !.rec = Created]
      BY <1>1, <1>2, CallIds DEF SubmitTask, SetCall, TypeOK
    <2>3. \A u \in Task, d \in CallId : CallMoves(u, d)
      <3>1. calls'[t][Submit].pc = "persist" /\ calls'[t][Submit].rec = Created
        BY <2>2 DEF Idle
      <3>2. Created.state = "Created"
        BY RecordStates
      <3> QED  BY <1>2, <2>1, <2>2, <3>1, <3>2 DEF CallMoves, SubmitTask
    <2>4. \A u \in Task :
             tasks'[u].state \in {tasks[u].state} \cup Successors(tasks[u].state)
      BY <1>2, <2>1, RecordStates DEF SubmitTask, Successors
    <2> QED  BY <1>2, <2>3, <2>4 DEF SubmitTask, RunningStep, store
  <1>3. CASE CancelTask(t)
    <2>1. \A u \in Task :
             tasks'[u].state \in {tasks[u].state} \cup Successors(tasks[u].state)
      <3>1. Moved(tasks[t], "Cancelled").state = "Cancelled"
        BY <1>1, RecordStates DEF ShownState, TaskState
      <3> QED  BY <1>1, <1>3, <3>1 DEF CancelTask, TypeOK, CanMove
    <2> QED  BY <1>3, <2>1 DEF CancelTask, RunningStep, CallMoves, store
  <1>4. CASE PauseTask(t)
    <2>1. \A u \in Task :
             tasks'[u].state \in {tasks[u].state} \cup Successors(tasks[u].state)
      <3>1. Moved(tasks[t], "Paused").state = "Paused"
        BY <1>1, RecordStates DEF ShownState, TaskState
      <3>2. "Paused" \in Successors("Created")
        BY DEF Successors
      <3> QED  BY <1>1, <1>4, <3>1, <3>2 DEF PauseTask, TypeOK
    <2> QED  BY <1>4, <2>1 DEF PauseTask, RunningStep, CallMoves, store
  <1>5. CASE ResumePaused(t)
    <2>1. Moves
      BY <1>1, <1>5, CallIds, CallTypes, TransitionMoves DEF ResumePaused, TaskState
    <2> QED  BY <1>5, <2>1 DEF ResumePaused, Transition, Moves, RunningStep, store
  <1>6. CASE RetryTask(t)
    <2> DEFINE k == Retry(tasks[t].retry_count + 1)
    <2>1. k \in CallId
      <3>1. tasks[t].retry_count \in Nat /\ tasks[t].retry_count < MaxRetries
        BY <1>1, <1>6 DEF RetryTask, CanMove, TaskRecord
      <3> QED  BY <3>1, RetryAssumption DEF CallId, Retry, Submit
    <2>2. Transition(t, k, Idle, "Retrying")
      BY <1>6 DEF RetryTask
    <2>3. Moves
      <3> HIDE DEF k
      <3> QED  BY <1>1, <2>1, <2>2, CallTypes, TransitionMoves DEF TaskState
    <2>4. Remember
      BY <2>2 DEF Transition
    <2> QED  BY <1>6, <2>3, <2>4 DEF RetryTask, Moves, RunningStep, store
  <1> QED  BY <1>2, <1>3, <1>4, <1>5, <1>6 DEF UserStep

LEMMA CallStepRuns ==
  ASSUME NEW t \in Task, NEW c \in CallId, RuntimeInv, CallStep(t, c)
  PROVE  RunningStep
  <1>1. TypeOK /\ DrivenWell(t) /\ calls[t][c] \in Call /\ HasResults
    BY DEF RuntimeInv, TypeOK
  <1> USE <1>1
  <1> DEFINE old == calls[t][c]
  <1>2. CASE PersistOk(t, c)
    <2> DEFINE call == [old EXCEPT !.pc = "publish"]
    <2>1. call.rec = old.rec
      BY DEF Call
    <2>2. old.pc = "persist" /\ disk' = [disk EXCEPT ![t] = old.rec]
          /\ calls' = [calls EXCEPT ![t][c] = call]
      BY <1>2 DEF PersistOk, At, SetCall
    <2>3. \A u \in Task, d \in CallId :
             calls'[u][d] = IF u = t /\ d = c THEN call ELSE calls[u][d]
      BY <2>2 DEF TypeOK
    <2>4. \A u \in Task : disk'[u] = IF u = t THEN old.rec ELSE disk[u]
      BY <2>2 DEF TypeOK
    <2>5. \A u \in Task, d \in CallId : CallMoves(u, d)
      <3> HIDE DEF call
      <3> QED  BY <2>1, <2>2, <2>3, <2>4 DEF CallMoves
    <2> QED  BY <1>2, <2>2, <2>4, <2>5 DEF PersistOk, At, RunningStep, history
  <1>3. CASE RetryExecutes(t, c)
    <2>1. Moves
      BY <1>3, CallTypes, TransitionMoves DEF RetryExecutes, TaskState
    <2> QED  BY <1>3, <2>1
             DEF RetryExecutes, Published, At, Transition, Moves, RunningStep, store
  <1>4. CASE PlanningPublished(t, c)
    <2>1. [old EXCEPT !.pc = "plan"].pc \notin Holding
      BY DEF Call, Holding
    <2>2. Moves
      BY <1>4, <2>1, OneCallChanges DEF PlanningPublished
    <2> QED  BY <1>4, <2>2
             DEF PlanningPublished, Published, At, Moves, RunningStep, store, history
  <1>5. ASSUME NEW n \in 1 .. MaxSteps, PlanMade(t, c, n)
        PROVE  RunningStep
    <2> DEFINE call == [Idle EXCEPT !.left = n]
    <2>1. call \in Call
      <3>1. n \in Nat
        BY RuntimeAssumption
      <3> QED  BY <3>1, CallTypes DEF Call
    <2>2. Transition(t, c, call, "Executing")
      BY <1>5 DEF PlanMade
    <2>3. Moves /\ Remember
      <3> HIDE DEF call
      <3> QED  BY <2>1, <2>2, TransitionMoves DEF TaskState, Transition
    <2> QED  BY <1>5, <2>3 DEF PlanMade, At, Moves, RunningStep, store
  <1>6. CASE PlanFails(t, c)
    <2>1. FailAttempt(t, c) /\ Drives(old)
      BY <1>6 DEF PlanFails, At, Drives
    <2>2. Moves /\ Remember
      BY <2>1, FailAttemptMoves DEF FailAttempt, AppendEntry
    <2> QED  BY <1>6, <2>2 DEF PlanFails, At, Moves, RunningStep, store
  <1>7. CASE ExecutingPublished(t, c)
    <2>1. [old EXCEPT !.pc = "tool"].pc \notin Holding
      BY DEF Call, Holding
    <2>2. Moves
      BY <1>7, <2>1, OneCallChanges DEF ExecutingPublished
    <2> QED  BY <1>7, <2>2
             DEF ExecutingPublished, Published, At, Moves, RunningStep, store
  <1>8. CASE VerifyingPublished(t, c)
    <2> DEFINE verdicts == [i \in 1 .. Len(old.results) |-> VerdictOf(old.results[i])]
               call == [Idle EXCEPT !.entries = verdicts, !.target = OutcomeOf(verdicts)]
    <2>1. old.pc = "publish" /\ old.rec.state = "Verifying" /\ AppendEntry(t, c, call)
      BY <1>8 DEF VerifyingPublished, Published, At
    <2>2. Drives(old) /\ old.results # <<>> /\ old.results \in Seq(ToolResult)
      BY <2>1 DEF Drives, HasResults, Call
    <2>3. call \in Call /\ call.entries # <<>>
      BY <2>2, VerdictsToAppend
    <2>4. Moves /\ Remember
      <3>1. Remember
        BY <2>1 DEF AppendEntry
      <3> HIDE DEF call
      <3> QED  BY <2>1, <2>2, <2>3, <3>1, AppendEntryMoves
    <2> QED  BY <1>8, <2>4
             DEF VerifyingPublished, Published, At, Moves, RunningStep, store
  <1>9. CASE NextEntry(t, c)
    <2>1. old.entries # <<>> /\ AppendEntry(t, c, old) /\ Drives(old)
          /\ old.pc = "history" /\ disk' = [disk EXCEPT ![t] = old.rec]
      BY <1>9 DEF NextEntry, At, Drives
    <2>2. Moves /\ Remember
      BY <2>1, AppendEntryMoves DEF AppendEntry
    <2>3. \A u \in Task : disk'[u] = IF u = t THEN old.rec ELSE disk[u]
      BY <2>1 DEF TypeOK
    <2> QED  BY <1>9, <2>1, <2>2, <2>3 DEF NextEntry, At, Moves, RunningStep
  <1>10. CASE LastEntry(t, c)
    <2>1. Transition(t, c, Idle, old.target)
          /\ old.pc = "history" /\ disk' = [disk EXCEPT ![t] = old.rec]
      BY <1>10 DEF LastEntry, At
    <2>2. old.target \in TaskState
      BY DEF Call, Outcome, TaskState
    <2>3. Moves /\ Remember
      BY <2>1, <2>2, CallTypes, TransitionMoves DEF Transition
    <2>4. \A u \in Task : disk'[u] = IF u = t THEN old.rec ELSE disk[u]
      BY <2>1 DEF TypeOK
    <2> QED  BY <1>10, <2>1, <2>3, <2>4 DEF LastEntry, At, Moves, RunningStep
  <1>11. CASE OutcomePublished(t, c)
    <2>1. Ended(c).pc \notin Holding
      BY DEF Ended, Idle, Holding
    <2>2. Moves
      BY <1>11, <2>1, OneCallChanges DEF OutcomePublished
    <2> QED  BY <1>11, <2>2
             DEF OutcomePublished, Published, At, Moves, RunningStep, store, history
  <1> QED  BY <1>2, <1>3, <1>4, <1>5, <1>6, <1>7, <1>8, <1>9, <1>10, <1>11 DEF CallStep

LEMMA ToolStepRuns ==
  ASSUME NEW t \in Task, NEW c \in CallId, RuntimeInv, ToolStep(t, c)
  PROVE  RunningStep
  <1>1. TypeOK /\ DrivenWell(t) /\ calls[t][c] \in Call
    BY DEF RuntimeInv, TypeOK
  <1> USE <1>1
  <1> DEFINE old == calls[t][c]
  <1>2. ASSUME NEW result \in ToolResult, StepReturns(t, c, result)
        PROVE  RunningStep
    <2> DEFINE call == [old EXCEPT !.left = @ - 1, !.results = Append(@, result)]
    <2>1. call.pc \notin Holding
      BY <1>2 DEF StepReturns, At, Holding, Call
    <2>2. UNCHANGED tasks /\ SetCall(t, c, call)
      BY <1>2 DEF StepReturns
    <2>3. Moves
      <3> HIDE DEF call
      <3> QED  BY <2>1, <2>2, OneCallChanges
    <2> QED  BY <1>2, <2>3 DEF StepReturns, At, Moves, RunningStep, store
  <1>3. ASSUME NEW result \in ToolResult, LastStepReturns(t, c, result)
        PROVE  RunningStep
    <2> DEFINE call == [old EXCEPT !.left = 0, !.results = Append(@, result)]
    <2>1. Transition(t, c, call, "Verifying")
      BY <1>3 DEF LastStepReturns
    <2>2. call \in Call
      <3>1. old.results \in Seq(ToolResult)
        BY DEF Call
      <3>2. Append(old.results, result) \in Seq(ToolResult)
        BY <3>1
      <3> QED  BY <3>2 DEF Call
    <2>3. Moves /\ Remember
      <3> HIDE DEF call
      <3> QED  BY <2>1, <2>2, TransitionMoves DEF TaskState, Transition
    <2> QED  BY <1>3, <2>3 DEF LastStepReturns, At, Moves, RunningStep, store
  <1>4. CASE StepFails(t, c)
    <2>1. FailAttempt(t, c) /\ Drives(old)
      BY <1>4 DEF StepFails, At, Drives
    <2>2. Moves /\ Remember
      BY <2>1, FailAttemptMoves DEF FailAttempt, AppendEntry
    <2> QED  BY <1>4, <2>2 DEF StepFails, At, Moves, RunningStep, store
  <1> QED  BY <1>2, <1>3, <1>4 DEF ToolStep

LEMMA CallFailsRuns ==
  ASSUME NEW t \in Task, NEW c \in CallId, RuntimeInv, CallFails(t, c)
  PROVE  RunningStep
  <1>1. Ended(c).pc \notin Holding
    BY DEF Ended, Idle, Holding
  <1>2. Moves
    BY <1>1, OneCallChanges DEF RuntimeInv, CallFails
  <1> QED  BY <1>2 DEF CallFails, Moves, RunningStep, store, history

LEMMA SchedulerStepRuns ==
  ASSUME NEW t \in Task, RuntimeInv, SchedulerStep(t)
  PROVE  RunningStep
  <1>1. TypeOK
    BY DEF RuntimeInv
  <1>2. ASSUME NEW S \in SUBSET Task, SubmitReturns(t, S)
        PROVE  RunningStep
    <2>1. Moves /\ Remember
      BY <1>1, <1>2, CallIds, StartRunsMoves DEF SubmitReturns, StartRuns
    <2> QED  BY <1>2, <2>1, CallIds
             DEF SubmitReturns, Published, At, Moves, RunningStep, store
  <1>3. ASSUME NEW S \in SUBSET Task, RunFinally(t, S)
        PROVE  RunningStep
    <2>1. Moves /\ Remember
      BY <1>1, <1>3, CallIds, StartRunsMoves DEF RunFinally, StartRuns
    <2> QED  BY <1>3, <2>1 DEF RunFinally, At, Moves, RunningStep, store
  <1> QED  BY <1>2, <1>3 DEF SchedulerStep

----------------------------------------------------------------------------
(* What follows from a RunningStep.                                        *)

LEMMA NothingBecomesAbsent ==
    \A s : "Absent" \notin Successors(s)
  BY DEF Successors

LEMMA RunningStepTraced ==
  ASSUME TypeOK, TraceInv, RunningStep
  PROVE  TraceInv'
  <1> SUFFICES ASSUME NEW t \in Task
               PROVE  Traced(t)'
    BY DEF TraceInv
  <1>1. Traced(t)
    BY DEF TraceInv
  <1>2. past[t] \subseteq past'[t] /\ (Remember => tasks'[t].state \in past'[t])
    BY DEF RunningStep, Remember
  <1>3. tasks[t].state # "Absent" => tasks'[t].state # "Absent"
    BY NothingBecomesAbsent DEF RunningStep
  <1>4. \A c \in CallId : CallMoves(t, c)
    BY DEF RunningStep
  <1>5. \/ disk'[t] = disk[t]
        \/ \E c \in CallId : /\ calls[t][c].pc \in {"persist", "history"}
                             /\ disk'[t] = calls[t][c].rec
    BY DEF RunningStep
  <1>6. \E s \in past'[t] : Recovered(s) = Recovered(disk'[t].state)
    BY <1>1, <1>2, <1>5 DEF Traced, Holding
  <1>7. ASSUME NEW c \in CallId, calls'[t][c].pc \in Holding
        PROVE  /\ calls'[t][c].rec.state \in past'[t] \ {"Absent"}
               /\ tasks'[t].state # "Absent"
    BY <1>1, <1>2, <1>3, <1>4, <1>7 DEF Traced, CallMoves, Holding
  <1>8. disk[t].state # "Absent" => disk'[t].state # "Absent"
    BY <1>1, <1>5 DEF Traced, Holding
  <1>9. ASSUME NEW c \in CallId, calls'[t][c].pc = "publish"
        PROVE  disk'[t].state # "Absent"
    BY <1>1, <1>4, <1>8, <1>9 DEF Traced, CallMoves, Holding
  <1>10. t \in acked' => disk'[t].state # "Absent"
    BY <1>1, <1>8 DEF Traced, RunningStep
  <1> QED  BY <1>1, <1>2, <1>6, <1>7, <1>9, <1>10 DEF Traced

LEMMA SameTable ==
    /\ \A s : Lifecycle!Successors(s) = Successors(s)
    /\ \A s : Lifecycle!Recovered(s) = Recovered(s)
    /\ Lifecycle!ShownState = ShownState
  BY DEF Lifecycle!Successors, Successors, Lifecycle!Recovered, Recovered,
         Lifecycle!ShownState, ShownState, Lifecycle!TaskState, TaskState

\* Clients see it as one step of the table, or not at all.
LEMMA RunningStepProceeds ==
  ASSUME TypeOK, TypeOK', TraceInv, RunningStep
  PROVE  Lifecycle!Proceed \/ UNCHANGED Lifecycle!lifecycle
  <1>1. \A t \in Task : Shown(t) = tasks[t].state /\ Shown(t)' = tasks'[t].state
    BY DEF RunningStep, Shown
  <1>2. CASE UNCHANGED <<past, tasks, acked>>
    <2>1. [t \in Task |-> Shown(t)]' = [t \in Task |-> Shown(t)]
      BY <1>1, <1>2
    <2> QED  BY <1>2, <2>1 DEF Lifecycle!lifecycle
  <1>3. CASE Remember
    <2>1. [t \in Task |-> Shown(t)]' \in [Task -> ShownState]
      BY <1>1 DEF TypeOK, TaskRecord
    <2>2. past' = [t \in Task |-> past[t] \cup {Shown(t)'}]
      BY <1>1, <1>3 DEF Remember
    <2>3. acked' \subseteq acked \cup {t \in Task : Shown(t) # "Absent"}
      <3>1. SUFFICES ASSUME NEW t \in acked' \ acked
                     PROVE  t \in Task /\ tasks[t].state # "Absent"
        BY <1>1
      <3>2. t \in Task
        BY DEF TypeOK
      <3> QED  BY <3>2 DEF RunningStep, TraceInv, Traced, Holding
    <2>4. \A t \in Task : Shown(t)' \in {Shown(t)} \cup Successors(Shown(t))
      BY <1>1 DEF RunningStep
    <2>5. acked \subseteq acked'
      BY DEF RunningStep
    <2> QED  BY <2>1, <2>2, <2>3, <2>4, <2>5, SameTable DEF Lifecycle!Proceed
  <1> QED  BY <1>2, <1>3 DEF RunningStep

----------------------------------------------------------------------------
(* Crash, recovery and the theorem.                                        *)

LEMMA CrashRestarts ==
  ASSUME TypeOK, TraceInv, Crash
  PROVE  TraceInv' /\ Lifecycle!Restart
  <1>1. \A t \in Task : Shown(t)' = Recovered(disk[t].state)
    BY DEF Crash, Shown
  <1>2. [t \in Task |-> Shown(t)]' \in [Task -> ShownState]
    BY <1>1 DEF TypeOK, TaskRecord, Recovered, ShownState, TaskState
  <1>3. \A t \in Task : \E s \in past[t] : Shown(t)' = Recovered(s)
    BY <1>1 DEF TraceInv, Traced
  <1>4. \A t \in acked : Shown(t)' # "Absent"
    BY <1>1 DEF TypeOK, TraceInv, Traced, Recovered
  <1>5. UNCHANGED <<past, acked>>
    BY DEF Crash, history
  <1>6. TraceInv'
    <2>1. \A t \in Task, c \in CallId : calls'[t][c].pc \notin Holding
      BY DEF Crash, Idle, Holding
    <2>2. UNCHANGED disk
      BY DEF Crash
    <2> QED  BY <1>5, <2>1, <2>2 DEF TraceInv, Traced, Holding
  <1>7. acked \subseteq Task
    BY DEF TypeOK
  <1> QED  BY <1>2, <1>3, <1>4, <1>5, <1>6, <1>7, SameTable DEF Lifecycle!Restart

\* A client sees nothing of the recovery.
LEMMA RecoveryIsInvisible ==
  ASSUME TypeOK, TraceInv, NoCallWhileDown, StartStep \/ StartFails
  PROVE  TraceInv' /\ UNCHANGED Lifecycle!lifecycle
  <1>1. \A t \in Task, c \in CallId : calls'[t][c].pc \notin Holding
    <2>1. process # "up" /\ UNCHANGED calls
      BY DEF StartStep, StartFails, Start, RecoverTask, Restore
    <2> QED  BY <2>1 DEF NoCallWhileDown, Idle, Holding
  <1>2. UNCHANGED <<past, acked>>
    BY DEF StartStep, StartFails, Start, RecoverTask, Restore, history
  <1>3. \A t \in Task : /\ Recovered(disk'[t].state) = Recovered(disk[t].state)
                        /\ disk[t].state # "Absent" => disk'[t].state # "Absent"
    <2>1. ASSUME NEW u \in Task, RecoverTask(u)
          PROVE  \A t \in Task : /\ Recovered(disk'[t].state) = Recovered(disk[t].state)
                                 /\ disk[t].state # "Absent" => disk'[t].state # "Absent"
      <3>1. disk'[u].state = Recovered(disk[u].state)
            /\ \A t \in Task : t # u => disk'[t] = disk[t]
        BY <2>1 DEF RecoverTask, TypeOK, TaskRecord
      <3> QED  BY <3>1 DEF Recovered
    <2>2. CASE Start \/ Restore \/ StartFails
      BY <2>2 DEF Start, Restore, StartFails
    <2> QED  BY <2>1, <2>2 DEF StartStep
  <1>4. TraceInv'
    BY <1>1, <1>2, <1>3 DEF TraceInv, Traced, Holding
  <1>5. \A t \in Task : Shown(t)' = Shown(t)
    <2>1. CASE Restore
      <3>1. \A t \in Task : tasks'[t].state = Recovered(disk[t].state)
        BY <2>1 DEF Restore, TypeOK, TaskRecord
      <3> QED  BY <2>1, <3>1 DEF Restore, Shown
    <2>2. CASE ~Restore
      <3>1. process # "up" /\ process' # "up"
        BY <2>2 DEF StartStep, StartFails, Start, RecoverTask
      <3> QED  BY <1>3, <3>1 DEF Shown
    <2> QED  BY <2>1, <2>2
  <1>6. [t \in Task |-> Shown(t)]' = [t \in Task |-> Shown(t)]
    BY <1>5
  <1> QED  BY <1>2, <1>4, <1>6 DEF Lifecycle!lifecycle

LEMMA StepsRun ==
  ASSUME RuntimeInv, Next
  PROVE  RunningStep \/ Crash \/ StartStep \/ StartFails
  BY UserStepRuns, SchedulerStepRuns, CallStepRuns, ToolStepRuns, CallFailsRuns DEF Next

LEMMA InitTraced ==
  ASSUME Init
  PROVE  TraceInv /\ Lifecycle!LifecycleInit
  <1>1. TraceInv
    <2>1. \A t \in Task, c \in CallId : calls[t][c].pc \notin Holding
      BY DEF Init, Idle, Holding
    <2>2. \A t \in Task : past[t] = {"Absent"} /\ disk[t].state = "Absent" /\ t \notin acked
      BY RecordStates DEF Init
    <2> QED  BY <2>1, <2>2 DEF TraceInv, Traced, Holding
  <1>2. \A t \in Task : Shown(t) = "Absent"
    BY RecordStates DEF Init, Shown, Recovered
  <1> QED  BY <1>1, <1>2 DEF Init, Lifecycle!LifecycleInit

\* Every checkpoint, and every snapshot on its way to becoming one, is of a
\* state the task has been in.
LEMMA TraceInvariant == Spec => []TraceInv
  <1>1. Init => TraceInv
    BY InitTraced
  <1>2. RuntimeInv /\ TraceInv /\ [Next]_vars => TraceInv'
    <2> SUFFICES ASSUME RuntimeInv, TraceInv, [Next]_vars
                 PROVE  TraceInv'
      OBVIOUS
    <2>1. TypeOK /\ NoCallWhileDown
      BY DEF RuntimeInv
    <2>2. CASE Next
      BY <2>1, <2>2, StepsRun, RunningStepTraced, CrashRestarts, RecoveryIsInvisible
    <2>3. CASE UNCHANGED vars
      BY <2>3 DEF vars, TraceInv, Traced
    <2> QED  BY <2>2, <2>3
  <1> QED  BY <1>1, <1>2, RuntimeInvariant, PTL DEF Spec

\* The runtime implements TaskLifecycle.  Whatever calls interleave, appends
\* and publishes fail and processes die, a client sees a task move along the
\* table, and after a crash finds it in a state it has been in.
THEOREM LifecycleImplemented == Spec => ImplementsLifecycle
  <1>1. Init => Lifecycle!LifecycleInit
    BY InitTraced
  <1>2. RuntimeInv /\ RuntimeInv' /\ TraceInv /\ [Next]_vars
           => [Lifecycle!LifecycleNext]_(Lifecycle!lifecycle)
    <2> SUFFICES ASSUME RuntimeInv, RuntimeInv', TraceInv, [Next]_vars
                 PROVE  [Lifecycle!LifecycleNext]_(Lifecycle!lifecycle)
      OBVIOUS
    <2>1. TypeOK /\ TypeOK' /\ NoCallWhileDown
      BY DEF RuntimeInv
    <2>2. CASE RunningStep
      BY <2>1, <2>2, RunningStepProceeds DEF Lifecycle!LifecycleNext
    <2>3. CASE Crash
      BY <2>1, <2>3, CrashRestarts DEF Lifecycle!LifecycleNext
    <2>4. CASE StartStep \/ StartFails
      BY <2>1, <2>4, RecoveryIsInvisible
    <2>5. CASE UNCHANGED vars
      <3>1. \A t \in Task : Shown(t)' = Shown(t)
        BY <2>5 DEF vars, Shown
      <3>2. [t \in Task |-> Shown(t)]' = [t \in Task |-> Shown(t)]
        BY <3>1
      <3> QED  BY <2>5, <3>2 DEF vars, Lifecycle!lifecycle
    <2> QED  BY <2>2, <2>3, <2>4, <2>5, StepsRun
  <1> QED  BY <1>1, <1>2, RuntimeInvariant, TraceInvariant, PTL
           DEF Spec, ImplementsLifecycle, Lifecycle!LifecycleSpec

----------------------------------------------------------------------------
(* The attempts.  A task becomes Completed only when each step of its plan  *)
(* has succeeded: the log of the steps, the results of the call and the     *)
(* history of the task agree at each await of an attempt (InStep), and no   *)
(* other call changes them because there is one driver.                     *)
(*                                                                          *)
(* No crash makes a task forget that a tool was started: besides the        *)
(* driver's own, the only snapshot that may still be on its way to the disk *)
(* is the outcome of an earlier attempt, which tells of a tool too          *)
(* (Remembered); the "Created" snapshot is late only for a task that was    *)
(* paused early.                                                            *)

\* The call awaits the append or the publication of a transition to s.
Moving(call, s) == call.pc \in {"persist", "publish"} /\ call.rec.state = s

\* The call holds a snapshot that will be the newest checkpoint.
Stored(call) == call.pc \in {"persist", "history"}

\* The last k entries of the history h are good verdicts.
EndsVerified(h, k) == k <= Len(h) /\ \A i \in 1 .. k : h[Len(h) - k + i] = "verified"

\* Each of the n steps of a plan has run, with a success.
AllSucceeded(n, log) == n > 0 /\ log = [i \in 1 .. n |-> "success"]

\* The record of a task whose plan has n steps may be "Completed".
Earned(n, log, record) == AllSucceeded(n, log) /\ EndsVerified(record.step_history, n)

\* How far the call has come agrees with the n steps of the plan, with the
\* log of those started and with the task's history h.
InStep(n, log, h, call) ==
    /\ call.pc = "plan" \/ Moving(call, "Planning") => log = <<>>
    /\ Moving(call, "Executing") =>
          log = <<>> /\ call.results = <<>> /\ call.left = n /\ n > 0
    /\ call.pc = "tool" =>
          /\ Len(log) = Len(call.results) + 1
          /\ \A i \in 1 .. Len(call.results) : log[i] = call.results[i]
          /\ call.left > 0 /\ call.left + Len(call.results) = n
    /\ Moving(call, "Verifying") => log = call.results /\ Len(log) = n /\ n > 0
    /\ call.pc = "history" /\ call.target = "Completed" =>
          /\ AllSucceeded(n, log)
          /\ Len(call.entries) <= n
          /\ \A i \in 1 .. Len(call.entries) : call.entries[i] = "verified"
          /\ EndsVerified(h, n - Len(call.entries))

AttemptOK(t) ==
    /\ \A c \in CallId : InStep(planned[t], ran[t], tasks[t].step_history, calls[t][c])
    /\ tasks[t].state = "Completed" => Earned(planned[t], ran[t], tasks[t])
    /\ disk[t].state = "Completed" =>
          /\ Earned(planned[t], ran[t], disk[t])
          /\ process = "up" => tasks[t].state = "Completed"
    /\ \A c \in CallId :
          Stored(calls[t][c]) /\ calls[t][c].rec.state = "Completed" =>
              /\ Earned(planned[t], ran[t], calls[t][c].rec)
              /\ tasks[t].state = "Completed"

AttemptInv == \A t \in Task : AttemptOK(t)

\* The states of a checkpoint that do not tell that a tool was started.
Before == {"Absent", "Created", "Planning", "Retrying", "Paused"}

Remembered(t) ==
    /\ ran[t] # <<>> => disk[t].state \notin Before
    /\ \A c \in CallId :
          /\ calls[t][c].pc = "publish" /\ calls[t][c].rec.state = "Executing" =>
                disk[t].state \notin Before
          /\ Stored(calls[t][c]) /\ calls[t][c].rec.state \in Before => ran[t] = <<>>
          /\ calls[t][c].pc = "history" /\ tasks[t].state = "Planning" => ran[t] = <<>>
          /\ Moving(calls[t][c], "Created") => c = Submit
          /\ ~Moving(calls[t][c], "Paused")
          /\ Moving(calls[t][c], "Retrying") =>
                /\ tasks[t].state = "Retrying"
                /\ \A d \in CallId : Moving(calls[t][d], "Retrying") => c = d
    /\ calls[t][Submit].pc # "idle" =>
          /\ Moving(calls[t][Submit], "Created")
          /\ tasks[t].state \in {"Created", "Cancelled"}
          /\ t \notin acked /\ t \notin queue
    /\ t \in queue => tasks[t].state \in {"Created", "Cancelled"}
    /\ process = "up" /\ tasks[t].state = "Absent" => disk[t].state = "Absent"
    /\ process # "up" => tasks[t].state = "Absent"

RememberedInv == \A t \in Task \ early : Remembered(t)

----------------------------------------------------------------------------
(* Histories and logs.                                                     *)

LEMMA OneMoreVerified ==
  ASSUME NEW h \in Seq(HistoryEntry), NEW k \in Nat, EndsVerified(h, k)
  PROVE  EndsVerified(Append(h, "verified"), k + 1)
  <1> DEFINE g == Append(h, "verified")
  <1>1. Len(g) = Len(h) + 1 /\ Len(h) \in Nat
    OBVIOUS
  <1>2. \A i \in 1 .. Len(h) : g[i] = h[i]
    OBVIOUS
  <1>3. g[Len(h) + 1] = "verified"
    OBVIOUS
  <1> HIDE DEF g
  <1>4. ASSUME NEW i \in 1 .. k + 1 PROVE g[Len(g) - (k + 1) + i] = "verified"
    <2>1. CASE i = k + 1
      BY <1>1, <1>3, <2>1
    <2>2. CASE i # k + 1
      <3>1. i \in 1 .. k
        BY <2>2
      <3>2. h[Len(h) - k + i] = "verified" /\ k <= Len(h)
        BY <3>1 DEF EndsVerified
      <3>3. Len(h) - k + i \in 1 .. Len(h) /\ Len(g) - (k + 1) + i = Len(h) - k + i
        BY <1>1, <3>1, <3>2
      <3> QED  BY <1>2, <3>2, <3>3
    <2> QED  BY <2>1, <2>2
  <1>5. k + 1 <= Len(g)
    BY <1>1 DEF EndsVerified
  <1> QED  BY <1>4, <1>5 DEF EndsVerified, g

\* Calls that are idle, over or submitting are in step with anything.
LEMMA OthersInStep ==
  ASSUME NEW n, NEW log, NEW h, NEW call, ~Drives(call)
  PROVE  InStep(n, log, h, call)
  BY DEF Drives, Moving, InStep

----------------------------------------------------------------------------
(* Steps of one call.                                                      *)

\* One call moves its task on, or another step changes its record.
LEMMA AttemptMoves ==
  ASSUME NEW t \in Task, NEW c \in CallId, NEW call, NEW rec,
         RuntimeInv, AttemptOK(t),
         tasks'[t] = rec,
         \A d \in CallId : calls'[t][d] = IF d = c THEN call ELSE calls[t][d],
         process = "up",
         disk'[t] = disk[t] \/ (Stored(calls[t][c]) /\ disk'[t] = calls[t][c].rec),
         \/ Drives(calls[t][c])
         \/ \A d \in CallId : ~Drives(calls[t][d])
         \/ /\ planned'[t] = planned[t] /\ ran'[t] = ran[t]
            /\ rec.step_history = tasks[t].step_history,
         (planned'[t] = planned[t] /\ ran'[t] = ran[t]) \/ tasks[t].state # "Completed",
         tasks[t].state = "Completed" => rec.state = "Completed",
         InStep(planned'[t], ran'[t], rec.step_history, call),
         rec.state = "Completed" => Earned(planned'[t], ran'[t], rec),
         Stored(call) => call.rec = rec \/ call = calls[t][c]
  PROVE  AttemptOK(t)'
  <1>1. DrivenWell(t)
    BY DEF RuntimeInv
  <1>2. ASSUME NEW d \in CallId
        PROVE  InStep(planned'[t], ran'[t], tasks'[t].step_history, calls'[t][d])
    <2>1. CASE d = c
      BY <2>1
    <2>2. CASE d # c /\ Drives(calls[t][d])
      <3>1. planned'[t] = planned[t] /\ ran'[t] = ran[t]
            /\ rec.step_history = tasks[t].step_history
        BY <1>1, <2>2 DEF DrivenWell
      <3> QED  BY <2>2, <3>1 DEF AttemptOK
    <2>3. CASE d # c /\ ~Drives(calls[t][d])
      BY <2>3, OthersInStep
    <2> QED  BY <2>1, <2>2, <2>3
  <1>3. disk[t].state = "Completed" =>
           Earned(planned'[t], ran'[t], disk[t]) /\ tasks[t].state = "Completed"
    BY DEF AttemptOK
  <1>4. ASSUME NEW d \in CallId, Stored(calls[t][d]), calls[t][d].rec.state = "Completed"
        PROVE  Earned(planned'[t], ran'[t], calls[t][d].rec) /\ tasks[t].state = "Completed"
    BY <1>4 DEF AttemptOK
  <1>5. disk'[t].state = "Completed" =>
           Earned(planned'[t], ran'[t], disk'[t]) /\ tasks'[t].state = "Completed"
    BY <1>3, <1>4
  <1>6. ASSUME NEW d \in CallId, Stored(calls'[t][d]), calls'[t][d].rec.state = "Completed"
        PROVE  Earned(planned'[t], ran'[t], calls'[t][d].rec) /\ tasks'[t].state = "Completed"
    BY <1>4, <1>6
  <1> QED  BY <1>2, <1>5, <1>6 DEF AttemptOK

\* A task that no step concerns.
LEMMA AttemptStays ==
  ASSUME NEW t \in Task, AttemptOK(t), process' = process,
         tasks'[t] = tasks[t], disk'[t] = disk[t], planned'[t] = planned[t], ran'[t] = ran[t],
         \A d \in CallId : calls'[t][d] = calls[t][d]
  PROVE  AttemptOK(t)'
  BY DEF AttemptOK

\* The coordinator's transition().
LEMMA TransitionAttempt ==
  ASSUME NEW t \in Task, NEW c \in CallId, NEW call \in Call, NEW target \in TaskState,
         RuntimeInv, AttemptOK(t), Transition(t, c, call, target), process = "up",
         disk'[t] = disk[t] \/ (Stored(calls[t][c]) /\ disk'[t] = calls[t][c].rec),
         Drives(calls[t][c]) \/ target \in {"Planning", "Retrying"},
         \/ ran'[t] = ran[t]
         \/ Drives(calls[t][c]) /\ tasks[t].state # "Completed"
         \/ CanMove(tasks[t], target),
         \/ planned'[t] = planned[t]
         \/ Drives(calls[t][c]) /\ tasks[t].state # "Completed",
         CanMove(tasks[t], target) /\ target = "Planning" => ran'[t] = <<>>,
         CanMove(tasks[t], target) /\ target = "Executing" =>
             /\ ran'[t] = <<>> /\ call.results = <<>>
             /\ call.left = planned'[t] /\ planned'[t] > 0,
         CanMove(tasks[t], target) /\ target = "Verifying" =>
             ran'[t] = call.results /\ Len(ran'[t]) = planned'[t] /\ planned'[t] > 0,
         CanMove(tasks[t], target) /\ target = "Completed" =>
             Earned(planned'[t], ran'[t], tasks[t])
  PROVE  AttemptOK(t)'
  <1>1. tasks \in [Task -> TaskRecord] /\ calls \in [Task -> [CallId -> Call]]
        /\ tasks[t] \in TaskRecord /\ DrivenWell(t)
    BY DEF RuntimeInv, TypeOK
  <1>2. CASE CanMove(tasks[t], target)
    <2> DEFINE rec == Moved(tasks[t], target)
               next == [call EXCEPT !.pc = "persist", !.rec = rec]
    <2>1. rec.state = target /\ rec.step_history = tasks[t].step_history
      <3>1. rec.step_history = tasks[t].step_history
        BY <1>1 DEF Moved, TaskRecord
      <3> QED  BY <1>1, <3>1, RecordStates DEF ShownState
    <2>2. next.pc = "persist" /\ next.rec = rec /\ next.results = call.results
          /\ next.left = call.left
      BY DEF Call
    <2>3. tasks'[t] = rec /\ \A d \in CallId : calls'[t][d] = IF d = c THEN next ELSE calls[t][d]
      BY <1>1, <1>2 DEF Transition, SetCall
    <2>4. Drives(calls[t][c]) \/ \A d \in CallId : ~Drives(calls[t][d])
      BY <1>1, <1>2, BeginningStates, NobodyDrives
    <2>5. tasks[t].state # "Completed"
      BY <1>2 DEF CanMove, Successors
    <2> HIDE DEF rec, next
    <2>6. InStep(planned'[t], ran'[t], rec.step_history, next)
      BY <1>2, <2>1, <2>2 DEF InStep, Moving
    <2>7. rec.state = "Completed" => Earned(planned'[t], ran'[t], rec)
      BY <1>2, <2>1 DEF Earned
    <2> QED  BY <2>2, <2>3, <2>4, <2>5, <2>6, <2>7, AttemptMoves
  <1>3. CASE ~CanMove(tasks[t], target)
    <2>1. tasks'[t] = tasks[t]
          /\ \A d \in CallId : calls'[t][d] = IF d = c THEN Ended(c) ELSE calls[t][d]
      BY <1>1, <1>3 DEF Transition, SetCall
    <2>2. ~Drives(Ended(c)) /\ ~Stored(Ended(c))
      BY IdleDrivesNothing DEF Ended, Idle, Stored
    <2>3. InStep(planned'[t], ran'[t], tasks[t].step_history, Ended(c))
      BY <2>2, OthersInStep
    <2>4. (planned'[t] = planned[t] /\ ran'[t] = ran[t]) \/ Drives(calls[t][c])
      BY <1>3
    <2>5. (planned'[t] = planned[t] /\ ran'[t] = ran[t]) \/ tasks[t].state # "Completed"
      BY <1>3
    <2>6. tasks[t].state = "Completed" => Earned(planned'[t], ran'[t], tasks[t])
      BY <2>5 DEF AttemptOK
    <2> QED  BY <2>1, <2>2, <2>3, <2>4, <2>5, <2>6, AttemptMoves
  <1> QED  BY <1>2, <1>3

----------------------------------------------------------------------------
(* AttemptOK is kept by the steps of the task's own calls.                 *)

LEMMA UserStepAttempt ==
  ASSUME NEW t \in Task, RuntimeInv, AttemptOK(t), UserStep(t)
  PROVE  AttemptOK(t)'
  <1>1. /\ TypeOK /\ DrivenWell(t) /\ tasks[t] \in TaskRecord
        /\ tasks \in [Task -> TaskRecord] /\ calls \in [Task -> [CallId -> Call]]
    BY DEF RuntimeInv, TypeOK
  <1>2. CASE SubmitTask(t)
    <2> DEFINE call == [Idle EXCEPT !.pc = "persist", !.rec = Created]
    <2>1. call.rec = Created /\ Created.state = "Created" /\ ~Drives(call)
      BY RecordStates DEF Idle, Drives
    <2>2. tasks[t].state = "Absent" /\ \A d \in CallId : ~Drives(calls[t][d])
      BY <1>1, <1>2, NobodyDrives DEF SubmitTask
    <2>3. tasks'[t] = Created
          /\ \A d \in CallId : calls'[t][d] = IF d = Submit THEN call ELSE calls[t][d]
      BY <1>1, <1>2 DEF SubmitTask, SetCall
    <2>4. process = "up" /\ disk' = disk /\ planned' = planned /\ ran' = ran
      BY <1>2 DEF SubmitTask, store
    <2> HIDE DEF call
    <2>5. InStep(planned'[t], ran'[t], Created.step_history, call)
      BY <2>1, OthersInStep
    <2> QED  BY <2>1, <2>2, <2>3, <2>4, <2>5, CallIds, AttemptMoves
  <1>3. CASE CancelTask(t) \/ PauseTask(t)
    <2>1. PICK rec \in {tasks[t], Moved(tasks[t], "Cancelled"), Moved(tasks[t], "Paused")} :
             /\ tasks'[t] = rec
             /\ rec # tasks[t] => tasks[t].state # "Completed"
      BY <1>1, <1>3 DEF CancelTask, PauseTask, Cancellable
    <2>2. rec.step_history = tasks[t].step_history
          /\ (rec = tasks[t] \/ rec.state \in {"Cancelled", "Paused"})
      <3>1. \A s : Moved(tasks[t], s).step_history = tasks[t].step_history
        BY <1>1 DEF TaskRecord, Moved
      <3>2. /\ Moved(tasks[t], "Cancelled").state = "Cancelled"
            /\ Moved(tasks[t], "Paused").state = "Paused"
        BY <1>1, RecordStates DEF ShownState, TaskState
      <3> QED  BY <2>1, <3>1, <3>2
    <2>3. process = "up" /\ disk' = disk /\ planned' = planned /\ ran' = ran /\ calls' = calls
      BY <1>3 DEF CancelTask, PauseTask, store
    <2>4. InStep(planned'[t], ran'[t], rec.step_history, calls[t][Submit])
      BY <2>2, <2>3, CallIds DEF AttemptOK
    <2>5. rec.state = "Completed" => Earned(planned'[t], ran'[t], rec)
      BY <2>2, <2>3 DEF AttemptOK
    <2>6. tasks[t].state = "Completed" => rec.state = "Completed"
      BY <2>1
    <2>7. \A d \in CallId :
             calls'[t][d] = IF d = Submit THEN calls[t][Submit] ELSE calls[t][d]
      BY <2>3
    <2> QED  BY <2>1, <2>2, <2>3, <2>4, <2>5, <2>6, <2>7, CallIds, AttemptMoves
  <1>4. CASE ResumePaused(t)
    <2>1. Transition(t, Resume, Idle, "Planning") /\ process = "up" /\ disk' = disk
          /\ planned' = planned
      BY <1>4 DEF ResumePaused, store
    <2>2. ran'[t] = IF CanMove(tasks[t], "Planning") THEN <<>> ELSE ran[t]
      BY <1>4 DEF ResumePaused, NewAttempt
    <2>3. "Planning" \in TaskState
      BY DEF TaskState
    <2>4. (ran'[t] = ran[t] \/ CanMove(tasks[t], "Planning")) /\ planned'[t] = planned[t]
          /\ disk'[t] = disk[t]
      BY <2>1, <2>2
    <2>5. CanMove(tasks[t], "Planning") => ran'[t] = <<>>
      BY <2>2
    <2> QED  BY <2>1, <2>3, <2>4, <2>5, CallIds, CallTypes, TransitionAttempt
  <1>5. CASE RetryTask(t)
    <2> DEFINE k == Retry(tasks[t].retry_count + 1)
    <2>1. k \in CallId
      <3>1. tasks[t].retry_count \in Nat /\ tasks[t].retry_count < MaxRetries
        BY <1>1, <1>5 DEF RetryTask, CanMove, TaskRecord
      <3> QED  BY <3>1, RetryAssumption DEF CallId, Retry, Submit
    <2>2. Transition(t, k, Idle, "Retrying") /\ process = "up" /\ disk' = disk
          /\ planned' = planned /\ CanMove(tasks[t], "Retrying")
      BY <1>5 DEF RetryTask, store
    <2>3. "Retrying" \in TaskState
      BY DEF TaskState
    <2>4. planned'[t] = planned[t] /\ disk'[t] = disk[t]
      BY <2>2
    <2> HIDE DEF k
    <2> QED  BY <2>1, <2>2, <2>3, <2>4, CallTypes, TransitionAttempt
  <1> QED  BY <1>2, <1>3, <1>4, <1>5 DEF UserStep

\* An error ends the attempt: the history gets its entry, and no verdicts follow.
LEMMA FailAttemptAttempt ==
  ASSUME NEW t \in Task, NEW c \in CallId, RuntimeInv, AttemptOK(t),
         Drives(calls[t][c]), FailAttempt(t, c), process = "up",
         disk' = disk, planned' = planned, ran' = ran
  PROVE  AttemptOK(t)'
  <1>1. /\ tasks \in [Task -> TaskRecord] /\ calls \in [Task -> [CallId -> Call]]
        /\ tasks[t] \in TaskRecord /\ DrivenWell(t)
    BY DEF RuntimeInv, TypeOK
  <1> DEFINE failing == [Idle EXCEPT !.entries = <<"error">>, !.target = "Failed"]
             rec == WithEntry(tasks[t], Head(failing.entries))
             call == [failing EXCEPT !.pc = "history", !.rec = rec, !.entries = Tail(@)]
  <1>2. tasks'[t] = rec /\ \A d \in CallId : calls'[t][d] = IF d = c THEN call ELSE calls[t][d]
    BY <1>1 DEF FailAttempt, AppendEntry, SetCall
  <1>3. call.pc = "history" /\ call.rec = rec /\ call.target = "Failed"
    BY DEF Idle
  <1>4. Head(failing.entries) \in HistoryEntry
    BY DEF Idle, HistoryEntry
  <1>5. rec.state = tasks[t].state
    BY <1>1, <1>4, RecordStates
  <1>6. tasks[t].state # "Completed"
    BY <1>1, AdmittedStates DEF DrivenWell
  <1> HIDE DEF rec, call
  <1>7. InStep(planned'[t], ran'[t], rec.step_history, call)
    BY <1>3 DEF InStep, Moving
  <1> QED  BY <1>2, <1>3, <1>5, <1>6, <1>7, AttemptMoves

\* The next of the call's verdicts goes to the history.
LEMMA AppendEntryAttempt ==
  ASSUME NEW t \in Task, NEW c \in CallId, NEW call \in Call, RuntimeInv, AttemptOK(t),
         Drives(calls[t][c]), AppendEntry(t, c, call), process = "up",
         disk'[t] = disk[t] \/ (Stored(calls[t][c]) /\ disk'[t] = calls[t][c].rec),
         planned' = planned, ran' = ran, call.entries # <<>>,
         call.target = "Completed" =>
             /\ AllSucceeded(planned[t], ran[t])
             /\ Len(call.entries) <= planned[t]
             /\ \A i \in 1 .. Len(call.entries) : call.entries[i] = "verified"
             /\ EndsVerified(tasks[t].step_history, planned[t] - Len(call.entries))
  PROVE  AttemptOK(t)'
  <1>1. /\ tasks \in [Task -> TaskRecord] /\ calls \in [Task -> [CallId -> Call]]
        /\ tasks[t] \in TaskRecord /\ DrivenWell(t) /\ planned[t] \in Nat
    BY DEF RuntimeInv, TypeOK
  <1> DEFINE rec == WithEntry(tasks[t], Head(call.entries))
             next == [call EXCEPT !.pc = "history", !.rec = rec, !.entries = Tail(@)]
  <1>2. tasks'[t] = rec /\ \A d \in CallId : calls'[t][d] = IF d = c THEN next ELSE calls[t][d]
    BY <1>1 DEF AppendEntry, SetCall
  <1>3. next.pc = "history" /\ next.rec = rec /\ next.target = call.target
        /\ next.entries = Tail(call.entries)
    BY DEF Call
  <1>4. call.entries \in Seq(HistoryEntry) /\ tasks[t].step_history \in Seq(HistoryEntry)
    BY <1>1 DEF Call, TaskRecord
  <1>5. Head(call.entries) \in HistoryEntry
    BY <1>4
  <1>6. rec.state = tasks[t].state
        /\ rec.step_history = Append(tasks[t].step_history, Head(call.entries))
    BY <1>1, <1>5, RecordStates DEF WithEntry, TaskRecord
  <1>7. tasks[t].state # "Completed"
    BY <1>1, AdmittedStates DEF DrivenWell
  <1> HIDE DEF rec, next
  <1>8. ASSUME call.target = "Completed"
        PROVE  /\ Len(next.entries) <= planned[t]
               /\ \A i \in 1 .. Len(next.entries) : next.entries[i] = "verified"
               /\ EndsVerified(rec.step_history, planned[t] - Len(next.entries))
    <2> DEFINE n == Len(call.entries)
    <2>1. n \in Nat \ {0} /\ Len(next.entries) = n - 1
          /\ \A i \in 1 .. n - 1 : next.entries[i] = call.entries[i + 1]
      BY <1>3, <1>4
    <2>2. Head(call.entries) = call.entries[1]
      BY <1>4
    <2> HIDE DEF n
    <2>3. \A i \in 1 .. n - 1 : next.entries[i] = "verified"
      BY <1>8, <2>1 DEF n
    <2>4. Head(call.entries) = "verified" /\ n <= planned[t]
          /\ EndsVerified(tasks[t].step_history, planned[t] - n)
      BY <1>8, <2>1, <2>2 DEF n
    <2>5. planned[t] - n \in Nat /\ planned[t] - (n - 1) = (planned[t] - n) + 1
      BY <1>1, <2>1, <2>4
    <2>6. EndsVerified(rec.step_history, (planned[t] - n) + 1)
      BY <1>4, <1>6, <2>4, <2>5, OneMoreVerified
    <2> QED  BY <1>1, <2>1, <2>3, <2>4, <2>5, <2>6
  <1>9. InStep(planned'[t], ran'[t], rec.step_history, next)
    BY <1>3, <1>8 DEF InStep, Moving
  <1> QED  BY <1>2, <1>3, <1>6, <1>7, <1>9, AttemptMoves

\* If the verdicts on the results say "Completed", all of them are good.
LEMMA GoodVerdicts ==
  ASSUME NEW results \in Seq(ToolResult),
         OutcomeOf([i \in 1 .. Len(results) |-> VerdictOf(results[i])]) = "Completed"
  PROVE  /\ \A i \in 1 .. Len(results) : VerdictOf(results[i]) = "verified"
         /\ results = [i \in 1 .. Len(results) |-> "success"]
  <1> DEFINE verdicts == [i \in 1 .. Len(results) |-> VerdictOf(results[i])]
  <1>1. \A i \in 1 .. Len(results) : results[i] \in ToolResult
    OBVIOUS
  <1>2. DOMAIN verdicts = 1 .. Len(results)
        /\ \A i \in 1 .. Len(results) : verdicts[i] = VerdictOf(results[i])
    OBVIOUS
  <1> HIDE DEF verdicts
  <1>3. OutcomeOf(verdicts) = "Completed"
    BY DEF verdicts
  <1>4. \A i \in 1 .. Len(results) : verdicts[i] \notin {"failed", "unverified"}
    BY <1>2, <1>3 DEF OutcomeOf
  <1>5. \A i \in 1 .. Len(results) : results[i] = "success" /\ VerdictOf(results[i]) = "verified"
    BY <1>1, <1>2, <1>4 DEF VerdictOf, ToolResult
  <1>6. results = [i \in 1 .. Len(results) |-> results[i]]
    OBVIOUS
  <1> QED  BY <1>5, <1>6

LEMMA CallStepAttempt ==
  ASSUME NEW t \in Task, NEW c \in CallId, RuntimeInv, AttemptOK(t), CallStep(t, c)
  PROVE  AttemptOK(t)'
  <1> DEFINE old == calls[t][c]
  <1>1. /\ TypeOK /\ DrivenWell(t) /\ old \in Call /\ HasResults
        /\ tasks \in [Task -> TaskRecord] /\ calls \in [Task -> [CallId -> Call]]
        /\ disk \in [Task -> TaskRecord]
        /\ InStep(planned[t], ran[t], tasks[t].step_history, old)
    BY DEF RuntimeInv, TypeOK, AttemptOK
  <1>2. ASSUME Drives(old) PROVE tasks[t].state # "Completed"
    BY <1>1, <1>2, AdmittedStates DEF DrivenWell
  <1>3. CASE PersistOk(t, c)
    <2> DEFINE call == [old EXCEPT !.pc = "publish"]
    <2>1. old.pc = "persist" /\ process = "up" /\ disk'[t] = old.rec /\ tasks' = tasks
          /\ planned' = planned /\ ran' = ran
          /\ \A d \in CallId : calls'[t][d] = IF d = c THEN call ELSE calls[t][d]
      BY <1>1, <1>3 DEF PersistOk, At, SetCall, history
    <2>2. call.pc = "publish" /\ call.rec = old.rec /\ call.results = old.results
          /\ call.left = old.left
      BY <1>1 DEF Call
    <2> HIDE DEF call
    <2>3. InStep(planned'[t], ran'[t], tasks[t].step_history, call)
      BY <1>1, <2>1, <2>2 DEF InStep, Moving
    <2>4. ~Stored(call) /\ Stored(old)
      BY <2>1, <2>2 DEF Stored
    <2>5. tasks[t].state = "Completed" => Earned(planned'[t], ran'[t], tasks[t])
      BY <2>1 DEF AttemptOK
    <2> QED  BY <2>1, <2>3, <2>4, <2>5, AttemptMoves
  <1>4. CASE RetryExecutes(t, c)
    <2>1. Transition(t, c, Idle, "Planning") /\ process = "up" /\ disk'[t] = disk[t]
          /\ planned'[t] = planned[t]
      BY <1>4 DEF RetryExecutes, Published, At, store
    <2>2. ran'[t] = IF CanMove(tasks[t], "Planning") THEN <<>> ELSE ran[t]
      BY <1>4 DEF RetryExecutes, NewAttempt
    <2>3. "Planning" \in TaskState
      BY DEF TaskState
    <2> QED  BY <2>1, <2>2, <2>3, CallTypes, TransitionAttempt
  <1>5. CASE PlanningPublished(t, c)
    <2> DEFINE call == [old EXCEPT !.pc = "plan"]
    <2>1. old.pc = "publish" /\ old.rec.state = "Planning" /\ process = "up"
          /\ disk'[t] = disk[t] /\ tasks' = tasks /\ planned' = planned /\ ran' = ran
          /\ \A d \in CallId : calls'[t][d] = IF d = c THEN call ELSE calls[t][d]
      BY <1>1, <1>5 DEF PlanningPublished, Published, At, SetCall, history, store
    <2>2. call.pc = "plan"
      BY <1>1 DEF Call
    <2> HIDE DEF call
    <2>3. InStep(planned'[t], ran'[t], tasks[t].step_history, call)
      BY <1>1, <2>1, <2>2 DEF InStep, Moving
    <2>4. ~Stored(call)
      BY <2>2 DEF Stored
    <2>5. tasks[t].state = "Completed" => Earned(planned'[t], ran'[t], tasks[t])
      BY <2>1 DEF AttemptOK
    <2> QED  BY <2>1, <2>3, <2>4, <2>5, AttemptMoves
  <1>6. ASSUME NEW n \in 1 .. MaxSteps, PlanMade(t, c, n) PROVE AttemptOK(t)'
    <2> DEFINE call == [Idle EXCEPT !.left = n]
    <2>1. n \in Nat /\ n > 0
      BY RuntimeAssumption
    <2>2. call \in Call /\ call.left = n /\ call.results = <<>>
      BY <2>1, CallTypes DEF Call, Idle
    <2>3. Transition(t, c, call, "Executing") /\ old.pc = "plan" /\ process = "up"
          /\ disk'[t] = disk[t] /\ ran'[t] = ran[t]
      BY <1>6 DEF PlanMade, At, store
    <2>4. planned'[t] = n
      BY <1>1, <1>6 DEF PlanMade, TypeOK
    <2>5. Drives(old) /\ ran[t] = <<>>
      BY <1>1, <2>3 DEF Drives, InStep
    <2>6. "Executing" \in TaskState
      BY DEF TaskState
    <2> HIDE DEF call
    <2> QED  BY <1>2, <2>1, <2>2, <2>3, <2>4, <2>5, <2>6, TransitionAttempt
  <1>7. CASE PlanFails(t, c)
    <2>1. FailAttempt(t, c) /\ Drives(old) /\ process = "up" /\ disk' = disk
          /\ planned' = planned /\ ran' = ran
      BY <1>7 DEF PlanFails, At, Drives, store
    <2> QED  BY <2>1, FailAttemptAttempt
  <1>8. CASE ExecutingPublished(t, c)
    <2> DEFINE call == [old EXCEPT !.pc = "tool"]
    <2>1. old.pc = "publish" /\ old.rec.state = "Executing" /\ process = "up"
          /\ disk'[t] = disk[t] /\ tasks' = tasks /\ planned' = planned
          /\ \A d \in CallId : calls'[t][d] = IF d = c THEN call ELSE calls[t][d]
      BY <1>1, <1>8 DEF ExecutingPublished, Published, At, SetCall, store
    <2>2. call.pc = "tool" /\ call.results = old.results /\ call.left = old.left
      BY <1>1 DEF Call
    <2>3. ran'[t] = Append(ran[t], "started")
      BY <1>1, <1>8 DEF ExecutingPublished, TypeOK
    <2>4. Drives(old) /\ ran[t] = <<>> /\ old.results = <<>> /\ old.left = planned[t]
          /\ planned[t] > 0 /\ planned[t] \in Nat
      BY <1>1, <2>1 DEF Drives, InStep, Moving, TypeOK
    <2> HIDE DEF call
    <2>5. InStep(planned'[t], ran'[t], tasks[t].step_history, call)
      <3>1. Len(ran'[t]) = 1 /\ Len(call.results) = 0 /\ planned'[t] = planned[t]
        BY <2>1, <2>2, <2>3, <2>4
      <3> QED  BY <2>1, <2>2, <2>4, <3>1 DEF InStep, Moving
    <2>6. ~Stored(call)
      BY <2>2 DEF Stored
    <2> QED  BY <1>2, <2>1, <2>4, <2>5, <2>6, AttemptMoves
  <1>9. CASE VerifyingPublished(t, c)
    <2> DEFINE verdicts == [i \in 1 .. Len(old.results) |-> VerdictOf(old.results[i])]
               call == [Idle EXCEPT !.entries = verdicts, !.target = OutcomeOf(verdicts)]
    <2>1. old.pc = "publish" /\ old.rec.state = "Verifying" /\ AppendEntry(t, c, call)
          /\ process = "up" /\ disk'[t] = disk[t] /\ planned' = planned /\ ran' = ran
      BY <1>9 DEF VerifyingPublished, Published, At, store
    <2>2. Drives(old) /\ old.results # <<>> /\ old.results \in Seq(ToolResult)
          /\ ran[t] = old.results /\ Len(ran[t]) = planned[t] /\ planned[t] > 0
      BY <1>1, <2>1 DEF Drives, HasResults, Call, InStep, Moving
    <2>3. call \in Call /\ call.entries # <<>>
      BY <2>2, VerdictsToAppend
    <2>4. call.entries = verdicts /\ call.target = OutcomeOf(verdicts)
      BY DEF Idle
    <2>5. ASSUME call.target = "Completed"
          PROVE  /\ AllSucceeded(planned[t], ran[t])
                 /\ Len(call.entries) <= planned[t]
                 /\ \A i \in 1 .. Len(call.entries) : call.entries[i] = "verified"
                 /\ EndsVerified(tasks[t].step_history, planned[t] - Len(call.entries))
      <3>1. /\ \A i \in 1 .. Len(old.results) : verdicts[i] = "verified"
            /\ old.results = [i \in 1 .. Len(old.results) |-> "success"]
        <4>1. OutcomeOf([i \in 1 .. Len(old.results) |-> VerdictOf(old.results[i])]) = "Completed"
          BY <2>4, <2>5
        <4>2. /\ \A i \in 1 .. Len(old.results) : VerdictOf(old.results[i]) = "verified"
              /\ old.results = [i \in 1 .. Len(old.results) |-> "success"]
          <5> HIDE DEF verdicts, call, old
          <5> QED  BY <2>2, <4>1, GoodVerdicts
        <4>3. \A i \in 1 .. Len(old.results) : verdicts[i] = VerdictOf(old.results[i])
          OBVIOUS
        <4> QED  BY <4>2, <4>3
      <3>2. Len(verdicts) = Len(old.results) /\ Len(old.results) \in Nat
        BY <2>2
      <3>3. tasks[t].step_history \in Seq(HistoryEntry)
        BY <1>1 DEF TaskRecord
      <3>4. Len(tasks[t].step_history) \in Nat
        BY <3>3
      <3>5. planned[t] - Len(verdicts) = 0
        BY <2>2, <3>2
      <3>6. EndsVerified(tasks[t].step_history, 0)
        BY <3>4 DEF EndsVerified
      <3>7. AllSucceeded(planned[t], ran[t])
        BY <2>2, <3>1 DEF AllSucceeded
      <3> HIDE DEF verdicts
      <3> QED  BY <2>2, <2>4, <3>1, <3>2, <3>5, <3>6, <3>7
    <2> HIDE DEF call, verdicts
    <2> QED  BY <2>1, <2>2, <2>3, <2>5, AppendEntryAttempt
  <1>10. CASE NextEntry(t, c)
    <2>1. old.pc = "history" /\ old.entries # <<>> /\ AppendEntry(t, c, old)
          /\ process = "up" /\ planned' = planned /\ ran' = ran /\ Drives(old) /\ Stored(old)
      BY <1>10 DEF NextEntry, At, Drives, Stored
    <2>2. disk'[t] = old.rec
      BY <1>1, <1>10 DEF NextEntry
    <2>3. old.target = "Completed" =>
             /\ AllSucceeded(planned[t], ran[t])
             /\ Len(old.entries) <= planned[t]
             /\ \A i \in 1 .. Len(old.entries) : old.entries[i] = "verified"
             /\ EndsVerified(tasks[t].step_history, planned[t] - Len(old.entries))
      BY <1>1, <2>1 DEF InStep
    <2> QED  BY <1>1, <2>1, <2>2, <2>3, AppendEntryAttempt
  <1>11. CASE LastEntry(t, c)
    <2>1. old.pc = "history" /\ old.entries = <<>> /\ Transition(t, c, Idle, old.target)
          /\ process = "up" /\ planned' = planned /\ ran' = ran /\ Drives(old) /\ Stored(old)
      BY <1>11 DEF LastEntry, At, Drives, Stored
    <2>2. disk'[t] = old.rec
      BY <1>1, <1>11 DEF LastEntry
    <2>3. old.target \in TaskState /\ old.target \notin {"Planning", "Executing", "Verifying"}
      BY <1>1 DEF Call, Outcome, TaskState
    <2>4. old.target = "Completed" => Earned(planned[t], ran[t], tasks[t])
      <3>1. Len(old.entries) = 0 /\ planned[t] \in Nat
        BY <1>1, <2>1 DEF TypeOK
      <3>2. planned[t] - Len(old.entries) = planned[t]
        BY <3>1
      <3> QED  BY <1>1, <2>1, <3>2 DEF InStep, Earned
    <2> QED  BY <2>1, <2>2, <2>3, <2>4, CallTypes, TransitionAttempt
  <1>12. CASE OutcomePublished(t, c)
    <2>1. process = "up" /\ disk'[t] = disk[t] /\ tasks' = tasks /\ planned' = planned
          /\ ran' = ran
          /\ \A d \in CallId : calls'[t][d] = IF d = c THEN Ended(c) ELSE calls[t][d]
      BY <1>1, <1>12 DEF OutcomePublished, Published, At, SetCall, history, store
    <2>2. InStep(planned'[t], ran'[t], tasks[t].step_history, Ended(c)) /\ ~Stored(Ended(c))
      BY IdleDrivesNothing, OthersInStep DEF Stored, Ended, Idle
    <2>3. tasks[t].state = "Completed" => Earned(planned'[t], ran'[t], tasks[t])
      BY <2>1 DEF AttemptOK
    <2> QED  BY <2>1, <2>2, <2>3, AttemptMoves
  <1> QED  BY <1>3, <1>4, <1>5, <1>6, <1>7, <1>8, <1>9, <1>10, <1>11, <1>12 DEF CallStep

LEMMA CallFailsAttempt ==
  ASSUME NEW t \in Task, NEW c \in CallId, RuntimeInv, AttemptOK(t), CallFails(t, c)
  PROVE  AttemptOK(t)'
  <1>1. process = "up" /\ disk'[t] = disk[t] /\ tasks' = tasks /\ planned' = planned
        /\ ran' = ran
        /\ \A d \in CallId : calls'[t][d] = IF d = c THEN Ended(c) ELSE calls[t][d]
    BY DEF RuntimeInv, TypeOK, CallFails, SetCall, history, store
  <1>2. InStep(planned'[t], ran'[t], tasks[t].step_history, Ended(c)) /\ ~Stored(Ended(c))
    BY IdleDrivesNothing, OthersInStep DEF Stored, Ended, Idle
  <1>3. tasks[t].state = "Completed" => Earned(planned'[t], ran'[t], tasks[t])
    BY <1>1 DEF AttemptOK
  <1> QED  BY <1>1, <1>2, <1>3, AttemptMoves

LEMMA SequenceIsFunction ==
  ASSUME NEW S, NEW s \in Seq(S)
  PROVE  s = [i \in 1 .. Len(s) |-> s[i]]
  OBVIOUS

\* The log of a plan's steps when the last one started has answered.
LEMMA AnsweredLog ==
  ASSUME NEW log \in Seq(ToolResult \cup {"started"}), NEW results \in Seq(ToolResult),
         NEW result \in ToolResult, Len(log) = Len(results) + 1,
         \A i \in 1 .. Len(results) : log[i] = results[i]
  PROVE  Answered(log, result) = Append(results, result)
  <1>1. Len(results) \in Nat
    OBVIOUS
  <1>2. Answered(log, result) = [i \in 1 .. Len(log) |-> IF i = Len(log) THEN result ELSE log[i]]
    <2>1. log = [i \in 1 .. Len(log) |-> log[i]]
      BY SequenceIsFunction
    <2> QED  BY <2>1 DEF Answered
  <1> DEFINE r == Append(results, result)
  <1>3. r \in Seq(ToolResult) /\ Len(r) = Len(results) + 1 /\ r[Len(results) + 1] = result
        /\ \A i \in 1 .. Len(results) : r[i] = results[i]
    OBVIOUS
  <1> HIDE DEF r
  <1>4. r = [i \in 1 .. Len(r) |-> r[i]]
    BY <1>3, SequenceIsFunction
  <1>5. \A i \in 1 .. Len(log) : (IF i = Len(log) THEN result ELSE log[i]) = r[i]
    BY <1>1, <1>3
  <1> QED  BY <1>2, <1>3, <1>4, <1>5 DEF r

LEMMA ToolStepAttempt ==
  ASSUME NEW t \in Task, NEW c \in CallId, RuntimeInv, AttemptOK(t), ToolStep(t, c)
  PROVE  AttemptOK(t)'
  <1> DEFINE old == calls[t][c]
  <1>1. /\ TypeOK /\ DrivenWell(t) /\ old \in Call
        /\ tasks \in [Task -> TaskRecord] /\ calls \in [Task -> [CallId -> Call]]
        /\ InStep(planned[t], ran[t], tasks[t].step_history, old)
        /\ ran[t] \in Seq(ToolResult \cup {"started"}) /\ planned[t] \in Nat
        /\ old.results \in Seq(ToolResult) /\ old.left \in Nat
    BY DEF RuntimeInv, TypeOK, AttemptOK, Call
  <1>2. ASSUME Drives(old) PROVE tasks[t].state # "Completed"
    BY <1>1, <1>2, AdmittedStates DEF DrivenWell
  <1>3. ASSUME old.pc = "tool"
        PROVE  /\ Drives(old)
               /\ Len(ran[t]) = Len(old.results) + 1
               /\ \A i \in 1 .. Len(old.results) : ran[t][i] = old.results[i]
               /\ old.left + Len(old.results) = planned[t]
    BY <1>1, <1>3 DEF Drives, InStep
  <1>4. ASSUME NEW result \in ToolResult, old.pc = "tool"
        PROVE  /\ Answered(ran[t], result) = Append(old.results, result)
               /\ Append(old.results, result) \in Seq(ToolResult)
               /\ Len(Append(old.results, result)) = Len(old.results) + 1
    <2>1. Len(ran[t]) = Len(old.results) + 1
          /\ \A i \in 1 .. Len(old.results) : ran[t][i] = old.results[i]
      BY <1>3, <1>4
    <2> HIDE DEF old
    <2>2. Answered(ran[t], result) = Append(old.results, result)
      BY <1>1, <2>1, AnsweredLog
    <2>3. Append(old.results, result) \in Seq(ToolResult)
          /\ Len(Append(old.results, result)) = Len(old.results) + 1
      BY <1>1
    <2> QED  BY <2>2, <2>3
  <1>5. ASSUME NEW result \in ToolResult, StepReturns(t, c, result) PROVE AttemptOK(t)'
    <2> DEFINE call == [old EXCEPT !.left = @ - 1, !.results = Append(@, result)]
               results == Append(old.results, result)
    <2>1. old.pc = "tool" /\ old.left > 1 /\ process = "up" /\ disk'[t] = disk[t]
          /\ tasks' = tasks /\ planned' = planned
          /\ \A d \in CallId : calls'[t][d] = IF d = c THEN call ELSE calls[t][d]
      BY <1>1, <1>5 DEF StepReturns, At, SetCall, store
    <2>2. ran'[t] = Append(Answered(ran[t], result), "started")
      BY <1>1, <1>5 DEF StepReturns, TypeOK
    <2>3. call.pc = "tool" /\ call.results = results /\ call.left = old.left - 1
      BY <1>1, <2>1 DEF Call
    <2>4. Answered(ran[t], result) = results /\ results \in Seq(ToolResult)
          /\ Len(results) = Len(old.results) + 1
      BY <1>4, <2>1
    <2>5. Drives(old) /\ old.left + Len(old.results) = planned[t]
      BY <1>3, <2>1
    <2>6. Len(old.results) \in Nat
      BY <1>1
    <2> HIDE DEF call, results
    <2>7. Len(ran'[t]) = Len(results) + 1 /\ \A i \in 1 .. Len(results) : ran'[t][i] = results[i]
      BY <2>2, <2>4
    <2>8. call.left > 0 /\ call.left + Len(call.results) = planned'[t]
      <3>1. Len(call.results) = Len(old.results) + 1 /\ planned'[t] = planned[t]
        BY <2>1, <2>3, <2>4
      <3>2. old.left \in Nat /\ old.left > 1 /\ call.left = old.left - 1
        BY <1>1, <2>1, <2>3
      <3> HIDE DEF old
      <3> QED  BY <2>5, <2>6, <3>1, <3>2
    <2>9. InStep(planned'[t], ran'[t], tasks[t].step_history, call)
      BY <2>3, <2>7, <2>8 DEF InStep, Moving
    <2>10. ~Stored(call)
      BY <2>3 DEF Stored
    <2> QED  BY <1>2, <2>1, <2>5, <2>9, <2>10, AttemptMoves
  <1>6. ASSUME NEW result \in ToolResult, LastStepReturns(t, c, result) PROVE AttemptOK(t)'
    <2> DEFINE call == [old EXCEPT !.left = 0, !.results = Append(@, result)]
               results == Append(old.results, result)
    <2>1. old.pc = "tool" /\ old.left = 1 /\ process = "up" /\ disk'[t] = disk[t]
          /\ planned'[t] = planned[t] /\ Transition(t, c, call, "Verifying")
      BY <1>6 DEF LastStepReturns, At, store
    <2>2. ran'[t] = Answered(ran[t], result)
      BY <1>1, <1>6 DEF LastStepReturns, TypeOK
    <2>3. Answered(ran[t], result) = results /\ results \in Seq(ToolResult)
          /\ Len(results) = Len(old.results) + 1
      BY <1>4, <2>1
    <2>4. Drives(old) /\ old.left + Len(old.results) = planned[t]
      BY <1>3, <2>1
    <2>5. Len(old.results) \in Nat
      BY <1>1
    <2>6. call \in Call /\ call.results = results
      BY <1>1, <2>3 DEF Call
    <2> HIDE DEF call, results
    <2>7. ran'[t] = call.results /\ Len(ran'[t]) = planned'[t] /\ planned'[t] > 0
      BY <2>1, <2>2, <2>3, <2>4, <2>5, <2>6
    <2>8. "Verifying" \in TaskState
      BY DEF TaskState
    <2> QED  BY <1>2, <2>1, <2>4, <2>6, <2>7, <2>8, TransitionAttempt
  <1>7. CASE StepFails(t, c)
    <2>1. FailAttempt(t, c) /\ Drives(old) /\ process = "up" /\ disk' = disk
          /\ planned' = planned /\ ran' = ran
      BY <1>7 DEF StepFails, At, Drives, store
    <2> QED  BY <2>1, FailAttemptAttempt
  <1> QED  BY <1>5, <1>6, <1>7 DEF ToolStep

----------------------------------------------------------------------------
(* The other tasks.                                                        *)

\* What a step may read and change of a task u.
Same(u) ==
    /\ process' = process
    /\ tasks'[u] = tasks[u] /\ disk'[u] = disk[u]
    /\ planned'[u] = planned[u] /\ ran'[u] = ran[u]
    /\ \A d \in CallId : calls'[u][d] = calls[u][d]
    /\ u \in acked' <=> u \in acked
    /\ u \in early' <=> u \in early
    /\ u \in queue' <=> u \in queue

LEMMA OthersUntouched ==
  ASSUME NEW t \in Task, NEW u \in Task, u # t, TypeOK,
         UserStep(t) \/ \E c \in CallId : CallStep(t, c) \/ ToolStep(t, c) \/ CallFails(t, c)
  PROVE  Same(u)
  <1>1. tasks \in [Task -> TaskRecord] /\ calls \in [Task -> [CallId -> Call]]
        /\ disk \in [Task -> TaskRecord] /\ planned \in [Task -> Nat]
        /\ ran \in [Task -> Seq(ToolResult \cup {"started"})]
    BY DEF TypeOK
  <1>2. \A c, call : SetCall(t, c, call) => \A d \in CallId : calls'[u][d] = calls[u][d]
    BY <1>1 DEF SetCall
  <1>3. \A c, call, s : Transition(t, c, call, s) =>
           tasks'[u] = tasks[u] /\ \A d \in CallId : calls'[u][d] = calls[u][d]
    BY <1>1, <1>2 DEF Transition
  <1>4. \A c, call : AppendEntry(t, c, call) =>
           tasks'[u] = tasks[u] /\ \A d \in CallId : calls'[u][d] = calls[u][d]
    BY <1>1, <1>2 DEF AppendEntry
  <1>5. NewAttempt({t}) => ran'[u] = ran[u]
    BY DEF NewAttempt
  <1>6. CASE UserStep(t)
    <2>1. CASE SubmitTask(t)
      BY <1>1, <1>2, <2>1 DEF SubmitTask, store, admission, Same
    <2>2. CASE CancelTask(t)
      BY <1>1, <2>2 DEF CancelTask, CancelQueued, store, Same
    <2>3. CASE PauseTask(t)
      BY <1>1, <2>3 DEF PauseTask, CancelQueued, store, Same
    <2>4. CASE ResumePaused(t)
      BY <1>3, <1>5, <2>4 DEF ResumePaused, store, admission, Same
    <2>5. CASE RetryTask(t)
      BY <1>1, <1>3, <2>5 DEF RetryTask, store, admission, Same
    <2> QED  BY <1>6, <2>1, <2>2, <2>3, <2>4, <2>5 DEF UserStep
  <1>7. ASSUME NEW c \in CallId, CallStep(t, c) PROVE Same(u)
    <2>1. CASE PersistOk(t, c)
      BY <1>1, <1>2, <2>1 DEF PersistOk, admission, history, Same
    <2>2. CASE RetryExecutes(t, c)
      BY <1>3, <1>5, <2>2 DEF RetryExecutes, store, admission, Same
    <2>3. CASE PlanningPublished(t, c) \/ OutcomePublished(t, c)
      BY <1>2, <2>3 DEF PlanningPublished, OutcomePublished, store, admission, history, Same
    <2>4. ASSUME NEW n \in 1 .. MaxSteps, PlanMade(t, c, n) PROVE Same(u)
      BY <1>1, <1>3, <2>4 DEF PlanMade, store, admission, Same
    <2>5. CASE PlanFails(t, c)
      BY <1>4, <2>5 DEF PlanFails, FailAttempt, store, admission, Same
    <2>6. CASE ExecutingPublished(t, c)
      BY <1>1, <1>2, <2>6 DEF ExecutingPublished, store, admission, Same
    <2>7. CASE VerifyingPublished(t, c)
      <3>1. \E call : AppendEntry(t, c, call)
        BY <2>7 DEF VerifyingPublished
      <3> QED  BY <1>4, <2>7, <3>1 DEF VerifyingPublished, store, admission, Same
    <2>8. CASE NextEntry(t, c)
      BY <1>1, <1>4, <2>8 DEF NextEntry, admission, Same
    <2>9. CASE LastEntry(t, c)
      BY <1>1, <1>3, <2>9 DEF LastEntry, admission, Same
    <2> QED  BY <1>7, <2>1, <2>2, <2>3, <2>4, <2>5, <2>6, <2>7, <2>8, <2>9 DEF CallStep
  <1>8. ASSUME NEW c \in CallId, ToolStep(t, c) PROVE Same(u)
    <2>1. ASSUME NEW result \in ToolResult, StepReturns(t, c, result) PROVE Same(u)
      BY <1>1, <1>2, <2>1 DEF StepReturns, store, admission, Same
    <2>2. ASSUME NEW result \in ToolResult, LastStepReturns(t, c, result) PROVE Same(u)
      BY <1>1, <1>3, <2>2 DEF LastStepReturns, store, admission, Same
    <2>3. CASE StepFails(t, c)
      BY <1>4, <2>3 DEF StepFails, FailAttempt, store, admission, Same
    <2> QED  BY <1>8, <2>1, <2>2, <2>3 DEF ToolStep
  <1>9. ASSUME NEW c \in CallId, CallFails(t, c) PROVE Same(u)
    BY <1>2, <1>9 DEF CallFails, store, admission, history, Same
  <1> QED  BY <1>6, <1>7, <1>8, <1>9

\* The executions that the scheduler starts, and the tasks it leaves alone.
LEMMA StartRunsAttempt ==
  ASSUME NEW S \in SUBSET Task, NEW t \in Task, NEW c \in CallId, NEW u \in Task,
         RuntimeInv, AttemptOK(u), StartRuns(S, t, c), NewAttempt(S),
         process = "up", disk' = disk, planned' = planned
  PROVE  AttemptOK(u)'
  <1>1. TypeOK /\ DrivenWell(u) /\ tasks[u] \in TaskRecord
    BY DEF RuntimeInv, TypeOK
  <1>2. \A d \in CallId :
           calls'[u][d] = IF u \in S /\ d = Run THEN Executed(Run, tasks[u])
                          ELSE IF u = t /\ d = c THEN Idle ELSE calls[u][d]
    BY DEF StartRuns
  <1>3. ~Drives(Idle) /\ ~Stored(Idle) /\ ~Drives(Ended(Run)) /\ ~Stored(Ended(Run))
    BY IdleDrivesNothing DEF Idle, Ended, Stored
  <1>4. CASE u \in S /\ CanMove(tasks[u], "Planning")
    <2>1. tasks'[u] = Moved(tasks[u], "Planning") /\ ran'[u] = <<>>
      BY <1>4 DEF StartRuns, NewAttempt
    <2>2. tasks'[u].state = "Planning" /\ tasks[u].state # "Completed"
          /\ Executed(Run, tasks[u]).pc = "persist"
          /\ Executed(Run, tasks[u]).rec.state = "Planning"
      <3>1. Moved(tasks[u], "Planning").state = "Planning"
        BY <1>1, RecordStates DEF ShownState, TaskState
      <3> QED  BY <1>4, <2>1, <3>1 DEF Executed, Idle, CanMove, Successors
    <2>3. \A d \in CallId : ~Drives(calls[u][d])
      BY <1>1, <1>4, BeginningStates, NobodyDrives
    <2>4. ASSUME NEW d \in CallId
          PROVE  InStep(planned'[u], ran'[u], tasks'[u].step_history, calls'[u][d])
      <3>1. CASE d = Run
        BY <1>2, <1>4, <2>1, <2>2, <3>1 DEF InStep, Moving
      <3>2. CASE d # Run
        <4>1. ~Drives(calls'[u][d])
          BY <1>2, <1>3, <2>3, <3>2
        <4> QED  BY <4>1, OthersInStep
      <3> QED  BY <3>1, <3>2
    <2>5. \A d \in CallId : ~(Stored(calls'[u][d]) /\ calls'[u][d].rec.state = "Completed")
      BY <1>2, <1>3, <1>4, <2>2 DEF AttemptOK
    <2> QED  BY <2>2, <2>4, <2>5 DEF AttemptOK
  <1>5. CASE ~(u \in S /\ CanMove(tasks[u], "Planning"))
    <2>1. tasks'[u] = tasks[u] /\ ran'[u] = ran[u]
      BY <1>5 DEF StartRuns, NewAttempt
    <2>2. \A d \in CallId : calls'[u][d] \in {calls[u][d], Idle, Ended(Run)}
      BY <1>2, <1>5 DEF Executed
    <2>3. ASSUME NEW d \in CallId
          PROVE  InStep(planned'[u], ran'[u], tasks'[u].step_history, calls'[u][d])
      BY <1>3, <2>1, <2>2, OthersInStep DEF AttemptOK
    <2> QED  BY <1>3, <2>1, <2>2, <2>3 DEF AttemptOK
  <1> QED  BY <1>4, <1>5

\* What a start, a failing start and a crash leave of a task.
LEMMA ProcessStepAttempt ==
  ASSUME NEW u \in Task, RuntimeInv, AttemptOK(u), StartStep \/ StartFails \/ Crash
  PROVE  AttemptOK(u)'
  <1>1. /\ TypeOK /\ NoCallWhileDown /\ disk[u] \in TaskRecord
        /\ disk \in [Task -> TaskRecord]
    BY DEF RuntimeInv, TypeOK
  <1>2. /\ \A d \in CallId : calls'[u][d] = Idle
        /\ planned' = planned /\ ran' = ran
    BY <1>1 DEF NoCallWhileDown, StartStep, Start, RecoverTask, Restore, StartFails, Crash, history
  <1>3. ~Drives(Idle) /\ ~Stored(Idle)
    BY IdleDrivesNothing DEF Idle, Stored
  <1>4. \A d \in CallId : InStep(planned'[u], ran'[u], tasks'[u].step_history, calls'[u][d])
    BY <1>2, <1>3, OthersInStep
  <1>5. disk'[u].state = "Completed" =>
           disk[u].state = "Completed" /\ disk'[u].step_history = disk[u].step_history
    <2>1. ASSUME NEW v \in Task, RecoverTask(v)
          PROVE  disk'[u] = disk[u] \/ disk'[u].state = "Unverified"
      <3>1. disk' = [disk EXCEPT ![v] = [disk[v] EXCEPT !.state = Recovered(disk[v].state)]]
            /\ Recovered(disk[v].state) # disk[v].state
        BY <1>1, <2>1 DEF RecoverTask
      <3>2. Recovered(disk[v].state) = "Unverified"
        BY <3>1 DEF Recovered
      <3> QED  BY <1>1, <3>1, <3>2 DEF TaskRecord
    <2>2. CASE Start \/ Restore \/ StartFails \/ Crash
      BY <2>2 DEF Start, Restore, StartFails, Crash
    <2> QED  BY <2>1, <2>2 DEF StartStep
  <1>6. tasks'[u].state = "Completed" => Earned(planned[u], ran[u], tasks'[u])
    <2>1. CASE Restore
      <3>1. tasks'[u].state = disk[u].state /\ tasks'[u].step_history = disk[u].step_history
        BY <1>1, <2>1 DEF Restore, TaskRecord
      <3> QED  BY <3>1 DEF AttemptOK, Earned
    <2>2. CASE Crash
      BY <2>2, RecordStates DEF Crash
    <2>3. CASE ~Restore /\ ~Crash
      <3>1. tasks' = tasks
        BY <2>3 DEF StartStep, Start, RecoverTask, StartFails
      <3> QED  BY <3>1 DEF AttemptOK
    <2> QED  BY <2>1, <2>2, <2>3
  <1>7. process' = "up" /\ disk[u].state = "Completed" => tasks'[u].state = "Completed"
    <2>1. CASE Restore
      BY <1>1, <2>1 DEF Restore, TaskRecord
    <2>2. CASE ~Restore
      BY <2>2 DEF StartStep, Start, RecoverTask, StartFails, Crash
    <2> QED  BY <2>1, <2>2
  <1>8. disk'[u].state = "Completed" => Earned(planned[u], ran[u], disk'[u])
    BY <1>5 DEF AttemptOK, Earned
  <1> QED  BY <1>2, <1>3, <1>4, <1>5, <1>6, <1>7, <1>8 DEF AttemptOK

THEOREM AttemptInvariant == Spec => []AttemptInv
  <1>1. Init => AttemptInv
    <2> SUFFICES ASSUME Init, NEW t \in Task PROVE AttemptOK(t)
      BY DEF AttemptInv
    <2>1. \A c \in CallId : calls[t][c] = Idle
      BY DEF Init
    <2>2. tasks[t].state = "Absent" /\ disk[t].state = "Absent"
      BY RecordStates DEF Init
    <2>3. ~Drives(Idle) /\ ~Stored(Idle)
      BY IdleDrivesNothing DEF Idle, Stored
    <2> QED  BY <2>1, <2>2, <2>3, OthersInStep DEF AttemptOK
  <1>2. RuntimeInv /\ AttemptInv /\ [Next]_vars => AttemptInv'
    <2> SUFFICES ASSUME RuntimeInv, AttemptInv, [Next]_vars, NEW u \in Task
                 PROVE  AttemptOK(u)'
      BY DEF AttemptInv
    <2>1. AttemptOK(u) /\ TypeOK
      BY DEF AttemptInv, RuntimeInv
    <2>2. ASSUME NEW t \in Task,
                 UserStep(t) \/ \E c \in CallId : CallStep(t, c) \/ ToolStep(t, c) \/ CallFails(t, c)
          PROVE  AttemptOK(u)'
      <3>1. CASE u = t
        BY <2>1, <2>2, <3>1, UserStepAttempt, CallStepAttempt, ToolStepAttempt, CallFailsAttempt
      <3>2. CASE u # t
        BY <2>1, <2>2, <3>2, OthersUntouched, AttemptStays DEF Same
      <3> QED  BY <3>1, <3>2
    <2>3. ASSUME NEW t \in Task, SchedulerStep(t) PROVE AttemptOK(u)'
      <3>1. PICK S \in SUBSET Task : SubmitReturns(t, S) \/ RunFinally(t, S)
        BY <2>3 DEF SchedulerStep
      <3>2. PICK c \in CallId : StartRuns(S, t, c)
        BY <3>1, CallIds DEF SubmitReturns, RunFinally
      <3>3. NewAttempt(S) /\ process = "up" /\ disk' = disk /\ planned' = planned
        BY <3>1 DEF SubmitReturns, RunFinally, Published, At, store
      <3> QED  BY <2>1, <3>2, <3>3, StartRunsAttempt
    <2>4. CASE StartStep \/ StartFails \/ Crash
      BY <2>1, <2>4, ProcessStepAttempt
    <2>5. CASE UNCHANGED vars
      BY <2>1, <2>5, AttemptStays DEF vars
    <2> QED  BY <2>2, <2>3, <2>4, <2>5 DEF Next
  <1> QED  BY <1>1, <1>2, RuntimeInvariant, PTL DEF Spec

\* A task is Completed, in memory or on the disk and through every crash, only
\* if its plan had a step, every step was run with a success, and the history
\* ends with the verdicts that say so.
THEOREM CompletionIsVerified == Spec => []CompletedMeansVerified
  <1>1. AttemptInv => CompletedMeansVerified
    BY DEF AttemptInv, AttemptOK, CompletedMeansVerified, Earned, AllSucceeded, EndsVerified
  <1> QED  BY <1>1, AttemptInvariant, PTL

----------------------------------------------------------------------------
(* Remembered is kept.  What makes the "Created" and "Retrying" snapshots   *)
(* harmless is that the task's state shows them until they are stored.      *)

\* One call moves its task on, or another step changes its record.
LEMMA RememberedMoves ==
  ASSUME NEW t \in Task, NEW c \in CallId, NEW call, NEW rec,
         RuntimeInv, Traced(t), Remembered(t),
         process = "up", process' = "up",
         tasks'[t] = rec, rec.state # "Absent",
         \A d \in CallId : calls'[t][d] = IF d = c THEN call ELSE calls[t][d],
         disk'[t] = disk[t] \/ (Stored(calls[t][c]) /\ disk'[t] = calls[t][c].rec),
         \* the log grows from nothing only when the first tool is started
         ran'[t] # <<>> =>
             \/ ran[t] # <<>>
             \/ /\ calls[t][c].pc = "publish" /\ calls[t][c].rec.state = "Executing"
                /\ disk'[t] = disk[t] /\ ~Stored(call),
         call.pc = "publish" /\ call.rec.state = "Executing" => disk'[t].state \notin Before,
         Stored(call) /\ call.rec.state \in Before => ran'[t] = <<>>,
         rec.state = "Planning" => tasks[t].state = "Planning" \/ ran'[t] = <<>>,
         call.pc = "history" /\ rec.state = "Planning" => ran'[t] = <<>>,
         Moving(call, "Created") => c = Submit,
         ~Moving(call, "Paused"),
         tasks[t].state = "Retrying" =>
             rec.state = "Retrying" \/ Moving(calls[t][c], "Retrying"),
         Moving(call, "Retrying") =>
             /\ rec.state = "Retrying"
             /\ Moving(calls[t][c], "Retrying") \/ tasks[t].state # "Retrying",
         c = Submit /\ call.pc # "idle" =>
             /\ Moving(call, "Created") /\ rec.state \in {"Created", "Cancelled"}
             /\ t \notin acked /\ t \notin queue,
         t \in acked' => t \in acked, t \in queue' => t \in queue,
         tasks[t].state \in {"Created", "Cancelled"} =>
             \/ rec.state \in {"Created", "Cancelled"}
             \/ t \notin queue' /\ calls'[t][Submit].pc = "idle"
  PROVE  Remembered(t)'
  <1>1. DrivenWell(t) /\ \A d \in CallId : calls[t][d] \in Call
    BY DEF RuntimeInv, TypeOK
  \* While the driver awaits the publication of "Executing", no other call
  \* has anything to store that tells of no tool.
  <1>2. ASSUME NEW d \in CallId, calls[t][d].pc = "publish", calls[t][d].rec.state = "Executing",
               NEW e \in CallId, e # d, Stored(calls[t][e])
        PROVE  calls[t][e].rec.state \notin Before
    <2>1. Drives(calls[t][d]) /\ tasks[t].state = "Executing"
      BY <1>1, <1>2 DEF Drives, DrivenWell, Admits
    <2>2. ~Drives(calls[t][e])
      BY <1>1, <1>2, <2>1 DEF DrivenWell
    <2>3. calls[t][e].pc = "persist" /\ calls[t][e].rec.state \notin {"Planning", "Absent"}
      BY <1>2, <2>2 DEF Stored, Drives, Traced, Holding
    <2>4. ~Moving(calls[t][e], "Created") /\ ~Moving(calls[t][e], "Retrying")
          /\ ~Moving(calls[t][e], "Paused")
      BY <2>1 DEF Remembered, Moving
    <2> QED  BY <2>3, <2>4 DEF Before, Moving
  <1>3. ran'[t] # <<>> => disk'[t].state \notin Before
    BY DEF Remembered
  <1>4. ASSUME NEW d \in CallId, calls'[t][d].pc = "publish", calls'[t][d].rec.state = "Executing"
        PROVE  disk'[t].state \notin Before
    <2>1. CASE d = c
      BY <1>4, <2>1
    <2>2. CASE d # c
      BY <1>2, <1>4, <2>2 DEF Remembered
    <2> QED  BY <2>1, <2>2
  <1>5. ASSUME NEW d \in CallId, Stored(calls'[t][d]), calls'[t][d].rec.state \in Before
        PROVE  ran'[t] = <<>>
    <2>1. CASE d = c
      BY <1>5, <2>1
    <2>2. CASE d # c
      BY <1>2, <1>5, <2>2 DEF Remembered
    <2> QED  BY <2>1, <2>2
  <1>6. ASSUME NEW d \in CallId, calls'[t][d].pc = "history", tasks'[t].state = "Planning"
        PROVE  ran'[t] = <<>>
    <2>1. CASE d = c
      BY <1>6, <2>1
    <2>2. CASE d # c
      <3>1. calls[t][d].pc = "history" /\ Drives(calls[t][d])
        BY <1>6, <2>2 DEF Drives
      <3>2. ~Drives(calls[t][c])
        BY <1>1, <2>2, <3>1 DEF DrivenWell
      <3>3. ~(calls[t][c].pc = "publish" /\ calls[t][c].rec.state = "Executing")
        BY <3>2 DEF Drives
      <3> QED  BY <1>6, <3>1, <3>3 DEF Remembered
    <2> QED  BY <2>1, <2>2
  <1>7. ASSUME NEW d \in CallId
        PROVE  /\ Moving(calls'[t][d], "Created") => d = Submit
               /\ ~Moving(calls'[t][d], "Paused")
    BY DEF Remembered
  <1>8. ASSUME NEW d \in CallId, Moving(calls'[t][d], "Retrying")
        PROVE  /\ tasks'[t].state = "Retrying"
               /\ \A e \in CallId : Moving(calls'[t][e], "Retrying") => d = e
    <2>1. \A e \in CallId : e # c /\ Moving(calls'[t][e], "Retrying") =>
             /\ Moving(calls[t][e], "Retrying") /\ tasks[t].state = "Retrying"
             /\ ~Moving(calls[t][c], "Retrying")
      BY DEF Remembered
    <2> QED  BY <1>8, <2>1 DEF Remembered
  <1>9. ASSUME calls'[t][Submit].pc # "idle"
        PROVE  /\ Moving(calls'[t][Submit], "Created")
               /\ tasks'[t].state \in {"Created", "Cancelled"}
               /\ t \notin acked' /\ t \notin queue'
    BY <1>9, CallIds DEF Remembered
  <1>10. t \in queue' => tasks'[t].state \in {"Created", "Cancelled"}
    BY DEF Remembered
  <1> QED  BY <1>3, <1>4, <1>5, <1>6, <1>7, <1>8, <1>9, <1>10 DEF Remembered

LEMMA RememberedStays ==
  ASSUME NEW t \in Task, Remembered(t), Same(t)
  PROVE  Remembered(t)'
  BY CallIds DEF Remembered, Same

\* A call ends, and its task is as it was.
LEMMA EndedRemembered ==
  ASSUME NEW t \in Task, NEW c \in CallId, RuntimeInv, Traced(t), Remembered(t),
         process = "up", process' = "up", tasks[t].state # "Absent", tasks'[t] = tasks[t],
         \A d \in CallId : calls'[t][d] = IF d = c THEN Ended(c) ELSE calls[t][d],
         acked' = acked, queue' = queue, ran'[t] # <<>> => ran[t] # <<>>,
         disk'[t] = disk[t] \/ (Stored(calls[t][c]) /\ disk'[t] = calls[t][c].rec)
  PROVE  Remembered(t)'
  <1>1. Ended(c).pc \notin {"persist", "publish", "history"}
        /\ (c = Submit => Ended(c).pc = "idle")
    BY CallIds DEF Ended, Idle
  <1>2. ~Stored(Ended(c)) /\ ~Moving(Ended(c), "Created") /\ ~Moving(Ended(c), "Paused")
        /\ ~Moving(Ended(c), "Retrying")
    BY <1>1 DEF Stored, Moving
  <1>3. tasks[t].state = "Planning" => tasks'[t].state = "Planning"
    OBVIOUS
  <1> QED  BY <1>1, <1>2, RememberedMoves

\* The coordinator's transition().
LEMMA TransitionRemembered ==
  ASSUME NEW t \in Task, NEW c \in CallId, NEW call \in Call, NEW target \in TaskState,
         RuntimeInv, Traced(t), Remembered(t), Transition(t, c, call, target),
         process = "up", process' = "up", tasks[t].state # "Absent",
         acked' = acked, queue' = queue,
         disk'[t] = disk[t] \/ (Stored(calls[t][c]) /\ disk'[t] = calls[t][c].rec),
         target \in {"Planning", "Executing", "Verifying", "Retrying"} \cup Outcome,
         Drives(calls[t][c]) \/ target \in {"Planning", "Retrying"},
         \/ ran'[t] = ran[t]
         \/ CanMove(tasks[t], target) /\ ran'[t] = <<>>
         \/ calls[t][c].pc = "tool" /\ ran[t] # <<>>,
         target \in {"Planning", "Retrying"} => c # Submit,
         CanMove(tasks[t], target) /\ target \in {"Planning", "Retrying"} => ran'[t] = <<>>,
         target = "Planning" =>
             /\ tasks[t].state \notin {"Created", "Cancelled"}
             /\ tasks[t].state = "Retrying" => Moving(calls[t][c], "Retrying")
  PROVE  Remembered(t)'
  <1>1. tasks \in [Task -> TaskRecord] /\ calls \in [Task -> [CallId -> Call]]
        /\ tasks[t] \in TaskRecord /\ DrivenWell(t)
    BY DEF RuntimeInv, TypeOK
  <1>2. c # Submit
    <2>1. calls[t][Submit].pc # "idle" => Moving(calls[t][Submit], "Created")
      BY DEF Remembered
    <2> QED  BY <2>1 DEF Drives, Moving
  <1>3. CASE CanMove(tasks[t], target)
    <2> DEFINE rec == Moved(tasks[t], target)
               next == [call EXCEPT !.pc = "persist", !.rec = rec]
    <2>1. rec.state = target
      BY <1>1, RecordStates DEF ShownState
    <2>2. next.pc = "persist" /\ next.rec = rec
      BY DEF Call
    <2>3. tasks'[t] = rec /\ \A d \in CallId : calls'[t][d] = IF d = c THEN next ELSE calls[t][d]
      BY <1>1, <1>3 DEF Transition, SetCall
    <2> HIDE DEF rec, next
    <2>4. target \notin {"Absent", "Created", "Paused", "Cancelled"}
      BY DEF Outcome
    <2>5. /\ tasks[t].state \notin {"Created", "Cancelled"}
          /\ tasks[t].state = "Retrying" => Moving(calls[t][c], "Retrying") /\ target = "Planning"
      BY <1>3, <2>4 DEF CanMove, Successors
    <2>6. ~Moving(next, "Created") /\ ~Moving(next, "Paused")
          /\ (Moving(next, "Retrying") => target = "Retrying")
      BY <2>1, <2>2, <2>4 DEF Moving
    <2>7. target \in Before => ran'[t] = <<>>
      BY <1>3, <2>4 DEF Before, Outcome
    <2>8. ran'[t] # <<>> => ran[t] # <<>>
      OBVIOUS
    <2> QED  BY <1>2, <1>3, <2>1, <2>2, <2>3, <2>4, <2>5, <2>6, <2>7, <2>8, RememberedMoves
  <1>4. CASE ~CanMove(tasks[t], target)
    <2>1. tasks'[t] = tasks[t]
          /\ \A d \in CallId : calls'[t][d] = IF d = c THEN Ended(c) ELSE calls[t][d]
      BY <1>1, <1>4 DEF Transition, SetCall
    <2>2. ran'[t] # <<>> => ran[t] # <<>>
      BY <1>4
    <2> QED  BY <1>2, <2>1, <2>2, EndedRemembered
  <1> QED  BY <1>3, <1>4

\* The coordinator's appendStepHistory().
LEMMA AppendEntryRemembered ==
  ASSUME NEW t \in Task, NEW c \in CallId, NEW call \in Call,
         RuntimeInv, Traced(t), Remembered(t), AppendEntry(t, c, call),
         Drives(calls[t][c]), call.entries # <<>>, process = "up", process' = "up",
         acked' = acked, queue' = queue, ran' = ran,
         disk'[t] = disk[t] \/ (Stored(calls[t][c]) /\ disk'[t] = calls[t][c].rec),
         tasks[t].state = "Planning" => ran[t] = <<>>
  PROVE  Remembered(t)'
  <1>1. tasks \in [Task -> TaskRecord] /\ calls \in [Task -> [CallId -> Call]]
        /\ tasks[t] \in TaskRecord /\ DrivenWell(t)
    BY DEF RuntimeInv, TypeOK
  <1> DEFINE rec == WithEntry(tasks[t], Head(call.entries))
             next == [call EXCEPT !.pc = "history", !.rec = rec, !.entries = Tail(@)]
  <1>2. tasks'[t] = rec /\ \A d \in CallId : calls'[t][d] = IF d = c THEN next ELSE calls[t][d]
    BY <1>1 DEF AppendEntry, SetCall
  <1>3. next.pc = "history" /\ next.rec = rec
    BY DEF Call
  <1>4. rec.state = tasks[t].state
    <2>1. call.entries \in Seq(HistoryEntry)
      BY DEF Call
    <2>2. Head(call.entries) \in HistoryEntry
      BY <2>1
    <2> QED  BY <1>1, <2>2, RecordStates
  <1>5. tasks[t].state \in {"Planning", "Executing", "Verifying", "Cancelled"}
    BY <1>1, AdmittedStates DEF DrivenWell
  <1>6. c # Submit
    <2>1. calls[t][Submit].pc # "idle" => Moving(calls[t][Submit], "Created")
      BY DEF Remembered
    <2> QED  BY <2>1 DEF Drives, Moving
  <1> HIDE DEF rec, next
  <1>7. ~Moving(next, "Created") /\ ~Moving(next, "Paused") /\ ~Moving(next, "Retrying")
    BY <1>3 DEF Moving
  <1>8. rec.state \in Before => rec.state = "Planning"
    BY <1>4, <1>5 DEF Before
  <1> QED  BY <1>2, <1>3, <1>4, <1>5, <1>6, <1>7, <1>8, RememberedMoves

LEMMA FailAttemptRemembered ==
  ASSUME NEW t \in Task, NEW c \in CallId, RuntimeInv, Traced(t), Remembered(t),
         FailAttempt(t, c), Drives(calls[t][c]), process = "up", process' = "up",
         acked' = acked, queue' = queue, ran' = ran, disk' = disk,
         tasks[t].state = "Planning" => ran[t] = <<>>
  PROVE  Remembered(t)'
  <1> DEFINE call == [Idle EXCEPT !.entries = <<"error">>, !.target = "Failed"]
  <1>1. <<"error">> \in Seq(HistoryEntry)
    BY DEF HistoryEntry
  <1>2. call \in Call /\ call.entries # <<>>
    BY <1>1, CallTypes DEF Call, Outcome, Idle
  <1>3. AppendEntry(t, c, call)
    BY DEF FailAttempt
  <1> HIDE DEF call
  <1> QED  BY <1>2, <1>3, AppendEntryRemembered

LEMMA UserStepRemembered ==
  ASSUME NEW t \in Task, RuntimeInv, Traced(t), Remembered(t), UserStep(t), t \notin early'
  PROVE  Remembered(t)'
  <1>1. /\ TypeOK /\ DrivenWell(t) /\ tasks[t] \in TaskRecord
        /\ tasks \in [Task -> TaskRecord] /\ calls \in [Task -> [CallId -> Call]]
    BY DEF RuntimeInv, TypeOK
  <1>2. CASE SubmitTask(t)
    <2> DEFINE call == [Idle EXCEPT !.pc = "persist", !.rec = Created]
    <2>1. call.pc = "persist" /\ call.rec = Created /\ Created.state = "Created"
      BY RecordStates DEF Idle
    <2>2. tasks'[t] = Created
          /\ \A d \in CallId : calls'[t][d] = IF d = Submit THEN call ELSE calls[t][d]
      BY <1>1, <1>2 DEF SubmitTask, SetCall
    <2>3. tasks[t].state = "Absent" /\ process = "up" /\ process' = "up" /\ disk' = disk
          /\ ran' = ran /\ acked' = acked /\ queue' = queue
      BY <1>2 DEF SubmitTask, store, admission
    <2>4. disk[t].state = "Absent" /\ ran[t] = <<>> /\ t \notin acked /\ t \notin queue
      BY <2>3 DEF Remembered, Before, Traced
    <2> HIDE DEF call
    <2>5. Stored(call) /\ Moving(call, "Created") /\ ~Moving(call, "Paused")
          /\ ~Moving(call, "Retrying")
      BY <2>1 DEF Stored, Moving
    <2> QED  BY <2>1, <2>2, <2>3, <2>4, <2>5, CallIds, RememberedMoves
  <1>3. CASE CancelTask(t) \/ PauseTask(t)
    <2>1. process = "up" /\ process' = "up" /\ disk' = disk /\ ran' = ran /\ acked' = acked
          /\ calls' = calls /\ queue' = queue \ {t} /\ tasks[t].state # "Absent"
      BY <1>3 DEF CancelTask, PauseTask, CancelQueued, store
    <2>2. \/ tasks'[t].state = tasks[t].state
          \/ tasks'[t].state = "Cancelled" /\ tasks[t].state \in Cancellable
          \/ tasks'[t].state = "Paused" /\ tasks[t].state = "Created" /\ t \in acked
      <3>1. /\ Moved(tasks[t], "Cancelled").state = "Cancelled"
            /\ Moved(tasks[t], "Paused").state = "Paused"
        BY <1>1, RecordStates DEF ShownState, TaskState
      <3> QED  BY <1>1, <1>3, <3>1 DEF CancelTask, PauseTask
    <2>3. t \in acked => calls[t][Submit].pc = "idle"
      BY DEF Remembered
    <2>4. /\ tasks'[t].state # "Absent"
          /\ tasks'[t].state = "Planning" => tasks[t].state = "Planning"
          /\ tasks[t].state = "Retrying" => tasks'[t].state = "Retrying"
          /\ tasks[t].state \in {"Created", "Cancelled"} =>
                \/ tasks'[t].state \in {"Created", "Cancelled"}
                \/ calls[t][Submit].pc = "idle"
      BY <2>1, <2>2, <2>3 DEF Cancellable
    <2> QED  BY <2>1, <2>4, CallIds DEF Remembered
  <1>4. CASE ResumePaused(t)
    <2>1. Transition(t, Resume, Idle, "Planning") /\ process = "up" /\ process' = "up"
          /\ disk' = disk /\ acked' = acked /\ queue' = queue /\ tasks[t].state = "Paused"
      BY <1>4 DEF ResumePaused, store, admission
    <2>2. ran'[t] = IF CanMove(tasks[t], "Planning") THEN <<>> ELSE ran[t]
      BY <1>4 DEF ResumePaused, NewAttempt
    <2>3. "Planning" \in TaskState
      BY DEF TaskState
    <2> QED  BY <2>1, <2>2, <2>3, CallIds, CallTypes, TransitionRemembered
  <1>5. CASE RetryTask(t)
    <2> DEFINE k == Retry(tasks[t].retry_count + 1)
    <2>1. k \in CallId /\ k # Submit
      <3>1. tasks[t].retry_count \in Nat /\ tasks[t].retry_count < MaxRetries
        BY <1>1, <1>5 DEF RetryTask, CanMove, TaskRecord
      <3> QED  BY <3>1, RetryAssumption DEF CallId, Retry, Submit
    <2>2. Transition(t, k, Idle, "Retrying") /\ process = "up" /\ process' = "up"
          /\ disk' = disk /\ acked' = acked /\ queue' = queue /\ CanMove(tasks[t], "Retrying")
      BY <1>5 DEF RetryTask, store, admission
    <2>3. ran'[t] = <<>> /\ tasks[t].state # "Absent"
      BY <1>1, <1>5, <2>2 DEF RetryTask, TypeOK, CanMove, Successors
    <2>4. "Retrying" \in TaskState
      BY DEF TaskState
    <2> HIDE DEF k
    <2> QED  BY <2>1, <2>2, <2>3, <2>4, CallTypes, TransitionRemembered
  <1> QED  BY <1>2, <1>3, <1>4, <1>5 DEF UserStep

LEMMA CallStepRemembered ==
  ASSUME NEW t \in Task, NEW c \in CallId, RuntimeInv, AttemptOK(t), Traced(t), Remembered(t),
         CallStep(t, c) \/ CallFails(t, c)
  PROVE  Remembered(t)'
  <1> DEFINE old == calls[t][c]
  <1>1. /\ TypeOK /\ DrivenWell(t) /\ old \in Call /\ HasResults
        /\ tasks \in [Task -> TaskRecord] /\ calls \in [Task -> [CallId -> Call]]
        /\ disk \in [Task -> TaskRecord]
        /\ InStep(planned[t], ran[t], tasks[t].step_history, old)
    BY DEF RuntimeInv, TypeOK, AttemptOK
  <1>2. process = "up" /\ process' = "up" /\ acked' = acked /\ queue' = queue
    BY DEF CallStep, CallFails, PersistOk, RetryExecutes, PlanningPublished, PlanMade,
           PlanFails, ExecutingPublished, VerifyingPublished, NextEntry, LastEntry,
           OutcomePublished, Published, At, store, history, admission
  <1>3. ASSUME Drives(old)
        PROVE  c # Submit /\ tasks[t].state \in {"Planning", "Executing", "Verifying", "Cancelled"}
    <2>1. calls[t][Submit].pc # "idle" => Moving(calls[t][Submit], "Created")
      BY DEF Remembered
    <2>2. c # Submit
      BY <1>3, <2>1 DEF Drives, Moving
    <2> QED  BY <1>1, <1>3, <2>2, AdmittedStates DEF DrivenWell
  <1>4. CASE PersistOk(t, c)
    <2> DEFINE call == [old EXCEPT !.pc = "publish"]
    <2>1. old.pc = "persist" /\ disk'[t] = old.rec /\ tasks' = tasks /\ ran' = ran
          /\ \A d \in CallId : calls'[t][d] = IF d = c THEN call ELSE calls[t][d]
      BY <1>1, <1>4 DEF PersistOk, At, SetCall, history
    <2>2. call.pc = "publish" /\ call.rec = old.rec
      BY <1>1 DEF Call
    <2>3. tasks[t].state # "Absent"
      BY <2>1 DEF Traced, Holding
    <2> HIDE DEF call
    <2>4. Stored(old) /\ ~Stored(call) /\ \A s : Moving(call, s) <=> Moving(old, s)
      BY <2>1, <2>2 DEF Stored, Moving
    <2>5. c = Submit => /\ Moving(call, "Created") /\ tasks[t].state \in {"Created", "Cancelled"}
                        /\ t \notin acked /\ t \notin queue
      BY <2>1, <2>4 DEF Remembered
    <2>6. (Moving(call, "Created") => c = Submit) /\ ~Moving(call, "Paused")
          /\ (Moving(call, "Retrying") => tasks[t].state = "Retrying")
      BY <2>4 DEF Remembered
    <2>7. "Executing" \notin Before
      BY DEF Before
    <2> QED  BY <1>2, <2>1, <2>2, <2>3, <2>4, <2>5, <2>6, <2>7, RememberedMoves
  <1>5. CASE RetryExecutes(t, c)
    <2>1. Transition(t, c, Idle, "Planning") /\ disk' = disk /\ Moving(old, "Retrying")
      BY <1>5 DEF RetryExecutes, Published, At, store, Moving
    <2>2. ran'[t] = IF CanMove(tasks[t], "Planning") THEN <<>> ELSE ran[t]
      BY <1>5 DEF RetryExecutes, NewAttempt
    <2>3. tasks[t].state = "Retrying" /\ "Planning" \in TaskState
      BY <2>1 DEF Remembered, TaskState
    <2>4. c # Submit
      <3>1. calls[t][Submit].pc # "idle" => Moving(calls[t][Submit], "Created")
        BY DEF Remembered
      <3> QED  BY <2>1, <3>1 DEF Moving
    <2> QED  BY <1>2, <2>1, <2>2, <2>3, <2>4, CallTypes, TransitionRemembered
  <1>6. CASE PlanningPublished(t, c)
    <2> DEFINE call == [old EXCEPT !.pc = "plan"]
    <2>1. old.pc = "publish" /\ old.rec.state = "Planning" /\ disk' = disk /\ tasks' = tasks
          /\ ran' = ran
          /\ \A d \in CallId : calls'[t][d] = IF d = c THEN call ELSE calls[t][d]
      BY <1>1, <1>6 DEF PlanningPublished, Published, At, SetCall, history, store
    <2>2. call.pc = "plan"
      BY <1>1 DEF Call
    <2>3. Drives(old) /\ tasks[t].state # "Absent"
      BY <1>3, <2>1 DEF Drives
    <2> HIDE DEF call
    <2>4. ~Stored(call) /\ \A s : ~Moving(call, s)
      BY <2>2 DEF Stored, Moving
    <2> QED  BY <1>2, <1>3, <2>1, <2>2, <2>3, <2>4, RememberedMoves
  <1>7. ASSUME NEW n \in 1 .. MaxSteps, PlanMade(t, c, n) PROVE Remembered(t)'
    <2> DEFINE call == [Idle EXCEPT !.left = n]
    <2>1. n \in Nat
      BY RuntimeAssumption
    <2>2. call \in Call
      BY <2>1, CallTypes DEF Call
    <2>3. Transition(t, c, call, "Executing") /\ old.pc = "plan" /\ disk' = disk /\ ran' = ran
      BY <1>7 DEF PlanMade, At, store
    <2>4. Drives(old) /\ "Executing" \in TaskState
      BY <2>3 DEF Drives, TaskState
    <2>5. tasks[t].state # "Absent"
      BY <1>3, <2>4
    <2> HIDE DEF call
    <2> QED  BY <1>2, <2>2, <2>3, <2>4, <2>5, TransitionRemembered
  <1>8. CASE PlanFails(t, c)
    <2>1. FailAttempt(t, c) /\ old.pc = "plan" /\ disk' = disk /\ ran' = ran
      BY <1>8 DEF PlanFails, At, store
    <2>2. Drives(old) /\ ran[t] = <<>>
      BY <1>1, <2>1 DEF Drives, InStep
    <2> QED  BY <1>2, <2>1, <2>2, FailAttemptRemembered
  <1>9. CASE ExecutingPublished(t, c)
    <2> DEFINE call == [old EXCEPT !.pc = "tool"]
    <2>1. old.pc = "publish" /\ old.rec.state = "Executing" /\ disk' = disk /\ tasks' = tasks
          /\ \A d \in CallId : calls'[t][d] = IF d = c THEN call ELSE calls[t][d]
      BY <1>1, <1>9 DEF ExecutingPublished, Published, At, SetCall, store
    <2>2. call.pc = "tool"
      BY <1>1 DEF Call
    <2>3. Drives(old) /\ tasks[t].state # "Absent"
      BY <1>3, <2>1 DEF Drives
    <2> HIDE DEF call
    <2>4. ~Stored(call) /\ \A s : ~Moving(call, s)
      BY <2>2 DEF Stored, Moving
    <2> QED  BY <1>2, <1>3, <2>1, <2>2, <2>3, <2>4, RememberedMoves
  <1>10. CASE VerifyingPublished(t, c)
    <2> DEFINE verdicts == [i \in 1 .. Len(old.results) |-> VerdictOf(old.results[i])]
               call == [Idle EXCEPT !.entries = verdicts, !.target = OutcomeOf(verdicts)]
    <2>1. old.pc = "publish" /\ old.rec.state = "Verifying" /\ AppendEntry(t, c, call)
          /\ disk' = disk /\ ran' = ran
      BY <1>10 DEF VerifyingPublished, Published, At, store
    <2>2. Drives(old) /\ old.results # <<>> /\ old.results \in Seq(ToolResult)
      BY <1>1, <2>1 DEF Drives, HasResults, Call
    <2>3. call \in Call /\ call.entries # <<>>
      BY <2>2, VerdictsToAppend
    <2>4. tasks[t].state # "Planning"
      BY <1>1, <2>1, <2>2 DEF DrivenWell, Admits
    <2> HIDE DEF call
    <2> QED  BY <1>2, <2>1, <2>2, <2>3, <2>4, AppendEntryRemembered
  <1>11. CASE NextEntry(t, c)
    <2>1. old.pc = "history" /\ old.entries # <<>> /\ AppendEntry(t, c, old) /\ ran' = ran
          /\ Drives(old) /\ Stored(old)
      BY <1>11 DEF NextEntry, At, Drives, Stored
    <2>2. disk'[t] = old.rec
      BY <1>1, <1>11 DEF NextEntry
    <2>3. tasks[t].state = "Planning" => ran[t] = <<>>
      BY <2>1 DEF Remembered
    <2> QED  BY <1>1, <1>2, <2>1, <2>2, <2>3, AppendEntryRemembered
  <1>12. CASE LastEntry(t, c)
    <2>1. old.pc = "history" /\ Transition(t, c, Idle, old.target) /\ ran' = ran
          /\ Drives(old) /\ Stored(old)
      BY <1>12 DEF LastEntry, At, Drives, Stored
    <2>2. disk'[t] = old.rec
      BY <1>1, <1>12 DEF LastEntry
    <2>3. old.target \in Outcome /\ old.target \in TaskState
          /\ old.target \notin {"Planning", "Retrying"}
      BY <1>1 DEF Call, Outcome, TaskState
    <2>4. tasks[t].state # "Absent"
      BY <1>3, <2>1
    <2> QED  BY <1>2, <2>1, <2>2, <2>3, <2>4, CallTypes, TransitionRemembered
  <1>13. CASE OutcomePublished(t, c) \/ CallFails(t, c)
    <2>1. disk' = disk /\ tasks' = tasks /\ ran' = ran
          /\ \A d \in CallId : calls'[t][d] = IF d = c THEN Ended(c) ELSE calls[t][d]
      BY <1>1, <1>13 DEF OutcomePublished, CallFails, SetCall, history, store
    <2>2. old.pc \in {"persist", "publish", "plan", "history"}
      BY <1>13 DEF OutcomePublished, CallFails, Published, At
    <2>3. tasks[t].state # "Absent"
      BY <1>3, <2>2 DEF Traced, Holding, Drives
    <2> QED  BY <1>2, <2>1, <2>3, EndedRemembered
  <1> QED  BY <1>4, <1>5, <1>6, <1>7, <1>8, <1>9, <1>10, <1>11, <1>12, <1>13 DEF CallStep

LEMMA ToolStepRemembered ==
  ASSUME NEW t \in Task, NEW c \in CallId, RuntimeInv, AttemptOK(t), Traced(t), Remembered(t),
         ToolStep(t, c)
  PROVE  Remembered(t)'
  <1> DEFINE old == calls[t][c]
  <1>1. /\ TypeOK /\ DrivenWell(t) /\ old \in Call
        /\ tasks \in [Task -> TaskRecord] /\ calls \in [Task -> [CallId -> Call]]
        /\ InStep(planned[t], ran[t], tasks[t].step_history, old)
        /\ ran[t] \in Seq(ToolResult \cup {"started"}) /\ old.results \in Seq(ToolResult)
    BY DEF RuntimeInv, TypeOK, AttemptOK, Call
  <1>2. process = "up" /\ process' = "up" /\ acked' = acked /\ queue' = queue /\ disk' = disk
        /\ old.pc = "tool" /\ Drives(old)
    BY DEF ToolStep, StepReturns, LastStepReturns, StepFails, At, store, admission, Drives
  <1>3. c # Submit /\ tasks[t].state = "Executing"
    <2>1. calls[t][Submit].pc # "idle" => Moving(calls[t][Submit], "Created")
      BY DEF Remembered
    <2> QED  BY <1>1, <1>2, <2>1 DEF Moving, DrivenWell, Admits
  <1>4. ran[t] # <<>>
    <2>1. Len(ran[t]) = Len(old.results) + 1 /\ Len(old.results) \in Nat
      BY <1>1, <1>2 DEF InStep
    <2>2. Len(ran[t]) # 0
      BY <2>1
    <2> QED  BY <2>2
  <1>5. ASSUME NEW result \in ToolResult, StepReturns(t, c, result) PROVE Remembered(t)'
    <2> DEFINE call == [old EXCEPT !.left = @ - 1, !.results = Append(@, result)]
    <2>1. tasks' = tasks
          /\ \A d \in CallId : calls'[t][d] = IF d = c THEN call ELSE calls[t][d]
      BY <1>1, <1>5 DEF StepReturns, SetCall
    <2>2. call.pc = "tool"
      BY <1>1, <1>2 DEF Call
    <2> HIDE DEF call
    <2>3. ~Stored(call) /\ \A s : ~Moving(call, s)
      BY <2>2 DEF Stored, Moving
    <2> QED  BY <1>2, <1>3, <1>4, <2>1, <2>2, <2>3, RememberedMoves
  <1>6. ASSUME NEW result \in ToolResult, LastStepReturns(t, c, result) PROVE Remembered(t)'
    <2> DEFINE call == [old EXCEPT !.left = 0, !.results = Append(@, result)]
    <2>1. Transition(t, c, call, "Verifying")
      BY <1>6 DEF LastStepReturns
    <2>2. call \in Call
      <3>1. Append(old.results, result) \in Seq(ToolResult)
        <4> HIDE DEF old
        <4> QED  BY <1>1
      <3> QED  BY <1>1, <3>1 DEF Call
    <2>3. "Verifying" \in TaskState
      BY DEF TaskState
    <2> HIDE DEF call
    <2> QED  BY <1>2, <1>3, <1>4, <2>1, <2>2, <2>3, TransitionRemembered
  <1>7. CASE StepFails(t, c)
    <2>1. FailAttempt(t, c) /\ ran' = ran
      BY <1>7 DEF StepFails
    <2> QED  BY <1>2, <1>3, <2>1, FailAttemptRemembered
  <1> QED  BY <1>5, <1>6, <1>7 DEF ToolStep

\* The executions that the scheduler starts: of tasks that were queued, or of
\* the task whose submission returns.
LEMMA StartRunsRemembered ==
  ASSUME NEW S \in SUBSET Task, NEW t \in Task, NEW c \in {Submit, Run}, NEW u \in Task,
         RuntimeInv, Traced(u), Remembered(u), StartRuns(S, t, c), NewAttempt(S),
         process = "up", process' = "up", disk' = disk,
         u \in S => u \notin queue',
         u \in S \cup queue' =>
             u \in queue \/ (u = t /\ c = Submit /\ calls[t][Submit].pc # "idle"),
         u \in acked' => u \in acked \/ (u = t /\ c = Submit)
  PROVE  Remembered(u)'
  <1>1. TypeOK /\ DrivenWell(u) /\ tasks[u] \in TaskRecord
    BY DEF RuntimeInv, TypeOK
  <1>2. \A d \in CallId :
           calls'[u][d] = IF u \in S /\ d = Run THEN Executed(Run, tasks[u])
                          ELSE IF u = t /\ d = c THEN Idle ELSE calls[u][d]
    BY DEF StartRuns
  <1>3. Idle.pc = "idle" /\ Ended(Run).pc = "return"
    BY DEF Idle, Ended
  <1>4. ~Stored(Idle) /\ ~Stored(Ended(Run))
        /\ \A s : ~Moving(Idle, s) /\ ~Moving(Ended(Run), s)
    BY <1>3 DEF Stored, Moving
  <1>5. Submit \in CallId /\ Run \in CallId /\ Submit # Run
    BY CallIds
  <1>6. u \in S \cup queue' =>
           /\ tasks[u].state \in {"Created", "Cancelled"}
           /\ calls'[u][Submit].pc = "idle"
    BY <1>2, <1>3, <1>5 DEF Remembered
  <1>7. CASE u \in S /\ CanMove(tasks[u], "Planning")
    <2> DEFINE call == Executed(Run, tasks[u])
    <2>1. tasks'[u] = Moved(tasks[u], "Planning") /\ ran'[u] = <<>> /\ u \notin queue'
      BY <1>7 DEF StartRuns, NewAttempt
    <2>2. tasks'[u].state = "Planning" /\ call.pc = "persist" /\ call.rec.state = "Planning"
      <3>1. Moved(tasks[u], "Planning").state = "Planning"
        BY <1>1, RecordStates DEF ShownState, TaskState
      <3> QED  BY <1>7, <2>1, <3>1 DEF Executed, Idle
    <2>3. tasks[u].state = "Created"
      BY <1>6, <1>7 DEF CanMove, Successors
    <2>4. \A d \in CallId : ~Drives(calls[u][d])
      BY <1>1, <1>7, BeginningStates, NobodyDrives
    <2> HIDE DEF call
    <2>5. \A d \in CallId : calls'[u][d] = IF d = Run THEN call ELSE
             IF u = t /\ d = c THEN Idle ELSE calls[u][d]
      BY <1>2, <1>7 DEF call
    <2>6. \A s : Moving(call, s) <=> s = "Planning"
      BY <2>2 DEF Moving
    <2>7. ASSUME NEW d \in CallId
          PROVE  /\ ~(calls'[u][d].pc = "publish" /\ calls'[u][d].rec.state = "Executing")
                 /\ Moving(calls'[u][d], "Created") => d = Submit
                 /\ ~Moving(calls'[u][d], "Paused")
                 /\ ~Moving(calls'[u][d], "Retrying")
      <3>1. CASE d = Run
        BY <2>2, <2>5, <2>6, <3>1
      <3>2. CASE d # Run
        <4>1. calls'[u][d] \in {Idle, calls[u][d]}
          BY <2>5, <3>2
        <4>2. ~Moving(calls[u][d], "Retrying")
          BY <2>3 DEF Remembered
        <4>3. ~(calls[u][d].pc = "publish" /\ calls[u][d].rec.state = "Executing")
          BY <2>4 DEF Drives
        <4> QED  BY <1>3, <1>4, <4>1, <4>2, <4>3 DEF Remembered
      <3> QED  BY <3>1, <3>2
    <2> QED  BY <1>5, <1>6, <1>7, <2>1, <2>2, <2>7 DEF Remembered
  <1>8. CASE ~(u \in S /\ CanMove(tasks[u], "Planning"))
    <2>1. tasks'[u] = tasks[u] /\ ran'[u] = ran[u]
      BY <1>8 DEF StartRuns, NewAttempt
    <2>2. \A d \in CallId : calls'[u][d] \in {calls[u][d], Idle, Ended(Run)}
      BY <1>2, <1>8 DEF Executed
    <2>3. calls'[u][Submit].pc # "idle" =>
             /\ calls'[u][Submit] = calls[u][Submit] /\ ~(u = t /\ c = Submit)
             /\ u \notin queue'
      BY <1>2, <1>3, <1>5, <1>6
    <2>4. calls'[u][Submit].pc # "idle" =>
             /\ Moving(calls'[u][Submit], "Created")
             /\ tasks'[u].state \in {"Created", "Cancelled"}
             /\ u \notin acked' /\ u \notin queue'
      BY <2>1, <2>3 DEF Remembered
    <2>5. \A d \in CallId : Moving(calls'[u][d], "Retrying") =>
             Moving(calls[u][d], "Retrying")
      BY <1>4, <2>2
    <2> QED  BY <1>3, <1>4, <1>6, <2>1, <2>2, <2>4, <2>5 DEF Remembered
  <1> QED  BY <1>7, <1>8

LEMMA SchedulerStepRemembered ==
  ASSUME NEW t \in Task, NEW u \in Task, RuntimeInv, Traced(u), Remembered(u), SchedulerStep(t)
  PROVE  Remembered(u)'
  <1>1. ASSUME NEW S \in SUBSET Task, SubmitReturns(t, S) PROVE Remembered(u)'
    <2>1. /\ process = "up" /\ process' = "up" /\ disk' = disk /\ StartRuns(S, t, Submit)
          /\ NewAttempt(S) /\ acked' = acked \cup {t} /\ calls[t][Submit].pc = "publish"
      BY <1>1 DEF SubmitReturns, Published, At, store
    <2>2. queue' = Enqueued(t) \ S /\ S \subseteq Enqueued(t)
      BY <1>1 DEF SubmitReturns, EnqueueAndDispatch, Fills
    <2>3. Enqueued(t) \subseteq queue \cup {t}
      BY DEF Enqueued
    <2> QED  BY <2>1, <2>2, <2>3, StartRunsRemembered
  <1>2. ASSUME NEW S \in SUBSET Task, RunFinally(t, S) PROVE Remembered(u)'
    <2>1. /\ process = "up" /\ process' = "up" /\ disk' = disk /\ StartRuns(S, t, Run)
          /\ NewAttempt(S) /\ acked' = acked
      BY <1>2 DEF RunFinally, At, store
    <2>2. queue' = queue \ S /\ S \subseteq queue
      BY <1>2 DEF RunFinally, Finally, Fills
    <2> QED  BY <2>1, <2>2, StartRunsRemembered
  <1> QED  BY <1>1, <1>2 DEF SchedulerStep

\* A start, a failing start and a crash.  Nothing is queued while the process
\* is not up, and every checkpoint is loaded before it is.
LEMMA ProcessStepRemembered ==
  ASSUME NEW u \in Task, RuntimeInv, Remembered(u), StartStep \/ StartFails \/ Crash
  PROVE  Remembered(u)'
  <1>1. /\ TypeOK /\ NoCallWhileDown /\ disk[u] \in TaskRecord
        /\ disk \in [Task -> TaskRecord]
    BY DEF RuntimeInv, TypeOK
  <1>2. \A d \in CallId : calls'[u][d] = Idle
    BY <1>1 DEF NoCallWhileDown, StartStep, Start, RecoverTask, Restore, StartFails, Crash
  <1>3. ran' = ran
    BY DEF StartStep, Start, RecoverTask, Restore, StartFails, Crash, history
  <1>4. Idle.pc = "idle" /\ ~Stored(Idle) /\ \A s : ~Moving(Idle, s)
    BY DEF Idle, Stored, Moving
  <1>5. disk'[u] = disk[u] \/ (disk[u].state \notin Before /\ disk'[u].state = "Unverified")
    <2>1. ASSUME NEW v \in Task, RecoverTask(v)
          PROVE  disk'[u] = disk[u] \/ (disk[u].state \notin Before /\ disk'[u].state = "Unverified")
      <3>1. disk' = [disk EXCEPT ![v] = [disk[v] EXCEPT !.state = Recovered(disk[v].state)]]
            /\ Recovered(disk[v].state) # disk[v].state
        BY <1>1, <2>1 DEF RecoverTask
      <3>2. Recovered(disk[v].state) = "Unverified" /\ disk[v].state \notin Before
        BY <3>1 DEF Recovered, Before
      <3> QED  BY <1>1, <3>1, <3>2 DEF TaskRecord
    <2>2. CASE Start \/ Restore \/ StartFails \/ Crash
      BY <2>2 DEF Start, Restore, StartFails, Crash
    <2> QED  BY <2>1, <2>2 DEF StartStep
  <1>6. ran'[u] # <<>> => disk'[u].state \notin Before
    BY <1>3, <1>5 DEF Remembered, Before
  <1>7. process' = "up" => tasks'[u].state = disk'[u].state \/ tasks'[u].state # "Absent"
    <2>1. CASE Restore
      <3>1. tasks'[u] = [disk[u] EXCEPT !.state = Recovered(disk[u].state)] /\ disk'[u] = disk[u]
            /\ Recovered(disk[u].state) = disk[u].state
        BY <2>1 DEF Restore
      <3> QED  BY <1>1, <3>1 DEF TaskRecord
    <2>2. CASE ~Restore
      BY <2>2 DEF StartStep, Start, RecoverTask, StartFails, Crash
    <2> QED  BY <2>1, <2>2
  <1>8. (process' # "up" => tasks'[u].state = "Absent") /\ u \notin queue'
    <2>1. CASE Crash
      BY <2>1, RecordStates DEF Crash
    <2>2. CASE ~Crash
      <3>1. process # "up" /\ queue' = queue
        BY <2>2 DEF StartStep, Start, RecoverTask, Restore, StartFails, admission
      <3>2. tasks[u].state = "Absent" /\ u \notin queue
        BY <3>1 DEF Remembered
      <3>3. CASE Restore
        BY <3>1, <3>2, <3>3 DEF Restore
      <3>4. CASE ~Restore
        <4>1. tasks' = tasks
          BY <2>2, <3>4 DEF StartStep, Start, RecoverTask, StartFails
        <4> QED  BY <3>1, <3>2, <4>1
      <3> QED  BY <3>3, <3>4
    <2> QED  BY <2>1, <2>2
  <1>9. Submit \in CallId
    BY CallIds
  <1> QED  BY <1>2, <1>4, <1>6, <1>7, <1>8, <1>9 DEF Remembered

LEMMA EarlyGrows ==
  ASSUME [Next]_vars
  PROVE  early \subseteq early'
  <1>1. ASSUME NEW t \in Task, UserStep(t) PROVE early \subseteq early'
    BY <1>1 DEF UserStep, SubmitTask, CancelTask, PauseTask, ResumePaused, RetryTask
  <1>2. ASSUME NEW t \in Task, SchedulerStep(t) PROVE early \subseteq early'
    BY <1>2 DEF SchedulerStep, SubmitReturns, RunFinally
  <1>3. ASSUME NEW t \in Task, NEW c \in CallId, CallStep(t, c) \/ ToolStep(t, c) \/ CallFails(t, c)
        PROVE  early \subseteq early'
    BY <1>3 DEF CallStep, PersistOk, RetryExecutes, PlanningPublished, PlanMade, PlanFails,
                ExecutingPublished, VerifyingPublished, NextEntry, LastEntry, OutcomePublished,
                ToolStep, StepReturns, LastStepReturns, StepFails, CallFails, history
  <1>4. CASE StartStep \/ StartFails \/ Crash
    BY <1>4 DEF StartStep, Start, RecoverTask, Restore, StartFails, Crash, history
  <1>5. CASE UNCHANGED vars
    BY <1>5 DEF vars
  <1> QED  BY <1>1, <1>2, <1>3, <1>4, <1>5 DEF Next

THEOREM RememberedInvariant == Spec => []RememberedInv
  <1>1. Init => RememberedInv
    <2> SUFFICES ASSUME Init, NEW t \in Task PROVE Remembered(t)
      BY DEF RememberedInv
    <2>1. \A c \in CallId : calls[t][c] = Idle
      BY DEF Init
    <2>2. tasks[t].state = "Absent" /\ disk[t].state = "Absent" /\ ran[t] = <<>>
          /\ process = "down" /\ t \notin queue
      BY RecordStates DEF Init, AdmissionInit
    <2>3. Idle.pc = "idle" /\ ~Stored(Idle) /\ \A s : ~Moving(Idle, s)
      BY DEF Idle, Stored, Moving
    <2> QED  BY <2>1, <2>2, <2>3, CallIds DEF Remembered
  <1>2. RuntimeInv /\ AttemptInv /\ TraceInv /\ RememberedInv /\ [Next]_vars => RememberedInv'
    <2> SUFFICES ASSUME RuntimeInv, AttemptInv, TraceInv, RememberedInv, [Next]_vars,
                        NEW u \in Task, u \notin early'
                 PROVE  Remembered(u)'
      BY DEF RememberedInv
    <2>1. AttemptOK(u) /\ TypeOK /\ Traced(u) /\ Remembered(u)
      BY EarlyGrows DEF AttemptInv, RuntimeInv, TraceInv, RememberedInv
    <2>2. ASSUME NEW t \in Task,
                 UserStep(t) \/ \E c \in CallId : CallStep(t, c) \/ ToolStep(t, c) \/ CallFails(t, c)
          PROVE  Remembered(u)'
      <3>1. CASE u = t
        BY <2>1, <2>2, <3>1, UserStepRemembered, CallStepRemembered, ToolStepRemembered
      <3>2. CASE u # t
        BY <2>1, <2>2, <3>2, OthersUntouched, RememberedStays
      <3> QED  BY <3>1, <3>2
    <2>3. ASSUME NEW t \in Task, SchedulerStep(t) PROVE Remembered(u)'
      BY <2>1, <2>3, SchedulerStepRemembered
    <2>4. CASE StartStep \/ StartFails \/ Crash
      BY <2>1, <2>4, ProcessStepRemembered
    <2>5. CASE UNCHANGED vars
      BY <2>1, <2>5, RememberedStays DEF vars, Same, admission
    <2> QED  BY <2>2, <2>3, <2>4, <2>5 DEF Next
  <1> QED  BY <1>1, <1>2, RuntimeInvariant, AttemptInvariant, TraceInvariant, PTL DEF Spec

\* Once a tool was started for a task no crash can make the task look as if it
\* had not begun, for every plan, number of retries and order in which appends
\* commit, unless the task was paused while its submission was going on.
THEOREM ToolRunsAreNotForgotten == Spec => []ToolRunIsNeverForgotten
  <1>1. RememberedInv => ToolRunIsNeverForgotten
    BY DEF RememberedInv, Remembered, ToolRunIsNeverForgotten, Before
  <1> QED  BY <1>1, RememberedInvariant, PTL
============================================================================
