----------------------------- MODULE DeviceSync -----------------------------
(***************************************************************************)
(* Replicas of one record on several devices: CrossDeviceSyncManager       *)
(* (services/runtime/src/cross-device-sync.ts) on each of them, and the    *)
(* relay behind its transport, which keeps a log of what was pushed and    *)
(* answers a pull with any stretch of it that follows the position asked   *)
(* for.  Calls of sync() and of flush() overlap, are answered in any       *)
(* order, and fail before or after the relay has done its part.            *)
(*                                                                         *)
(* A change is what Change says of it: its device, logical clock, category *)
(* (by its priority), partition, and the fields it sets.  An identifier is *)
(* used for one change.  Encryption, malformed envelopes and the record's  *)
(* history are left out; the state is in memory, a restart is not here.    *)
(***************************************************************************)
EXTENDS Integers, Sequences, SequencesExt, Functions, FiniteSets

CONSTANTS
    Device,
    Field,
    Change,        \* identifier -> [by, clock, priority, partition, fields]
    Granted,       \* device -> granted_partitions
    MaxOverlap,    \* bound on the calls of sync, and of flush, of a device
    MaxSuspended,  \* bound on the calls that are suspended on all of them
    MaxLog         \* bound on the length of the relay's log

ASSUME ClocksAreNatural == \A c \in DOMAIN Change : Change[c].clock \in Nat

VARIABLES
    records,       \* device -> field -> [clock, value]: fieldClocks and fields
    checkpoint,    \* device -> position in the log
    applied,       \* device -> appliedOrder, whose elements are `applied`
    pending,       \* device -> pending, a Map in insertion order
    pulls,         \* device -> call -> the position it asked for and the answer
    pushes,        \* device -> call -> what it sends, and whether it was stored
    log,           \* the relay
    made           \* the local changes made so far

replica == <<records, checkpoint, applied>>
vars == <<replica, pending, pulls, pushes, log, made>>

Call == 1..MaxOverlap
NoPull == [since |-> -1, next |-> -1]
NoPush == [changes |-> <<>>, stored |-> FALSE]
Pulling == {p \in Device \X Call : pulls[p[1]][p[2]] # NoPull}
Pushing == {p \in Device \X Call : pushes[p[1]][p[2]] # NoPush}
Suspended == Cardinality(Pulling) + Cardinality(Pushing)
Unset == [clock |-> -1, value |-> "undefined"]

Init ==
    /\ records = [d \in Device |-> [f \in Field |-> Unset]]
    /\ checkpoint = [d \in Device |-> 0]
    /\ applied = [d \in Device |-> <<>>]
    /\ pending = [d \in Device |-> <<>>]
    /\ pulls = [d \in Device |-> [k \in Call |-> NoPull]]
    /\ pushes = [d \in Device |-> [k \in Call |-> NoPush]]
    /\ log = <<>>
    /\ made = {}

----------------------------------------------------------------------------
(* apply(): the last writer wins, field by field. *)

Wins_Always(c, current) == TRUE
Wins(c, current) == Change[c].clock >= current.clock

Apply(record, c) ==
    [f \in Field |-> IF f \in Change[c].fields /\ Wins(c, record[f])
                     THEN [clock |-> Change[c].clock, value |-> c] ELSE record[f]]

\* One after the other, in the order of the batch.
ApplyAll(record, batch) ==
    LET after[n \in 0..Len(batch)] ==
            IF n = 0 THEN record ELSE Apply(after[n - 1], batch[n])
    IN  after[Len(batch)]

\* applyLocal()
ApplyLocal(d, c) ==
    /\ c \notin made /\ Change[c].by = d
    /\ made' = made \cup {c}
    /\ records' = [records EXCEPT ![d] = Apply(@, c)]
    /\ pending' = [pending EXCEPT ![d] = Append(@, c)]
    /\ UNCHANGED <<checkpoint, applied, pulls, pushes, log>>

----------------------------------------------------------------------------
(* sync().  *)

Since_OffByOne(d) == IF checkpoint[d] < Len(log) THEN checkpoint[d] + 1 ELSE checkpoint[d]
Since(d) == checkpoint[d]

Sync(d, k) ==
    /\ pulls[d][k] = NoPull /\ \A j \in 1..(k - 1) : pulls[d][j] # NoPull
    /\ Suspended < MaxSuspended
    /\ pulls' = [pulls EXCEPT ![d][k] = [since |-> Since(d), next |-> -1]]
    /\ UNCHANGED <<replica, pending, pushes, log, made>>

\* The relay answers up to a position of its choice.
PullAnswered(d, k) ==
    /\ pulls[d][k] # NoPull /\ pulls[d][k].next = -1
    /\ \E next \in pulls[d][k].since..Len(log) :
           pulls' = [pulls EXCEPT ![d][k].next = next]
    /\ UNCHANGED <<replica, pending, pushes, log, made>>

\* The order of the batch: category before clock, otherwise as it came.
Precedes(i, j) ==
    LET a == Change[log[i]]  b == Change[log[j]]
    IN  \/ a.priority < b.priority
        \/ a.priority = b.priority /\ a.clock < b.clock
        \/ a.priority = b.priority /\ a.clock = b.clock /\ i < j

\* A change whose identifier is among `applied` is skipped, also when the batch
\* itself has brought it before.
IsNew_Any(d, since, i) == TRUE
IsNew(d, since, i) ==
    /\ log[i] \notin ToSet(applied[d])
    /\ \A j \in (since + 1)..(i - 1) : log[j] # log[i]

New(d, answer) ==
    {i \in (answer.since + 1)..answer.next :
        Change[log[i]].partition \in Granted[d] /\ IsNew(d, answer.since, i)}

\* The batches that hold what is new in that order: there is one.
Batches(d, answer) ==
    {[n \in 1..Cardinality(New(d, answer)) |-> log[order[n]]] :
        order \in {o \in Bijection(1..Cardinality(New(d, answer)), New(d, answer)) :
                       \A m, n \in DOMAIN o : m < n => Precedes(o[m], o[n])}}

Accepts_Any(d, answer) == TRUE
Accepts(d, answer) == answer.next >= checkpoint[d]

SyncReturns(d, k) ==
    LET answer == pulls[d][k]
    IN  /\ answer.next # -1 /\ Accepts(d, answer)
        /\ \E batch \in Batches(d, answer) :
               /\ records' = [records EXCEPT ![d] = ApplyAll(@, batch)]
               /\ applied' = [applied EXCEPT ![d] = @ \o batch]
        /\ checkpoint' = [checkpoint EXCEPT ![d] = answer.next]
        /\ pulls' = [pulls EXCEPT ![d][k] = NoPull]
        /\ UNCHANGED <<pending, pushes, log, made>>

\* The pull throws, or its answer is behind the checkpoint by now.
SyncFails(d, k) ==
    /\ pulls[d][k] # NoPull
    /\ pulls[d][k].next # -1 => ~Accepts(d, pulls[d][k])
    /\ pulls' = [pulls EXCEPT ![d][k] = NoPull]
    /\ UNCHANGED <<replica, pending, pushes, log, made>>

----------------------------------------------------------------------------
(* flush(): what was sent leaves the queue when the push has returned. *)

Flush(d, k) ==
    /\ pushes[d][k] = NoPush /\ \A j \in 1..(k - 1) : pushes[d][j] # NoPush
    /\ pending[d] # <<>>
    /\ Suspended < MaxSuspended
    /\ pushes' = [pushes EXCEPT ![d][k] = [changes |-> pending[d], stored |-> FALSE]]
    /\ UNCHANGED <<replica, pending, pulls, log, made>>

PushStored(d, k) ==
    /\ pushes[d][k] # NoPush /\ ~pushes[d][k].stored
    /\ Len(log) + Len(pushes[d][k].changes) =< MaxLog
    /\ log' = log \o pushes[d][k].changes
    /\ pushes' = [pushes EXCEPT ![d][k].stored = TRUE]
    /\ UNCHANGED <<replica, pending, pulls, made>>

Unsent_None(d, sent) == <<>>
Unsent(d, sent) ==
    LET kept[n \in 0..Len(pending[d])] ==
            IF n = 0 THEN <<>>
            ELSE IF pending[d][n] \in ToSet(sent) THEN kept[n - 1]
            ELSE Append(kept[n - 1], pending[d][n])
    IN  kept[Len(pending[d])]

FlushReturns(d, k) ==
    /\ pushes[d][k].stored
    /\ pending' = [pending EXCEPT ![d] = Unsent(d, pushes[d][k].changes)]
    /\ pushes' = [pushes EXCEPT ![d][k] = NoPush]
    /\ UNCHANGED <<replica, pulls, log, made>>

\* The push throws, whether or not the relay has stored the changes.
FlushFails(d, k) ==
    /\ pushes[d][k] # NoPush
    /\ pushes' = [pushes EXCEPT ![d][k] = NoPush]
    /\ UNCHANGED <<replica, pending, pulls, log, made>>

Next == \E d \in Device :
    \/ \E c \in DOMAIN Change : ApplyLocal(d, c)
    \/ \E k \in Call :
           \/ Sync(d, k) \/ PullAnswered(d, k) \/ SyncReturns(d, k) \/ SyncFails(d, k)
           \/ Flush(d, k) \/ PushStored(d, k) \/ FlushReturns(d, k) \/ FlushFails(d, k)

Spec == Init /\ [][Next]_vars

----------------------------------------------------------------------------
\* Types; and a device that has heard of a change has heard of one that was made.
TypeOK ==
    \A d \in Device :
        /\ checkpoint[d] \in 0..Len(log)
        /\ ToSet(applied[d]) \subseteq ToSet(log) /\ ToSet(log) \subseteq made
        /\ ToSet(pending[d]) \subseteq {c \in made : Change[c].by = d}

\* The checkpoint never runs ahead of what was applied, however the answers to
\* overlapping calls of sync() are ordered: what a device is granted and the log
\* holds up to its checkpoint, it has applied.
NothingSkipped ==
    \A d \in Device : \A i \in 1..checkpoint[d] :
        Change[log[i]].partition \in Granted[d] => Contains(applied[d], log[i])

\* A change that is pushed again after a push that failed, or that two calls of
\* flush() or of sync() bring twice, is applied once, and the answer that comes last
\* does not set the checkpoint back.
AppliedOnce ==
    [][\A d \in Device : /\ checkpoint'[d] >= checkpoint[d]
                         /\ IsInjective(applied'[d])]_vars

\* A local change stays in the queue until the relay has it, also if it was made
\* while a push was going on.
NothingLost ==
    \A c \in made : Contains(pending[Change[c].by], c) \/ Contains(log, c)

\* Devices that are granted everything and have applied the whole log, with nothing
\* of their own left to push, agree on every field that was not set by two changes
\* with the same clock, whatever order they have seen the changes in.
UpToDate(d) ==
    /\ {Change[c].partition : c \in made} \subseteq Granted[d]
    /\ made \subseteq ToSet(log) /\ checkpoint[d] = Len(log)
TiedOn(f) ==
    \E c, e \in made : c # e /\ Change[c].clock = Change[e].clock
                             /\ f \in Change[c].fields \cap Change[e].fields
Converged ==
    \A d, e \in Device : UpToDate(d) /\ UpToDate(e) =>
        \A f \in Field : ~TiedOn(f) => records[d][f] = records[e][f]
=============================================================================
