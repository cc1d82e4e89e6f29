----------------------------- MODULE Observers -----------------------------
(***************************************************************************)
(* The observers of services/observers/src and what                        *)
(* services/runtime/src/runtime-application.ts does with them: a change of *)
(* a permission reconciles the observers one after the other, which starts *)
(* and stops the native bridges they listen to.                            *)
(*                                                                         *)
(* Calls of the runtime overlap at the awaits that wait for a bridge, and  *)
(* so do the events that come in meanwhile; between two such awaits a call *)
(* is not interrupted (Turn).  What an event holds is abstracted to the    *)
(* number of times its observer had purged its events when it was          *)
(* captured; those of the keyboard, the mouse and the windows go to the    *)
(* bus at once and change nothing here.  An observer of several sources    *)
(* (windows and applications) is granted when all of them are.             *)
(***************************************************************************)
EXTENDS Integers, Sequences, FiniteSets

CONSTANTS
    Order,         \* the observers, as syncObservers() goes through them
    Caller,        \* requests that may be open at a time
    MaxRequests,   \* bound on the changes of permissions
    MaxStarts      \* bound on the processes one bridge spawns

\* What distinguishes the native bridges.
StopWaits == {"keyboard", "mouse"}
StartWaits == {"clipboard", "notifications", "windows"}
\* The observers that keep their events in a map until flush().
Buffered == {"clipboard", "notifications"}

Observer == {Order[i] : i \in DOMAIN Order}
Process == 1 .. MaxStarts
None == 0

ASSUME OrderAssumption ==
    /\ Order \in Seq(Observer)
    /\ Observer \subseteq StopWaits \cup StartWaits \cup {"browser"}
    /\ MaxStarts \in Nat

VARIABLES
    granted,     \* the observers whose permissions are granted
    state,       \* currentState of each
    child,       \* the process its bridge knows of
    listening,   \* processes that run and whose lines are read
    closing,     \* processes a stop() waits for
    rejecting,   \* those of them that an event that was not permitted stopped
    started,     \* processes spawned so far
    pending,     \* events kept for flush()
    batch,       \* events taken for the bus
    purges,      \* times the observer has purged its events
    call,        \* the updatePermission of each caller
    requests,
    reconciled   \* the request that changed a permission last has succeeded

bridges == <<child, listening, closing, rejecting, started>>
events == <<pending, batch, purges>>
observers == <<state, bridges, events>>
vars == <<granted, observers, call, requests, reconciled>>

NoCall == [at |-> "idle", next |-> 1, process |-> None, newest |-> FALSE]
Call == [at : {"idle", "sync", "starting", "stopping"}, next : 1 .. Len(Order) + 1,
         process : Process \cup {None}, newest : BOOLEAN]

Init ==
    /\ granted = {}
    /\ state = [o \in Observer |-> "Disabled"]
    /\ child = [o \in Observer |-> None]
    /\ listening = {} /\ closing = {} /\ rejecting = {}
    /\ started = [o \in Observer |-> 0]
    /\ pending = [o \in Observer |-> {}]
    /\ batch = [o \in Observer |-> {}]
    /\ purges = [o \in Observer |-> 0]
    /\ call = [c \in Caller |-> NoCall]
    /\ requests = 0
    /\ reconciled = TRUE

----------------------------------------------------------------------------
(* What a call does next.                                                  *)
At(c, at) == call[c].at = at
OnTo(c) == Order[call[c].next]
Proceed(c) == call' = [call EXCEPT ![c].at = "sync", ![c].next = @ + 1, ![c].process = None]
GiveUp(c) == call' = [call EXCEPT ![c] = NoCall]
WaitFor(c, at, p) == call' = [call EXCEPT ![c].at = at, ![c].process = p]

\* The event loop runs its next callback when no promise is left to continue.
Turn == \A c \in Caller : ~At(c, "sync")

\* updatePermission: the grant changes at once, then the observers are reconciled.
UpdatePermission(c, o) ==
    /\ Turn /\ At(c, "idle") /\ requests < MaxRequests
    /\ requests' = requests + 1
    /\ granted' = IF o \in granted THEN granted \ {o} ELSE granted \cup {o}
    /\ call' = [d \in Caller |-> IF d = c THEN [NoCall EXCEPT !.at = "sync", !.newest = TRUE]
                                          ELSE [call[d] EXCEPT !.newest = FALSE]]
    /\ reconciled' = FALSE
    /\ UNCHANGED observers

\* The end of syncObservers().
Synced(c) ==
    /\ At(c, "sync") /\ call[c].next > Len(Order)
    /\ GiveUp(c)
    /\ reconciled' = (reconciled \/ call[c].newest)
    /\ UNCHANGED <<granted, observers, requests>>

NeedsRevoking_Active(s) == s = "Active"
NeedsRevoking(s) == s # "Disabled"

\* An observer that is as it should be.
Skip(c) ==
    /\ At(c, "sync") /\ call[c].next <= Len(Order)
    /\ IF OnTo(c) \in granted THEN state[OnTo(c)] # "Disabled"
                               ELSE ~NeedsRevoking(state[OnTo(c)])
    /\ Proceed(c)
    /\ UNCHANGED <<granted, observers, requests, reconciled>>

----------------------------------------------------------------------------
(* enable()                                                                *)
Enables(c, o) ==
    /\ At(c, "sync") /\ call[c].next <= Len(Order) /\ OnTo(c) = o
    /\ o \in granted /\ state[o] = "Disabled"

Spawn(o) ==
    /\ child[o] = None /\ started[o] < MaxStarts
    /\ started' = [started EXCEPT ![o] = @ + 1]
    /\ child' = [child EXCEPT ![o] = started'[o]]
    /\ listening' = listening \cup {<<o, started'[o]>>}
    /\ UNCHANGED <<closing, rejecting>>

\* A bridge that waits for its process to be spawned.
StartSpawning(c, o) ==
    /\ o \in StartWaits /\ Enables(c, o) /\ Spawn(o)
    /\ state' = [state EXCEPT ![o] = "Enabling"]
    /\ WaitFor(c, "starting", started'[o])
    /\ UNCHANGED <<granted, events, requests, reconciled>>

\* One that does not wait.
StartAtOnce(c, o) ==
    /\ o \notin StartWaits /\ Enables(c, o) /\ Spawn(o)
    /\ state' = [state EXCEPT ![o] = "Active"]
    /\ Proceed(c)
    /\ UNCHANGED <<granted, events, requests, reconciled>>

\* One that throws: it is running already, or not on this platform.
StartThrows(c, o) ==
    /\ Enables(c, o)
    /\ state' = [state EXCEPT ![o] = "Failed"]
    /\ GiveUp(c)
    /\ UNCHANGED <<granted, bridges, events, requests, reconciled>>

Spawned(c) ==
    /\ Turn /\ At(c, "starting")
    /\ state' = [state EXCEPT ![OnTo(c)] = "Active"]
    /\ Proceed(c)
    /\ UNCHANGED <<granted, bridges, events, requests, reconciled>>

\* The child is not forgotten, so that only revoke() makes a new start possible.
NotSpawned(c) ==
    /\ Turn /\ At(c, "starting")
    /\ state' = [state EXCEPT ![OnTo(c)] = "Failed"]
    /\ listening' = listening \ {<<OnTo(c), call[c].process>>}
    /\ GiveUp(c)
    /\ UNCHANGED <<granted, child, closing, rejecting, started, events, requests, reconciled>>

----------------------------------------------------------------------------
(* bridge.stop() and revoke(): the bridge forgets its process at once.     *)
Known(o) == <<o, child[o]>>
StopHasToWait_Always(o) == o \in StopWaits
StopHasToWait(o) == o \in StopWaits /\ child[o] # None
Forget(o) ==
    /\ child' = [child EXCEPT ![o] = None]
    /\ listening' = listening \ {Known(o)}
    /\ UNCHANGED started

\* The continuation of a stop().
Purge_KeepsEvents(o) ==
    /\ pending' = pending
    /\ purges' = [purges EXCEPT ![o] = @ + 1]
Purge(o) ==
    /\ pending' = [pending EXCEPT ![o] = {}]
    /\ purges' = [purges EXCEPT ![o] = @ + 1]
Disable(o) == state' = [state EXCEPT ![o] = "Disabled"]

Revokes(c, o) ==
    /\ At(c, "sync") /\ call[c].next <= Len(Order) /\ OnTo(c) = o
    /\ o \notin granted /\ NeedsRevoking(state[o])

StopAndWait(c, o) ==
    /\ Revokes(c, o) /\ StopHasToWait(o)
    /\ Forget(o)
    /\ closing' = closing \cup {Known(o)}
    /\ WaitFor(c, "stopping", child[o])
    /\ UNCHANGED <<granted, state, rejecting, events, requests, reconciled>>

StopAtOnce(c, o) ==
    /\ Revokes(c, o) /\ ~StopHasToWait(o)
    /\ Forget(o) /\ Purge(o) /\ Disable(o)
    /\ Proceed(c)
    /\ UNCHANGED <<granted, closing, rejecting, batch, requests, reconciled>>

\* A process that was stopped has ended: its listeners, whose first one clears
\* child, whichever process that is by now, and whose last one lets stop() return.
Closed(o, p) ==
    /\ Turn /\ <<o, p>> \in closing
    /\ child' = [child EXCEPT ![o] = None]
    /\ closing' = closing \ {<<o, p>>}
    /\ rejecting' = rejecting \ {<<o, p>>}
    /\ Disable(o) /\ Purge(o)
    /\ IF <<o, p>> \in rejecting
       THEN UNCHANGED call
       ELSE \E c \in Caller : /\ At(c, "stopping") /\ OnTo(c) = o /\ call[c].process = p
                              /\ Proceed(c)
    /\ UNCHANGED <<granted, listening, started, batch, requests, reconciled>>

\* A process ends by itself.  The state stays Active.
ProcessDies(o, p) ==
    /\ Turn /\ <<o, p>> \in listening /\ o # "browser"
    /\ listening' = listening \ {<<o, p>>}
    /\ child' = IF o \in StopWaits THEN [child EXCEPT ![o] = None] ELSE child
    /\ UNCHANGED <<granted, state, closing, rejecting, started, events, call, requests, reconciled>>

----------------------------------------------------------------------------
(* capture(): what a line of a process, or a request of the extension, does. *)
Receives(o) == Turn /\ (o = "browser" \/ \E p \in Process : <<o, p>> \in listening)
Captures(o) == Receives(o) /\ o \in granted /\ state[o] = "Active"

\* ensureActiveAndPermitted() without the permission stops the bridge itself.
Rejected(o) == Receives(o) /\ o \notin granted /\ state[o] # "Disabled"

RejectAndWait(o) ==
    /\ Rejected(o) /\ StopHasToWait(o)
    /\ Forget(o)
    /\ closing' = closing \cup {Known(o)}
    /\ rejecting' = rejecting \cup {Known(o)}
    /\ UNCHANGED <<granted, state, events, call, requests, reconciled>>

RejectAtOnce(o) ==
    /\ Rejected(o) /\ ~StopHasToWait(o)
    /\ Forget(o) /\ Purge(o) /\ Disable(o)
    /\ UNCHANGED <<granted, closing, rejecting, batch, call, requests, reconciled>>

\* The clipboard and the notifications are kept until somebody calls flush().
Keep(o) ==
    /\ o \in Buffered /\ Captures(o)
    /\ pending' = [pending EXCEPT ![o] = @ \cup {purges[o]}]
    /\ UNCHANGED <<granted, state, bridges, batch, purges, call, requests, reconciled>>

\* captureAndPublish().
CaptureBrowser ==
    /\ "browser" \in Observer /\ Captures("browser")
    /\ batch' = [batch EXCEPT !["browser"] = @ \cup {purges["browser"]}]
    /\ UNCHANGED <<granted, state, bridges, pending, purges, call, requests, reconciled>>

Flush(o) ==
    /\ Turn /\ o \in Buffered /\ pending[o] # {}
    /\ pending' = [pending EXCEPT ![o] = {}]
    /\ batch' = IF state[o] = "Active" THEN [batch EXCEPT ![o] = @ \cup pending[o]] ELSE batch
    /\ UNCHANGED <<granted, state, bridges, purges, call, requests, reconciled>>

\* The bus has answered, or its error ends the batch.
Published(o) ==
    /\ Turn /\ batch[o] # {}
    /\ batch' = [batch EXCEPT ![o] = {}]
    /\ UNCHANGED <<granted, state, bridges, pending, purges, call, requests, reconciled>>

----------------------------------------------------------------------------
SyncStep(c) ==
    \/ Synced(c) \/ Skip(c) \/ Spawned(c) \/ NotSpawned(c)
    \/ \E o \in Observer :
        \/ StartSpawning(c, o) \/ StartAtOnce(c, o) \/ StartThrows(c, o)
        \/ StopAndWait(c, o) \/ StopAtOnce(c, o)
Next ==
    \/ \E c \in Caller : SyncStep(c) \/ \E o \in Observer : UpdatePermission(c, o)
    \/ \E o \in Observer :
        \/ RejectAndWait(o) \/ RejectAtOnce(o) \/ Keep(o) \/ Flush(o) \/ Published(o)
        \/ \E p \in Process : Closed(o, p) \/ ProcessDies(o, p)
    \/ CaptureBrowser

Spec == Init /\ [][Next]_vars
\* A promise that can settle does, and a process that was killed ends.
FairSpec ==
    /\ Spec
    /\ \A c \in Caller : WF_vars(SyncStep(c))
    /\ \A o \in Observer, p \in Process : WF_vars(Closed(o, p))

----------------------------------------------------------------------------
TypeOK ==
    /\ granted \subseteq Observer
    /\ state \in [Observer -> {"Disabled", "Enabling", "Active", "Failed"}]
    /\ child \in [Observer -> Process \cup {None}]
    /\ listening \subseteq Observer \X Process
    /\ closing \subseteq Observer \X Process
    /\ rejecting \subseteq closing
    /\ call \in [Caller -> Call]
    /\ \A o \in Observer : pending[o] \cup batch[o] \subseteq 0 .. purges[o]

AtRest == closing = {} /\ \A c \in Caller : At(c, "idle")
Listens(o) == \E p \in Process : <<o, p>> \in listening

(* Once the request that changed a permission last has succeeded and nothing *)
(* is under way, no process of an observer without permission is left        *)
(* listening, whatever overlapped: a revoke while start() was pending, starts *)
(* that failed, processes that died.  Of the bridges whose stop() waits this  *)
(* is not true, see RevokedIsStopped.                                        *)
ReconciledIsStopped ==
    AtRest /\ reconciled => \A o \in Observer \ (granted \cup StopWaits) : ~Listens(o)

(* Events taken for the bus were captured after the last time their observer *)
(* purged its events: what a revoke left behind is not published later, when *)
(* the permission is granted again.                                          *)
TakenSincePurge ==
    [][\A o \in Observer : batch'[o] \ batch[o] \subseteq {purges[o]}]_vars

(* updatePermission() returns: no stop() waits for a process that is not     *)
(* there, or that another one has seen end.                                  *)
RequestsReturn == \A c \in Caller : []<>At(c, "idle")

(* docs/03-runtime/observer.md:37-39: an observer whose permission is revoked *)
(* stops capturing.  When nothing is under way no process listens for it.     *)
RevokedIsStopped == AtRest => \A o \in Observer \ granted : ~Listens(o)

=============================================================================
