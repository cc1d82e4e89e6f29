-------------------------- MODULE Observers_proofs --------------------------
(***************************************************************************)
(* What a change of permissions achieves whatever the observers, the order *)
(* in which they are reconciled and the number of requests that overlap:   *)
(* what the reconciliation has come by is stopped and stays stopped, and   *)
(* no event from before a purge is taken for the bus.                      *)
(***************************************************************************)
EXTENDS Observers, TLAPS

AnyCall == [at : {"idle", "sync", "starting", "stopping"}, next : Nat, process : Int,
            newest : BOOLEAN]

ObserverTypes ==
    /\ call \in [Caller -> AnyCall]
    /\ state \in [Observer -> {"Disabled", "Enabling", "Active", "Failed"}]
    /\ child \in [Observer -> Int] /\ started \in [Observer -> Nat]

\* Of the bridges whose stop() does not wait, a process that is listened to is
\* the one that the bridge knows of, and its observer is not Disabled: the
\* reconciliation finds it, and so does an event that is not permitted.
KnownAreListened ==
    /\ closing \subseteq StopWaits \X Int
    /\ \A o \in Observer \ StopWaits : \A p :
          <<o, p>> \in listening => p \in Process /\ child[o] = p /\ state[o] # "Disabled"

\* The call that changed a permission last has come by the observer.
Passed(c, o) ==
    /\ call[c].newest
    /\ \E i \in DOMAIN Order : Order[i] = o /\ i < call[c].next

\* Without permission nothing listens that the reconciliation has come by.
StoppedBehind ==
    \A o \in Observer \ (granted \cup StopWaits) :
        Listens(o) => ~reconciled /\ \A c \in Caller : ~Passed(c, o)

\* That call starts a bridge only with the permission, which no later call
\* has changed.
StartsPermitted ==
    \A c \in Caller : At(c, "starting") /\ call[c].newest => OnTo(c) \in granted

ObserversInv == ObserverTypes /\ KnownAreListened /\ StoppedBehind /\ StartsPermitted

----------------------------------------------------------------------------
(* Parts of actions.                                                        *)

\* A call goes on to the next observer.
LEMMA ProceedPasses ==
  ASSUME NEW c \in Caller, ObserverTypes, Proceed(c)
  PROVE  /\ call' \in [Caller -> AnyCall]
         /\ \A d \in Caller : At(d, "starting")' => d # c /\ call'[d] = call[d]
         /\ \A d \in Caller : \A o :
               Passed(d, o)' => Passed(d, o) \/ (d = c /\ call[c].newest /\ o = OnTo(c))
  <1>1. call[c] \in AnyCall /\ call[c].next \in Nat
    BY DEF ObserverTypes, AnyCall
  <1> DEFINE next == [call[c] EXCEPT !.at = "sync", !.next = call[c].next + 1, !.process = None]
  <1>2. call' = [call EXCEPT ![c] = next] /\ call \in [Caller -> AnyCall]
    BY <1>1 DEF Proceed, ObserverTypes, AnyCall
  <1>3. next \in AnyCall /\ next.at = "sync" /\ next.next = call[c].next + 1
        /\ next.newest = call[c].newest
    <2>1. ASSUME NEW r \in AnyCall, NEW n \in Nat
          PROVE  [r EXCEPT !.at = "sync", !.next = n, !.process = None]
                 \in {s \in AnyCall : s.at = "sync" /\ s.next = n /\ s.newest = r.newest}
      <3> DEFINE s == [r EXCEPT !.at = "sync", !.next = n]
      <3>1. s \in AnyCall /\ s.at = "sync" /\ s.next = n /\ s.newest = r.newest
        BY DEF AnyCall
      <3>2. [r EXCEPT !.at = "sync", !.next = n, !.process = None] = [s EXCEPT !.process = None]
        OBVIOUS
      <3> HIDE DEF s
      <3> QED  BY <3>1, <3>2 DEF AnyCall, None
    <2>2. call[c].next + 1 \in Nat
      BY <1>1
    <2> QED  BY <1>1, <2>1, <2>2
  <1>4. /\ call' \in [Caller -> AnyCall]
        /\ call'[c].at = "sync" /\ call'[c].next = call[c].next + 1
        /\ call'[c].newest = call[c].newest
        /\ \A d \in Caller : d # c => call'[d] = call[d]
    <2> HIDE DEF next
    <2> QED  BY <1>2, <1>3
  <1>5. \A i \in DOMAIN Order : i < call[c].next + 1 => i < call[c].next \/ i = call[c].next
    BY <1>1, OrderAssumption
  <1> QED  BY <1>4, <1>5 DEF At, Passed, OnTo

\* A call ends.
LEMMA GiveUpPasses ==
  ASSUME NEW c \in Caller, ObserverTypes, GiveUp(c)
  PROVE  /\ call' \in [Caller -> AnyCall]
         /\ \A d \in Caller : At(d, "starting")' => d # c /\ call'[d] = call[d]
         /\ \A d \in Caller : \A o : Passed(d, o)' => Passed(d, o)
  <1>1. NoCall \in AnyCall /\ NoCall.at = "idle" /\ ~NoCall.newest
    BY DEF NoCall, AnyCall, None
  <1>2. call' \in [Caller -> AnyCall] /\ call'[c] = NoCall
        /\ \A d \in Caller : d # c => call'[d] = call[d]
    BY <1>1 DEF GiveUp, ObserverTypes
  <1> QED  BY <1>1, <1>2 DEF At, Passed

\* A call awaits a bridge.
LEMMA WaitForPasses ==
  ASSUME NEW c \in Caller, NEW at \in {"starting", "stopping"}, NEW p \in Int,
         ObserverTypes, WaitFor(c, at, p)
  PROVE  /\ call' \in [Caller -> AnyCall]
         /\ \A d \in Caller : At(d, "starting")' =>
               (d # c /\ call'[d] = call[d]) \/ (d = c /\ at = "starting" /\ call'[c].next = call[c].next)
         /\ \A d \in Caller : \A o : Passed(d, o)' => Passed(d, o)
  <1>1. call[c] \in AnyCall
    BY DEF ObserverTypes
  <1>2. call' = [call EXCEPT ![c] = [call[c] EXCEPT !.at = at, !.process = p]]
    BY <1>1 DEF WaitFor, ObserverTypes, AnyCall
  <1>3. /\ call' \in [Caller -> AnyCall]
        /\ call'[c].at = at /\ call'[c].next = call[c].next /\ call'[c].newest = call[c].newest
        /\ \A d \in Caller : d # c => call'[d] = call[d]
    BY <1>1, <1>2 DEF ObserverTypes, AnyCall
  <1> QED  BY <1>3 DEF At, Passed

\* The bridge forgets its process, and with it all that listened.
LEMMA ForgetStops ==
  ASSUME NEW o \in Observer, ObserverTypes, KnownAreListened, Forget(o)
  PROVE  /\ child' \in [Observer -> Int] /\ started' = started
         /\ \A q \in Observer : \A p : <<q, p>> \in listening' => <<q, p>> \in listening
         /\ \A q \in Observer : q # o => child'[q] = child[q]
         /\ o \notin StopWaits => \A p : <<o, p>> \notin listening'
  BY DEF Forget, Known, None, ObserverTypes, KnownAreListened

\* What a step has to show that does not change the permissions.
LEMMA StoppedStays ==
  ASSUME StoppedBehind, granted' = granted,
         reconciled' => reconciled,
         \A o \in Observer \ (granted \cup StopWaits) : Listens(o)' => Listens(o),
         \A o \in Observer \ (granted \cup StopWaits), c \in Caller :
             Passed(c, o)' => Passed(c, o) \/ ~Listens(o)'
  PROVE  StoppedBehind'
  BY DEF StoppedBehind

----------------------------------------------------------------------------
(* The steps.                                                               *)

LEMMA UpdateKeeps ==
  ASSUME NEW c \in Caller, NEW o \in Observer, ObserversInv, UpdatePermission(c, o)
  PROVE  ObserversInv'
  <1> DEFINE first == [NoCall EXCEPT !.at = "sync", !.newest = TRUE]
  <1>1. first \in AnyCall /\ first.at = "sync" /\ first.next = 1
    <2>1. NoCall \in AnyCall /\ NoCall.next = 1
      BY DEF NoCall, AnyCall, None
    <2> QED  BY <2>1 DEF AnyCall
  <1>2. \A d \in Caller : call'[d] = IF d = c THEN first ELSE [call[d] EXCEPT !.newest = FALSE]
    BY DEF UpdatePermission
  <1>3. call' = [d \in Caller |-> call'[d]]
    BY DEF UpdatePermission
  <1> HIDE DEF first
  <1>4. \A d \in Caller : d # c => call'[d] \in AnyCall /\ ~call'[d].newest
    BY <1>2 DEF ObserversInv, ObserverTypes, AnyCall
  <1>5. call' \in [Caller -> AnyCall]
    BY <1>1, <1>2, <1>3, <1>4
  <1>6. \A i \in DOMAIN Order : ~(i < 1)
    BY OrderAssumption
  <1>7. ~reconciled' /\ \A d \in Caller : \A q : ~Passed(d, q)'
    BY <1>1, <1>2, <1>4, <1>6 DEF UpdatePermission, Passed
  <1>8. \A d \in Caller : ~(At(d, "starting")' /\ call'[d].newest)
    BY <1>1, <1>2, <1>4 DEF At
  <1>9. state' = state /\ child' = child /\ started' = started /\ listening' = listening
        /\ closing' = closing
    BY DEF UpdatePermission, observers, bridges
  <1> QED  BY <1>5, <1>7, <1>8, <1>9
           DEF ObserversInv, ObserverTypes, KnownAreListened, StoppedBehind, StartsPermitted

\* A call has come to the end, or to an observer that is as it should be.
LEMMA PassingKeeps ==
  ASSUME NEW c \in Caller, ObserversInv, Synced(c) \/ Skip(c)
  PROVE  ObserversInv'
  <1>1. ObserverTypes /\ KnownAreListened /\ StoppedBehind /\ StartsPermitted
    BY DEF ObserversInv
  <1>2. granted' = granted /\ state' = state /\ child' = child /\ started' = started
        /\ listening' = listening /\ closing' = closing
    BY DEF Synced, Skip, observers, bridges
  <1>3. \A o : Listens(o)' <=> Listens(o)
    BY <1>2 DEF Listens
  <1>4. CASE Synced(c)
    <2>1. GiveUp(c) /\ reconciled' = (reconciled \/ call[c].newest) /\ call[c].next > Len(Order)
      BY <1>4 DEF Synced
    <2>2. call[c].newest => \A o \in Observer : Passed(c, o)
      <3>1. \A i \in DOMAIN Order : i < call[c].next
        BY <1>1, <2>1, OrderAssumption DEF ObserverTypes, AnyCall
      <3> QED  BY <3>1 DEF Passed, Observer
    <2>3. call[c].newest => \A o \in Observer \ (granted \cup StopWaits) : ~Listens(o)
      BY <1>1, <2>2 DEF StoppedBehind
    <2>4. /\ call' \in [Caller -> AnyCall]
          /\ \A d \in Caller : At(d, "starting")' => d # c /\ call'[d] = call[d]
          /\ \A d \in Caller : \A o : Passed(d, o)' => Passed(d, o)
      BY <1>1, <2>1, GiveUpPasses
    <2>5. StoppedBehind'
      BY <1>1, <1>2, <1>3, <2>1, <2>3, <2>4 DEF StoppedBehind
    <2> QED  BY <1>1, <1>2, <2>4, <2>5
             DEF ObserversInv, ObserverTypes, KnownAreListened, StartsPermitted, At, OnTo
  <1>5. CASE Skip(c)
    <2>1. Proceed(c) /\ reconciled' = reconciled
          /\ (OnTo(c) \notin granted => state[OnTo(c)] = "Disabled")
      BY <1>5 DEF Skip, NeedsRevoking
    <2>2. /\ call' \in [Caller -> AnyCall]
          /\ \A d \in Caller : At(d, "starting")' => d # c /\ call'[d] = call[d]
          /\ \A d \in Caller : \A o : Passed(d, o)' =>
                Passed(d, o) \/ (d = c /\ call[c].newest /\ o = OnTo(c))
      BY <1>1, <2>1, ProceedPasses
    <2>3. \A o \in Observer \ (granted \cup StopWaits) : o = OnTo(c) => ~Listens(o)
      BY <1>1, <2>1 DEF KnownAreListened, Listens
    <2>4. StoppedBehind'
      BY <1>1, <1>2, <1>3, <2>1, <2>2, <2>3, StoppedStays
    <2> QED  BY <1>1, <1>2, <2>2, <2>4
             DEF ObserversInv, ObserverTypes, KnownAreListened, StartsPermitted, At, OnTo
  <1> QED  BY <1>4, <1>5

LEMMA StartingKeeps ==
  ASSUME NEW c \in Caller, NEW o \in Observer, ObserversInv,
         StartSpawning(c, o) \/ StartAtOnce(c, o) \/ StartThrows(c, o)
  PROVE  ObserversInv'
  <1>1. ObserverTypes /\ KnownAreListened /\ StoppedBehind /\ StartsPermitted
    BY DEF ObserversInv
  <1>2. o \in granted /\ OnTo(c) = o /\ granted' = granted /\ reconciled' = reconciled
    BY DEF StartSpawning, StartAtOnce, StartThrows, Enables
  <1>3. CASE StartThrows(c, o)
    <2>1. GiveUp(c) /\ state' = [state EXCEPT ![o] = "Failed"] /\ child' = child
          /\ started' = started /\ listening' = listening /\ closing' = closing
      BY <1>3 DEF StartThrows, bridges
    <2>2. /\ call' \in [Caller -> AnyCall]
          /\ \A d \in Caller : At(d, "starting")' => d # c /\ call'[d] = call[d]
          /\ \A d \in Caller : \A q : Passed(d, q)' => Passed(d, q)
      BY <1>1, <2>1, GiveUpPasses
    <2>3. StoppedBehind'
      BY <1>1, <1>2, <2>1, <2>2, StoppedStays DEF Listens
    <2>4. ObserverTypes' /\ KnownAreListened'
      BY <1>1, <2>1, <2>2 DEF ObserverTypes, KnownAreListened
    <2> QED  BY <1>1, <1>2, <2>2, <2>3, <2>4 DEF ObserversInv, StartsPermitted, At, OnTo
  <1>4. CASE StartSpawning(c, o) \/ StartAtOnce(c, o)
    <2> DEFINE n == started[o] + 1
    <2>1. n \in Nat /\ started[o] \in Nat
      BY <1>1 DEF ObserverTypes
    <2>2. /\ child[o] = None /\ started[o] < MaxStarts /\ closing' = closing
          /\ started' = [started EXCEPT ![o] = n]
          /\ child' = [child EXCEPT ![o] = started'[o]]
          /\ listening' = listening \cup {<<o, started'[o]>>}
      BY <1>4 DEF StartSpawning, StartAtOnce, Spawn
    <2>3. started'[o] = n
      BY <1>1, <2>2 DEF ObserverTypes
    <2>4. \E s \in {"Enabling", "Active"} : state' = [state EXCEPT ![o] = s]
      BY <1>4 DEF StartSpawning, StartAtOnce
    <2>5. n \in Process /\ n # None
      BY <2>1, <2>2, OrderAssumption DEF Process, None
    <2> HIDE DEF n
    <2>6. /\ call' \in [Caller -> AnyCall]
          /\ \A d \in Caller : At(d, "starting")' =>
                (d # c /\ call'[d] = call[d]) \/ (d = c /\ call'[c].next = call[c].next)
          /\ \A d \in Caller, q \in Observer \ granted : Passed(d, q)' => Passed(d, q)
      <3>1. CASE StartSpawning(c, o)
        <4>1. WaitFor(c, "starting", n) /\ n \in Int
          BY <2>1, <2>3, <3>1 DEF StartSpawning
        <4> QED  BY <1>1, <4>1, WaitForPasses
      <3>2. CASE StartAtOnce(c, o)
        <4>1. Proceed(c)
          BY <3>2 DEF StartAtOnce
        <4> QED  BY <1>1, <1>2, <4>1, ProceedPasses
      <3> QED  BY <1>4, <3>1, <3>2
    <2>7. \A q \in Observer \ granted : Listens(q)' => Listens(q)
      BY <1>2, <2>2, <2>3 DEF Listens
    <2>8. StoppedBehind'
      BY <1>1, <1>2, <2>6, <2>7, StoppedStays
    <2>9. ObserverTypes'
      BY <1>1, <2>1, <2>2, <2>3, <2>4, <2>6 DEF ObserverTypes
    <2>10. KnownAreListened'
      <3>1. o \notin StopWaits => \A p : <<o, p>> \notin listening
        BY <1>1, <2>2 DEF KnownAreListened, Process, None
      <3>2. ASSUME NEW q \in Observer \ StopWaits, NEW p, <<q, p>> \in listening'
            PROVE  p \in Process /\ child'[q] = p /\ state'[q] # "Disabled"
        <4>1. CASE q = o
          BY <1>1, <2>2, <2>3, <2>4, <2>5, <3>1, <3>2, <4>1 DEF ObserverTypes
        <4>2. CASE q # o
          <5>1. child'[q] = child[q] /\ state'[q] = state[q] /\ <<q, p>> \in listening
            BY <1>1, <2>2, <2>4, <3>2, <4>2 DEF ObserverTypes
          <5> QED  BY <1>1, <5>1 DEF KnownAreListened
        <4> QED  BY <4>1, <4>2
      <3>3. closing' \subseteq StopWaits \X Int
        BY <1>1, <2>2 DEF KnownAreListened
      <3> QED  BY <3>2, <3>3 DEF KnownAreListened
    <2> QED  BY <1>1, <1>2, <2>6, <2>8, <2>9, <2>10 DEF ObserversInv, StartsPermitted, At, OnTo
  <1> QED  BY <1>3, <1>4

LEMMA StartedKeeps ==
  ASSUME NEW c \in Caller, ObserversInv, Spawned(c) \/ NotSpawned(c)
  PROVE  ObserversInv'
  <1>1. ObserverTypes /\ KnownAreListened /\ StoppedBehind /\ StartsPermitted
    BY DEF ObserversInv
  <1>2. At(c, "starting") /\ granted' = granted /\ reconciled' = reconciled /\ child' = child
        /\ started' = started /\ closing' = closing /\ listening' \subseteq listening
        /\ \E s \in {"Active", "Failed"} : state' = [state EXCEPT ![OnTo(c)] = s]
    BY DEF Spawned, NotSpawned, bridges
  <1>3. /\ call' \in [Caller -> AnyCall]
        /\ \A d \in Caller : At(d, "starting")' => d # c /\ call'[d] = call[d]
        /\ \A d \in Caller, o \in Observer \ granted : Passed(d, o)' => Passed(d, o)
    <2>1. CASE Spawned(c)
      <3>1. Proceed(c)
        BY <2>1 DEF Spawned
      <3>2. call[c].newest => OnTo(c) \in granted
        BY <1>1, <1>2 DEF StartsPermitted
      <3> QED  BY <1>1, <3>1, <3>2, ProceedPasses
    <2>2. CASE NotSpawned(c)
      <3>1. GiveUp(c)
        BY <2>2 DEF NotSpawned
      <3> QED  BY <1>1, <3>1, GiveUpPasses
    <2> QED  BY <2>1, <2>2
  <1>4. StoppedBehind'
    BY <1>1, <1>2, <1>3, StoppedStays DEF Listens
  <1>5. PICK s \in {"Active", "Failed"} : state' = [state EXCEPT ![OnTo(c)] = s]
    BY <1>2
  <1>6. ObserverTypes'
    BY <1>1, <1>2, <1>3, <1>5 DEF ObserverTypes
  <1>7. KnownAreListened'
    <2>1. \A o \in Observer : state[o] # "Disabled" => state'[o] # "Disabled"
      BY <1>1, <1>5 DEF ObserverTypes
    <2> QED  BY <1>1, <1>2, <2>1 DEF KnownAreListened
  <1> QED  BY <1>1, <1>2, <1>3, <1>4, <1>6, <1>7 DEF ObserversInv, StartsPermitted, At, OnTo

\* A bridge is stopped, by the reconciliation or by an event.
LEMMA StoppingKeeps ==
  ASSUME NEW o \in Observer, ObserversInv, Forget(o), granted' = granted,
         reconciled' = reconciled,
         \/ state' = state /\ o \in StopWaits
         \/ state' = [state EXCEPT ![o] = "Disabled"],
         closing' = closing \/ (o \in StopWaits /\ closing' = closing \cup {Known(o)}),
         call' \in [Caller -> AnyCall],
         \A d \in Caller : At(d, "starting")' => call'[d] = call[d],
         \A d \in Caller : \A q : Passed(d, q)' => Passed(d, q) \/ q = o
  PROVE  ObserversInv'
  <1>1. ObserverTypes /\ KnownAreListened /\ StoppedBehind /\ StartsPermitted
    BY DEF ObserversInv
  <1>2. /\ child' \in [Observer -> Int] /\ started' = started
        /\ \A q \in Observer : \A p : <<q, p>> \in listening' => <<q, p>> \in listening
        /\ \A q \in Observer : q # o => child'[q] = child[q]
        /\ o \notin StopWaits => \A p : <<o, p>> \notin listening'
    BY <1>1, ForgetStops
  <1>3. ObserverTypes'
    BY <1>1, <1>2 DEF ObserverTypes
  <1>4. KnownAreListened'
    <2>1. closing' \subseteq StopWaits \X Int
      BY <1>1 DEF KnownAreListened, ObserverTypes, Known
    <2>2. ASSUME NEW q \in Observer \ StopWaits, NEW p, <<q, p>> \in listening'
          PROVE  p \in Process /\ child'[q] = p /\ state'[q] # "Disabled"
      <3>1. q # o /\ <<q, p>> \in listening
        BY <1>2, <2>2
      <3>2. child'[q] = child[q] /\ state'[q] = state[q]
        BY <1>1, <1>2, <3>1 DEF ObserverTypes
      <3> QED  BY <1>1, <3>1, <3>2 DEF KnownAreListened
    <2> QED  BY <2>1, <2>2 DEF KnownAreListened
  <1>5. \A q \in Observer : (Listens(q)' => Listens(q)) /\ (q = o /\ q \notin StopWaits => ~Listens(q)')
    BY <1>2 DEF Listens
  <1>6. StoppedBehind'
    BY <1>1, <1>5, StoppedStays
  <1>7. StartsPermitted'
    BY <1>1 DEF StartsPermitted, At, OnTo
  <1> QED  BY <1>3, <1>4, <1>6, <1>7 DEF ObserversInv

LEMMA RevokingKeeps ==
  ASSUME NEW o \in Observer, ObserversInv,
         \/ \E c \in Caller : StopAndWait(c, o) \/ StopAtOnce(c, o)
         \/ RejectAndWait(o) \/ RejectAtOnce(o)
  PROVE  ObserversInv'
  <1>1. ObserverTypes /\ child[o] \in Int
    BY DEF ObserversInv, ObserverTypes
  <1>2. ASSUME NEW c \in Caller, StopAndWait(c, o) PROVE ObserversInv'
    <2>1. WaitFor(c, "stopping", child[o]) /\ Forget(o) /\ granted' = granted
          /\ reconciled' = reconciled /\ state' = state /\ o \in StopWaits
          /\ closing' = closing \cup {Known(o)}
      BY <1>2 DEF StopAndWait, StopHasToWait
    <2> QED  BY <1>1, <2>1, WaitForPasses, StoppingKeeps
  <1>3. ASSUME NEW c \in Caller, StopAtOnce(c, o) PROVE ObserversInv'
    <2>1. Proceed(c) /\ OnTo(c) = o /\ Forget(o) /\ granted' = granted
          /\ reconciled' = reconciled /\ state' = [state EXCEPT ![o] = "Disabled"]
          /\ closing' = closing
      BY <1>3 DEF StopAtOnce, Revokes, Disable
    <2> QED  BY <1>1, <2>1, ProceedPasses, StoppingKeeps
  <1>4. CASE RejectAndWait(o) \/ RejectAtOnce(o)
    <2>1. Forget(o) /\ granted' = granted /\ reconciled' = reconciled /\ call' = call
      BY <1>4 DEF RejectAndWait, RejectAtOnce
    <2>2. \/ state' = state /\ o \in StopWaits
          \/ state' = [state EXCEPT ![o] = "Disabled"]
      BY <1>4 DEF RejectAndWait, RejectAtOnce, StopHasToWait, Disable
    <2>3. closing' = closing \/ (o \in StopWaits /\ closing' = closing \cup {Known(o)})
      BY <1>4 DEF RejectAndWait, RejectAtOnce, StopHasToWait
    <2>4. call' \in [Caller -> AnyCall] /\ \A d \in Caller : \A q : Passed(d, q)' => Passed(d, q)
      BY <1>1, <2>1 DEF ObserverTypes, Passed
    <2> QED  BY <2>1, <2>2, <2>3, <2>4, StoppingKeeps
  <1> QED  BY <1>2, <1>3, <1>4

\* A process ends.
LEMMA EndingKeeps ==
  ASSUME NEW o \in Observer, NEW p \in Process, ObserversInv, Closed(o, p) \/ ProcessDies(o, p)
  PROVE  ObserversInv'
  <1>1. ObserverTypes /\ KnownAreListened /\ StoppedBehind /\ StartsPermitted
    BY DEF ObserversInv
  <1>2. CASE Closed(o, p)
    <2>1. /\ child' = [child EXCEPT ![o] = None] /\ state' = [state EXCEPT ![o] = "Disabled"]
          /\ closing' \subseteq closing /\ granted' = granted /\ listening' = listening
          /\ started' = started /\ reconciled' = reconciled /\ <<o, p>> \in closing
      BY <1>2 DEF Closed, Disable
    <2>2. o \in StopWaits
      BY <1>1, <2>1 DEF KnownAreListened
    <2>3. /\ call' \in [Caller -> AnyCall]
          /\ \A d \in Caller : At(d, "starting")' => call'[d] = call[d]
          /\ \A d \in Caller : \A q : Passed(d, q)' => Passed(d, q) \/ q = o
      <3>1. CASE call' = call
        BY <1>1, <3>1 DEF ObserverTypes, Passed
      <3>2. ASSUME NEW c \in Caller, OnTo(c) = o, Proceed(c)
            PROVE  /\ call' \in [Caller -> AnyCall]
                   /\ \A d \in Caller : At(d, "starting")' => call'[d] = call[d]
                   /\ \A d \in Caller : \A q : Passed(d, q)' => Passed(d, q) \/ q = o
        BY <1>1, <3>2, ProceedPasses
      <3> QED  BY <1>2, <3>1, <3>2 DEF Closed
    <2>4. ObserverTypes'
      BY <1>1, <2>1, <2>3 DEF ObserverTypes, None
    <2>5. KnownAreListened'
      BY <1>1, <2>1, <2>2 DEF ObserverTypes, KnownAreListened
    <2>6. StoppedBehind'
      BY <1>1, <2>1, <2>2, <2>3, StoppedStays DEF Listens
    <2> QED  BY <1>1, <2>1, <2>3, <2>4, <2>5, <2>6 DEF ObserversInv, StartsPermitted, At, OnTo
  <1>3. CASE ProcessDies(o, p)
    <2>1. /\ state' = state /\ closing' = closing /\ granted' = granted /\ call' = call
          /\ started' = started /\ reconciled' = reconciled /\ listening' \subseteq listening
          /\ child' = IF o \in StopWaits THEN [child EXCEPT ![o] = None] ELSE child
      BY <1>3 DEF ProcessDies
    <2>2. ObserverTypes' /\ KnownAreListened'
      BY <1>1, <2>1 DEF ObserverTypes, KnownAreListened, None
    <2>3. StoppedBehind'
      BY <1>1, <2>1, StoppedStays DEF Listens, Passed
    <2> QED  BY <1>1, <2>1, <2>2, <2>3 DEF ObserversInv, StartsPermitted, At, OnTo
  <1> QED  BY <1>2, <1>3

THEOREM ObserversInvariant == Spec => []ObserversInv
  <1>1. Init => ObserversInv
    <2> SUFFICES ASSUME Init PROVE ObserversInv
      OBVIOUS
    <2>1. NoCall \in AnyCall /\ NoCall.at = "idle"
      BY DEF NoCall, AnyCall, None
    <2> QED  BY <2>1 DEF Init, ObserversInv, ObserverTypes, KnownAreListened, StoppedBehind,
                         StartsPermitted, Listens, At, None
  <1>2. ObserversInv /\ [Next]_vars => ObserversInv'
    <2> SUFFICES ASSUME ObserversInv, [Next]_vars PROVE ObserversInv'
      OBVIOUS
    <2>1. ASSUME NEW c \in Caller, SyncStep(c) PROVE ObserversInv'
      BY <2>1, PassingKeeps, StartedKeeps, StartingKeeps, RevokingKeeps DEF SyncStep
    <2>2. ASSUME NEW c \in Caller, NEW o \in Observer, UpdatePermission(c, o) PROVE ObserversInv'
      BY <2>2, UpdateKeeps
    <2>3. ASSUME NEW o \in Observer, RejectAndWait(o) \/ RejectAtOnce(o) PROVE ObserversInv'
      BY <2>3, RevokingKeeps
    <2>4. ASSUME NEW o \in Observer, NEW p \in Process, Closed(o, p) \/ ProcessDies(o, p)
          PROVE  ObserversInv'
      BY <2>4, EndingKeeps
    <2>5. CASE \/ \E o \in Observer : Keep(o) \/ Flush(o) \/ Published(o)
               \/ CaptureBrowser
               \/ UNCHANGED vars
      <3>1. granted' = granted /\ state' = state /\ child' = child /\ started' = started
            /\ listening' = listening /\ closing' = closing /\ call' = call
            /\ reconciled' = reconciled
        BY <2>5 DEF Keep, Flush, Published, CaptureBrowser, vars, observers, bridges
      <3> QED  BY <3>1 DEF ObserversInv, ObserverTypes, KnownAreListened, StoppedBehind,
                           StartsPermitted, Listens, Passed, At, OnTo
    <2> QED  BY <2>1, <2>2, <2>3, <2>4, <2>5 DEF Next
  <1> QED  BY <1>1, <1>2, PTL DEF Spec

\* Once the request that changed a permission last has succeeded, no process
\* is left listening for an observer without permission, unless its stop()
\* waits, whatever requests, starts and events overlapped with it.
THEOREM ReconciledStops == Spec => []ReconciledIsStopped
  <1>1. ObserversInv => ReconciledIsStopped
    BY DEF ObserversInv, StoppedBehind, ReconciledIsStopped
  <1> QED  BY <1>1, ObserversInvariant, PTL

----------------------------------------------------------------------------
(* The events.                                                              *)

\* What is kept for flush() was captured since the last purge.
KeptSincePurge ==
    /\ pending \in [Observer -> SUBSET Nat] /\ purges \in [Observer -> Nat]
    /\ batch \in [Observer -> SUBSET Nat]
    /\ \A o \in Observer : pending[o] \subseteq {purges[o]}

LEMMA PurgeKeeps ==
  ASSUME NEW o \in Observer, KeptSincePurge, Purge(o), batch' = batch
  PROVE  KeptSincePurge'
  BY DEF KeptSincePurge, Purge

LEMMA EventSteps ==
  ASSUME KeptSincePurge, [Next]_vars
  PROVE  /\ KeptSincePurge'
         /\ \A o \in Observer : batch'[o] \ batch[o] \subseteq {purges[o]}
  <1>1. ASSUME NEW o \in Observer,
               \/ \E c \in Caller : StopAtOnce(c, o)
               \/ RejectAtOnce(o)
               \/ \E p \in Process : Closed(o, p)
        PROVE  KeptSincePurge' /\ batch' = batch
    BY <1>1, PurgeKeeps DEF StopAtOnce, RejectAtOnce, Closed
  <1>2. ASSUME NEW o \in Observer, Keep(o) PROVE KeptSincePurge' /\ batch' = batch
    BY <1>2 DEF Keep, KeptSincePurge
  <1>3. ASSUME NEW o \in Observer, Flush(o)
        PROVE  KeptSincePurge' /\ \A q \in Observer : batch'[q] \ batch[q] \subseteq {purges[q]}
    BY <1>3 DEF Flush, KeptSincePurge
  <1>4. CASE CaptureBrowser
    BY <1>4 DEF CaptureBrowser, KeptSincePurge
  <1>5. ASSUME NEW o \in Observer, Published(o)
        PROVE  KeptSincePurge' /\ \A q \in Observer : batch'[q] \ batch[q] \subseteq {purges[q]}
    BY <1>5 DEF Published, KeptSincePurge
  <1>6. ASSUME UNCHANGED events
        PROVE  KeptSincePurge' /\ batch' = batch
    BY <1>6 DEF events, KeptSincePurge
  <1>7. ASSUME NEW c \in Caller,
               \/ Synced(c) \/ Skip(c) \/ Spawned(c) \/ NotSpawned(c)
               \/ \E o \in Observer :
                     \/ UpdatePermission(c, o)
                     \/ StartSpawning(c, o) \/ StartAtOnce(c, o) \/ StartThrows(c, o)
                     \/ StopAndWait(c, o)
        PROVE  UNCHANGED events
    BY <1>7 DEF Synced, Skip, Spawned, NotSpawned, UpdatePermission, StartSpawning,
                StartAtOnce, StartThrows, StopAndWait, observers
  <1>8. ASSUME NEW o \in Observer, NEW p \in Process, RejectAndWait(o) \/ ProcessDies(o, p)
        PROVE  UNCHANGED events
    BY <1>8 DEF RejectAndWait, ProcessDies
  <1>9. UNCHANGED vars => UNCHANGED events
    BY DEF vars, observers
  <1>10. ASSUME NEW o \in Observer, RejectAndWait(o) PROVE UNCHANGED events
    BY <1>10 DEF RejectAndWait
  <1> QED  BY <1>1, <1>2, <1>3, <1>4, <1>5, <1>6, <1>7, <1>8, <1>9, <1>10 DEF Next, SyncStep

\* What a revoke left behind is not published when the permission is granted
\* again, for every number of purges.
THEOREM EventsAreTakenSincePurge == Spec => TakenSincePurge
  <1>1. Init => KeptSincePurge
    BY DEF Init, KeptSincePurge
  <1>2. KeptSincePurge /\ [Next]_vars => KeptSincePurge'
    BY EventSteps
  <1>3. KeptSincePurge /\ [Next]_vars =>
           [\A o \in Observer : batch'[o] \ batch[o] \subseteq {purges[o]}]_vars
    BY EventSteps
  <1> QED  BY <1>1, <1>2, <1>3, PTL DEF Spec, TakenSincePurge
=============================================================================
