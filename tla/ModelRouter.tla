---------------------------- MODULE ModelRouter ----------------------------
(***************************************************************************)
(* ModelRouter (services/runtime/src/model-router.ts): a request asks the  *)
(* health of every provider that fits it, then calls the healthy ones in   *)
(* order of preference, each up to Attempts times and each call with a     *)
(* timeout, until one answers.  A circuit per provider, which all requests *)
(* share, opens after Threshold failures in a row.                         *)
(*                                                                         *)
(* Requests overlap at the two awaits, healthCheck() and invoke().  Time   *)
(* is abstracted to the end of a circuit's cool-down; a call that timed    *)
(* out is forgotten, whatever it answers later.                            *)
(***************************************************************************)
EXTENDS Integers, Sequences, FiniteSets

CONSTANTS
    Registered,    \* the providers, in the order of the constructor's list
    Rank,          \* position of each by preference, then by cost
    Fits,          \* sets of providers that the constraints of a request admit
    Caller,        \* requests that may be open at a time
    MaxRequests,   \* bound on the requests
    Attempts,      \* retryAttempts
    Threshold      \* circuitFailureThreshold

Provider == {Registered[i] : i \in DOMAIN Registered}
None == "none"

ASSUME RouterAssumption ==
    /\ Registered \in Seq(Provider)
    /\ \A fits \in Fits : fits \subseteq Provider
    /\ IsFiniteSet(Caller)
    /\ Attempts \in Nat \ {0} /\ Threshold \in Nat \ {0}
    /\ Rank \in [Provider -> Int]
    /\ \A p, q \in Provider : Rank[p] = Rank[q] => p = q

VARIABLES
    failures,   \* consecutiveFailures, counted up to Threshold
    circuit,    \* "closed", "open", or "cooled": open for longer than its cool-down
    request,    \* the invoke() of each caller
    requests,
    begun,      \* calls of a provider begun since its circuit last changed, up to Most
    caught      \* calls of a provider under way when its circuit opened

circuits == <<failures, circuit>>
vars == <<circuits, request, requests, begun, caught>>

NoRequest == [at |-> "idle", fits |-> {}, next |-> 1, candidates |-> {}, provider |-> None,
              attempt |-> 0]
Request ==
    [at : {"idle", "checking", "calling"}, fits : SUBSET Provider,
     next : Nat, candidates : SUBSET Provider,
     provider : Provider \cup {None}, attempt : 0 .. Attempts]

Init ==
    /\ failures = [p \in Provider |-> 0]
    /\ circuit = [p \in Provider |-> "closed"]
    /\ request = [c \in Caller |-> NoRequest]
    /\ requests = 0
    /\ begun = [p \in Provider |-> 0]
    /\ caught = [p \in Provider |-> 0]

isCircuitOpen(p) == circuit[p] = "open"
IsCalling(c, p) == request[c].at = "calling" /\ request[c].provider = p

\* What the properties remember of the calls.
Most == Attempts * Cardinality(Caller)
Begins(c, p) == IsCalling(c, p)' /\ request'[c] # request[c]
Observed ==
    /\ begun' = [p \in Provider |->
           LET before == IF circuit'[p] = circuit[p] THEN begun[p] ELSE 0
               number == before + Cardinality({c \in Caller : Begins(c, p)})
           IN  IF number > Most THEN Most ELSE number]
    /\ caught' = [p \in Provider |->
           IF circuit'[p] = "open" /\ circuit[p] # "open"
           THEN Cardinality({c \in Caller : IsCalling(c, p)}) ELSE caught[p]]

----------------------------------------------------------------------------
(* How a request goes on after an await.                                   *)
Ends(c) == request' = [request EXCEPT ![c] = NoRequest]

\* The places in the list, from i on, of the providers whose health it asks.
ToCheck(fits, i) ==
    {j \in i .. Len(Registered) : Registered[j] \in fits /\ ~isCircuitOpen(Registered[j])}

\* Of the candidates, those whose circuit has not opened since their check.
Callable_All(candidates) == candidates
Callable(candidates) == {p \in candidates : ~isCircuitOpen(p)}

After(candidates, p) == {q \in candidates : Rank[q] > Rank[p]}

\* The first call of the next candidate, or the error that all have failed.
CallNext(c, candidates) ==
    \/ Callable(candidates) = {} /\ Ends(c)
    \/ \E p \in Callable(candidates) :
        /\ \A q \in Callable(candidates) : Rank[p] <= Rank[q]
        /\ request' = [request EXCEPT ![c] =
               [NoRequest EXCEPT !.at = "calling", !.provider = p, !.attempt = 1,
                                 !.candidates = After(candidates, p)]]

\* The next health check, or the first call.
CheckNext(c, fits, i, candidates) ==
    \/ ToCheck(fits, i) = {} /\ CallNext(c, candidates)
    \/ \E j \in ToCheck(fits, i) :
        /\ \A k \in ToCheck(fits, i) : j <= k
        /\ request' = [request EXCEPT ![c] =
               [NoRequest EXCEPT !.at = "checking", !.fits = fits, !.next = j,
                                 !.candidates = candidates]]

\* invoke(), up to its first await.
Invoke(c, fits) ==
    /\ request[c].at = "idle" /\ requests < MaxRequests
    /\ requests' = requests + 1
    /\ CheckNext(c, fits, 1, {})
    /\ UNCHANGED circuits /\ Observed

HealthAnswers(c, down) ==
    /\ request[c].at = "checking"
    /\ LET r == request[c] IN
       CheckNext(c, r.fits, r.next + 1,
                 IF down THEN r.candidates ELSE r.candidates \cup {Registered[r.next]})
    /\ UNCHANGED <<circuits, requests>> /\ Observed

\* healthCheck() throws, and invoke() with it.
HealthThrows(c) ==
    /\ request[c].at = "checking"
    /\ Ends(c)
    /\ UNCHANGED <<circuits, requests>> /\ Observed

----------------------------------------------------------------------------
recordFailure(p) ==
    LET failed == IF failures[p] < Threshold THEN failures[p] + 1 ELSE Threshold IN
    /\ failures' = [failures EXCEPT ![p] = failed]
    /\ circuit' = IF failed >= Threshold THEN [circuit EXCEPT ![p] = "open"] ELSE circuit

recordSuccess_KeepsOpen(p) ==
    /\ failures' = [failures EXCEPT ![p] = 0]
    /\ circuit' = circuit
recordSuccess(p) ==
    /\ failures' = [failures EXCEPT ![p] = 0]
    /\ circuit' = [circuit EXCEPT ![p] = "closed"]

\* The answer to a call, which may have been begun before the circuit opened.
Answers(c, p) ==
    /\ IsCalling(c, p)
    /\ recordSuccess(p)
    /\ Ends(c)
    /\ UNCHANGED requests /\ Observed

\* One that does not have the shape of an answer ends the request.
AnswersBadly(c, p) ==
    /\ IsCalling(c, p)
    /\ recordFailure(p)
    /\ Ends(c)
    /\ UNCHANGED requests /\ Observed

LastAttempt_Never(attempt) == FALSE
LastAttempt(attempt) == attempt = Attempts

\* A call that throws or times out is repeated, whatever the circuit is by now.
Fails(c, p) ==
    /\ IsCalling(c, p)
    /\ recordFailure(p)
    /\ IF LastAttempt(request[c].attempt) THEN CallNext(c, request[c].candidates)
       ELSE request' = [request EXCEPT ![c].attempt = IF @ < Attempts THEN @ + 1 ELSE @]
    /\ UNCHANGED requests /\ Observed

\* circuitCooldownMs have passed since openedAt.
CoolsDown(p) ==
    /\ isCircuitOpen(p)
    /\ circuit' = [circuit EXCEPT ![p] = "cooled"]
    /\ UNCHANGED <<failures, request, requests>> /\ Observed

----------------------------------------------------------------------------
CallStep(c) == \E p \in Provider : Answers(c, p) \/ AnswersBadly(c, p) \/ Fails(c, p)
CheckStep(c) == HealthThrows(c) \/ \E down \in BOOLEAN : HealthAnswers(c, down)

Next ==
    \/ \E c \in Caller : CallStep(c) \/ CheckStep(c) \/ \E fits \in Fits : Invoke(c, fits)
    \/ \E p \in Provider : CoolsDown(p)

Spec == Init /\ [][Next]_vars
\* A call ends, at the latest with its timeout.  A health check has none: that
\* it ends is assumed of the providers.
FairSpec ==
    Spec /\ \A c \in Caller : WF_vars(CallStep(c)) /\ WF_vars(CheckStep(c))

----------------------------------------------------------------------------
TypeOK ==
    /\ failures \in [Provider -> 0 .. Threshold]
    /\ circuit \in [Provider -> {"closed", "open", "cooled"}]
    /\ request \in [Caller -> Request]

(* A circuit is open, or waits for a trial, if and only if its provider's    *)
(* last calls to end were Threshold failures or more: whatever the order in  *)
(* which the calls of several requests end, an answer closes it.             *)
CircuitFollowsFailures ==
    \A p \in Provider : circuit[p] # "closed" <=> failures[p] >= Threshold

(* However many requests come in while a circuit is open, its provider is    *)
(* called no more: only calls that were under way when it opened are         *)
(* repeated, as often as a request may.                                      *)
OpenCircuitSpares ==
    \A p \in Provider : isCircuitOpen(p) => begun[p] <= caught[p] * (Attempts - 1)

(* Every request ends: retries are bounded, and so is the chain of providers. *)
RequestsEnd == \A c \in Caller : request[c].at # "idle" ~> request[c].at = "idle"

(* 19-ordering-concurrency-and-retry-rules.md:119-120: "after a 60-second     *)
(* cooldown, the breaker admits exactly one trial call."                      *)
OneTrial == \A p \in Provider : circuit[p] = "cooled" => begun[p] <= 1

=============================================================================
