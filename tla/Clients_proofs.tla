--------------------------- MODULE Clients_proofs ---------------------------
(***************************************************************************)
(* What the runtime tells its subscribers, asks of its model providers and *)
(* keeps about MCP servers.                                                *)
(*                                                                         *)
(* Of the model router, whatever the providers, the requests that overlap, *)
(* the attempts and the threshold: a circuit says what the last calls of   *)
(* its provider have come to, and a provider whose circuit is open is      *)
(* called no more, but for the repetitions of the calls that were under    *)
(* way.                                                                    *)
(*                                                                         *)
(* Of the bus, whatever the subscribers and the calls of publish that      *)
(* overlap: no message is lost (AudienceKept), and the retries are bounded *)
(* however many subscribers fail (RetryInv).                               *)
(*                                                                         *)
(* Of the MCP client, whatever the servers, the tools and the capacity:    *)
(* every map keeps its bound, a removal takes what is kept of the server   *)
(* but the resources read from it, and the tools of a server change only   *)
(* by what is done for it or for one whose identifier begins like its own. *)
(* DeleteServers is a recursive function: what it returns is proved by an  *)
(* induction that is stated for sets.                                      *)
(***************************************************************************)
EXTENDS ModelRouter, EventBus, McpClient, FiniteSetTheorems, WellFoundedInduction, TLAPS

\* What is known of a request between two of its steps.
RequestOK(r) ==
    /\ r \in Request
    /\ r.at = "checking" => r.next \in DOMAIN Registered
    /\ r.at = "calling" =>
          /\ r.provider \in Provider /\ r.provider \notin r.candidates
          /\ r.attempt > 0

\* The calls of p, each with its number, that the requests may still repeat.
Left(p) ==
    {call \in Caller \X (1 .. Attempts) :
        IsCalling(call[1], p) /\ request[call[1]].attempt < call[2]}

\* The requests that are calling p, and those that begin a call in a step.
Calling(p) == {c \in Caller : IsCalling(c, p)}
Begun(p) == {c \in Caller : Begins(c, p)}

RouterTypes ==
    /\ failures \in [Provider -> Nat]
    /\ circuit \in [Provider -> {"closed", "open", "cooled"}]
    /\ request \in [Caller -> Request]
    /\ \A c \in Caller : RequestOK(request[c])
    /\ begun \in [Provider -> Nat] /\ caught \in [Provider -> Nat]

\* The calls that may still be repeated count as if they had been.
Budget == \A p \in Provider :
    isCircuitOpen(p) => begun[p] + Cardinality(Left(p)) <= caught[p] * (Attempts - 1)

RouterInv == RouterTypes /\ CircuitFollowsFailures /\ Budget

----------------------------------------------------------------------------
(* The request that a step of it leaves behind.                             *)

LEMMA ProvidersAreRegistered ==
  /\ DOMAIN Registered = 1 .. Len(Registered) /\ Len(Registered) \in Nat
  /\ \A i \in DOMAIN Registered : Registered[i] \in Provider
  BY RouterAssumption DEF Provider

LEMMA NoRequestOK == RequestOK(NoRequest) /\ NoRequest.at # "calling"
  BY RouterAssumption DEF RequestOK, NoRequest, Request, None

LEMMA CallNextRequest ==
  ASSUME NEW c \in Caller, NEW candidates \in SUBSET Provider, CallNext(c, candidates)
  PROVE  \E r : /\ request' = [request EXCEPT ![c] = r] /\ RequestOK(r)
                /\ r.at = "calling" => r.provider \in Callable(candidates)
  <1>1. CASE Ends(c)
    BY <1>1, NoRequestOK DEF Ends
  <1>2. ASSUME NEW p \in Callable(candidates),
               request' = [request EXCEPT ![c] =
                  [NoRequest EXCEPT !.at = "calling", !.provider = p, !.attempt = 1,
                                    !.candidates = After(candidates, p)]]
        PROVE  \E r : /\ request' = [request EXCEPT ![c] = r] /\ RequestOK(r)
                      /\ r.at = "calling" => r.provider \in Callable(candidates)
    <2> DEFINE r == [NoRequest EXCEPT !.at = "calling", !.provider = p, !.attempt = 1,
                                      !.candidates = After(candidates, p)]
    <2>1. p \in Provider /\ Rank[p] \in Int
      BY RouterAssumption DEF Callable
    <2>2. After(candidates, p) \in SUBSET Provider /\ p \notin After(candidates, p)
      BY <2>1 DEF After
    <2>3. RequestOK(r) /\ r.provider = p
      <3>1. NoRequest \in Request /\ 1 \in 0 .. Attempts
        BY NoRequestOK, RouterAssumption DEF RequestOK
      <3>2. r \in Request /\ r.at = "calling" /\ r.provider = p /\ r.attempt = 1
            /\ r.candidates = After(candidates, p)
        BY <2>1, <2>2, <3>1 DEF Request
      <3> HIDE DEF r
      <3> QED  BY <2>1, <2>2, <3>2 DEF RequestOK
    <2> HIDE DEF r
    <2>4. request' = [request EXCEPT ![c] = r]
      BY <1>2 DEF r
    <2> QED  BY <2>3, <2>4
  <1> QED  BY <1>1, <1>2 DEF CallNext

LEMMA CheckNextRequest ==
  ASSUME NEW c \in Caller, NEW fits \in SUBSET Provider, NEW i \in Nat \ {0},
         NEW candidates \in SUBSET Provider, CheckNext(c, fits, i, candidates)
  PROVE  \E r : /\ request' = [request EXCEPT ![c] = r] /\ RequestOK(r)
                /\ r.at = "calling" => ~isCircuitOpen(r.provider)
  <1>1. CASE CallNext(c, candidates)
    BY <1>1, CallNextRequest DEF Callable
  <1>2. ASSUME NEW j \in ToCheck(fits, i),
               request' = [request EXCEPT ![c] =
                  [NoRequest EXCEPT !.at = "checking", !.fits = fits, !.next = j,
                                    !.candidates = candidates]]
        PROVE  \E r : /\ request' = [request EXCEPT ![c] = r] /\ RequestOK(r)
                      /\ r.at = "calling" => ~isCircuitOpen(r.provider)
    <2> DEFINE r == [NoRequest EXCEPT !.at = "checking", !.fits = fits, !.next = j,
                                      !.candidates = candidates]
    <2>1. j \in DOMAIN Registered /\ j \in Nat
      BY ProvidersAreRegistered DEF ToCheck
    <2>2. RequestOK(r) /\ r.at = "checking"
      <3>1. NoRequest \in Request
        BY NoRequestOK DEF RequestOK
      <3>2. r \in Request /\ r.at = "checking" /\ r.next = j
        BY <2>1, <3>1 DEF Request
      <3> HIDE DEF r
      <3> QED  BY <2>1, <3>2 DEF RequestOK
    <2> HIDE DEF r
    <2>3. request' = [request EXCEPT ![c] = r]
      BY <1>2 DEF r
    <2> QED  BY <2>2, <2>3
  <1> QED  BY <1>1, <1>2 DEF CheckNext

\* A request begins or goes on with its health checks.
LEMMA ChecksRequest ==
  ASSUME NEW c \in Caller, RouterTypes,
         CheckStep(c) \/ \E fits \in Fits : Invoke(c, fits)
  PROVE  \E r : /\ request' = [request EXCEPT ![c] = r] /\ RequestOK(r)
                /\ r.at = "calling" => ~isCircuitOpen(r.provider)
  <1>1. RequestOK(request[c])
    BY DEF RouterTypes
  <1>2. CASE HealthThrows(c)
    BY <1>2, NoRequestOK DEF HealthThrows, Ends
  <1>3. ASSUME NEW down \in BOOLEAN, HealthAnswers(c, down)
        PROVE  \E r : /\ request' = [request EXCEPT ![c] = r] /\ RequestOK(r)
                      /\ r.at = "calling" => ~isCircuitOpen(r.provider)
    <2> DEFINE old == request[c]
               next == IF down THEN old.candidates
                       ELSE old.candidates \cup {Registered[old.next]}
    <2>1. old.next + 1 \in Nat \ {0} /\ old.fits \in SUBSET Provider /\ next \in SUBSET Provider
      BY <1>1, <1>3, ProvidersAreRegistered DEF RequestOK, Request, HealthAnswers
    <2>2. CheckNext(c, old.fits, old.next + 1, next)
      BY <1>3 DEF HealthAnswers
    <2> HIDE DEF old, next
    <2> QED  BY <2>1, <2>2, CheckNextRequest
  <1>4. ASSUME NEW fits \in Fits, Invoke(c, fits)
        PROVE  \E r : /\ request' = [request EXCEPT ![c] = r] /\ RequestOK(r)
                      /\ r.at = "calling" => ~isCircuitOpen(r.provider)
    <2>1. fits \in SUBSET Provider /\ {} \in SUBSET Provider /\ 1 \in Nat \ {0}
      BY RouterAssumption
    <2>2. CheckNext(c, fits, 1, {})
      BY <1>4 DEF Invoke
    <2> QED  BY <2>1, <2>2, CheckNextRequest
  <1> QED  BY <1>2, <1>3, <1>4 DEF CheckStep

\* The failing call is repeated, or the request turns to another provider.
LEMMA FailsRequest ==
  ASSUME NEW c \in Caller, NEW p \in Provider, RouterTypes, Fails(c, p)
  PROVE  \E r : /\ request' = [request EXCEPT ![c] = r] /\ RequestOK(r)
                /\ \/ r.at = "calling" => ~isCircuitOpen(r.provider) /\ r.provider # p
                   \/ /\ r.at = "calling" /\ r.provider = p
                      /\ r.attempt = request[c].attempt + 1
  <1> DEFINE old == request[c]
  <1>1. RequestOK(old) /\ old.at = "calling" /\ old.provider = p
    BY DEF RouterTypes, Fails, IsCalling
  <1>2. CASE LastAttempt(old.attempt)
    <2>1. CallNext(c, old.candidates) /\ old.candidates \in SUBSET Provider
          /\ p \notin old.candidates
      BY <1>1, <1>2 DEF Fails, RequestOK, Request
    <2> HIDE DEF old
    <2> QED  BY <2>1, CallNextRequest DEF Callable
  <1>3. CASE ~LastAttempt(old.attempt)
    <2> DEFINE r == [old EXCEPT !.attempt = old.attempt + 1]
    <2>1. old.attempt \in Nat /\ old.attempt < Attempts
      BY <1>1, <1>3, RouterAssumption DEF RequestOK, Request, LastAttempt
    <2>2. request' = [request EXCEPT ![c] = r]
      BY <1>3, <2>1 DEF Fails, RouterTypes
    <2>3. RequestOK(r) /\ r.at = "calling" /\ r.provider = p /\ r.attempt = old.attempt + 1
      <3> HIDE DEF old
      <3>1. old \in Request /\ old.attempt + 1 \in 1 .. Attempts
        BY <1>1, <2>1, RouterAssumption DEF RequestOK
      <3>2. r \in Request /\ r.at = "calling" /\ r.provider = p
            /\ r.candidates = old.candidates /\ r.attempt = old.attempt + 1
        BY <1>1, <3>1 DEF Request
      <3> HIDE DEF r
      <3> QED  BY <1>1, <3>1, <3>2 DEF RequestOK
    <2> HIDE DEF r
    <2> QED  BY <2>2, <2>3
  <1> QED  BY <1>2, <1>3

----------------------------------------------------------------------------
(* The budget of calls.                                                     *)

LEMMA FiniteProduct == IsFiniteSet(Caller \X (1 .. Attempts))
  <1>1. IsFiniteSet(1 .. Attempts)
    BY RouterAssumption, FS_Interval
  <1> QED  BY <1>1, RouterAssumption, FS_Product

LEMMA SetsAreFinite ==
  ASSUME NEW p
  PROVE  /\ IsFiniteSet(Left(p)) /\ IsFiniteSet(Calling(p)) /\ IsFiniteSet(Begun(p))
         /\ Cardinality(Left(p)) \in Nat /\ Cardinality(Calling(p)) \in Nat
         /\ Cardinality(Begun(p)) \in Nat
  <1>1. IsFiniteSet(Left(p)) /\ IsFiniteSet(Calling(p)) /\ IsFiniteSet(Begun(p))
    BY FiniteProduct, RouterAssumption, FS_Subset DEF Left, Calling, Begun
  <1> QED  BY <1>1, FS_CardinalityType

\* Each of the requests calling p may repeat its call Attempts - 1 times.
LEMMA LeftIsBounded ==
  ASSUME NEW p, RouterTypes
  PROVE  Cardinality(Left(p)) <= Cardinality(Calling(p)) * (Attempts - 1)
  <1> DEFINE K == 2 .. Attempts
  <1>1. IsFiniteSet(K) /\ Cardinality(K) = Attempts - 1
    BY RouterAssumption, FS_Interval
  <1>2. Left(p) \subseteq Calling(p) \X K
    BY RouterAssumption DEF Left, Calling, RouterTypes, RequestOK, Request, IsCalling
  <1> HIDE DEF K
  <1>3. IsFiniteSet(Calling(p) \X K)
        /\ Cardinality(Calling(p) \X K) = Cardinality(Calling(p)) * Cardinality(K)
    BY <1>1, SetsAreFinite, FS_Product
  <1>4. Cardinality(Left(p)) <= Cardinality(Calling(p) \X K)
    BY <1>2, <1>3, FS_Subset
  <1> QED  BY <1>1, <1>3, <1>4

\* A step of a request that does not turn to p uses up what may be left.
LEMMA CallsAreSpent ==
  ASSUME NEW p, NEW c \in Caller, NEW r, RouterTypes, RequestOK(r),
         request' = [request EXCEPT ![c] = r],
         \/ ~(r.at = "calling" /\ r.provider = p)
         \/ /\ IsCalling(c, p) /\ r.at = "calling" /\ r.provider = p
            /\ r.attempt = request[c].attempt + 1
  PROVE  Cardinality(Begun(p)) + Cardinality(Left(p)') <= Cardinality(Left(p))
  <1>1. \A d \in Caller : request'[d] = IF d = c THEN r ELSE request[d]
    BY DEF RouterTypes
  <1>2. CASE ~(r.at = "calling" /\ r.provider = p)
    <2>1. Begun(p) = {} /\ Left(p)' \subseteq Left(p)
      BY <1>1, <1>2 DEF Begun, Begins, Left, IsCalling
    <2>2. Cardinality(Left(p)') <= Cardinality(Left(p)) /\ Cardinality(Left(p)') \in Nat
      BY <2>1, SetsAreFinite, FS_Subset, FS_CardinalityType
    <2> QED  BY <2>1, <2>2, FS_EmptySet
  <1>3. CASE /\ IsCalling(c, p) /\ r.at = "calling" /\ r.provider = p
             /\ r.attempt = request[c].attempt + 1
    <2>1. request[c].attempt \in Nat /\ r.attempt \in 1 .. Attempts
      BY <1>3 DEF RouterTypes, RequestOK, Request
    <2>2. Begun(p) \subseteq {c}
      BY <1>1 DEF Begun, Begins
    <2>3. Cardinality(Begun(p)) <= 1
      <3>1. IsFiniteSet({c}) /\ Cardinality({c}) = 1
        BY FS_Singleton
      <3> QED  BY <2>2, <3>1, FS_Subset
    <2>4. <<c, r.attempt>> \in Left(p)
      BY <1>3, <2>1 DEF Left
    <2>5. Left(p)' \subseteq Left(p) \ {<<c, r.attempt>>}
      BY <1>1, <1>3, <2>1 DEF Left, IsCalling, RouterTypes, RequestOK, Request
    <2>6. IsFiniteSet(Left(p) \ {<<c, r.attempt>>})
          /\ Cardinality(Left(p) \ {<<c, r.attempt>>}) = Cardinality(Left(p)) - 1
      BY <2>4, SetsAreFinite, FS_RemoveElement
    <2>7. Cardinality(Left(p)') <= Cardinality(Left(p)) - 1 /\ Cardinality(Left(p)') \in Nat
      BY <2>5, <2>6, FS_Subset, FS_CardinalityType
    <2> QED  BY <2>3, <2>7, SetsAreFinite
  <1> QED  BY <1>2, <1>3

\* What the history variables make of it.
LEMMA BudgetKept ==
  ASSUME RouterTypes, Budget, Observed, circuit' \in [Provider -> {"closed", "open", "cooled"}],
         \A p \in Provider : circuit'[p] = "open" =>
             Cardinality(Begun(p)) + Cardinality(Left(p)') <= Cardinality(Left(p))
  PROVE  Budget' /\ begun' \in [Provider -> Nat] /\ caught' \in [Provider -> Nat]
  <1>1. Most \in Nat
    BY RouterAssumption, FS_CardinalityType DEF Most
  <1>2. ASSUME NEW p \in Provider
        PROVE  /\ begun'[p] \in Nat /\ caught'[p] \in Nat
               /\ begun'[p] <= (IF circuit'[p] = circuit[p] THEN begun[p] ELSE 0)
                               + Cardinality(Begun(p))
               /\ caught'[p] = IF circuit'[p] = "open" /\ circuit[p] # "open"
                               THEN Cardinality(Calling(p)) ELSE caught[p]
    <2> DEFINE number == (IF circuit'[p] = circuit[p] THEN begun[p] ELSE 0)
                         + Cardinality(Begun(p))
    <2>1. begun'[p] = IF number > Most THEN Most ELSE number
      BY DEF Observed, Begun
    <2>2. number \in Nat
      BY SetsAreFinite DEF RouterTypes
    <2> HIDE DEF number
    <2>3. begun'[p] \in Nat /\ begun'[p] <= number
      BY <1>1, <2>1, <2>2
    <2>4. caught'[p] = IF circuit'[p] = "open" /\ circuit[p] # "open"
                       THEN Cardinality(Calling(p)) ELSE caught[p]
      BY DEF Observed, Calling
    <2> QED  BY <2>3, <2>4, SetsAreFinite DEF RouterTypes, number
  <1>3. begun' \in [Provider -> Nat] /\ caught' \in [Provider -> Nat]
    <2>1. begun' = [p \in Provider |-> begun'[p]] /\ caught' = [p \in Provider |-> caught'[p]]
      BY DEF Observed
    <2> QED  BY <1>2, <2>1
  <1>4. ASSUME NEW p \in Provider, circuit'[p] = "open"
        PROVE  begun'[p] + Cardinality(Left(p)') <= caught'[p] * (Attempts - 1)
    <2>1. Cardinality(Begun(p)) + Cardinality(Left(p)') <= Cardinality(Left(p))
      BY <1>4
    <2>2. /\ Cardinality(Begun(p)) \in Nat /\ Cardinality(Left(p)) \in Nat
          /\ Cardinality(Left(p)') \in Nat
      <3>1. IsFiniteSet(Left(p)')
        <4>1. IsFiniteSet(Caller \X (1 .. Attempts))
          BY FiniteProduct
        <4>2. Left(p)' \in SUBSET (Caller \X (1 .. Attempts))
          BY DEF Left
        <4> QED  BY <4>1, <4>2, FS_Subset
      <3> QED  BY <3>1, SetsAreFinite, FS_CardinalityType
    <2>3. CASE circuit[p] = "open"
      <3> DEFINE bound == caught[p] * (Attempts - 1)
      <3>1. begun[p] \in Nat /\ bound \in Int
        BY RouterAssumption DEF RouterTypes
      <3>2. begun[p] + Cardinality(Left(p)) <= bound
        BY <2>3 DEF Budget, isCircuitOpen
      <3>3. begun'[p] \in Nat /\ begun'[p] <= begun[p] + Cardinality(Begun(p))
            /\ caught'[p] = caught[p]
        BY <1>2, <1>4, <2>3
      <3> HIDE DEF bound
      <3>4. begun'[p] + Cardinality(Left(p)') <= bound
        BY <2>1, <2>2, <3>1, <3>2, <3>3
      <3> QED  BY <3>3, <3>4 DEF bound
    <2>4. CASE circuit[p] # "open"
      <3> DEFINE bound == Cardinality(Calling(p)) * (Attempts - 1)
      <3>1. Cardinality(Left(p)) <= bound
        BY LeftIsBounded
      <3>2. begun'[p] \in Nat /\ begun'[p] <= Cardinality(Begun(p))
            /\ caught'[p] = Cardinality(Calling(p))
        BY <1>2, <1>4, <2>2, <2>4
      <3>3. bound \in Int
        BY RouterAssumption, SetsAreFinite
      <3> HIDE DEF bound
      <3>4. begun'[p] + Cardinality(Left(p)') <= bound
        BY <2>1, <2>2, <3>1, <3>2, <3>3
      <3> QED  BY <3>2, <3>4 DEF bound
    <2> QED  BY <2>3, <2>4
  <1> QED  BY <1>3, <1>4 DEF Budget, isCircuitOpen

----------------------------------------------------------------------------
(* The steps.                                                               *)

\* What a step of a request has to show.
LEMMA RequestStep ==
  ASSUME NEW c \in Caller, NEW r, RouterTypes, Budget, RequestOK(r),
         request' = [request EXCEPT ![c] = r], Observed,
         circuit' \in [Provider -> {"closed", "open", "cooled"}],
         failures' \in [Provider -> Nat],
         \A p \in Provider : circuit'[p] = "open" =>
             \/ ~(r.at = "calling" /\ r.provider = p)
             \/ /\ IsCalling(c, p) /\ r.at = "calling" /\ r.provider = p
                /\ r.attempt = request[c].attempt + 1
  PROVE  RouterTypes' /\ Budget'
  <1>1. \A p \in Provider : circuit'[p] = "open" =>
           Cardinality(Begun(p)) + Cardinality(Left(p)') <= Cardinality(Left(p))
    BY CallsAreSpent
  <1>2. Budget' /\ begun' \in [Provider -> Nat] /\ caught' \in [Provider -> Nat]
    BY <1>1, BudgetKept
  <1>3. request' \in [Caller -> Request] /\ \A d \in Caller : RequestOK(request'[d])
    <2>1. r \in Request /\ request \in [Caller -> Request]
      BY DEF RequestOK, RouterTypes
    <2> QED  BY <2>1 DEF RouterTypes
  <1> QED  BY <1>2, <1>3 DEF RouterTypes, RequestOK

LEMMA FailureRecorded ==
  ASSUME NEW p \in Provider, RouterTypes, CircuitFollowsFailures, recordFailure(p)
  PROVE  /\ failures' \in [Provider -> Nat]
         /\ circuit' \in [Provider -> {"closed", "open", "cooled"}]
         /\ CircuitFollowsFailures'
         /\ \A q \in Provider : q # p => circuit'[q] = circuit[q]
  <1> DEFINE failed == IF failures[p] < Threshold THEN failures[p] + 1 ELSE Threshold
  <1>1. failures[p] \in Nat /\ Threshold \in Nat
    BY RouterAssumption DEF RouterTypes
  <1>2. failed \in Nat /\ (failed < Threshold => failures[p] < Threshold)
    BY <1>1
  <1>3. /\ failures' = [failures EXCEPT ![p] = failed]
        /\ circuit' = IF failed >= Threshold THEN [circuit EXCEPT ![p] = "open"] ELSE circuit
    BY DEF recordFailure
  <1> HIDE DEF failed
  <1> QED  BY <1>1, <1>2, <1>3 DEF RouterTypes, CircuitFollowsFailures

LEMMA SuccessRecorded ==
  ASSUME NEW p \in Provider, RouterTypes, CircuitFollowsFailures, recordSuccess(p)
  PROVE  /\ failures' \in [Provider -> Nat]
         /\ circuit' \in [Provider -> {"closed", "open", "cooled"}]
         /\ CircuitFollowsFailures'
  BY RouterAssumption DEF RouterTypes, CircuitFollowsFailures, recordSuccess

\* The types, what a circuit says of the failures counted, and the budget of the
\* repetitions that overlapping invoke() calls may still make.
THEOREM RouterInvariant == Spec => []RouterInv
  <1>1. Init => RouterInv
    <2> SUFFICES ASSUME Init PROVE RouterInv
      OBVIOUS
    <2>1. RouterTypes
      <3>1. NoRequest \in Request
        BY NoRequestOK DEF RequestOK
      <3> QED  BY <3>1, NoRequestOK DEF Init, RouterTypes
    <2>2. CircuitFollowsFailures
      BY RouterAssumption DEF Init, CircuitFollowsFailures
    <2>3. Budget
      BY DEF Init, Budget, isCircuitOpen
    <2> QED  BY <2>1, <2>2, <2>3 DEF RouterInv
  <1>2. RouterInv /\ [Next]_vars => RouterInv'
    <2> SUFFICES ASSUME RouterTypes, CircuitFollowsFailures, Budget, [Next]_vars
                 PROVE  RouterInv'
      BY DEF RouterInv
    <2>1. ASSUME NEW c \in Caller, CheckStep(c) \/ \E fits \in Fits : Invoke(c, fits)
          PROVE  RouterInv'
      <3>1. circuit' = circuit /\ failures' = failures /\ Observed
        BY <2>1 DEF CheckStep, HealthThrows, HealthAnswers, Invoke, circuits
      <3>2. PICK r : /\ request' = [request EXCEPT ![c] = r] /\ RequestOK(r)
                     /\ r.at = "calling" => ~isCircuitOpen(r.provider)
        BY <2>1, ChecksRequest
      <3>3. RouterTypes' /\ Budget'
        BY <3>1, <3>2, RequestStep DEF RouterTypes, isCircuitOpen
      <3> QED  BY <3>1, <3>3 DEF RouterInv, CircuitFollowsFailures
    <2>2. ASSUME NEW c \in Caller, NEW p \in Provider, Answers(c, p) PROVE RouterInv'
      <3>1. request' = [request EXCEPT ![c] = NoRequest] /\ Observed
        BY <2>2 DEF Answers, Ends
      <3>2. /\ failures' \in [Provider -> Nat] /\ CircuitFollowsFailures'
            /\ circuit' \in [Provider -> {"closed", "open", "cooled"}]
        BY <2>2, SuccessRecorded DEF Answers
      <3> QED  BY <3>1, <3>2, NoRequestOK, RequestStep DEF RouterInv
    <2>3. ASSUME NEW c \in Caller, NEW p \in Provider, AnswersBadly(c, p) PROVE RouterInv'
      <3>1. request' = [request EXCEPT ![c] = NoRequest] /\ Observed
        BY <2>3 DEF AnswersBadly, Ends
      <3>2. /\ failures' \in [Provider -> Nat] /\ CircuitFollowsFailures'
            /\ circuit' \in [Provider -> {"closed", "open", "cooled"}]
        BY <2>3, FailureRecorded DEF AnswersBadly
      <3> QED  BY <3>1, <3>2, NoRequestOK, RequestStep DEF RouterInv
    <2>4. ASSUME NEW c \in Caller, NEW p \in Provider, Fails(c, p) PROVE RouterInv'
      <3>1. /\ failures' \in [Provider -> Nat] /\ CircuitFollowsFailures'
            /\ circuit' \in [Provider -> {"closed", "open", "cooled"}]
            /\ \A q \in Provider : q # p => circuit'[q] = circuit[q]
            /\ Observed /\ IsCalling(c, p)
        BY <2>4, FailureRecorded DEF Fails
      <3>2. PICK r : /\ request' = [request EXCEPT ![c] = r] /\ RequestOK(r)
                     /\ \/ r.at = "calling" => ~isCircuitOpen(r.provider) /\ r.provider # p
                        \/ /\ r.at = "calling" /\ r.provider = p
                           /\ r.attempt = request[c].attempt + 1
        BY <2>4, FailsRequest
      <3>3. ASSUME NEW q \in Provider, circuit'[q] = "open"
            PROVE  \/ ~(r.at = "calling" /\ r.provider = q)
                   \/ /\ IsCalling(c, q) /\ r.at = "calling" /\ r.provider = q
                      /\ r.attempt = request[c].attempt + 1
        BY <3>1, <3>2, <3>3 DEF isCircuitOpen
      <3>4. RouterTypes' /\ Budget'
        BY <3>1, <3>2, <3>3, RequestStep
      <3> QED  BY <3>1, <3>4 DEF RouterInv
    <2>5. ASSUME NEW p \in Provider, CoolsDown(p) PROVE RouterInv'
      <3>1. /\ request' = request /\ failures' = failures /\ Observed
            /\ circuit' = [circuit EXCEPT ![p] = "cooled"] /\ circuit[p] = "open"
        BY <2>5 DEF CoolsDown, isCircuitOpen
      <3>2. circuit' \in [Provider -> {"closed", "open", "cooled"}]
        BY <3>1 DEF RouterTypes
      <3>3. ASSUME NEW q \in Provider
            PROVE  Cardinality(Begun(q)) + Cardinality(Left(q)') <= Cardinality(Left(q))
        <4>1. Begun(q) = {} /\ Left(q)' = Left(q)
          BY <3>1 DEF Begun, Begins, Left, IsCalling
        <4> QED  BY <4>1, SetsAreFinite, FS_EmptySet
      <3>4. Budget' /\ begun' \in [Provider -> Nat] /\ caught' \in [Provider -> Nat]
        BY <3>1, <3>2, <3>3, BudgetKept
      <3>5. CircuitFollowsFailures'
        BY <3>1 DEF RouterTypes, CircuitFollowsFailures
      <3> QED  BY <3>1, <3>2, <3>4, <3>5 DEF RouterInv, RouterTypes
    <2>6. CASE UNCHANGED vars
      <3>1. RouterTypes' /\ CircuitFollowsFailures'
        BY <2>6 DEF vars, circuits, RouterTypes, CircuitFollowsFailures
      <3>2. \A p \in Provider : Left(p)' = Left(p)
        BY <2>6 DEF vars, Left, IsCalling
      <3> QED  BY <2>6, <3>1, <3>2 DEF RouterInv, vars, circuits, Budget, isCircuitOpen
    <2> QED  BY <2>1, <2>2, <2>3, <2>4, <2>5, <2>6 DEF Next, CallStep
  <1> QED  BY <1>1, <1>2, PTL DEF Spec

\* Whatever the order in which the calls of several requests end, a circuit is
\* closed exactly while fewer than Threshold calls in a row have failed.
THEOREM CircuitsFollowFailures == Spec => []CircuitFollowsFailures
  BY RouterInvariant, PTL DEF RouterInv

\* While a circuit is open its provider is spared: of all the requests there
\* may be, only those that were calling it when it opened call it again, and
\* each of them at most Attempts - 1 times.
THEOREM OpenCircuitsSpare == Spec => []OpenCircuitSpares
  <1>1. RouterInv => OpenCircuitSpares
    <2> SUFFICES ASSUME RouterInv, NEW p \in Provider, isCircuitOpen(p)
                 PROVE  begun[p] <= caught[p] * (Attempts - 1)
      BY DEF OpenCircuitSpares
    <2> DEFINE bound == caught[p] * (Attempts - 1)
    <2>1. begun[p] + Cardinality(Left(p)) <= bound
      BY DEF RouterInv, Budget
    <2>2. begun[p] \in Nat /\ Cardinality(Left(p)) \in Nat /\ bound \in Int
      BY RouterAssumption, SetsAreFinite DEF RouterInv, RouterTypes
    <2> HIDE DEF bound
    <2>3. begun[p] <= bound
      BY <2>1, <2>2
    <2> QED  BY <2>3 DEF bound
  <1> QED  BY <1>1, RouterInvariant, PTL

----------------------------------------------------------------------------
(* The communication bus: sequences of subscriptions.                      *)

LEMMA Concatenation ==
  ASSUME NEW S, NEW a \in Seq(S), NEW b \in Seq(S)
  PROVE  /\ a \o b \in Seq(S) /\ Len(a \o b) = Len(a) + Len(b)
         /\ \A j \in 1..(Len(a) + Len(b)) :
               (a \o b)[j] = IF j <= Len(a) THEN a[j] ELSE b[j - Len(a)]
  OBVIOUS

LEMMA AfterRemoval ==
  ASSUME NEW S, NEW s \in Seq(S), IsInjective(s), NEW i \in DOMAIN s,
         NEW t, t = RemoveAt(s, i)
  PROVE  /\ t \in Seq(S) /\ IsInjective(t)
         /\ \A j \in DOMAIN t : IF j < i THEN j \in DOMAIN s /\ t[j] = s[j]
                                ELSE j + 1 \in DOMAIN s /\ t[j] = s[j + 1]
         /\ \A j \in DOMAIN s : s[j] = s[i] \/ \E k \in DOMAIN t : t[k] = s[j]
         /\ \A k \in DOMAIN t : t[k] # s[i]
  <1> DEFINE n == Len(s)
             a == SubSeq(s, 1, i - 1)
             b == SubSeq(s, i + 1, n)
  <1>1. /\ n \in Nat /\ DOMAIN s = 1..n /\ i \in 1..n
    OBVIOUS
  <1>2. /\ a \in Seq(S) /\ Len(a) = i - 1 /\ \A j \in 1..(i - 1) : a[j] = s[j]
    BY <1>1
  <1>3. /\ b \in Seq(S) /\ Len(b) = n - i /\ \A j \in 1..(n - i) : b[j] = s[i + j]
    BY <1>1
  <1>4. t = a \o b
    BY DEF RemoveAt
  <1> HIDE DEF a, b
  <1>5. /\ t \in Seq(S) /\ Len(t) = n - 1
        /\ \A j \in 1..(n - 1) : t[j] = IF j < i THEN a[j] ELSE b[j - (i - 1)]
    <2> HIDE DEF n
    <2>1. /\ a \o b \in Seq(S) /\ Len(a \o b) = Len(a) + Len(b)
          /\ \A j \in 1..(Len(a) + Len(b)) :
                (a \o b)[j] = IF j <= Len(a) THEN a[j] ELSE b[j - Len(a)]
      BY <1>2, <1>3, Concatenation
    <2> QED  BY <1>1, <1>2, <1>3, <1>4, <2>1
  <1>6. DOMAIN t = 1..(n - 1)
    BY <1>1, <1>5
  <1>7. ASSUME NEW j \in DOMAIN t
        PROVE  IF j < i THEN j \in DOMAIN s /\ t[j] = s[j]
               ELSE j + 1 \in DOMAIN s /\ t[j] = s[j + 1]
    <2>1. CASE j < i
      BY <1>1, <1>2, <1>5, <1>6, <2>1
    <2>2. CASE ~(j < i)
      <3>1. j - (i - 1) \in 1..(n - i) /\ i + (j - (i - 1)) = j + 1
        BY <1>1, <1>6, <2>2
      <3>2. b[j - (i - 1)] = s[j + 1]
        BY <1>3, <3>1
      <3> QED  BY <1>1, <1>5, <1>6, <2>2, <3>2
    <2> QED  BY <2>1, <2>2
  <1>8. IsInjective(t)
    <2> SUFFICES ASSUME NEW j \in DOMAIN t, NEW k \in DOMAIN t, t[j] = t[k] PROVE j = k
      BY DEF IsInjective
    <2> DEFINE up(x) == IF x < i THEN x ELSE x + 1
    <2>1. up(j) \in DOMAIN s /\ up(k) \in DOMAIN s /\ s[up(j)] = s[up(k)]
      BY <1>7
    <2>2. up(j) = up(k)
      BY <2>1 DEF IsInjective
    <2> QED  BY <1>1, <1>6, <2>2
  <1>9. ASSUME NEW k \in DOMAIN t PROVE t[k] # s[i]
    <2>1. CASE k < i
      BY <1>1, <1>6, <1>7, <2>1 DEF IsInjective
    <2>2. CASE ~(k < i)
      BY <1>1, <1>6, <1>7, <2>2 DEF IsInjective
    <2> QED  BY <2>1, <2>2
  <1>10. ASSUME NEW j \in DOMAIN s, s[j] # s[i] PROVE \E k \in DOMAIN t : t[k] = s[j]
    <2>1. j # i /\ j \in 1..n
      BY <1>1, <1>10
    <2>2. CASE j < i
      <3>1. j \in DOMAIN t /\ t[j] = s[j]
        BY <1>1, <1>6, <1>7, <2>1, <2>2
      <3> QED  BY <3>1
    <2>3. CASE j > i
      <3>1. j - 1 \in DOMAIN t /\ t[j - 1] = s[j]
        BY <1>1, <1>6, <1>7, <2>1, <2>3
      <3> QED  BY <3>1
    <2> QED  BY <1>1, <2>1, <2>2, <2>3
  <1> QED  BY <1>5, <1>7, <1>8, <1>9, <1>10

\* A client that subscribes comes after all the others.
LEMMA AfterAppend ==
  ASSUME NEW S, NEW s \in Seq(S), NEW x \in S, NEW t, t = Append(s, x)
  PROVE  /\ t \in Seq(S) /\ DOMAIN s \subseteq DOMAIN t
         /\ Len(s) \in Nat /\ DOMAIN t = DOMAIN s \cup {Len(s) + 1}
         /\ \A j \in DOMAIN s : t[j] = s[j] /\ j < Len(s) + 1
         /\ t[Len(s) + 1] = x
  OBVIOUS

----------------------------------------------------------------------------
(* Calls of publish, and the step of the loop from one to the next.        *)

Record == [at : Subscriber \cup {Nobody}, left : BOOLEAN, attempt : Nat, set : Nat,
           visited : SUBSET Subscriber, audience : SUBSET Subscriber]
Visit(call, s, n) ==
  [call EXCEPT !.at = s, !.left = FALSE, !.visited = @ \cup {s}, !.attempt = n]

LEMMA Names ==
  /\ Nobody \notin Subscriber
  /\ Failing \subseteq Consumer /\ Consumer \subseteq Subscriber /\ Client \subseteq Subscriber
  /\ Consumer \cap Client = {} /\ MaxHistory \in Nat
  BY NamesAreApart DEF Subscriber, Nobody

LEMMA IdleShape ==
  /\ Idle \in Record /\ Idle.audience = {} /\ Idle.visited = {} /\ Idle.at = Nobody
  BY DEF Idle, Record

LEMMA VisitShape ==
  ASSUME NEW call \in Record, NEW s \in Subscriber, NEW n \in Nat
  PROVE  /\ Visit(call, s, n) \in Record
         /\ Visit(call, s, n).at = s /\ Visit(call, s, n).attempt = n
         /\ ~Visit(call, s, n).left
         /\ Visit(call, s, n).set = call.set
         /\ Visit(call, s, n).audience = call.audience
         /\ Visit(call, s, n).visited = call.visited \cup {s}
  <1> DEFINE v == call.visited \cup {s}
             new == [call EXCEPT !.at = s, !.left = FALSE, !.visited = v, !.attempt = n]
  <1>1. v \in SUBSET Subscriber
    BY DEF Record
  <1>2. Visit(call, s, n) = new
    BY DEF Visit
  <1> HIDE DEF v
  <1>3. /\ new \in Record /\ new.at = s /\ new.attempt = n /\ ~new.left
        /\ new.set = call.set /\ new.audience = call.audience /\ new.visited = v
    BY <1>1 DEF Record
  <1> HIDE DEF new
  <1> QED  BY <1>2, <1>3 DEF v

LEMMA Typed ==
  ASSUME BusTypeOK
  PROVE  /\ members \in Seq(Subscriber) /\ IsInjective(members)
         /\ publishing \in [Message -> Record]
         /\ processed \in [Subscriber -> SUBSET Message]
         /\ attempts \in [Message -> Nat]
         /\ called \in [Subscriber \X Message -> Nat]
         /\ thrown \in [Message -> SUBSET Failing]
         /\ \A i \in DOMAIN members : members[i] \in Subscriber
  BY DEF BusTypeOK, Record

\* The loop of publish, entered with what the call has so far.
Returned(m) ==
  /\ publishing' = [publishing EXCEPT ![m] = Idle]
  /\ accepted' = accepted \cup {m} /\ called' = called
Visited(m, call, counted, i) ==
  /\ publishing' = [publishing EXCEPT ![m] = Visit(call, members[i], counted + 1)]
  /\ attempts' = [attempts EXCEPT ![m] = counted + 1]
  /\ called' = [called EXCEPT ![<<members[i], m>>] = @ + 1]
  /\ accepted' = accepted

LEMMA ContinueShape ==
  ASSUME BusTypeOK, NEW m \in Message, NEW call \in Record,
         NEW done \in [Subscriber -> SUBSET Message], NEW counted \in Nat,
         Continue(m, call, done, counted)
  PROVE  /\ processed' = done
         /\ \/ Unvisited(m, call, done) = {} /\ Returned(m)
            \/ \E i \in Unvisited(m, call, done) :
                  /\ \A j \in Unvisited(m, call, done) : i <= j
                  /\ i \in DOMAIN members /\ members[i] \in Subscriber
                  /\ Visited(m, call, counted, i)
  <1>1. CASE Unvisited(m, call, done) = {}
    BY <1>1 DEF Continue, ReturnOk, Returned
  <1>2. CASE Unvisited(m, call, done) # {}
    <2>1. processed' = done
      BY DEF Continue
    <2>2. PICK i \in Unvisited(m, call, done) :
             /\ \A j \in Unvisited(m, call, done) : i <= j
             /\ Deliver(m, call, counted, members[i])
      BY <1>2 DEF Continue
    <2>3. i \in DOMAIN members /\ members[i] \in Subscriber
      BY Typed DEF Unvisited
    <2>4. Visited(m, call, counted, i)
      BY <2>2 DEF Deliver, Visited, Visit
    <2> QED  BY <2>1, <2>2, <2>3, <2>4
  <1> QED  BY <1>1, <1>2

\* What is stored of a client when it is sent an event.
LEMMA ClientsTyped ==
  ASSUME BusTypeOK, NEW m \in Message, NEW s, Receive(m, s)
  PROVE  clients' \in [Client -> [got : SUBSET Message, cursor : Message \cup {Nobody},
                                  connections : Nat]]
  <1> DEFINE C == [got : SUBSET Message, cursor : Message \cup {Nobody}, connections : Nat]
             new(c) == [clients[c] EXCEPT !.got = @ \cup {m}, !.cursor = m]
  <1>1. ASSUME NEW c \in Client PROVE new(c) \in C /\ clients[c] \in C
    <2>1. clients[c] \in C
      BY DEF BusTypeOK
    <2> DEFINE g == clients[c].got \cup {m}
    <2>2. g \in SUBSET Message
      BY <2>1
    <2> HIDE DEF g
    <2>3. [clients[c] EXCEPT !.got = g, !.cursor = m] \in C
      BY <2>1, <2>2
    <2> QED  BY <2>1, <2>3 DEF g
  <1>2. clients' = [c \in Client |-> IF c # s THEN clients[c] ELSE new(c)]
    BY DEF Receive
  <1> HIDE DEF C, new
  <1>3. clients' \in [Client -> C]
    BY <1>1, <1>2
  <1> QED  BY <1>3 DEF C

LEMMA Shorter ==
  ASSUME NEW S, NEW s \in Seq(S), s # <<>>
  PROVE  Tail(s) \in Seq(S) /\ Len(Tail(s)) = Len(s) - 1
  OBVIOUS

LEMMA ContinueTypes ==
  ASSUME BusTypeOK, NEW m \in Message, NEW call \in Record,
         NEW done \in [Subscriber -> SUBSET Message], NEW counted \in Nat,
         Continue(m, call, done, counted),
         UNCHANGED topic, deadLetters' \in Seq(Message \X Subscriber),
         thrown' \in [Message -> SUBSET Failing]
  PROVE  BusTypeOK'
  <1>1. members' = members /\ topicSet' = topicSet
    BY DEF topic
  <1>2. processed' = done
    BY DEF Continue
  <1>3. CASE ReturnOk(m, counted)
    <2> DEFINE longer == Append(history, m)
    <2>1. /\ publishing' = [publishing EXCEPT ![m] = Idle]
          /\ attempts' = [attempts EXCEPT ![m] = counted]
          /\ accepted' = accepted \cup {m} /\ called' = called /\ clients' = clients
          /\ history' = IF m \notin Journaled THEN history
                        ELSE IF Len(longer) > MaxHistory THEN Tail(longer) ELSE longer
      BY <1>3 DEF ReturnOk
    <2>2. history \in Seq(Journaled \cap accepted') /\ Len(history) <= MaxHistory
      BY <2>1 DEF BusTypeOK
    <2>3. history' \in Seq(Journaled \cap accepted') /\ Len(history') <= MaxHistory
      <3>1. CASE m \notin Journaled
        BY <2>1, <2>2, <3>1
      <3>2. CASE m \in Journaled
        <4>1. longer \in Seq(Journaled \cap accepted') /\ Len(longer) = Len(history) + 1
              /\ Len(history) \in Nat /\ longer # <<>>
          <5>1. m \in Journaled \cap accepted'
            BY <2>1, <3>2
          <5> QED  BY <2>2, <5>1
        <4> HIDE DEF longer
        <4>2. Tail(longer) \in Seq(Journaled \cap accepted') /\ Len(Tail(longer)) = Len(history)
          BY <4>1, Shorter
        <4>3. history' = IF Len(longer) > MaxHistory THEN Tail(longer) ELSE longer
          BY <2>1, <3>2
        <4> QED  BY <2>2, <4>1, <4>2, <4>3, Names
      <3> QED  BY <3>1, <3>2
    <2>4. publishing' \in [Message -> Record]
          /\ \A n \in Message : publishing'[n].at = Nobody => publishing'[n].audience = {}
      BY <2>1, Typed, IdleShape DEF BusTypeOK, InProgress
    <2> HIDE DEF longer
    <2> QED  BY <1>1, <1>2, <2>1, <2>3, <2>4 DEF BusTypeOK, Record, InProgress
  <1>4. ASSUME NEW i \in Unvisited(m, call, done), Deliver(m, call, counted, members[i])
        PROVE  BusTypeOK'
    <2>1. members[i] \in Subscriber
      BY Typed DEF Unvisited
    <2> DEFINE s == members[i]
               new == Visit(call, s, counted + 1)
    <2>2. new \in Record /\ new.at = s /\ s # Nobody
      BY <2>1, Names, VisitShape
    <2>3. /\ publishing' = [publishing EXCEPT ![m] = new]
          /\ attempts' = [attempts EXCEPT ![m] = counted + 1]
          /\ called' = [called EXCEPT ![<<s, m>>] = @ + 1]
          /\ accepted' = accepted /\ history' = history
      BY <1>4 DEF Deliver, Visit
    <2>4. clients' \in [Client -> [got : SUBSET Message, cursor : Message \cup {Nobody},
                                   connections : Nat]]
      BY <1>4, ClientsTyped DEF Deliver
    <2>5. s \in Subscriber
      BY <2>1
    <2> HIDE DEF new, s
    <2>6. publishing' \in [Message -> Record]
          /\ \A n \in Message : publishing'[n].at = Nobody => publishing'[n].audience = {}
      BY <2>2, <2>3, Typed DEF BusTypeOK, InProgress
    <2>7. called' \in [Subscriber \X Message -> Nat] /\ attempts' \in [Message -> Nat]
      BY <2>3, <2>5, Typed
    <2> QED  BY <1>1, <1>2, <2>3, <2>4, <2>6, <2>7 DEF BusTypeOK, Record, InProgress
  <1> QED  BY <1>3, <1>4 DEF Continue

----------------------------------------------------------------------------
(* The changes of the subscriptions.                                       *)

LEMMA InSequence ==
  ASSUME NEW S, NEW s \in Seq(S), NEW x
  PROVE  /\ Contains(s, x) <=> \E i \in DOMAIN s : s[i] = x
         /\ x \in ToSet(s) <=> \E i \in DOMAIN s : s[i] = x
         /\ Contains(s, x) <=> x \in ToSet(s)
  BY DEF Contains, ToSet

LEMMA ConnectShape ==
  ASSUME BusTypeOK, NEW c \in Client, Connect(c)
  PROVE  /\ c \in Subscriber /\ c \notin ToSet(members) /\ c \notin Consumer
         /\ members' = Append(members, c)
         /\ members' \in Seq(Subscriber) /\ IsInjective(members')
         /\ ToSet(members') = ToSet(members) \cup {c}
         /\ members # <<>> => topicSet' = topicSet
         /\ topicSet' \in Nat
         /\ processed' = [processed EXCEPT ![c] = {}]
         /\ publishing' \in [Message -> Record]
         /\ \A m \in Message :
              /\ publishing'[m].at = publishing[m].at
              /\ publishing'[m].left = publishing[m].left
              /\ publishing'[m].attempt = publishing[m].attempt
              /\ publishing'[m].set = publishing[m].set
              /\ publishing'[m].audience = publishing[m].audience
              /\ publishing'[m].visited = publishing[m].visited \ {c}
         /\ UNCHANGED <<attempts, deadLetters, due, called, thrown, history, published, accepted>>
  <1>1. c \in Subscriber /\ c \notin Consumer
    BY Names
  <1>2. /\ ~Contains(members, c) /\ members' = Append(members, c)
        /\ topicSet' = IF members = <<>> THEN topicSet + 1 ELSE topicSet
        /\ processed' = [processed EXCEPT ![c] = {}]
        /\ publishing' = [m \in Message |-> [publishing[m] EXCEPT !.visited = @ \ {c}]]
        /\ UNCHANGED <<attempts, deadLetters, due, called, thrown, history, published, accepted>>
    BY DEF Connect, Subscribe
  <1>3. c \notin ToSet(members) /\ \A i \in DOMAIN members : members[i] # c
    BY <1>2, Typed, InSequence
  <1>4. /\ members' \in Seq(Subscriber)
        /\ Len(members) \in Nat /\ DOMAIN members' = DOMAIN members \cup {Len(members) + 1}
        /\ \A j \in DOMAIN members : members'[j] = members[j] /\ j < Len(members) + 1
        /\ members'[Len(members) + 1] = c
    BY <1>1, <1>2, Typed, AfterAppend
  <1>5. IsInjective(members')
    BY <1>3, <1>4, Typed DEF IsInjective
  <1>6. ToSet(members') = ToSet(members) \cup {c}
    BY <1>4 DEF ToSet
  <1>7. topicSet' \in Nat
    BY <1>2 DEF BusTypeOK
  <1>8. ASSUME NEW m \in Message
        PROVE  /\ publishing'[m] \in Record
               /\ publishing'[m].at = publishing[m].at
               /\ publishing'[m].left = publishing[m].left
               /\ publishing'[m].attempt = publishing[m].attempt
               /\ publishing'[m].set = publishing[m].set
               /\ publishing'[m].audience = publishing[m].audience
               /\ publishing'[m].visited = publishing[m].visited \ {c}
    <2> DEFINE v == publishing[m].visited \ {c}
               call == publishing[m]
    <2>1. call \in Record
      BY Typed
    <2>2. v \in SUBSET Subscriber
      BY <2>1 DEF Record
    <2>3. publishing'[m] = [call EXCEPT !.visited = v]
      BY <1>2
    <2> HIDE DEF v, call
    <2>4. /\ [call EXCEPT !.visited = v] \in Record
          /\ [call EXCEPT !.visited = v].at = call.at
          /\ [call EXCEPT !.visited = v].left = call.left
          /\ [call EXCEPT !.visited = v].attempt = call.attempt
          /\ [call EXCEPT !.visited = v].set = call.set
          /\ [call EXCEPT !.visited = v].audience = call.audience
          /\ [call EXCEPT !.visited = v].visited = v
      BY <2>1, <2>2 DEF Record
    <2> QED  BY <2>3, <2>4 DEF v, call
  <1>9. publishing' \in [Message -> Record]
    BY <1>2, <1>8
  <1> QED  BY <1>1, <1>2, <1>3, <1>4, <1>5, <1>6, <1>7, <1>8, <1>9

LEMMA UnsubscribeShape ==
  ASSUME BusTypeOK, NEW s \in Subscriber, Unsubscribe(s)
  PROVE  /\ members' \in Seq(Subscriber) /\ IsInjective(members')
         /\ ToSet(members') = ToSet(members) \ {s}
         /\ \E i \in DOMAIN members :
              /\ members[i] = s
              /\ \A j \in DOMAIN members' :
                   IF j < i THEN j \in DOMAIN members /\ members'[j] = members[j]
                            ELSE j + 1 \in DOMAIN members /\ members'[j] = members[j + 1]
         /\ publishing' \in [Message -> Record]
         /\ \A m \in Message :
              /\ publishing'[m].at = publishing[m].at
              /\ publishing'[m].left = (publishing[m].left \/ publishing[m].at = s)
              /\ publishing'[m].attempt = publishing[m].attempt
              /\ publishing'[m].set = publishing[m].set
              /\ publishing'[m].audience = publishing[m].audience \ {s}
              /\ publishing'[m].visited = publishing[m].visited
         /\ UNCHANGED <<topicSet, processed, attempts, deadLetters, history, clients, due,
                        called, thrown, published, accepted>>
  <1>1. PICK i \in DOMAIN members : members[i] = s /\ members' = RemoveAt(members, i)
    BY DEF Unsubscribe
  <1>2. /\ publishing' = [m \in Message |->
             [publishing[m] EXCEPT !.audience = @ \ {s}, !.left = @ \/ publishing[m].at = s]]
        /\ UNCHANGED <<topicSet, processed, attempts, deadLetters, history, clients, due,
                       called, thrown, published, accepted>>
    BY DEF Unsubscribe
  <1>3. /\ members' \in Seq(Subscriber) /\ IsInjective(members')
        /\ \A j \in DOMAIN members' :
             IF j < i THEN j \in DOMAIN members /\ members'[j] = members[j]
                      ELSE j + 1 \in DOMAIN members /\ members'[j] = members[j + 1]
        /\ \A j \in DOMAIN members : members[j] = members[i] \/
              \E k \in DOMAIN members' : members'[k] = members[j]
        /\ \A k \in DOMAIN members' : members'[k] # members[i]
    BY <1>1, Typed, AfterRemoval
  <1>4. ToSet(members') = ToSet(members) \ {s}
    <2>1. ASSUME NEW x \in ToSet(members') PROVE x \in ToSet(members) \ {s}
      BY <1>1, <1>3, <2>1 DEF ToSet
    <2>2. ASSUME NEW x \in ToSet(members) \ {s} PROVE x \in ToSet(members')
      BY <1>1, <1>3, <2>2 DEF ToSet
    <2> QED  BY <2>1, <2>2
  <1>5. ASSUME NEW m \in Message
        PROVE  /\ publishing'[m] \in Record
               /\ publishing'[m].at = publishing[m].at
              /\ publishing'[m].left = (publishing[m].left \/ publishing[m].at = s)
               /\ publishing'[m].attempt = publishing[m].attempt
               /\ publishing'[m].set = publishing[m].set
               /\ publishing'[m].audience = publishing[m].audience \ {s}
               /\ publishing'[m].visited = publishing[m].visited
    <2> DEFINE call == publishing[m]
               a == call.audience \ {s}
               left == call.left \/ call.at = s
    <2>1. call \in Record
      BY Typed
    <2>2. a \in SUBSET Subscriber /\ left \in BOOLEAN
      BY <2>1 DEF Record
    <2>3. publishing'[m] = [call EXCEPT !.audience = a, !.left = left]
      BY <1>2
    <2> HIDE DEF a, left, call
    <2>4. /\ [call EXCEPT !.audience = a, !.left = left] \in Record
          /\ [call EXCEPT !.audience = a, !.left = left].at = call.at
          /\ [call EXCEPT !.audience = a, !.left = left].left = left
          /\ [call EXCEPT !.audience = a, !.left = left].attempt = call.attempt
          /\ [call EXCEPT !.audience = a, !.left = left].set = call.set
          /\ [call EXCEPT !.audience = a, !.left = left].audience = a
          /\ [call EXCEPT !.audience = a, !.left = left].visited = call.visited
      BY <2>1, <2>2 DEF Record
    <2> QED  BY <2>3, <2>4 DEF a, left, call
  <1>6. publishing' \in [Message -> Record]
    BY <1>2, <1>5
  <1> QED  BY <1>1, <1>2, <1>3, <1>4, <1>5, <1>6

\* The three ways into the loop.
Entered(m, call, done, counted) ==
  /\ call \in Record /\ done \in [Subscriber -> SUBSET Message] /\ counted \in Nat
  /\ Continue(m, call, done, counted) /\ UNCHANGED topic

LEMMA MarkedTyped ==
  ASSUME BusTypeOK, NEW m \in Message
  PROVE  /\ Marked(m) \in [Subscriber -> SUBSET Message]
         /\ \A s \in Subscriber : Marked(m)[s] = IF s = publishing[m].at /\ ~publishing[m].left
                                                 THEN processed[s] \cup {m} ELSE processed[s]
  BY Typed DEF Marked

LEMMA PublishEnters ==
  ASSUME BusTypeOK, NEW m \in Message, Publish(m)
  PROVE  LET call == [Idle EXCEPT !.set = topicSet, !.audience = ToSet(members)] IN
         /\ Entered(m, call, processed, attempts[m])
         /\ publishing[m].at = Nobody /\ publishing[m].audience = {} /\ m \notin accepted
         /\ call.at = Nobody /\ call.set = topicSet
         /\ call.audience = ToSet(members) /\ call.visited = {}
         /\ deadLetters' = deadLetters /\ thrown' = thrown
  <1> DEFINE a == ToSet(members)
             call == [Idle EXCEPT !.set = topicSet, !.audience = a]
  <1>1. /\ Continue(m, call, processed, attempts[m]) /\ UNCHANGED topic
        /\ ~InProgress(m) /\ m \notin accepted
        /\ deadLetters' = deadLetters /\ thrown' = thrown
    BY DEF Publish
  <1>2. a \in SUBSET Subscriber /\ topicSet \in Nat
    BY Typed DEF ToSet, BusTypeOK
  <1> HIDE DEF a
  <1>3. /\ call \in Record /\ call.at = Nobody /\ call.set = topicSet
        /\ call.audience = a /\ call.visited = {}
    BY <1>2 DEF Idle, Record
  <1> HIDE DEF call
  <1>4. Entered(m, call, processed, attempts[m])
    BY <1>1, <1>3, Typed DEF Entered
  <1>5. publishing[m].at = Nobody /\ publishing[m].audience = {}
    BY <1>1 DEF InProgress, BusTypeOK
  <1> QED  BY <1>1, <1>3, <1>4, <1>5 DEF a, call

LEMMA HandlerReturnsEnters ==
  ASSUME BusTypeOK, NEW m \in Message, HandlerReturns(m)
  PROVE  /\ Entered(m, publishing[m], Marked(m), 0) /\ InProgress(m)
         /\ deadLetters' = deadLetters /\ thrown' = thrown
  BY Typed, MarkedTyped DEF HandlerReturns, Entered

LEMMA GivingUpEnters ==
  ASSUME BusTypeOK, NEW m \in Message, HandlerFailsForGood(m)
  PROVE  /\ Entered(m, publishing[m], processed, 0) /\ InProgress(m)
         /\ publishing[m].at \in Failing
         /\ thrown' = [thrown EXCEPT ![m] = @ \cup {publishing[m].at}]
         /\ deadLetters' = Append(deadLetters, <<m, publishing[m].at>>)
  BY Typed DEF HandlerFailsForGood, Throws, Entered, Buried

LEMMA BusTypesKept ==
  ASSUME BusTypeOK, [BusNext]_bus
  PROVE  BusTypeOK'
  <1>1. ASSUME NEW m \in Message, Publish(m) PROVE BusTypeOK'
    BY <1>1, PublishEnters, ContinueTypes DEF Entered, BusTypeOK
  <1>2. ASSUME NEW m \in Message, HandlerReturns(m) PROVE BusTypeOK'
    <2>1. deadLetters' \in Seq(Message \X Subscriber) /\ thrown' \in [Message -> SUBSET Failing]
      BY <1>2, HandlerReturnsEnters DEF BusTypeOK
    <2> QED  BY <1>2, <2>1, HandlerReturnsEnters, ContinueTypes DEF Entered
  <1>3. ASSUME NEW m \in Message, HandlerFails(m) PROVE BusTypeOK'
    <2>1. publishing' = [publishing EXCEPT ![m] = Idle]
      BY <1>3 DEF HandlerFails
    <2>2. publishing' \in [Message -> Record]
          /\ \A n \in Message : publishing'[n].at = Nobody => publishing'[n].audience = {}
      BY <2>1, Typed, IdleShape DEF BusTypeOK, InProgress
    <2>3. UNCHANGED <<members, topicSet, processed, attempts, deadLetters, history, clients,
                      due, called, published, accepted>>
      BY <1>3 DEF HandlerFails, topic
    <2>4. thrown' \in [Message -> SUBSET Failing]
      BY <1>3, Typed DEF HandlerFails, Throws
    <2> QED  BY <2>2, <2>3, <2>4 DEF BusTypeOK, Record, InProgress
  <1>4. ASSUME NEW m \in Message, HandlerFailsForGood(m) PROVE BusTypeOK'
    <2>1. deadLetters' \in Seq(Message \X Subscriber)
      <3>1. publishing[m].at \in Subscriber
        BY <1>4, GivingUpEnters, Names
      <3>2. <<m, publishing[m].at>> \in Message \X Subscriber
        BY <3>1
      <3>3. deadLetters \in Seq(Message \X Subscriber)
        BY DEF BusTypeOK
      <3>4. deadLetters' = Append(deadLetters, <<m, publishing[m].at>>)
        BY <1>4, GivingUpEnters
      <3> QED  BY <3>2, <3>3, <3>4
    <2>2. thrown' \in [Message -> SUBSET Failing]
      BY <1>4, GivingUpEnters, Typed
    <2> QED  BY <1>4, <2>1, <2>2, GivingUpEnters, ContinueTypes DEF Entered
  <1>5. ASSUME NEW s \in Subscriber, Unsubscribe(s) PROVE BusTypeOK'
    <2>1. /\ members' \in Seq(Subscriber) /\ IsInjective(members')
          /\ publishing' \in [Message -> Record]
          /\ UNCHANGED <<topicSet, processed, attempts, deadLetters, history, clients, due,
                         called, thrown, published, accepted>>
      BY <1>5, UnsubscribeShape
    <2>2. ASSUME NEW m \in Message, publishing'[m].at = Nobody
          PROVE  publishing'[m].audience = {}
      BY <1>5, <2>2, UnsubscribeShape, Names DEF BusTypeOK, InProgress
    <2> QED  BY <2>1, <2>2 DEF BusTypeOK, Record, InProgress
  <1>6. ASSUME NEW c \in Client, Connect(c) PROVE BusTypeOK'
    <2>1. /\ members' \in Seq(Subscriber) /\ IsInjective(members') /\ topicSet' \in Nat
          /\ publishing' \in [Message -> Record]
          /\ processed' = [processed EXCEPT ![c] = {}]
          /\ UNCHANGED <<attempts, deadLetters, due, called, thrown, history, published, accepted>>
      BY <1>6, ConnectShape
    <2>2. ASSUME NEW m \in Message, publishing'[m].at = Nobody
          PROVE  publishing'[m].audience = {}
      BY <1>6, <2>2, ConnectShape DEF BusTypeOK, InProgress
    <2>3. processed' \in [Subscriber -> SUBSET Message]
      BY <2>1, Typed
    <2>4. clients' \in [Client -> [got : SUBSET Message, cursor : Message \cup {Nobody},
                                   connections : Nat]]
      <3> DEFINE C == [got : SUBSET Message, cursor : Message \cup {Nobody}, connections : Nat]
                 g == clients[c].got \cup Replay(clients[c].cursor)
                 n == clients[c].connections + 1
      <3>1. clients \in [Client -> C] /\ clients[c] \in C
        BY DEF BusTypeOK
      <3>2. Replay(clients[c].cursor) \subseteq Message
        BY NamesAreApart DEF Replay, BusTypeOK
      <3>3. g \in SUBSET Message /\ n \in Nat
        BY <3>1, <3>2
      <3>4. clients' = [clients EXCEPT ![c] = [clients[c] EXCEPT !.got = g, !.connections = n]]
        BY <1>6 DEF Connect
      <3> HIDE DEF g, n
      <3>5. [clients[c] EXCEPT !.got = g, !.connections = n] \in C
        BY <3>1, <3>3
      <3> HIDE DEF C
      <3>6. clients' \in [Client -> C]
        BY <3>1, <3>4, <3>5
      <3> QED  BY <3>6 DEF C
    <2> QED  BY <2>1, <2>2, <2>3, <2>4 DEF BusTypeOK, Record, InProgress
  <1>7. CASE UNCHANGED bus
    BY <1>7 DEF bus, topic, BusTypeOK, InProgress
  <1> QED  BY <1>1, <1>2, <1>3, <1>4, <1>5, <1>6, <1>7 DEF BusNext

LEMMA BusStarts ==
  ASSUME BusInit
  PROVE  /\ BusTypeOK /\ publishing = [m \in Message |-> Idle]
         /\ \A s \in Subscriber, m \in Message : called[<<s, m>>] = 0 /\ m \notin processed[s]
         /\ \A m \in Message : attempts[m] = 0 /\ m \notin accepted /\ thrown[m] = {}
  <1>1. Cardinality(Consumer) \in Nat
    BY FS_CardinalityType, NamesAreApart
  <1>2. members \in Seq(Subscriber) /\ IsInjective(members)
    <2>1. members \in [1..Cardinality(Consumer) -> Subscriber]
      BY Names DEF BusInit
    <2> QED  BY <1>1, <2>1 DEF BusInit
  <1>3. publishing \in [Message -> Record] /\ \A m \in Message : publishing[m].audience = {}
    BY IdleShape DEF BusInit
  <1>4. clients \in [Client -> [got : SUBSET Message, cursor : Message \cup {Nobody},
                                connections : Nat]]
    BY DEF BusInit, NewClient
  <1>5. BusTypeOK
    BY <1>2, <1>3, <1>4, Names DEF BusInit, BusTypeOK, Record
  <1> QED  BY <1>5 DEF BusInit

\* The types: what the bus keeps of a message is of the subscribers and
\* messages there are, and the journal holds accepted messages only, no more
\* than it may retain.
THEOREM BusTypes == BusSpec => []BusTypeOK
  <1>1. BusInit => BusTypeOK
    BY BusStarts
  <1>2. BusTypeOK /\ [BusNext]_bus => BusTypeOK'
    BY BusTypesKept
  <1> QED  BY <1>1, <1>2, PTL DEF BusSpec

----------------------------------------------------------------------------
(* What a call of publish still owes to those that were there when it was  *)
(* made, and have stayed.                                                  *)

AudienceKept(m) ==
  LET call == publishing[m] IN
  /\ call.audience \subseteq ToSet(members)
  /\ call.audience # {} => call.set = topicSet
  /\ \A s \in call.audience \cap call.visited :
        \/ s = call.at /\ ~call.left
        \/ m \in processed[s]
        \/ Contains(deadLetters, <<m, s>>)

\* One step of the loop leaves nobody out that the call has come by.
LEMMA LoopKeepsAudience ==
  ASSUME BusTypeOK, NEW m \in Message, NEW call, NEW done, NEW counted,
         Entered(m, call, done, counted),
         call.audience \subseteq ToSet(members),
         call.audience # {} => call.set = topicSet,
         \A s \in call.audience \cap call.visited :
            m \in done[s] \/ Contains(deadLetters', <<m, s>>)
  PROVE  /\ AudienceKept(m)'
         /\ m \in accepted' => m \in accepted \/ \A s \in call.audience :
               m \in processed'[s] \/ Contains(deadLetters', <<m, s>>)
  <1>1. call \in Record /\ done \in [Subscriber -> SUBSET Message] /\ counted \in Nat
        /\ members' = members /\ topicSet' = topicSet
    BY DEF Entered, topic
  <1>2. processed' = done
    BY <1>1, ContinueShape DEF Entered
  <1>3. CASE Unvisited(m, call, done) = {} /\ Returned(m)
    <2>1. publishing'[m] = Idle
      BY <1>3, Typed DEF Returned
    <2>2. AudienceKept(m)'
      BY <2>1, IdleShape DEF AudienceKept
    <2>3. ASSUME NEW s \in call.audience
          PROVE  m \in processed'[s] \/ Contains(deadLetters', <<m, s>>)
      <3>1. PICK i \in DOMAIN members : members[i] = s
        BY Typed, InSequence
      <3>2. call.set = topicSet /\ i \notin Unvisited(m, call, done)
        BY <1>3
      <3> QED  BY <1>2, <3>1, <3>2 DEF Unvisited
    <2> QED  BY <2>2, <2>3
  <1>4. ASSUME NEW i \in DOMAIN members, members[i] \in Subscriber,
               Visited(m, call, counted, i)
        PROVE  AudienceKept(m)' /\ accepted' = accepted
    <2>1. /\ publishing'[m] = Visit(call, members[i], counted + 1)
          /\ accepted' = accepted
      BY <1>4, Typed DEF Visited
    <2>2. /\ publishing'[m].at = members[i] /\ publishing'[m].set = call.set
          /\ ~publishing'[m].left
          /\ publishing'[m].audience = call.audience
          /\ publishing'[m].visited = call.visited \cup {members[i]}
      BY <1>1, <1>4, <2>1, VisitShape
    <2> QED  BY <1>1, <1>2, <2>1, <2>2 DEF AudienceKept
  <1> QED  BY <1>1, <1>3, <1>4, ContinueShape DEF Entered

\* The other messages are not touched by a step of the loop.
LEMMA LoopLeavesOthers ==
  ASSUME BusTypeOK, NEW m \in Message, NEW call, NEW done, NEW counted,
         Entered(m, call, done, counted), NEW n \in Message, n # m
  PROVE  /\ publishing'[n] = publishing[n] /\ (n \in accepted' <=> n \in accepted)
         /\ \A s \in Subscriber : called'[<<s, n>>] = called[<<s, n>>]
         /\ attempts'[n] = attempts[n]
         /\ processed' = done /\ members' = members /\ topicSet' = topicSet
  <1>1. call \in Record /\ done \in [Subscriber -> SUBSET Message] /\ counted \in Nat
        /\ members' = members /\ topicSet' = topicSet
    BY DEF Entered, topic
  <1>2. attempts'[n] = attempts[n]
    BY Typed DEF Entered, Continue, ReturnOk, Deliver
  <1>3. CASE Returned(m)
    BY <1>1, <1>2, <1>3, Typed, ContinueShape DEF Returned, Entered
  <1>4. ASSUME NEW i \in DOMAIN members, Visited(m, call, counted, i)
        PROVE  /\ publishing'[n] = publishing[n] /\ accepted' = accepted
               /\ \A s \in Subscriber : called'[<<s, n>>] = called[<<s, n>>]
    BY <1>4, Typed DEF Visited
  <1> QED  BY <1>1, <1>2, <1>3, <1>4, ContinueShape DEF Entered

LEMMA MoreLetters ==
  ASSUME BusTypeOK, NEW x \in Message \X Subscriber, deadLetters' = Append(deadLetters, x)
  PROVE  /\ Contains(deadLetters', x)
         /\ \A y : Contains(deadLetters, y) => Contains(deadLetters', y)
  <1> DEFINE S == Message \X Subscriber
  <1>1. deadLetters \in Seq(S)
    BY DEF BusTypeOK
  <1> HIDE DEF S
  <1>2. /\ deadLetters' \in Seq(S) /\ DOMAIN deadLetters \subseteq DOMAIN deadLetters'
        /\ Len(deadLetters) + 1 \in DOMAIN deadLetters'
        /\ \A j \in DOMAIN deadLetters : deadLetters'[j] = deadLetters[j]
        /\ deadLetters'[Len(deadLetters) + 1] = x
    <2>1. x \in S
      BY DEF S
    <2> QED  BY <1>1, <2>1, AfterAppend
  <1>3. ASSUME NEW y, Contains(deadLetters, y) PROVE Contains(deadLetters', y)
    <2>1. PICK i \in DOMAIN deadLetters : deadLetters[i] = y
      BY <1>1, <1>3, InSequence
    <2>2. i \in DOMAIN deadLetters' /\ deadLetters'[i] = y
      BY <1>2, <2>1
    <2> QED  BY <1>2, <2>2, InSequence
  <1>4. Contains(deadLetters', x)
    BY <1>2, InSequence
  <1> QED  BY <1>3, <1>4

LEMMA AudienceStays ==
  ASSUME BusTypeOK, NEW m \in Message, AudienceKept(m),
         members' = members, topicSet' = topicSet,
         publishing'[m] = publishing[m],
         \A s \in Subscriber : m \in processed[s] => m \in processed'[s],
         \A y : Contains(deadLetters, y) => Contains(deadLetters', y)
  PROVE  AudienceKept(m)'
  <1>1. publishing[m].audience \subseteq Subscriber
    BY Typed DEF Record
  <1> QED  BY <1>1 DEF AudienceKept

\* Each step keeps the account, and settles it when publish returns ok.
LEMMA AudienceStep ==
  ASSUME BusTypeOK, \A m \in Message : AudienceKept(m), [BusNext]_bus
  PROVE  /\ \A m \in Message : AudienceKept(m)'
         /\ \A m \in accepted' \ accepted : \A s \in publishing[m].audience :
              m \in processed'[s] \/ Contains(deadLetters', <<m, s>>)
  <1> DEFINE Goal == /\ \A m \in Message : AudienceKept(m)'
                     /\ \A m \in accepted' \ accepted : \A s \in publishing[m].audience :
                          m \in processed'[s] \/ Contains(deadLetters', <<m, s>>)
  <1>1. ASSUME NEW m \in Message, Publish(m) PROVE Goal
    <2> DEFINE call == [Idle EXCEPT !.set = topicSet, !.audience = ToSet(members)]
    <2>1. /\ Entered(m, call, processed, attempts[m]) /\ publishing[m].audience = {}
          /\ call.set = topicSet /\ call.audience = ToSet(members) /\ call.visited = {}
          /\ deadLetters' = deadLetters
      BY <1>1, PublishEnters
    <2> HIDE DEF call
    <2>2. AudienceKept(m)'
      BY <2>1, LoopKeepsAudience
    <2>3. ASSUME NEW n \in Message, n # m PROVE AudienceKept(n)' /\ n \notin accepted' \ accepted
      BY <2>1, <2>3, LoopLeavesOthers, AudienceStays
    <2>4. accepted' \subseteq Message
      BY <1>1, BusTypesKept DEF BusTypeOK, BusNext
    <2> QED  BY <2>1, <2>2, <2>3, <2>4
  <1>2. ASSUME NEW m \in Message, NEW call, NEW done, NEW counted,
               Entered(m, call, done, counted), call = publishing[m],
               \A s \in call.audience \cap call.visited :
                  m \in done[s] \/ Contains(deadLetters', <<m, s>>),
               \A s \in Subscriber, n \in Message : n \in processed[s] => n \in done[s],
               \A y : Contains(deadLetters, y) => Contains(deadLetters', y),
               accepted' \subseteq Message
        PROVE  Goal
    <2>1. /\ AudienceKept(m)'
          /\ m \in accepted' => m \in accepted \/ \A s \in call.audience :
               m \in processed'[s] \/ Contains(deadLetters', <<m, s>>)
      BY <1>2, LoopKeepsAudience DEF AudienceKept
    <2>2. ASSUME NEW n \in Message, n # m PROVE AudienceKept(n)' /\ n \notin accepted' \ accepted
      BY <1>2, <2>2, LoopLeavesOthers, AudienceStays
    <2> QED  BY <1>2, <2>1, <2>2
  <1>3. accepted' \subseteq Message
    BY BusTypesKept DEF BusTypeOK
  <1>4. ASSUME NEW m \in Message, HandlerReturns(m) PROVE Goal
    <2>1. Entered(m, publishing[m], Marked(m), 0) /\ deadLetters' = deadLetters
      BY <1>4, HandlerReturnsEnters
    <2>2. ASSUME NEW s \in publishing[m].audience \cap publishing[m].visited
          PROVE  m \in Marked(m)[s] \/ Contains(deadLetters', <<m, s>>)
      <3>1. s \in Subscriber
        BY Typed DEF Record
      <3>2. \/ s = publishing[m].at /\ ~publishing[m].left
            \/ m \in processed[s] \/ Contains(deadLetters, <<m, s>>)
        BY DEF AudienceKept
      <3> QED  BY <2>1, <3>1, <3>2, MarkedTyped
    <2>3. \A s \in Subscriber, n \in Message : n \in processed[s] => n \in Marked(m)[s]
      BY MarkedTyped
    <2> HIDE DEF Goal
    <2> QED  BY <1>2, <1>3, <2>1, <2>2, <2>3
  <1>5. ASSUME NEW m \in Message, HandlerFailsForGood(m) PROVE Goal
    <2>1. /\ Entered(m, publishing[m], processed, 0) /\ publishing[m].at \in Subscriber
          /\ deadLetters' = Append(deadLetters, <<m, publishing[m].at>>)
      BY <1>5, GivingUpEnters, Names
    <2>2. /\ Contains(deadLetters', <<m, publishing[m].at>>)
          /\ \A y : Contains(deadLetters, y) => Contains(deadLetters', y)
      <3>1. <<m, publishing[m].at>> \in Message \X Subscriber
        BY <2>1
      <3> QED  BY <2>1, <3>1, MoreLetters
    <2>3. \A s \in publishing[m].audience \cap publishing[m].visited :
             m \in processed[s] \/ Contains(deadLetters', <<m, s>>)
      BY <2>2 DEF AudienceKept
    <2> HIDE DEF Goal
    <2> QED  BY <1>2, <1>3, <2>1, <2>2, <2>3
  <1>6. ASSUME NEW m \in Message, HandlerFails(m) PROVE Goal
    <2>1. /\ publishing' = [publishing EXCEPT ![m] = Idle]
          /\ UNCHANGED <<members, topicSet, processed, deadLetters, accepted>>
      BY <1>6 DEF HandlerFails, topic
    <2>2. AudienceKept(m)'
      <3>1. publishing'[m] = Idle
        BY <2>1, Typed
      <3> QED  BY <3>1, IdleShape DEF AudienceKept
    <2>3. ASSUME NEW n \in Message, n # m PROVE AudienceKept(n)'
      <3>1. publishing'[n] = publishing[n]
        BY <2>1, <2>3, Typed
      <3> QED  BY <2>1, <3>1, AudienceStays
    <2> QED  BY <2>1, <2>2, <2>3
  <1>7. ASSUME NEW s \in Subscriber, Unsubscribe(s) PROVE Goal
    <2>1. /\ ToSet(members') = ToSet(members) \ {s}
          /\ UNCHANGED <<topicSet, processed, deadLetters, accepted>>
          /\ \A m \in Message :
              /\ publishing'[m].at = publishing[m].at
              /\ publishing'[m].left = (publishing[m].left \/ publishing[m].at = s)
              /\ publishing'[m].set = publishing[m].set
              /\ publishing'[m].audience = publishing[m].audience \ {s}
              /\ publishing'[m].visited = publishing[m].visited
      BY <1>7, UnsubscribeShape
    <2> QED  BY <2>1 DEF AudienceKept
  <1>8. ASSUME NEW c \in Client, Connect(c) PROVE Goal
    <2>1. /\ c \notin ToSet(members) /\ ToSet(members') = ToSet(members) \cup {c}
          /\ members # <<>> => topicSet' = topicSet
          /\ processed' = [processed EXCEPT ![c] = {}]
          /\ deadLetters' = deadLetters /\ accepted' = accepted
          /\ \A m \in Message :
              /\ publishing'[m].at = publishing[m].at
              /\ publishing'[m].left = publishing[m].left
              /\ publishing'[m].set = publishing[m].set
              /\ publishing'[m].audience = publishing[m].audience
              /\ publishing'[m].visited = publishing[m].visited \ {c}
      BY <1>8, ConnectShape
    <2>2. ToSet(<<>>) = {}
      BY DEF ToSet
    <2>3. \A s \in Subscriber \ {c} : processed'[s] = processed[s]
      BY <2>1, Typed
    <2>4. \A m \in Message : publishing[m].audience \subseteq Subscriber
      BY Typed DEF Record
    <2> QED  BY <2>1, <2>2, <2>3, <2>4 DEF AudienceKept
  <1>9. CASE UNCHANGED bus
    BY <1>9 DEF bus, topic, AudienceKept
  <1> QED  BY <1>1, <1>4, <1>5, <1>6, <1>7, <1>8, <1>9 DEF BusNext

\* No error, and no change of the subscriptions, loses a message for a
\* subscriber that was there when publish was called and has stayed: when it
\* returns ok the message was processed or is a dead letter on its account.
THEOREM MessagesAreNotLost == BusSpec => NothingSilentlyLost
  <1>1. BusInit => BusTypeOK /\ \A m \in Message : AudienceKept(m)
    BY BusStarts, IdleShape DEF AudienceKept
  <1>2. BusTypeOK /\ (\A m \in Message : AudienceKept(m)) /\ [BusNext]_bus
           => /\ BusTypeOK' /\ (\A m \in Message : AudienceKept(m))'
              /\ [\A m \in accepted' \ accepted : \A s \in publishing[m].audience :
                     m \in processed'[s] \/ Contains(deadLetters', <<m, s>>)]_bus
    BY BusTypesKept, AudienceStep
  <1> QED  BY <1>1, <1>2, PTL DEF BusSpec, NothingSilentlyLost

----------------------------------------------------------------------------
(* How often a handler is called with a message.  The attempts are counted *)
(* for the message: as long as one subscriber alone has thrown for it,     *)
(* what ties them to that one is that those before it in the Set have      *)
(* processed the message, so that a retry begins with it.                  *)

CalledOnce(s, m) ==
  /\ called[<<s, m>>] <= 1
  /\ called[<<s, m>>] = 1 => \/ m \in processed[s]
                             \/ publishing[m].at = s /\ ~publishing[m].left
                             \/ s \notin ToSet(members)

\* Those the call has come by, but for f, have processed the message.
OthersProcessed(f, m) ==
  \A s \in publishing[m].visited \cap ToSet(members) :
     \/ s = publishing[m].at /\ ~publishing[m].left
     \/ s = f
     \/ m \in processed[s]

Counted(f, m) ==
  LET call == publishing[m]
      n == called[<<f, m>>]
  IN  /\ IF InProgress(m)
         THEN /\ call.at = f => n = call.attempt /\ n = attempts[m] /\ f \in call.visited
              /\ f \notin call.visited => n = 0
         ELSE n = attempts[m] /\ n < MaxRetries
      /\ m \in processed[f] => InProgress(m) /\ f \in call.visited /\ call.at # f
      /\ n > 0 => \A k \in DOMAIN members : members[k] = f =>
                     \A j \in 1..(k - 1) : m \in processed[members[j]]

AttemptsFit(m) ==
  IF InProgress(m) THEN attempts[m] = publishing[m].attempt /\ attempts[m] <= MaxRetries
                   ELSE attempts[m] < MaxRetries

RetryInv(m) ==
  /\ m \in accepted => ~InProgress(m)
  /\ AttemptsFit(m)
  /\ \A s \in Consumer \ thrown[m] : CalledOnce(s, m)
  /\ \A f \in Failing : thrown[m] \subseteq {f} =>
        /\ called[<<f, m>>] <= MaxRetries
        /\ OthersProcessed(f, m)
        /\ f \in ToSet(members) /\ m \notin accepted => Counted(f, m)

\* What the loop is entered with: nobody is being called any more, and what the
\* call has come by has processed the message or is f.
MayContinue(f, m, call, done, counted) ==
  /\ \A s \in call.visited \cap ToSet(members) : s = f \/ m \in done[s]
  /\ called[<<f, m>>] <= MaxRetries
  /\ f \in ToSet(members) =>
       /\ f \notin call.visited =>
            /\ counted = called[<<f, m>>] \/ (called[<<f, m>>] = 0 /\ counted = 0)
            /\ called[<<f, m>>] < MaxRetries /\ m \notin done[f]
       /\ called[<<f, m>>] > 0 => \A k \in DOMAIN members : members[k] = f =>
             \A j \in 1..(k - 1) : m \in done[members[j]]

LEMMA LoopCountsFailing ==
  ASSUME BusTypeOK, NEW m \in Message, NEW call, NEW done, NEW counted,
         Entered(m, call, done, counted), NEW f \in Failing,
         MayContinue(f, m, call, done, counted)
  PROVE  /\ called'[<<f, m>>] <= MaxRetries
         /\ OthersProcessed(f, m)'
         /\ f \in ToSet(members') /\ m \notin accepted' => Counted(f, m)'
  <1>1. /\ call \in Record /\ done \in [Subscriber -> SUBSET Message] /\ counted \in Nat
        /\ members' = members /\ topicSet' = topicSet
    BY DEF Entered, topic
  <1>2. processed' = done
    BY <1>1, ContinueShape DEF Entered
  <1>3. f \in Subscriber /\ called[<<f, m>>] \in Nat /\ MaxRetries \in Nat /\ MaxRetries >= 1
    BY Names, Typed, RetriesArePositive
  <1>4. CASE Returned(m)
    <2>1. publishing'[m] = Idle /\ called' = called /\ m \in accepted'
      BY <1>4, Typed DEF Returned
    <2> QED  BY <2>1, IdleShape DEF MayContinue, OthersProcessed
  <1>5. ASSUME NEW i \in Unvisited(m, call, done),
               \A j \in Unvisited(m, call, done) : i <= j,
               i \in DOMAIN members, members[i] \in Subscriber,
               Visited(m, call, counted, i)
        PROVE  /\ called'[<<f, m>>] <= MaxRetries
               /\ OthersProcessed(f, m)'
               /\ f \in ToSet(members') => Counted(f, m)'
    <2> DEFINE s == members[i]
    <2>1. /\ publishing'[m] = Visit(call, s, counted + 1)
          /\ attempts'[m] = counted + 1
          /\ called'[<<s, m>>] = called[<<s, m>>] + 1
          /\ s # f => called'[<<f, m>>] = called[<<f, m>>]
      BY <1>3, <1>5, Typed DEF Visited
    <2>2. /\ publishing'[m].at = s /\ publishing'[m].attempt = counted + 1
          /\ ~publishing'[m].left
          /\ publishing'[m].visited = call.visited \cup {s}
      BY <1>1, <1>5, <2>1, VisitShape
    <2>3. s \notin call.visited /\ m \notin done[s] /\ call.set = topicSet
          /\ s \in ToSet(members)
      BY <1>5 DEF Unvisited, ToSet
    <2>4. InProgress(m)' /\ s # Nobody
      BY <1>5, <2>2, Names DEF InProgress
    <2>5. OthersProcessed(f, m)'
      BY <1>1, <1>2, <2>2 DEF MayContinue, OthersProcessed
    <2>6. CASE s = f
      <3>1. /\ called'[<<f, m>>] = counted + 1 /\ called'[<<f, m>>] <= MaxRetries
            /\ m \notin done[f]
        BY <1>1, <1>3, <2>1, <2>3, <2>6 DEF MayContinue
      <3>2. ASSUME NEW k \in DOMAIN members, members[k] = f, NEW j \in 1..(k - 1)
            PROVE  m \in done[members[j]]
        <4>1. k = i
          BY <1>5, <2>6, <3>2, Typed DEF IsInjective
        <4>2. i \in Nat /\ j \in Nat /\ j < i /\ j \in DOMAIN members
          BY <4>1, Typed
        <4>3. j \notin Unvisited(m, call, done)
          BY <1>5, <4>2 DEF Unvisited
        <4>4. members[j] \in call.visited \/ m \in done[members[j]]
          BY <2>3, <4>2, <4>3 DEF Unvisited
        <4>5. members[j] # f
          BY <3>2, <4>1, <4>2, Typed DEF IsInjective
        <4>6. members[j] \in ToSet(members)
          BY <4>2, Typed, InSequence
        <4> QED  BY <4>4, <4>5, <4>6 DEF MayContinue
      <3>3. Counted(f, m)'
        BY <1>1, <1>2, <2>1, <2>2, <2>4, <2>6, <3>1, <3>2 DEF Counted
      <3> QED  BY <2>5, <3>1, <3>3
    <2>7. CASE s # f
      <3>1. called'[<<f, m>>] = called[<<f, m>>]
        BY <2>1, <2>7
      <3>2. ASSUME f \in ToSet(members), f \notin call.visited
            PROVE  called[<<f, m>>] = 0
        <4>1. PICK k \in DOMAIN members : members[k] = f
          BY <3>2, Typed, InSequence
        <4>2. k \in Unvisited(m, call, done)
          BY <2>3, <3>2, <4>1 DEF MayContinue, Unvisited
        <4>3. i \in Nat /\ k \in Nat /\ i < k /\ i \in 1..(k - 1)
          <5>1. i \in Nat /\ k \in Nat /\ 1 <= i
            BY <1>5, Typed
          <5>2. i <= k /\ i # k
            BY <1>5, <2>7, <4>1, <4>2
          <5> QED  BY <5>1, <5>2
        <4>4. ~(called[<<f, m>>] > 0)
          BY <2>3, <3>2, <4>1, <4>3 DEF MayContinue
        <4> QED  BY <1>3, <4>4
      <3>3. ASSUME f \in ToSet(members), m \in done[f] PROVE f \in call.visited
        BY <3>3 DEF MayContinue
      <3>4. ASSUME f \in ToSet(members), called[<<f, m>>] > 0
            PROVE  \A k \in DOMAIN members : members[k] = f =>
                     \A j \in 1..(k - 1) : m \in done[members[j]]
        BY <3>4 DEF MayContinue
      <3>5. f \in ToSet(members') => Counted(f, m)'
        BY <1>1, <1>2, <2>2, <2>4, <2>7, <3>1, <3>2, <3>3, <3>4 DEF Counted
      <3> QED  BY <1>3, <2>5, <3>1, <3>5 DEF MayContinue
    <2> QED  BY <2>6, <2>7
  <1> QED  BY <1>1, <1>4, <1>5, ContinueShape DEF Entered

LEMMA LoopCountsOthers ==
  ASSUME BusTypeOK, NEW m \in Message, NEW call, NEW done, NEW counted,
         Entered(m, call, done, counted), NEW s \in Consumer,
         called[<<s, m>>] <= 1,
         called[<<s, m>>] = 1 => m \in done[s] \/ s \notin ToSet(members)
  PROVE  CalledOnce(s, m)'
  <1>1. /\ call \in Record /\ done \in [Subscriber -> SUBSET Message] /\ counted \in Nat
        /\ members' = members
    BY DEF Entered, topic
  <1>2. processed' = done
    BY <1>1, ContinueShape DEF Entered
  <1>3. s \in Subscriber /\ called[<<s, m>>] \in Nat
    BY Names, Typed
  <1>4. CASE Returned(m)
    BY <1>1, <1>2, <1>4 DEF Returned, CalledOnce
  <1>5. ASSUME NEW i \in Unvisited(m, call, done), i \in DOMAIN members,
               members[i] \in Subscriber, Visited(m, call, counted, i)
        PROVE  CalledOnce(s, m)'
    <2>1. /\ publishing'[m] = Visit(call, members[i], counted + 1)
          /\ called'[<<members[i], m>>] = called[<<members[i], m>>] + 1
          /\ s # members[i] => called'[<<s, m>>] = called[<<s, m>>]
      BY <1>3, <1>5, Typed DEF Visited
    <2>2. publishing'[m].at = members[i] /\ ~publishing'[m].left
      BY <1>1, <1>5, <2>1, VisitShape
    <2>3. m \notin done[members[i]] /\ members[i] \in ToSet(members)
      BY <1>5 DEF Unvisited, ToSet
    <2>4. CASE s = members[i]
      <3>1. called[<<s, m>>] = 0
        BY <1>3, <2>3, <2>4
      <3> QED  BY <2>1, <2>2, <2>4, <3>1 DEF CalledOnce
    <2>5. CASE s # members[i]
      BY <1>1, <1>2, <2>1, <2>5 DEF CalledOnce
    <2> QED  BY <2>4, <2>5
  <1> QED  BY <1>1, <1>4, <1>5, ContinueShape DEF Entered

LEMMA RetriesStay ==
  ASSUME BusTypeOK, NEW m \in Message, RetryInv(m),
         members' = members, publishing'[m] = publishing[m],
         attempts'[m] = attempts[m], m \in accepted' <=> m \in accepted,
         thrown'[m] = thrown[m],
         \A s \in Subscriber : called'[<<s, m>>] = called[<<s, m>>],
         \A s \in Subscriber : m \in processed'[s] <=> m \in processed[s]
  PROVE  RetryInv(m)'
  <1>1. /\ \A s \in Consumer : s \in Subscriber
        /\ publishing[m].visited \subseteq Subscriber
        /\ \A j \in DOMAIN members : members[j] \in Subscriber
        /\ Failing \subseteq Consumer
    BY Names, Typed DEF Record
  <1>2. ASSUME NEW s \in Consumer \ thrown[m] PROVE CalledOnce(s, m)'
    BY <1>1, <1>2 DEF RetryInv, CalledOnce
  <1>3. ASSUME NEW f \in Failing, thrown[m] \subseteq {f}
        PROVE  /\ called'[<<f, m>>] <= MaxRetries
               /\ OthersProcessed(f, m)'
               /\ f \in ToSet(members') /\ m \notin accepted' => Counted(f, m)'
    <2>1. f \in Subscriber /\ called'[<<f, m>>] = called[<<f, m>>]
      BY <1>1
    <2>2. OthersProcessed(f, m)'
      BY <1>1, <1>3 DEF RetryInv, OthersProcessed
    <2>3. ASSUME f \in ToSet(members), m \notin accepted PROVE Counted(f, m)'
      <3>1. Counted(f, m)
        BY <1>3, <2>3 DEF RetryInv
      <3>2. ASSUME NEW k \in DOMAIN members, NEW j \in 1..(k - 1)
            PROVE  members[j] \in Subscriber
        <4>1. j \in DOMAIN members
          BY <3>2, Typed
        <4> QED  BY <1>1, <4>1
      <3> QED  BY <2>1, <3>1, <3>2 DEF Counted, InProgress
    <2> QED  BY <1>3, <2>1, <2>2, <2>3 DEF RetryInv
  <1>4. (m \in accepted' => ~InProgress(m)') /\ AttemptsFit(m)'
    BY DEF RetryInv, AttemptsFit, InProgress
  <1> QED  BY <1>2, <1>3, <1>4 DEF RetryInv

LEMMA LoopCounts ==
  ASSUME BusTypeOK, NEW m \in Message, NEW call, NEW done, NEW counted,
         Entered(m, call, done, counted), m \notin accepted, counted < MaxRetries,
         \A f \in Failing : thrown'[m] \subseteq {f} => MayContinue(f, m, call, done, counted),
         \A s \in Consumer \ thrown'[m] :
            /\ called[<<s, m>>] <= 1
            /\ called[<<s, m>>] = 1 => m \in done[s] \/ s \notin ToSet(members),
         \A n \in Message : RetryInv(n),
         \A n \in Message : n # m => thrown'[n] = thrown[n] /\
            \A s \in Subscriber : n \in done[s] <=> n \in processed[s]
  PROVE  \A n \in Message : RetryInv(n)'
  <1>1. ASSUME NEW n \in Message, n # m PROVE RetryInv(n)'
    BY <1>1, LoopLeavesOthers, RetriesStay
  <1>2. \A f \in Failing : thrown'[m] \subseteq {f} =>
           /\ called'[<<f, m>>] <= MaxRetries
           /\ OthersProcessed(f, m)'
           /\ f \in ToSet(members') /\ m \notin accepted' => Counted(f, m)'
    BY LoopCountsFailing
  <1>3. \A s \in Consumer \ thrown'[m] : CalledOnce(s, m)'
    BY LoopCountsOthers
  <1>4. (m \in accepted' => ~InProgress(m)') /\ AttemptsFit(m)'
    <2>1. /\ call \in Record /\ done \in [Subscriber -> SUBSET Message] /\ counted \in Nat
          /\ Continue(m, call, done, counted) /\ MaxRetries \in Nat
      BY RetriesArePositive DEF Entered
    <2>2. CASE ReturnOk(m, counted)
      <3>1. publishing'[m] = Idle /\ attempts'[m] = counted
        BY <2>2, Typed DEF ReturnOk
      <3> QED  BY <3>1, IdleShape DEF AttemptsFit, InProgress
    <2>3. ASSUME NEW i \in DOMAIN members, members[i] \in Subscriber,
                 Visited(m, call, counted, i)
          PROVE  (m \in accepted' => ~InProgress(m)') /\ AttemptsFit(m)'
      <3>1. /\ publishing'[m] = Visit(call, members[i], counted + 1)
            /\ attempts'[m] = counted + 1 /\ accepted' = accepted
        BY <2>3, Typed DEF Visited
      <3>2. publishing'[m].at = members[i] /\ publishing'[m].attempt = counted + 1
        BY <2>1, <2>3, <3>1, VisitShape
      <3> QED  BY <2>1, <2>3, <3>1, <3>2, Names DEF AttemptsFit, InProgress
    <2> QED  BY <2>1, <2>2, <2>3, ContinueShape DEF Continue
  <1>5. RetryInv(m)'
    BY <1>2, <1>3, <1>4 DEF RetryInv
  <1> QED  BY <1>1, <1>5

\* A step preserves the count, and what more may be said while one has thrown.
LEMMA RetryStep ==
  ASSUME BusTypeOK, \A m \in Message : RetryInv(m), [BusNext]_bus
  PROVE  \A m \in Message : RetryInv(m)'
  <1>0. /\ Failing \subseteq Consumer /\ Consumer \subseteq Subscriber
        /\ Failing \subseteq Subscriber /\ Nobody \notin Subscriber
        /\ MaxRetries \in Nat /\ MaxRetries >= 1
    BY Names, RetriesArePositive
  <1>1. ASSUME NEW m \in Message, Publish(m) PROVE \A n \in Message : RetryInv(n)'
    <2> DEFINE call == [Idle EXCEPT !.set = topicSet, !.audience = ToSet(members)]
    <2>1. /\ Entered(m, call, processed, attempts[m])
          /\ publishing[m].at = Nobody /\ m \notin accepted /\ call.visited = {}
          /\ thrown' = thrown
      BY <1>1, PublishEnters
    <2> HIDE DEF call
    <2>2. ASSUME NEW f \in Failing, thrown[m] \subseteq {f} PROVE MayContinue(f, m, call, processed, attempts[m])
      <3>1. /\ called[<<f, m>>] <= MaxRetries
            /\ f \in ToSet(members) => Counted(f, m)
        BY <2>1, <2>2 DEF RetryInv
      <3>2. ASSUME f \in ToSet(members)
            PROVE  /\ called[<<f, m>>] = attempts[m] /\ called[<<f, m>>] < MaxRetries
                   /\ m \notin processed[f]
        BY <2>1, <3>1, <3>2 DEF Counted, InProgress
      <3>3. ASSUME f \in ToSet(members), called[<<f, m>>] > 0
            PROVE  \A k \in DOMAIN members : members[k] = f =>
                      \A j \in 1..(k - 1) : m \in processed[members[j]]
        BY <3>1, <3>3 DEF Counted
      <3> QED  BY <2>1, <3>1, <3>2, <3>3 DEF MayContinue
    <2>3. ASSUME NEW s \in Consumer \ thrown'[m]
          PROVE  /\ called[<<s, m>>] <= 1
                 /\ called[<<s, m>>] = 1 => m \in processed[s] \/ s \notin ToSet(members)
      BY <1>0, <2>1, <2>3 DEF RetryInv, CalledOnce
    <2>4. attempts[m] < MaxRetries
      BY <2>1 DEF RetryInv, AttemptsFit, InProgress
    <2> QED  BY <2>1, <2>2, <2>3, <2>4, LoopCounts
  <1>2. ASSUME NEW m \in Message, HandlerReturns(m) PROVE \A n \in Message : RetryInv(n)'
    <2> DEFINE call == publishing[m]
    <2>1. /\ Entered(m, call, Marked(m), 0) /\ InProgress(m) /\ m \notin accepted
          /\ thrown' = thrown
      BY <1>2, HandlerReturnsEnters DEF RetryInv
    <2>2. \A s \in Subscriber : Marked(m)[s] = IF s = call.at /\ ~call.left
                                               THEN processed[s] \cup {m} ELSE processed[s]
      BY MarkedTyped
    <2>3. /\ \A j \in DOMAIN members : members[j] \in Subscriber
          /\ call.visited \subseteq Subscriber
      BY Typed DEF Record
    <2> HIDE DEF call
    <2>4. ASSUME NEW f \in Failing, thrown[m] \subseteq {f} PROVE MayContinue(f, m, call, Marked(m), 0)
      <3>1. /\ called[<<f, m>>] <= MaxRetries /\ f \in Subscriber
            /\ \A s \in call.visited \cap ToSet(members) :
                  (s = call.at /\ ~call.left) \/ s = f \/ m \in processed[s]
            /\ f \in ToSet(members) => Counted(f, m)
        BY <1>0, <2>1, <2>4 DEF RetryInv, OthersProcessed, call
      <3>2. \A s \in call.visited \cap ToSet(members) : s = f \/ m \in Marked(m)[s]
        BY <2>2, <2>3, <3>1
      <3>3. ASSUME f \in ToSet(members), f \notin call.visited
            PROVE  called[<<f, m>>] = 0 /\ m \notin Marked(m)[f]
        BY <2>1, <2>2, <3>1, <3>3 DEF Counted, call
      <3>4. ASSUME f \in ToSet(members), called[<<f, m>>] > 0, NEW k \in DOMAIN members,
                   members[k] = f, NEW j \in 1..(k - 1)
            PROVE  m \in Marked(m)[members[j]]
        <4>1. j \in DOMAIN members
          BY <3>4, Typed
        <4>2. m \in processed[members[j]]
          BY <3>1, <3>4 DEF Counted
        <4> QED  BY <2>2, <2>3, <4>1, <4>2
      <3> QED  BY <1>0, <3>1, <3>2, <3>3, <3>4 DEF MayContinue
    <2>5. ASSUME NEW s \in Consumer \ thrown'[m]
          PROVE  /\ called[<<s, m>>] <= 1
                 /\ called[<<s, m>>] = 1 => m \in Marked(m)[s] \/ s \notin ToSet(members)
      BY <1>0, <2>1, <2>2, <2>5 DEF RetryInv, CalledOnce, call
    <2>6. \A n \in Message : n # m => \A s \in Subscriber : n \in Marked(m)[s] <=> n \in processed[s]
      BY <2>2
    <2> QED  BY <1>0, <2>1, <2>4, <2>5, <2>6, LoopCounts
  <1>3. ASSUME NEW m \in Message, HandlerFailsForGood(m) PROVE \A n \in Message : RetryInv(n)'
    <2> DEFINE call == publishing[m]
    <2>1. /\ Entered(m, call, processed, 0) /\ InProgress(m) /\ m \notin accepted
          /\ call.at \in Failing
          /\ thrown' = [thrown EXCEPT ![m] = @ \cup {call.at}]
      BY <1>3, GivingUpEnters DEF RetryInv
    <2> HIDE DEF call
    <2>0. /\ thrown'[m] = thrown[m] \cup {call.at}
          /\ \A n \in Message : n # m => thrown'[n] = thrown[n]
      BY <2>1, Typed
    <2>2. ASSUME NEW f \in Failing, thrown'[m] \subseteq {f}
          PROVE  MayContinue(f, m, call, processed, 0)
      <3>1. /\ called[<<f, m>>] <= MaxRetries /\ f = call.at
            /\ \A s \in call.visited \cap ToSet(members) :
                  (s = call.at /\ ~call.left) \/ s = f \/ m \in processed[s]
            /\ f \in ToSet(members) => Counted(f, m)
        BY <2>0, <2>1, <2>2 DEF RetryInv, OthersProcessed, call
      <3> QED  BY <2>1, <3>1 DEF MayContinue, Counted, call
    <2>3. ASSUME NEW s \in Consumer \ thrown'[m]
          PROVE  /\ called[<<s, m>>] <= 1
                 /\ called[<<s, m>>] = 1 => m \in processed[s] \/ s \notin ToSet(members)
      BY <2>0, <2>1, <2>3 DEF RetryInv, CalledOnce, call
    <2> QED  BY <1>0, <2>0, <2>1, <2>2, <2>3, LoopCounts
  <1>4. ASSUME NEW m \in Message, HandlerFails(m) PROVE \A n \in Message : RetryInv(n)'
    <2>1. /\ publishing' = [publishing EXCEPT ![m] = Idle]
          /\ UNCHANGED <<members, processed, attempts, called, accepted>>
          /\ InProgress(m) /\ publishing[m].at \in Failing
          /\ ~(publishing[m].attempt >= MaxRetries)
          /\ thrown' = [thrown EXCEPT ![m] = @ \cup {publishing[m].at}]
      BY <1>4 DEF HandlerFails, Throws, GivesUp, topic
    <2>0. /\ thrown'[m] = thrown[m] \cup {publishing[m].at}
          /\ \A n \in Message : n # m => thrown'[n] = thrown[n]
      BY <2>1, Typed
    <2>2. ASSUME NEW n \in Message, n # m PROVE RetryInv(n)'
      <3>1. publishing'[n] = publishing[n]
        BY <2>1, <2>2, Typed
      <3> QED  BY <2>0, <2>1, <2>2, <3>1, RetriesStay
    <2>3. publishing'[m] = Idle /\ Idle.visited = {} /\ Idle.at = Nobody
      BY <2>1, Typed, IdleShape
    <2>4. ASSUME NEW s \in Consumer \ thrown'[m] PROVE CalledOnce(s, m)'
      BY <2>0, <2>1, <2>3, <2>4 DEF RetryInv, CalledOnce
    <2>5. ASSUME NEW f \in Failing, thrown'[m] \subseteq {f}
          PROVE  /\ called'[<<f, m>>] <= MaxRetries
                 /\ OthersProcessed(f, m)'
                 /\ f \in ToSet(members') /\ m \notin accepted' => Counted(f, m)'
      <3>1. f = publishing[m].at
        BY <2>0, <2>5
      <3>2. publishing[m].attempt \in Nat
        BY Typed DEF Record
      <3>3. ASSUME f \in ToSet(members), m \notin accepted PROVE Counted(f, m)'
        BY <1>0, <2>0, <2>1, <2>3, <2>5, <3>1, <3>2, <3>3 DEF RetryInv, Counted, InProgress
      <3> QED  BY <2>0, <2>1, <2>3, <2>5, <3>3 DEF RetryInv, OthersProcessed
    <2>6. AttemptsFit(m)'
      <3>1. publishing[m].attempt \in Nat /\ attempts[m] = publishing[m].attempt
        BY <2>1, Typed DEF RetryInv, AttemptsFit, Record
      <3> QED  BY <1>0, <2>1, <2>3, <3>1 DEF AttemptsFit, InProgress
    <2>7. RetryInv(m)'
      BY <2>1, <2>3, <2>4, <2>5, <2>6 DEF RetryInv, InProgress
    <2> QED  BY <2>2, <2>7
  <1>5. ASSUME NEW s \in Subscriber, Unsubscribe(s), NEW m \in Message PROVE RetryInv(m)'
    <2>1. /\ ToSet(members') = ToSet(members) \ {s} /\ IsInjective(members')
          /\ members' \in Seq(Subscriber)
          /\ UNCHANGED <<processed, attempts, called, thrown, accepted>>
          /\ publishing'[m].at = publishing[m].at
          /\ publishing'[m].left = (publishing[m].left \/ publishing[m].at = s)
          /\ publishing'[m].attempt = publishing[m].attempt
          /\ publishing'[m].visited = publishing[m].visited
      BY <1>5, UnsubscribeShape
    <2>2. PICK i \in DOMAIN members :
            /\ members[i] = s
            /\ \A j \in DOMAIN members' :
                 IF j < i THEN j \in DOMAIN members /\ members'[j] = members[j]
                          ELSE j + 1 \in DOMAIN members /\ members'[j] = members[j + 1]
      BY <1>5, UnsubscribeShape
    <2>3. InProgress(m)' <=> InProgress(m)
      BY <1>0, <2>1 DEF InProgress
    <2>4. ASSUME NEW t \in Consumer \ thrown[m] PROVE CalledOnce(t, m)'
      BY <2>1, <2>4 DEF RetryInv, CalledOnce
    <2>5. ASSUME NEW f \in Failing, thrown[m] \subseteq {f}
          PROVE  /\ called'[<<f, m>>] <= MaxRetries
                 /\ OthersProcessed(f, m)'
                 /\ f \in ToSet(members') /\ m \notin accepted' => Counted(f, m)'
      <3>1. OthersProcessed(f, m)'
        BY <2>1, <2>5 DEF RetryInv, OthersProcessed
      <3>2. ASSUME f \in ToSet(members'), m \notin accepted' PROVE Counted(f, m)'
        <4>1. Counted(f, m) /\ f # s /\ f \in Subscriber
          BY <1>0, <2>1, <2>5, <3>2 DEF RetryInv
        <4>2. publishing'[m].at = f <=> publishing[m].at = f
          BY <1>0, <2>1, <4>1
        <4>3. ASSUME called[<<f, m>>] > 0, NEW k \in DOMAIN members', members'[k] = f,
                     NEW j \in 1..(k - 1)
              PROVE  m \in processed[members'[j]]
          <5>1. i \in Nat /\ k \in Nat /\ j \in Nat /\ j < k /\ 1 <= j /\ j \in DOMAIN members'
            BY <2>1, <2>2, <4>3, Typed
          <5>2. CASE k < i
            <6>1. j < i /\ members'[j] = members[j] /\ k \in DOMAIN members /\ members[k] = f
              BY <2>2, <4>3, <5>1, <5>2
            <6> QED  BY <4>1, <4>3, <5>1, <6>1 DEF Counted
          <5>3. CASE ~(k < i)
            <6>1. k + 1 \in DOMAIN members /\ members[k + 1] = f
              BY <2>2, <4>3, <5>3
            <6>2. \A x \in 1..((k + 1) - 1) : m \in processed[members[x]]
              BY <4>1, <4>3, <6>1 DEF Counted
            <6>3. j \in 1..((k + 1) - 1) /\ j + 1 \in 1..((k + 1) - 1)
              BY <5>1
            <6>4. members'[j] = members[j] \/ members'[j] = members[j + 1]
              BY <2>2, <5>1
            <6> QED  BY <6>2, <6>3, <6>4
          <5> QED  BY <5>2, <5>3
        <4> QED  BY <2>1, <2>3, <4>1, <4>2, <4>3 DEF Counted
      <3> QED  BY <2>1, <2>5, <3>1, <3>2 DEF RetryInv
    <2>6. AttemptsFit(m)'
      BY <2>1, <2>3 DEF RetryInv, AttemptsFit
    <2> QED  BY <2>1, <2>3, <2>4, <2>5, <2>6 DEF RetryInv
  <1>6. ASSUME NEW c \in Client, Connect(c), NEW m \in Message PROVE RetryInv(m)'
    <2>1. /\ c \in Subscriber /\ c \notin ToSet(members) /\ c \notin Consumer
          /\ members' = Append(members, c)
          /\ ToSet(members') = ToSet(members) \cup {c}
          /\ processed' = [processed EXCEPT ![c] = {}]
          /\ publishing'[m].at = publishing[m].at
          /\ publishing'[m].left = publishing[m].left
          /\ publishing'[m].attempt = publishing[m].attempt
          /\ publishing'[m].visited = publishing[m].visited \ {c}
          /\ UNCHANGED <<attempts, called, thrown, accepted>>
      BY <1>6, ConnectShape
    <2>2. \A s \in Subscriber \ {c} : processed'[s] = processed[s]
      BY <2>1, Typed
    <2>3. InProgress(m)' <=> InProgress(m)
      BY <2>1 DEF InProgress
    <2>4. ASSUME NEW t \in Consumer \ thrown[m] PROVE CalledOnce(t, m)'
      <3>1. t # c /\ processed'[t] = processed[t]
        BY <1>0, <2>1, <2>2
      <3> QED  BY <2>1, <2>4, <3>1 DEF RetryInv, CalledOnce
    <2>5. ASSUME NEW f \in Failing, thrown[m] \subseteq {f}
          PROVE  /\ called'[<<f, m>>] <= MaxRetries
                 /\ OthersProcessed(f, m)'
                 /\ f \in ToSet(members') /\ m \notin accepted' => Counted(f, m)'
      <3>1. f # c /\ processed'[f] = processed[f]
        BY <1>0, <2>1, <2>2
      <3>2. publishing[m].visited \subseteq Subscriber
        BY Typed DEF Record
      <3>3. OthersProcessed(f, m)'
        BY <2>1, <2>2, <2>5, <3>2 DEF RetryInv, OthersProcessed
      <3>4. ASSUME f \in ToSet(members'), m \notin accepted' PROVE Counted(f, m)'
        <4>1. Counted(f, m)
          BY <2>1, <2>5, <3>1, <3>4 DEF RetryInv
        <4>2. ASSUME called[<<f, m>>] > 0, NEW k \in DOMAIN members', members'[k] = f,
                     NEW j \in 1..(k - 1)
              PROVE  m \in processed'[members'[j]]
          <5>1. /\ Len(members) \in Nat /\ DOMAIN members = 1..Len(members)
                /\ DOMAIN members' = DOMAIN members \cup {Len(members) + 1}
                /\ \A x \in DOMAIN members : members'[x] = members[x]
                /\ members'[Len(members) + 1] = c
            BY <2>1, Typed, AfterAppend
          <5>2. k \in DOMAIN members /\ members[k] = f
            BY <3>1, <4>2, <5>1
          <5>3. j \in DOMAIN members /\ members'[j] = members[j]
            BY <5>1, <5>2
          <5>4. m \in processed[members[j]]
            BY <4>1, <4>2, <5>2 DEF Counted
          <5>5. members[j] \in Subscriber /\ members[j] # c
            BY <2>1, <5>3, Typed, InSequence
          <5> QED  BY <2>2, <5>3, <5>4, <5>5
        <4> QED  BY <2>1, <2>3, <3>1, <4>1, <4>2 DEF Counted
      <3> QED  BY <2>1, <2>5, <3>3, <3>4 DEF RetryInv
    <2>6. AttemptsFit(m)'
      BY <2>1, <2>3 DEF RetryInv, AttemptsFit
    <2> QED  BY <2>1, <2>3, <2>4, <2>5, <2>6 DEF RetryInv
  <1>7. CASE UNCHANGED bus
    BY <1>7, RetriesStay DEF bus, topic
  <1> QED  BY <1>1, <1>2, <1>3, <1>4, <1>5, <1>6, <1>7 DEF BusNext

\* However many calls of publish there are, whoever throws and whatever joins and
\* leaves meanwhile: a message is never tried more than maxRetries times in a row, a
\* handler that has not thrown is called with it once, and one that has thrown is
\* called more than maxRetries times only if another has thrown for the same message.
THEOREM RetriesStayBounded == BusSpec => []RetriesAreBounded
  <1> DEFINE Inv == BusTypeOK /\ \A m \in Message : RetryInv(m)
  <1>1. BusInit => Inv
    <2> SUFFICES ASSUME BusInit PROVE Inv
      OBVIOUS
    <2>1. MaxRetries \in Nat /\ MaxRetries >= 1 /\ Failing \subseteq Consumer
          /\ Consumer \subseteq Subscriber
      BY Names, RetriesArePositive
    <2>2. ASSUME NEW m \in Message PROVE RetryInv(m)
      <3>1. publishing[m] = Idle /\ thrown[m] = {} /\ attempts[m] = 0 /\ m \notin accepted
        BY BusStarts
      <3>2. ~InProgress(m)
        BY <3>1, IdleShape DEF InProgress
      <3> QED  BY <2>1, <3>1, <3>2, BusStarts, IdleShape
               DEF RetryInv, AttemptsFit, CalledOnce, OthersProcessed, Counted
    <2> QED  BY <2>2, BusStarts
  <1>2. Inv /\ [BusNext]_bus => Inv'
    BY BusTypesKept, RetryStep
  <1>3. Inv => RetriesAreBounded
    <2> SUFFICES ASSUME Inv, NEW m \in Message
                 PROVE  /\ attempts[m] <= MaxRetries
                        /\ \A s \in Consumer :
                              /\ called[<<s, m>>] > 1 => s \in thrown[m]
                              /\ called[<<s, m>>] > MaxRetries => thrown[m] \ {s} # {}
      BY DEF RetriesAreBounded
    <2>1. MaxRetries \in Nat /\ MaxRetries >= 1 /\ attempts[m] \in Nat
          /\ thrown[m] \subseteq Failing /\ RetryInv(m)
      BY Typed, RetriesArePositive
    <2>2. attempts[m] <= MaxRetries
      BY <2>1 DEF RetryInv, AttemptsFit
    <2>3. ASSUME NEW s \in Consumer
          PROVE  /\ called[<<s, m>>] > 1 => s \in thrown[m]
                 /\ called[<<s, m>>] > MaxRetries => thrown[m] \ {s} # {}
      <3>1. called[<<s, m>>] \in Nat
        BY Names, Typed
      <3>2. called[<<s, m>>] > 1 => s \in thrown[m]
        BY <2>1, <3>1 DEF RetryInv, CalledOnce
      <3>3. ASSUME thrown[m] \subseteq {s} PROVE called[<<s, m>>] <= MaxRetries
        <4>1. CASE s \in thrown[m]
          BY <2>1, <3>3, <4>1 DEF RetryInv
        <4>2. CASE s \notin thrown[m]
          BY <2>1, <3>1, <3>2, <4>2
        <4> QED  BY <4>1, <4>2
      <3> QED  BY <2>1, <3>1, <3>2, <3>3
    <2> QED  BY <2>2, <2>3
  <1> QED  BY <1>1, <1>2, <1>3, PTL DEF BusSpec

----------------------------------------------------------------------------
(* The MCP client: maps, as sequences of entries.                          *)

Apart(m) == \A i, j \in DOMAIN m : m[i].key = m[j].key => i = j

LEMMA PutKeeps ==
  ASSUME NEW K, NEW V, NEW m \in Seq(Entries(K, V)), Bounded(m), NEW k \in K, NEW v \in V
  PROVE  Put(m, k, v) \in Seq(Entries(K, V)) /\ Bounded(Put(m, k, v))
  <1> DEFINE E == Entries(K, V)
             n == Len(m)
  <1>0. n \in Nat /\ DOMAIN m = 1..n /\ n <= Capacity /\ Capacity \in Nat /\ Apart(m)
        /\ \A i \in 1..n : m[i] \in E
    BY CapacityIsPositive DEF Bounded, Apart
  <1>1. Entry(k, v) \in E /\ Entry(k, v).key = k
    BY DEF Entry, Entries
  <1> HIDE DEF E
  <1>2. CASE Holds(m, k)
    <2> DEFINE new == [i \in DOMAIN m |-> IF m[i].key = k THEN Entry(k, v) ELSE m[i]]
    <2>1. Put(m, k, v) = new
      BY <1>2 DEF Put
    <2>2. /\ new \in [1..n -> E]
          /\ \A i \in 1..n : new[i].key = m[i].key
      BY <1>0, <1>1
    <2> HIDE DEF new
    <2>3. new \in Seq(E) /\ Len(new) = n /\ DOMAIN new = 1..n
      BY <1>0, <2>2
    <2>4. Bounded(new)
      BY <1>0, <2>2, <2>3 DEF Bounded, Apart
    <2> QED  BY <2>1, <2>3, <2>4 DEF E
  <1>3. CASE ~Holds(m, k)
    <2> DEFINE longer == Append(m, Entry(k, v))
    <2>1. Put(m, k, v) = IF Len(longer) > Capacity THEN Tail(longer) ELSE longer
      BY <1>3 DEF Put
    <2>2. /\ longer \in Seq(E) /\ Len(longer) = n + 1 /\ DOMAIN longer = 1..(n + 1)
          /\ \A i \in 1..n : longer[i] = m[i]
          /\ longer[n + 1] = Entry(k, v)
      <3>1. m \in Seq(E)
        BY DEF E
      <3> QED  BY <1>0, <1>1, <3>1
    <2> HIDE DEF longer
    <2>3. Apart(longer)
      BY <1>0, <1>1, <1>3, <2>2 DEF Apart, Holds
    <2>4. CASE Len(longer) > Capacity
      <3> DEFINE t == Tail(longer)
      <3>1. /\ t \in Seq(E) /\ Len(t) = n /\ DOMAIN t = 1..n
            /\ \A i \in 1..n : t[i] = longer[i + 1]
        BY <1>0, <2>2
      <3> HIDE DEF t
      <3>2. Apart(t)
        <4> SUFFICES ASSUME NEW i \in 1..n, NEW j \in 1..n, t[i].key = t[j].key PROVE i = j
          BY <3>1 DEF Apart
        <4>1. i + 1 \in 1..(n + 1) /\ j + 1 \in 1..(n + 1)
              /\ longer[i + 1].key = longer[j + 1].key
          BY <1>0, <3>1
        <4>2. i + 1 = j + 1
          BY <2>2, <2>3, <4>1 DEF Apart
        <4> QED  BY <1>0, <4>2
      <3>3. Bounded(t)
        BY <1>0, <3>1, <3>2 DEF Bounded, Apart
      <3>4. Put(m, k, v) = t
        BY <2>1, <2>4 DEF t
      <3> QED  BY <3>1, <3>3, <3>4 DEF E
    <2>5. CASE ~(Len(longer) > Capacity)
      <3>1. Bounded(longer)
        BY <1>0, <2>2, <2>3, <2>5 DEF Bounded, Apart
      <3> QED  BY <2>1, <2>2, <2>5, <3>1 DEF E
    <2> QED  BY <2>4, <2>5
  <1> QED  BY <1>2, <1>3

LEMMA DeleteKeeps ==
  ASSUME NEW K, NEW V, NEW m \in Seq(Entries(K, V)), Bounded(m), NEW k, Holds(m, k)
  PROVE  Delete(m, k) \in Seq(Entries(K, V)) /\ Bounded(Delete(m, k))
  <1> DEFINE E == Entries(K, V)
             n == Len(m)
             d == CHOOSE i \in DOMAIN m : m[i].key = k
             t == RemoveAt(m, d)
  <1>1. n \in Nat /\ DOMAIN m = 1..n /\ n <= Capacity /\ Capacity \in Nat /\ Apart(m)
        /\ m \in Seq(E)
    BY CapacityIsPositive DEF Bounded, Apart
  <1>2. d \in DOMAIN m /\ Delete(m, k) = t
    BY DEF Holds, Delete
  <1>3. IsInjective(m)
    BY <1>1 DEF IsInjective, Apart
  <1> HIDE DEF d, t, E
  <1>4. /\ t \in Seq(E) /\ IsInjective(t)
        /\ \A j \in DOMAIN t : IF j < d THEN j \in DOMAIN m /\ t[j] = m[j]
                               ELSE j + 1 \in DOMAIN m /\ t[j] = m[j + 1]
    BY <1>1, <1>2, <1>3, AfterRemoval DEF t
  <1>5. Len(t) <= n /\ Len(t) \in Nat
    <2>1. Len(t) \in Nat /\ DOMAIN t = 1..Len(t)
      BY <1>4
    <2>2. CASE Len(t) = 0
      BY <1>1, <2>1, <2>2
    <2>3. CASE Len(t) > 0
      <3>1. Len(t) \in DOMAIN t
        BY <2>1, <2>3
      <3> QED  BY <1>1, <1>4, <2>1, <3>1
    <2> QED  BY <2>1, <2>2, <2>3
  <1>6. Apart(t)
    <2> SUFFICES ASSUME NEW i \in DOMAIN t, NEW j \in DOMAIN t, t[i].key = t[j].key PROVE i = j
      BY DEF Apart
    <2> DEFINE up(x) == IF x < d THEN x ELSE x + 1
    <2>1. up(i) \in DOMAIN m /\ t[i] = m[up(i)] /\ up(j) \in DOMAIN m /\ t[j] = m[up(j)]
      BY <1>4
    <2> HIDE DEF up
    <2>2. t[i] = t[j]
      BY <1>1, <2>1 DEF Apart
    <2> QED  BY <1>4, <2>2 DEF IsInjective
  <1> QED  BY <1>1, <1>2, <1>4, <1>5, <1>6 DEF Bounded, Apart, E

LEMMA LeastExists ==
  ASSUME NEW T \in SUBSET Nat, T # {}
  PROVE  \E x \in T : \A y \in T : x =< y
  <1> DEFINE R == {ss \in Nat \X Nat : ss[1] < ss[2]}
  <1>1. IsWellFoundedOn(R, Nat)
    BY NatLessThanWellFounded DEF OpToRel
  <1>2. PICK x \in T : \A y \in T : <<y, x>> \notin R
    <2> HIDE DEF R
    <2> QED  BY <1>1, WFMin
  <1>3. \A y \in T : y < x => <<y, x>> \in R
    OBVIOUS
  <1> HIDE DEF R
  <1>4. \A y \in T : y \in Nat /\ x \in Nat /\ ~(y < x)
    BY <1>2, <1>3
  <1> QED  BY <1>4

LEMMA SetInduction ==
  ASSUME NEW S, 0 \in S, \A n \in Nat : n \in S => n + 1 \in S
  PROVE  Nat \subseteq S
  <1> DEFINE T == Nat \ S
  <1>1. SUFFICES ASSUME T # {} PROVE FALSE
    OBVIOUS
  <1>2. PICK x \in T : \A y \in T : x =< y
    BY <1>1, LeastExists
  <1>3. x # 0 /\ x - 1 \in Nat /\ x - 1 \in T
    BY <1>2
  <1> QED  BY <1>2, <1>3

IsRest(rest, m, cleared, N) ==
    rest = [n \in 0..N |-> IF n = 0 THEN <<>>
                           ELSE IF m[n].key[1] \in cleared THEN rest[n - 1]
                           ELSE Append(rest[n - 1], m[n])]

LEMMA RestExists ==
  ASSUME NEW m, NEW cleared, NEW N \in Nat
  PROVE  \E rest : IsRest(rest, m, cleared, N)
  <1> DEFINE Keep(s, e) == IF e.key[1] \in cleared THEN s ELSE Append(s, e)
             Is(g, x) == g = [n \in 0..x |-> IF n = 0 THEN <<>> ELSE Keep(g[n - 1], m[n])]
             S == {x \in Nat : \E g : Is(g, x)}
  <1> HIDE DEF Keep
  <1>1. 0 \in S
    <2> DEFINE g == [n \in 0..0 |-> <<>>]
    <2>1. Is(g, 0)
      OBVIOUS
    <2> HIDE DEF g
    <2> QED  BY <2>1
  <1>2. ASSUME NEW x \in Nat, x \in S PROVE x + 1 \in S
    <2>1. PICK g : Is(g, x)
      BY <1>2
    <2> DEFINE last == Keep(g[x], m[x + 1])
               h == [n \in 0..(x + 1) |-> IF n = x + 1 THEN last ELSE g[n]]
    <2> HIDE DEF last
    <2>2. \A n \in 0..x : h[n] = g[n]
      OBVIOUS
    <2>3. \A n \in 0..(x + 1) : h[n] = IF n = 0 THEN <<>> ELSE Keep(h[n - 1], m[n])
      <3> TAKE n \in 0..(x + 1)
      <3>1. CASE n = x + 1
        <4>1. h[n] = last /\ h[n - 1] = g[x] /\ n # 0
          BY <3>1, <2>2
        <4> QED  BY <4>1, <3>1 DEF last
      <3>2. CASE n # x + 1
        <4>1. n \in 0..x /\ h[n] = g[n]
          BY <3>2
        <4>2. g[n] = IF n = 0 THEN <<>> ELSE Keep(g[n - 1], m[n])
          BY <2>1, <4>1
        <4>3. n # 0 => h[n - 1] = g[n - 1]
          BY <4>1, <2>2
        <4> HIDE DEF h
        <4> QED  BY <4>1, <4>2, <4>3
      <3> QED  BY <3>1, <3>2
    <2>4. h = [n \in 0..(x + 1) |-> h[n]]
      OBVIOUS
    <2> HIDE DEF h
    <2>5. Is(h, x + 1)
      BY <2>3, <2>4
    <2> QED  BY <2>5
  <1> HIDE DEF S
  <1>3. Nat \subseteq S
    BY <1>1, <1>2, SetInduction
  <1> QED  BY <1>3 DEF S, Keep, IsRest

\* What is left once the servers in cleared are deleted has none of their entries,
\* and those of the others.
LEMMA DeleteServersKeeps ==
  ASSUME NEW E, NEW m \in Seq(E), Bounded(m), NEW cleared
  PROVE  /\ DeleteServers(m, cleared) \in Seq(E) /\ Bounded(DeleteServers(m, cleared))
         /\ \A s \in cleared : EntriesOf(DeleteServers(m, cleared), s) = {}
         /\ \A s : s \notin cleared => EntriesOf(DeleteServers(m, cleared), s) = EntriesOf(m, s)
  <1> DEFINE N == Len(m)
             rest == CHOOSE rest : IsRest(rest, m, cleared, N)
             Good(n, r) == /\ r \in Seq(E) /\ Len(r) <= n /\ Apart(r)
                           /\ \A i \in DOMAIN r : /\ r[i].key[1] \notin cleared
                                                  /\ \E j \in 1..n : r[i] = m[j]
                           /\ \A j \in 1..n : m[j].key[1] \notin cleared =>
                                                  \E i \in DOMAIN r : r[i] = m[j]
             S == {n \in Nat : n <= N => Good(n, rest[n])}
  <1>0. N \in Nat /\ DOMAIN m = 1..N /\ Apart(m) /\ N <= Capacity /\ Capacity \in Nat
        /\ \A i \in 1..N : m[i] \in E
    BY CapacityIsPositive DEF Bounded, Apart
  <1>1. \A n \in 0..N : rest[n] = IF n = 0 THEN <<>>
                                  ELSE IF m[n].key[1] \in cleared THEN rest[n - 1]
                                  ELSE Append(rest[n - 1], m[n])
    <2>1. IsRest(rest, m, cleared, N)
      BY <1>0, RestExists
    <2> HIDE DEF rest, N
    <2> QED  BY <2>1 DEF IsRest
  <1>2. DeleteServers(m, cleared) = rest[N]
    BY DEF DeleteServers, IsRest
  <1> HIDE DEF rest, N
  <1>3. 0 \in S
    <2>1. 0 \in 0..N
      BY <1>0
    <2>2. rest[0] = <<>>
      <3> HIDE DEF S, Good
      <3> QED  BY <1>1, <2>1
    <2>3. <<>> \in Seq(E) /\ Len(<<>>) = 0 /\ DOMAIN <<>> = {}
      OBVIOUS
    <2>4. Good(0, <<>>)
      <3> HIDE DEF S
      <3> QED  BY <2>3 DEF Apart
    <2>5. Good(0, rest[0])
      <3> HIDE DEF Good, S
      <3> QED  BY <2>2, <2>4
    <2> HIDE DEF Good
    <2> QED  BY <2>5
  <1>4. ASSUME NEW n \in Nat, n \in S PROVE n + 1 \in S
    <2> SUFFICES ASSUME n + 1 <= N PROVE Good(n + 1, rest[n + 1])
      OBVIOUS
    <2> DEFINE r == rest[n]
               e == m[n + 1]
    <2>1. Good(n, r)
      BY <1>0, <1>4
    <2>2. rest[n + 1] = IF e.key[1] \in cleared THEN r ELSE Append(r, e)
      <3>1. n + 1 \in 0..N /\ n + 1 # 0 /\ (n + 1) - 1 = n
        BY <1>0
      <3> QED  BY <1>1, <3>1
    <2>3. n + 1 \in 1..N /\ e \in E
      BY <1>0
    <2> HIDE DEF r
    <2>4. CASE e.key[1] \in cleared
      <3>1. \A j \in 1..(n + 1) : m[j].key[1] \notin cleared => j \in 1..n
        BY <2>4
      <3>2. \A i \in DOMAIN r : \E j \in 1..(n + 1) : r[i] = m[j]
        <4>1. \A j \in 1..n : j \in 1..(n + 1)
          OBVIOUS
        <4> QED  BY <2>1, <4>1
      <3>3. rest[n + 1] = r /\ Len(r) <= n + 1
        BY <2>1, <2>2, <2>4
      <3> HIDE DEF e
      <3> QED  BY <2>1, <3>1, <3>2, <3>3
    <2>5. CASE e.key[1] \notin cleared
      <3> DEFINE t == Append(r, e)
      <3> HIDE DEF e
      <3>1. /\ t \in Seq(E) /\ Len(t) = Len(r) + 1 /\ Len(r) \in Nat
            /\ DOMAIN t = 1..(Len(r) + 1) /\ DOMAIN r = 1..Len(r)
            /\ \A i \in 1..Len(r) : t[i] = r[i]
            /\ t[Len(r) + 1] = e
        BY <2>1, <2>3
      <3> HIDE DEF t
      <3>2. ASSUME NEW i \in 1..Len(r) PROVE r[i].key # e.key
        <4>1. PICK j \in 1..n : r[i] = m[j]
          BY <2>1, <3>1
        <4>2. j \in 1..N /\ j # n + 1
          BY <1>0
        <4> QED  BY <1>0, <2>3, <4>1, <4>2 DEF Apart, e
      <3>3. Apart(t)
        BY <2>1, <3>1, <3>2 DEF Apart
      <3>4. ASSUME NEW i \in DOMAIN t
            PROVE  t[i].key[1] \notin cleared /\ \E j \in 1..(n + 1) : t[i] = m[j]
        <4>1. CASE i = Len(r) + 1
          <5>1. t[i] = m[n + 1] /\ n + 1 \in 1..(n + 1)
            BY <3>1, <4>1 DEF e
          <5>2. t[i] = e
            BY <3>1, <4>1
          <5> QED  BY <2>5, <5>1, <5>2
        <4>2. CASE i # Len(r) + 1
          <5>1. i \in DOMAIN r /\ t[i] = r[i]
            BY <3>1, <4>2
          <5>2. PICK j \in 1..n : r[i] = m[j]
            BY <2>1, <5>1
          <5>3. j \in 1..(n + 1)
            OBVIOUS
          <5> QED  BY <2>1, <5>1, <5>2, <5>3
        <4> QED  BY <4>1, <4>2
      <3>5. rest[n + 1] = t /\ Len(t) <= n + 1
        BY <2>1, <2>2, <2>5, <3>1 DEF t
      <3>6. ASSUME NEW j \in 1..(n + 1), m[j].key[1] \notin cleared
            PROVE  \E i \in DOMAIN t : t[i] = m[j]
        <4>1. CASE j = n + 1
          <5>1. Len(r) + 1 \in DOMAIN t /\ t[Len(r) + 1] = m[j]
            BY <3>1, <4>1 DEF e
          <5> QED  BY <5>1
        <4>2. CASE j # n + 1
          <5>1. j \in 1..n
            BY <4>2
          <5>2. PICK i \in DOMAIN r : r[i] = m[j]
            BY <2>1, <3>6, <5>1
          <5>3. i \in DOMAIN t /\ t[i] = r[i]
            BY <3>1
          <5> QED  BY <5>2, <5>3
        <4> QED  BY <4>1, <4>2
      <3> QED  BY <3>1, <3>3, <3>4, <3>5, <3>6
    <2> QED  BY <2>4, <2>5
  <1> HIDE DEF S
  <1>5. N \in S
    BY <1>0, <1>3, <1>4, SetInduction
  <1>6. Good(N, rest[N])
    BY <1>0, <1>5 DEF S
  <1> DEFINE r == rest[N]
  <1> HIDE DEF S
  <1>7. /\ r \in Seq(E) /\ Len(r) <= N /\ Apart(r) /\ Len(r) \in Nat
        /\ \A i \in DOMAIN r : r[i].key[1] \notin cleared /\ \E j \in DOMAIN m : r[i] = m[j]
        /\ \A j \in DOMAIN m : m[j].key[1] \notin cleared => \E i \in DOMAIN r : r[i] = m[j]
    <2>1. Good(N, r) /\ DOMAIN m = 1..N
      BY <1>0, <1>6
    <2> HIDE DEF r
    <2>2. Len(r) \in Nat
      BY <2>1
    <2> QED  BY <2>1, <2>2
  <1> HIDE DEF r, Good
  <1>8. \A s \in cleared : EntriesOf(r, s) = {}
    BY <1>7 DEF EntriesOf
  <1>9. ASSUME NEW s, s \notin cleared PROVE EntriesOf(r, s) = EntriesOf(m, s)
    <2>1. ASSUME NEW x \in EntriesOf(r, s) PROVE x \in EntriesOf(m, s)
      <3>1. PICK i \in DOMAIN r : x = r[i] /\ r[i].key[1] = s
        BY <2>1 DEF EntriesOf
      <3>2. PICK j \in DOMAIN m : r[i] = m[j]
        BY <1>7
      <3> QED  BY <3>1, <3>2 DEF EntriesOf
    <2>2. ASSUME NEW x \in EntriesOf(m, s) PROVE x \in EntriesOf(r, s)
      <3>1. PICK j \in DOMAIN m : x = m[j] /\ m[j].key[1] = s
        BY <2>2 DEF EntriesOf
      <3>2. PICK i \in DOMAIN r : r[i] = m[j]
        BY <1>7, <1>9, <3>1
      <3> QED  BY <3>1, <3>2 DEF EntriesOf
    <2> QED  BY <2>1, <2>2
  <1>10. DeleteServers(m, cleared) = r
    BY <1>2 DEF r
  <1>11. Bounded(r)
    BY <1>0, <1>7 DEF Bounded, Apart
  <1> QED  BY <1>7, <1>8, <1>9, <1>10, <1>11

----------------------------------------------------------------------------
(* Identifiers, and the tools under them.                                  *)

LEMMA SameSequence ==
  ASSUME NEW S, NEW a \in Seq(S), NEW b \in Seq(S), Len(a) = Len(b),
         \A i \in 1..Len(a) : a[i] = b[i]
  PROVE  a = b
  <1>1. a = [i \in 1..Len(a) |-> a[i]] /\ b = [i \in 1..Len(b) |-> b[i]]
    OBVIOUS
  <1> QED  BY <1>1

LEMMA PrefixIsPointwise ==
  ASSUME NEW S, NEW s \in Seq(S), NEW t \in Seq(S)
  PROVE  IsPrefix(s, t) <=> Len(s) <= Len(t) /\ \A i \in 1..Len(s) : s[i] = t[i]
  <1> DEFINE n == Len(s)
             a == SubSeq(s, 1, n)
             b == SubSeq(t, 1, n)
  <1>1. IsPrefix(s, t) <=> n <= Len(t) /\ a = b
    BY DEF IsPrefix
  <1>2. ASSUME n <= Len(t)
        PROVE  /\ a \in Seq(S) /\ Len(a) = n /\ \A i \in 1..n : a[i] = s[i]
               /\ b \in Seq(S) /\ Len(b) = n /\ \A i \in 1..n : b[i] = t[i]
    BY <1>2
  <1> HIDE DEF a, b
  <1>3. n <= Len(t) => (a = b <=> \A i \in 1..n : s[i] = t[i])
    BY <1>2, SameSequence
  <1> QED  BY <1>1, <1>3

LEMMA ToolsAreUnderTheirServer ==
  ASSUME NEW s \in Server, NEW n \in Name
  PROVE  InNamespace(s, s \o n)
  <1> DEFINE t == s \o n
  <1>1. s \in Seq(STRING) /\ n \in Seq(STRING) /\ n # <<>>
    BY IdentifiersHaveParts
  <1>2. /\ t \in Seq(STRING) /\ Len(t) = Len(s) + Len(n)
        /\ \A j \in 1..(Len(s) + Len(n)) : t[j] = IF j <= Len(s) THEN s[j] ELSE n[j - Len(s)]
    BY <1>1, Concatenation
  <1>3. Len(n) > 0 /\ Len(s) \in Nat /\ Len(n) \in Nat
    BY <1>1
  <1> HIDE DEF t
  <1>4. Len(s) < Len(t) /\ \A j \in 1..Len(s) : s[j] = t[j]
    BY <1>2, <1>3
  <1>5. IsPrefix(s, t)
    BY <1>1, <1>2, <1>3, <1>4, PrefixIsPointwise
  <1> QED  BY <1>4, <1>5 DEF InNamespace, t

\* Of two prefixes of a sequence the one is a prefix of the other.
LEMMA PrefixesNest ==
  ASSUME NEW S, NEW s \in Seq(S), NEW t \in Seq(S), NEW id \in Seq(S),
         InNamespace(s, id), InNamespace(t, id)
  PROVE  IsPrefix(s, t) \/ IsPrefix(t, s)
  <1>1. /\ Len(s) <= Len(id) /\ \A i \in 1..Len(s) : s[i] = id[i]
        /\ Len(t) <= Len(id) /\ \A i \in 1..Len(t) : t[i] = id[i]
    BY PrefixIsPointwise DEF InNamespace
  <1>2. Len(s) \in Nat /\ Len(t) \in Nat
    OBVIOUS
  <1>3. CASE Len(s) <= Len(t)
    BY <1>1, <1>2, <1>3, PrefixIsPointwise
  <1>4. CASE Len(t) <= Len(s)
    BY <1>1, <1>2, <1>4, PrefixIsPointwise
  <1> QED  BY <1>2, <1>3, <1>4

ToolsOK ==
  /\ \A id \in DOMAIN tools : IF id \in Native THEN tools[id] = native
                              ELSE tools[id] \in Server /\ InNamespace(tools[id], id)
  /\ Native \subseteq DOMAIN tools
  /\ DOMAIN tools \subseteq Seq(STRING)

\* What a change of the tools does: some tools of cleared go, some of s come.
ToolsChange(s, ids, cleared) ==
  /\ ids \cap Native = {} /\ \A id \in ids : InNamespace(s, id) /\ id \in Seq(STRING)
  /\ \E kept \in SUBSET DOMAIN tools :
        /\ \A id \in DOMAIN tools \ kept :
              id \notin Native /\ \E t \in cleared : InNamespace(t, id)
        /\ ids \cap kept = {}
        /\ DOMAIN tools' = kept \cup ids
        /\ \A id \in kept : tools'[id] = tools[id]
        /\ \A id \in ids : tools'[id] = s

LEMMA ToolsChangeTypes ==
  ASSUME ToolsOK, NEW s \in Server, NEW ids, NEW cleared, ToolsChange(s, ids, cleared)
  PROVE  ToolsOK'
  BY DEF ToolsOK, ToolsChange

LEMMA ServersAreRelatedToThemselves ==
  ASSUME NEW s \in Server PROVE Related(s, s)
  <1>1. s \in Seq(STRING) /\ Len(s) \in Nat
    BY IdentifiersHaveParts
  <1> QED  BY <1>1, PrefixIsPointwise DEF Related

\* A change of the tools leaves alone those of a server that is related to none of
\* the servers whose tools go, and is not the one whose tools come.
LEMMA ToolsChangeSeparates ==
  ASSUME ToolsOK, NEW s \in Server, NEW ids,
         NEW cleared \in SUBSET Server, ToolsChange(s, ids, cleared),
         NEW t \in Server, \A r \in cleared : ~Related(r, t), t # s \/ ids = {}
  PROVE  (ToolsOf(t))' = ToolsOf(t)
  <1>1. PICK kept \in SUBSET DOMAIN tools :
          /\ \A id \in DOMAIN tools \ kept :
                id \notin Native /\ \E r \in cleared : InNamespace(r, id)
          /\ ids \cap kept = {}
          /\ DOMAIN tools' = kept \cup ids
          /\ \A id \in kept : tools'[id] = tools[id]
          /\ \A id \in ids : tools'[id] = s
    BY DEF ToolsChange
  <1>2. ASSUME NEW id \in DOMAIN tools, tools[id] = t PROVE id \in kept
    <2> SUFFICES ASSUME id \notin kept PROVE FALSE
      OBVIOUS
    <2>1. id \notin Native /\ InNamespace(t, id) /\ id \in Seq(STRING)
      BY <1>1, <1>2 DEF ToolsOK
    <2>2. PICK r \in cleared : InNamespace(r, id)
      BY <1>1, <1>2
    <2>3. r \in Server /\ r \in Seq(STRING) /\ t \in Seq(STRING)
      BY IdentifiersHaveParts
    <2>4. Related(r, t)
      BY <2>1, <2>2, <2>3, PrefixesNest DEF Related
    <2> QED  BY <2>4
  <1>3. ASSUME NEW id \in DOMAIN tools', tools'[id] = t PROVE id \in kept
    BY <1>1, <1>3
  <1> QED  BY <1>1, <1>2, <1>3 DEF ToolsOf

LEMMA DeregisteredChange ==
  ASSUME ToolsOK, NEW cleared \in SUBSET Server, NEW s \in Server,
         tools' = Restrict(tools, DOMAIN tools \ Deregistered(cleared))
  PROVE  ToolsChange(s, {}, cleared)
  <1> DEFINE kept == DOMAIN tools \ Deregistered(cleared)
  <1>1. DOMAIN tools' = kept /\ \A id \in kept : tools'[id] = tools[id]
    BY DEF Restrict
  <1>2. ASSUME NEW id \in DOMAIN tools \ kept
        PROVE  id \notin Native /\ \E t \in cleared : InNamespace(t, id)
    BY <1>2 DEF Deregistered
  <1> HIDE DEF kept
  <1>3. kept \in SUBSET DOMAIN tools
    BY DEF kept
  <1> QED  BY <1>1, <1>2, <1>3 DEF ToolsChange

LEMMA RegisteringChange ==
  ASSUME ToolsOK, NEW s \in Server, NEW names \in SUBSET Name, NEW kept \in SUBSET DOMAIN tools,
         \A id \in DOMAIN tools \ kept : id \notin Native /\ InNamespace(s, id),
         ToolIds(s, names) \cap kept = {},
         tools' = Registering(kept, s, ToolIds(s, names))
  PROVE  ToolsChange(s, ToolIds(s, names), {s})
  <1> DEFINE ids == ToolIds(s, names)
  <1>1. /\ DOMAIN tools' = kept \cup ids
        /\ \A id \in ids : tools'[id] = s
        /\ \A id \in kept : tools'[id] = tools[id]
    BY DEF Registering
  <1>2. ASSUME NEW id \in ids PROVE InNamespace(s, id) /\ id \in Seq(STRING)
    <2>1. PICK n \in names : id = s \o n
      BY DEF ToolIds
    <2>2. s \in Seq(STRING) /\ n \in Seq(STRING)
      BY IdentifiersHaveParts
    <2> QED  BY <2>1, <2>2, ToolsAreUnderTheirServer
  <1> HIDE DEF ids
  <1>3. Native \subseteq kept
    BY DEF ToolsOK
  <1>4. ids \cap kept = {} /\ ids \cap Native = {}
    BY <1>3 DEF ids
  <1>5. \A id \in DOMAIN tools \ kept : id \notin Native /\ \E t \in {s} : InNamespace(t, id)
    OBVIOUS
  <1>6. \E left \in SUBSET DOMAIN tools :
           /\ \A id \in DOMAIN tools \ left :
                 id \notin Native /\ \E t \in {s} : InNamespace(t, id)
           /\ ids \cap left = {} /\ DOMAIN tools' = left \cup ids
           /\ \A id \in left : tools'[id] = tools[id]
           /\ \A id \in ids : tools'[id] = s
    <2> WITNESS kept \in SUBSET DOMAIN tools
    <2> QED  BY <1>1, <1>4, <1>5
  <1>7. ToolsChange(s, ids, {s})
    BY <1>2, <1>4, <1>6 DEF ToolsChange
  <1> QED  BY <1>7 DEF ids

----------------------------------------------------------------------------
(* The types are kept, part by part.                                       *)

ListEntry == Entries({<<s>> : s \in Server}, {"fresh", "expired"})
ContentEntry == Entries(Server \X Uri, {"fresh", "expired"})
ProgressEntry == Entries(Server \X {"token"}, [progress : Nat, total : Nat])
SubscriptionEntry == Entries(Server \X {"listen"}, {"negotiated"})

IsMap(m, E) == m \in Seq(E) /\ Bounded(m)
ListsOK == lists \in [Kind -> Seq(ListEntry)] /\ \A k \in Kind : Bounded(lists[k])
HealthOK == health \subseteq Server /\ IsFiniteSet(health) /\ Cardinality(health) <= Capacity
ServersOK == servers \in [Server -> State \cup {Absent}]

LEMMA McpParts ==
  McpTypeOK <=> /\ ServersOK /\ ListsOK /\ ToolsOK /\ HealthOK
                /\ IsMap(contents, ContentEntry) /\ IsMap(progress, ProgressEntry)
                /\ IsMap(subscriptions, SubscriptionEntry)
                /\ operations \in 0..MaxOperations
  BY DEF McpTypeOK, ServersOK, ListsOK, ToolsOK, HealthOK, IsMap,
         ListEntry, ContentEntry, ProgressEntry, SubscriptionEntry

LEMMA McpPartsNext ==
  McpTypeOK' <=> /\ ServersOK' /\ ListsOK' /\ ToolsOK' /\ HealthOK'
                 /\ IsMap(contents', ContentEntry) /\ IsMap(progress', ProgressEntry)
                 /\ IsMap(subscriptions', SubscriptionEntry)
                 /\ operations' \in 0..MaxOperations
  BY DEF McpTypeOK, ServersOK, ListsOK, ToolsOK, HealthOK, IsMap,
         ListEntry, ContentEntry, ProgressEntry, SubscriptionEntry

LEMMA McpKept ==
  ASSUME McpTypeOK
  PROVE  /\ servers' = servers => ServersOK'
         /\ lists' = lists => ListsOK'
         /\ tools' = tools => ToolsOK'
         /\ health' = health => HealthOK'
  BY McpParts DEF ServersOK, ListsOK, ToolsOK, HealthOK

LEMMA CachedKeeps ==
  ASSUME ListsOK, NEW k \in Kind, NEW m, IsMap(m, ListEntry), Cached(k, m)
  PROVE  ListsOK'
  BY DEF ListsOK, IsMap, Cached

LEMMA ListMap ==
  ASSUME ListsOK, NEW k \in Kind, NEW s \in Server
  PROVE  /\ IsMap(lists[k], ListEntry)
         /\ \A v \in {"fresh", "expired"} : IsMap(Put(lists[k], <<s>>, v), ListEntry)
         /\ Holds(lists[k], <<s>>) => IsMap(Delete(lists[k], <<s>>), ListEntry)
  <1> DEFINE K == {<<t>> : t \in Server}
             V == {"fresh", "expired"}
             m == lists[k]
  <1>1. m \in Seq(Entries(K, V)) /\ Bounded(m) /\ <<s>> \in K
    BY DEF ListsOK, ListEntry
  <1> HIDE DEF K, V, m
  <1>2. \A v \in V : Put(m, <<s>>, v) \in Seq(Entries(K, V)) /\ Bounded(Put(m, <<s>>, v))
    BY <1>1, PutKeeps
  <1>3. Holds(m, <<s>>) => Delete(m, <<s>>) \in Seq(Entries(K, V)) /\ Bounded(Delete(m, <<s>>))
    BY <1>1, DeleteKeeps
  <1>4. ListEntry = Entries(K, V)
    BY DEF ListEntry, K, V
  <1>5. \A v \in V : IsMap(Put(m, <<s>>, v), ListEntry)
    BY <1>2, <1>4 DEF IsMap
  <1>6. IsMap(m, ListEntry) /\ (Holds(m, <<s>>) => IsMap(Delete(m, <<s>>), ListEntry))
    BY <1>1, <1>3, <1>4 DEF IsMap
  <1> QED  BY <1>5, <1>6 DEF m, V

LEMMA ListCacheKeeps == ASSUME ListsOK, NEW k \in Kind, ListCache(k) PROVE ListsOK'
  <1>1. PICK s \in Server :
           \/ Cached(k, Put(lists[k], <<s>>, "fresh"))
           \/ Holds(lists[k], <<s>>) /\ Cached(k, Delete(lists[k], <<s>>))
    BY DEF ListCache
  <1> QED  BY <1>1, ListMap, CachedKeeps

LEMMA ListChangedKeeps == ASSUME ListsOK, NEW k \in Kind, ListChanged(k) PROVE ListsOK'
  <1>1. PICK s \in Server : Holds(lists[k], <<s>>) /\ Cached(k, Delete(lists[k], <<s>>))
    BY DEF ListChanged
  <1> QED  BY <1>1, ListMap, CachedKeeps

LEMMA ContentMap ==
  ASSUME IsMap(contents, ContentEntry), NEW s \in Server, NEW u \in Uri
  PROVE  /\ \A v \in {"fresh", "expired"} : IsMap(Put(contents, <<s, u>>, v), ContentEntry)
         /\ Holds(contents, <<s, u>>) => IsMap(Delete(contents, <<s, u>>), ContentEntry)
  <1> DEFINE K == Server \X Uri
             V == {"fresh", "expired"}
  <1>1. /\ contents \in Seq(Entries(K, V)) /\ Bounded(contents)
        /\ <<s, u>> \in K
    BY DEF IsMap, ContentEntry
  <1> HIDE DEF K, V
  <1>2. \A v \in V : /\ Put(contents, <<s, u>>, v) \in Seq(Entries(K, V))
                     /\ Bounded(Put(contents, <<s, u>>, v))
    BY <1>1, PutKeeps
  <1>3. Holds(contents, <<s, u>>) => /\ Delete(contents, <<s, u>>) \in Seq(Entries(K, V))
                                     /\ Bounded(Delete(contents, <<s, u>>))
    BY <1>1, DeleteKeeps
  <1>4. ContentEntry = Entries(K, V)
    BY DEF ContentEntry, K, V
  <1>5. \A v \in V : IsMap(Put(contents, <<s, u>>, v), ContentEntry)
    BY <1>2, <1>4 DEF IsMap
  <1> QED  BY <1>3, <1>4, <1>5 DEF IsMap, V

LEMMA ProgressKeeps ==
  ASSUME IsMap(progress, ProgressEntry), McpProgressState
  PROVE  IsMap(progress', ProgressEntry)
  <1> DEFINE K == Server \X {"token"}
             V == [progress : Nat, total : Nat]
  <1>1. progress \in Seq(Entries(K, V)) /\ Bounded(progress)
    BY DEF IsMap, ProgressEntry
  <1>2. PICK s \in Server, t \in {"token"} :
           \/ \E p \in 1..2, total \in 0..2 : Progress(s, t, p, total)
           \/ Holds(progress, <<s, t>>) /\ progress' = Delete(progress, <<s, t>>)
    BY DEF McpProgressState
  <1>3. <<s, t>> \in K
    OBVIOUS
  <1>4. Snapshot(s, t) \in V
    <2>1. CASE Holds(progress, <<s, t>>)
      <3> DEFINE i == CHOOSE i \in DOMAIN progress : progress[i].key = <<s, t>>
      <3>1. i \in DOMAIN progress
        BY <2>1 DEF Holds
      <3>2. Snapshot(s, t) = progress[i].value
        BY <2>1 DEF Snapshot, At
      <3> HIDE DEF i, K, V
      <3>3. progress[i] \in Entries(K, V)
        BY <1>1, <3>1
      <3> QED  BY <3>2, <3>3 DEF Entries
    <2>2. CASE ~Holds(progress, <<s, t>>)
      BY <2>2 DEF Snapshot
    <2> QED  BY <2>1, <2>2
  <1>5. ASSUME NEW p \in 1..2, NEW total \in 0..2, Progress(s, t, p, total)
        PROVE  \E v \in V : progress' = Put(progress, <<s, t>>, v)
    <2> DEFINE v == [progress |-> p, total |-> IF total = 0 THEN Snapshot(s, t).total ELSE total]
    <2>1. progress' = Put(progress, <<s, t>>, v)
      BY <1>5 DEF Progress
    <2>2. v \in V
      BY <1>4
    <2> QED  BY <2>1, <2>2
  <1> HIDE DEF K, V
  <1>6. ASSUME NEW v \in V, progress' = Put(progress, <<s, t>>, v)
        PROVE  progress' \in Seq(Entries(K, V)) /\ Bounded(progress')
    BY <1>1, <1>3, <1>6, PutKeeps
  <1>7. ASSUME Holds(progress, <<s, t>>), progress' = Delete(progress, <<s, t>>)
        PROVE  progress' \in Seq(Entries(K, V)) /\ Bounded(progress')
    BY <1>1, <1>7, DeleteKeeps
  <1>8. progress' \in Seq(Entries(K, V)) /\ Bounded(progress')
    BY <1>2, <1>5, <1>6, <1>7
  <1> QED  BY <1>8 DEF IsMap, ProgressEntry, K, V

LEMMA SubscriptionsKeep ==
  ASSUME IsMap(subscriptions, SubscriptionEntry), McpSubscriptionState
  PROVE  IsMap(subscriptions', SubscriptionEntry)
  <1> DEFINE K == Server \X {"listen"}
             V == {"negotiated"}
  <1>1. subscriptions \in Seq(Entries(K, V)) /\ Bounded(subscriptions)
    BY DEF IsMap, SubscriptionEntry
  <1>2. PICK s \in Server, id \in {"listen"} :
           \/ subscriptions' = Put(subscriptions, <<s, id>>, "negotiated")
           \/ /\ Holds(subscriptions, <<s, id>>)
              /\ subscriptions' = Delete(subscriptions, <<s, id>>)
    BY DEF McpSubscriptionState
  <1>3. <<s, id>> \in K /\ "negotiated" \in V
    OBVIOUS
  <1> HIDE DEF K, V
  <1>4. subscriptions' \in Seq(Entries(K, V)) /\ Bounded(subscriptions')
    BY <1>1, <1>2, <1>3, PutKeeps, DeleteKeeps
  <1> QED  BY <1>4 DEF IsMap, SubscriptionEntry, K, V

LEMMA HealthKeeps ==
  ASSUME HealthOK, McpServerHealthTracker PROVE HealthOK'
  <1>1. PICK s \in Server : /\ s \in health \/ Cardinality(health) < Capacity
                            /\ health' = health \cup {s}
    BY DEF McpServerHealthTracker
  <1>2. CASE s \in health
    <2>1. health' = health
      BY <1>1, <1>2
    <2> QED  BY <2>1 DEF HealthOK
  <1>3. CASE s \notin health
    <2>1. IsFiniteSet(health') /\ Cardinality(health') = Cardinality(health) + 1
      BY <1>1, <1>3, FS_AddElement DEF HealthOK
    <2>2. Cardinality(health) \in Nat
      BY FS_CardinalityType DEF HealthOK
    <2> QED  BY <1>1, <1>3, <2>1, <2>2, CapacityIsPositive DEF HealthOK
  <1> QED  BY <1>2, <1>3

LEMMA DiscoveryChange ==
  ASSUME ToolsOK, NEW s \in Server, McpToolDiscovery(s)
  PROVE  tools' = tools \/ \E ids : ToolsChange(s, ids, {s})
  <1>1. \/ \E names \in SUBSET Name, refused \in SUBSET Name :
              Register(s, names, refused) \/ ReplaceTools(s, names, refused)
        \/ tools' = Restrict(tools, DOMAIN tools \ Deregistered({s}))
    BY DEF McpToolDiscovery
  <1>2. ASSUME NEW names \in SUBSET Name, NEW refused \in SUBSET Name,
               Register(s, names, refused)
        PROVE  \E ids : ToolsChange(s, ids, {s})
    <2> DEFINE kept == DOMAIN tools
    <2>1. /\ kept \in SUBSET DOMAIN tools
          /\ \A id \in DOMAIN tools \ kept : id \notin Native /\ InNamespace(s, id)
          /\ ToolIds(s, names) \cap kept = {}
          /\ tools' = Registering(kept, s, ToolIds(s, names))
      BY <1>2 DEF Register
    <2> HIDE DEF kept
    <2> QED  BY <2>1, RegisteringChange
  <1>3. ASSUME NEW names \in SUBSET Name, NEW refused \in SUBSET Name,
               ReplaceTools(s, names, refused), tools' # tools
        PROVE  \E ids : ToolsChange(s, ids, {s})
    <2> DEFINE kept == DOMAIN tools \ Namespace(s)
    <2>1. /\ kept \in SUBSET DOMAIN tools
          /\ \A id \in DOMAIN tools \ kept : id \notin Native /\ InNamespace(s, id)
          /\ ToolIds(s, names) \cap kept = {}
          /\ tools' = Registering(kept, s, ToolIds(s, names))
      BY <1>3 DEF ReplaceTools, Namespace
    <2> HIDE DEF kept
    <2> QED  BY <2>1, RegisteringChange
  <1>4. ASSUME tools' = Restrict(tools, DOMAIN tools \ Deregistered({s}))
        PROVE  \E ids : ToolsChange(s, ids, {s})
    <2>1. ToolsChange(s, {}, {s})
      BY <1>4, DeregisteredChange
    <2> QED  BY <2>1
  <1> QED  BY <1>1, <1>2, <1>3, <1>4

----------------------------------------------------------------------------
(* The cleanup, and the steps.                                             *)

LEMMA CleanupKeeps ==
  ASSUME McpTypeOK, NEW cleared \in SUBSET Server, ClearLocalState(cleared)
  PROVE  /\ ListsOK' /\ HealthOK' /\ ToolsOK'
         /\ IsMap(contents', ContentEntry) /\ IsMap(progress', ProgressEntry)
         /\ IsMap(subscriptions', SubscriptionEntry)
         /\ contents' = contents
         /\ \A s \in cleared : (KeptOf(s))' = Nothing
         /\ \A s \in Server \ cleared : (KeptOf(s))' = KeptOf(s)
         /\ \A s \in Server : ToolsChange(s, {}, cleared)
  <1>1. /\ tools' = Restrict(tools, DOMAIN tools \ Deregistered(cleared))
        /\ contents' = contents
        /\ lists' = [k \in Kind |-> DeleteServers(lists[k], cleared)]
        /\ progress' = DeleteServers(progress, cleared)
        /\ health' = health \ cleared
        /\ subscriptions' = DeleteServers(subscriptions, cleared)
    BY DEF ClearLocalState
  <1>2. /\ ListsOK /\ HealthOK /\ ToolsOK /\ IsMap(contents, ContentEntry)
        /\ IsMap(progress, ProgressEntry) /\ IsMap(subscriptions, SubscriptionEntry)
    BY McpParts
  <1>3. \A s \in Server : ToolsChange(s, {}, cleared)
    BY <1>1, <1>2, DeregisteredChange
  <1>4. ToolsOK'
    <2>1. CASE Server = {}
      <3>1. cleared = {} /\ Deregistered(cleared) = {}
        BY <2>1 DEF Deregistered
      <3>2. DOMAIN tools' = DOMAIN tools /\ \A id \in DOMAIN tools : tools'[id] = tools[id]
        BY <1>1, <3>1 DEF Restrict
      <3> QED  BY <1>2, <3>2 DEF ToolsOK
    <2>2. CASE Server # {}
      BY <1>2, <1>3, <2>2, ToolsChangeTypes
    <2> QED  BY <2>1, <2>2
  <1>5. ASSUME NEW k \in Kind
        PROVE  /\ lists'[k] \in Seq(ListEntry) /\ Bounded(lists'[k])
               /\ \A s \in cleared : EntriesOf(lists'[k], s) = {}
               /\ \A s \in Server \ cleared : EntriesOf(lists'[k], s) = EntriesOf(lists[k], s)
    <2>1. lists[k] \in Seq(ListEntry) /\ Bounded(lists[k])
      BY <1>2 DEF ListsOK
    <2> QED  BY <1>1, <2>1, DeleteServersKeeps
  <1>6. ListsOK'
    BY <1>1, <1>5 DEF ListsOK
  <1>7. /\ IsMap(progress', ProgressEntry)
        /\ \A s \in cleared : EntriesOf(progress', s) = {}
        /\ \A s \in Server \ cleared : EntriesOf(progress', s) = EntriesOf(progress, s)
    BY <1>1, <1>2, DeleteServersKeeps DEF IsMap
  <1>8. /\ IsMap(subscriptions', SubscriptionEntry)
        /\ \A s \in cleared : EntriesOf(subscriptions', s) = {}
        /\ \A s \in Server \ cleared : EntriesOf(subscriptions', s) = EntriesOf(subscriptions, s)
    BY <1>1, <1>2, DeleteServersKeeps DEF IsMap
  <1>9. HealthOK'
    <2>1. IsFiniteSet(health') /\ Cardinality(health') <= Cardinality(health)
      BY <1>1, <1>2, FS_Subset DEF HealthOK
    <2>2. Cardinality(health) \in Nat /\ Cardinality(health') \in Nat
      BY <1>2, <2>1, FS_CardinalityType DEF HealthOK
    <2> QED  BY <1>1, <1>2, <2>1, <2>2, CapacityIsPositive DEF HealthOK
  <1>10. ASSUME NEW s \in cleared PROVE (KeptOf(s))' = Nothing
    <2>1. {s} \cap health' = {}
      BY <1>1
    <2>2. [k \in Kind |-> EntriesOf(lists'[k], s)] = [k \in Kind |-> {}]
      BY <1>5
    <2> QED  BY <1>7, <1>8, <2>1, <2>2 DEF KeptOf, Nothing
  <1>11. ASSUME NEW s \in Server \ cleared PROVE (KeptOf(s))' = KeptOf(s)
    <2>1. {s} \cap health' = {s} \cap health
      BY <1>1
    <2>2. [k \in Kind |-> EntriesOf(lists'[k], s)] = [k \in Kind |-> EntriesOf(lists[k], s)]
      BY <1>5
    <2> QED  BY <1>7, <1>8, <2>1, <2>2 DEF KeptOf
  <1> QED  BY <1>1, <1>2, <1>3, <1>4, <1>6, <1>7, <1>8, <1>9, <1>10, <1>11

\* The manager: servers come and go, and what is cleared is what has gone.
LEMMA ManagerStep ==
  ASSUME McpTypeOK, McpServerManager
  PROVE  /\ ServersOK'
         /\ \/ UNCHANGED local /\ Removed = {}
            \/ ClearLocalState(Removed)
  <1>0. ServersOK /\ Absent \notin State
    BY McpParts DEF Absent, State
  <1>1. CASE AddServer
    <2>1. PICK s \in Server : /\ servers[s] = Absent
                              /\ servers' = [servers EXCEPT ![s] = "Discovered"]
                              /\ UNCHANGED local
      BY <1>1 DEF AddServer
    <2>2. ServersOK'
      BY <1>0, <2>1 DEF ServersOK, State
    <2>3. Removed = {}
      BY <1>0, <2>1 DEF ServersOK, Removed, Absent
    <2> QED  BY <2>1, <2>2, <2>3
  <1>2. CASE Transition
    <2>1. PICK s \in Server, t \in Lifecycle : /\ servers[s] = t[1]
                                               /\ servers' = [servers EXCEPT ![s] = t[2]]
                                               /\ UNCHANGED local
      BY <1>2 DEF Transition
    <2>2. t[2] \in State /\ t[2] # Absent
      <3>1. \/ t = <<"Discovered", "Pending approval">> \/ t = <<"Pending approval", "Connected">>
            \/ t = <<"Connected", "Disabled">> \/ t = <<"Disabled", "Connected">>
        BY DEF Lifecycle
      <3>2. \A a, b : <<a, b>>[2] = b
        OBVIOUS
      <3>3. t[2] = "Pending approval" \/ t[2] = "Connected" \/ t[2] = "Disabled"
        BY <3>1, <3>2
      <3> QED  BY <3>3 DEF State, Absent
    <2>3. ServersOK'
      BY <1>0, <2>1, <2>2 DEF ServersOK
    <2>4. Removed = {}
      BY <1>0, <2>1, <2>2 DEF ServersOK, Removed
    <2> QED  BY <2>1, <2>3, <2>4
  <1>3. CASE RemoveServer
    <2>1. PICK s \in Server : /\ servers[s] # Absent /\ ClearLocalState({s})
                              /\ servers' = [servers EXCEPT ![s] = Absent]
      BY <1>3 DEF RemoveServer, Configured
    <2>2. ServersOK'
      BY <1>0, <2>1 DEF ServersOK
    <2>3. \A r \in Server : servers'[r] = IF r = s THEN Absent ELSE servers[r]
      BY <1>0, <2>1 DEF ServersOK
    <2>4. Removed = {s}
      BY <2>1, <2>3 DEF Removed
    <2> QED  BY <2>1, <2>2, <2>4
  <1>4. CASE ReplaceServers
    <2>1. PICK next \in [Server -> (State \cap Replaced) \cup {Absent}] :
             /\ ClearLocalState({s \in Configured : next[s] = Absent})
             /\ servers' = next
      BY <1>4 DEF ReplaceServers
    <2>2. ServersOK'
      BY <2>1 DEF ServersOK
    <2>3. Removed = {s \in Configured : next[s] = Absent}
      BY <2>1 DEF Removed, Configured
    <2> QED  BY <2>1, <2>2, <2>3
  <1> QED  BY <1>1, <1>2, <1>3, <1>4 DEF McpServerManager

ListStep == \E k \in Kind : ListCache(k) \/ ListChanged(k)

LEMMA McpCases ==
  ASSUME McpNext
  PROVE  /\ operations' = operations + 1 /\ operations < MaxOperations
         /\ \/ McpServerManager \/ (\E s \in Server : McpToolDiscovery(s)) \/ ListStep
            \/ McpResourceCache \/ McpResourceUpdateInvalidator \/ Expire
            \/ McpProgressState \/ McpSubscriptionState \/ McpServerHealthTracker
  <1>1. /\ "tools" \in Kind /\ "prompts" \in Kind /\ "resources" \in Kind
        /\ "templates" \in Kind /\ "discovery" \in Kind
    BY DEF Kind
  <1> QED
    BY <1>1 DEF McpNext, ListStep, McpToolCache, McpPromptCache, McpResourceListCache,
                McpResourceTemplatesListCache, McpServerDiscoveryCache,
                McpToolListUpdateInvalidator, McpPromptListUpdateInvalidator,
                McpResourceListUpdateInvalidator, McpResourceTemplatesListUpdateInvalidator

LEMMA McpTypesKept ==
  ASSUME McpTypeOK, [McpNext]_mcp
  PROVE  McpTypeOK'
  <1>0. /\ ServersOK /\ ListsOK /\ ToolsOK /\ HealthOK
        /\ IsMap(contents, ContentEntry) /\ IsMap(progress, ProgressEntry)
        /\ IsMap(subscriptions, SubscriptionEntry)
        /\ operations \in 0..MaxOperations /\ MaxOperations \in Nat
    BY McpParts, CapacityIsPositive
  <1>1. CASE UNCHANGED mcp
    BY <1>0, <1>1, McpKept, McpPartsNext DEF mcp, local
  <1>2. CASE McpNext
    <2>0. operations' \in 0..MaxOperations
      BY <1>0, <1>2, McpCases
    <2>1. CASE McpServerManager
      <3>1. CASE UNCHANGED local
        BY <1>0, <2>0, <2>1, <3>1, ManagerStep, McpKept, McpPartsNext DEF local
      <3>2. CASE ClearLocalState(Removed)
        <4>1. Removed \in SUBSET Server
          BY DEF Removed
        <4> HIDE DEF Removed
        <4> QED  BY <2>0, <2>1, <3>2, <4>1, ManagerStep, CleanupKeeps, McpPartsNext
      <3> QED  BY <2>1, <3>1, <3>2, ManagerStep
    <2>2. CASE \E s \in Server : McpToolDiscovery(s)
      <3>1. ToolsOK'
        BY <1>0, <2>2, DiscoveryChange, ToolsChangeTypes, McpKept
      <3>2. UNCHANGED <<servers, lists, contents, progress, subscriptions, health>>
        BY <2>2 DEF McpToolDiscovery
      <3> QED  BY <1>0, <2>0, <3>1, <3>2, McpKept, McpPartsNext
    <2>3. CASE ListStep
      <3>1. ListsOK'
        BY <1>0, <2>3, ListCacheKeeps, ListChangedKeeps DEF ListStep
      <3>2. UNCHANGED <<servers, tools, contents, progress, subscriptions, health>>
        BY <2>3 DEF ListStep, ListCache, ListChanged
      <3> QED  BY <1>0, <2>0, <3>1, <3>2, McpKept, McpPartsNext
    <2>4. CASE McpResourceCache \/ McpResourceUpdateInvalidator
      <3>1. IsMap(contents', ContentEntry)
        BY <1>0, <2>4, ContentMap DEF McpResourceCache, McpResourceUpdateInvalidator
      <3>2. UNCHANGED <<servers, tools, lists, progress, subscriptions, health>>
        BY <2>4 DEF McpResourceCache, McpResourceUpdateInvalidator
      <3> QED  BY <1>0, <2>0, <3>1, <3>2, McpKept, McpPartsNext
    <2>5. CASE Expire
      <3>1. UNCHANGED <<servers, tools, progress, subscriptions, health>>
        BY <2>5 DEF Expire
      <3>2. CASE \E k \in Kind, s \in Server : /\ Cached(k, Put(lists[k], <<s>>, "expired"))
                                               /\ UNCHANGED contents
        BY <1>0, <2>0, <3>1, <3>2, ListMap, CachedKeeps, McpKept, McpPartsNext
      <3>3. CASE \E s \in Server, u \in Uri : /\ contents' = Put(contents, <<s, u>>, "expired")
                                              /\ UNCHANGED lists
        BY <1>0, <2>0, <3>1, <3>3, ContentMap, McpKept, McpPartsNext
      <3> QED  BY <2>5, <3>2, <3>3 DEF Expire
    <2>6. CASE McpProgressState
      <3>1. UNCHANGED <<servers, tools, lists, contents, subscriptions, health>>
        BY <2>6 DEF McpProgressState
      <3> QED  BY <1>0, <2>0, <2>6, <3>1, ProgressKeeps, McpKept, McpPartsNext
    <2>7. CASE McpSubscriptionState
      <3>1. UNCHANGED <<servers, tools, lists, contents, progress, health>>
        BY <2>7 DEF McpSubscriptionState
      <3> QED  BY <1>0, <2>0, <2>7, <3>1, SubscriptionsKeep, McpKept, McpPartsNext
    <2>8. CASE McpServerHealthTracker
      <3>1. UNCHANGED <<servers, tools, lists, contents, progress, subscriptions>>
        BY <2>8 DEF McpServerHealthTracker
      <3> QED  BY <1>0, <2>0, <2>8, <3>1, HealthKeeps, McpKept, McpPartsNext
    <2> QED  BY <1>2, <2>1, <2>2, <2>3, <2>4, <2>5, <2>6, <2>7, <2>8, McpCases
  <1> QED  BY <1>1, <1>2

LEMMA McpStarts == ASSUME McpInit PROVE McpTypeOK
  <1>1. /\ <<>> \in Seq(ListEntry) /\ <<>> \in Seq(ContentEntry) /\ <<>> \in Seq(ProgressEntry)
        /\ <<>> \in Seq(SubscriptionEntry) /\ Bounded(<<>>)
    BY CapacityIsPositive DEF Bounded
  <1>2. ListsOK
    BY <1>1 DEF McpInit, ListsOK
  <1>3. /\ IsMap(contents, ContentEntry) /\ IsMap(progress, ProgressEntry)
        /\ IsMap(subscriptions, SubscriptionEntry)
    BY <1>1 DEF McpInit, IsMap
  <1>4. HealthOK
    BY FS_EmptySet, CapacityIsPositive DEF McpInit, HealthOK
  <1>5. ToolsOK
    BY IdentifiersHaveParts DEF McpInit, ToolsOK
  <1>6. ServersOK /\ operations \in 0..MaxOperations
    BY CapacityIsPositive DEF McpInit, ServersOK
  <1> QED  BY <1>2, <1>3, <1>4, <1>5, <1>6, McpParts

\* Every bounded map of the MCP client keeps within its bound and holds a key
\* once, in every order of puts, expiries, invalidations and cleanups, and every
\* tool is native or under the identifier of the server it was registered from.
THEOREM McpTypes == McpSpec => []McpTypeOK
  <1>1. McpInit => McpTypeOK
    BY McpStarts
  <1>2. McpTypeOK /\ [McpNext]_mcp => McpTypeOK'
    BY McpTypesKept
  <1> QED  BY <1>1, <1>2, PTL DEF McpSpec

\* Whatever leaves the configuration by itself or with others, no tool, listing,
\* snapshot, subscription or observation is kept by its identifier after that step,
\* and nothing but tools is taken from the servers that stay.  The read resources
\* are not among what is cleared: they stay as they are, as the code leaves them.
THEOREM RemovalsAreExact == McpSpec => RemovalTakesItsOwn
  <1>1. McpInit => McpTypeOK
    BY McpStarts
  <1>2. ASSUME McpTypeOK, [McpNext]_mcp
        PROVE  /\ McpTypeOK'
               /\ [Removed # {} =>
                     /\ \A s \in Removed : (KeptOf(s))' = Nothing /\ (ToolsOf(s))' = {}
                     /\ \A s \in Server \ Removed : (KeptOf(s))' = KeptOf(s)
                     /\ contents' = contents]_mcp
    <2>1. McpTypeOK'
      BY <1>2, McpTypesKept
    <2>2. CASE UNCHANGED mcp
      BY <2>1, <2>2
    <2>3. ASSUME McpNext, Removed # {}
          PROVE  /\ \A s \in Removed : (KeptOf(s))' = Nothing /\ (ToolsOf(s))' = {}
                 /\ \A s \in Server \ Removed : (KeptOf(s))' = KeptOf(s)
                 /\ contents' = contents
      <3>1. McpServerManager
        <4>1. servers' # servers
          BY <2>3 DEF Removed
        <4> QED  BY <2>3, <4>1, McpCases
                 DEF McpToolDiscovery, ListStep, ListCache, ListChanged, McpResourceCache,
                     McpResourceUpdateInvalidator, Expire, McpProgressState,
                     McpSubscriptionState, McpServerHealthTracker
      <3>2. ClearLocalState(Removed)
        BY <1>2, <2>3, <3>1, ManagerStep
      <3>3. Removed \in SUBSET Server
        BY DEF Removed
      <3>4. ASSUME NEW s \in Removed PROVE (ToolsOf(s))' = {}
        <4>1. ToolsOK /\ ToolsOK'
          BY <1>2, <2>1, McpParts, McpPartsNext
        <4>2. ASSUME NEW id \in DOMAIN tools', tools'[id] = s PROVE FALSE
          <5>1. DOMAIN tools' = DOMAIN tools \ Deregistered(Removed)
            BY <3>2 DEF ClearLocalState, Restrict
          <5>2. s \in Server /\ s # native
            BY <3>3, <3>4, IdentifiersHaveParts DEF native
          <5>3. id \notin Native /\ InNamespace(s, id)
            BY <4>1, <4>2, <5>2 DEF ToolsOK
          <5>4. id \in Deregistered(Removed)
            BY <3>4, <4>2, <5>1, <5>3 DEF Deregistered
          <5> QED  BY <4>2, <5>1, <5>4
        <4> QED  BY <4>2 DEF ToolsOf
      <3> HIDE DEF Removed
      <3>5. /\ contents' = contents
            /\ \A s \in Removed : (KeptOf(s))' = Nothing
            /\ \A s \in Server \ Removed : (KeptOf(s))' = KeptOf(s)
        BY <1>2, <3>2, <3>3, CleanupKeeps
      <3> QED  BY <3>4, <3>5
    <2> QED  BY <1>2, <2>1, <2>2, <2>3
  <1> QED  BY <1>1, <1>2, PTL DEF McpSpec, RemovalTakesItsOwn

\* Whatever the identifiers, dotted ones included: a step that changes the tools of
\* a server is one of its own or of a server whose identifier begins its own or
\* begins with it, and tools that are not of a server are left alone.
THEOREM SourcesStaySeparate == McpSpec => SourcesAreSeparate
  <1> DEFINE Changed(t) == \E s \in Server : Related(s, t) /\ (s \in Removed \/ McpToolDiscovery(s))
             Separate == /\ (ToolsOf(native))' = ToolsOf(native)
                         /\ \A t \in Server : (ToolsOf(t))' # ToolsOf(t) => Changed(t)
  <1>1. McpInit => McpTypeOK
    BY McpStarts
  <1>2. ASSUME McpTypeOK, [McpNext]_mcp
        PROVE  McpTypeOK' /\ [Separate]_mcp
    <2>1. McpTypeOK' /\ ToolsOK /\ ToolsOK'
      BY <1>2, McpTypesKept, McpParts, McpPartsNext
    <2>2. (ToolsOf(native))' = ToolsOf(native)
      <3>1. native \notin Server
        BY IdentifiersHaveParts DEF native
      <3>2. ToolsOf(native) = Native /\ (ToolsOf(native))' = Native
        BY <2>1, <3>1 DEF ToolsOK, ToolsOf
      <3> QED  BY <3>2
    <2>3. CASE tools' = tools
      <3>1. \A t \in Server : (ToolsOf(t))' = ToolsOf(t)
        BY <2>3 DEF ToolsOf
      <3> QED  BY <2>1, <2>2, <3>1
    <2>4. ASSUME NEW s \in Server, McpToolDiscovery(s), tools' # tools,
                 NEW t \in Server, (ToolsOf(t))' # ToolsOf(t)
          PROVE  Changed(t)
      <3>1. PICK ids : ToolsChange(s, ids, {s})
        BY <2>1, <2>4, DiscoveryChange
      <3>2. Related(s, t)
        <4>1. CASE s = t
          BY <4>1, ServersAreRelatedToThemselves
        <4>2. CASE s # t
          BY <2>1, <2>4, <3>1, <4>2, ToolsChangeSeparates
        <4> QED  BY <4>1, <4>2
      <3> QED  BY <2>4, <3>2
    <2>5. ASSUME ClearLocalState(Removed), NEW t \in Server, (ToolsOf(t))' # ToolsOf(t)
          PROVE  Changed(t)
      <3>1. Removed \in SUBSET Server
        BY DEF Removed
      <3>2. ToolsChange(t, {}, Removed)
        <4> HIDE DEF Removed
        <4> QED  BY <1>2, <2>5, <3>1, CleanupKeeps
      <3>3. \E s \in Removed : Related(s, t)
        <4> HIDE DEF Removed
        <4> QED  BY <2>1, <2>5, <3>1, <3>2, ToolsChangeSeparates
      <3> QED  BY <3>1, <3>3
    <2>6. CASE McpServerManager
      <3>1. CASE UNCHANGED local
        BY <2>3, <3>1 DEF local
      <3>2. CASE ClearLocalState(Removed)
        BY <2>1, <2>2, <2>5, <3>2
      <3> QED  BY <1>2, <2>6, <3>1, <3>2, ManagerStep
    <2>7. CASE tools' # tools /\ \E s \in Server : McpToolDiscovery(s)
      BY <2>1, <2>2, <2>4, <2>7
    <2>8. CASE McpNext /\ ~McpServerManager /\ ~(\E s \in Server : McpToolDiscovery(s))
      <3>1. tools' = tools
        BY <2>8, McpCases
           DEF ListStep, ListCache, ListChanged, McpResourceCache,
               McpResourceUpdateInvalidator, Expire, McpProgressState,
               McpSubscriptionState, McpServerHealthTracker
      <3> QED  BY <2>3, <3>1
    <2>9. CASE UNCHANGED mcp
      BY <2>1, <2>9
    <2> QED  BY <1>2, <2>3, <2>6, <2>7, <2>8, <2>9
  <1>3. ASSUME McpTypeOK, [McpNext]_mcp
        PROVE  /\ McpTypeOK'
               /\ [/\ (ToolsOf(native))' = ToolsOf(native)
                   /\ \A t \in Server : (ToolsOf(t))' # ToolsOf(t) =>
                         \E s \in Server : Related(s, t) /\ (s \in Removed \/ McpToolDiscovery(s))]_mcp
    BY <1>2, <1>3
  <1> HIDE DEF Separate
  <1> QED  BY <1>1, <1>3, PTL DEF McpSpec, SourcesAreSeparate
=============================================================================
