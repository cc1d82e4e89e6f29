------------------------------ MODULE EventBus ------------------------------
(***************************************************************************)
(* Events on one topic: the InMemoryCommunicationBus that delivers a       *)
(* message to its subscribers one after another, awaiting each             *)
(* (packages/shared/src/communication-bus.ts), and above it the journal    *)
(* and the sessions of the WebSocket API                                   *)
(* (services/runtime/src/websocket-api.ts), whose clients connect,         *)
(* subscribe, lose the connection, and ask for what they have missed.      *)
(*                                                                         *)
(* A publisher awaits the result before it publishes the same message      *)
(* again, and does so only after an error; publications of different       *)
(* messages overlap.  A consumer is subscribed from the start, may leave,  *)
(* and may throw if it is one of Failing.  A client asks for a replay      *)
(* right after it has subscribed, from the last event it got on an earlier *)
(* connection.  The checks of envelopes and commands, the authorization of *)
(* topics and slow consumers are left out.                                 *)
(***************************************************************************)
EXTENDS Integers, Sequences, SequencesExt, FiniteSets

CONSTANTS
    Message,
    Journaled,       \* messages published through the journal, not on the bus itself
    Consumer,        \* subscribers within the process
    Failing,         \* those whose handler may throw
    Client,          \* WebSocket clients
    MaxRetries,      \* retryPolicy.maxRetries
    MaxHistory,      \* how many events the journal retains
    MaxPublishes,    \* bound on the calls of publish for one message
    MaxConnections   \* bound on the connections of a client

ASSUME RetriesArePositive == MaxRetries \in Nat \ {0}
ASSUME NamesAreApart ==
    /\ IsFiniteSet(Consumer) /\ Consumer \cap Client = {}
    /\ Failing \subseteq Consumer /\ Journaled \subseteq Message
    /\ "nobody" \notin Consumer \cup Client \cup Message
    /\ MaxHistory \in Nat

VARIABLES
    members,         \* the topic's Set of subscriptions, in insertion order
    topicSet,        \* which Set that is: an emptied one is replaced
    processed,       \* subscriber -> processedMessageIds of its subscription
    attempts,        \* message -> attemptsByMessageAndSubscriber
    deadLetters,     \* <<message, subscriber>>, in the order they were entered
    publishing,      \* message -> the call of publish that is in progress
    history,         \* the journal
    clients,         \* client -> what it has got, its cursor
    due,             \* client -> what was published since it first connected
    called,          \* <<subscriber, message>> -> deliveries to a handler
    thrown,          \* message -> the subscribers whose handler has thrown for it
    published,       \* message -> calls of publish
    accepted         \* messages for which publish has returned ok

topic == <<members, topicSet>>
bus == <<topic, processed, attempts, deadLetters, publishing, history,
          clients, due, called, thrown, published, accepted>>

Subscriber == Consumer \cup Client
Nobody == "nobody"
Idle == [at |-> Nobody, left |-> FALSE, visited |-> {}, audience |-> {}, attempt |-> 0,
         set |-> 0]
NewClient == [got |-> {}, cursor |-> Nobody, connections |-> 0]

BusInit ==
    /\ members \in [1..Cardinality(Consumer) -> Consumer] /\ IsInjective(members)
    /\ topicSet = 0
    /\ processed = [s \in Subscriber |-> {}]
    /\ attempts = [m \in Message |-> 0]
    /\ deadLetters = <<>>
    /\ publishing = [m \in Message |-> Idle]
    /\ history = <<>>
    /\ clients = [c \in Client |-> NewClient]
    /\ due = [c \in Client |-> {}]
    /\ called = [p \in Subscriber \X Message |-> 0]
    /\ thrown = [m \in Message |-> {}]
    /\ published = [m \in Message |-> 0]
    /\ accepted = {}

----------------------------------------------------------------------------
(* Publishing.  From one await to the next the call goes to the first      *)
(* subscriber it has not visited and that has not processed the message;   *)
(* an iteration of a Set comes to what is added while it is suspended.     *)

Unvisited(m, call, done) ==
    {i \in DOMAIN members : /\ call.set = topicSet
                            /\ members[i] \notin call.visited /\ m \notin done[members[i]]}

\* What the handler does that is called: a socket is sent the event.
Receive(m, s) ==
    clients' = [c \in Client |-> IF c # s THEN clients[c] ELSE
                   [clients[c] EXCEPT !.got = @ \cup {m}, !.cursor = m]]

Deliver(m, call, counted, s) ==
    /\ attempts' = [attempts EXCEPT ![m] = counted + 1]
    /\ publishing' = [publishing EXCEPT ![m] =
           [call EXCEPT !.at = s, !.left = FALSE, !.visited = @ \cup {s},
                        !.attempt = counted + 1]]
    /\ called' = [called EXCEPT ![<<s, m>>] = @ + 1]
    /\ Receive(m, s)
    /\ UNCHANGED <<history, accepted>>

\* The bus returns ok; the journal, if it made the call, records the event.
ReturnOk(m, counted) ==
    LET longer == Append(history, m)
    IN  /\ publishing' = [publishing EXCEPT ![m] = Idle]
        /\ attempts' = [attempts EXCEPT ![m] = counted]
        /\ history' = IF m \notin Journaled THEN history
                      ELSE IF Len(longer) > MaxHistory THEN Tail(longer) ELSE longer
        /\ accepted' = accepted \cup {m}
        /\ UNCHANGED <<called, clients>>

\* The loop goes on: deliver to the next subscriber, or return.
Continue(m, call, done, counted) ==
    LET left == Unvisited(m, call, done)
    IN  /\ processed' = done
        /\ \/ left = {} /\ ReturnOk(m, counted)
           \/ \E i \in left : /\ \A j \in left : i <= j
                              /\ Deliver(m, call, counted, members[i])

InProgress(m) == publishing[m].at # Nobody

Publish(m) ==
    /\ ~InProgress(m) /\ m \notin accepted
    /\ published[m] < MaxPublishes
    /\ published' = [published EXCEPT ![m] = @ + 1]
    /\ due' = [c \in Client |-> IF clients[c].connections = 0 THEN {} ELSE due[c] \cup {m}]
    /\ Continue(m, [Idle EXCEPT !.set = topicSet, !.audience = ToSet(members)],
                processed, attempts[m])
    /\ UNCHANGED <<topic, deadLetters, thrown>>

\* The subscription that is being called, if it has not been given up meanwhile.
Marked(m) ==
    [s \in Subscriber |-> IF s = publishing[m].at /\ ~publishing[m].left
                         THEN processed[s] \cup {m} ELSE processed[s]]

HandlerReturns(m) ==
    /\ InProgress(m)
    /\ Continue(m, publishing[m], Marked(m), 0)
    /\ UNCHANGED <<topic, deadLetters, due, thrown, published>>

\* A handler throws, also one whose subscription was given up while it ran.
Throws(m) ==
    /\ InProgress(m) /\ publishing[m].at \in Failing
    /\ thrown' = [thrown EXCEPT ![m] = @ \cup {publishing[m].at}]

GivesUp_OneLate(m) == publishing[m].attempt > MaxRetries
GivesUp(m) == publishing[m].attempt >= MaxRetries

\* An error ends the call ...
HandlerFails(m) ==
    /\ Throws(m) /\ ~GivesUp(m)
    /\ publishing' = [publishing EXCEPT ![m] = Idle]
    /\ UNCHANGED <<topic, processed, attempts, deadLetters, history, clients,
                   due, called, published, accepted>>

Buried_Forgotten(m) == deadLetters
Buried(m) == Append(deadLetters, <<m, publishing[m].at>>)

\* ... the last one allowed buries the message, and the call goes on.
HandlerFailsForGood(m) ==
    /\ Throws(m) /\ GivesUp(m)
    /\ deadLetters' = Buried(m)
    /\ Continue(m, publishing[m], processed, 0)
    /\ UNCHANGED <<topic, due, published>>

----------------------------------------------------------------------------
(* Subscriptions.  Each is an object of its own: a new one has processed   *)
(* nothing, and what a handler that still runs when its subscription is    *)
(* given up has processed is noted nowhere.                                *)

Subscribe(s) ==
    /\ ~Contains(members, s)
    /\ members' = Append(members, s)
    /\ topicSet' = IF members = <<>> THEN topicSet + 1 ELSE topicSet
    /\ processed' = [processed EXCEPT ![s] = {}]
    /\ publishing' = [m \in Message |-> [publishing[m] EXCEPT !.visited = @ \ {s}]]

Unsubscribe(s) ==
    /\ Contains(members, s)
    /\ \E i \in DOMAIN members : members[i] = s /\ members' = RemoveAt(members, i)
    /\ publishing' = [m \in Message |->
           [publishing[m] EXCEPT !.audience = @ \ {s}, !.left = @ \/ publishing[m].at = s]]
    /\ UNCHANGED <<topicSet, processed, attempts, deadLetters, history, clients, due,
                   called, thrown, published, accepted>>

\* What the journal holds after the cursor; all is before one it does not hold.
Replay(cursor) ==
    {history[j] : j \in {j \in DOMAIN history : \E i \in 1..(j - 1) : history[i] = cursor}}

\* attachSession, and the commands subscribe and replay.
Connect(c) ==
    /\ clients[c].connections < MaxConnections
    /\ Subscribe(c)
    /\ clients' = [clients EXCEPT ![c].got = @ \cup Replay(clients[c].cursor),
                                  ![c].connections = @ + 1]
    /\ UNCHANGED <<attempts, deadLetters, due, called, thrown, history, published, accepted>>

BusNext ==
    \/ \E m \in Message :
           Publish(m) \/ HandlerReturns(m) \/ HandlerFails(m) \/ HandlerFailsForGood(m)
    \/ \E s \in Subscriber : Unsubscribe(s)
    \/ \E c \in Client : Connect(c)

BusSpec == BusInit /\ [][BusNext]_bus

----------------------------------------------------------------------------
BusTypeOK ==
    /\ members \in Seq(Subscriber) /\ IsInjective(members) /\ topicSet \in Nat
    /\ processed \in [Subscriber -> SUBSET Message]
    /\ attempts \in [Message -> Nat]
    /\ deadLetters \in Seq(Message \X Subscriber)
    /\ publishing \in [Message -> [at : Subscriber \cup {Nobody}, left : BOOLEAN, attempt : Nat,
                                  set : Nat, visited : SUBSET Subscriber,
                                  audience : SUBSET Subscriber]]
    /\ \A m \in Message : ~InProgress(m) => publishing[m].audience = {}
    /\ history \in Seq(Journaled \cap accepted) /\ Len(history) <= MaxHistory
    /\ clients \in [Client -> [got : SUBSET Message, cursor : Message \cup {Nobody},
                               connections : Nat]]
    /\ called \in [Subscriber \X Message -> Nat]
    /\ thrown \in [Message -> SUBSET Failing]
    /\ accepted \subseteq Message

\* When publish returns ok, every subscriber that was there when it was called and
\* has stayed has processed the message, in this call or in one before, or the
\* message is among the dead letters on its account: an error of one subscriber
\* never hides the message from those after it.
NothingSilentlyLost ==
    [][\A m \in accepted' \ accepted : \A s \in publishing[m].audience :
           m \in processed'[s] \/ Contains(deadLetters', <<m, s>>)]_bus

\* A message is never tried more than maxRetries times in a row ("rather than being
\* retried indefinitely", docs/02-architecture/communication-model.md).  A handler that
\* has not thrown for it is called with it once, however often it is published again
\* for the sake of others; and one that throws is called more than maxRetries times
\* only where another has thrown for the same message: the attempts are counted for
\* the message, not for the subscriber, so that the first of two that throw is buried
\* again and again, and the second never.
RetriesAreBounded ==
    \A m \in Message :
        /\ attempts[m] <= MaxRetries
        /\ \A s \in Consumer :
              /\ called[<<s, m>>] > 1 => s \in thrown[m]
              /\ called[<<s, m>>] > MaxRetries => thrown[m] \ {s} # {}

\* A client that has reconnected and asked for a replay has every event that was
\* published, and accepted, since it first connected (docs/08-api/websocket.md: "a brief network
\* interruption does not silently lose task-completion notifications").
ReplayIsComplete ==
    \A c \in Client : Contains(members, c) /\ clients[c].cursor # Nobody
                          => due[c] \cap accepted \subseteq clients[c].got
=============================================================================
