----------------------------- MODULE McpClient -----------------------------
(***************************************************************************)
(* What the runtime keeps about MCP servers: which servers are configured  *)
(* (mcp-server-manager.ts), and per server the tools registered from its   *)
(* advertisements, five caches of listings, the cache of read resources,   *)
(* progress, subscriptions and health.  A server is known everywhere by    *)
(* its identifier only: the cleanup that a removal calls deletes what the  *)
(* identifier is found in.  The configuration store changes its servers    *)
(* only through the manager, with identifiers it has checked.              *)
(*                                                                         *)
(* Identifiers are sequences of their dot-separated parts, so that the     *)
(* prefix `${serverId}.` of a tool_id is a proper prefix of the sequence.  *)
(* What a listing, a resource or a message says is left out: an input that *)
(* a validator refuses changes nothing.  A bounded Map in insertion order  *)
(* is a sequence of entries; an entry goes stale at any moment after it    *)
(* was put.  Every call is synchronous.                                    *)
(***************************************************************************)
EXTENDS Integers, Sequences, SequencesExt, FiniteSets

CONSTANTS
    Server,          \* identifiers of servers
    Name,            \* names of advertised tools
    Native,          \* tool_ids of tools that are not of an MCP server
    Uri,             \* URIs of resources
    Replaced,        \* bound on the states of servers in a list that replaces all
    Capacity,        \* MAX_ENTRIES of every map
    MaxOperations    \* bound on the calls of a behaviour

ASSUME CapacityIsPositive == Capacity \in Nat \ {0} /\ MaxOperations \in Nat
ASSUME IdentifiersHaveParts ==
    /\ Server \subseteq Seq(STRING) /\ Name \subseteq Seq(STRING) \ {<<>>}
    /\ Native \subseteq Seq(STRING)
    /\ <<"native">> \notin Server

VARIABLES
    servers,         \* server -> its lifecycle state, or Absent
    tools,           \* tool_id -> the source it was registered from
    lists,           \* kind of listing -> its cache
    contents,        \* the cache of read resources
    progress,        \* the snapshots by progress token
    subscriptions,   \* the subscriptions that the server has acknowledged
    health,          \* the servers with a health observation
    operations       \* calls so far

local == <<tools, lists, contents, progress, subscriptions, health>>
mcp == <<servers, local, operations>>

Absent == "Absent"
State == {"Discovered", "Pending approval", "Connected", "Disabled"}
Kind == {"tools", "prompts", "resources", "templates", "discovery"}
native == <<"native">>

Configured == {s \in Server : servers[s] # Absent}
ToolsOf(s) == {id \in DOMAIN tools : tools[id] = s}

----------------------------------------------------------------------------
(* Bounded maps: a key that is already there keeps its place, and the key  *)
(* inserted first is evicted.                                              *)

Entry(k, v) == [key |-> k, value |-> v]
Holds(m, k) == \E i \in DOMAIN m : m[i].key = k
At(m, k) == m[CHOOSE i \in DOMAIN m : m[i].key = k].value

Put_NeverEvicts(m, k, v) ==
    IF Holds(m, k) THEN [i \in DOMAIN m |-> IF m[i].key = k THEN Entry(k, v) ELSE m[i]]
                   ELSE Append(m, Entry(k, v))

Put(m, k, v) ==
    IF Holds(m, k)
    THEN [i \in DOMAIN m |-> IF m[i].key = k THEN Entry(k, v) ELSE m[i]]
    ELSE LET longer == Append(m, Entry(k, v))
         IN  IF Len(longer) > Capacity THEN Tail(longer) ELSE longer

Delete(m, k) == RemoveAt(m, CHOOSE i \in DOMAIN m : m[i].key = k)

\* Every key begins with the server it belongs to.
DeleteServers(m, cleared) ==
    LET rest[n \in 0..Len(m)] ==
            IF n = 0 THEN <<>>
            ELSE IF m[n].key[1] \in cleared THEN rest[n - 1] ELSE Append(rest[n - 1], m[n])
    IN  rest[Len(m)]
EntriesOf(m, s) == {m[i] : i \in {i \in DOMAIN m : m[i].key[1] = s}}

----------------------------------------------------------------------------
McpInit ==
    /\ servers = [s \in Server |-> Absent]
    /\ tools = [id \in Native |-> native]
    /\ lists = [k \in Kind |-> <<>>]
    /\ contents = <<>> /\ progress = <<>> /\ subscriptions = <<>>
    /\ health = {}
    /\ operations = 0

----------------------------------------------------------------------------
(* The caches of listings.  put() accepts a valid result, get() deletes an *)
(* entry that has expired, and the invalidators delete the listing that a  *)
(* list-changed notification names.                                        *)

Cached(k, m) == lists' = [lists EXCEPT ![k] = m]

ListCache(k) ==
    /\ \E s \in Server :
          \/ Cached(k, Put(lists[k], <<s>>, "fresh"))
          \/ /\ Holds(lists[k], <<s>>)
             /\ At(lists[k], <<s>>) = "expired"
             /\ Cached(k, Delete(lists[k], <<s>>))
    /\ UNCHANGED <<servers, tools, contents, progress, subscriptions, health>>

McpToolCache == ListCache("tools")
McpPromptCache == ListCache("prompts")
McpResourceListCache == ListCache("resources")
McpResourceTemplatesListCache == ListCache("templates")
McpServerDiscoveryCache == ListCache("discovery")

ListChanged(k) ==
    /\ \E s \in Server : Holds(lists[k], <<s>>) /\ Cached(k, Delete(lists[k], <<s>>))
    /\ UNCHANGED <<servers, tools, contents, progress, subscriptions, health>>

McpToolListUpdateInvalidator == ListChanged("tools")
McpPromptListUpdateInvalidator == ListChanged("prompts")
McpResourceListUpdateInvalidator == ListChanged("resources")
McpResourceTemplatesListUpdateInvalidator == ListChanged("templates")

\* A result that was read for several URIs is put under each of them.
McpResourceCache ==
    /\ \E s \in Server, u \in Uri :
          \/ contents' = Put(contents, <<s, u>>, "fresh")
          \/ /\ Holds(contents, <<s, u>>)
             /\ At(contents, <<s, u>>) = "expired"
             /\ contents' = Delete(contents, <<s, u>>)
    /\ UNCHANGED <<servers, tools, lists, progress, subscriptions, health>>

McpResourceUpdateInvalidator ==
    /\ \E s \in Server, u \in Uri :
          Holds(contents, <<s, u>>) /\ contents' = Delete(contents, <<s, u>>)
    /\ UNCHANGED <<servers, tools, lists, progress, subscriptions, health>>

\* The clock passes the expiry of an entry.
Expire ==
    /\ \/ \E k \in Kind, s \in Server :
             /\ Holds(lists[k], <<s>>) /\ At(lists[k], <<s>>) = "fresh"
             /\ Cached(k, Put(lists[k], <<s>>, "expired"))
             /\ UNCHANGED contents
       \/ \E s \in Server, u \in Uri :
             /\ Holds(contents, <<s, u>>) /\ At(contents, <<s, u>>) = "fresh"
             /\ contents' = Put(contents, <<s, u>>, "expired")
             /\ UNCHANGED lists
    /\ UNCHANGED <<servers, tools, progress, subscriptions, health>>

----------------------------------------------------------------------------
(* Progress: a notification may not fall behind the snapshot of its token, *)
(* nor exceed the total it reports itself.  A total of 0 is none.          *)

Snapshot(s, t) == IF Holds(progress, <<s, t>>) THEN At(progress, <<s, t>>)
                                               ELSE [progress |-> 0, total |-> 0]

Progress(s, t, p, total) ==
    LET previous == Snapshot(s, t)
    IN  /\ p >= previous.progress
        /\ total # 0 => p <= total /\ total >= previous.total
        /\ progress' = Put(progress, <<s, t>>,
               [progress |-> p, total |-> IF total = 0 THEN previous.total ELSE total])

McpProgressState ==
    /\ \E s \in Server, t \in {"token"} :
          \/ \E p \in 1..2, total \in 0..2 : Progress(s, t, p, total)
          \/ Holds(progress, <<s, t>>) /\ progress' = Delete(progress, <<s, t>>)
    /\ UNCHANGED <<servers, tools, lists, contents, subscriptions, health>>

\* A subscription is registered when its filter was negotiated, and ends when
\* the client cancels it or the server completes it.
McpSubscriptionState ==
    /\ \E s \in Server, id \in {"listen"} :
          \/ subscriptions' = Put(subscriptions, <<s, id>>, "negotiated")
          \/ Holds(subscriptions, <<s, id>>) /\ subscriptions' = Delete(subscriptions, <<s, id>>)
    /\ UNCHANGED <<servers, tools, lists, contents, progress, health>>

\* An observation is refused, not evicted, when all places are taken.
McpServerHealthTracker ==
    /\ \E s \in Server :
          /\ s \in health \/ Cardinality(health) < Capacity
          /\ health' = health \cup {s}
    /\ UNCHANGED <<servers, tools, lists, contents, progress, subscriptions>>

----------------------------------------------------------------------------
(* Tools: an advertisement of names is registered under the server's       *)
(* identifier.  The registry refuses a tool_id that is taken, and the      *)
(* metadata of one name, or of none, that discovery let pass.              *)

ToolIds(s, names) == {s \o n : n \in names}
InNamespace(s, id) == Len(s) < Len(id) /\ IsPrefix(s, id)
Namespace(s) == {id \in DOMAIN tools \ Native : InNamespace(s, id)}

Registering(kept, s, ids) == [id \in kept \cup ids |-> IF id \in ids THEN s ELSE tools[id]]

Register(s, names, refused) ==
    /\ ToolIds(s, names) \cap DOMAIN tools = {}
    /\ refused \cap names = {}
    /\ tools' = Registering(DOMAIN tools, s, ToolIds(s, names))

ReplaceTools(s, names, refused) ==
    LET kept == DOMAIN tools \ Namespace(s)
    IN  IF refused \cap names = {} /\ ToolIds(s, names) \cap kept = {}
        THEN tools' = Registering(kept, s, ToolIds(s, names))
        ELSE UNCHANGED tools    \* rolled back

Deregistered_AnyTier(cleared) == {id \in DOMAIN tools : \E s \in cleared : InNamespace(s, id)}
Deregistered(cleared) == {id \in DOMAIN tools \ Native : \E s \in cleared : InNamespace(s, id)}

McpToolDiscovery(s) ==
    /\ \/ \E names \in SUBSET Name, refused \in SUBSET Name :
             /\ Cardinality(refused) <= 1
             /\ Register(s, names, refused) \/ ReplaceTools(s, names, refused)
       \/ tools' = Restrict(tools, DOMAIN tools \ Deregistered({s}))
    /\ UNCHANGED <<servers, lists, contents, progress, subscriptions, health>>

----------------------------------------------------------------------------
(* The manager.  The cleanup clears all that is kept by the identifier of  *)
(* a server, except the read resources: their cache asks for a URI.        *)

ClearLocalState_NoTemplates(cleared) ==
    /\ tools' = Restrict(tools, DOMAIN tools \ Deregistered(cleared))
    /\ lists' = [k \in Kind |-> IF k = "templates" THEN lists[k] ELSE DeleteServers(lists[k], cleared)]
    /\ progress' = DeleteServers(progress, cleared)
    /\ health' = health \ cleared
    /\ subscriptions' = DeleteServers(subscriptions, cleared)
    /\ UNCHANGED contents

ClearLocalState(cleared) ==
    /\ tools' = Restrict(tools, DOMAIN tools \ Deregistered(cleared))
    /\ lists' = [k \in Kind |-> DeleteServers(lists[k], cleared)]
    /\ progress' = DeleteServers(progress, cleared)
    /\ health' = health \ cleared
    /\ subscriptions' = DeleteServers(subscriptions, cleared)
    /\ UNCHANGED contents

AddServer == \E s \in Server :
    /\ servers[s] = Absent
    /\ servers' = [servers EXCEPT ![s] = "Discovered"]
    /\ UNCHANGED local

Lifecycle == {<<"Discovered", "Pending approval">>, <<"Pending approval", "Connected">>,
              <<"Connected", "Disabled">>, <<"Disabled", "Connected">>}

Transition == \E s \in Server, t \in Lifecycle :
    /\ servers[s] = t[1]
    /\ servers' = [servers EXCEPT ![s] = t[2]]
    /\ UNCHANGED local

RemoveServer == \E s \in Configured :
    /\ ClearLocalState({s})
    /\ servers' = [servers EXCEPT ![s] = Absent]

\* The store accepts a whole list of servers, each in any state, by an update or an
\* import: what was kept of those that are not on it is cleared.
ReplaceServers == \E next \in [Server -> (State \cap Replaced) \cup {Absent}] :
    /\ ClearLocalState({s \in Configured : next[s] = Absent})
    /\ servers' = next

McpServerManager == AddServer \/ Transition \/ RemoveServer \/ ReplaceServers

----------------------------------------------------------------------------
McpNext ==
    /\ operations < MaxOperations
    /\ operations' = operations + 1
    /\ \/ McpServerManager
       \/ \E s \in Server : McpToolDiscovery(s)
       \/ McpToolCache \/ McpPromptCache \/ McpResourceListCache
       \/ McpResourceTemplatesListCache \/ McpServerDiscoveryCache \/ McpResourceCache
       \/ McpToolListUpdateInvalidator \/ McpPromptListUpdateInvalidator
       \/ McpResourceListUpdateInvalidator \/ McpResourceTemplatesListUpdateInvalidator
       \/ McpResourceUpdateInvalidator \/ Expire
       \/ McpProgressState \/ McpSubscriptionState \/ McpServerHealthTracker

McpSpec == McpInit /\ [][McpNext]_mcp

----------------------------------------------------------------------------
Entries(Key, Value) == [key : Key, value : Value]
Bounded(m) == Len(m) <= Capacity /\ \A i, j \in DOMAIN m : m[i].key = m[j].key => i = j

\* Every map is within its bound and holds a key once, and every tool is either
\* native or under the identifier of the server it was registered from.
McpTypeOK ==
    /\ servers \in [Server -> State \cup {Absent}]
    /\ lists \in [Kind -> Seq(Entries({<<s>> : s \in Server}, {"fresh", "expired"}))]
    /\ contents \in Seq(Entries(Server \X Uri, {"fresh", "expired"}))
    /\ progress \in Seq(Entries(Server \X {"token"}, [progress : Nat, total : Nat]))
    /\ subscriptions \in Seq(Entries(Server \X {"listen"}, {"negotiated"}))
    /\ \A id \in DOMAIN tools : IF id \in Native THEN tools[id] = native
                               ELSE tools[id] \in Server /\ InNamespace(tools[id], id)
    /\ Native \subseteq DOMAIN tools /\ DOMAIN tools \subseteq Seq(STRING)
    /\ \A k \in Kind : Bounded(lists[k])
    /\ Bounded(contents) /\ Bounded(progress) /\ Bounded(subscriptions)
    /\ health \subseteq Server /\ IsFiniteSet(health) /\ Cardinality(health) <= Capacity
    /\ operations \in 0..MaxOperations

\* What is kept under the identifier of a server, besides its tools and the
\* resources read from it.
KeptOf(s) ==
    [lists |-> [k \in Kind |-> EntriesOf(lists[k], s)],
     progress |-> EntriesOf(progress, s),
     subscriptions |-> EntriesOf(subscriptions, s),
     healthy |-> {s} \cap health]

Nothing == [lists |-> [k \in Kind |-> {}], progress |-> {}, subscriptions |-> {}, healthy |-> {}]

\* The servers that a step takes out of the configuration.
Removed == {s \in Server : servers[s] # Absent /\ servers'[s] = Absent}

\* A server that leaves the configuration, removed alone or replaced with others,
\* leaves no tool, listing, snapshot, subscription or observation behind that a later
\* server of that name would find, and the removal takes nothing of the others but
\* tools (mcp-server-local-state-cleanup.ts:33).  What it does not reach is the cache
\* of read resources, those of the removed server included.
RemovalTakesItsOwn ==
    [][Removed # {} =>
          /\ \A s \in Removed : (KeptOf(s))' = Nothing /\ (ToolsOf(s))' = {}
          /\ \A s \in Server \ Removed : (KeptOf(s))' = KeptOf(s)
          /\ contents' = contents]_mcp

\* What docs/18-providers/mcp-server-management.md:108-113 promises of a removal: the
\* resources read from the server go too.  They stay until they expire, and a later
\* server of that name finds them.
RemovedServersLeaveNothing ==
    [][\A s \in Removed :
          /\ (KeptOf(s))' = Nothing /\ (ToolsOf(s))' = {}
          /\ EntriesOf(contents', s) = {}]_mcp

\* The tool_ids of one may begin with the other's identifier and a dot.
Related(s, t) == IsPrefix(s, t) \/ IsPrefix(t, s)

\* The tools of a server change only by what is done for that server, or for one
\* whose identifier is related to its own: what another server advertises, and its
\* removal, touch neither them nor a tool that is not of a server.
SourcesAreSeparate ==
    [][/\ (ToolsOf(native))' = ToolsOf(native)
       /\ \A t \in Server : (ToolsOf(t))' # ToolsOf(t) =>
             \E s \in Server : Related(s, t) /\ (s \in Removed \/ McpToolDiscovery(s))]_mcp
=============================================================================
