-------------------------- MODULE EnrichmentCache --------------------------
(* The enrichment engine (internal/api/enrichment.go): a cache of details keyed
   by URL, the aliases that lead from a subject's node ID to the URLs cached for
   it, one singleflight group, and the store rows that details and batch states
   are written to.  Detail callers, GraphQL batches and independent persists run
   concurrently; only single steps on the cache hold its mutex.

   An entry's age is not tracked: any entry may be within its TTL or beyond it
   when it is looked up.  All URLs name one subject on GitHub, whose state changes are counted by
   "remote"; GraphQL and REST may give it different node IDs. *)
EXTENDS Naturals, FiniteSets

CONSTANTS Caller, Batcher, Editor,   \* goroutines of the three kinds
          Url, Node, None,
          Kind,                      \* Kind[u]: "pr", "issue" or "other"
          GqlNode, RestNode,         \* the node ID either API returns
          Html,                      \* the canonical URL they return
          MaxVersion, MaxCalls       \* bounds on changes and on calls of details and edits

ASSUME EnrichmentAssumption ==
    /\ Caller \cap Batcher = {} /\ Caller \cap Editor = {} /\ Batcher \cap Editor = {}
    /\ Kind \in [Url -> {"pr", "issue", "other"}]
    /\ GqlNode \in Node /\ RestNode \in Node /\ None \notin Node
    /\ Html \in Url /\ MaxVersion \in Nat /\ MaxCalls \in Nat

VARIABLES remote,      \* how often the subject has changed on GitHub
          cache,       \* cache[u]: an entry, or None
          nodeToURLs,
          rows,        \* rows[u]: version and node ID in the store, one row per URL
          flights,     \* singleflight: the call in flight for each key
          pc,          \* where each goroutine stands
          job,         \* what each works on: URL, force, or node
          held,        \* the result each goroutine holds
          calls,
          floor        \* history: the newest state each node's entries were dropped for

cacheVars == <<cache, nodeToURLs>>
vars == <<remote, cache, nodeToURLs, rows, flights, pc, job, held, calls, floor>>

Version == 0 .. MaxVersion
(* late: an invalidation of the node has passed since the result was read. *)
Result == [node : Node \cup {None}, ver : Version, late : BOOLEAN]
Key == Url \X BOOLEAN
Process == Caller \cup Batcher \cup Editor
NoResult == [node |-> None, ver |-> 0, late |-> FALSE]
IdleFlight == [phase |-> "idle", leader |-> None, users |-> {}, res |-> NoResult]
NoJob == [url |-> Html, force |-> FALSE, nodes |-> {}]

TypeOK ==
    /\ remote \in Version
    /\ cache \in [Url -> Result \cup {None}]
    /\ nodeToURLs \in [Node -> SUBSET Url]
    /\ rows \in [Url -> [ver : Version, node : Node \cup {None}]]
    /\ flights \in [Key -> [phase : {"idle", "sent", "read"}, leader : Caller \cup {None},
                            users : SUBSET Caller, res : Result]]
    /\ pc \in [Process -> {"idle", "miss", "wait", "have", "stored", "sent", "read", "written"}]
    /\ job \in [Process -> [url : Url, force : BOOLEAN, nodes : SUBSET Node]]
    /\ held \in [Process -> Result]
    /\ calls \in 0 .. MaxCalls
    /\ floor \in [Node -> Version]

Init ==
    /\ remote = 0
    /\ cache = [u \in Url |-> None] /\ nodeToURLs = [n \in Node |-> {}]
    /\ rows = [u \in Url |-> [ver |-> 0, node |-> None]]
    /\ flights = [k \in Key |-> IdleFlight]
    /\ pc = [p \in Process |-> "idle"] /\ job = [p \in Process |-> NoJob]
    /\ held = [p \in Process |-> NoResult]
    /\ calls = 0 /\ floor = [n \in Node |-> 0]

Goto(p, from, to) == pc[p] = from /\ pc' = [pc EXCEPT ![p] = to]
Return(p, from) ==
    /\ Goto(p, from, "idle")
    /\ job' = [job EXCEPT ![p] = NoJob] /\ held' = [held EXCEPT ![p] = NoResult]

-----------------------------------------------------------------------------
(* The cache, under its mutex *)

RememberWithoutAlias(u, res) ==
    /\ cache' = [cache EXCEPT ![u] = res]
    /\ nodeToURLs' = IF res.node = None \/ nodeToURLs[res.node] # {} THEN nodeToURLs
                     ELSE [nodeToURLs EXCEPT ![res.node] = {u, Html}]

Remember(u, res) ==
    /\ cache' = [cache EXCEPT ![u] = res]
    /\ nodeToURLs' = IF res.node = None THEN nodeToURLs
                     ELSE [nodeToURLs EXCEPT ![res.node] = @ \cup {u, Html}]

Drop(urls) == [u \in Url |-> IF u \in urls THEN None ELSE cache[u]]

(* Results read before now and put into the cache later escape this. *)
Overtaken(res, n) == IF res.node = n THEN [res EXCEPT !.late = TRUE] ELSE res
Overtake(n) ==
    /\ held' = [p \in Process |-> IF p \in Caller THEN Overtaken(held[p], n) ELSE held[p]]
    /\ flights' = [k \in Key |-> [flights[k] EXCEPT !.res = Overtaken(@, n)]]

InvalidateSourceOnly(n) ==
    /\ cache' = Drop(nodeToURLs[n] \ {Html})
    /\ nodeToURLs' = [nodeToURLs EXCEPT ![n] = {}]

InvalidateByNodeID(n) ==
    /\ cache' = Drop(nodeToURLs[n])
    /\ nodeToURLs' = [nodeToURLs EXCEPT ![n] = {}]

(* The first node that has the URL among its aliases, in map order. *)
InvalidateByURL(url) ==
    IF \A n \in Node : url \notin nodeToURLs[n]
    THEN cache' = Drop({url}) /\ UNCHANGED nodeToURLs
    ELSE \E n \in Node : url \in nodeToURLs[n] /\ InvalidateByNodeID(n)

-----------------------------------------------------------------------------
(* FetchDetail *)

StartDetail(c) ==
    \E u \in Url, force, hit \in BOOLEAN :
        /\ calls < MaxCalls /\ calls' = calls + 1
        /\ hit => ~force /\ cache[u] # None
        /\ Goto(c, "idle", IF hit THEN "have" ELSE "miss")
        /\ job' = [job EXCEPT ![c] = [NoJob EXCEPT !.url = u, !.force = force]]
        /\ held' = [held EXCEPT ![c] = IF hit THEN cache[u] ELSE NoResult]
        /\ UNCHANGED <<remote, cacheVars, rows, flights, floor>>

KeyOf(c) == <<job[c].url, job[c].force>>

Joined(flight, c) ==
    IF flight.phase = "idle" THEN [IdleFlight EXCEPT !.phase = "sent", !.leader = c, !.users = {c}]
                             ELSE [flight EXCEPT !.users = @ \cup {c}]

Join(c) ==
    /\ Goto(c, "miss", "wait")
    /\ flights' = [flights EXCEPT ![KeyOf(c)] = Joined(@, c)]
    /\ UNCHANGED <<calls, remote, cacheVars, rows, job, held, floor>>

GqlDetail == [NoResult EXCEPT !.node = GqlNode, !.ver = remote]
RestDetail == [NoResult EXCEPT !.node = RestNode, !.ver = remote]
(* A pull request's URL that does not parse goes to REST, a release nowhere. *)
Fetched(u) == CASE Kind[u] = "pr" -> {GqlDetail, RestDetail}
                [] Kind[u] = "issue" -> {RestDetail}
                [] OTHER -> {[NoResult EXCEPT !.ver = remote]}

GitHubReads(k) ==
    /\ flights[k].phase = "sent"
    /\ \E res \in Fetched(k[1]) : flights' = [flights EXCEPT ![k].phase = "read", ![k].res = res]
    /\ UNCHANGED <<calls, remote, cacheVars, rows, pc, job, held, floor>>

LandLeader(k) ==
    /\ flights[k].phase = "read"
    /\ Remember(k[1], flights[k].res)
    /\ pc' = [pc EXCEPT ![flights[k].leader] = "have"]
    /\ held' = [held EXCEPT ![flights[k].leader] = flights[k].res]
    /\ flights' = [flights EXCEPT ![k] = IdleFlight]
    /\ UNCHANGED <<calls, remote, rows, job, floor>>

(* The flight ends with the put: singleflight hands its result to all who joined. *)
Land(k) ==
    /\ flights[k].phase = "read"
    /\ Remember(k[1], flights[k].res)
    /\ pc' = [p \in Process |-> IF p \in flights[k].users THEN "have" ELSE pc[p]]
    /\ held' = [p \in Process |-> IF p \in flights[k].users THEN flights[k].res ELSE held[p]]
    /\ flights' = [flights EXCEPT ![k] = IdleFlight]
    /\ UNCHANGED <<calls, remote, rows, job, floor>>

(* The request fails, or the context of the caller that leads the flight ends:
   every caller that has joined gets the error. *)
FetchFails(k) ==
    /\ flights[k].phase = "sent"
    /\ pc' = [p \in Process |-> IF p \in flights[k].users THEN "idle" ELSE pc[p]]
    /\ job' = [p \in Process |-> IF p \in flights[k].users THEN NoJob ELSE job[p]]
    /\ flights' = [flights EXCEPT ![k] = IdleFlight]
    /\ UNCHANGED <<calls, remote, cacheVars, rows, held, floor>>

-----------------------------------------------------------------------------
(* The store.  A detail is propagated to the rows of the same node. *)

EnrichNotification(id, res) ==
    LET node == IF res.node = None THEN rows[id].node ELSE res.node IN
    rows' = [u \in Url |-> IF u = id THEN [ver |-> res.ver, node |-> node]
                           ELSE IF node # None /\ rows[u].node = node THEN [rows[u] EXCEPT !.ver = res.ver]
                           ELSE rows[u]]

UpdateResourceStateByNodeID(n, ver) ==
    rows' = [u \in Url |-> IF rows[u].node = n THEN [rows[u] EXCEPT !.ver = ver] ELSE rows[u]]

PersistFetchedDetail(c) ==
    /\ Goto(c, "have", "stored")
    /\ EnrichNotification(job[c].url, held[c])
    /\ UNCHANGED <<calls, remote, cacheVars, flights, job, held, floor>>

PersistFails(c) ==
    /\ Return(c, "have")
    /\ UNCHANGED <<calls, remote, cacheVars, rows, flights, floor>>

RememberFetched(c) ==
    /\ Return(c, "stored")
    /\ Remember(job[c].url, held[c])
    /\ UNCHANGED <<calls, remote, rows, flights, floor>>

-----------------------------------------------------------------------------
(* FetchHybridBatch: the states of known nodes, skipping those within their TTL *)

StartBatchUnknown(b) ==  \* mutant: rows whose node ID is not known yet are asked for too
    \E nodes \in SUBSET {rows[u].node : u \in Url} \ {{}} :
        /\ Goto(b, "idle", "sent")
        /\ job' = [job EXCEPT ![b].nodes = nodes]
        /\ UNCHANGED <<calls, remote, cacheVars, rows, flights, held, floor>>

StartBatch(b) ==
    \E nodes \in SUBSET {rows[u].node : u \in Url} \ {{}} :
        /\ None \notin nodes
        /\ Goto(b, "idle", "sent")
        /\ job' = [job EXCEPT ![b].nodes = nodes]
        /\ UNCHANGED <<calls, remote, cacheVars, rows, flights, held, floor>>

BatchReads(b) ==
    /\ Goto(b, "sent", "read")
    /\ held' = [held EXCEPT ![b] = [NoResult EXCEPT !.ver = remote]]
    /\ UNCHANGED <<calls, remote, cacheVars, rows, flights, job, floor>>

BatchFails(b) ==
    /\ Return(b, "sent")
    /\ UNCHANGED <<calls, remote, cacheVars, rows, flights, floor>>

(* The write of one node's state may fail; its entries are dropped all the same. *)
WriteState(b) ==
    /\ Goto(b, "read", "written")
    /\ \E n \in job[b].nodes : \E ok \in BOOLEAN :
         /\ held' = [held EXCEPT ![b].node = n]
         /\ IF ok THEN UpdateResourceStateByNodeID(n, held[b].ver) ELSE UNCHANGED rows
    /\ UNCHANGED <<calls, remote, cacheVars, flights, job, floor>>

AtLeast(f, n, ver) == [f EXCEPT ![n] = IF ver > @ THEN ver ELSE @]

DropEntries(b) ==
    LET n == held[b].node  rest == job[b].nodes \ {n} IN
    /\ Goto(b, "written", "read")
    /\ InvalidateByNodeID(n)
    /\ job' = [job EXCEPT ![b].nodes = rest]
    /\ Overtake(n)
    /\ floor' = AtLeast(floor, n, held[b].ver)
    /\ UNCHANGED <<calls, remote, rows>>

BatchDone(b) ==
    /\ job[b].nodes = {}
    /\ Return(b, "read")
    /\ UNCHANGED <<calls, remote, cacheVars, rows, flights, floor>>

-----------------------------------------------------------------------------
(* PersistIndependentDetail: a client of the MCP tool writes what it has read,
   with or without a node ID *)

StartEdit(e) ==
    \E u \in Url, node \in {None, GqlNode, RestNode} :
        /\ calls < MaxCalls /\ calls' = calls + 1
        /\ Goto(e, "idle", "read")
        /\ job' = [job EXCEPT ![e].url = u]
        /\ held' = [held EXCEPT ![e] = [NoResult EXCEPT !.node = node, !.ver = remote]]
        /\ UNCHANGED <<remote, cacheVars, rows, flights, floor>>

WriteEdit(e) ==
    /\ Goto(e, "read", "written")
    /\ EnrichNotification(job[e].url, held[e])
    /\ UNCHANGED <<calls, remote, cacheVars, flights, job, held, floor>>

DropEdited(e) ==
    LET n == held[e].node IN
    /\ Goto(e, "written", "have")
    /\ IF n = None
       THEN InvalidateByURL(Html) /\ UNCHANGED <<held, flights, floor>>
       ELSE /\ InvalidateByNodeID(n)
            /\ Overtake(n)
            /\ floor' = AtLeast(floor, n, held[e].ver)
    /\ UNCHANGED <<calls, remote, rows, job>>

EditDone(e) == Return(e, "have") /\ UNCHANGED <<calls, remote, cacheVars, rows, flights, floor>>

-----------------------------------------------------------------------------
Change ==
    /\ remote < MaxVersion
    /\ remote' = remote + 1
    /\ UNCHANGED <<calls, cacheVars, rows, flights, pc, job, held, floor>>

(* The pruning worker drops the entries that have expired, and leaves their
   aliases. *)
PruneExpired ==
    /\ \E expired \in SUBSET {u \in Url : cache[u] # None} \ {{}} : cache' = Drop(expired)
    /\ UNCHANGED <<calls, remote, nodeToURLs, rows, flights, pc, job, held, floor>>

Detail(c) == StartDetail(c) \/ Join(c) \/ PersistFetchedDetail(c) \/ PersistFails(c) \/ RememberFetched(c)
Flight(k) == GitHubReads(k) \/ Land(k) \/ FetchFails(k)
Batch(b) == StartBatch(b) \/ BatchReads(b) \/ BatchFails(b) \/ WriteState(b) \/ DropEntries(b) \/ BatchDone(b)
Edit(e) == StartEdit(e) \/ WriteEdit(e) \/ DropEdited(e) \/ EditDone(e)

Next ==
    \/ \E c \in Caller : Detail(c)
    \/ \E k \in Key : Flight(k)
    \/ \E b \in Batcher : Batch(b)
    \/ \E e \in Editor : Edit(e)
    \/ Change \/ PruneExpired

Spec == Init /\ [][Next]_vars

-----------------------------------------------------------------------------
(* AliasesCover: every cached detail of a subject can be found by the node ID it
   was cached with, whatever the order of fetches, batches, edits and prunes: a
   batch that learns of a new state reaches them all (rememberCacheEntryLocked,
   invalidateByURLLocked, invalidateByNodeIDLocked). *)
AliasesCover ==
    \A u \in Url : cache[u] # None /\ cache[u].node # None => u \in nodeToURLs[cache[u].node]

(* StaleNeedsAnOverlap: a cached detail is older than a state for which its node
   was invalidated only if a caller had read it before the invalidation and put
   it into the cache after (FetchDetail, PersistFetchedDetail). *)
StaleNeedsAnOverlap ==
    \A u \in Url : LET e == cache[u] IN
        e # None /\ e.node # None /\ ~e.late => e.ver >= floor[e.node]

(* OneFetchPerKey: callers of one key share one request, and nobody waits for a
   flight that will not land. *)
OneFetchPerKey ==
    \A c \in Caller : pc[c] = "wait" <=> \E k \in Key : c \in flights[k].users /\ k = KeyOf(c)
=============================================================================
