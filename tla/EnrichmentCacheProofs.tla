----------------------- MODULE EnrichmentCacheProofs -----------------------
(* Type correctness, the cover of the cache by its aliases, and the one way to a
   stale entry, proved for any sets of goroutines, URLs and nodes. *)
EXTENDS EnrichmentCache, TLAPS

USE EnrichmentAssumption

States == {"idle", "miss", "wait", "have", "stored", "sent", "read", "written"}
Jobs == [url : Url, force : BOOLEAN, nodes : SUBSET Node]
Flights == [phase : {"idle", "sent", "read"}, leader : Caller \cup {None},
            users : SUBSET Caller, res : Result]

LEMMA ResultType == NoResult \in Result /\ IdleFlight \in Flights
BY DEF NoResult, Result, IdleFlight, Version, Flights

LEMMA NoJobType == NoJob \in Jobs
BY DEF NoJob, Jobs

(* What a step that only moves p between states leaves of the types. *)
LEMMA GotoType ==
  ASSUME TypeOK, NEW p, NEW from, NEW to \in States,
         Goto(p, from, to)
  PROVE  pc' \in [Process -> States]
BY DEF Goto, TypeOK, States

LEMMA ReturnType ==
  ASSUME TypeOK, NEW p, NEW from, Return(p, from)
  PROVE  /\ pc' \in [Process -> States]
         /\ job' \in [Process -> Jobs]
         /\ held' \in [Process -> Result]
BY GotoType, ResultType, NoJobType DEF Return, TypeOK, Jobs, States

(* One put into the cache. *)
LEMMA RememberType ==
  ASSUME TypeOK, NEW u \in Url, NEW res \in Result, Remember(u, res)
  PROVE  cache' \in [Url -> Result \cup {None}] /\ nodeToURLs' \in [Node -> SUBSET Url]
BY DEF Remember, TypeOK, Result

LEMMA DropType ==
  ASSUME TypeOK, NEW urls
  PROVE  Drop(urls) \in [Url -> Result \cup {None}]
BY DEF Drop, TypeOK

LEMMA InvalidateType ==
  ASSUME TypeOK, NEW n \in Node, InvalidateByNodeID(n)
  PROVE  cache' \in [Url -> Result \cup {None}] /\ nodeToURLs' \in [Node -> SUBSET Url]
BY DropType DEF InvalidateByNodeID, TypeOK

LEMMA InvalidateByURLType ==
  ASSUME TypeOK, NEW url, InvalidateByURL(url)
  PROVE  cache' \in [Url -> Result \cup {None}] /\ nodeToURLs' \in [Node -> SUBSET Url]
<1>1. CASE \A n \in Node : url \notin nodeToURLs[n]
  BY <1>1, DropType DEF InvalidateByURL, TypeOK
<1>2. CASE ~ \A n \in Node : url \notin nodeToURLs[n]
  BY <1>2, InvalidateType DEF InvalidateByURL
<1>3. QED  BY <1>1, <1>2

LEMMA OvertakeType ==
  ASSUME TypeOK, NEW n \in Node, Overtake(n)
  PROVE  /\ held' \in [Process -> Result]
         /\ flights' \in [Key -> Flights]
<1>1. \A r \in Result : [r EXCEPT !.late = TRUE] \in Result
  BY DEF Result
<1>2. held' \in [Process -> Result]
  BY <1>1 DEF Overtake, Overtaken, TypeOK
<1>3. \A k \in Key : [flights[k] EXCEPT !.res = Overtaken(@, n)] \in Flights
  <2>1. TAKE k \in Key
  <2>2. flights[k] \in Flights /\ Overtaken(flights[k].res, n) \in Result
    BY <1>1 DEF TypeOK, Flights, Overtaken
  <2>3. QED  BY <2>2 DEF Flights
<1>4. QED  BY <1>2, <1>3 DEF Overtake

LEMMA EnrichType ==
  ASSUME TypeOK, NEW id \in Url, NEW res \in Result, EnrichNotification(id, res)
  PROVE  rows' \in [Url -> [ver : Version, node : Node \cup {None}]]
BY DEF EnrichNotification, TypeOK, Result

LEMMA AtLeastType ==
  ASSUME TypeOK, NEW n \in Node, NEW ver \in Version
  PROVE  AtLeast(floor, n, ver) \in [Node -> Version]
BY DEF AtLeast, TypeOK

LEMMA FetchedType ==
  ASSUME TypeOK, NEW u \in Url
  PROVE  Fetched(u) \subseteq Result
<1>1. GqlDetail \in Result /\ RestDetail \in Result /\ [NoResult EXCEPT !.ver = remote] \in Result
  BY DEF GqlDetail, RestDetail, NoResult, Result, TypeOK
<1>2. Kind[u] \in {"pr", "issue", "other"}
  OBVIOUS
<1>3. QED  BY <1>1, <1>2 DEF Fetched

-----------------------------------------------------------------------------
(* The invariant *)

(* A result that no invalidation has overtaken is as new as every state that its
   node was invalidated for. *)
UpTo(res, fl) == res.node # None /\ ~res.late => res.ver >= fl[res.node]
UpToDate(res) == UpTo(res, floor)

NothingAhead ==
    /\ \A n \in Node : floor[n] <= remote
    /\ \A p \in Batcher \cup Editor : held[p].ver <= remote

BatchHasNode == \A b \in Batcher : pc[b] = "written" => held[b].node # None

ReadsUpToDate ==
    /\ \A c \in Caller : UpToDate(held[c])
    /\ \A k \in Key : UpToDate(flights[k].res)

Inv == TypeOK /\ AliasesCover /\ StaleNeedsAnOverlap /\ NothingAhead /\ BatchHasNode /\ ReadsUpToDate

LEMMA InvInit == Init => Inv
<1> SUFFICES ASSUME Init PROVE Inv
  OBVIOUS
<1>1. TypeOK
  BY ResultType, NoJobType DEF Init, TypeOK, Version, Flights, Jobs
<1>2. AliasesCover /\ StaleNeedsAnOverlap
  BY DEF Init, AliasesCover, StaleNeedsAnOverlap
<1>3. NothingAhead /\ BatchHasNode /\ ReadsUpToDate
  BY DEF Init, NothingAhead, BatchHasNode, ReadsUpToDate, UpToDate, UpTo, NoResult, IdleFlight, Process
<1>4. QED  BY <1>1, <1>2, <1>3 DEF Inv

-----------------------------------------------------------------------------
(* Types *)

LEMMA DetailType ==
  ASSUME TypeOK, NEW c \in Caller, Detail(c)
  PROVE  TypeOK'
<1>0. c \in Process
  BY DEF Process
<1>1. CASE StartDetail(c)
  <2>1. PICK u \in Url, force \in BOOLEAN, hit \in BOOLEAN :
            /\ calls < MaxCalls /\ calls' = calls + 1
            /\ hit => ~force /\ cache[u] # None
            /\ Goto(c, "idle", IF hit THEN "have" ELSE "miss")
            /\ job' = [job EXCEPT ![c] = [NoJob EXCEPT !.url = u, !.force = force]]
            /\ held' = [held EXCEPT ![c] = IF hit THEN cache[u] ELSE NoResult]
            /\ UNCHANGED <<remote, cacheVars, rows, flights, floor>>
    BY <1>1 DEF StartDetail
  <2>2. pc' \in [Process -> States]
    BY <2>1, GotoType DEF States
  <2>3. [NoJob EXCEPT !.url = u, !.force = force] \in Jobs
    BY NoJobType DEF Jobs
  <2>4. (IF hit THEN cache[u] ELSE NoResult) \in Result
    BY <2>1, ResultType DEF TypeOK
  <2>5. job' \in [Process -> Jobs]
    BY <2>1, <2>3 DEF TypeOK, Jobs
  <2>6. held' \in [Process -> Result]
    BY <2>1, <2>4 DEF TypeOK
  <2>7. calls' \in 0 .. MaxCalls
    BY <2>1 DEF TypeOK
  <2>8. QED  BY <2>1, <2>2, <2>5, <2>6, <2>7 DEF TypeOK, cacheVars, States, Jobs
<1>2. CASE Join(c)
  <2>1. pc' \in [Process -> States]
    BY <1>2, GotoType DEF Join, States
  <2>2. KeyOf(c) \in Key
    BY <1>0 DEF TypeOK, KeyOf, Key
  <2>3. flights[KeyOf(c)] \in Flights
    BY <2>2 DEF TypeOK, Flights
  <2>4. Joined(flights[KeyOf(c)], c) \in Flights
    BY <2>3, ResultType DEF Joined, Flights
  <2>5. flights' \in [Key -> Flights]
    BY <1>2, <2>2, <2>4 DEF Join, TypeOK, Flights
  <2>6. QED  BY <1>2, <2>1, <2>5 DEF Join, TypeOK, cacheVars, States, Flights
<1>3. CASE PersistFetchedDetail(c)
  <2>1. pc' \in [Process -> States]
    BY <1>3, GotoType DEF PersistFetchedDetail, States
  <2>2. job[c].url \in Url /\ held[c] \in Result
    BY <1>0 DEF TypeOK
  <2>3. QED  BY <1>3, <2>1, <2>2, EnrichType DEF PersistFetchedDetail, TypeOK, cacheVars, States
<1>4. CASE PersistFails(c)
  BY <1>4, ReturnType DEF PersistFails, TypeOK, cacheVars, States, Jobs
<1>5. CASE RememberFetched(c)
  <2>1. job[c].url \in Url /\ held[c] \in Result
    BY <1>0 DEF TypeOK
  <2>2. QED  BY <1>5, <2>1, ReturnType, RememberType DEF RememberFetched, TypeOK, States, Jobs
<1>6. QED  BY <1>1, <1>2, <1>3, <1>4, <1>5 DEF Detail

LEMMA FlightType ==
  ASSUME TypeOK, NEW k \in Key, Flight(k)
  PROVE  TypeOK'
<1>0. k[1] \in Url /\ flights[k] \in Flights /\ flights[k].res \in Result
  BY DEF Key, TypeOK, Flights
<1>1. CASE GitHubReads(k)
  <2>1. PICK res \in Fetched(k[1]) : flights' = [flights EXCEPT ![k].phase = "read", ![k].res = res]
    BY <1>1 DEF GitHubReads
  <2>2. res \in Result
    BY <1>0, <2>1, FetchedType
  <2>3. flights' \in [Key -> Flights]
    BY <1>0, <2>1, <2>2 DEF TypeOK, Flights
  <2>4. QED  BY <1>1, <2>3 DEF GitHubReads, TypeOK, cacheVars, Flights
<1>2. CASE Land(k)
  <2>1. flights' \in [Key -> Flights]
    BY <1>2, ResultType DEF Land, TypeOK, Flights
  <2>2. pc' \in [Process -> States]
    BY <1>2 DEF Land, TypeOK, States
  <2>3. held' \in [Process -> Result]
    BY <1>0, <1>2 DEF Land, TypeOK
  <2>4. QED  BY <1>0, <1>2, <2>1, <2>2, <2>3, RememberType DEF Land, TypeOK, Flights, States
<1>3. CASE FetchFails(k)
  <2>1. flights' \in [Key -> Flights]
    BY <1>3, ResultType DEF FetchFails, TypeOK, Flights
  <2>2. pc' \in [Process -> States] /\ job' \in [Process -> Jobs]
    BY <1>3, NoJobType DEF FetchFails, TypeOK, States, Jobs
  <2>3. QED  BY <1>3, <2>1, <2>2 DEF FetchFails, TypeOK, cacheVars, Flights, States, Jobs
<1>4. QED  BY <1>1, <1>2, <1>3 DEF Flight

LEMMA BatchType ==
  ASSUME TypeOK, BatchHasNode, NEW b \in Batcher, Batch(b)
  PROVE  TypeOK'
<1>0. b \in Process /\ job[b] \in Jobs /\ held[b] \in Result
  BY DEF Process, TypeOK, Jobs
<1>1. CASE StartBatch(b)
  <2>1. PICK nodes \in SUBSET {rows[u].node : u \in Url} \ {{}} :
            None \notin nodes /\ job' = [job EXCEPT ![b].nodes = nodes]
    BY <1>1 DEF StartBatch
  <2>2. nodes \subseteq Node
    BY <2>1 DEF TypeOK
  <2>3. job' \in [Process -> Jobs]
    BY <1>0, <2>1, <2>2 DEF TypeOK, Jobs
  <2>4. pc' \in [Process -> States]
    BY <1>1, GotoType DEF StartBatch, States
  <2>5. QED  BY <1>1, <2>3, <2>4 DEF StartBatch, TypeOK, cacheVars, States, Jobs
<1>2. CASE BatchReads(b)
  <2>1. [NoResult EXCEPT !.ver = remote] \in Result
    BY DEF NoResult, Result, TypeOK
  <2>2. held' \in [Process -> Result]
    BY <1>2, <2>1 DEF BatchReads, TypeOK
  <2>3. pc' \in [Process -> States]
    BY <1>2, GotoType DEF BatchReads, States
  <2>4. QED  BY <1>2, <2>2, <2>3 DEF BatchReads, TypeOK, cacheVars, States
<1>3. CASE BatchFails(b)
  BY <1>3, ReturnType DEF BatchFails, TypeOK, cacheVars, States, Jobs
<1>4. CASE WriteState(b)
  <2>1. PICK n \in job[b].nodes, ok \in BOOLEAN :
            /\ held' = [held EXCEPT ![b].node = n]
            /\ IF ok THEN UpdateResourceStateByNodeID(n, held[b].ver) ELSE UNCHANGED rows
    BY <1>4 DEF WriteState
  <2>2. n \in Node
    BY <1>0, <2>1 DEF Jobs
  <2>3. held' \in [Process -> Result]
    BY <1>0, <2>1, <2>2 DEF TypeOK, Result
  <2>4. held[b].ver \in Version
    BY <1>0 DEF Result
  <2>5. rows' \in [Url -> [ver : Version, node : Node \cup {None}]]
    BY <2>1, <2>4 DEF UpdateResourceStateByNodeID, TypeOK
  <2>6. pc' \in [Process -> States]
    BY <1>4, GotoType DEF WriteState, States
  <2>7. QED  BY <1>4, <2>3, <2>5, <2>6 DEF WriteState, TypeOK, cacheVars, States
<1>5. CASE DropEntries(b)
  <2>1. held[b].node \in Node /\ held[b].ver \in Version
    BY <1>0, <1>5 DEF DropEntries, Goto, BatchHasNode, Result
  <2>2. job' \in [Process -> Jobs]
    BY <1>0, <1>5 DEF DropEntries, TypeOK, Jobs
  <2>3. pc' \in [Process -> States]
    BY <1>5, GotoType DEF DropEntries, States
  <2>4. cache' \in [Url -> Result \cup {None}] /\ nodeToURLs' \in [Node -> SUBSET Url]
    BY <1>5, <2>1, InvalidateType DEF DropEntries
  <2>5. held' \in [Process -> Result] /\ flights' \in [Key -> Flights]
    BY <1>5, <2>1, OvertakeType DEF DropEntries
  <2>6. floor' \in [Node -> Version]
    BY <1>5, <2>1, AtLeastType DEF DropEntries
  <2>7. QED  BY <1>5, <2>2, <2>3, <2>4, <2>5, <2>6 DEF DropEntries, TypeOK, States, Jobs, Flights
<1>6. CASE BatchDone(b)
  BY <1>6, ReturnType DEF BatchDone, TypeOK, cacheVars, States, Jobs
<1>7. QED  BY <1>1, <1>2, <1>3, <1>4, <1>5, <1>6 DEF Batch

LEMMA EditType ==
  ASSUME TypeOK, NEW e \in Editor, Edit(e)
  PROVE  TypeOK'
<1>0. e \in Process /\ job[e] \in Jobs /\ held[e] \in Result
  BY DEF Process, TypeOK, Jobs
<1>1. CASE StartEdit(e)
  <2>1. PICK u \in Url, node \in {None, GqlNode, RestNode} :
            /\ calls < MaxCalls /\ calls' = calls + 1
            /\ job' = [job EXCEPT ![e].url = u]
            /\ held' = [held EXCEPT ![e] = [NoResult EXCEPT !.node = node, !.ver = remote]]
    BY <1>1 DEF StartEdit
  <2>2. [NoResult EXCEPT !.node = node, !.ver = remote] \in Result
    BY DEF NoResult, Result, TypeOK
  <2>3. held' \in [Process -> Result]
    BY <2>1, <2>2 DEF TypeOK
  <2>4. job' \in [Process -> Jobs]
    BY <1>0, <2>1 DEF TypeOK, Jobs
  <2>5. calls' \in 0 .. MaxCalls
    BY <2>1 DEF TypeOK
  <2>6. pc' \in [Process -> States]
    BY <1>1, GotoType DEF StartEdit, States
  <2>7. QED  BY <1>1, <2>3, <2>4, <2>5, <2>6 DEF StartEdit, TypeOK, cacheVars, States, Jobs
<1>2. CASE WriteEdit(e)
  <2>1. pc' \in [Process -> States]
    BY <1>2, GotoType DEF WriteEdit, States
  <2>2. job[e].url \in Url
    BY <1>0 DEF Jobs
  <2>3. rows' \in [Url -> [ver : Version, node : Node \cup {None}]]
    BY <1>0, <1>2, <2>2, EnrichType DEF WriteEdit
  <2>4. QED  BY <1>2, <2>1, <2>3 DEF WriteEdit, TypeOK, cacheVars, States
<1>3. CASE DropEdited(e)
  <2>1. pc' \in [Process -> States]
    BY <1>3, GotoType DEF DropEdited, States
  <2>2. CASE held[e].node = None
    <3>1. cache' \in [Url -> Result \cup {None}] /\ nodeToURLs' \in [Node -> SUBSET Url]
      BY <1>3, <2>2, InvalidateByURLType DEF DropEdited
    <3>2. QED  BY <1>3, <2>1, <2>2, <3>1 DEF DropEdited, TypeOK, States
  <2>3. CASE held[e].node # None
    <3>1. held[e].node \in Node /\ held[e].ver \in Version
      BY <1>0, <2>3 DEF Result
    <3>2. cache' \in [Url -> Result \cup {None}] /\ nodeToURLs' \in [Node -> SUBSET Url]
      BY <1>3, <2>3, <3>1, InvalidateType DEF DropEdited
    <3>3. held' \in [Process -> Result] /\ flights' \in [Key -> Flights]
      BY <1>3, <2>3, <3>1, OvertakeType DEF DropEdited
    <3>4. floor' \in [Node -> Version]
      <4>1. floor' = AtLeast(floor, held[e].node, held[e].ver)
        BY <1>3, <2>3 DEF DropEdited
      <4>2. QED  BY <3>1, <4>1, AtLeastType
    <3>5. QED  BY <1>3, <2>1, <3>2, <3>3, <3>4 DEF DropEdited, TypeOK, States, Flights
  <2>4. QED  BY <2>2, <2>3
<1>4. CASE EditDone(e)
  BY <1>4, ReturnType DEF EditDone, TypeOK, cacheVars, States, Jobs
<1>5. QED  BY <1>1, <1>2, <1>3, <1>4 DEF Edit

LEMMA TypeStep == Inv /\ [Next]_vars => TypeOK'
<1> SUFFICES ASSUME Inv, [Next]_vars PROVE TypeOK'
  OBVIOUS
<1>0. TypeOK /\ BatchHasNode
  BY DEF Inv
<1>1. CASE \E c \in Caller : Detail(c)
  BY <1>0, <1>1, DetailType
<1>2. CASE \E k \in Key : Flight(k)
  BY <1>0, <1>2, FlightType
<1>3. CASE \E b \in Batcher : Batch(b)
  BY <1>0, <1>3, BatchType
<1>4. CASE \E e \in Editor : Edit(e)
  BY <1>0, <1>4, EditType
<1>5. CASE Change
  BY <1>0, <1>5 DEF Change, TypeOK, cacheVars, Version
<1>6. CASE PruneExpired
  BY <1>0, <1>6, DropType DEF PruneExpired, TypeOK
<1>7. CASE UNCHANGED vars
  BY <1>0, <1>7 DEF vars, cacheVars, TypeOK
<1>8. QED  BY <1>1, <1>2, <1>3, <1>4, <1>5, <1>6, <1>7 DEF Next
-----------------------------------------------------------------------------
(* What a step may do to the cache, its aliases and the floors *)

Puts(u, res) == Remember(u, res) /\ UpToDate(res) /\ UNCHANGED floor
Invalidates(n, ver) ==
    /\ InvalidateByNodeID(n) /\ Overtake(n) /\ UNCHANGED remote
    /\ ver <= remote /\ floor' = AtLeast(floor, n, ver)
Forgets ==
    /\ UNCHANGED floor
    /\ \/ \E url \in Url : InvalidateByURL(url)
       \/ \E urls \in SUBSET Url : cache' = Drop(urls) /\ UNCHANGED nodeToURLs

CacheStep ==
    \/ UNCHANGED <<cache, nodeToURLs, floor>>
    \/ \E u \in Url, res \in Result : Puts(u, res)
    \/ \E n \in Node, ver \in Version : Invalidates(n, ver)
    \/ Forgets

LEMMA CacheSteps == Inv /\ [Next]_vars => CacheStep
<1> SUFFICES ASSUME Inv, [Next]_vars PROVE CacheStep
  OBVIOUS
<1>0. TypeOK /\ BatchHasNode /\ NothingAhead /\ ReadsUpToDate
  BY DEF Inv
<1>1. ASSUME NEW c \in Caller, Detail(c) PROVE CacheStep
  <2>1. CASE RememberFetched(c)
    <3>1. job[c].url \in Url /\ held[c] \in Result
      BY <1>0 DEF TypeOK, Process
    <3>2. Puts(job[c].url, held[c])
      BY <1>0, <2>1 DEF Puts, RememberFetched, ReadsUpToDate
    <3>3. QED  BY <3>1, <3>2 DEF CacheStep
  <2>2. CASE ~RememberFetched(c)
    BY <1>1, <2>2 DEF Detail, StartDetail, Join, PersistFetchedDetail, PersistFails, cacheVars, CacheStep
  <2>3. QED  BY <2>1, <2>2
<1>2. ASSUME NEW k \in Key, Flight(k) PROVE CacheStep
  <2>1. CASE Land(k)
    <3>1. k[1] \in Url /\ flights[k].res \in Result
      BY <1>0 DEF TypeOK, Key
    <3>2. Puts(k[1], flights[k].res)
      BY <1>0, <2>1 DEF Puts, Land, ReadsUpToDate
    <3>3. QED  BY <3>1, <3>2 DEF CacheStep
  <2>2. CASE ~Land(k)
    BY <1>2, <2>2 DEF Flight, GitHubReads, FetchFails, cacheVars, CacheStep
  <2>3. QED  BY <2>1, <2>2
<1>3. ASSUME NEW b \in Batcher, Batch(b) PROVE CacheStep
  <2>1. CASE DropEntries(b)
    <3>1. held[b].node \in Node /\ held[b].ver \in Version /\ held[b].ver <= remote
      <4>1. b \in Process /\ held[b] \in Result /\ held[b].node # None
        BY <1>0, <2>1 DEF TypeOK, Process, DropEntries, Goto, BatchHasNode
      <4>2. QED  BY <1>0, <4>1 DEF Result, NothingAhead
    <3>2. Invalidates(held[b].node, held[b].ver)
      BY <2>1, <3>1 DEF Invalidates, DropEntries
    <3>3. QED  BY <3>1, <3>2 DEF CacheStep
  <2>2. CASE ~DropEntries(b)
    BY <1>3, <2>2 DEF Batch, StartBatch, BatchReads, BatchFails, WriteState, BatchDone, cacheVars, CacheStep
  <2>3. QED  BY <2>1, <2>2
<1>4. ASSUME NEW e \in Editor, Edit(e) PROVE CacheStep
  <2>1. CASE DropEdited(e) /\ held[e].node = None
    BY <2>1 DEF DropEdited, CacheStep, Forgets
  <2>2. CASE DropEdited(e) /\ held[e].node # None
    <3>1. held[e].node \in Node /\ held[e].ver \in Version /\ held[e].ver <= remote
      <4>1. e \in Process /\ held[e] \in Result
        BY <1>0 DEF TypeOK, Process
      <4>2. QED  BY <1>0, <2>2, <4>1 DEF Result, NothingAhead
    <3>2. Invalidates(held[e].node, held[e].ver)
      BY <2>2, <3>1 DEF Invalidates, DropEdited
    <3>3. QED  BY <3>1, <3>2 DEF CacheStep
  <2>3. CASE ~DropEdited(e)
    BY <1>4, <2>3 DEF Edit, StartEdit, WriteEdit, EditDone, cacheVars, CacheStep
  <2>4. QED  BY <2>1, <2>2, <2>3
<1>5. CASE Change
  BY <1>5 DEF Change, cacheVars, CacheStep
<1>6. CASE PruneExpired
  <2>1. \E urls \in SUBSET Url : cache' = Drop(urls)
    BY <1>6 DEF PruneExpired
  <2>2. QED  BY <1>6, <2>1 DEF PruneExpired, CacheStep, Forgets
<1>7. CASE UNCHANGED vars
  BY <1>7 DEF vars, cacheVars, CacheStep
<1>8. QED  BY <1>1, <1>2, <1>3, <1>4, <1>5, <1>6, <1>7 DEF Next

(* No URL is dropped from an alias set that still has its entry. *)
LEMMA InvalidateCovers ==
  ASSUME TypeOK, AliasesCover, NEW n \in Node, InvalidateByNodeID(n)
  PROVE  /\ AliasesCover'
         /\ \A u \in Url : cache'[u] # None => cache'[u] = cache[u] /\ cache[u].node # n
<1>1. \A u \in Url : cache'[u] # None => cache'[u] = cache[u] /\ u \notin nodeToURLs[n]
  BY DEF InvalidateByNodeID, Drop
<1>2. \A u \in Url : cache'[u] # None => cache'[u] = cache[u] /\ cache[u].node # n
  BY <1>1 DEF AliasesCover
<1>3. \A m \in Node : m # n => nodeToURLs'[m] = nodeToURLs[m]
  BY DEF InvalidateByNodeID, TypeOK
<1>4. \A u \in Url : cache[u] # None => cache[u].node \in Node \cup {None}
  BY DEF TypeOK, Result
<1>5. AliasesCover'
  BY <1>2, <1>3, <1>4 DEF AliasesCover
<1>6. QED  BY <1>2, <1>5

LEMMA ForgetsCovers ==
  ASSUME TypeOK, AliasesCover, Forgets
  PROVE  /\ AliasesCover'
         /\ \A u \in Url : cache'[u] # None => cache'[u] = cache[u]
<1>1. ASSUME NEW urls, cache' = Drop(urls), UNCHANGED nodeToURLs
      PROVE  /\ AliasesCover'
             /\ \A u \in Url : cache'[u] # None => cache'[u] = cache[u]
  <2>1. \A u \in Url : cache'[u] # None => cache'[u] = cache[u]
    BY <1>1 DEF Drop
  <2>2. QED  BY <1>1, <2>1 DEF AliasesCover
<1>2. ASSUME NEW url \in Url, InvalidateByURL(url)
      PROVE  /\ AliasesCover'
             /\ \A u \in Url : cache'[u] # None => cache'[u] = cache[u]
  <2>1. CASE \A n \in Node : url \notin nodeToURLs[n]
    BY <1>1, <1>2, <2>1 DEF InvalidateByURL
  <2>2. CASE ~ \A n \in Node : url \notin nodeToURLs[n]
    BY <1>2, <2>2, InvalidateCovers DEF InvalidateByURL
  <2>3. QED  BY <2>1, <2>2
<1>3. QED  BY <1>1, <1>2 DEF Forgets

LEMMA PutCovers ==
  ASSUME TypeOK, AliasesCover, StaleNeedsAnOverlap, NEW u \in Url, NEW res \in Result, Puts(u, res)
  PROVE  AliasesCover' /\ StaleNeedsAnOverlap'
<1>1. /\ cache'[u] = res
      /\ \A v \in Url : v # u => cache'[v] = cache[v]
      /\ \A m \in Node : nodeToURLs[m] \subseteq nodeToURLs'[m]
      /\ res.node # None => u \in nodeToURLs'[res.node]
  BY DEF Puts, Remember, TypeOK, Result
<1>2. \A v \in Url : cache[v] # None => cache[v].node \in Node \cup {None}
  BY DEF TypeOK, Result
<1>3. AliasesCover'
  BY <1>1, <1>2 DEF AliasesCover
<1>4. StaleNeedsAnOverlap'
  BY <1>1 DEF StaleNeedsAnOverlap, Puts, UpToDate, UpTo
<1>5. QED  BY <1>3, <1>4

LEMMA AtLeastOthers ==
  ASSUME TypeOK, NEW n \in Node, NEW ver \in Version
  PROVE  /\ \A m \in Node : m # n => AtLeast(floor, n, ver)[m] = floor[m]
         /\ ver <= remote /\ floor[n] <= remote => AtLeast(floor, n, ver)[n] <= remote
BY DEF AtLeast, TypeOK

LEMMA CacheInvariant == Inv /\ [Next]_vars => AliasesCover' /\ StaleNeedsAnOverlap'
<1> SUFFICES ASSUME Inv, [Next]_vars PROVE AliasesCover' /\ StaleNeedsAnOverlap'
  OBVIOUS
<1>0. TypeOK /\ AliasesCover /\ StaleNeedsAnOverlap
  BY DEF Inv
<1>1. CacheStep
  BY CacheSteps
<1>2. CASE UNCHANGED <<cache, nodeToURLs, floor>>
  BY <1>0, <1>2 DEF AliasesCover, StaleNeedsAnOverlap
<1>3. CASE \E u \in Url, res \in Result : Puts(u, res)
  BY <1>0, <1>3, PutCovers
<1>4. ASSUME NEW n \in Node, NEW ver \in Version, Invalidates(n, ver)
      PROVE  AliasesCover' /\ StaleNeedsAnOverlap'
  <2>1. /\ AliasesCover'
        /\ \A u \in Url : cache'[u] # None => cache'[u] = cache[u] /\ cache[u].node # n
    BY <1>0, <1>4, InvalidateCovers DEF Invalidates
  <2>2. \A m \in Node : m # n => floor'[m] = floor[m]
    BY <1>0, <1>4, AtLeastOthers DEF Invalidates
  <2>3. \A u \in Url : cache[u] # None => cache[u].node \in Node \cup {None}
    BY <1>0 DEF TypeOK, Result
  <2>4. StaleNeedsAnOverlap'
    BY <1>0, <2>1, <2>2, <2>3 DEF StaleNeedsAnOverlap
  <2>5. QED  BY <2>1, <2>4
<1>5. CASE Forgets
  <2>1. AliasesCover' /\ \A u \in Url : cache'[u] # None => cache'[u] = cache[u]
    BY <1>0, <1>5, ForgetsCovers
  <2>2. floor' = floor
    BY <1>5 DEF Forgets
  <2>3. QED  BY <1>0, <2>1, <2>2 DEF StaleNeedsAnOverlap
<1>6. QED  BY <1>1, <1>2, <1>3, <1>4, <1>5 DEF CacheStep
-----------------------------------------------------------------------------
(* What the goroutines hold *)

Holdings == NothingAhead /\ BatchHasNode /\ ReadsUpToDate

LEMMA NothingUpToDate == UpToDate(NoResult) /\ UpToDate(NoResult)' /\ NoResult.ver = 0
BY DEF UpToDate, UpTo, NoResult

LEMMA DetailHoldings ==
  ASSUME Inv, NEW c \in Caller, Detail(c)
  PROVE  Holdings'
<1>0. /\ TypeOK /\ StaleNeedsAnOverlap /\ NothingAhead /\ BatchHasNode /\ ReadsUpToDate
      /\ c \in Process /\ c \notin Batcher /\ c \notin Editor
  BY DEF Inv, Process
<1>1. remote' = remote /\ floor' = floor
  BY DEF Detail, StartDetail, Join, PersistFetchedDetail, PersistFails, RememberFetched
<1>2. /\ \A p \in Process : p # c => held'[p] = held[p] /\ pc'[p] = pc[p]
      /\ UpToDate(held'[c])
  <2>1. CASE StartDetail(c)
    <3>1. PICK u \in Url, hit \in BOOLEAN :
              /\ hit => cache[u] # None
              /\ Goto(c, "idle", IF hit THEN "have" ELSE "miss")
              /\ held' = [held EXCEPT ![c] = IF hit THEN cache[u] ELSE NoResult]
      BY <2>1 DEF StartDetail
    <3>2. cache[u] # None => UpToDate(cache[u])
      BY <1>0 DEF StaleNeedsAnOverlap, UpToDate, UpTo
    <3>3. QED  BY <1>0, <3>1, <3>2, NothingUpToDate DEF Goto, TypeOK
  <2>2. CASE Join(c) \/ PersistFetchedDetail(c)
    BY <1>0, <2>2 DEF Join, PersistFetchedDetail, Goto, TypeOK, ReadsUpToDate
  <2>3. CASE PersistFails(c) \/ RememberFetched(c)
    BY <1>0, <2>3, NothingUpToDate DEF PersistFails, RememberFetched, Return, Goto, TypeOK
  <2>4. QED  BY <2>1, <2>2, <2>3 DEF Detail
<1>3. NothingAhead' /\ BatchHasNode'
  BY <1>0, <1>1, <1>2 DEF NothingAhead, BatchHasNode, Process
<1>4. \A k \in Key : flights'[k].res = flights[k].res \/ flights'[k].res = NoResult
  <2>1. CASE Join(c)
    <3>1. \A k \in Key : flights'[k] = flights[k] \/ flights'[k] = Joined(flights[k], c)
      BY <1>0, <2>1 DEF Join, TypeOK
    <3>2. \A k \in Key : flights[k] \in Flights
      BY <1>0 DEF TypeOK, Flights
    <3>3. \A f \in Flights : Joined(f, c).res = f.res \/ Joined(f, c).res = NoResult
      BY DEF Joined, IdleFlight, Flights
    <3>4. QED  BY <3>1, <3>2, <3>3
  <2>2. CASE ~Join(c)
    BY <2>2 DEF Detail, StartDetail, PersistFetchedDetail, PersistFails, RememberFetched
  <2>3. QED  BY <2>1, <2>2
<1>5. ReadsUpToDate'
  BY <1>0, <1>1, <1>2, <1>4, NothingUpToDate DEF ReadsUpToDate, UpToDate, UpTo, Process
<1>6. QED  BY <1>3, <1>5 DEF Holdings

LEMMA FlightHoldings ==
  ASSUME Inv, NEW k \in Key, Flight(k)
  PROVE  Holdings'
<1>0. TypeOK /\ NothingAhead /\ BatchHasNode /\ ReadsUpToDate
  BY DEF Inv
<1>1. remote' = remote /\ floor' = floor
  BY DEF Flight, GitHubReads, Land, FetchFails
<1>2. flights[k].users \subseteq Caller /\ k[1] \in Url
  BY <1>0 DEF TypeOK, Key
<1>3. /\ \A p \in Batcher \cup Editor : held'[p] = held[p] /\ pc'[p] = pc[p]
      /\ \A p \in Caller : UpToDate(held'[p])
  <2>1. CASE GitHubReads(k)
    BY <1>0, <2>1 DEF GitHubReads, ReadsUpToDate
  <2>2. CASE Land(k)
    BY <1>0, <1>2, <2>2 DEF Land, ReadsUpToDate, Process
  <2>3. CASE FetchFails(k)
    BY <1>0, <1>2, <2>3 DEF FetchFails, ReadsUpToDate, Process
  <2>4. QED  BY <2>1, <2>2, <2>3 DEF Flight
<1>4. \A j \in Key : UpToDate(flights'[j].res)
  <2>1. CASE GitHubReads(k)
    <3>1. PICK res \in Fetched(k[1]) : flights' = [flights EXCEPT ![k].phase = "read", ![k].res = res]
      BY <2>1 DEF GitHubReads
    <3>2. res.ver = remote /\ res \in Result
      <4>1. Kind[k[1]] \in {"pr", "issue", "other"}
        BY <1>2
      <4>2. res \in {GqlDetail, RestDetail, [NoResult EXCEPT !.ver = remote]}
        BY <3>1, <4>1 DEF Fetched
      <4>3. QED  BY <1>0, <1>2, <3>1, <4>2, FetchedType DEF GqlDetail, RestDetail, NoResult
    <3>3. UpToDate(res)
      BY <1>0, <3>2 DEF UpToDate, UpTo, NothingAhead, Result
    <3>4. \A j \in Key : flights'[j].res = flights[j].res \/ flights'[j].res = res
      BY <1>0, <3>1 DEF TypeOK
    <3>5. QED  BY <1>0, <3>3, <3>4 DEF ReadsUpToDate
  <2>2. CASE Land(k) \/ FetchFails(k)
    <3>1. \A j \in Key : flights'[j].res = flights[j].res \/ flights'[j].res = NoResult
      <4>1. IdleFlight.res = NoResult
        BY DEF IdleFlight
      <4>2. flights' = [flights EXCEPT ![k] = IdleFlight]
        BY <2>2 DEF Land, FetchFails
      <4>3. QED  BY <1>0, <4>1, <4>2 DEF TypeOK
    <3>2. QED  BY <1>0, <3>1, NothingUpToDate DEF ReadsUpToDate
  <2>3. QED  BY <2>1, <2>2 DEF Flight
<1>5. ReadsUpToDate'
  BY <1>1, <1>3, <1>4 DEF ReadsUpToDate, UpToDate
<1>6. NothingAhead' /\ BatchHasNode'
  BY <1>0, <1>1, <1>3 DEF NothingAhead, BatchHasNode
<1>7. QED  BY <1>5, <1>6 DEF Holdings

(* After an invalidation, what a caller or a flight holds of the node is late. *)
LEMMA OvertakenReads ==
  ASSUME Inv, NEW n \in Node, NEW ver \in Version, Invalidates(n, ver)
  PROVE  ReadsUpToDate'
<1>0. TypeOK /\ ReadsUpToDate
  BY DEF Inv
<1>1. \A m \in Node : m # n => floor'[m] = floor[m]
  BY <1>0, AtLeastOthers DEF Invalidates
<1>2. ASSUME NEW res \in Result, UpTo(res, floor)
      PROVE  UpTo(Overtaken(res, n), floor')
  <2>1. CASE res.node = n
    BY <2>1 DEF UpTo, Overtaken, Result
  <2>2. CASE res.node # n
    <3>1. Overtaken(res, n) = res /\ res.node \in Node \cup {None}
      BY <2>2 DEF Overtaken, Result
    <3>2. res.node # None => floor'[res.node] = floor[res.node]
      BY <1>1, <2>2, <3>1
    <3>3. QED  BY <1>2, <2>2, <3>2 DEF UpTo, Overtaken
  <2>3. QED  BY <2>1, <2>2
<1>3. \A c \in Caller : held'[c] = Overtaken(held[c], n) /\ held[c] \in Result
  BY <1>0 DEF Invalidates, Overtake, TypeOK, Process
<1>4. \A k \in Key : flights'[k].res = Overtaken(flights[k].res, n) /\ flights[k].res \in Result
  BY <1>0 DEF Invalidates, Overtake, TypeOK
<1>5. \A c \in Caller : UpTo(held'[c], floor')
  BY <1>0, <1>2, <1>3 DEF ReadsUpToDate, UpToDate
<1>6. \A k \in Key : UpTo(flights'[k].res, floor')
  BY <1>0, <1>2, <1>4 DEF ReadsUpToDate, UpToDate
<1>7. QED  BY <1>5, <1>6 DEF ReadsUpToDate, UpToDate

LEMMA BatchHoldings ==
  ASSUME Inv, NEW b \in Batcher, Batch(b)
  PROVE  Holdings'
<1>0. /\ TypeOK /\ NothingAhead /\ BatchHasNode /\ ReadsUpToDate
      /\ b \in Process /\ b \notin Caller /\ held[b] \in Result
  BY DEF Inv, Process, TypeOK
<1>1. CASE DropEntries(b)
  <2>1. held[b].node \in Node /\ held[b].ver \in Version /\ held[b].ver <= remote
    BY <1>0, <1>1 DEF DropEntries, Goto, BatchHasNode, Result, NothingAhead
  <2>2. Invalidates(held[b].node, held[b].ver)
    BY <1>1, <2>1 DEF Invalidates, DropEntries
  <2>3. ReadsUpToDate'
    BY <2>1, <2>2, OvertakenReads
  <2>4. \A n \in Node : floor'[n] <= remote
    BY <1>0, <2>1, <2>2, AtLeastOthers DEF Invalidates, NothingAhead
  <2>5. \A p \in Batcher \cup Editor : held'[p] = held[p]
    BY <2>2 DEF Invalidates, Overtake, Process
  <2>6. \A p \in Batcher : pc'[p] = "written" => pc[p] = "written"
    BY <1>0, <1>1 DEF DropEntries, Goto, TypeOK, Process
  <2>7. QED  BY <1>0, <1>1, <2>3, <2>4, <2>5, <2>6 DEF DropEntries, NothingAhead, BatchHasNode, Holdings
<1>2. CASE ~DropEntries(b)
  <2>1. UNCHANGED <<remote, floor, flights>>
    BY <1>2 DEF Batch, StartBatch, BatchReads, BatchFails, WriteState, BatchDone
  <2>2. \A p \in Process : p # b => held'[p] = held[p] /\ pc'[p] = pc[p]
    BY <1>0, <1>2 DEF Batch, StartBatch, BatchReads, BatchFails, WriteState, BatchDone, Return, Goto, TypeOK
  <2>3. held'[b].ver <= remote /\ (pc'[b] = "written" => held'[b].node # None)
    <3>1. CASE StartBatch(b)
      BY <1>0, <3>1 DEF StartBatch, Goto, TypeOK, NothingAhead
    <3>2. CASE BatchReads(b)
      BY <1>0, <3>2 DEF BatchReads, Goto, TypeOK, NoResult, Version
    <3>3. CASE BatchFails(b) \/ BatchDone(b)
      <4>1. held'[b] = NoResult /\ pc'[b] = "idle"
        BY <1>0, <3>3 DEF BatchFails, BatchDone, Return, Goto, TypeOK
      <4>2. QED  BY <1>0, <4>1, NothingUpToDate DEF TypeOK, Version
    <3>4. CASE WriteState(b)
      <4>1. PICK n \in job[b].nodes : held' = [held EXCEPT ![b].node = n]
        BY <3>4 DEF WriteState
      <4>2. n \in Node
        BY <1>0, <4>1 DEF TypeOK
      <4>3. held'[b].node = n /\ held'[b].ver = held[b].ver
        BY <1>0, <4>1 DEF TypeOK, Result
      <4>4. QED  BY <1>0, <4>2, <4>3 DEF NothingAhead
    <3>5. QED  BY <1>2, <3>1, <3>2, <3>3, <3>4 DEF Batch
  <2>4. NothingAhead' /\ BatchHasNode'
    BY <1>0, <2>1, <2>2, <2>3 DEF NothingAhead, BatchHasNode, Process
  <2>5. ReadsUpToDate'
    BY <1>0, <2>1, <2>2 DEF ReadsUpToDate, UpToDate, UpTo, Process
  <2>6. QED  BY <2>4, <2>5 DEF Holdings
<1>3. QED  BY <1>1, <1>2

LEMMA EditHoldings ==
  ASSUME Inv, NEW e \in Editor, Edit(e)
  PROVE  Holdings'
<1>0. /\ TypeOK /\ NothingAhead /\ BatchHasNode /\ ReadsUpToDate
      /\ e \in Process /\ e \notin Caller /\ e \notin Batcher /\ held[e] \in Result
  BY DEF Inv, Process, TypeOK
<1>1. CASE DropEdited(e) /\ held[e].node # None
  <2>1. held[e].node \in Node /\ held[e].ver \in Version /\ held[e].ver <= remote
    BY <1>0, <1>1 DEF Result, NothingAhead
  <2>2. Invalidates(held[e].node, held[e].ver)
    BY <1>1, <2>1 DEF Invalidates, DropEdited
  <2>3. ReadsUpToDate'
    BY <2>1, <2>2, OvertakenReads
  <2>4. \A n \in Node : floor'[n] <= remote
    BY <1>0, <2>1, <2>2, AtLeastOthers DEF Invalidates, NothingAhead
  <2>5. \A p \in Batcher \cup Editor : held'[p] = held[p]
    BY <2>2 DEF Invalidates, Overtake, Process
  <2>6. \A p \in Batcher : pc'[p] = pc[p]
    BY <1>0, <1>1 DEF DropEdited, Goto, TypeOK, Process
  <2>7. QED  BY <1>0, <1>1, <2>3, <2>4, <2>5, <2>6 DEF DropEdited, NothingAhead, BatchHasNode, Holdings
<1>2. CASE ~(DropEdited(e) /\ held[e].node # None)
  <2>1. UNCHANGED <<remote, floor, flights>>
    BY <1>2 DEF Edit, StartEdit, WriteEdit, DropEdited, EditDone
  <2>2. \A p \in Process : p # e => held'[p] = held[p] /\ pc'[p] = pc[p]
    BY <1>0, <1>2 DEF Edit, StartEdit, WriteEdit, DropEdited, EditDone, Return, Goto, TypeOK
  <2>3. held'[e].ver <= remote
    <3>1. CASE StartEdit(e)
      BY <1>0, <3>1 DEF StartEdit, TypeOK, NoResult, Version
    <3>2. CASE WriteEdit(e) \/ DropEdited(e)
      BY <1>0, <1>2, <3>2 DEF WriteEdit, DropEdited, NothingAhead
    <3>3. CASE EditDone(e)
      <4>1. held'[e] = NoResult
        BY <1>0, <3>3 DEF EditDone, Return, TypeOK
      <4>2. QED  BY <1>0, <4>1, NothingUpToDate DEF TypeOK, Version
    <3>4. QED  BY <3>1, <3>2, <3>3 DEF Edit
  <2>4. NothingAhead' /\ BatchHasNode'
    BY <1>0, <2>1, <2>2, <2>3 DEF NothingAhead, BatchHasNode, Process
  <2>5. ReadsUpToDate'
    BY <1>0, <2>1, <2>2 DEF ReadsUpToDate, UpToDate, UpTo, Process
  <2>6. QED  BY <2>4, <2>5 DEF Holdings
<1>3. QED  BY <1>1, <1>2

LEMMA InvStep == Inv /\ [Next]_vars => Inv'
<1> SUFFICES ASSUME Inv, [Next]_vars PROVE Inv'
  OBVIOUS
<1>0. TypeOK /\ NothingAhead /\ BatchHasNode /\ ReadsUpToDate
  BY DEF Inv
<1>1. TypeOK' /\ AliasesCover' /\ StaleNeedsAnOverlap'
  BY TypeStep, CacheInvariant
<1>2. Holdings'
  <2>1. CASE Change
    <3>1. /\ remote' = remote + 1 /\ UNCHANGED <<flights, pc, held, floor>>
          /\ remote \in Nat /\ (\A n \in Node : floor[n] \in Nat)
          /\ \A p \in Batcher \cup Editor : held[p].ver \in Nat
      BY <1>0, <2>1 DEF Change, TypeOK, Version, Result, Process
    <3>2. NothingAhead'
      BY <1>0, <3>1 DEF NothingAhead
    <3>3. BatchHasNode' /\ ReadsUpToDate'
      BY <1>0, <3>1 DEF BatchHasNode, ReadsUpToDate, UpToDate, UpTo
    <3>4. QED  BY <3>2, <3>3 DEF Holdings
  <2>2. CASE PruneExpired \/ UNCHANGED vars
    BY <1>0, <2>2 DEF PruneExpired, vars, cacheVars, NothingAhead, BatchHasNode, ReadsUpToDate, UpToDate, UpTo, Holdings
  <2>3. QED  BY <2>1, <2>2, DetailHoldings, FlightHoldings, BatchHoldings, EditHoldings DEF Next
<1>3. QED  BY <1>1, <1>2 DEF Holdings, Inv

LEMMA Invariance == Spec => []Inv
<1>1. QED  BY InvInit, InvStep, PTL DEF Spec

-----------------------------------------------------------------------------
(* TypeCorrect: every variable of the engine keeps its type, whatever the number
   of callers, batches and clients and of URLs and nodes (EnrichmentEngine). *)
THEOREM TypeCorrect == Spec => []TypeOK
<1>1. Inv => TypeOK
  BY DEF Inv
<1>2. QED  BY <1>1, Invariance, PTL

(* EntriesAreReachable: every cached detail is among the URLs of the node ID it
   was cached with, so an invalidation by node ID reaches it
   (rememberCacheEntryLocked, invalidateByNodeIDLocked). *)
THEOREM EntriesAreReachable == Spec => []AliasesCover
<1>1. Inv => AliasesCover
  BY DEF Inv
<1>2. QED  BY <1>1, Invariance, PTL

(* StaleOnlyByOverlap: a cached detail is older than the newest state its node
   was invalidated for only if it was read before the invalidation and put into
   the cache after it (FetchDetail, PersistFetchedDetail, updateNodeState). *)
THEOREM StaleOnlyByOverlap == Spec => []StaleNeedsAnOverlap
<1>1. Inv => StaleNeedsAnOverlap
  BY DEF Inv
<1>2. QED  BY <1>1, Invariance, PTL

-----------------------------------------------------------------------------
(* The flights and those who wait for them *)

(* A flight's users are the callers that wait for its key, and a key without a
   flight has none. *)
FlightsInv ==
    /\ \A c \in Caller, k \in Key : c \in flights[k].users <=> pc[c] = "wait" /\ k = KeyOf(c)
    /\ \A k \in Key : flights[k].phase = "idle" => flights[k].users = {}

LEMMA KeyOfType ==
  ASSUME TypeOK, NEW c \in Caller
  PROVE  KeyOf(c) \in Key
BY DEF TypeOK, KeyOf, Key, Process

(* A step that neither moves a caller to or from waiting nor changes who waits
   for a flight. *)
LEMMA SameWaiters ==
  ASSUME TypeOK, FlightsInv,
         \A c \in Caller : pc'[c] = "wait" <=> pc[c] = "wait",
         \A c \in Caller : pc[c] = "wait" => job'[c] = job[c],
         \A k \in Key : /\ flights'[k].users = flights[k].users
                        /\ flights'[k].phase = "idle" => flights[k].phase = "idle"
  PROVE  FlightsInv'
BY DEF FlightsInv, KeyOf

LEMMA DetailWaits ==
  ASSUME TypeOK, FlightsInv, NEW c \in Caller, Detail(c)
  PROVE  FlightsInv'
<1>0. c \in Process /\ pc \in [Process -> States] /\ job \in [Process -> Jobs]
      /\ flights \in [Key -> Flights] /\ KeyOf(c) \in Key
  BY KeyOfType DEF TypeOK, Process, States, Jobs, Flights
<1>1. CASE Join(c)
  <2>. DEFINE k0 == KeyOf(c)
  <2>1. /\ pc[c] = "miss" /\ pc' = [pc EXCEPT ![c] = "wait"] /\ job' = job
        /\ flights' = [flights EXCEPT ![k0] = Joined(flights[k0], c)]
    BY <1>1 DEF Join, Goto
  <2>2. Joined(flights[k0], c).users = flights[k0].users \cup {c} /\ Joined(flights[k0], c).phase # "idle"
    BY <1>0 DEF FlightsInv, Joined, IdleFlight, Flights
  <2>3. \A k \in Key : /\ flights'[k].users = IF k = k0 THEN flights[k].users \cup {c} ELSE flights[k].users
                       /\ flights'[k].phase = "idle" => k # k0 /\ flights[k].phase = "idle"
    BY <1>0, <2>1, <2>2
  <2>4. \A d \in Caller : KeyOf(d)' = KeyOf(d) /\ (pc'[d] = "wait" <=> d = c \/ pc[d] = "wait")
    BY <1>0, <2>1 DEF KeyOf, Process
  <2>5. ASSUME NEW d \in Caller, NEW k \in Key
        PROVE  d \in flights'[k].users <=> pc'[d] = "wait" /\ k = KeyOf(d)'
    <3>1. d \in flights[k].users <=> pc[d] = "wait" /\ k = KeyOf(d)
      BY DEF FlightsInv
    <3>2. CASE d = c
      <4>1. pc'[d] = "wait" /\ KeyOf(d)' = k0 /\ d \notin flights[k].users
        BY <2>1, <2>4, <3>1, <3>2
      <4>2. QED  BY <2>3, <3>2, <4>1
    <3>3. CASE d # c
      <4>1. (pc'[d] = "wait" <=> pc[d] = "wait") /\ KeyOf(d)' = KeyOf(d)
        BY <2>4, <3>3
      <4>2. d \in flights'[k].users <=> d \in flights[k].users
        BY <2>3, <3>3
      <4>3. QED  BY <3>1, <4>1, <4>2
    <3>4. QED  BY <3>2, <3>3
  <2>6. QED  BY <2>3, <2>5 DEF FlightsInv
<1>2. CASE ~Join(c)
  <2>1. UNCHANGED flights
    BY <1>1, <1>2 DEF Detail, StartDetail, PersistFetchedDetail, PersistFails, RememberFetched
  <2>2. \E to \in States \ {"wait"} : pc[c] # "wait" /\ pc' = [pc EXCEPT ![c] = to]
    BY <1>2 DEF Detail, StartDetail, PersistFetchedDetail, PersistFails, RememberFetched, Return, Goto, States
  <2>3. \A d \in Caller : d # c => job'[d] = job[d]
    BY <1>0, <1>2 DEF Detail, StartDetail, PersistFetchedDetail, PersistFails, RememberFetched, Return, Process
  <2>4. \A d \in Caller : pc'[d] = "wait" <=> pc[d] = "wait"
    BY <1>0, <2>2 DEF Process
  <2>5. QED  BY <2>1, <2>2, <2>3, <2>4, SameWaiters
<1>3. QED  BY <1>1, <1>2

LEMMA FlightWaits ==
  ASSUME TypeOK, FlightsInv, NEW k \in Key, Flight(k)
  PROVE  FlightsInv'
<1>0. flights \in [Key -> Flights] /\ flights[k] \in Flights
  BY DEF TypeOK, Flights
<1>1. CASE GitHubReads(k)
  <2>1. PICK res \in Fetched(k[1]) : flights' = [flights EXCEPT ![k].phase = "read", ![k].res = res]
    BY <1>1 DEF GitHubReads
  <2>2. \A j \in Key : flights'[j].users = flights[j].users /\ (flights'[j].phase = "idle" => flights[j].phase = "idle")
    BY <1>0, <2>1 DEF Flights
  <2>3. QED  BY <1>1, <2>2, SameWaiters DEF GitHubReads
<1>2. CASE Land(k) \/ FetchFails(k)
  <2>1. /\ flights' = [flights EXCEPT ![k] = IdleFlight]
        /\ \A d \in Caller : pc'[d] # "wait" \/ (d \notin flights[k].users /\ pc'[d] = pc[d])
        /\ \A d \in Caller : d \notin flights[k].users => pc'[d] = pc[d] /\ job'[d] = job[d]
    BY <1>2 DEF Land, FetchFails, Process
  <2>2. \A j \in Key : flights'[j] = IF j = k THEN IdleFlight ELSE flights[j]
    BY <1>0, <2>1
  <2>3. \A d \in Caller : d \notin flights[k].users => KeyOf(d)' = KeyOf(d)
    BY <2>1 DEF KeyOf
  <2>4. IdleFlight.users = {}
    BY DEF IdleFlight
  <2>5. ASSUME NEW d \in Caller, NEW j \in Key
        PROVE  d \in flights'[j].users <=> pc'[d] = "wait" /\ j = KeyOf(d)'
    <3>1. CASE d \in flights[k].users
      BY <2>1, <2>2, <2>4, <3>1 DEF FlightsInv
    <3>2. CASE d \notin flights[k].users
      BY <2>1, <2>2, <2>3, <2>4, <3>2 DEF FlightsInv
    <3>3. QED  BY <3>1, <3>2
  <2>6. QED  BY <2>2, <2>4, <2>5 DEF FlightsInv
<1>3. QED  BY <1>1, <1>2 DEF Flight

LEMMA OvertakeWaits ==
  ASSUME TypeOK, NEW n, Overtake(n), NEW k \in Key
  PROVE  flights'[k].users = flights[k].users /\ flights'[k].phase = flights[k].phase
BY DEF Overtake, TypeOK

(* The batches and the clients are no callers. *)
LEMMA OtherWaits ==
  ASSUME TypeOK, FlightsInv, NEW p,
         (p \in Batcher /\ Batch(p)) \/ (p \in Editor /\ Edit(p))
  PROVE  FlightsInv'
<1>1. p \in Process /\ p \notin Caller
  BY DEF Process
<1>2. \A c \in Caller : pc'[c] = pc[c] /\ job'[c] = job[c]
  BY <1>1 DEF Batch, StartBatch, BatchReads, BatchFails, WriteState, DropEntries, BatchDone, Edit, StartEdit,
     WriteEdit, DropEdited, EditDone, Return, Goto, TypeOK, Process
<1>3. UNCHANGED flights \/ \E n : Overtake(n)
  BY DEF Batch, StartBatch, BatchReads, BatchFails, WriteState, DropEntries, BatchDone, Edit, StartEdit,
     WriteEdit, DropEdited, EditDone
<1>4. \A k \in Key : flights'[k].users = flights[k].users /\ flights'[k].phase = flights[k].phase
  BY <1>3, OvertakeWaits
<1>5. QED  BY <1>2, <1>4, SameWaiters

(* CallersShareOneFetch: the callers that wait are the users of the flight of
   their key, and a flight has no other users: when it lands or fails it answers
   them all (singleflight.Group in FetchDetail). *)
THEOREM CallersShareOneFetch == Spec => []OneFetchPerKey
<1>1. Init => FlightsInv
  BY DEF Init, FlightsInv, IdleFlight, Process
<1>2. TypeOK /\ FlightsInv /\ [Next]_vars => FlightsInv'
  <2>1. SUFFICES ASSUME TypeOK, FlightsInv, [Next]_vars PROVE FlightsInv'
    OBVIOUS
  <2>2. CASE Change \/ PruneExpired \/ UNCHANGED vars
    BY <2>1, <2>2, SameWaiters DEF Change, PruneExpired, vars
  <2>3. ASSUME NEW b \in Batcher, Batch(b) PROVE FlightsInv'
    BY <2>1, <2>3, OtherWaits
  <2>4. ASSUME NEW e \in Editor, Edit(e) PROVE FlightsInv'
    BY <2>1, <2>4, OtherWaits
  <2>5. QED  BY <2>1, <2>2, <2>3, <2>4, DetailWaits, FlightWaits DEF Next
<1>3. TypeOK /\ FlightsInv => OneFetchPerKey
  BY KeyOfType DEF FlightsInv, OneFetchPerKey
<1>4. QED  BY <1>1, <1>2, <1>3, TypeCorrect, PTL DEF Spec
=============================================================================
