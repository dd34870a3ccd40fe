# gh-orbit in TLA+

gh-orbit is a local-first triage tool for GitHub notifications: a SQLite store,
a sync with the GitHub API, a terminal UI, a headless engine reached over a Unix
socket, and a native macOS host. This directory models its core logic in TLA+,
model-checks it with TLC and proves theorems about it with TLAPS. Paths below
are relative to the repository (`src/`).

## 1. The system

A process is either a *standalone TUI* (the backend runs inside it), a
*headless engine*, or a *connected TUI* that reaches an engine through MCP.
`CoreEngine` (`internal/engine/engine.go`) composes the backend and shuts it
down in the order sync, enrichment, traffic control, alerts, database.

| Component | State it keeps | Operations | What is hard | What makes it correct |
| --- | --- | --- | --- | --- |
| Traffic controller (`internal/api/traffic.go`, `notification_batch_executor.go`) | three bounded channels, permit counter and its limit, user-task flag, quota, lockout, done channel | Submit, RunNotificationBatch, ReportRateLimit, UpdateRateLimit, Shutdown; a supervisor and worker goroutines | goroutines racing through atomics and two mutexes; shutdown against admission; cancellation in a batch | every accepted task answered exactly once; user writes in order; permits conserved; each batch ID reported once; Shutdown returns |
| Sync engine (`internal/api/sync.go`, `internal/github/fetcher.go`) | sync metadata (ETag, poll interval, LastSyncAt) in the store | Sync: skip, fetch pages, upsert, alert, mark, save metadata | overlapping syncs; failure or crash between steps; a listing that changes between pages | no notification lost; each alerts once |
| Alert service (`internal/api/alert.go`) | throttle counter, bridge health | SyncStart, Notify, RefreshBridgeHealth | reset during another cycle; failed delivery | a limit of alerts and one summary a cycle |
| Store (`internal/db/repository.go`) | notifications and local orbit state | upserts, local read/handled/priority, batch, notified marks | stale remote data over local writes | local triage state survives a sync |
| Backend (`internal/api/tui_backend.go`) | none of its own | read, handled, priority, batch, sync, details | local commit then remote failure | snapshots tell what was committed |
| TUI (`internal/tui/model.go`, `update.go`, `actions.go`) | list, selection, syncing flag, batch recovery, task scopes | messages and commands | optimistic state against late answers; nil answers | the list converges to the store; what failed stays selected |
| Enrichment (`internal/api/enrichment.go`) | detail cache with aliases and TTL, in-flight calls | FetchDetail, FetchHybridBatch, Persist*, prune | a stale result cached after an invalidation | an invalidation reaches every cached detail |
| Event bus, MCP server, adapter, UDS client (`internal/engine`) | subscribers, session channels, pending requests, debounce timer, socket | publish, notify, request, debounce | lost wakeups, lost answers, end of either side | a change reaches every client; a request ends |
| Socket ownership (`internal/engine/mcp.go`, `cmd/gh-orbit/main.go`) | the socket file, the mode of each TUI | probe, purge, bind, unlink; connect or fall back | several processes, crashes | one reachable engine; a restart always works |
| Opening the database (`internal/db/sqlite.go`, `migrations.go`) | files, lock, schema version | Open, migrate, move legacy data | two processes; crash between renames | no data lost |
| Batch contract (`internal/types/api.go`) | none | Normalize, Validate | blanks and repetitions | a valid result covers the request |
| Native host (`native/OrbitCockpit`) | engine ownership, review workspaces and their metadata | start/stop engine, start/terminate/restore workspaces | `await` between check and use; crash between git and metadata | one owned engine; no stranded worktree |

They interact by calls (backend to store and traffic controller), callbacks
(rate-limit reports from the GitHub client into the traffic controller),
channels (`Submit`, the event bus), and messages (MCP, Bubble Tea). Components
that are pure I/O, rendering or generated code are listed in `PROJECT.json` with
the reason they are left out.

## 2. Modules

| # | Modules | Code | Checked by | Proved in |
| --- | --- | --- | --- | --- |
| 1 | `TaskService`, `TrafficController` | traffic.go, notification_batch_executor.go | `TrafficBatch`, `TrafficQuota`, `TrafficService` | `TrafficControllerProofs`, `TrafficBatchProofs` |
| 2 | `NotificationSync` | sync.go, fetcher.go, alert.go, repository.go | `SyncCycles`, `SyncStaleOverlap` | `NotificationSyncProofs` |
| 3 | `Triage`, which extends `BatchValidation` | internal/tui, tui_backend.go, adapter.go, repository.go | `Triage`, `TriageLive`, `TriageSelection` | `TriageProofs` |
| 4 | `EnrichmentCache` | enrichment.go, repository.go | `EnrichmentCache` | `EnrichmentCacheProofs` |
| 5 | `ChangeFeed` | events.go, mcp.go, uds_client.go, adapter.go | `ChangeFeed` | `ChangeFeedProofs` |
| 6 | `EngineSocket` | mcp.go, main.go | `EngineSocket` | `EngineSocketProofs` |
| 7 | `DatabaseOpen` | sqlite.go, migrations.go, schema.go | `DatabaseOpen` | `DatabaseOpenProofs` |

Each module is one level of the system and abstracts its neighbours:

* `Triage` composes the TUI, the backend and the store, in both modes. Of the
  traffic controller it keeps the order of user tasks (`queue`) and the nil
  answer; of the socket, that a connection's requests are handled in sequence
  and may be lost; of a sync, that it ends and the list is loaded again.
* `ChangeFeed` composes the bus, the server, the transport and the adapter. What
  a request reads is the number of the last commit.
* `TrafficController` takes what tasks do as quota reports; `NotificationSync` is
  what the sync task does; `EnrichmentCache` what the enrichment tasks do.

An `MC` module gives each of them model values for TLC. An operator marked
"mutant" before a definition is that definition with a plausible bug, used to
check that the properties notice it.

What is left of the plan: `EngineOwnership` and `ReviewWorkspaces`, the Swift
side.

## 3. The traffic controller

`TrafficController.tla` models `traffic.go` and `notification_batch_executor.go`.

* A task is a constant; `pc[t]` is the phase of its submission and then of its
  worker. `Enter`, `Enqueue`, `AdmitCancelled`, `RefuseFull` are `Submit` and
  the first half of `RunNotificationBatch`: taking `stateMu` for reading and
  looking at `done` is one step, the `select` another.
* `Supervisor*` is the loop of `supervisor()`, cut wherever another goroutine
  can change what it looks at: its look at `userTaskActive` before the dequeue
  and its second look after it are different steps, and so are loading the
  worker limit and the compare-and-swap of `tryAcquireCapacity`.
* `ApplyPolicy` ... `Finish` are the workers. A batch runs
  `executeNotificationBatch` under `userMu`: `Prepare*`, the inner loop
  (`Fill`, `LoadLimit`, `Claim`), `Collect` for a child's result, `RecordRest`,
  `Join`. A child is `ChildReturn`, then the deferred `ChildClose`. The
  deferred calls at the end of a worker are one step, `Finish`: each only
  releases something.
* `BeginReport`, `EnterReport`, `UIReport`, `StoreLimit`, `StoreLockout` are
  `ReportRateLimit` and `UpdateRateLimit`: three stores, three steps. Times are
  abstracted: a lockout is on or off, and `LockoutExpires` is the clock.
* `ParentCancel` and `Shutdown*` are the end of the parent context and
  `Shutdown`, up to the join on `workerWG`.

`stateMu` is not a variable: its readers are the tasks and reporters in the
phases that hold it (`Readers`), and a waiting writer keeps new readers out
(`WriterWaitsOrHolds`), which is what `sync.RWMutex` does. `userMu` likewise
(`UserMuFree`). A worker's tick of 2 ms is a retry that may happen at any time.
What a task does is a phase in which it reports quotas and then returns; what it
reports is any value of `Quota`.

`TaskService.tla` is the promise to callers with none of that machinery, and
`TrafficController` implements it by the mapping `Service`.

| Run | Instance | Shows |
| --- | --- | --- |
| `TrafficBatch` | a batch of 2, a user task and a sync, one-place channels, 2 permits | each task answered once, user order, nothing stranded in a channel, no background dispatch beside a user task, one outcome per ID, quiet after Shutdown |
| `TrafficQuota` | a batch of 3 and a report that lowers the limit or locks out | types, permits conserved while the limit moves, a batch falls short only when its context has ended |
| `TrafficService` | a batch of 1 and an enrichment that reports a quota, fair | refinement of `TaskService` with its liveness; Shutdown returns |

Bounds: each task is submitted once (a second submission is another task);
`MaxReports` bounds quota reports; two quotas, one low and one ample, since the
code compares with 500 and with 0 only (the low one is 0, so it also locks out).
Two user tasks, of which one is a batch, break order and mutual exclusion; three
IDs with two in flight reach every split of a batch into finished, running and
not begun; one permit or two make both contention and scaling happen. The
refinement run is small because its temporal part is costly; its safety is
proved for every instance (section 11). Deadlock is checked; `Terminated` is the
only stutter.

Fairness (`FairSpec`): weak fairness of the supervisor, of each worker, child,
reporter and admitted submission, and of a Shutdown that has begun. The Go
scheduler runs every runnable goroutine and the task functions carry deadlines,
so they return. Nothing obliges a caller to submit or cancel, or the process to
shut down. A blocked lock is a disabled action, not an unfair one.

`UpdateRateLimit` stores `rlInfo`, `workerLimit` and `lockoutUntil` one after the
other; `ReportRateLimit` holds only the read half of `stateMu` and the TUI holds
nothing. Two calls can therefore end with the quota of one and the worker limit
of the other until the next report. No document promises otherwise, so it is a
hazard of `PROJECT.json` and not a finding; permits stay accounted for under it.

## 4. The sync cycle

`NotificationSync.tla` models `Sync` (`sync.go`) with the fetcher, the alert
service and the rows of the store they touch, against a GitHub whose threads
receive activity and are read on other devices, and a user who reads and unreads
on this one (`updateRead` in `tui_backend.go`).

* `cycle[c]` holds the local variables of one running `Sync`: the metadata read
  (`meta`), the metadata to be saved (`fresh`), the entries fetched (`got`),
  those not yet looked at (`todo`), those to be marked (`ids`). Its `pc` follows
  the code: `Begin` is `SyncStart`, then `ReadMeta` or `SkipPoll`, `FetchPage`
  until the last page or `NotModified`, `Upsert`, for each entry `Check` and one
  of the `Notify*`, then `Mark` and `Save`. One action is one call to GitHub, to
  SQLite or to the notifier, because another goroutine can run between any two.
* Every early return is an action: `FetchFails` writes back the metadata that
  was read, `StoreFails` ends the cycle, `CheckFails` passes an entry over, a
  failed notifier call leaves the count alone but the entry is marked all the
  same, as in the code. `Crash` ends every cycle and the alert service's
  counters; the store stays.
* Each event at GitHub takes the next stamp of `now`. A stamp is the
  `updated_at` of the thread and the version of the listing: the server answers
  304 when the validator sent is the current version. ETag and Last-Modified are
  one validator. `recent` says that the poll interval since the last save has
  not passed; `TimePasses` ends it.
* `localOnly` and the history variables `shown`, `missed` record what
  the properties speak of and are read by no guard.

Cycles overlap in the code: `handlePollTick` does not look at `ui.syncing`, two
sync tasks may run in two workers of the traffic controller, and each connected
client may call the sync tool. So `Cycle` is a set; with one element the model
says what holds when callers take turns.

| Run | Instance | Shows |
| --- | --- | --- |
| `SyncCycles` | 3 threads, one cycle, pages of 1, a limit of 1 alert, one fault, fair | a validator that is still the listing's is kept only with a store that agrees with it; a completed cycle passes over no alert but the known ones and repeats one only after a fault; the limit, one summary and then silence; the store comes to agree with a quiet GitHub |
| `SyncStaleOverlap` | two cycles, no faults | **violated**: a stale row behind a fresh validator |

Bounds: `MaxTime` bounds the events at GitHub (stamp 4 is three events: three
threads appear, or two do and one changes between two page requests), `MaxFaults`
the failed calls and crashes together (`faults`), `Touched` the threads the user
acts on. A page of one entry puts a page boundary between any two threads. With
three threads due in one cycle a limit of one alert reaches the alert, the
summary and the silence after it, which a summary that is not counted would
break. An empty store makes a cycle a silent first run, so that three are due at
once when the read of `SyncStart` failed: the fault of that behaviour. Deadlock is
checked; `Begin` is always possible.

Fairness (`FairSpec`): the heartbeat starts a cycle again and again, a goroutine
that can step does, and time passes. Nothing is assumed of GitHub, of the user
or of a PATCH under way, and faults are only bounded in number.

`NoAlertLost` names the alerts the code does lose: activity that reaches GitHub
after a cycle has begun to fetch is older than the `LastSyncAt` that cycle saves,
and an entry whose row cannot be read is passed over. No document promises an
alert for these, so they are recorded in `missed`. Nor does one promise a single
alert within a cycle: `is_notified` is read in the loop and written after it, so
a thread that appears on two pages of one listing alerts twice.

## 5. Triage

`Triage.tla` follows a key press: the TUI changes its list at once
(`optimisticReadMutation`, `optimisticHandledMutation`, `optimisticBatchMutation`),
starts a command, the backend commits locally and tells GitHub, the list is read
again, and the answer replaces what the TUI shows.

* `op[k]` is the k-th change the user makes, a *scalar* (one field of one
  notification) or a *batch* (an operation on the selection), with the phase of
  its command. `Register` is `newTaskContext`, called in the command's goroutine,
  so that of two commands of one scope the later to *run* cancels the other
  (`model.go:353`), whichever key came first.
* `BatchRefused` is the first half of `ApplyNotificationBatch`: a selection above
  the limit (100, `MaxBatch`) is answered "rejected" at once, with neither
  `batchPending` nor the optimistic list. Its answer is a message like any other
  and goes through the same handler, which clears `batchPending` and the recovery
  whatever else is under way. `unlocked` is history: a refused selection has been
  answered under a batch since the TUI last had none under way.
* `queue` is the order in which the backend takes changes: in standalone mode the
  user slot of the traffic controller, in connected mode the server's sequential
  handling of a connection. `ReadBefore`, `Persist`, `MarkThreads` and `Return`
  are the calls of `AppBackend` and `MCPAdapter`: the read that serves as a
  fallback, the transaction, GitHub, and the read that follows it. `AnswerScalar`
  and `AnswerBatch` say what is made of them; `CallEnds` is a call whose context
  or connection ends, whatever becomes of the request (the engine may still carry
  it out, but what it then sends answers nobody: `Replied`); `RefuseCall` an error
  of the protocol.
* `AnswerBatch` trusts a batch's result only when `Valid` of `BatchValidation`
  does, as the adapter does.
* `req` holds the load, the reconciliation and the sync under way.
  `NotificationsLoaded`, `ReconciliationLoaded`, `MutationApplied` and
  `BatchMutationApplied` are the handlers of `update.go`; `Correlated` is the
  generation that ties a reconciliation to the recovery that asked for it.
* A fault is a failed store, GitHub or protocol call, a task answered nil in a
  lockout (`Skipped`: no message is sent), or the end of the engine
  (`EngineEnds`, after which nothing reconnects).

| Run | Instance | Shows |
| --- | --- | --- |
| `Triage` | 2 notifications, a batch of 1 at most, 2 changes (a read toggle, batches of read), one fault | the footer says what the recovery is, failed reads stay selected, the keys let one batch through at a time, but for a refused selection answered late |
| `TriageLive` | 1 change of any kind (read, handled, priority, batch), 2 faults, fair | the list comes to show the store for good, and a batch that waits for its reconciliation gets it, while the engine can be reached |
| `TriageSelection` | 1 batch, no faults | **violated**: a batch whose reads all succeed leaves the selection in place |

Bounds: two changes are enough for an answer to meet a newer optimistic change, a
second batch or a newer task of its scope, and for a refused selection to be
answered under a batch, which is why the limit is 1 of 2 notifications there. Two
batches under way at once need a third change, and a batch that fails in part a
larger limit: `TriageLive` has such batches, and the theorems of section 11 hold
for any number of changes and any limit. Of each kind of request one answer is on
its way at a time. A process may stop when the user has no change left and no heartbeat ticks, so
deadlock is not checked.

Fairness: commands run, messages are delivered, the heartbeat ticks. Keys and
faults are not assumed. `ListConverges` is stated from the first successful load
on, because the heartbeat is scheduled there and nowhere else: when the initial
load fails nothing but a key loads the list again.

Known and not claimed: after a nil answer the `syncing` flag stays set and the
sync key is dead until a poll or an error clears it; a batch whose connection
was lost never reconciles, as the adapter does not reconnect; which of two quick
toggles wins depends on the goroutines. After a refused selection has been
answered under a batch the keys take that batch for done: a second one may start
beside it, and the answer of either clears the flag and the recovery of the other.
`OneBatch` says so: until then `batchPending` tells exactly whether a batch is
under way, and there is never a second one; from then on it is still never set
without one. `FailedStaySelected` counts a failed read until the next batch is
applied, answered or refused, since each of these replaces or clears the recovery.

`BatchValidation.tla` is `NormalizeNotificationBatchRequest` and
`ValidateNotificationBatchResult` of `types/api.go`. An ID is a number, a padded one its negative, a blank one 0.

## 6. Enrichment

`EnrichmentCache.tla` models `enrichment.go`: detail callers, GraphQL batches and
independent persists (`Caller`, `Batcher`, `Editor`) around one cache, its
aliases, one singleflight group and the rows they write.

* A step is what one critical section of the cache, one singleflight call or one
  call to GitHub or SQLite does. `Remember`, `InvalidateByNodeID`,
  `InvalidateByURL` are the operations under the mutex.
* Singleflight: `Join` starts or joins a flight for a key (URL and the force
  flag), `GitHubReads` is the moment the answer is fixed, `Land` the put into
  the cache together with the hand-over to all that joined.
* All URLs name one subject, which changes at `Change`; GraphQL and REST may
  give it different node IDs. An entry's age is not kept: an entry may be within
  its TTL or beyond it whenever it is looked up, and may be pruned at any time.
* `late` and `floor` are history: whether an invalidation has passed since a
  result was read, and the newest state a node's entries were dropped for.

The run `EnrichmentCache` has two detail callers, a batch, a persist, two calls
of details and persists in all, two URLs and two node IDs, a change at GitHub.
It shows that an invalidation by node ID reaches every cached detail
(`AliasesCover`), that a stale one had been read before the invalidation and
was put in after it (`StaleNeedsAnOverlap`: this does happen, and lasts for the
TTL), and that callers of a key share one request's end (`OneFetchPerKey`). Two
callers are enough to share a flight or to overlap with one forced; symmetry is
over the callers, which are interchangeable in the specification.

## 7. The change feed

`ChangeFeed.tla` follows a signal from a commit to the client that reads again.

* `Commit` and `Publish` are two steps, because a service calls its hook after
  its transaction. `Subscribe` and `EventLoop` are the server's event loop,
  `NotifyClients` `SendNotificationToAllClients`, `Dispatch` the session's
  dispatcher. Each drops a signal when one is pending where it would put it.
* `Store`, `Write`, `Receive`, `GiveUp` are `SendRequest`; `ReadResponse`,
  `ReadSignal`, `ReadEnds`, `ClearPending` the read loop; `Close` closes the
  connection. `up` and `down` are the two directions of the socket.
* `ReadSignal` and `Arm` are `handleResourceUpdate`, `TimerFires` and
  `OnMutation` the debounced callback, `Shutdown*` the adapter's shutdown.
* A request reads the store when it is handled (`HandleMessage`) and its
  response travels behind what was written before it.
* `missed` is history: the clients whose feed has had a hole, because an event
  was published before the loop had subscribed, was not published
  (`CommitSilently`: the enrichment tool calls the enricher and not the method
  of the backend that has the hook), or because an end closed or gave up.

The client whose callback asks for the list is an MCP client that sets
`OnMutation`, as the tests do; `launchTUIMCP` leaves it unset and the connected
TUI learns of changes from its heartbeat (`Triage`).

The run `ChangeFeed` has one client, two events, two changes and a channel of
one signal instead of 100, so that it fills. It shows `NoLostWakeup` (an old
list never stands without a signal, or a read that will see the last change, on
its way), `LearnsTheLastChange`, `RequestsEnd` and `QuietAfterShutdown`. Clients
share only the engine's half, which writes each client's channel apart. Deadlock
is not checked: the engine may end. Fairness: goroutines run, a client that wants
the list asks for it, and `select` between two ready channels is strongly fair to
each (`EventLoop`). Deadlines are not assumed, so `RequestsEnd` holds without
them.

## 8. The socket

`EngineSocket.tla` models who owns the socket file and which backend a TUI ends
up with. `StatSocket` ... `Remove` are `Serve`, `handleStaleSocket` and its
deferred clean-up, one system call a step (closing a Go listener unlinks its
path, whoever's file is there, and `os.Remove` follows). `FindSocket` ...
`ResolveUser` are `runTUI`; `Fallback` is standalone, or refused with
`GH_ORBIT_REQUIRE_ENGINE=1`. An engine without the tools the TUI needs is fatal
in either mode, although `docs/ARCHITECTURE.md:39-41` speaks of a fallback.

The run `EngineSocket` has two engines (one without the tools), two TUIs (one
requires an engine), two crashes and any number of starts and stops.
`ServingIsReachable`: while no engine has removed a file it had not probed
(`stolen`, which the race of two starting engines does allow), an engine that
serves is the one at the path. `SecondAuthorityNeedsAnOutage`: a TUI has a
backend of its own only after it met no healthy engine. `Restartable`: a crash
at any point leaves nothing that stops a lone engine from serving. Deadlock is
checked. Fairness: a process that was started runs; nothing obliges one to start
or stop.

## 9. Opening the database

`DatabaseOpen.tla` models `Open` and what it calls, for several processes that
may crash at any step. A database file is an inode, because a process keeps the
file it opened after its directory is renamed away. `Look` and `Discover` come
before `Lock`, as in the code; `Checkpoint` ... `RemoveDir` are the move, one
file operation a step; `ReadVersion`, `ApplyMigration` the versioned migrations.

A fault is a crash, a failed step of the move or a failed version query.
`StepFails` is a failed step: the copy with its verification, a rename, a
removal; the move is given up and `Open` goes on (`GiveUp`). The checkpoint and
the removal of an old staging copy ignore their errors in the code. A second swap
that finds the directory made again is `SwapRefused`; one that fails otherwise
puts the backup back (`PutBack`) unless that fails too. `ReadVersion` has the error
path of `migrations.go:21-26`: whatever error the query ends with, the version is
taken to be 0. `seen` is then behind the file: migration 1 is repeated, the
version is set back to 1, and the next migration that cannot be repeated makes
this open fail, and every later one. No second process is needed for that.

The run `DatabaseOpen` has two processes, two faults, three migrations of which
the second cannot be repeated, and a legacy database at version 1. It shows that
legacy rows are lost only when a process moves over a database that appeared
after it had looked (`OnlyAStaleLookLoses`), that committed triage is lost only
to such a move or by connecting during one (`TriageLostOnlyToAMove`), and that the
version disagrees with the schema, or a migration is bound to fail, only after two
processes migrated at once (`raced`) or after a failed query was used as version 0
(`misled`), and that whoever is bound to fail holds a version older than the
file's (`OnlyRaceOrMisreadBreaksOpen`). The exceptions named are what the code
allows. Six inodes are enough: every location and connection can hold one of its
own. Deadlock is not checked: a process may be stopped for good.

## 10. Findings

| Run | Disagreement |
| --- | --- |
| `SyncStaleOverlap` | Syncs are not serialized and an upsert overwrites what is stored: the older listing's rows can end up under the newer listing's validator, which 304 answers then protect. `fetcher.go:48` promises cross-device consistency. |
| `TriageSelection` | After a batch whose remote reads all succeed the selection is left as it was, and the toast counts it as to be retried; `README.md:106` says that the unsuccessful ones remain selected. |

## 11. Proofs

Every theorem holds for all values of the constants that meet the named
assumption of its module; TLC evaluates the assumptions in each run.

`TrafficControllerProofs`, from `TrafficAssumption` (finitely many tasks,
positive capacities, `MinWorkers <= MaxWorkers`, some ample quota):

* `TypeCorrect`. `TypeOK` is not inductive: `Claim` indexes `child` by `next`, so
  a worker that is asking for a permit must have an ID left. `NextInRange` adds
  that. The steps are proved group by group: admission, supervisor, worker,
  children, quota, shutdown.

The same module then proves what holds of the queues and the user slot. A first
group of lemmas (`Shape`, `WorkerShape`, ...) reduces every action to what it does to
phases, channels and answers; the invariant `LoopInv` is then proved against the
shapes instead of thirty actions:

* `AnswersAreUnique` (`AnsweredOnce`).
* `NothingIsStranded` (`NothingStranded`): `Channels` says that a channel holds
  exactly the queued tasks of its priority, once each; `Gate` that nobody is
  between Submit's look at `done` and its select once Shutdown holds `stateMu`,
  which is why the drain leaves nothing behind.
* `UserTasksRunInOrder` (`UserOrder`): `UserFifo` makes the channel `high` the
  last user tasks accepted, `UserSlot` makes `userActive` stand for the one user
  worker there is; an earlier task has left the channel before a later one, and
  has ended before the later one began.
* `UserWorkGoesFirst` (`NoBackgroundDuringUserWork`): past its second look the
  supervisor knows that no user task is active, since only it starts them.

`TrafficBatchProofs` adds one invariant for each batch, `BatchOK`, and one for
permits:

* `BatchesFinishUnlessCancelled` (`ShortOnlyIfCancelled`) and
  `EveryIDHasOneOutcome` (`OneOutcomePerID`). `ChildrenOf` and `OutcomesOf` say
  what has been started and recorded at each point of the loop; `WaitsOf` that a
  batch with nothing in flight and IDs left stops collecting only when its
  context has ended, for which `Gate` is needed (`done` closed implies the
  context cancelled).
* `PermitsAreCounted` (`PermitAccounting`): the holders are a finite set, and a
  step takes, returns or passes on one permit (`PermitTaken`, `PermitReturned`,
  `PermitPassed`).
* `ShutdownLeavesNothing` (`StoppedIsQuiet`), from all of these.
* `ServiceIsImplemented`: `Spec => Service!Spec`, the safety half of the
  refinement. A worker's moves are moves of the abstract phase because a scalar
  task that executes goes on to its answer only (`ExecutingEnds`) and because of
  `UserSlot`; acceptance comes before the gate closes because of `Gate`.

`NotificationSyncProofs`, from `SyncAssumption` (finitely many threads, a
positive page size, natural bounds):

* `SyncTypeCorrect`, for any set of cycles. The two CHOOSEs of the model must be
  shown to choose something: `LeastNat` and `GreatestNat`, from the
  well-foundedness of the naturals, give `LatestIsFetched` and `NextEntryIsLeft`.
  `TypeOK` contains `CycleOK`, which makes it inductive.
* `SingleCycleFresh`: with one cycle at a time, `NotModifiedMeansFresh`. The
  invariant `FreshInv` adds what the new validator vouches for at each point of
  the cycle (`FreshSoFar`): the pages fetched so far, then the whole listing,
  then the store; and that validators lie in the past and only grow (`Behind`).
* `SingleCycleThrottle`: with one cycle at a time, `ThrottleBound`.
* `RepeatsAreFaults`: with one cycle at a time, `RepeatsNeedAFault`, when a cycle
  shows one alert at most (the instance of the run) or the listing fits one page
  (the code's limits, up to 100 threads). `Owed` keeps the account: the alerts
  shown for a thread exceed the faults by one at most, and by none until the
  thread is `Paid` for, that is marked, or alerted for in this cycle with nothing
  left that could alert again. `Marked` says that the mark looked at before the
  alert is still missing when it is shown, and that the marks are written before
  the save ends the cycle; `OneEntryEach`, that one page is fetched once and has
  one entry for a thread. TLC refutes the statement for two alerts a cycle and
  pages of one entry: the thread that moves to the next page, section 4.
* `AlertsAreKept`: `NoAlertLost`, for any number of cycles that overlap, which the
  run does not try. Each cycle `Tracks` each live thread: it has been alerted for,
  or its entry lies on a page still to come, among those fetched, those to look
  at or those to be marked; and what the time the cycle started from covers was
  marked before. Activity only moves other threads down the listing
  (`PositionGrows`), so no page boundary skips one; and a 304 may save a new time
  because a saved validator is no younger than its `last` (`Dated`).

  The hypothesis `Cycle = {c}` of the first two cannot be dropped:
  `SyncStaleOverlap` is the counterexample to `SingleCycleFresh`; and TLC refutes
  `ThrottleBound` with a second cycle too, since every call of `Sync` restarts
  the one counter of the alert service (`Begin`).

`EnrichmentCacheProofs`, from `EnrichmentAssumption` (the three kinds of goroutine
are disjoint, both APIs return known nodes):

* `TypeCorrect`, `EntriesAreReachable` (`AliasesCover`), `StaleOnlyByOverlap`
  (`StaleNeedsAnOverlap`). The last is not inductive: the invariant adds that
  what callers and flights hold is no older than the state their node was
  dropped for unless it is marked late (`ReadsUpToDate`), that nothing is ahead
  of GitHub (`NothingAhead`) and that a batch about to drop entries has a node
  (`BatchHasNode`). `CacheSteps` reduces every action to one of three things it
  can do to the cache: put, invalidate, forget.
* `CallersShareOneFetch` (`OneFetchPerKey`). `FlightsInv` ties the users of each
  key to the callers that wait with that key, and says that a key without a
  flight has none, or the first to join would forget them.

`ChangeFeedProofs`, from `FeedAssumption`:

* `TypeCorrect`, with `Typed`, that no more events wait than were committed.
* `NoWakeupIsLost` (`NoLostWakeup`), for any number of clients and any channel
  capacity. The invariant is `Tight(c)` for every client without a hole: its
  connection is up on both sides (`Alive`), at most one response is under way and
  only to the request that is pending (`Single`), what it will bring is no older
  than what the client shows (`Ahead`), and the wakeup itself (`Woken`). Without
  `Single` a second response could put an old list over the new one.

`EngineSocketProofs`, from `SocketAssumption`:

* `TypeCorrect`, `ServingEngineOwnsThePath` (`ServingIsReachable`),
  `FallbackHasACause` (`SecondAuthorityNeedsAnOutage`). `OneOwner` extends
  ownership to the phases before serving and on the way out; `StartsHealthy` says
  that a TUI that has noticed nothing stands before a healthy engine.

`TriageProofs`, from `TriageAssumption` and `MaxBatchAssumption`, for any set of
notifications, any number of changes and any number of faults. `TypeOK`,
`RecoveryIsShown`, `FailedStaySelected` and `OneBatch` follow from one inductive
invariant, `IInv`:

* `TypeCorrect`: no change is queued twice and none before its command runs
  (`OpOK`, `QueuedAreStarted`), or taking the head of the queue would carry out
  a change that is not under way.
* `BatchesExclude` (`OneBatch`): `OneUnderway` ties `batchPending` to exactly one
  batch whose answer the TUI has not handled, until a refused selection is
  answered under it (`unlocked`), and to at least one from then on. A batch leaves
  only with its own message, so the steps of the backend cannot disturb it
  (`Quiet`); `BatchRefusedKeeps` is the step of the refusal itself.
* `RecoveryShows` (`RecoveryIsShown`) and `FailedKept` (`FailedStaySelected`):
  `BatchAnswers` says that what reaches the handler is one of the three results,
  and uncertain exactly as its status says, and `Owing` that what is owed is
  among the selected notifications. `RestoreShows` and `ClearSelectionShows` are the two ways the
  handlers rewrite the selection.
* `ValidCoversBatch`: a result that passes validation reports on each ID of the
  request once, and every outcome it has is for an ID of the request, for requests of any length with any padding and
  repetitions. This is what `AnswerBatch` trusts.

`DatabaseOpenProofs`, from `DatabaseAssumption` (natural bounds, a legacy version
the code knows, and that the name of the legacy rows is not a process), for any
number of processes, inodes, migrations and faults:

* `TypeCorrect`. A connected process has a file (`Connected`).
* `LegacyIsSafe` (`OnlyAStaleLookLoses`). `MoveKeeps` says where the legacy rows
  are at each step of a move: in their old place until the staging copy is
  complete, in the staging copy until it is renamed, in the primary database when
  the old place is removed. It needs that a mover is alone with the lock
  (`OneMover`) and has looked (`HasLooked`).
* `TriageIsSafe` (`TriageLostOnlyToAMove`). `NoMoveSince`: once a process has
  connected outside a move nobody holds the lock and the file it has open is the
  primary one, unless a process moves on a look that was made before.
* `OpenBreaksOnlyByRaceOrMisread` (`OnlyRaceOrMisreadBreaksOpen`), from
  `VersionUnlessBroken`: until a wrong version has been used, every file's version is
  its schema, so that the next migration of a process is one the schema lacks.

Only model-checked: all liveness (`EventuallyConsistent`, `ListConverges`,
`UncertaintyEnds`, `LearnsTheLastChange`, `RequestsEnd`, `Restartable`,
`ShutdownReturns`) and the liveness half of `ImplementsTaskService`, since
fairness is out of the prover's reach. Every invariant of a passing run is a
theorem, three of the sync cycle under the hypotheses named above.

## 12. Not modelled

* The native application (Swift): engine ownership and review workspaces. Two of
  its hazards are listed in `PROJECT.json` without a property.
* What `PROJECT.json` lists as not modelled: HTTP helpers, the triage
  classification, notifiers, configuration, logging, rendering, peer
  verification, generated mocks.
* Traffic controller: logging, the test hook `submitBeforeLockHook`, times.
* Sync: the repair of a corrupted ETag, the contents of a row, the choice of the
  notifier tier, the importance of an alert, the quota a sync returns (that is
  `BeginReport` of the traffic controller).
* TUI: tabs, filters, the detail view, focus, toasts, the schedule of
  enrichment. A tab, a filter or the detail view is `LeaveSelection`.
* Backend and MCP: the bound user ID, the bridge status, the arguments of the
  tools, fetching a detail over the socket.
* Database: pragmas, file modes, the SQL of a migration.
* Known disagreements that are no run: a database opened by two processes at once,
  or after a version query that failed, can have a version that is behind its
  schema (`VersionIsSchema`, part of `OnlyRaceOrMisreadBreaksOpen`); the worker
  limit and the quota of different reports; `batchPending` after the late answer
  to a refused selection (section 5).
