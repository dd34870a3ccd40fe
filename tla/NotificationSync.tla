--------------------------- MODULE NotificationSync ---------------------------
(***************************************************************************)
(* The notification sync cycle: internal/api/sync.go with the fetcher      *)
(* (internal/github/fetcher.go), the alert service (internal/api/alert.go) *)
(* and the rows it keeps in SQLite (internal/db/repository.go).            *)
(*                                                                         *)
(* GitHub holds the user's threads.  Threads receive activity and are read *)
(* on other devices; this device reads them locally and then on GitHub.  A *)
(* cycle reads the stored sync metadata, fetches the listing page by page  *)
(* with the validator it kept, upserts the entries in one transaction,     *)
(* alerts for the new ones, marks those notified, and saves the metadata.  *)
(* Nothing serializes two cycles: the poll tick, a manual refresh and the  *)
(* sync tool of each connected client may run one each.                    *)
(*                                                                         *)
(* One action is one call to GitHub, to SQLite or to the notifier.  Every  *)
(* event at GitHub gets a stamp of its own, so that a stamp is both an     *)
(* updated_at time and the version of the listing it produced.             *)
(***************************************************************************)
EXTENDS Integers, FiniteSets

CONSTANTS
  Thread,       \* notification threads
  Cycle,        \* sync cycles that may be under way at the same time
  Wanted,       \* threads whose reason passes the configured filter
  Touched,      \* bound: threads the user reads and unreads on this device
  PageSize,     \* entries in a page of the listing (100 in the code)
  AlertLimit,   \* alerts before the summary (5 in the code)
  MaxTime,      \* bound: stamp of the last event at GitHub
  MaxFaults     \* bound: failed calls and crashes in a behaviour

ASSUME SyncAssumption ==
  /\ IsFiniteSet(Thread) /\ Cycle # {}
  /\ Wanted \subseteq Thread /\ Touched \subseteq Thread
  /\ PageSize \in Nat \ {0} /\ AlertLimit \in Nat
  /\ MaxTime \in Nat \ {0} /\ MaxFaults \in Nat

VARIABLES
  now,          \* stamp of the latest event at GitHub; the listing's version
  updated,      \* GitHub: stamp of the thread's last activity, 0 if none yet
  unread,       \* GitHub: the thread is unread
  stored,       \* store: updated_at of the thread's row, 0 if there is none
  read,         \* store: is_read_locally
  notified,     \* store: is_notified
  meta,         \* store: the row of sync_meta
  recent,       \* the poll interval has not passed since meta.last
  localOnly,    \* threads whose last read or unread exists on this device only
  patching,     \* threads whose MarkThreadAsRead call is under way
  silent,       \* alert service: isInitializing
  count,        \* alert service: syncAlertCount
  cycle,        \* the local variables of each running Sync
  shown,        \* history: alerts the user saw for each thread
  missed,       \* history: threads whose last activity came after a cycle had
                \* begun to fetch, or was passed over because of a failed read
  faults        \* failed calls and crashes so far

github == <<now, updated, unread>>
store == <<stored, read, notified, meta, recent>>
local == <<localOnly, patching>>
alerts == <<silent, count>>
history == <<shown, missed>>
vars == <<github, store, local, alerts, cycle, history, faults>>

Stamp == 0..MaxTime
Meta == [validator : Stamp, last : Stamp]
Entry == [page : Nat \ {0}, id : Thread, updated : Stamp, unread : BOOLEAN]
Phase == {"idle", "meta", "fetch", "upsert", "check", "notify", "save"}
CycleState == [pc : Phase, force : BOOLEAN, meta : Meta, fresh : Meta, page : Nat \ {0},
               got : SUBSET Entry, todo : SUBSET Entry, ids : SUBSET Thread, sent : Nat]

NoMeta == [validator |-> 0, last |-> 0]
Idle == [pc |-> "idle", force |-> FALSE, meta |-> NoMeta, fresh |-> NoMeta,
         page |-> 1, got |-> {}, todo |-> {}, ids |-> {}, sent |-> 0]

\* A cycle that has been answered the first page of the listing.
PastFetch(c) == \/ cycle[c].pc \in Phase \ {"idle", "meta", "fetch"}
                \/ cycle[c].pc = "fetch" /\ cycle[c].page > 1

Fault == faults < MaxFaults /\ faults' = faults + 1
NoFault == UNCHANGED faults

Init ==
  /\ now = 1
  /\ updated = [t \in Thread |-> 0] /\ unread = [t \in Thread |-> FALSE]
  /\ stored = [t \in Thread |-> 0] /\ read = [t \in Thread |-> FALSE]
  /\ notified = [t \in Thread |-> FALSE]
  /\ meta = NoMeta /\ recent = FALSE
  /\ localOnly = {} /\ patching = {}
  /\ silent = FALSE /\ count = 0
  /\ cycle = [c \in Cycle |-> Idle]
  /\ shown = [t \in Thread |-> 0] /\ missed = {}
  /\ faults = 0

(***************************************************************************)
(* GitHub and the other devices of the user.                               *)
(***************************************************************************)
Activity(t) ==
  /\ now < MaxTime
  /\ now' = now + 1
  /\ updated' = [updated EXCEPT ![t] = now'] /\ unread' = [unread EXCEPT ![t] = TRUE]
  /\ missed' = IF \E c \in Cycle : PastFetch(c) THEN missed \cup {t} ELSE missed \ {t}
  /\ UNCHANGED <<store, local, alerts, cycle, shown, faults>>

ReadElsewhere(t) ==
  /\ now < MaxTime /\ unread[t]
  /\ now' = now + 1 /\ unread' = [unread EXCEPT ![t] = FALSE]
  /\ UNCHANGED <<updated, store, local, alerts, cycle, history, faults>>

\* Most recent activity first, PageSize entries to a page.
Listed == {t \in Thread : updated[t] # 0}
Position(t) == Cardinality({u \in Listed : updated[u] > updated[t]})
OnPage(n) == {t \in Listed : (n - 1) * PageSize <= Position(t) /\ Position(t) < n * PageSize}
Page(n) == {[page |-> n, id |-> t, updated |-> updated[t], unread |-> unread[t]] : t \in OnPage(n)}
HasNext(n) == Cardinality(Listed) > n * PageSize

(***************************************************************************)
(* The user reads and unreads on this device.  The row is written first;   *)
(* only a read is sent to GitHub, and a failure there leaves the row.      *)
(***************************************************************************)
MarkRead(t) ==
  /\ t \in Touched /\ stored[t] # 0
  /\ read' = [read EXCEPT ![t] = TRUE]
  /\ localOnly' = localOnly \cup {t} /\ patching' = patching \cup {t}
  /\ UNCHANGED <<github, stored, notified, meta, recent, alerts, cycle, history, faults>>

MarkUnread(t) ==
  /\ t \in Touched /\ stored[t] # 0
  /\ read' = [read EXCEPT ![t] = FALSE]
  /\ localOnly' = localOnly \cup {t}
  /\ UNCHANGED <<github, stored, notified, meta, recent, patching, alerts, cycle,
                 history, faults>>

PatchDone(t) ==
  /\ t \in patching /\ (unread[t] => now < MaxTime)
  /\ patching' = patching \ {t}
  /\ unread' = [unread EXCEPT ![t] = FALSE]
  /\ now' = IF unread[t] THEN now + 1 ELSE now
  /\ localOnly' = IF read[t] THEN localOnly \ {t} ELSE localOnly
  /\ UNCHANGED <<updated, store, alerts, cycle, history, faults>>

PatchFails(t) ==
  /\ t \in patching /\ Fault
  /\ patching' = patching \ {t}
  /\ UNCHANGED <<github, store, localOnly, alerts, cycle, history>>

(***************************************************************************)
(* A cycle.                                                                *)
(***************************************************************************)
ReturnKeepingLocals(c) ==  \* mutant: the locals of a cycle survive it
  cycle' = [cycle EXCEPT ![c].pc = "idle"]
Return(c) == cycle' = [cycle EXCEPT ![c] = Idle]

\* SyncStart: the throttle restarts, and an empty store means a first run.  If
\* the store cannot be read the run does not count as a first one.
Begin(c, force) ==
  /\ cycle[c].pc = "idle"
  /\ count' = 0
  /\ \/ silent' = (\A t \in Thread : stored[t] = 0) /\ NoFault
     \/ silent' = FALSE /\ Fault
  /\ cycle' = [cycle EXCEPT ![c].pc = "meta", ![c].force = force]
  /\ UNCHANGED <<github, store, local, history>>

\* initSyncMeta and shouldSkipPoll.
ReadMeta(c) ==
  /\ cycle[c].pc = "meta" /\ (recent => cycle[c].force)
  /\ cycle' = [cycle EXCEPT ![c].pc = "fetch", ![c].meta = meta, ![c].fresh = meta]
  /\ UNCHANGED <<github, store, local, alerts, history, faults>>

SkipPoll(c) ==
  /\ cycle[c].pc = "meta" /\ recent /\ ~cycle[c].force
  /\ Return(c)
  /\ UNCHANGED <<github, store, local, alerts, history, faults>>

\* The listing is still the version whose validator was kept.
NotModified(c) ==
  /\ cycle[c].pc = "fetch" /\ ~cycle[c].force /\ cycle[c].meta.validator = now
  /\ cycle' = [cycle EXCEPT ![c].pc = "save", ![c].got = {}]
  /\ UNCHANGED <<github, store, local, alerts, history, faults>>

CheckpointEveryPage(fresh, n) ==  \* mutant: the validator of the last page
  [fresh EXCEPT !.validator = now]

\* The metadata to save after the answer to the request for page n.
Checkpoint(fresh, n) == IF n = 1 THEN [fresh EXCEPT !.validator = now] ELSE fresh

FetchPage(c) ==
  LET n == cycle[c].page
      entries == cycle[c].got \cup Page(n)
  IN /\ cycle[c].pc = "fetch" /\ (cycle[c].force \/ cycle[c].meta.validator # now)
     /\ cycle' = [cycle EXCEPT
          ![c].got = entries, ![c].fresh = Checkpoint(@, n), ![c].page = n + 1,
          ![c].pc = IF HasNext(n) THEN "fetch" ELSE IF entries = {} THEN "save" ELSE "upsert"]
     /\ UNCHANGED <<github, store, local, alerts, history, faults>>

FetchFailsAsSync(c) ==  \* mutant: a failed fetch counts as a sync
  /\ cycle[c].pc = "fetch" /\ Fault
  /\ meta' = [cycle[c].meta EXCEPT !.last = now] /\ recent' = TRUE
  /\ Return(c)
  /\ UNCHANGED <<github, stored, read, notified, local, alerts, history>>

FetchFailsSavingFresh(c) ==  \* mutant: the validator of the pages that came is saved
  /\ cycle[c].pc = "fetch" /\ Fault
  /\ meta' = cycle[c].fresh /\ recent' \in {recent, FALSE}
  /\ Return(c)
  /\ UNCHANGED <<github, stored, read, notified, local, alerts, history>>

\* A failed request ends the cycle; the metadata read at its start is written
\* back with the error (the poll interval is measured from the time it holds).
FetchFails(c) ==
  /\ cycle[c].pc = "fetch" /\ Fault
  /\ \/ meta' = cycle[c].meta /\ recent' \in {recent, FALSE}
     \/ UNCHANGED <<meta, recent>>
  /\ Return(c)
  /\ UNCHANGED <<github, stored, read, notified, local, alerts, history>>

\* Entries are written in the order they were fetched: the last one of a thread wins.
Latest(got, t) == CHOOSE e \in got : e.id = t /\ \A f \in got : f.id = t => f.page <= e.page
IDs(got) == {e.id : e \in got}

\* UpsertNotifications: one transaction; GitHub's read state replaces the row's.
Upsert(c) ==
  LET got == cycle[c].got
  IN /\ cycle[c].pc = "upsert"
     /\ stored' = [t \in Thread |-> IF t \in IDs(got) THEN Latest(got, t).updated ELSE stored[t]]
     /\ read' = [t \in Thread |-> IF t \in IDs(got) THEN ~Latest(got, t).unread ELSE read[t]]
     /\ localOnly' = localOnly \ IDs(got)
     /\ cycle' = [cycle EXCEPT ![c].pc = "check", ![c].todo = got]
     /\ UNCHANGED <<github, notified, meta, recent, patching, alerts, history, faults>>

\* triggerAlerts takes the entries in the order of the listing.
NextEntry(c) ==
  CHOOSE e \in cycle[c].todo : \A f \in cycle[c].todo :
    e.page < f.page \/ (e.page = f.page /\ e.updated >= f.updated)

DueAgain(e, since) ==  \* mutant: the notified mark is not looked at
  e.unread /\ e.updated > since

\* shouldTriggerAlert.
Due(e, since) == e.unread /\ ~notified[e.id] /\ e.updated > since

Check(c) ==
  LET e == NextEntry(c)
  IN /\ cycle[c].pc = "check" /\ cycle[c].todo # {}
     /\ cycle' = IF Due(e, cycle[c].meta.last)
                   THEN [cycle EXCEPT ![c].pc = "notify"]
                   ELSE [cycle EXCEPT ![c].todo = @ \ {e}]
     /\ UNCHANGED <<github, store, local, alerts, history, faults>>

\* The row cannot be read: the entry is passed over.
CheckFails(c) ==
  /\ cycle[c].pc = "check" /\ cycle[c].todo # {} /\ NextEntry(c).unread /\ Fault
  /\ cycle' = [cycle EXCEPT ![c].todo = @ \ {NextEntry(c)}]
  /\ missed' = missed \cup {NextEntry(c).id}
  /\ UNCHANGED <<github, store, local, alerts, shown>>

\* The entry counts as notified whatever became of its alert.
Noted(c, e, k) == [cycle EXCEPT ![c].pc = "check", ![c].todo = @ \ {e},
                                ![c].ids = @ \cup {e.id}, ![c].sent = @ + k]
Muted(t) == silent \/ t \notin Wanted \/ count > AlertLimit

NotifyMuted(c) ==
  LET e == NextEntry(c)
  IN /\ cycle[c].pc = "notify" /\ Muted(e.id)
     /\ cycle' = Noted(c, e, 0)
     /\ UNCHANGED <<github, store, local, alerts, history, faults>>

NotifyAlert(c) ==
  LET e == NextEntry(c)
  IN /\ cycle[c].pc = "notify" /\ ~Muted(e.id) /\ count < AlertLimit
     /\ \/ /\ count' = count + 1 /\ shown' = [shown EXCEPT ![e.id] = @ + 1]
           /\ cycle' = Noted(c, e, 1) /\ NoFault
        \/ /\ Fault /\ cycle' = Noted(c, e, 0) /\ UNCHANGED <<count, shown>>
     /\ UNCHANGED <<github, store, local, silent, missed>>

NotifySummaryUncounted(c) ==  \* mutant: the summary does not count
  LET e == NextEntry(c)
  IN /\ cycle[c].pc = "notify" /\ ~Muted(e.id) /\ count = AlertLimit
     /\ \/ cycle' = Noted(c, e, 1) /\ NoFault
        \/ Fault /\ cycle' = Noted(c, e, 0)
     /\ UNCHANGED <<github, store, local, alerts, history>>

\* The summary counts before it is sent, so that it is tried once.
NotifySummary(c) ==
  LET e == NextEntry(c)
  IN /\ cycle[c].pc = "notify" /\ ~Muted(e.id) /\ count = AlertLimit
     /\ count' = count + 1
     /\ \/ cycle' = Noted(c, e, 1) /\ NoFault
        \/ Fault /\ cycle' = Noted(c, e, 0)
     /\ UNCHANGED <<github, store, local, silent, history>>

\* MarkNotifiedBatch, one transaction.
Mark(c) ==
  /\ cycle[c].pc = "check" /\ cycle[c].todo = {}
  /\ notified' = [t \in Thread |-> notified[t] \/ t \in cycle[c].ids]
  /\ cycle' = [cycle EXCEPT ![c].pc = "save"]
  /\ UNCHANGED <<github, stored, read, meta, recent, local, alerts, history, faults>>

\* UpdateSyncMeta at the end of the cycle: the time is that of the save.
Save(c) ==
  /\ cycle[c].pc = "save"
  /\ meta' = [cycle[c].fresh EXCEPT !.last = now] /\ recent' = TRUE
  /\ Return(c)
  /\ UNCHANGED <<github, stored, read, notified, local, alerts, history, faults>>

\* GetSyncMeta, UpsertNotifications, MarkNotifiedBatch or UpdateSyncMeta fails.
StoreFails(c) ==
  /\ \/ cycle[c].pc \in {"meta", "upsert", "save"}
     \/ cycle[c].pc = "check" /\ cycle[c].todo = {} /\ cycle[c].ids # {}
  /\ Fault /\ Return(c)
  /\ UNCHANGED <<github, store, local, alerts, history>>

TimePasses ==
  /\ recent /\ recent' = FALSE
  /\ UNCHANGED <<github, stored, read, notified, meta, local, alerts, cycle, history, faults>>

Crash ==
  /\ Fault
  /\ cycle' = [c \in Cycle |-> Idle]
  /\ patching' = {} /\ silent' = FALSE /\ count' = 0
  /\ UNCHANGED <<github, store, localOnly, history>>

Step(c) ==
  \/ ReadMeta(c) \/ SkipPoll(c) \/ NotModified(c) \/ FetchPage(c) \/ FetchFails(c)
  \/ Upsert(c) \/ Check(c) \/ CheckFails(c)
  \/ NotifyMuted(c) \/ NotifyAlert(c) \/ NotifySummary(c)
  \/ Mark(c) \/ Save(c) \/ StoreFails(c)

Environment(t) ==
  Activity(t) \/ ReadElsewhere(t) \/ MarkRead(t) \/ MarkUnread(t) \/ PatchDone(t) \/ PatchFails(t)

Next ==
  \/ \E t \in Thread : Environment(t)
  \/ \E c \in Cycle, force \in BOOLEAN : Begin(c, force)
  \/ \E c \in Cycle : Step(c)
  \/ TimePasses
  \/ Crash

\* The heartbeat starts cycles for as long as the program runs and goroutines
\* are scheduled; nothing is assumed of GitHub, the user or the faults.
Fairness ==
  /\ WF_vars(TimePasses)
  /\ \A c \in Cycle : WF_vars(Begin(c, FALSE) \/ Step(c))

Spec == Init /\ [][Next]_vars
FairSpec == Spec /\ Fairness

(***************************************************************************)
(* Properties.                                                             *)
(***************************************************************************)
\* What a cycle has fetched, still has to look at, and has alerted for.
CycleOK(k) ==
  /\ \A e \in k.got : e.page < k.page
  /\ k.todo \subseteq k.got /\ k.ids \subseteq IDs(k.got)
  /\ k.pc \in {"idle", "meta", "fetch", "upsert"} => k.todo = {} /\ k.ids = {}
  /\ k.pc = "notify" => k.todo # {}

TypeOK ==
  /\ now \in Stamp /\ updated \in [Thread -> Stamp] /\ unread \in [Thread -> BOOLEAN]
  /\ stored \in [Thread -> Stamp] /\ read \in [Thread -> BOOLEAN]
  /\ notified \in [Thread -> BOOLEAN] /\ meta \in Meta /\ recent \in BOOLEAN
  /\ localOnly \subseteq Thread /\ patching \subseteq Thread
  /\ silent \in BOOLEAN /\ count \in 0..(AlertLimit + 1)
  /\ cycle \in [Cycle -> CycleState] /\ \A c \in Cycle : CycleOK(cycle[c])
  /\ shown \in [Thread -> Nat] /\ missed \subseteq Thread
  /\ faults \in 0..MaxFaults

\* The row of a thread agrees with GitHub, but for a read state this device alone has.
Agrees(t) == /\ stored[t] = updated[t]
             /\ updated[t] # 0 => read[t] = ~unread[t] \/ t \in localOnly

\* While the validator kept in the store is the listing's, every conditional
\* request is answered 304 and nothing is fetched: the store must then hold the
\* whole listing.  (The validator is that of the first page, while later pages
\* are read after it; it is saved only when everything else was.)
NotModifiedMeansFresh == meta.validator = now => \A t \in Thread : Agrees(t)

\* An unread thread whose activity a completed cycle has covered has been alerted
\* for: the baseline time skips no one but the threads whose activity came after
\* the cycle had begun to fetch, and those whose row could not be read.
NoAlertLost ==
  \A t \in Thread : unread[t] /\ t \notin missed /\ meta.last >= updated[t] => notified[t]

\* A later cycle alerts again for a thread only when a call failed or the program
\* crashed between an alert and its mark: one cycle at a time, of one alert each or
\* one page (a thread that moved to the next page is alerted for twice in a cycle).
RepeatsNeedAFault == \A t \in Thread : shown[t] <= 1 + faults

\* A cycle shows at most AlertLimit alerts and one summary, whichever of them fail.
ThrottleBound == \A c \in Cycle : cycle[c].sent <= AlertLimit + 1

\* Once GitHub is quiet the store comes to agree with it and stays so: no failure,
\* crash or stale upsert leaves a row behind a validator that hides it.
EventuallyConsistent == <>[](\A t \in Thread : Agrees(t))
=============================================================================
