-------------------------------- MODULE Triage --------------------------------
(* The path of a triage key press: the TUI changes its list at once and starts a
   command (internal/tui), which calls the backend in its own process (standalone,
   internal/api/tui_backend.go) or an engine over the socket (connected,
   internal/engine/adapter.go and mcp.go); the local store commits, GitHub is told,
   and the answer replaces the list.  Loads, reconciliations of a batch and syncs
   run beside it, and their messages reach the TUI in any order. *)
EXTENDS BatchValidation

CONSTANTS ID,             \* notifications: positive integers, as in BatchValidation
          Target,         \* <<field, ID>> pairs the user changes one by one
          BatchOperation, \* operations the user applies to a selection
          MaxKeys,        \* bound on changes the user makes
          MaxFailures,    \* bound on failures of the store, of GitHub, of the engine
          Nothing         \* no list: a read that failed

Field == {"read", "handled", "priority"}

ASSUME TriageAssumption ==
    /\ ID \subseteq Nat \ {0} /\ ID # {} /\ Target \subseteq Field \X ID
    /\ BatchOperation \subseteq Operation /\ MaxKeys \in Nat /\ MaxFailures \in Nat

VARIABLES connected, conn, failures,  \* the mode; the engine can be reached; faults so far
          store, github,              \* local state per field; threads read on GitHub
          op, queue,                  \* the user's changes; backend tasks in their order
          req,                        \* the load, the reconciliation and the sync under way
          list, selecting, selected,  \* what the TUI shows
          batchPending, recovery, recoverySeq, uncertain, refreshPending,
          syncing, started,           \* a sync is shown; the heartbeat ticks
          owed, unlocked              \* history: failed remote reads not dealt with; a refused
                                      \* selection's answer has come while a batch was under way

backend == <<connected, conn, store, github>>
batchState == <<batchPending, recovery, recoverySeq, uncertain, refreshPending>>
history == <<owed, unlocked>>
selection == <<selecting, selected, history>>
vars == <<connected, conn, failures, store, github, op, queue, req, list, selecting, selected,
          batchPending, recovery, recoverySeq, uncertain, refreshPending, syncing, started, owed, unlocked>>

Key == 1 .. MaxKeys
Snapshot == [Field -> SUBSET ID]
Status == {"rejected", "committed", "unknown"}

FieldOf(o) == IF o \in {"read", "unread"} THEN "read" ELSE "handled"
ValueOf(o) == o \in {"read", "handled"}

(* withReadState, withHandledState, withPriority, the fallbacks of a batch and
   their counterparts in the adapter; of no list they make no list. *)
Put(snapshot, f, ids, v) ==
    IF snapshot = Nothing THEN Nothing
    ELSE [snapshot EXCEPT ![f] = IF v THEN @ \cup ids ELSE @ \ ids]

NoOp == [kind |-> "none", field |-> "read", ids |-> {}, value |-> FALSE, phase |-> "gone",
         call |-> "none", cancelled |-> FALSE, before |-> Nothing, base |-> Nothing,
         reply |-> "none", failed |-> {}, snap |-> Nothing, pending |-> FALSE]
NoRecovery == [status |-> "none", retry |-> {}, awaiting |-> FALSE, gen |-> 0]
NoReq == [phase |-> "none", snap |-> Nothing, initial |-> FALSE, gen |-> 0]

Maybe == Snapshot \cup {Nothing}
Phase == {"unused", "created", "registered", "calling", "answered", "gone"}
Change == [kind : {"none", "scalar", "batch", "refused"}, field : Field, ids : SUBSET ID, value : BOOLEAN,
           phase : Phase, call : {"none", "queued", "persisted", "finished"},
           cancelled : BOOLEAN, before : Maybe, base : Maybe,
           reply : {"none", "ok", "remote", "local", "error"} \cup Status,
           failed : SUBSET ID, snap : Maybe, pending : BOOLEAN]
Request == [phase : {"none", "asked", "answered"}, snap : Maybe, initial : BOOLEAN, gen : Nat]
Recovery == [status : Status \cup {"none"}, retry : SUBSET ID, awaiting : BOOLEAN, gen : Nat]

TypeOK ==
    /\ connected \in BOOLEAN /\ conn \in BOOLEAN /\ failures \in 0 .. MaxFailures
    /\ store \in Snapshot /\ github \subseteq ID
    /\ op \in [Key -> Change] /\ \A k \in Key : op[k].failed \subseteq op[k].ids
    /\ queue \in Seq(Key) /\ \A i, j \in 1 .. Len(queue) : queue[i] = queue[j] => i = j
    /\ req \in [{"load", "recon", "sync"} -> Request]
    /\ list \in Maybe
    /\ selecting \in BOOLEAN /\ selected \subseteq ID
    /\ selected # {} => selecting
    /\ batchPending \in BOOLEAN
    /\ recovery \in Recovery /\ recoverySeq \in Nat /\ recovery.gen <= recoverySeq
    /\ uncertain \in BOOLEAN /\ refreshPending \in BOOLEAN
    /\ syncing \in BOOLEAN /\ started \in BOOLEAN
    /\ owed \subseteq ID /\ unlocked \in BOOLEAN

Init ==
    /\ connected \in BOOLEAN /\ conn = TRUE /\ failures = 0
    /\ store = [f \in Field |-> {}] /\ github = {}
    /\ op = [k \in Key |-> [NoOp EXCEPT !.phase = "unused"]] /\ queue = <<>>
    /\ req = [kind \in {"load", "recon", "sync"} |->
                IF kind = "load" THEN [NoReq EXCEPT !.phase = "asked", !.initial = TRUE] ELSE NoReq]
    /\ list = Nothing /\ selecting = FALSE /\ selected = {}
    /\ batchPending = FALSE /\ recovery = NoRecovery /\ recoverySeq = 0
    /\ uncertain = FALSE /\ refreshPending = FALSE
    /\ syncing = FALSE /\ started = FALSE /\ owed = {} /\ unlocked = FALSE

Fault == failures < MaxFailures /\ failures' = failures + 1
NoFault == UNCHANGED failures

-----------------------------------------------------------------------------
(* Keys *)

Fresh(k) == op[k].phase = "unused" /\ \A j \in Key : j < k => op[j].phase # "unused"

(* The read and handled keys change the list at once, the priority keys do not. *)
Toggle(k, f, id) ==
    /\ Fresh(k) /\ ~selecting /\ list # Nothing
    /\ op' = [op EXCEPT ![k] = [NoOp EXCEPT !.kind = "scalar", !.field = f, !.ids = {id},
                                            !.value = id \notin list[f], !.phase = "created",
                                            !.before = IF f = "handled" THEN list ELSE Nothing]]
    /\ list' = IF f = "priority" THEN list ELSE Put(list, f, {id}, id \notin list[f])
    /\ UNCHANGED <<backend, failures, queue, req, selection, batchState, syncing, started>>

(* clearBatchRecovery *)
ClearRecovery ==
    /\ recovery' = NoRecovery /\ uncertain' = FALSE /\ refreshPending' = FALSE

ClearSelectionKeepingMarks ==  \* mutant: the map of selected IDs is not cleared
    /\ selecting' = FALSE /\ UNCHANGED selected
    /\ IF batchPending THEN UNCHANGED <<recovery, uncertain, refreshPending>> ELSE ClearRecovery

ClearSelection ==
    /\ selecting' = FALSE /\ selected' = {}
    /\ IF batchPending THEN UNCHANGED <<recovery, uncertain, refreshPending>> ELSE ClearRecovery

EnterSelection ==
    /\ ~batchPending /\ ~selecting
    /\ selecting' = TRUE
    /\ UNCHANGED <<backend, failures, op, queue, req, list, selected, history, batchState, syncing, started>>

(* The selection key again, the back key; a tab, a filter, the detail view.
   Only the text of the list's own filter changes while a batch is pending. *)
LeaveSelection ==
    /\ selecting
    /\ ClearSelection /\ owed' = {}
    /\ UNCHANGED <<backend, failures, op, queue, req, list, batchPending, recoverySeq, syncing, started, unlocked>>

SelectOnly(id) ==  \* mutant: syncBatchRecoveryRetryIDs is not called
    /\ selecting /\ ~batchPending /\ list # Nothing
    /\ selected' = IF id \in selected THEN selected \ {id} ELSE selected \cup {id}
    /\ owed' = owed \ {id}
    /\ UNCHANGED <<backend, failures, op, queue, req, list, selecting, batchState, syncing, started, unlocked>>

(* A recovery follows the selection, and ends with it. *)
Select(id) ==
    /\ selecting /\ ~batchPending /\ list # Nothing
    /\ selected' = IF id \in selected THEN selected \ {id} ELSE selected \cup {id}
    /\ owed' = owed \ {id}
    /\ IF recovery = NoRecovery THEN UNCHANGED <<recovery, uncertain, refreshPending>>
       ELSE IF selected' = {} /\ recovery.status = "committed" /\ ~recovery.awaiting
       THEN ClearRecovery
       ELSE recovery' = [recovery EXCEPT !.retry = selected'] /\ UNCHANGED <<uncertain, refreshPending>>
    /\ UNCHANGED <<backend, failures, op, queue, req, list, selecting, batchPending, recoverySeq, syncing, started, unlocked>>

Applied(k, o) ==
    /\ op' = [op EXCEPT ![k] = [NoOp EXCEPT !.kind = "batch", !.field = FieldOf(o), !.ids = selected,
                                            !.value = ValueOf(o), !.phase = "created", !.before = list]]
    /\ list' = Put(list, FieldOf(o), selected, ValueOf(o))
    /\ batchPending' = TRUE /\ owed' = {} /\ ClearRecovery
    /\ UNCHANGED <<backend, failures, queue, req, selecting, selected, recoverySeq, syncing, started, unlocked>>

Small == Cardinality(selected) \in 1 .. MaxBatch  \* NormalizeNotificationBatchRequest

BatchAgain(k, o) ==  \* mutant: the keys do not look at batchPending
    /\ Fresh(k) /\ selecting /\ Small
    /\ Applied(k, o)

Batch(k, o) ==
    /\ Fresh(k) /\ selecting /\ ~batchPending /\ Small
    /\ Applied(k, o)

(* A selection of more than MaxBatch is answered at once, with no batch pending
   until the answer comes: the user may apply another one before it does. *)
BatchRefused(k) ==
    /\ Fresh(k) /\ selecting /\ ~batchPending /\ Cardinality(selected) > MaxBatch
    /\ op' = [op EXCEPT ![k] = [NoOp EXCEPT !.kind = "refused", !.phase = "answered",
                                            !.before = list, !.reply = "rejected"]]
    /\ UNCHANGED <<backend, failures, queue, req, list, selection, batchState, syncing, started>>

-----------------------------------------------------------------------------
(* Requests of the TUI: a newer one of the same kind cancels one that is not
   answered.  Bound: of each kind one answer is on its way at a time. *)

Free(kind) == req[kind].phase # "answered"
Ask(kind, gen) == [NoReq EXCEPT !.phase = "asked", !.gen = gen]

Poll ==
    /\ started
    /\ syncing' = TRUE
    /\ req' = [req EXCEPT !["sync"] = Ask("sync", 0)]
    /\ UNCHANGED <<backend, failures, op, queue, list, selection, batchState, started>>

SyncKey ==
    /\ ~selecting /\ ~syncing
    /\ syncing' = TRUE
    /\ req' = [req EXCEPT !["sync"] = Ask("sync", 0)]
    /\ UNCHANGED <<backend, failures, op, queue, list, selection, batchState, started>>

Answered(kind) ==
    /\ req[kind].phase = "asked"
    /\ \/ /\ connected => conn
          /\ req' = [req EXCEPT ![kind].phase = "answered", ![kind].snap = store]
          /\ NoFault
       \/ /\ req' = [req EXCEPT ![kind].phase = "answered"]
          /\ IF connected /\ ~conn THEN NoFault ELSE Fault
    /\ UNCHANGED <<backend, op, queue, list, selection, batchState, syncing, started>>

(* During a lockout the controller answers nil, and no message is sent. *)
Skipped(kind) ==
    /\ ~connected /\ req[kind].phase = "asked" /\ Fault
    /\ req' = [req EXCEPT ![kind] = NoReq]
    /\ UNCHANGED <<backend, op, queue, list, selection, batchState, syncing, started>>

(* ErrMsg: whatever failed, the TUI shows no sync any more. *)
DeliverError(kind) ==
    /\ req[kind].phase = "answered" /\ req[kind].snap = Nothing
    /\ req' = [req EXCEPT ![kind] = NoReq]
    /\ syncing' = FALSE
    /\ UNCHANGED <<backend, failures, op, queue, list, selection, batchState, started>>

SyncCompleteOnly ==  \* mutant: the list is not loaded again
    /\ req["sync"].phase = "asked" /\ (connected => conn) /\ Free("load")
    /\ req' = [req EXCEPT !["sync"] = NoReq]
    /\ syncing' = FALSE
    /\ UNCHANGED <<backend, failures, op, queue, list, selection, batchState, started>>

(* A sync ends; its message holds no list.  What it stores is the subject of
   NotificationSync. *)
SyncComplete ==
    /\ req["sync"].phase = "asked" /\ (connected => conn) /\ Free("load")
    /\ req' = [req EXCEPT !["sync"] = NoReq, !["load"] = Ask("load", 0)]
    /\ syncing' = FALSE
    /\ UNCHANGED <<backend, failures, op, queue, list, selection, batchState, started>>

SyncFails ==
    /\ req["sync"].phase = "asked"
    /\ IF connected /\ ~conn THEN NoFault ELSE Fault
    /\ req' = [req EXCEPT !["sync"] = NoReq]
    /\ syncing' = FALSE
    /\ UNCHANGED <<backend, op, queue, list, selection, batchState, started>>

RestoreSelection(r) ==
    /\ selected' = r.retry /\ selecting' = (r.retry # {})

NotificationsLoadedClearing ==  \* mutant: a load ends every selection
    /\ req["load"].phase = "answered" /\ req["load"].snap # Nothing
    /\ list' = req["load"].snap
    /\ started' = (started \/ req["load"].initial)
    /\ selecting' = FALSE /\ selected' = {}
    /\ req' = [req EXCEPT !["load"] = NoReq]
    /\ UNCHANGED <<backend, failures, op, queue, batchState, syncing, history>>

NotificationsLoadedOnce ==  \* mutant: the reconciliation is not asked again
    /\ req["load"].phase = "answered" /\ req["load"].snap # Nothing
    /\ list' = req["load"].snap
    /\ started' = (started \/ req["load"].initial)
    /\ IF recovery # NoRecovery
       THEN RestoreSelection(recovery) /\ UNCHANGED <<recovery, uncertain, refreshPending>>
       ELSE IF batchPending THEN UNCHANGED <<selecting, selected, recovery, uncertain, refreshPending>>
       ELSE ClearSelection
    /\ req' = [req EXCEPT !["load"] = NoReq]
    /\ UNCHANGED <<backend, failures, op, queue, batchPending, recoverySeq, syncing, history>>

(* A load that comes while a batch waits for its reconciliation asks again. *)
NotificationsLoaded ==
    /\ req["load"].phase = "answered" /\ req["load"].snap # Nothing
    /\ recovery.awaiting => Free("recon")
    /\ list' = req["load"].snap
    /\ started' = (started \/ req["load"].initial)
    /\ IF recovery # NoRecovery
       THEN RestoreSelection(recovery) /\ UNCHANGED <<recovery, uncertain, refreshPending>>
       ELSE IF batchPending THEN UNCHANGED <<selecting, selected, recovery, uncertain, refreshPending>>
       ELSE ClearSelection
    /\ req' = [req EXCEPT !["load"] = NoReq,
                          !["recon"] = IF recovery.awaiting THEN Ask("recon", recovery.gen) ELSE @]
    /\ UNCHANGED <<backend, failures, op, queue, batchPending, recoverySeq, syncing, history>>

(* Only the reconciliation of the recovery that waits for it counts. *)
Correlated == recovery.awaiting /\ req["recon"].gen = recovery.gen

ReconciliationLoaded ==
    /\ req["recon"].phase = "answered" /\ req["recon"].snap # Nothing
    /\ req' = [req EXCEPT !["recon"] = NoReq]
    /\ IF ~Correlated
       THEN UNCHANGED <<list, selecting, selected, recovery, uncertain, refreshPending>>
       ELSE /\ list' = req["recon"].snap
            /\ IF recovery.status = "committed" /\ recovery.retry = {}
               THEN ClearSelection
               ELSE /\ recovery' = [recovery EXCEPT !.awaiting = FALSE]
                    /\ uncertain' = FALSE /\ refreshPending' = FALSE
                    /\ RestoreSelection(recovery)
    /\ UNCHANGED <<backend, failures, op, queue, batchPending, recoverySeq, syncing, started, history>>

-----------------------------------------------------------------------------
(* The backend, in this process or in the engine.  In standalone mode a change
   holds the controller's user slot; an engine handles a connection's requests
   in their order: one queue serves for both. *)

SameScope(j, k) ==  \* all batches share one scope
    /\ op[j].kind = op[k].kind
    /\ op[k].kind = "scalar" => op[j].field = op[k].field /\ op[j].ids = op[k].ids

(* newTaskContext, in the command's goroutine: the one that comes last wins. *)
Register(k) ==
    /\ op[k].phase = "created"
    /\ op' = [j \in Key |->
                IF j = k THEN [op[k] EXCEPT !.phase = "registered"]
                ELSE IF SameScope(j, k) /\ op[j].phase \in {"registered", "calling"}
                THEN [op[j] EXCEPT !.cancelled = TRUE]
                ELSE op[j]]
    /\ queue' = IF connected \/ op[k].kind = "batch" THEN queue ELSE Append(queue, k)
    /\ UNCHANGED <<backend, failures, req, list, selection, batchState, syncing, started>>

Reachable(k) == IF connected THEN conn ELSE ~op[k].cancelled

(* A task whose context has ended before its turn is answered nil. *)
DroppedTask(k) ==
    /\ ~connected /\ op[k].phase = "registered" /\ op[k].cancelled /\ op[k].kind = "scalar"
    /\ op' = [op EXCEPT ![k] = NoOp]
    /\ \E i \in DOMAIN queue : queue[i] = k /\ queue' = RemoveAt(queue, i)
    /\ UNCHANGED <<backend, failures, req, list, selection, batchState, syncing, started>>

(* The list is read first, for want of a better answer; then the call.  A batch
   of this process whose context has ended fails before it changes anything. *)
ReadBefore(k) ==
    /\ op[k].phase = "registered"
    /\ op[k].cancelled => ~connected /\ op[k].kind = "batch"
    /\ k \in ToSet(queue) => Head(queue) = k
    /\ \/ Reachable(k) /\ NoFault /\ op' = [op EXCEPT ![k].phase = "calling", ![k].base = store,
                                                      ![k].call = "queued"]
       \/ Reachable(k) /\ Fault /\ op' = [op EXCEPT ![k].phase = "calling", ![k].call = "queued"]
       \/ connected /\ ~conn /\ NoFault /\ op' = [op EXCEPT ![k].phase = "calling"]
       \/ ~connected /\ op[k].cancelled /\ NoFault
          /\ op' = [op EXCEPT ![k].phase = "calling", ![k].call = "finished", ![k].reply = "local"]
    /\ queue' = IF Reachable(k) /\ k \notin ToSet(queue) THEN Append(queue, k) ELSE queue
    /\ UNCHANGED <<backend, req, list, selection, batchState, syncing, started>>

Remote(k) == op[k].field = "read" /\ op[k].value
AtHead(k) == queue # <<>> /\ Head(queue) = k
Ended(k) == ~connected /\ op[k].cancelled

(* What the engine answers reaches a call that still waits; a call that has ended
   keeps what it ended with. *)
Replied(k, reply) == IF op[k].phase = "calling" THEN reply ELSE op[k].reply

(* The commit of the local change; a batch changes all its rows or none. *)
Persist(k) ==
    /\ AtHead(k) /\ op[k].call = "queued"
    /\ \/ /\ ~Ended(k) /\ NoFault
          /\ store' = Put(store, op[k].field, op[k].ids, op[k].value)
          /\ op' = [op EXCEPT ![k].call = IF Remote(k) THEN "persisted" ELSE "finished",
                              ![k].reply = IF Remote(k) THEN @ ELSE Replied(k, "ok")]
       \/ /\ IF Ended(k) THEN NoFault ELSE Fault
          /\ op' = [op EXCEPT ![k].call = "finished", ![k].reply = Replied(k, "local")]
          /\ UNCHANGED store
    /\ queue' = IF op'[k].call = "finished" THEN Tail(queue) ELSE queue
    /\ UNCHANGED <<connected, conn, github, req, list, selection, batchState, syncing, started>>

(* GitHub is told, of each row of a batch apart. *)
MarkThreads(k) ==
    /\ AtHead(k) /\ op[k].call = "persisted"
    /\ \E failed \in SUBSET op[k].ids :
        /\ failed # {} => Ended(k) \/ failures < MaxFailures
        /\ Ended(k) => failed = op[k].ids
        /\ failures' = IF failed = {} \/ Ended(k) THEN failures ELSE failures + 1
        /\ github' = github \cup (op[k].ids \ failed)
        /\ op' = [op EXCEPT ![k].call = "finished", ![k].failed = failed,
                            ![k].reply = Replied(k, IF failed = {} \/ op[k].kind = "batch" THEN "ok" ELSE "remote")]
    /\ queue' = Tail(queue)
    /\ UNCHANGED <<connected, conn, store, req, list, selection, batchState, syncing, started>>

(* The engine ends: what it was doing is not finished. *)
EngineEnds ==
    /\ connected /\ conn /\ Fault
    /\ conn' = FALSE
    /\ queue' = <<>>
    /\ op' = [k \in Key |-> IF op[k].call \in {"queued", "persisted"} THEN [op[k] EXCEPT !.call = "none"] ELSE op[k]]
    /\ UNCHANGED <<connected, store, github, req, list, selection, batchState, syncing, started>>

-----------------------------------------------------------------------------
(* The answer: AppBackend and MCPAdapter read the list again, and fall back on
   the one read before when they cannot. *)

(* The engine refuses the call with an error of the protocol. *)
RefuseCall(k) ==
    /\ connected /\ AtHead(k) /\ op[k].call = "queued" /\ Fault
    /\ op' = [op EXCEPT ![k].call = "finished", ![k].reply = Replied(k, "error")]
    /\ queue' = Tail(queue)
    /\ UNCHANGED <<backend, req, list, selection, batchState, syncing, started>>

Result(k) ==
    LET o == op[k]
        operation == IF o.field = "read" THEN (IF o.value THEN "read" ELSE "unread")
                                         ELSE (IF o.value THEN "handled" ELSE "unhandled")
        ids == SetToSortSeq(o.ids, <)
        StatusOf(id) == IF ~RequiresRemoteRead(operation) THEN "not_required"
                        ELSE IF id \in o.failed THEN "failed" ELSE "succeeded"
    IN [request |-> [operation |-> operation, ids |-> ids], status |-> "committed",
        reconciliation |-> "authoritative",
        outcomes |-> [i \in 1 .. Len(ids) |-> [id |-> ids[i], status |-> StatusOf(ids[i]),
                                                code |-> CodeOf(StatusOf(ids[i]))]]]

Returned(k) == op[k].phase = "calling" /\ op[k].call = "finished" /\ (connected => ~op[k].cancelled)

(* What the call comes to, with the list that was read after it. *)
AnswerScalar(k, snap) ==
    LET o == op[k]
        fallback == IF o.reply = "local" THEN o.base ELSE Put(o.base, o.field, o.ids, o.value)
        got == IF snap # Nothing THEN snap ELSE fallback
        error == o.reply = "error" \/ (got = Nothing /\ o.reply # "remote")
    IN IF ~error THEN [o EXCEPT !.snap = got]
       ELSE IF o.field = "handled"
       THEN [o EXCEPT !.snap = IF snap # Nothing THEN snap ELSE o.before]  \* SetHandledByID
       ELSE [o EXCEPT !.reply = "error"]

AnswerBatch(k, snap) ==
    LET o == op[k] IN
    CASE o.reply = "local" -> [o EXCEPT !.reply = "rejected"]
      [] o.reply = "ok" /\ Valid(Result(k).request, Result(k)) ->
            [o EXCEPT !.reply = "committed", !.pending = (snap = Nothing),
                      !.snap = IF snap # Nothing THEN snap ELSE Put(o.base, o.field, o.ids, o.value)]
      [] OTHER -> [o EXCEPT !.reply = "unknown", !.pending = TRUE, !.snap = o.base]

Answer(k, snap) ==
    [IF op[k].kind = "batch" THEN AnswerBatch(k, snap) ELSE AnswerScalar(k, snap)
     EXCEPT !.phase = "answered", !.base = Nothing]

Return(k) ==
    /\ Returned(k)
    /\ \/ Reachable(k) /\ NoFault /\ op' = [op EXCEPT ![k] = Answer(k, store)]
       \/ /\ IF Reachable(k) THEN Fault ELSE NoFault
          /\ op' = [op EXCEPT ![k] = Answer(k, Nothing)]
    /\ UNCHANGED <<backend, queue, req, list, selection, batchState, syncing, started>>

(* A call of the adapter ends with its context or with the connection, whatever
   becomes of the request. *)
CallEnds(k) ==
    /\ connected /\ op[k].phase \in {"registered", "calling"}
    /\ op[k].cancelled \/ (~conn /\ op[k].call = "none" /\ op[k].phase = "calling")
    /\ LET o == [op[k] EXCEPT !.phase = "answered", !.base = Nothing] IN
       op' = [op EXCEPT ![k] =
                IF o.kind = "batch"
                THEN [o EXCEPT !.reply = "unknown", !.pending = TRUE, !.snap = op[k].base]
                ELSE IF o.field = "handled"
                THEN [o EXCEPT !.reply = "local", !.snap = o.before]
                ELSE [o EXCEPT !.reply = "error"]]
    /\ UNCHANGED <<backend, failures, queue, req, list, selection, batchState, syncing, started>>

-----------------------------------------------------------------------------
(* The messages of the changes *)

Gone(o) == IF o.call \in {"queued", "persisted"}
           THEN [o EXCEPT !.phase = "gone", !.before = Nothing, !.snap = Nothing] ELSE NoOp

MutationApplied(k) ==
    /\ op[k].phase = "answered" /\ op[k].kind = "scalar"
    /\ op' = [op EXCEPT ![k] = Gone(@)]
    /\ IF op[k].reply = "error"
       THEN syncing' = FALSE /\ UNCHANGED list
       ELSE list' = op[k].snap /\ UNCHANGED syncing
    /\ UNCHANGED <<backend, failures, queue, req, selection, batchState, started>>

SetRecovery(o, retry) ==
    /\ recoverySeq' = recoverySeq + 1
    /\ recovery' = [status |-> o.reply, retry |-> retry, awaiting |-> o.pending, gen |-> recoverySeq']
    /\ selected' = retry /\ selecting' = (retry # {})

Underway == {k \in Key : op[k].kind = "batch" /\ op[k].phase \notin {"unused", "gone"}}

BatchMutationApplied(k) ==
    LET o == op[k] IN
    /\ o.phase = "answered" /\ o.kind \in {"batch", "refused"}
    /\ o.pending => Free("recon")
    /\ op' = [op EXCEPT ![k] = Gone(@)]
    /\ batchPending' = FALSE
    /\ owed' = IF o.reply = "committed" THEN o.failed ELSE {}
    /\ unlocked' = (Underway \ {k} # {} /\ (unlocked \/ o.kind = "refused"))
    /\ uncertain' = (o.reply = "unknown") /\ refreshPending' = o.pending
    /\ CASE o.reply = "rejected" ->
              /\ list' = o.before /\ recovery' = NoRecovery
              /\ UNCHANGED <<recoverySeq, selecting, selected>>
         [] o.reply = "committed" ->
              /\ list' = o.snap
              /\ IF o.failed # {} \/ o.pending THEN SetRecovery(o, o.failed)
                 ELSE recovery' = NoRecovery /\ UNCHANGED <<recoverySeq, selecting, selected>>
         [] o.reply = "unknown" ->
              /\ list' = (IF o.snap # Nothing THEN o.snap ELSE list)
              /\ SetRecovery(o, o.ids)
    /\ req' = IF o.pending THEN [req EXCEPT !["recon"] = Ask("recon", recoverySeq')] ELSE req
    /\ UNCHANGED <<backend, failures, queue, syncing, started>>

-----------------------------------------------------------------------------
Runs(k) ==
    \/ Register(k) \/ DroppedTask(k) \/ ReadBefore(k) \/ Persist(k) \/ MarkThreads(k)
    \/ Return(k) \/ CallEnds(k) \/ MutationApplied(k) \/ BatchMutationApplied(k)

Next ==
    \/ \E k \in Key :
        \/ \E t \in Target : Toggle(k, t[1], t[2])
        \/ \E o \in BatchOperation : Batch(k, o)
        \/ BatchRefused(k) \/ Runs(k) \/ RefuseCall(k)
    \/ \E id \in ID : Select(id)
    \/ EnterSelection \/ LeaveSelection \/ SyncKey \/ Poll
    \/ \E kind \in {"load", "recon"} : Answered(kind) \/ DeliverError(kind)
    \/ \E kind \in DOMAIN req : Skipped(kind)
    \/ SyncComplete \/ SyncFails \/ NotificationsLoaded \/ ReconciliationLoaded
    \/ EngineEnds

Spec == Init /\ [][Next]_vars

(* Commands run and the heartbeat ticks; keys and faults are not assumed. *)
FairSpec ==
    /\ Spec
    /\ \A k \in Key : WF_vars(Runs(k))
    /\ \A kind \in {"load", "recon"} : WF_vars(Answered(kind) \/ DeliverError(kind))
    /\ WF_vars(SyncComplete) /\ WF_vars(NotificationsLoaded) /\ WF_vars(ReconciliationLoaded)
    /\ WF_vars(Poll)

-----------------------------------------------------------------------------
(* RecoveryIsShown: the footer shows UNCERTAIN or REFRESH exactly while a
   reconciliation is awaited, and the recovery's retry set is the selection;
   neither outlives the start of another batch. *)
RecoveryIsShown ==
    /\ (uncertain \/ refreshPending) <=> recovery.awaiting
    /\ uncertain => recovery.status = "unknown"
    /\ recovery # NoRecovery => selected = recovery.retry /\ ~batchPending

(* FailedStaySelected: a notification whose remote read failed stays selected,
   through loads, reconciliations and later changes, until the user edits or
   leaves the selection or another batch is applied, answered or refused. *)
FailedStaySelected == owed \subseteq selected

(* OneBatch: a batch is pending exactly while one is on its way, and no second
   one is; only once the answer to a refused selection has cleared the flag under
   a batch may others start beside it, and the flag then still means that one is
   on its way. *)
OneBatch ==
    IF unlocked THEN batchPending => Underway # {}
    ELSE Cardinality(Underway) = IF batchPending THEN 1 ELSE 0

(* ListConverges: when the user stops and the engine can be reached, the list
   comes to show the store, whatever order the answers came in. *)
Online == started /\ (connected => conn)
ListConverges == <>[](Online => list = store)

(* UncertaintyEnds: a batch that waits for its reconciliation gets it. *)
UncertaintyEnds == recovery.awaiting ~> (~recovery.awaiting \/ ~Online)

(* OnlyFailedStaySelected: of a committed batch, the notifications that stay
   selected are those whose remote read failed, as the toast says. *)
OnlyFailedStaySelected ==
    [][\A k \in Key : BatchMutationApplied(k) /\ op[k].reply = "committed"
                        => selected' = op[k].failed]_vars
=============================================================================
