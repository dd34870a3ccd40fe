-------------------------- MODULE TrafficController --------------------------
(***************************************************************************)
(* The API traffic controller of internal/api/traffic.go together with the *)
(* notification batch executor that runs inside it                         *)
(* (internal/api/notification_batch_executor.go).                          *)
(*                                                                         *)
(* Callers Submit tasks at one of three priorities.  One supervisor        *)
(* goroutine dequeues them and spawns one worker goroutine per task; the   *)
(* number of concurrent API calls is limited by a counter of permits whose *)
(* limit follows the reported GitHub quota.  A user task is serialized     *)
(* with other user tasks before it asks for a permit; a notification batch *)
(* is a user task that asks for one permit per remote child.  Shutdown     *)
(* cuts admission off under stateMu, drains the queues and joins everyone. *)
(*                                                                         *)
(* One action is one step between two accesses to state another goroutine  *)
(* can see.  The task functions themselves (a sync, an enrichment, a       *)
(* mutation) are a "running" phase that reports quotas and then returns.   *)
(***************************************************************************)
EXTENDS Integers, Sequences, FiniteSets

CONSTANTS
  Task,        \* the requests callers make; each is submitted at most once
  Priority,    \* Priority[t] is "user", "sync" or "enrich"
  Batch,       \* the user tasks that are notification batches
  BatchSize,   \* number of notification IDs in a batch
  BatchLimit,  \* notificationBatchRemoteLimit
  Capacity,    \* Capacity[q]: buffer size of the channel q
  MinWorkers,  \* worker limit while the quota is low
  MaxWorkers,  \* worker limit while it is not
  Quota,       \* values of the remaining quota that reports carry
  LowQuota,    \* quotas below this one are low (500 in the code)
  MaxReports,  \* bound: number of quota reports in a behaviour
  UI           \* the TUI's interpreter, which updates the quota unlocked

Queue == {"high", "med", "low"}
Supervisor == "supervisor"
Executor == "executor"
Reporter == Task \cup {UI}
ID == 1..BatchSize
Status == {"not_required", "succeeded", "failed", "canceled", "not_attempted"}

ASSUME TrafficAssumption ==
  /\ IsFiniteSet(Task)
  /\ UI \notin Task
  /\ Priority \in [Task -> {"user", "sync", "enrich"}]
  /\ Batch \subseteq {t \in Task : Priority[t] = "user"}
  /\ Capacity \in [Queue -> Nat \ {0}]
  /\ BatchSize \in Nat \ {0} /\ BatchLimit \in Nat \ {0}
  /\ MinWorkers \in Nat \ {0} /\ MaxWorkers \in Nat /\ MinWorkers <= MaxWorkers
  /\ Quota \subseteq Nat /\ LowQuota \in Nat
  /\ \E q \in Quota : q >= LowQuota
  /\ MaxReports \in Nat

VARIABLES
  pc,           \* phase of each task, from its submission to its worker's end
  cancelled,    \* its request context has ended, or cleanup() has run
  answers,      \* number of values sent on its resp channel
  result,       \* what its caller got: "nil", "value", "refused"
  queue,        \* the channels high, med and low
  accepted,     \* history: the user tasks in the order they entered high
  spc,          \* where the supervisor's loop is
  seen,         \* the worker limit last loaded by tryAcquireCapacity
  active,       \* activeWorkersCount
  userActive,   \* userTaskActive
  remaining, workerLimit, lockout,   \* rlInfo, workerLimit, lockoutUntil
  rep,          \* phase of each reporter's UpdateRateLimit
  info,         \* the report it is storing
  reports,      \* number of reports so far
  next, child, verdict, outcomes, committed,   \* executeNotificationBatch
  shut,         \* phase of Shutdown
  ctxDone       \* the controller's context has ended

taskVars == <<pc, cancelled, answers, result>>
quotaVars == <<remaining, workerLimit, lockout, rep, info, reports>>
batchVars == <<next, child, verdict, outcomes, committed>>
vars == <<taskVars, queue, accepted, spc, seen, active, userActive,
          quotaVars, batchVars, shut, ctxDone>>

IsUser(t) == Priority[t] = "user"
QueueFor(t) ==
  IF IsUser(t) THEN "high" ELSE IF Priority[t] = "sync" THEN "med" ELSE "low"

(* The phases of a task and of its worker. *)
Acquiring == {"acquiring", "claiming", "backoff"}
Executing == {"preparing", "filling", "collecting", "joining", "running"}
Unwinding == {"skipped", "yielded", "answered"}
Working == {"spawned", "locking"} \cup Acquiring \cup Executing \cup Unwinding
Phase == {"new", "admitting", "queued", "finished", "refused"} \cup Working
ShutPhase == {"open", "locking", "cancelled", "draining", "waiting", "stopped"}
NoReport == [remaining |-> 0, reset |-> FALSE]
Info == [remaining : Quota, reset : BOOLEAN] \cup {NoReport}
ChildPhase == {"pending", "remote", "sent", "closed"}

(* taskCtx: derived from the controller's context and from the request's. *)
CtxErr(t) == cancelled[t] \/ ctxDone
(* The done channel is closed. *)
Done == shut \in {"draining", "waiting", "stopped"}
(* stateMu: readers, and whether the writer holds it or is waiting for it. *)
ReadersIgnored == {}  \* mutant: Shutdown does not wait for them
Readers == {t \in Task : pc[t] = "admitting" \/ rep[t] \in {"limit", "lockout"}}
WriterOnlyWaits == shut = "locking"  \* mutant: unlocked before close(done)
WriterHoldsToTheEnd == shut \in {"locking", "cancelled", "draining", "waiting"}  \* mutant: deferred Unlock
WriterWaitsOrHolds == shut \in {"locking", "cancelled", "draining"}
(* userMu is free: no user worker is between Lock and its deferred Unlock. *)
UserMuFree ==
  \A u \in Task : IsUser(u) => pc[u] \notin Acquiring \cup Executing \cup {"yielded", "answered"}

TaskTypeOK ==
  /\ pc \in [Task -> Phase]
  /\ cancelled \in [Task -> BOOLEAN]
  /\ answers \in [Task -> Nat]
  /\ result \in [Task -> {"none", "nil", "value", "refused"}]

LoopTypeOK ==
  /\ queue \in [Queue -> Seq(Task)]
  /\ accepted \in Seq(Task)
  /\ spc \in {"poll", "user", "reserve", "claim", "background", "wait", "stopped"}
  /\ seen \in [{Supervisor, Executor} -> {MinWorkers, MaxWorkers}]
  /\ active \in Int
  /\ userActive \in BOOLEAN
  /\ shut \in ShutPhase
  /\ ctxDone \in BOOLEAN

QuotaTypeOK ==
  /\ remaining \in Quota
  /\ workerLimit \in {MinWorkers, MaxWorkers}
  /\ lockout \in BOOLEAN
  /\ rep \in [Reporter -> {"none", "waiting", "limit", "lockout"}]
  /\ info \in [Reporter -> Info]
  /\ reports \in 0..MaxReports

BatchTypeOK ==
  /\ next \in [Batch -> 1..(BatchSize + 1)]
  /\ child \in [Batch -> [ID -> ChildPhase]]
  /\ verdict \in [Batch -> [ID -> Status]]
  /\ outcomes \in [Batch -> SUBSET [id : ID, status : Status]]
  /\ committed \in SUBSET Batch

TypeOK == TaskTypeOK /\ LoopTypeOK /\ QuotaTypeOK /\ BatchTypeOK

(* NewAPITrafficController: ample quota, full concurrency, supervisor running. *)
Init ==
  /\ pc = [t \in Task |-> "new"]
  /\ cancelled = [t \in Task |-> FALSE]
  /\ answers = [t \in Task |-> 0]
  /\ result = [t \in Task |-> "none"]
  /\ queue = [q \in Queue |-> <<>>]
  /\ accepted = <<>>
  /\ spc = "poll"
  /\ seen = [p \in {Supervisor, Executor} |-> MaxWorkers]
  /\ active = 0
  /\ userActive = FALSE
  /\ remaining \in {q \in Quota : q >= LowQuota}
  /\ workerLimit = MaxWorkers
  /\ lockout = FALSE
  /\ rep = [r \in Reporter |-> "none"]
  /\ info = [r \in Reporter |-> NoReport]
  /\ reports = 0
  /\ next = [b \in Batch |-> 1]
  /\ child = [b \in Batch |-> [i \in ID |-> "pending"]]
  /\ verdict = [b \in Batch |-> [i \in ID |-> "not_attempted"]]
  /\ outcomes = [b \in Batch |-> {}]
  /\ committed = {}
  /\ shut = "open"
  /\ ctxDone = FALSE

-----------------------------------------------------------------------------
(* Helpers shared by the actions. *)

Goto(t, phase) == pc' = [pc EXCEPT ![t] = phase]

(* t.resp <- v, the task moving to the given phase. *)
Answer(t, v, phase) ==
  /\ Goto(t, phase)
  /\ answers' = [answers EXCEPT ![t] = @ + 1]
  /\ result' = [result EXCEPT ![t] = v]

(* Submit returns an error to its caller; nothing is sent on resp. *)
Refuse(t) ==
  /\ Goto(t, "refused")
  /\ result' = [result EXCEPT ![t] = "refused"]
  /\ cancelled' = [cancelled EXCEPT ![t] = TRUE]
  /\ UNCHANGED answers

-----------------------------------------------------------------------------
(* Submit and the admission half of RunNotificationBatch. *)

(* Take stateMu for reading and look at done. *)
Enter(t) ==
  /\ pc[t] = "new"
  /\ ~WriterWaitsOrHolds
  /\ IF Done
       THEN Refuse(t)
       ELSE Goto(t, "admitting") /\ UNCHANGED <<cancelled, answers, result>>
  /\ UNCHANGED <<queue, accepted, spc, seen, active, userActive, quotaVars,
                 batchVars, shut, ctxDone>>

(* The select: the queue accepts the task and stateMu is released. *)
Enqueue(t) ==
  /\ pc[t] = "admitting"
  /\ Len(queue[QueueFor(t)]) < Capacity[QueueFor(t)]
  /\ queue' = [queue EXCEPT ![QueueFor(t)] = Append(@, t)]
  /\ accepted' = IF IsUser(t) THEN Append(accepted, t) ELSE accepted
  /\ Goto(t, "queued")
  /\ UNCHANGED <<cancelled, answers, result, spc, seen, active, userActive,
                 quotaVars, batchVars, shut, ctxDone>>

(* The select: the task's context ended first.  Submit answers nil;        *)
(* RunNotificationBatch returns the context's error.                       *)
AdmitCancelled(t) ==
  /\ pc[t] = "admitting"
  /\ CtxErr(t)
  /\ IF t \in Batch
       THEN Refuse(t)
       ELSE /\ Answer(t, "nil", "finished")
            /\ cancelled' = [cancelled EXCEPT ![t] = TRUE]
  /\ UNCHANGED <<queue, accepted, spc, seen, active, userActive, quotaVars,
                 batchVars, shut, ctxDone>>

(* The select's default: ErrTrafficQueueFull. *)
RefuseFull(t) ==
  /\ pc[t] = "admitting"
  /\ ~CtxErr(t)
  /\ Len(queue[QueueFor(t)]) >= Capacity[QueueFor(t)]
  /\ Refuse(t)
  /\ UNCHANGED <<queue, accepted, spc, seen, active, userActive, quotaVars,
                 batchVars, shut, ctxDone>>

(* The request's context is cancelled or reaches its deadline. *)
Cancel(t) ==
  /\ ~cancelled[t]
  /\ pc[t] \notin {"finished", "refused"}
  /\ cancelled' = [cancelled EXCEPT ![t] = TRUE]
  /\ UNCHANGED <<pc, answers, result, queue, accepted, spc, seen, active,
                 userActive, quotaVars, batchVars, shut, ctxDone>>

-----------------------------------------------------------------------------
(* The supervisor's loop. *)

SupervisorUnchanged == UNCHANGED <<cancelled, accepted, quotaVars, batchVars, shut, ctxDone>>

(* The loop's select on done. *)
SupervisorPoll ==
  /\ spc = "poll"
  /\ spc' = IF Done THEN "stopped" ELSE "user"
  /\ UNCHANGED <<pc, answers, result, queue, seen, active, userActive>>
  /\ SupervisorUnchanged

(* dequeueUserTask and spawnUserTask, when no user task is active. *)
UserTurnUnserialized == queue["high"] # <<>>  \* mutant: userTaskActive ignored
UserTurn == ~userActive /\ queue["high"] # <<>>

SupervisorUser ==
  /\ spc = "user"
  /\ IF UserTurn
       THEN /\ queue' = [queue EXCEPT !["high"] = Tail(@)]
            /\ Goto(Head(queue["high"]), "spawned")
            /\ userActive' = TRUE
            /\ spc' = "poll"
       ELSE spc' = "reserve" /\ UNCHANGED <<queue, pc, userActive>>
  /\ UNCHANGED <<answers, result, seen, active>>
  /\ SupervisorUnchanged

(* Second look at userTaskActive; tryAcquireCapacity loads the limit. *)
SupervisorReserveAlways ==  \* mutant: no second look
  /\ spc = "reserve"
  /\ spc' = "claim"
  /\ seen' = [seen EXCEPT ![Supervisor] = workerLimit]
  /\ UNCHANGED <<pc, answers, result, queue, active, userActive>>
  /\ SupervisorUnchanged

SupervisorReserve ==
  /\ spc = "reserve"
  /\ spc' = IF userActive THEN "wait" ELSE "claim"
  /\ seen' = IF userActive THEN seen ELSE [seen EXCEPT ![Supervisor] = workerLimit]
  /\ UNCHANGED <<pc, answers, result, queue, active, userActive>>
  /\ SupervisorUnchanged

(* tryAcquireCapacity's compare-and-swap, against the limit it loaded. *)
SupervisorClaim ==
  /\ spc = "claim"
  /\ IF active < seen[Supervisor]
       THEN active' = active + 1 /\ spc' = "background"
       ELSE spc' = "wait" /\ UNCHANGED active
  /\ UNCHANGED <<pc, answers, result, queue, seen, userActive>>
  /\ SupervisorUnchanged

(* dequeueBackgroundTask: med before low; the permit passes to the worker. *)
DequeueBackground(q) ==
  /\ queue[q] # <<>>
  /\ queue' = [queue EXCEPT ![q] = Tail(@)]
  /\ Goto(Head(queue[q]), "spawned")
  /\ spc' = "poll"
  /\ UNCHANGED active

SupervisorBackground ==
  /\ spc = "background"
  /\ \/ DequeueBackground("med")
     \/ queue["med"] = <<>> /\ DequeueBackground("low")
     \/ /\ queue["med"] = <<>> /\ queue["low"] = <<>>
        /\ active' = active - 1
        /\ spc' = "wait"
        /\ UNCHANGED <<queue, pc>>
  /\ UNCHANGED <<answers, result, seen, userActive>>
  /\ SupervisorUnchanged

(* The select between done and the ticker. *)
SupervisorWait ==
  /\ spc = "wait"
  /\ \/ spc' = "poll"
     \/ Done /\ spc' = "stopped"
  /\ UNCHANGED <<pc, answers, result, queue, seen, active, userActive>>
  /\ SupervisorUnchanged

SupervisorNext ==
  \/ SupervisorPoll \/ SupervisorUser \/ SupervisorReserve
  \/ SupervisorClaim \/ SupervisorBackground \/ SupervisorWait

-----------------------------------------------------------------------------
(* Workers: runBackgroundTask and runUserTask. *)

WorkerUnchanged == UNCHANGED <<queue, accepted, spc, quotaVars, shut, ctxDone>>

(* evaluateTaskPolicy: cancelled, locked out, or too little quota to enrich. *)
SkipTask(t) ==
  \/ CtxErr(t)
  \/ lockout /\ ~IsUser(t)
  \/ Priority[t] = "enrich" /\ remaining < LowQuota

ApplyPolicy(t) ==
  /\ pc[t] = "spawned"
  /\ IF SkipTask(t)
       THEN Answer(t, "nil", "skipped")
       ELSE /\ Goto(t, IF IsUser(t) THEN "locking" ELSE "running")
            /\ UNCHANGED <<answers, result>>
  /\ UNCHANGED <<cancelled, seen, active, userActive, batchVars>>
  /\ WorkerUnchanged

(* userMu.Lock(): a batch goes on to Prepare, a scalar task to its permit. *)
LockUser(t) ==
  /\ pc[t] = "locking"
  /\ UserMuFree
  /\ Goto(t, IF t \in Batch THEN "preparing" ELSE "acquiring")
  /\ UNCHANGED <<cancelled, answers, result, seen, active, userActive, batchVars>>
  /\ WorkerUnchanged

(* tryAcquireCapacity inside acquireCapacity: load the limit ... *)
LoadLimit(t) ==
  /\ pc[t] = "acquiring"
  /\ seen' = [seen EXCEPT ![Executor] = workerLimit]
  /\ Goto(t, "claiming")
  /\ UNCHANGED <<cancelled, answers, result, active, userActive, batchVars>>
  /\ WorkerUnchanged

ClaimBlindly(t) ==  \* mutant: the counter is not compared again
  /\ pc[t] = "claiming"
  /\ active' = active + 1
  /\ IF t \in Batch
       THEN /\ Goto(t, "filling")
            /\ child' = [child EXCEPT ![t][next[t]] = "remote"]
            /\ next' = [next EXCEPT ![t] = @ + 1]
       ELSE Goto(t, "running") /\ UNCHANGED <<child, next>>
  /\ UNCHANGED <<cancelled, answers, result, seen, userActive, verdict, outcomes, committed>>
  /\ WorkerUnchanged

(* ... and claim a permit: a batch starts its next child with it. *)
Claim(t) ==
  /\ pc[t] = "claiming"
  /\ active < seen[Executor]
  /\ active' = active + 1
  /\ IF t \in Batch
       THEN /\ Goto(t, "filling")
            /\ child' = [child EXCEPT ![t][next[t]] = "remote"]
            /\ next' = [next EXCEPT ![t] = @ + 1]
       ELSE Goto(t, "running") /\ UNCHANGED <<child, next>>
  /\ UNCHANGED <<cancelled, answers, result, seen, userActive, verdict, outcomes, committed>>
  /\ WorkerUnchanged

ClaimFails(t) ==
  /\ pc[t] = "claiming"
  /\ active >= seen[Executor]
  /\ Goto(t, "backoff")
  /\ UNCHANGED <<cancelled, answers, result, seen, active, userActive, batchVars>>
  /\ WorkerUnchanged

(* The select in acquireCapacity: the ticker, or the end of the wait. *)
Retry(t) ==
  /\ pc[t] = "backoff"
  /\ Goto(t, "acquiring")
  /\ UNCHANGED <<cancelled, answers, result, seen, active, userActive, batchVars>>
  /\ WorkerUnchanged

WaitEndsAtOnce(t) == TRUE  \* mutant: a failed claim is final
WaitEnds(t) == CtxErr(t) \/ Done

GiveUp(t) ==
  /\ pc[t] = "backoff"
  /\ WaitEnds(t)
  /\ IF t \in Batch
       THEN Goto(t, "collecting") /\ UNCHANGED <<answers, result>>
       ELSE Answer(t, "nil", "yielded")
  /\ UNCHANGED <<cancelled, seen, active, userActive, batchVars>>
  /\ WorkerUnchanged

(* fn returns and its value is sent; no report of it is still in progress. *)
Return(t) ==
  /\ pc[t] = "running"
  /\ rep[t] = "none"
  /\ Answer(t, "value", "answered")
  /\ UNCHANGED <<cancelled, seen, active, userActive, batchVars>>
  /\ WorkerUnchanged

(* A worker holds a permit of its own until its deferred calls have run. *)
HoldsPermit(t) ==
  IF IsUser(t) THEN t \notin Batch /\ pc[t] \in {"running", "answered"}
               ELSE pc[t] \in {"spawned", "running", "skipped", "answered"}

(* The deferred calls: cleanup, releaseCapacity, userMu.Unlock,            *)
(* userTaskActive = 0 and workerWG.Done.                                   *)
Finish(t) ==
  /\ pc[t] \in Unwinding
  /\ Goto(t, "finished")
  /\ cancelled' = [cancelled EXCEPT ![t] = TRUE]
  /\ active' = IF HoldsPermit(t) THEN active - 1 ELSE active
  /\ userActive' = (userActive /\ ~IsUser(t))
  /\ UNCHANGED <<answers, result, seen, batchVars>>
  /\ WorkerUnchanged

-----------------------------------------------------------------------------
(* executeNotificationBatch, run by the batch's worker under userMu. *)

BatchUnchanged == UNCHANGED <<cancelled, seen, userActive>> /\ WorkerUnchanged

Recorded(t) == {o.id : o \in outcomes[t]}
InFlight(t) == {i \in ID : i < next[t]} \ Recorded(t)

(* Prepare writes the local state; without a remote half the batch is over. *)
PrepareFails(t) ==
  /\ pc[t] = "preparing"
  /\ Answer(t, "value", "answered")
  /\ UNCHANGED <<active, batchVars>>
  /\ BatchUnchanged

PrepareLocal(t) ==
  /\ pc[t] = "preparing"
  /\ committed' = committed \cup {t}
  /\ outcomes' = [outcomes EXCEPT ![t] = {[id |-> i, status |-> "not_required"] : i \in ID}]
  /\ Answer(t, "value", "answered")
  /\ UNCHANGED <<active, next, child, verdict>>
  /\ BatchUnchanged

PrepareRemote(t) ==
  /\ pc[t] = "preparing"
  /\ committed' = committed \cup {t}
  /\ Goto(t, "filling")
  /\ UNCHANGED <<answers, result, active, next, child, verdict, outcomes>>
  /\ BatchUnchanged

(* The inner loop's condition, evaluated before each acquireCapacity. *)
Fill(t) ==
  /\ pc[t] = "filling"
  /\ Goto(t, IF /\ next[t] <= BatchSize
                /\ Cardinality(InFlight(t)) < BatchLimit
                /\ ~CtxErr(t)
             THEN "acquiring" ELSE "collecting")
  /\ UNCHANGED <<answers, result, active, batchVars>>
  /\ BatchUnchanged

(* result := <-results, while children are in flight. *)
Collect(t, i) ==
  /\ pc[t] = "collecting"
  /\ i \in InFlight(t)
  /\ child[t][i] \in {"sent", "closed"}
  /\ outcomes' = [outcomes EXCEPT ![t] = @ \cup {[id |-> i, status |-> verdict[t][i]]}]
  /\ Goto(t, "filling")
  /\ UNCHANGED <<answers, result, active, next, child, verdict, committed>>
  /\ BatchUnchanged

(* Nothing in flight: the loop breaks, the rest was not attempted. *)
RestAfterNext(t) == (next[t] + 1)..BatchSize  \* mutant: off by one
Rest(t) == next[t]..BatchSize

RecordRest(t) ==
  /\ pc[t] = "collecting"
  /\ InFlight(t) = {}
  /\ outcomes' = [outcomes EXCEPT ![t] =
                    @ \cup {[id |-> i, status |-> "not_attempted"] : i \in Rest(t)}]
  /\ next' = [next EXCEPT ![t] = BatchSize + 1]
  /\ Goto(t, "joining")
  /\ UNCHANGED <<answers, result, active, child, verdict, committed>>
  /\ BatchUnchanged

(* workers.Wait(), then the execution is sent on resp. *)
Join(t) ==
  /\ pc[t] = "joining"
  /\ \A i \in ID : child[t][i] \in {"pending", "closed"}
  /\ Answer(t, "value", "answered")
  /\ UNCHANGED <<active, batchVars>>
  /\ BatchUnchanged

(* A child's remote call returns and its result enters the buffered channel. *)
ChildReturn(t, i) ==
  /\ child[t][i] = "remote"
  /\ child' = [child EXCEPT ![t][i] = "sent"]
  /\ verdict' = [verdict EXCEPT ![t][i] = "succeeded"]
       \/ verdict' = [verdict EXCEPT ![t][i] = IF CtxErr(t) THEN "canceled" ELSE "failed"]
  /\ UNCHANGED <<pc, answers, result, active, next, outcomes, committed>>
  /\ BatchUnchanged

(* The child's deferred releaseCapacity and workers.Done. *)
ChildClose(t, i) ==
  /\ child[t][i] = "sent"
  /\ child' = [child EXCEPT ![t][i] = "closed"]
  /\ active' = active - 1
  /\ UNCHANGED <<pc, answers, result, next, verdict, outcomes, committed>>
  /\ BatchUnchanged

BatchStep(t) ==
  \/ PrepareFails(t) \/ PrepareLocal(t) \/ PrepareRemote(t)
  \/ Fill(t) \/ RecordRest(t) \/ Join(t)
  \/ \E i \in ID : Collect(t, i)

ChildStep(t) == \E i \in ID : ChildReturn(t, i) \/ ChildClose(t, i)

WorkerStep(t) ==
  \/ ApplyPolicy(t) \/ LockUser(t) \/ LoadLimit(t) \/ Claim(t) \/ ClaimFails(t)
  \/ Retry(t) \/ GiveUp(t) \/ Return(t) \/ Finish(t)
  \/ t \in Batch /\ BatchStep(t)

-----------------------------------------------------------------------------
(* ReportRateLimit and UpdateRateLimit: three stores, not one.  The API    *)
(* client reports from inside a running task under stateMu's read lock;    *)
(* the TUI's interpreter calls UpdateRateLimit without it.                 *)

QuotaUnchanged ==
  UNCHANGED <<taskVars, queue, accepted, spc, seen, active, userActive, batchVars, shut, ctxDone>>

(* A response arrives in a running task, which asks for stateMu. *)
BeginReport(t) ==
  /\ pc[t] = "running"
  /\ rep[t] = "none"
  /\ reports < MaxReports
  /\ reports' = reports + 1
  /\ rep' = [rep EXCEPT ![t] = "waiting"]
  /\ UNCHANGED <<remaining, workerLimit, lockout, info>>
  /\ QuotaUnchanged

(* rlInfo.Store(&info) *)
StoreQuota(r) ==
  \E i \in [remaining : Quota, reset : BOOLEAN] :
    /\ info' = [info EXCEPT ![r] = i]
    /\ remaining' = i.remaining
    /\ rep' = [rep EXCEPT ![r] = "limit"]

(* The read lock is granted; late reports are dropped. *)
EnterReport(t) ==
  /\ rep[t] = "waiting"
  /\ ~WriterWaitsOrHolds
  /\ IF ctxDone
       THEN rep' = [rep EXCEPT ![t] = "none"] /\ UNCHANGED <<info, remaining>>
       ELSE StoreQuota(t)
  /\ UNCHANGED <<workerLimit, lockout, reports>>
  /\ QuotaUnchanged

UIReport ==
  /\ rep[UI] = "none"
  /\ reports < MaxReports
  /\ reports' = reports + 1
  /\ StoreQuota(UI)
  /\ UNCHANGED <<workerLimit, lockout>>
  /\ QuotaUnchanged

LimitForPaused(n) == IF n < LowQuota THEN 0 ELSE MaxWorkers  \* mutant: no worker left
LimitFor(n) == IF n < LowQuota THEN MinWorkers ELSE MaxWorkers

StoreLimit(r) ==
  /\ rep[r] = "limit"
  /\ workerLimit' = LimitFor(info[r].remaining)
  /\ rep' = [rep EXCEPT ![r] = "lockout"]
  /\ UNCHANGED <<remaining, lockout, info, reports>>
  /\ QuotaUnchanged

StoreLockout(r) ==
  /\ rep[r] = "lockout"
  /\ lockout' = IF info[r].remaining = 0 THEN lockout \/ info[r].reset ELSE FALSE
  /\ rep' = [rep EXCEPT ![r] = "none"]
  /\ info' = [info EXCEPT ![r] = NoReport]
  /\ UNCHANGED <<remaining, workerLimit, reports>>
  /\ QuotaUnchanged

ReporterStep(r) ==
  \/ r \in Task /\ EnterReport(r)
  \/ StoreLimit(r) \/ StoreLockout(r)

(* The clock passes lockoutUntil. *)
LockoutExpires ==
  /\ lockout
  /\ lockout' = FALSE
  /\ UNCHANGED <<remaining, workerLimit, rep, info, reports>>
  /\ QuotaUnchanged

-----------------------------------------------------------------------------
(* Shutdown. *)

ShutdownUnchanged ==
  UNCHANGED <<accepted, spc, seen, active, userActive, quotaVars, batchVars>>

(* The context the controller was built with ends. *)
ParentCancel ==
  /\ ~ctxDone
  /\ ctxDone' = TRUE
  /\ UNCHANGED <<taskVars, queue, shut>>
  /\ ShutdownUnchanged

(* stateMu.Lock() is called: new readers wait behind it. *)
ShutdownBegin ==
  /\ shut = "open"
  /\ shut' = "locking"
  /\ UNCHANGED <<taskVars, queue, ctxDone>>
  /\ ShutdownUnchanged

(* The lock is granted; cancel(). *)
ShutdownCancel ==
  /\ shut = "locking"
  /\ Readers = {}
  /\ ctxDone' = TRUE
  /\ shut' = "cancelled"
  /\ UNCHANGED <<taskVars, queue>>
  /\ ShutdownUnchanged

ShutdownClose ==
  /\ shut = "cancelled"
  /\ shut' = "draining"
  /\ UNCHANGED <<taskVars, queue, ctxDone>>
  /\ ShutdownUnchanged

(* drainQueue takes one task off the channel q and answers it nil. *)
DrainSilently(q) ==  \* mutant: no nil is sent
  /\ queue[q] # <<>>
  /\ queue' = [queue EXCEPT ![q] = Tail(@)]
  /\ Goto(Head(queue[q]), "finished")
  /\ UNCHANGED <<answers, result, cancelled>>
Drain(q) ==
  /\ queue[q] # <<>>
  /\ queue' = [queue EXCEPT ![q] = Tail(@)]
  /\ Answer(Head(queue[q]), "nil", "finished")
  /\ cancelled' = [cancelled EXCEPT ![Head(queue[q])] = TRUE]

ShutdownDrain ==
  /\ shut = "draining"
  /\ \/ Drain("high")
     \/ queue["high"] = <<>> /\ Drain("med")
     \/ queue["high"] = <<>> /\ queue["med"] = <<>> /\ Drain("low")
  /\ UNCHANGED <<shut, ctxDone>>
  /\ ShutdownUnchanged

Drained == \A q \in Queue : queue[q] = <<>>

ShutdownUnlock ==
  /\ shut = "draining"
  /\ Drained
  /\ shut' = "waiting"
  /\ UNCHANGED <<taskVars, queue, ctxDone>>
  /\ ShutdownUnchanged

(* workerWG.Wait() returns: the supervisor and every worker are gone. *)
JoinedWorkers == \A t \in Task : pc[t] \notin Working  \* mutant: supervisor not counted
Joined == spc = "stopped" /\ \A t \in Task : pc[t] \notin Working

ShutdownJoin ==
  /\ shut = "waiting"
  /\ Joined
  /\ shut' = "stopped"
  /\ UNCHANGED <<taskVars, queue, ctxDone>>
  /\ ShutdownUnchanged

ShutdownStep ==
  \/ ShutdownCancel \/ ShutdownClose \/ ShutdownDrain
  \/ ShutdownUnlock \/ ShutdownJoin

-----------------------------------------------------------------------------
AdmitStep(t) == Enqueue(t) \/ AdmitCancelled(t) \/ RefuseFull(t)

(* The controller has been shut down and every caller has returned. *)
Terminated ==
  /\ shut = "stopped"
  /\ \A t \in Task : pc[t] \in {"finished", "refused"}
  /\ UNCHANGED vars

Next ==
  \/ \E t \in Task :
       \/ Enter(t) \/ AdmitStep(t) \/ Cancel(t)
       \/ WorkerStep(t) \/ BeginReport(t)
  \/ \E t \in Batch : ChildStep(t)
  \/ \E r \in Reporter : ReporterStep(r)
  \/ UIReport \/ LockoutExpires
  \/ SupervisorNext
  \/ ParentCancel \/ ShutdownBegin \/ ShutdownStep
  \/ Terminated

(* Goroutines that can run do run, and task functions return.  Nothing     *)
(* obliges a caller to submit or to cancel, or the process to shut down.   *)
Fairness ==
  /\ WF_vars(SupervisorNext)
  /\ WF_vars(ShutdownStep)
  /\ \A t \in Task : WF_vars(AdmitStep(t)) /\ WF_vars(WorkerStep(t))
  /\ \A t \in Batch : WF_vars(ChildStep(t))
  /\ \A r \in Reporter : WF_vars(ReporterStep(r))

Spec == Init /\ [][Next]_vars
FairSpec == Spec /\ Fairness

-----------------------------------------------------------------------------
(* Properties. *)

(* Who holds a permit: workers, batch children, the supervisor's claim.    *)
PermitHolders ==
  {<<t>> : t \in {u \in Task : HoldsPermit(u)}}
    \cup (UNION {{<<t, i>> : i \in {j \in ID : child[t][j] \in {"remote", "sent"}}} : t \in Batch})
    \cup (IF spc = "background" THEN {<<>>} ELSE {})

(* activeWorkersCount is the number of permit holders, whatever the        *)
(* interleaving of claims, deferred releases and shutdown, and never       *)
(* exceeds the full concurrency (traffic.go: activeWorkersCount).          *)
PermitAccounting == active = Cardinality(PermitHolders) /\ active <= MaxWorkers

(* Every resp channel (buffer 1) receives at most one value, and has       *)
(* received it exactly when the task is past its answer: no second send    *)
(* can block a worker or the drain, no caller waits forever.               *)
AnsweredOnce ==
  \A t \in Task : answers[t] = IF pc[t] \in Unwinding \cup {"finished"} THEN 1 ELSE 0

(* "Serializes PriorityUser tasks to prevent out-of-order writes"          *)
(* (traffic.go:49): no user task is under way while one that was accepted  *)
(* before it has not begun.                                                *)
UserOrder ==
  \A i, j \in DOMAIN accepted :
    /\ i < j
    /\ pc[accepted[j]] \in Acquiring \cup Executing \cup {"answered"}
    => pc[accepted[i]] \notin {"queued", "spawned", "locking"} \cup Acquiring \cup Executing

(* A task in a channel is queued once, and only while the channel is open  *)
(* to the supervisor or to the drain: nothing accepted is ever stranded.   *)
NothingStranded ==
  /\ \A t \in Task : pc[t] = "queued" <=>
       \E k \in DOMAIN queue[QueueFor(t)] : queue[QueueFor(t)][k] = t
  /\ shut \in {"waiting", "stopped"} => \A t \in Task : pc[t] # "queued"

(* When Shutdown returns, all accepted work has been answered and every    *)
(* permit is back.                                                         *)
StoppedIsQuiet ==
  shut = "stopped" =>
    /\ active = 0 /\ ~userActive
    /\ \A t \in Task : pc[t] \in {"new", "finished", "refused"}
    /\ \A t \in Batch, i \in ID : child[t][i] \in {"pending", "closed"}

(* A committed batch reports every ID exactly once, whatever mix of        *)
(* remote failures, cancellation and shutdown met it; an uncommitted one   *)
(* reports nothing.                                                        *)
OneOutcomePerID ==
  \A t \in Batch : pc[t] = "answered" =>
    IF t \in committed
      THEN \A i \in ID : Cardinality({o \in outcomes[t] : o.id = i}) = 1
      ELSE outcomes[t] = {}

(* A batch falls short only when its context has ended: a lowered worker   *)
(* limit or a failed sibling leaves no ID unattempted, and a batch that is *)
(* answered nil has a context error to return (RunNotificationBatch), so   *)
(* that no caller takes an unexecuted batch for a result.                  *)
ShortOnlyIfCancelled ==
  \A t \in Batch :
    result[t] = "nil" \/ (\E o \in outcomes[t] : o.status = "not_attempted") => CtxErr(t)

(* No background task is dispatched while a user task is active: it would  *)
(* take a permit the user task or a batch's children need.                 *)
NoBackgroundDuringUserWork ==
  [][\A t \in Task : ~IsUser(t) /\ pc[t] = "queued" /\ pc'[t] = "spawned" => ~userActive]_vars

(* Shutdown returns, whoever waits for stateMu beside it: the controller's *)
(* own workers report quotas under the lock it takes.                      *)
ShutdownReturns == shut = "locking" ~> shut = "stopped"

(* The controller keeps the promises of TaskService, in safety and in      *)
(* liveness: a batch executes from its Prepare on, a scalar task while its *)
(* function runs, and admission ends when Shutdown holds stateMu.          *)
Service == INSTANCE TaskService WITH
  UserTask <- {t \in Task : IsUser(t)},
  phase <- [t \in Task |->
    CASE pc[t] \in {"new", "admitting"} -> "new"
      [] pc[t] = "refused" -> "refused"
      [] pc[t] \in Unwinding \cup {"finished"} -> "answered"
      [] pc[t] \in Executing \/ (t \in Batch /\ pc[t] \in Acquiring) -> "executing"
      [] OTHER -> "accepted"],
  gate <- CASE shut \in {"open", "locking"} -> "open"
            [] shut = "stopped" -> "stopped"
            [] OTHER -> "closed"

ImplementsTaskService == Service!FairSpec

=============================================================================
