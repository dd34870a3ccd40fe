----------------------- MODULE TrafficControllerProofs -----------------------
(* Theorems about TrafficController, for every set of tasks, channel       *)
(* capacity, batch size and worker limit.                                  *)
EXTENDS TrafficController, FiniteSetTheorems, TLAPS

(* The definitions every step of every proof looks through. *)
USE DEF vars, taskVars, quotaVars, batchVars, Goto, Answer, Refuse

-----------------------------------------------------------------------------
(* Which values the enumerated types have, so that they can stay folded. *)

LEMMA PhaseValues ==
  /\ "new" \in Phase /\ "admitting" \in Phase /\ "queued" \in Phase
  /\ "finished" \in Phase /\ "refused" \in Phase /\ "spawned" \in Phase
  /\ "locking" \in Phase /\ "acquiring" \in Phase /\ "claiming" \in Phase
  /\ "backoff" \in Phase /\ "preparing" \in Phase /\ "filling" \in Phase
  /\ "collecting" \in Phase /\ "joining" \in Phase /\ "running" \in Phase
  /\ "skipped" \in Phase /\ "yielded" \in Phase /\ "answered" \in Phase
BY DEF Phase, Working, Acquiring, Executing, Unwinding

LEMMA ShutValues ==
  /\ "open" \in ShutPhase /\ "locking" \in ShutPhase /\ "cancelled" \in ShutPhase
  /\ "draining" \in ShutPhase /\ "waiting" \in ShutPhase /\ "stopped" \in ShutPhase
BY DEF ShutPhase

LEMMA ChildValues ==
  /\ "pending" \in ChildPhase /\ "remote" \in ChildPhase /\ "sent" \in ChildPhase
  /\ "closed" \in ChildPhase
BY DEF ChildPhase

LEMMA StatusValues ==
  /\ "not_required" \in Status /\ "succeeded" \in Status /\ "failed" \in Status
  /\ "canceled" \in Status /\ "not_attempted" \in Status
BY DEF Status

LEMMA QueueValues ==
  /\ "high" \in Queue /\ "med" \in Queue /\ "low" \in Queue
  /\ \A t \in Task : QueueFor(t) \in Queue
BY TrafficAssumption DEF Queue, QueueFor, IsUser

LEMMA InfoValues ==
  /\ NoReport \in Info
  /\ [remaining : Quota, reset : BOOLEAN] \subseteq Info
BY DEF Info

LEMMA ReporterValues == Task \subseteq Reporter /\ UI \in Reporter
BY DEF Reporter

LEMMA LimitValues ==
  /\ MinWorkers \in Nat /\ MaxWorkers \in Nat
  /\ 1 <= MinWorkers /\ MinWorkers <= MaxWorkers
BY TrafficAssumption

LEMMA BatchValues ==
  /\ \A t \in Batch : t \in Task /\ IsUser(t)
  /\ BatchSize \in Nat /\ BatchSize >= 1
BY TrafficAssumption DEF IsUser

-----------------------------------------------------------------------------
(* Type correctness. *)

(* A batch asks for a permit only while it has an ID left to attempt. *)
NextInRange == \A t \in Batch : pc[t] \in Acquiring => next[t] <= BatchSize

LEMMA InitTypeOK == Init => TypeOK
<1> SUFFICES ASSUME Init PROVE TypeOK
  OBVIOUS
<1>1. TaskTypeOK
  BY PhaseValues DEF Init, TaskTypeOK
<1>2. LoopTypeOK
  <2>1. <<>> \in Seq(Task)
    OBVIOUS
  <2> QED
    <3>1. queue \in [Queue -> Seq(Task)] /\ accepted \in Seq(Task)
      BY <2>1 DEF Init
    <3>2. seen \in [{Supervisor, Executor} -> {MinWorkers, MaxWorkers}]
      BY DEF Init
    <3>3. spc \in {"poll", "user", "reserve", "claim", "background", "wait", "stopped"}
      BY DEF Init
    <3>4. active \in Int
      BY DEF Init
    <3>6. userActive \in BOOLEAN /\ ctxDone \in BOOLEAN
      BY Zenon DEF Init
    <3>5. shut \in ShutPhase
      BY ShutValues DEF Init
    <3> QED
      BY <3>1, <3>2, <3>3, <3>4, <3>5, <3>6, Zenon DEF LoopTypeOK
<1>3. QuotaTypeOK
  <2>1. remaining \in Quota /\ 0 \in 0..MaxReports
    BY TrafficAssumption DEF Init
  <2> QED
    BY <2>1, InfoValues DEF Init, QuotaTypeOK
<1>4. BatchTypeOK
  BY ChildValues, StatusValues, BatchValues DEF Init, BatchTypeOK
<1> QED
  BY <1>1, <1>2, <1>3, <1>4 DEF TypeOK

LEMMA AnswerTypeOK ==
  ASSUME TaskTypeOK, NEW t \in Task, NEW v \in {"nil", "value"}, NEW f \in Phase,
         Answer(t, v, f), cancelled' \in [Task -> BOOLEAN]
  PROVE  TaskTypeOK'
<1>1. pc' \in [Task -> Phase]
  BY DEF TaskTypeOK
<1>2. answers' \in [Task -> Nat]
  BY DEF TaskTypeOK
<1>3. result' \in [Task -> {"none", "nil", "value", "refused"}]
  BY DEF TaskTypeOK
<1> QED
  BY <1>1, <1>2, <1>3 DEF TaskTypeOK

LEMMA RefuseTypeOK ==
  ASSUME TaskTypeOK, NEW t \in Task, Refuse(t)
  PROVE  TaskTypeOK'
<1>1. pc' \in [Task -> Phase]
  BY PhaseValues DEF TaskTypeOK
<1>2. result' \in [Task -> {"none", "nil", "value", "refused"}]
  BY DEF TaskTypeOK
<1>3. cancelled' \in [Task -> BOOLEAN] /\ answers' = answers
  BY DEF TaskTypeOK
<1> QED
  BY <1>1, <1>2, <1>3 DEF TaskTypeOK

LEMMA AdmissionTypeOK ==
  ASSUME TypeOK, NEW t \in Task, Enter(t) \/ AdmitStep(t) \/ Cancel(t)
  PROVE  TypeOK'
<1> USE PhaseValues DEF TypeOK, TaskTypeOK, LoopTypeOK, QuotaTypeOK, BatchTypeOK
<1>1. CASE Enter(t)
  <2>1. TaskTypeOK'
    <3>1. CASE Done
      BY <1>1, <3>1, RefuseTypeOK DEF Enter
    <3>2. CASE ~Done
      BY <1>1, <3>2 DEF Enter
    <3> QED
      BY <3>1, <3>2
  <2> QED
    BY <1>1, <2>1 DEF Enter
<1>2. CASE Enqueue(t)
  <2>1. /\ Append(queue[QueueFor(t)], t) \in Seq(Task)
        /\ Append(accepted, t) \in Seq(Task)
    BY QueueValues
  <2>2. queue' \in [Queue -> Seq(Task)]
    BY <1>2, <2>1 DEF Enqueue
  <2>3. accepted' \in Seq(Task)
    BY <1>2, <2>1 DEF Enqueue
  <2> QED
    BY <1>2, <2>2, <2>3 DEF Enqueue
<1>3. CASE AdmitCancelled(t)
  <2>1. CASE t \in Batch
    <3>1. TaskTypeOK'
      BY <1>3, <2>1, RefuseTypeOK DEF AdmitCancelled
    <3> QED
      BY <1>3, <2>1, <3>1 DEF AdmitCancelled
  <2>2. CASE t \notin Batch
    <3>1. cancelled' \in [Task -> BOOLEAN]
      BY <1>3, <2>2 DEF AdmitCancelled
    <3>2. TaskTypeOK'
      BY <1>3, <2>2, <3>1, AnswerTypeOK DEF AdmitCancelled
    <3> QED
      BY <1>3, <2>2, <3>2 DEF AdmitCancelled
  <2> QED
    BY <2>1, <2>2
<1>4. CASE RefuseFull(t)
  BY <1>4 DEF RefuseFull
<1>5. CASE Cancel(t)
  BY <1>5 DEF Cancel
<1> QED
  BY <1>1, <1>2, <1>3, <1>4, <1>5 DEF AdmitStep

LEMMA SupervisorTypeOK ==
  ASSUME TypeOK, SupervisorNext
  PROVE  TypeOK'
<1> USE PhaseValues, LimitValues DEF TypeOK, TaskTypeOK, LoopTypeOK, QuotaTypeOK, BatchTypeOK,
        SupervisorUnchanged
<1>1. CASE SupervisorPoll
  BY <1>1 DEF SupervisorPoll
<1>2. CASE SupervisorUser
  <2>1. CASE UserTurn
    <3>1. Head(queue["high"]) \in Task /\ Tail(queue["high"]) \in Seq(Task)
      BY <2>1, QueueValues DEF UserTurn
    <3> QED
      BY <1>2, <2>1, <3>1 DEF SupervisorUser
  <2>2. CASE ~UserTurn
    BY <1>2, <2>2 DEF SupervisorUser
  <2> QED
    BY <2>1, <2>2
<1>3. CASE SupervisorReserve
  BY <1>3 DEF SupervisorReserve
<1>4. CASE SupervisorClaim
  BY <1>4 DEF SupervisorClaim
<1>5. CASE SupervisorBackground
  <2>1. ASSUME NEW q \in {"med", "low"}, DequeueBackground(q) PROVE TypeOK'
    <3>1. Head(queue[q]) \in Task /\ Tail(queue[q]) \in Seq(Task)
      BY <2>1, QueueValues DEF DequeueBackground
    <3> QED
      BY <1>5, <2>1, <3>1 DEF SupervisorBackground, DequeueBackground
  <2>2. CASE UNCHANGED <<queue, pc>>
    BY <1>5, <2>2 DEF SupervisorBackground, DequeueBackground
  <2> QED
    BY <1>5, <2>1, <2>2 DEF SupervisorBackground
<1>6. CASE SupervisorWait
  BY <1>6 DEF SupervisorWait
<1> QED
  BY <1>1, <1>2, <1>3, <1>4, <1>5, <1>6 DEF SupervisorNext

LEMMA WorkerTypeOK ==
  ASSUME TypeOK, NextInRange, NEW t \in Task, WorkerStep(t)
  PROVE  TypeOK'
<1> USE PhaseValues DEF TypeOK, TaskTypeOK, LoopTypeOK, QuotaTypeOK, BatchTypeOK,
        WorkerUnchanged
<1>1. CASE ApplyPolicy(t)
  <2>1. CASE SkipTask(t)
    <3>1. TaskTypeOK'
      BY <1>1, <2>1, AnswerTypeOK DEF ApplyPolicy
    <3> QED
      BY <1>1, <2>1, <3>1 DEF ApplyPolicy
  <2>2. CASE ~SkipTask(t)
    <3>1. TaskTypeOK'
      BY <1>1, <2>2 DEF ApplyPolicy
    <3> QED
      BY <1>1, <2>2, <3>1 DEF ApplyPolicy
  <2> QED
    BY <2>1, <2>2
<1>2. CASE LockUser(t)
  BY <1>2 DEF LockUser
<1>3. CASE LoadLimit(t)
  BY <1>3 DEF LoadLimit
<1>4. CASE Claim(t)
  <2>1. CASE t \in Batch
    <3>1. next[t] + 1 \in 1..(BatchSize + 1) /\ next[t] \in ID
      BY <1>4, <2>1, BatchValues DEF Claim, NextInRange, Acquiring, ID
    <3>2. child' \in [Batch -> [ID -> ChildPhase]]
      <4>1. [child[t] EXCEPT ![next[t]] = "remote"] \in [ID -> ChildPhase]
        BY <2>1, <3>1, ChildValues
      <4>2. child' = [child EXCEPT ![t] = [child[t] EXCEPT ![next[t]] = "remote"]]
        BY <1>4, <2>1 DEF Claim
      <4> QED
        BY <4>1, <4>2
    <3>3. next' \in [Batch -> 1..(BatchSize + 1)]
      BY <1>4, <2>1, <3>1 DEF Claim
    <3>4. pc' = [pc EXCEPT ![t] = "filling"] /\ active' \in Int
      BY <1>4, <2>1 DEF Claim
    <3> QED
      BY <1>4, <3>2, <3>3, <3>4 DEF Claim
  <2>2. CASE t \notin Batch
    <3>1. pc' = [pc EXCEPT ![t] = "running"] /\ active' \in Int /\ UNCHANGED <<child, next>>
      BY <1>4, <2>2 DEF Claim
    <3> QED
      BY <1>4, <3>1 DEF Claim
  <2> QED
    BY <2>1, <2>2
<1>5. CASE ClaimFails(t)
  BY <1>5 DEF ClaimFails
<1>6. CASE Retry(t)
  BY <1>6 DEF Retry
<1>7. CASE GiveUp(t)
  <2>1. CASE t \in Batch
    BY <1>7, <2>1 DEF GiveUp
  <2>2. CASE t \notin Batch
    <3>1. TaskTypeOK'
      BY <1>7, <2>2, AnswerTypeOK DEF GiveUp
    <3> QED
      BY <1>7, <2>2, <3>1 DEF GiveUp
  <2> QED
    BY <2>1, <2>2
<1>8. CASE Return(t)
  BY <1>8 DEF Return
<1>9. CASE Finish(t)
  BY <1>9 DEF Finish
<1>10. CASE t \in Batch /\ BatchStep(t)
  <2> USE <1>10 DEF BatchUnchanged
  <2>1. CASE PrepareFails(t)
    BY <2>1 DEF PrepareFails
  <2>2. CASE PrepareLocal(t)
    <3>1. {[id |-> i, status |-> "not_required"] : i \in ID} \in SUBSET [id : ID, status : Status]
      BY StatusValues
    <3>2. BatchTypeOK'
      BY <2>2, <3>1 DEF PrepareLocal
    <3>3. TaskTypeOK'
      BY <2>2, AnswerTypeOK DEF PrepareLocal
    <3> QED
      BY <2>2, <3>2, <3>3 DEF PrepareLocal
  <2>3. CASE PrepareRemote(t)
    BY <2>3 DEF PrepareRemote
  <2>4. CASE Fill(t)
    BY <2>4 DEF Fill
  <2>5. CASE RecordRest(t)
    <3>1. {[id |-> i, status |-> "not_attempted"] : i \in Rest(t)}
            \in SUBSET [id : ID, status : Status]
      BY StatusValues, BatchValues, <1>10 DEF ID, Rest
    <3>2. BatchSize + 1 \in 1..(BatchSize + 1)
      BY BatchValues
    <3>3. BatchTypeOK'
      BY <2>5, <3>1, <3>2 DEF RecordRest
    <3> QED
      BY <2>5, <3>3 DEF RecordRest
  <2>6. CASE Join(t)
    BY <2>6 DEF Join
  <2>7. ASSUME NEW i \in ID, Collect(t, i) PROVE TypeOK'
    BY <2>7 DEF Collect
  <2> QED
    BY <2>1, <2>2, <2>3, <2>4, <2>5, <2>6, <2>7 DEF BatchStep
<1> QED
  BY <1>1, <1>2, <1>3, <1>4, <1>5, <1>6, <1>7, <1>8, <1>9, <1>10 DEF WorkerStep

LEMMA ChildTypeOK ==
  ASSUME TypeOK, NEW t \in Batch, ChildStep(t)
  PROVE  TypeOK'
<1> USE ChildValues, StatusValues DEF TypeOK, TaskTypeOK, LoopTypeOK, QuotaTypeOK, BatchTypeOK, WorkerUnchanged, BatchUnchanged
<1>1. ASSUME NEW i \in ID, ChildReturn(t, i) PROVE TypeOK'
  <2>1. child' \in [Batch -> [ID -> ChildPhase]]
    BY <1>1 DEF ChildReturn
  <2>2. PICK s \in Status : verdict' = [verdict EXCEPT ![t][i] = s]
    BY <1>1 DEF ChildReturn
  <2>3. verdict' \in [Batch -> [ID -> Status]]
    BY <2>2
  <2> QED
    BY <1>1, <2>1, <2>3 DEF ChildReturn
<1>2. ASSUME NEW i \in ID, ChildClose(t, i) PROVE TypeOK'
  BY <1>2 DEF ChildClose
<1> QED
  BY <1>1, <1>2 DEF ChildStep

LEMMA QuotaTypeStep ==
  ASSUME TypeOK, \/ \E t \in Task : BeginReport(t)
                 \/ \E r \in Reporter : ReporterStep(r)
                 \/ UIReport \/ LockoutExpires
  PROVE  TypeOK'
<1> USE DEF TypeOK, TaskTypeOK, LoopTypeOK, QuotaTypeOK, BatchTypeOK, QuotaUnchanged
<1>1. ASSUME NEW t \in Task, BeginReport(t) PROVE TypeOK'
  <2>1. reports' \in 0..MaxReports
    BY <1>1, TrafficAssumption DEF BeginReport
  <2> QED
    BY <1>1, <2>1, ReporterValues DEF BeginReport
<1>2. ASSUME NEW r \in Reporter, StoreQuota(r)
      PROVE  /\ remaining' \in Quota /\ info' \in [Reporter -> Info]
             /\ rep' \in [Reporter -> {"none", "waiting", "limit", "lockout"}]
  <2>1. PICK i \in [remaining : Quota, reset : BOOLEAN] :
          /\ info' = [info EXCEPT ![r] = i]
          /\ remaining' = i.remaining
          /\ rep' = [rep EXCEPT ![r] = "limit"]
    BY <1>2 DEF StoreQuota
  <2>2. i \in Info /\ i.remaining \in Quota
    BY InfoValues
  <2> QED
    BY <2>1, <2>2
<1>3. ASSUME NEW r \in Reporter, r \in Task, EnterReport(r) PROVE TypeOK'
  <2>1. CASE ctxDone
    BY <1>3, <2>1 DEF EnterReport
  <2>2. CASE ~ctxDone
    BY <1>2, <1>3, <2>2 DEF EnterReport
  <2> QED
    BY <2>1, <2>2
<1>4. CASE UIReport
  <2>1. reports' \in 0..MaxReports
    BY <1>4, TrafficAssumption DEF UIReport
  <2> QED
    BY <1>2, <1>4, <2>1, ReporterValues DEF UIReport
<1>5. ASSUME NEW r \in Reporter, StoreLimit(r) PROVE TypeOK'
  BY <1>5 DEF StoreLimit, LimitFor
<1>6. ASSUME NEW r \in Reporter, StoreLockout(r) PROVE TypeOK'
  BY <1>6, InfoValues DEF StoreLockout
<1>7. CASE LockoutExpires
  BY <1>7 DEF LockoutExpires
<1> QED
  BY <1>1, <1>3, <1>4, <1>5, <1>6, <1>7 DEF ReporterStep

LEMMA ShutdownTypeOK ==
  ASSUME TypeOK, ParentCancel \/ ShutdownBegin \/ ShutdownStep
  PROVE  TypeOK'
<1> USE ShutValues, PhaseValues
    DEF TypeOK, TaskTypeOK, LoopTypeOK, QuotaTypeOK, BatchTypeOK, ShutdownUnchanged
<1>1. CASE ParentCancel
  BY <1>1 DEF ParentCancel
<1>2. CASE ShutdownBegin
  BY <1>2 DEF ShutdownBegin
<1>3. CASE ShutdownCancel
  BY <1>3 DEF ShutdownCancel
<1>4. CASE ShutdownClose
  BY <1>4 DEF ShutdownClose
<1>5. CASE ShutdownDrain
  <2>1. PICK q \in {"high", "med", "low"} : Drain(q)
    BY <1>5 DEF ShutdownDrain
  <2>2. /\ Head(queue[q]) \in Task /\ Tail(queue[q]) \in Seq(Task)
    BY <2>1, QueueValues DEF Drain
  <2>3. queue' \in [Queue -> Seq(Task)]
    BY <2>1, <2>2 DEF Drain
  <2>4. cancelled' \in [Task -> BOOLEAN]
    BY <2>1, <2>2 DEF Drain
  <2>5. TaskTypeOK'
    BY <2>1, <2>2, <2>4, AnswerTypeOK DEF Drain
  <2> QED
    BY <1>5, <2>3, <2>5 DEF ShutdownDrain
<1>6. CASE ShutdownUnlock
  BY <1>6 DEF ShutdownUnlock
<1>7. CASE ShutdownJoin
  BY <1>7 DEF ShutdownJoin
<1> QED
  BY <1>1, <1>2, <1>3, <1>4, <1>5, <1>6, <1>7 DEF ShutdownStep

LEMMA NextInRangeStep ==
  ASSUME TypeOK, NextInRange, [Next]_vars
  PROVE  NextInRange'
<1> USE BatchValues DEF TypeOK, TaskTypeOK, BatchTypeOK, NextInRange, Acquiring
<1>1. ASSUME NEW t \in Task, Enter(t) \/ AdmitStep(t) \/ Cancel(t) PROVE NextInRange'
  BY <1>1 DEF Enter, AdmitStep, Enqueue, AdmitCancelled, RefuseFull, Cancel
<1>2. CASE SupervisorNext
  BY <1>2 DEF SupervisorNext, SupervisorPoll, SupervisorUser, SupervisorReserve, SupervisorClaim,
              SupervisorBackground, DequeueBackground, SupervisorWait, SupervisorUnchanged
<1>3. ASSUME NEW t \in Task, WorkerStep(t) PROVE NextInRange'
  <2> USE DEF WorkerUnchanged, BatchUnchanged
  <2>1. CASE Claim(t)
    BY <2>1 DEF Claim
  <2>2. CASE LockUser(t)
    BY <2>2 DEF LockUser
  <2>3. CASE ApplyPolicy(t) \/ LoadLimit(t) \/ ClaimFails(t) \/ Retry(t)
    BY <2>3 DEF ApplyPolicy, LoadLimit, ClaimFails, Retry
  <2>4. CASE GiveUp(t) \/ Return(t) \/ Finish(t)
    BY <2>4 DEF GiveUp, Return, Finish
  <2>5. CASE t \in Batch /\ BatchStep(t)
    <3>1. CASE Fill(t)
      BY <3>1 DEF Fill
    <3>2. CASE RecordRest(t)
      BY <3>2, <2>5 DEF RecordRest
    <3>3. CASE PrepareFails(t) \/ PrepareLocal(t) \/ PrepareRemote(t) \/ Join(t)
      BY <3>3 DEF PrepareFails, PrepareLocal, PrepareRemote, Join
    <3>4. ASSUME NEW i \in ID, Collect(t, i) PROVE NextInRange'
      BY <3>4 DEF Collect
    <3> QED
      BY <2>5, <3>1, <3>2, <3>3, <3>4 DEF BatchStep
  <2> QED
    BY <1>3, <2>1, <2>2, <2>3, <2>4, <2>5 DEF WorkerStep
<1>4. ASSUME UNCHANGED <<pc, next>> PROVE NextInRange'
  BY <1>4
<1>5. ASSUME NEW t \in Batch, ChildStep(t) PROVE NextInRange'
  BY <1>5 DEF ChildStep, ChildReturn, ChildClose
<1>6. ASSUME \/ \E t \in Task : BeginReport(t)
             \/ \E q \in Reporter : ReporterStep(q)
             \/ UIReport \/ LockoutExpires
      PROVE UNCHANGED <<pc, next>>
  BY <1>6 DEF BeginReport, ReporterStep, EnterReport, StoreLimit, StoreLockout, UIReport,
              LockoutExpires, QuotaUnchanged
<1>7. CASE ShutdownDrain
  BY <1>7 DEF ShutdownDrain, Drain, ShutdownUnchanged
<1>8. ASSUME ParentCancel \/ ShutdownBegin \/ ShutdownCancel \/ ShutdownClose
             \/ ShutdownUnlock \/ ShutdownJoin
      PROVE UNCHANGED <<pc, next>>
  BY <1>8 DEF ParentCancel, ShutdownBegin, ShutdownCancel, ShutdownClose, ShutdownUnlock,
              ShutdownJoin, ShutdownUnchanged
<1> QED
  BY <1>1, <1>2, <1>3, <1>4, <1>5, <1>6, <1>7, <1>8 DEF Next, ShutdownStep, Terminated

LEMMA TypesInit == Init => TypeOK /\ NextInRange
<1> SUFFICES ASSUME Init PROVE NextInRange
  BY InitTypeOK
<1>1. \A t \in Batch : pc[t] = "new"
  BY BatchValues DEF Init
<1> QED
  BY <1>1 DEF NextInRange, Acquiring

LEMMA TypesStep == TypeOK /\ NextInRange /\ [Next]_vars => (TypeOK /\ NextInRange)'
<1> SUFFICES ASSUME TypeOK, NextInRange, [Next]_vars PROVE TypeOK'
  BY NextInRangeStep
<1>1. CASE UNCHANGED vars
  BY <1>1 DEF TypeOK, TaskTypeOK, LoopTypeOK, QuotaTypeOK, BatchTypeOK
<1> QED
  BY <1>1, AdmissionTypeOK, WorkerTypeOK, ChildTypeOK, SupervisorTypeOK, QuotaTypeStep,
     ShutdownTypeOK DEF Next, Terminated

(* Every reachable state is well typed, whatever the tasks, the channel    *)
(* capacities, the batch size and the limits.                              *)
THEOREM TypeCorrect == Spec => []TypeOK
BY TypesInit, TypesStep, PTL DEF Spec

-----------------------------------------------------------------------------
(* The queues of TrafficController, for every set of tasks, every channel  *)
(* capacity and every limit: what the channels hold, who is answered, and  *)
(* in which order the supervisor lets user and background tasks run.       *)

-----------------------------------------------------------------------------
(* The shape of a step: which phase changes, and what it means for answers *)
(* and channels.                                                           *)

Answered == Unwinding \cup {"finished"}

AdmitEdge(from, to) ==
  \/ from = "new" /\ to \in {"admitting", "refused"}
  \/ from = "admitting" /\ to \in {"refused", "finished"}
WorkEdge(from, to) ==
  \/ from = "spawned" /\ to \in {"skipped", "locking", "running"}
  \/ from \in {"locking"} \cup Acquiring \cup Executing
       /\ to \in Acquiring \cup Executing \cup {"yielded", "answered"}
  \/ from \in Unwinding /\ to = "finished"
Edge(from, to) == AdmitEdge(from, to) \/ WorkEdge(from, to)

AnswersFollow(t, to) ==
  answers' = IF pc[t] \notin Answered /\ to \in Answered
               THEN [answers EXCEPT ![t] = @ + 1] ELSE answers

Moves(t, to) == pc' = [pc EXCEPT ![t] = to] /\ AnswersFollow(t, to)

Stays == UNCHANGED <<pc, answers, queue, accepted>>
Advances(t) ==
  \E to \in Phase : Edge(pc[t], to) /\ Moves(t, to) /\ UNCHANGED <<queue, accepted>>
Works(t) ==
  \E to \in Phase :
    /\ WorkEdge(pc[t], to) /\ Moves(t, to)
    /\ UNCHANGED <<queue, accepted, spc, shut, ctxDone>>
    /\ IF to = "finished" /\ IsUser(t) THEN ~userActive' ELSE UNCHANGED userActive
Dequeues(q) ==
  \E to \in {"spawned", "finished"} :
    /\ queue[q] # <<>> /\ queue' = [queue EXCEPT ![q] = Tail(@)]
    /\ pc[Head(queue[q])] = "queued" /\ Moves(Head(queue[q]), to) /\ UNCHANGED accepted
LoopShape == Stays \/ \E q \in Queue : Dequeues(q)

StepShape ==
  \/ Stays
  \/ \E t \in Task : Advances(t) \/ Enqueue(t)
  \/ \E q \in Queue : Dequeues(q)

(* Channels: a task is queued once, in the channel of its priority, and    *)
(* nothing else is.                                                        *)
InQueue ==
  \A q \in Queue : \A k \in 1..Len(queue[q]) :
    pc[queue[q][k]] = "queued" /\ QueueFor(queue[q][k]) = q
OnceQueued ==
  \A q \in Queue : \A j, k \in 1..Len(queue[q]) : queue[q][j] = queue[q][k] => j = k
AllQueued ==
  \A t \in Task : pc[t] = "queued" =>
    \E k \in 1..Len(queue[QueueFor(t)]) : queue[QueueFor(t)][k] = t

(* Shutdown: nobody is between Submit's look at done and its select once   *)
(* Shutdown has taken stateMu, and the channels are empty once it lets go. *)
Gate ==
  /\ shut \notin {"open", "locking"} => ctxDone /\ \A t \in Task : pc[t] # "admitting"
  /\ shut \in {"waiting", "stopped"} => Drained

(* The channel high holds the last user tasks accepted, in their order.    *)
Gone == Len(accepted) - Len(queue["high"])
UserFifo ==
  /\ Len(queue["high"]) <= Len(accepted)
  /\ \A k \in 1..Len(queue["high"]) : queue["high"][k] = accepted[Gone + k]
AcceptedOnce == \A i, j \in 1..Len(accepted) : accepted[i] = accepted[j] => i = j
AcceptedAdmitted ==
  \A i \in 1..Len(accepted) : IsUser(accepted[i]) /\ pc[accepted[i]] \notin {"new", "admitting"}

(* userTaskActive is set exactly while there is a user worker, and there   *)
(* is one at most.                                                         *)
UserSlot ==
  /\ userActive <=> \E t \in Task : IsUser(t) /\ pc[t] \in Working
  /\ \A t, u \in Task :
       IsUser(t) /\ IsUser(u) /\ pc[t] \in Working /\ pc[u] \in Working => t = u
  /\ spc \in {"claim", "background"} => ~userActive

LEMMA HeadQueued ==
  ASSUME TypeOK, InQueue, NEW q \in Queue, queue[q] # <<>>
  PROVE  /\ Head(queue[q]) \in Task /\ Tail(queue[q]) \in Seq(Task)
         /\ pc[Head(queue[q])] = "queued" /\ QueueFor(Head(queue[q])) = q
<1>1. queue[q] \in Seq(Task)
  BY DEF TypeOK, LoopTypeOK
<1>2. Head(queue[q]) = queue[q][1] /\ 1 \in 1..Len(queue[q])
  BY <1>1
<1> QED
  BY <1>1, <1>2 DEF InQueue

LEMMA AdmissionShape ==
  ASSUME TypeOK, NEW t \in Task, Enter(t) \/ AdmitStep(t) \/ Cancel(t)
  PROVE  StepShape
<1> USE PhaseValues DEF TypeOK, TaskTypeOK
<1>1. CASE Enter(t)
  <2>1. PICK to \in {"admitting", "refused"} :
          pc[t] = "new" /\ pc' = [pc EXCEPT ![t] = to] /\ UNCHANGED <<answers, queue, accepted>>
    BY <1>1 DEF Enter
  <2>2. Advances(t)
    BY <2>1 DEF Advances, Moves, AnswersFollow, Edge, AdmitEdge, Answered, Unwinding
  <2> QED
    BY <2>2 DEF StepShape
<1>2. CASE AdmitCancelled(t) \/ RefuseFull(t)
  <2>1. PICK to \in {"finished", "refused"} :
          /\ pc[t] = "admitting" /\ pc' = [pc EXCEPT ![t] = to] /\ UNCHANGED <<queue, accepted>>
          /\ answers' = IF to = "finished" THEN [answers EXCEPT ![t] = @ + 1] ELSE answers
    BY <1>2 DEF AdmitCancelled, RefuseFull
  <2>2. Advances(t)
    BY <2>1 DEF Advances, Moves, AnswersFollow, Edge, AdmitEdge, Answered, Unwinding
  <2> QED
    BY <2>2 DEF StepShape
<1>3. CASE Enqueue(t)
  BY <1>3 DEF StepShape
<1>4. CASE Cancel(t)
  BY <1>4 DEF Cancel, StepShape, Stays
<1> QED
  BY <1>1, <1>2, <1>3, <1>4 DEF AdmitStep

LEMMA SupervisorShape ==
  ASSUME TypeOK, InQueue, SupervisorNext
  PROVE  LoopShape
<1> USE DEF SupervisorUnchanged
<1>1. ASSUME NEW q \in Queue, queue[q] # <<>>, queue' = [queue EXCEPT ![q] = Tail(@)],
             Goto(Head(queue[q]), "spawned"), UNCHANGED <<answers, accepted>>
      PROVE  LoopShape
  <2>1. Dequeues(q)
    BY <1>1, HeadQueued DEF Dequeues, Moves, AnswersFollow, Answered, Unwinding
  <2> QED
    BY <2>1 DEF LoopShape
<1>2. CASE SupervisorUser
  BY <1>1, <1>2, QueueValues DEF SupervisorUser, UserTurn, LoopShape, Stays
<1>3. CASE SupervisorBackground
  BY <1>1, <1>3, QueueValues DEF SupervisorBackground, DequeueBackground, LoopShape, Stays
<1>4. CASE SupervisorPoll \/ SupervisorReserve \/ SupervisorClaim \/ SupervisorWait
  BY <1>4 DEF SupervisorPoll, SupervisorReserve, SupervisorClaim, SupervisorWait, LoopShape, Stays
<1> QED
  BY <1>2, <1>3, <1>4 DEF SupervisorNext

LEMMA WorkerShape ==
  ASSUME TypeOK, NEW t \in Task, WorkerStep(t)
  PROVE  Works(t)
<1> USE PhaseValues DEF WorkerUnchanged
<1> DEFINE Goes(to) == /\ pc' = [pc EXCEPT ![t] = to]
                       /\ UNCHANGED <<queue, accepted, spc, shut, ctxDone>>
                       /\ to # "finished" => UNCHANGED userActive
<1>1. CASE ApplyPolicy(t)
  <2>1. PICK to \in {"skipped", "locking", "running"} :
          /\ pc[t] = "spawned" /\ Goes(to)
          /\ answers' = IF to = "skipped" THEN [answers EXCEPT ![t] = @ + 1] ELSE answers
    BY <1>1 DEF ApplyPolicy
  <2> QED
    BY <2>1 DEF Works, WorkEdge, Moves, AnswersFollow, Answered, Unwinding
<1>2. CASE LockUser(t) \/ LoadLimit(t) \/ Claim(t) \/ ClaimFails(t) \/ Retry(t)
  <2>1. /\ pc[t] \in {"locking"} \cup Acquiring /\ UNCHANGED answers
        /\ \E to \in Acquiring \cup Executing : Goes(to)
    BY <1>2 DEF LockUser, LoadLimit, Claim, ClaimFails, Retry, Acquiring, Executing
  <2> QED
    BY <2>1 DEF Works, WorkEdge, Moves, AnswersFollow, Answered, Unwinding, Acquiring, Executing
<1>3. CASE GiveUp(t)
  <2>1. PICK to \in {"collecting", "yielded"} :
          /\ pc[t] = "backoff" /\ Goes(to)
          /\ answers' = IF to = "yielded" THEN [answers EXCEPT ![t] = @ + 1] ELSE answers
    BY <1>3 DEF GiveUp
  <2> QED
    BY <2>1 DEF Works, WorkEdge, Moves, AnswersFollow, Answered, Unwinding, Acquiring, Executing
<1>4. CASE Finish(t)
  <2>1. /\ pc[t] \in Unwinding /\ Goes("finished") /\ UNCHANGED answers
        /\ IF IsUser(t) THEN ~userActive' ELSE UNCHANGED userActive
    <3>1. userActive \in BOOLEAN /\ userActive' = (userActive /\ ~IsUser(t))
      BY <1>4, Zenon DEF Finish, TypeOK, LoopTypeOK
    <3>2. IF IsUser(t) THEN ~userActive' ELSE UNCHANGED userActive
      BY <3>1, Zenon
    <3> QED
      BY <1>4, <3>2 DEF Finish
  <2> QED
    BY <2>1 DEF Works, WorkEdge, Moves, AnswersFollow, Answered, Unwinding
<1>5. CASE Return(t) \/ PrepareFails(t) \/ PrepareLocal(t) \/ Join(t)
  <2>1. /\ pc[t] \in Executing /\ Goes("answered")
        /\ answers' = [answers EXCEPT ![t] = @ + 1]
    BY <1>5 DEF Return, PrepareFails, PrepareLocal, Join, BatchUnchanged, Executing
  <2> QED
    BY <2>1 DEF Works, WorkEdge, Moves, AnswersFollow, Answered, Unwinding, Executing
<1>6. CASE PrepareRemote(t) \/ Fill(t) \/ RecordRest(t) \/ \E i \in ID : Collect(t, i)
  <2>1. /\ pc[t] \in Executing /\ UNCHANGED answers
        /\ \E to \in Acquiring \cup Executing : Goes(to)
    BY <1>6 DEF PrepareRemote, Fill, RecordRest, Collect, BatchUnchanged, Acquiring, Executing
  <2> QED
    BY <2>1 DEF Works, WorkEdge, Moves, AnswersFollow, Answered, Unwinding, Acquiring, Executing
<1> QED
  BY <1>1, <1>2, <1>3, <1>4, <1>5, <1>6 DEF WorkerStep, BatchStep

(* Reports and the children of a batch touch none of this. *)
Aside ==
  \/ \E t \in Batch : ChildStep(t)
  \/ \E t \in Task : BeginReport(t)
  \/ \E r \in Reporter : ReporterStep(r)
  \/ UIReport \/ LockoutExpires

LEMMA AsideShape ==
  ASSUME Aside
  PROVE  UNCHANGED <<taskVars, queue, accepted, spc, userActive, shut, ctxDone>>
<1>1. ASSUME NEW t \in Batch, ChildStep(t)
      PROVE  UNCHANGED <<taskVars, queue, accepted, spc, userActive, shut, ctxDone>>
  BY <1>1 DEF ChildStep, ChildReturn, ChildClose, BatchUnchanged, WorkerUnchanged
<1> QED
  BY <1>1 DEF Aside, BeginReport, ReporterStep, EnterReport, StoreLimit, StoreLockout, UIReport,
              LockoutExpires, QuotaUnchanged

LEMMA ShutdownShape ==
  ASSUME TypeOK, InQueue, ParentCancel \/ ShutdownBegin \/ ShutdownStep
  PROVE  LoopShape
<1> USE DEF ShutdownUnchanged
<1>1. CASE ShutdownDrain
  <2>1. PICK q \in Queue : Drain(q)
    BY <1>1, QueueValues DEF ShutdownDrain
  <2>2. queue[q] # <<>>
    BY <2>1 DEF Drain
  <2>3. Dequeues(q)
    BY <1>1, <2>1, <2>2, HeadQueued
    DEF Drain, ShutdownDrain, Dequeues, Moves, AnswersFollow, Answered, Unwinding
  <2> QED
    BY <2>3 DEF LoopShape
<1>2. CASE \/ ParentCancel \/ ShutdownBegin \/ ShutdownCancel \/ ShutdownClose
           \/ ShutdownUnlock \/ ShutdownJoin
  BY <1>2 DEF ParentCancel, ShutdownBegin, ShutdownCancel, ShutdownClose, ShutdownUnlock,
              ShutdownJoin, LoopShape, Stays
<1> QED
  BY <1>1, <1>2 DEF ShutdownStep

LEMMA Shape ==
  ASSUME TypeOK, InQueue, [Next]_vars
  PROVE  StepShape
<1>1. ASSUME NEW t \in Task, WorkerStep(t) PROVE StepShape
  BY <1>1, WorkerShape DEF StepShape, Advances, Works, Edge
<1>2. CASE Aside
  BY <1>2, AsideShape DEF StepShape, Stays
<1>3. CASE UNCHANGED vars
  BY <1>3 DEF StepShape, Stays
<1> QED
  BY <1>1, <1>2, <1>3, AdmissionShape, SupervisorShape, ShutdownShape
     DEF Next, Aside, Terminated, StepShape, LoopShape

-----------------------------------------------------------------------------
(* Channels and answers. *)

Channels == InQueue /\ OnceQueued /\ AllQueued
History == UserFifo /\ AcceptedOnce /\ AcceptedAdmitted

LEMMA InitSafe == Init => Channels /\ History /\ AnsweredOnce
<1> SUFFICES ASSUME Init PROVE Channels /\ History /\ AnsweredOnce
  OBVIOUS
<1>1. /\ \A q \in Queue : queue[q] = <<>> /\ Len(queue[q]) = 0
      /\ accepted = <<>> /\ Len(accepted) = 0
      /\ \A t \in Task : pc[t] = "new" /\ answers[t] = 0
  BY DEF Init
<1>2. Channels
  BY <1>1 DEF Channels, InQueue, OnceQueued, AllQueued
<1>3. History
  BY <1>1, QueueValues DEF History, UserFifo, AcceptedOnce, AcceptedAdmitted
<1>4. AnsweredOnce
  BY <1>1 DEF AnsweredOnce, Unwinding
<1> QED
  BY <1>2, <1>3, <1>4

LEMMA EnqueueSafe ==
  ASSUME TypeOK, Channels, History, NEW t \in Task, Enqueue(t)
  PROVE  Channels' /\ History'
<1> DEFINE q == QueueFor(t)
           s == queue[q]
<1>1. q \in Queue /\ s \in Seq(Task) /\ queue \in [Queue -> Seq(Task)] /\ pc \in [Task -> Phase]
  BY QueueValues DEF TypeOK, TaskTypeOK, LoopTypeOK
<1>2. /\ pc[t] = "admitting" /\ pc' = [pc EXCEPT ![t] = "queued"]
      /\ queue' = [queue EXCEPT ![q] = Append(s, t)]
      /\ accepted' = IF IsUser(t) THEN Append(accepted, t) ELSE accepted
  BY DEF Enqueue
<1>3. /\ Len(queue'[q]) = Len(s) + 1 /\ queue'[q][Len(s) + 1] = t
      /\ \A k \in 1..Len(s) : queue'[q][k] = s[k]
      /\ \A p \in Queue \ {q} : queue'[p] = queue[p]
      /\ Len(s) \in Nat
  BY <1>1, <1>2
<1>4. \A p \in Queue : \A k \in 1..Len(queue[p]) : queue[p][k] # t /\ queue[p][k] \in Task
  BY <1>1, <1>2 DEF Channels, InQueue
<1> HIDE DEF q, s
<1>5. InQueue'
  <2> SUFFICES ASSUME NEW p \in Queue, NEW k \in 1..Len(queue'[p])
               PROVE  pc'[queue'[p][k]] = "queued" /\ QueueFor(queue'[p][k]) = p
    BY DEF InQueue, QueueFor, IsUser
  <2>1. CASE p = q /\ k = Len(s) + 1
    BY <2>1, <1>1, <1>2, <1>3 DEF q
  <2>2. CASE ~(p = q /\ k = Len(s) + 1)
    <3>1. k \in 1..Len(queue[p]) /\ queue'[p][k] = queue[p][k]
      BY <2>2, <1>3 DEF s
    <3> QED
      BY <3>1, <1>1, <1>2, <1>4 DEF Channels, InQueue
  <2> QED
    BY <2>1, <2>2
<1>6. OnceQueued'
  <2>1. \A j, k \in 1..Len(queue'[q]) : queue'[q][j] = queue'[q][k] => j = k
    <3>1. \A j \in 1..Len(queue'[q]) : j \in 1..Len(s) \/ j = Len(s) + 1
      BY <1>3
    <3>2. /\ \A j, k \in 1..Len(s) : s[j] = s[k] => j = k
          /\ \A k \in 1..Len(s) : s[k] # t
      BY <1>1, <1>4 DEF Channels, OnceQueued, s
    <3> QED
      BY <1>3, <3>1, <3>2
  <2> QED
    BY <1>3, <2>1 DEF Channels, OnceQueued
<1>7. AllQueued'
  <2> SUFFICES ASSUME NEW u \in Task, pc'[u] = "queued"
               PROVE  \E k \in 1..Len(queue'[QueueFor(u)]) : queue'[QueueFor(u)][k] = u
    BY DEF AllQueued, QueueFor, IsUser
  <2>1. CASE u = t
    BY <2>1, <1>3 DEF q
  <2>2. CASE u # t
    <3>1. PICK k \in 1..Len(queue[QueueFor(u)]) : queue[QueueFor(u)][k] = u
      BY <2>2, <1>1, <1>2 DEF Channels, AllQueued
    <3>2. CASE QueueFor(u) = q
      BY <3>1, <3>2, <1>3 DEF s
    <3>3. CASE QueueFor(u) # q
      BY <3>1, <3>3, <1>3, QueueValues
    <3> QED
      BY <3>2, <3>3
  <2> QED
    BY <2>1, <2>2
<1>8. History'
  <2>1. CASE ~IsUser(t)
    <3>1. q # "high" /\ UNCHANGED accepted /\ queue'["high"] = queue["high"]
      BY <2>1, <1>2, <1>3, QueueValues DEF q, QueueFor
    <3>2. UserFifo' /\ AcceptedOnce'
      BY <3>1 DEF History, UserFifo, AcceptedOnce, Gone
    <3>3. AcceptedAdmitted'
      BY <3>1, <1>1, <1>2 DEF History, AcceptedAdmitted, IsUser, LoopTypeOK, TypeOK
    <3> QED
      BY <3>2, <3>3 DEF History
  <2>2. CASE IsUser(t)
    <3>1. q = "high" /\ accepted \in Seq(Task) /\ accepted' = Append(accepted, t)
      BY <2>2, <1>2 DEF q, QueueFor, TypeOK, LoopTypeOK
    <3>2. /\ Len(accepted') = Len(accepted) + 1 /\ accepted'[Len(accepted) + 1] = t
          /\ \A k \in 1..Len(accepted) : accepted'[k] = accepted[k] /\ accepted[k] \in Task
          /\ Len(accepted) \in Nat
      BY <3>1
    <3>3. UserFifo'
      <4>1. Len(s) <= Len(accepted) /\ \A k \in 1..Len(s) : s[k] = accepted[Len(accepted) - Len(s) + k]
        BY <3>1 DEF History, UserFifo, Gone, s
      <4>2. Len(queue'["high"]) <= Len(accepted')
        BY <4>1, <3>1, <3>2, <1>3
      <4>3. ASSUME NEW k \in 1..Len(queue'["high"])
            PROVE  queue'["high"][k] = accepted'[Len(accepted') - Len(queue'["high"]) + k]
        <5>1. CASE k = Len(s) + 1
          BY <5>1, <4>1, <3>1, <3>2, <1>3
        <5>2. CASE k # Len(s) + 1
          <6>1. k \in 1..Len(s) /\ queue'["high"][k] = s[k]
            BY <5>2, <3>1, <1>3
          <6>2. Len(accepted) - Len(s) + k \in 1..Len(accepted)
            BY <6>1, <4>1, <3>2, <1>3
          <6> QED
            BY <6>1, <6>2, <4>1, <3>1, <3>2, <1>3
        <5> QED
          BY <5>1, <5>2
      <4> QED
        BY <4>2, <4>3 DEF UserFifo, Gone
    <3>4. \A k \in 1..Len(accepted) : accepted[k] # t
      BY <1>2 DEF History, AcceptedAdmitted
    <3>5. AcceptedOnce'
      BY <3>2, <3>4 DEF History, AcceptedOnce
    <3>6. AcceptedAdmitted'
      BY <1>1, <1>2, <2>2, <3>2 DEF History, AcceptedAdmitted, IsUser
    <3> QED
      BY <3>3, <3>5, <3>6 DEF History
  <2> QED
    BY <2>1, <2>2
<1> QED
  BY <1>5, <1>6, <1>7, <1>8 DEF Channels

LEMMA DequeueSafe ==
  ASSUME TypeOK, Channels, History, NEW q \in Queue, Dequeues(q)
  PROVE  Channels' /\ History'
<1> DEFINE s == queue[q]
           h == Head(s)
<1>1. /\ s \in Seq(Task) /\ s # <<>> /\ queue \in [Queue -> Seq(Task)] /\ pc \in [Task -> Phase]
      /\ queue' = [queue EXCEPT ![q] = Tail(s)] /\ UNCHANGED accepted /\ pc[h] = "queued"
      /\ \E to \in {"spawned", "finished"} : pc' = [pc EXCEPT ![h] = to]
  BY DEF TypeOK, TaskTypeOK, LoopTypeOK, Dequeues, Moves
<1>2. /\ h = s[1] /\ h \in Task /\ Len(s) \in Nat \ {0}
      /\ Len(queue'[q]) = Len(s) - 1
      /\ \A k \in 1..Len(s) - 1 : queue'[q][k] = s[k + 1]
      /\ \A p \in Queue \ {q} : queue'[p] = queue[p]
  BY <1>1
<1>3. QueueFor(h) = q
  BY <1>2 DEF Channels, InQueue
<1>4. \A p \in Queue : \A k \in 1..Len(queue[p]) :
        queue[p][k] \in Task /\ (queue[p][k] = h => p = q /\ k = 1)
  BY <1>1, <1>2, <1>3 DEF Channels, InQueue, OnceQueued
<1> HIDE DEF s, h
<1>5. \A p \in Queue : \A k \in 1..Len(queue'[p]) :
        \E j \in 1..Len(queue[p]) : queue'[p][k] = queue[p][j] /\ (p = q => j = k + 1)
                                    /\ (p # q => j = k)
  <2> SUFFICES ASSUME NEW p \in Queue, NEW k \in 1..Len(queue'[p])
               PROVE  \E j \in 1..Len(queue[p]) : queue'[p][k] = queue[p][j] /\ (p = q => j = k + 1)
                                    /\ (p # q => j = k)
    OBVIOUS
  <2>1. CASE p = q
    BY <2>1, <1>2 DEF s
  <2>2. CASE p # q
    BY <2>2, <1>2
  <2> QED
    BY <2>1, <2>2
<1>6. InQueue'
  <2> SUFFICES ASSUME NEW p \in Queue, NEW k \in 1..Len(queue'[p])
               PROVE  pc'[queue'[p][k]] = "queued" /\ QueueFor(queue'[p][k]) = p
    BY DEF InQueue, QueueFor, IsUser
  <2>1. PICK j \in 1..Len(queue[p]) : queue'[p][k] = queue[p][j] /\ (p = q => j = k + 1)
    BY <1>5
  <2>2. queue[p][j] # h
    BY <1>4, <2>1
  <2> QED
    BY <1>1, <1>4, <2>1, <2>2 DEF Channels, InQueue
<1>7. OnceQueued'
  BY <1>5 DEF Channels, OnceQueued
<1>8. AllQueued'
  <2> SUFFICES ASSUME NEW u \in Task, pc'[u] = "queued"
               PROVE  \E k \in 1..Len(queue'[QueueFor(u)]) : queue'[QueueFor(u)][k] = u
    BY DEF AllQueued, QueueFor, IsUser
  <2>1. u # h /\ pc[u] = "queued"
    BY <1>1, <1>2
  <2>2. PICK k \in 1..Len(queue[QueueFor(u)]) : queue[QueueFor(u)][k] = u
    BY <2>1 DEF Channels, AllQueued
  <2>3. CASE QueueFor(u) = q
    <3>1. k # 1
      BY <2>1, <2>2, <2>3, <1>2 DEF s
    <3>2. k - 1 \in 1..Len(queue'[q]) /\ queue'[q][k - 1] = u
      BY <3>1, <2>2, <2>3, <1>2 DEF s
    <3> QED
      BY <3>2, <2>3
  <2>4. CASE QueueFor(u) # q
    BY <2>2, <2>4, <1>2, QueueValues
  <2> QED
    BY <2>3, <2>4
<1>9. UserFifo'
  <2>1. Len(accepted) \in Nat /\ Len(queue["high"]) \in Nat
    BY <1>1, QueueValues DEF TypeOK, LoopTypeOK
  <2>2. CASE q = "high"
    BY <2>1, <2>2, <1>1, <1>2 DEF History, UserFifo, Gone, s
  <2>3. CASE q # "high"
    BY <2>3, <1>1, <1>2, QueueValues DEF History, UserFifo, Gone
  <2> QED
    BY <2>2, <2>3
<1>10. AcceptedOnce' /\ AcceptedAdmitted'
  <2>1. \A i \in 1..Len(accepted) : accepted[i] \in Task
    BY DEF TypeOK, LoopTypeOK
  <2> QED
    BY <2>1, <1>1 DEF History, AcceptedOnce, AcceptedAdmitted, IsUser
<1> QED
  BY <1>6, <1>7, <1>8, <1>9, <1>10 DEF Channels, History

LEMMA AdvanceSafe ==
  ASSUME TypeOK, Channels, History, NEW t \in Task, Advances(t)
  PROVE  Channels' /\ History'
<1>1. PICK to \in Phase : Edge(pc[t], to) /\ pc' = [pc EXCEPT ![t] = to] /\ UNCHANGED <<queue, accepted>>
  BY DEF Advances, Moves
<1>2. /\ pc[t] # "queued" /\ to # "queued"
      /\ pc[t] \notin {"new", "admitting"} => to \notin {"new", "admitting"}
  BY <1>1 DEF Edge, AdmitEdge, WorkEdge, Acquiring, Executing, Unwinding
<1>3. /\ \A q \in Queue : \A k \in 1..Len(queue[q]) : queue[q][k] \in Task
      /\ \A i \in 1..Len(accepted) : accepted[i] \in Task
      /\ pc \in [Task -> Phase]
  BY DEF TypeOK, TaskTypeOK, LoopTypeOK
<1>4. Channels'
  BY <1>1, <1>2, <1>3 DEF Channels, InQueue, OnceQueued, AllQueued, QueueFor, IsUser
<1>5. History'
  BY <1>1, <1>2, <1>3 DEF History, UserFifo, Gone, AcceptedOnce, AcceptedAdmitted, IsUser
<1> QED
  BY <1>4, <1>5

LEMMA ChannelsStep ==
  ASSUME TypeOK, Channels, History, [Next]_vars
  PROVE  Channels' /\ History'
<1>1. CASE Stays
  <2>1. InQueue' /\ OnceQueued'
    BY <1>1 DEF Stays, Channels, InQueue, OnceQueued, QueueFor, IsUser
  <2>2. AllQueued'
    BY <1>1 DEF Stays, Channels, AllQueued, QueueFor, IsUser
  <2>3. History'
    BY <1>1 DEF Stays, History, UserFifo, Gone, AcceptedOnce, AcceptedAdmitted, IsUser
  <2> QED
    BY <2>1, <2>2, <2>3 DEF Channels
<1> QED
  BY <1>1, Shape, AdvanceSafe, EnqueueSafe, DequeueSafe DEF StepShape, Channels

LEMMA AnswersStep ==
  ASSUME TypeOK, Channels, AnsweredOnce, [Next]_vars
  PROVE  AnsweredOnce'
<1> USE DEF AnsweredOnce, Answered
<1>1. ASSUME NEW t \in Task, NEW to, pc[t] \notin Answered \/ to \in Answered, Moves(t, to)
      PROVE  AnsweredOnce'
  BY <1>1 DEF Moves, AnswersFollow, TypeOK, TaskTypeOK
<1>2. CASE Stays
  BY <1>2 DEF Stays
<1>3. ASSUME NEW t \in Task, Advances(t) PROVE AnsweredOnce'
  <2>1. PICK to \in Phase : Edge(pc[t], to) /\ Moves(t, to)
    BY <1>3 DEF Advances
  <2>2. pc[t] \notin Answered \/ to \in Answered
    BY <2>1 DEF Edge, AdmitEdge, WorkEdge, Unwinding, Acquiring, Executing
  <2> QED
    BY <1>1, <2>1, <2>2
<1>4. ASSUME NEW t \in Task, Enqueue(t) PROVE AnsweredOnce'
  BY <1>4 DEF Enqueue, TypeOK, TaskTypeOK, Unwinding
<1>5. ASSUME NEW q \in Queue, Dequeues(q) PROVE AnsweredOnce'
  <2>1. queue[q] # <<>>
    BY <1>5 DEF Dequeues
  <2>2. Head(queue[q]) \in Task
    BY <2>1, HeadQueued DEF Channels
  <2>3. PICK to \in {"spawned", "finished"} : pc[Head(queue[q])] = "queued" /\ Moves(Head(queue[q]), to)
    BY <1>5 DEF Dequeues
  <2>4. pc[Head(queue[q])] \notin Answered
    BY <2>3 DEF Unwinding
  <2> QED
    BY <1>1, <2>2, <2>3, <2>4
<1> QED
  BY <1>2, <1>3, <1>4, <1>5, Shape DEF StepShape, Channels

-----------------------------------------------------------------------------
(* The gate of Shutdown. *)

LEMMA WorkValues ==
  ASSUME NEW from, NEW to, WorkEdge(from, to)
  PROVE  /\ from \in Working /\ to \in Working \cup {"finished"}
         /\ from # "queued" /\ to \notin {"admitting", "queued", "spawned"}
BY DEF WorkEdge, Working, Acquiring, Executing, Unwinding

LEMMA AdmitValues ==
  ASSUME NEW from, NEW to, AdmitEdge(from, to)
  PROVE  from \notin Working \cup {"queued"} /\ to \notin Working \cup {"queued"}
BY DEF AdmitEdge, Working, Acquiring, Executing, Unwinding

LEMMA GateStep ==
  ASSUME TypeOK, Channels, Gate, [Next]_vars
  PROVE  Gate'
<1> DEFINE Kept == /\ \A t \in Task : pc'[t] = "admitting" => pc[t] = "admitting"
                   /\ Drained => Drained'
<1>1. ASSUME Kept, UNCHANGED <<shut, ctxDone>> PROVE Gate'
  BY <1>1 DEF Gate
<1>2. ASSUME LoopShape PROVE Kept
  <2>1. CASE Stays
    BY <2>1 DEF Stays, Drained
  <2>2. ASSUME NEW q \in Queue, Dequeues(q) PROVE Kept
    <3>1. queue[q] # <<>> /\ ~Drained
      BY <2>2 DEF Dequeues, Drained
    <3>2. PICK to \in {"spawned", "finished"} : pc' = [pc EXCEPT ![Head(queue[q])] = to]
      BY <2>2 DEF Dequeues, Moves
    <3> QED
      BY <3>1, <3>2 DEF TypeOK, TaskTypeOK
  <2> QED
    BY <1>2, <2>1, <2>2 DEF LoopShape
<1>3. ASSUME NEW t \in Task, WorkerStep(t) PROVE Gate'
  <2>1. PICK to \in Phase : /\ WorkEdge(pc[t], to) /\ pc' = [pc EXCEPT ![t] = to]
                            /\ UNCHANGED <<queue, shut, ctxDone>>
    BY <1>3, WorkerShape DEF Works, Moves
  <2>2. Kept
    BY <2>1, WorkValues DEF TypeOK, TaskTypeOK, Drained
  <2> QED
    BY <1>1, <2>1, <2>2
<1>4. ASSUME NEW t \in Task, Enter(t) PROVE Gate'
  <2>1. CASE Done
    <3>1. pc' = [pc EXCEPT ![t] = "refused"] /\ UNCHANGED <<queue, shut, ctxDone>>
      BY <1>4, <2>1 DEF Enter
    <3>2. Kept
      BY <3>1 DEF TypeOK, TaskTypeOK, Drained
    <3> QED
      BY <1>1, <3>1, <3>2
  <2>2. CASE ~Done
    <3>1. shut = "open" /\ shut' = shut
      BY <1>4, <2>2 DEF Enter, Done, WriterWaitsOrHolds, TypeOK, LoopTypeOK, ShutPhase
    <3> QED
      BY <3>1 DEF Gate
  <2> QED
    BY <2>1, <2>2
<1>5. ASSUME NEW t \in Task, AdmitStep(t) PROVE Gate'
  <2>1. pc[t] = "admitting" /\ shut' = shut
    BY <1>5 DEF AdmitStep, Enqueue, AdmitCancelled, RefuseFull
  <2>2. shut \in {"open", "locking"}
    BY <2>1 DEF Gate
  <2> QED
    BY <2>1, <2>2 DEF Gate
<1>6. ASSUME NEW t \in Task, Cancel(t) PROVE Gate'
  BY <1>1, <1>6 DEF Cancel, Drained
<1>7. CASE SupervisorNext
  <2>1. UNCHANGED <<shut, ctxDone>>
    BY <1>7 DEF SupervisorNext, SupervisorPoll, SupervisorUser, SupervisorReserve, SupervisorClaim,
                SupervisorBackground, SupervisorWait, SupervisorUnchanged
  <2> QED
    BY <1>1, <1>2, <1>7, <2>1, SupervisorShape DEF Channels
<1>8. CASE Aside
  BY <1>1, <1>8, AsideShape DEF Drained
<1>9. CASE ParentCancel \/ ShutdownBegin \/ ShutdownStep
  <2>1. Kept
    BY <1>2, <1>9, ShutdownShape DEF Channels
  <2> HIDE DEF Kept
  <2>2. CASE ParentCancel
    BY <2>1, <2>2 DEF ParentCancel, Gate, Kept
  <2>3. CASE ShutdownBegin
    BY <2>3 DEF ShutdownBegin, Gate
  <2>4. CASE ShutdownCancel
    BY <2>4 DEF ShutdownCancel, Gate, Readers
  <2>5. CASE ShutdownClose
    BY <2>1, <2>5 DEF ShutdownClose, Gate, Kept
  <2>6. CASE ShutdownDrain
    BY <1>1, <2>1, <2>6 DEF ShutdownDrain
  <2>7. CASE ShutdownUnlock \/ ShutdownJoin
    BY <2>1, <2>7 DEF ShutdownUnlock, ShutdownJoin, Gate, Kept
  <2> QED
    BY <1>9, <2>2, <2>3, <2>4, <2>5, <2>6, <2>7 DEF ShutdownStep
<1>10. CASE UNCHANGED vars
  BY <1>1, <1>10 DEF Drained
<1> QED
  BY <1>3, <1>4, <1>5, <1>6, <1>7, <1>8, <1>9, <1>10 DEF Next, Aside, Terminated

-----------------------------------------------------------------------------
(* The user slot. *)

LEMMA SlotKept ==
  ASSUME UserSlot, UNCHANGED userActive,
         \A u \in Task : IsUser(u) => (pc'[u] \in Working <=> pc[u] \in Working),
         spc' \in {"claim", "background"} => spc \in {"claim", "background"} \/ ~userActive
  PROVE  UserSlot'
BY DEF UserSlot, IsUser

LEMMA WorkerSlot ==
  ASSUME TypeOK, UserSlot, NEW t \in Task, WorkerStep(t)
  PROVE  UserSlot'
<1>1. PICK to \in Phase :
        /\ WorkEdge(pc[t], to) /\ pc' = [pc EXCEPT ![t] = to] /\ UNCHANGED spc
        /\ IF to = "finished" /\ IsUser(t) THEN ~userActive' ELSE UNCHANGED userActive
  BY WorkerShape DEF Works, Moves
<1>2. pc[t] \in Working /\ (to = "finished" \/ to \in Working)
  BY <1>1, WorkValues
<1>3. "finished" \notin Working
  BY DEF Working, Acquiring, Executing, Unwinding
<1>4. CASE to # "finished"
  BY <1>1, <1>2, <1>4, SlotKept DEF TypeOK, TaskTypeOK
<1>5. CASE to = "finished" /\ ~IsUser(t)
  BY <1>1, <1>5, SlotKept DEF TypeOK, TaskTypeOK
<1>6. CASE to = "finished" /\ IsUser(t)
  <2>1. ~userActive'
    BY <1>1, <1>6
  <2>2. \A u \in Task : IsUser(u) => pc'[u] \notin Working
    BY <1>1, <1>2, <1>3, <1>6 DEF UserSlot, TypeOK, TaskTypeOK
  <2> QED
    BY <2>1, <2>2 DEF UserSlot, IsUser
<1> QED
  BY <1>4, <1>5, <1>6

LEMMA SupervisorSlot ==
  ASSUME TypeOK, Channels, UserSlot, SupervisorNext
  PROVE  UserSlot'
<1> USE DEF SupervisorUnchanged
<1>1. CASE SupervisorPoll \/ SupervisorReserve \/ SupervisorClaim \/ SupervisorWait
  <2>1. /\ UNCHANGED <<pc, userActive>>
        /\ spc' \in {"claim", "background"} => spc \in {"claim", "background"} \/ ~userActive'
    BY <1>1 DEF SupervisorPoll, SupervisorReserve, SupervisorClaim, SupervisorWait
  <2> QED
    BY <2>1, SlotKept
<1>2. CASE SupervisorUser
  <2>1. CASE UserTurn
    <3> DEFINE h == Head(queue["high"])
    <3>1. h \in Task /\ pc[h] = "queued" /\ IsUser(h)
      BY <2>1, QueueValues, HeadQueued DEF UserTurn, Channels, QueueFor
    <3>2. pc' = [pc EXCEPT ![h] = "spawned"] /\ userActive' /\ spc' = "poll"
      BY <1>2, <2>1 DEF SupervisorUser
    <3> HIDE DEF h
    <3>3. \A u \in Task : IsUser(u) => pc[u] \notin Working
      BY <2>1 DEF UserTurn, UserSlot
    <3>4. \A u \in Task : IsUser(u) => (pc'[u] \in Working <=> u = h)
      BY <3>1, <3>2, <3>3 DEF TypeOK, TaskTypeOK, Working
    <3> QED
      BY <3>1, <3>2, <3>4 DEF UserSlot, IsUser
  <2>2. CASE ~UserTurn
    BY <1>2, <2>2, SlotKept DEF SupervisorUser
  <2> QED
    BY <2>1, <2>2
<1>3. CASE SupervisorBackground
  <2>1. UNCHANGED userActive /\ spc' \in {"poll", "wait"}
    BY <1>3 DEF SupervisorBackground, DequeueBackground
  <2>2. ASSUME NEW q \in {"med", "low"}, DequeueBackground(q) PROVE UserSlot'
    <3>1. Head(queue[q]) \in Task /\ ~IsUser(Head(queue[q]))
      BY <2>2, QueueValues, HeadQueued DEF DequeueBackground, Channels, QueueFor
    <3>2. pc' = [pc EXCEPT ![Head(queue[q])] = "spawned"]
      BY <2>2 DEF DequeueBackground
    <3> QED
      BY <2>1, <3>1, <3>2, SlotKept DEF TypeOK, TaskTypeOK
  <2>3. CASE UNCHANGED pc
    BY <2>1, <2>3, SlotKept
  <2> QED
    BY <1>3, <2>2, <2>3 DEF SupervisorBackground
<1> QED
  BY <1>1, <1>2, <1>3 DEF SupervisorNext

LEMMA SlotStep ==
  ASSUME TypeOK, Channels, UserSlot, [Next]_vars
  PROVE  UserSlot'
<1>1. ASSUME NEW t \in Task, NEW to, pc' = [pc EXCEPT ![t] = to], UNCHANGED <<spc, userActive>>,
             pc[t] \in {"new", "admitting", "queued"}, to \in {"admitting", "queued", "refused", "finished"}
      PROVE  UserSlot'
  <2>1. pc[t] \notin Working /\ to \notin Working
    BY <1>1 DEF Working, Acquiring, Executing, Unwinding
  <2> QED
    BY <1>1, <2>1, SlotKept DEF TypeOK, TaskTypeOK
<1>2. ASSUME NEW t \in Task, Enter(t) \/ AdmitStep(t) PROVE UserSlot'
  <2>1. PICK to \in {"admitting", "queued", "refused", "finished"} : pc' = [pc EXCEPT ![t] = to]
    BY <1>2 DEF Enter, AdmitStep, Enqueue, AdmitCancelled, RefuseFull
  <2>2. pc[t] \in {"new", "admitting"} /\ UNCHANGED <<spc, userActive>>
    BY <1>2 DEF Enter, AdmitStep, Enqueue, AdmitCancelled, RefuseFull
  <2> QED
    BY <1>1, <2>1, <2>2
<1>3. ASSUME NEW t \in Task, Cancel(t) PROVE UserSlot'
  BY <1>3, SlotKept DEF Cancel
<1>4. CASE Aside
  BY <1>4, AsideShape, SlotKept
<1>5. ASSUME NEW q \in Queue, Drain(q), ShutdownUnchanged PROVE UserSlot'
  <2>1. Head(queue[q]) \in Task /\ pc[Head(queue[q])] = "queued"
    BY <1>5, HeadQueued DEF Drain, Channels
  <2> QED
    BY <1>1, <1>5, <2>1 DEF Drain, ShutdownUnchanged
<1>6. CASE ParentCancel \/ ShutdownBegin \/ ShutdownStep
  <2>1. CASE ShutdownDrain
    BY <1>5, <2>1, QueueValues DEF ShutdownDrain
  <2>2. CASE ~ShutdownDrain
    BY <1>6, <2>2, SlotKept DEF ParentCancel, ShutdownBegin, ShutdownStep, ShutdownCancel,
      ShutdownClose, ShutdownUnlock, ShutdownJoin, ShutdownUnchanged
  <2> QED
    BY <2>1, <2>2
<1>7. CASE UNCHANGED vars
  BY <1>7, SlotKept
<1> QED
  BY <1>2, <1>3, <1>4, <1>6, <1>7, SupervisorSlot, WorkerSlot DEF Next, Aside, Terminated

-----------------------------------------------------------------------------
(* The invariant of the loop, and what it implies. *)

LoopInv ==
  TypeOK /\ NextInRange /\ Channels /\ History /\ AnsweredOnce /\ Gate /\ UserSlot

LEMMA LoopInit == Init => LoopInv
<1> SUFFICES ASSUME Init PROVE Gate /\ UserSlot
  BY TypesInit, InitSafe DEF LoopInv
<1>1. shut = "open" /\ spc = "poll" /\ ~userActive /\ \A t \in Task : pc[t] = "new"
  BY DEF Init
<1> QED
  BY <1>1 DEF Gate, UserSlot, Working, Acquiring, Executing, Unwinding

LEMMA LoopStep == LoopInv /\ [Next]_vars => LoopInv'
BY TypesStep, ChannelsStep, AnswersStep, GateStep, SlotStep DEF LoopInv

LEMMA LoopInvariant == Spec => []LoopInv
BY LoopInit, LoopStep, PTL DEF Spec

(* No second value is ever sent on a response channel, and none is missing *)
(* once the task is past its answer.                                       *)
THEOREM AnswersAreUnique == Spec => []AnsweredOnce
<1>1. LoopInv => AnsweredOnce
  BY DEF LoopInv
<1> QED
  BY <1>1, LoopInvariant, PTL

(* Whatever is accepted can be found by the supervisor or by the drain,    *)
(* until one of them has taken it.                                         *)
THEOREM NothingIsStranded == Spec => []NothingStranded
<1>1. LoopInv => NothingStranded
  <2> SUFFICES ASSUME LoopInv PROVE NothingStranded
    OBVIOUS
  <2>1. \A q \in Queue : queue[q] \in Seq(Task)
    BY DEF LoopInv, TypeOK, LoopTypeOK
  <2>2. \A t \in Task : DOMAIN queue[QueueFor(t)] = 1..Len(queue[QueueFor(t)])
    BY <2>1, QueueValues
  <2>3. ASSUME NEW t \in Task
        PROVE  pc[t] = "queued" <=> \E k \in DOMAIN queue[QueueFor(t)] : queue[QueueFor(t)][k] = t
    BY <2>2, QueueValues DEF LoopInv, Channels, AllQueued, InQueue
  <2>4. ASSUME Drained, NEW t \in Task PROVE pc[t] # "queued"
    BY <2>3, <2>4, QueueValues DEF Drained
  <2> QED
    BY <2>3, <2>4 DEF NothingStranded, LoopInv, Gate
<1> QED
  BY <1>1, LoopInvariant, PTL

(* User tasks run one at a time and in the order in which they were        *)
(* accepted.                                                               *)
THEOREM UserTasksRunInOrder == Spec => []UserOrder
<1>1. LoopInv => UserOrder
  <2> SUFFICES ASSUME LoopInv, NEW i \in DOMAIN accepted, NEW j \in DOMAIN accepted, i < j,
                      pc[accepted[j]] \in Acquiring \cup Executing \cup {"answered"}
               PROVE  pc[accepted[i]] \notin {"queued", "spawned", "locking"} \cup Acquiring \cup Executing
    BY DEF UserOrder
  <2> DEFINE s == queue["high"]
  <2>1. /\ accepted \in Seq(Task) /\ s \in Seq(Task)
        /\ i \in 1..Len(accepted) /\ j \in 1..Len(accepted) /\ DOMAIN accepted = 1..Len(accepted)
        /\ accepted[i] \in Task /\ accepted[j] \in Task
        /\ IsUser(accepted[i]) /\ IsUser(accepted[j])
    <3>1. accepted \in Seq(Task) /\ s \in Seq(Task)
      BY QueueValues DEF LoopInv, TypeOK, LoopTypeOK
    <3>2. i \in 1..Len(accepted) /\ j \in 1..Len(accepted) /\ DOMAIN accepted = 1..Len(accepted)
      BY <3>1
    <3>3. accepted[i] \in Task /\ accepted[j] \in Task
      BY <3>1, <3>2
    <3> QED
      BY <3>1, <3>2, <3>3 DEF LoopInv, History, AcceptedAdmitted
  <2>2. /\ Len(s) \in Nat /\ Len(accepted) \in Nat /\ Len(s) <= Len(accepted)
        /\ \A k \in 1..Len(s) : s[k] = accepted[Len(accepted) - Len(s) + k] /\ pc[s[k]] = "queued"
    <3>1. \A k \in 1..Len(s) : pc[s[k]] = "queued"
      BY QueueValues DEF LoopInv, Channels, InQueue
    <3>2. Len(s) <= Len(accepted) /\ \A k \in 1..Len(s) : s[k] = accepted[Len(accepted) - Len(s) + k]
      BY DEF LoopInv, History, UserFifo, Gone
    <3>3. Len(s) \in Nat /\ Len(accepted) \in Nat
      BY <2>1
    <3> HIDE DEF s
    <3> QED
      BY <3>1, <3>2, <3>3
  <2>3. pc[accepted[j]] # "queued"
    BY DEF Acquiring, Executing
  <2> HIDE DEF s
  <2>4. j <= Len(accepted) - Len(s)
    <3> SUFFICES ASSUME j > Len(accepted) - Len(s) PROVE FALSE
      BY <2>1, <2>2
    <3>1. j - (Len(accepted) - Len(s)) \in 1..Len(s)
      BY <2>1, <2>2
    <3>2. accepted[Len(accepted) - Len(s) + (j - (Len(accepted) - Len(s)))] = accepted[j]
      BY <2>1, <2>2
    <3> QED
      BY <2>2, <2>3, <3>1, <3>2
  <2>5. pc[accepted[i]] # "queued"
    <3> SUFFICES ASSUME pc[accepted[i]] = "queued" PROVE FALSE
      OBVIOUS
    <3>1. PICK k \in 1..Len(s) : s[k] = accepted[i]
      BY <2>1 DEF LoopInv, Channels, AllQueued, QueueFor, s
    <3>2. Len(accepted) - Len(s) + k \in 1..Len(accepted) /\ Len(accepted) - Len(s) + k # i
      BY <2>1, <2>2, <2>4
    <3> QED
      BY <2>1, <2>2, <3>1, <3>2 DEF LoopInv, History, AcceptedOnce
  <2>6. accepted[i] # accepted[j]
    BY <2>1 DEF LoopInv, History, AcceptedOnce
  <2>7. pc[accepted[j]] \in Working
    BY DEF Working, Unwinding
  <2>8. pc[accepted[i]] \notin Working
    BY <2>1, <2>6, <2>7 DEF LoopInv, UserSlot
  <2> QED
    BY <2>5, <2>8 DEF Working
<1> QED
  BY <1>1, LoopInvariant, PTL

(* The supervisor dispatches no background task while a user task is       *)
(* active: the second look at userTaskActive is enough, because only the   *)
(* supervisor itself sets it.                                              *)
THEOREM UserWorkGoesFirst == Spec => NoBackgroundDuringUserWork
<1> DEFINE Quiet == \A t \in Task : ~IsUser(t) /\ pc[t] = "queued" /\ pc'[t] = "spawned" => ~userActive
<1>1. ASSUME LoopInv, [Next]_vars PROVE Quiet
  <2>1. SUFFICES ASSUME NEW t \in Task, ~IsUser(t), pc[t] = "queued", pc'[t] = "spawned" PROVE ~userActive
    OBVIOUS
  <2>2. pc \in [Task -> Phase]
    BY <1>1 DEF LoopInv, TypeOK, TaskTypeOK
  <2>3. ASSUME NEW u \in Task, Enter(u) \/ AdmitStep(u) \/ Cancel(u) PROVE FALSE
    BY <2>1, <2>2, <2>3 DEF Enter, AdmitStep, Enqueue, AdmitCancelled, RefuseFull, Cancel
  <2>4. ASSUME NEW u \in Task, WorkerStep(u) PROVE FALSE
    <3>1. PICK to \in Phase : WorkEdge(pc[u], to) /\ pc' = [pc EXCEPT ![u] = to]
      BY <1>1, <2>4, WorkerShape DEF Works, Moves, LoopInv
    <3> QED
      BY <2>1, <2>2, <3>1, WorkValues
  <2>5. CASE SupervisorNext
    <3>1. CASE SupervisorUser
      BY <2>1, <3>1 DEF SupervisorUser, UserTurn
    <3>2. CASE SupervisorBackground
      BY <1>1, <3>2, Zenon DEF SupervisorBackground, UserSlot, LoopInv
    <3>3. CASE SupervisorPoll \/ SupervisorReserve \/ SupervisorClaim \/ SupervisorWait
      BY <2>1, <3>3 DEF SupervisorPoll, SupervisorReserve, SupervisorClaim, SupervisorWait
    <3> QED
      BY <2>5, <3>1, <3>2, <3>3 DEF SupervisorNext
  <2>6. CASE Aside
    BY <2>1, <2>6, AsideShape
  <2>7. CASE ParentCancel \/ ShutdownBegin \/ ShutdownStep
    BY <2>1, <2>2, <2>7 DEF ParentCancel, ShutdownBegin, ShutdownStep, ShutdownCancel, ShutdownClose,
      ShutdownDrain, Drain, ShutdownUnlock, ShutdownJoin
  <2>8. CASE UNCHANGED vars
    BY <2>1, <2>8
  <2> QED
    BY <1>1, <2>3, <2>4, <2>5, <2>6, <2>7, <2>8 DEF Next, Aside, Terminated
<1>2. LoopInv /\ [Next]_vars => [Quiet]_vars
  BY <1>1
<1> QED
  BY <1>2, LoopInvariant, PTL DEF Spec, NoBackgroundDuringUserWork

=============================================================================
