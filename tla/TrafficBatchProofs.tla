------------------------- MODULE TrafficBatchProofs -------------------------
(* Batches and permits of TrafficController, for every set of tasks, batch *)
(* size, batch limit and worker limit: what a batch reports, when it falls *)
(* short, and who holds the permits that activeWorkersCount counts.        *)
EXTENDS TrafficControllerProofs

USE DEF vars, taskVars, quotaVars, batchVars, Goto, Answer, Refuse

-----------------------------------------------------------------------------
(* The invariant of one batch. *)

Looping == Acquiring \cup {"filling", "collecting"}
Outside == {"new", "admitting", "queued", "refused", "spawned", "locking",
            "preparing", "running", "skipped", "yielded"}

(* Children run in the loop only; each was started, and has a verdict once *)
(* its call has returned.                                                  *)
ChildrenOf(t) ==
  /\ pc[t] \notin Looping \cup {"joining"} => \A i \in ID : child[t][i] \in {"pending", "closed"}
  /\ \A i \in ID : child[t][i] # "pending" => i < next[t]
  /\ \A i \in ID : child[t][i] \in {"sent", "closed"} => verdict[t][i] # "not_attempted"

(* No ID is recorded twice; the loop records started children, and ends    *)
(* with every ID recorded.                                                 *)
OutcomesOf(t) ==
  /\ \A o, p \in outcomes[t] : o.id = p.id => o = p
  /\ pc[t] \in Looping =>
       t \in committed /\ \A o \in outcomes[t] : o.id < next[t] /\ o.status # "not_attempted"
  /\ pc[t] = "joining" => t \in committed /\ Recorded(t) = ID
  /\ pc[t] = "answered" => IF t \in committed THEN Recorded(t) = ID ELSE outcomes[t] = {}
  /\ pc[t] \in Outside => t \notin committed /\ outcomes[t] = {}

(* A batch that collects with nothing in flight and IDs left has lost its  *)
(* context: it will not come back to fill.                                 *)
WaitsOf(t) ==
  pc[t] = "collecting" /\ next[t] <= BatchSize /\ InFlight(t) = {} => CtxErr(t)

ShortOf(t) ==
  result[t] = "nil" \/ (\E o \in outcomes[t] : o.status = "not_attempted") => CtxErr(t)

BatchOK(t) == ChildrenOf(t) /\ OutcomesOf(t) /\ WaitsOf(t) /\ ShortOf(t)

-----------------------------------------------------------------------------
(* What a step leaves alone. *)

Kept(t) ==
  /\ UNCHANGED <<next[t], child[t], verdict[t], outcomes[t]>>
  /\ t \in committed' <=> t \in committed

ContextKept(t) ==
  /\ CtxErr(t) => CtxErr(t)'
  /\ result'[t] = "nil" => result[t] = "nil" \/ CtxErr(t)'

Passes(from, to) ==
  \/ from = to
  \/ from \in Outside /\ to \in Outside \cup {"answered", "finished"}
  \/ from = "answered" /\ to = "finished"

LEMMA KeptOK ==
  ASSUME NEW t \in Batch, BatchOK(t), Kept(t), ContextKept(t), Passes(pc[t], pc'[t])
  PROVE  BatchOK(t)'
<1> USE DEF BatchOK, Kept, ContextKept, Passes, Outside, Looping, Acquiring
<1>1. ChildrenOf(t)'
  BY DEF ChildrenOf
<1>2. OutcomesOf(t)'
  BY DEF OutcomesOf, Recorded
<1>3. WaitsOf(t)'
  BY DEF WaitsOf, InFlight, Recorded
<1>4. ShortOf(t)'
  BY DEF ShortOf
<1> QED
  BY <1>1, <1>2, <1>3, <1>4

LEMMA ContextEnds ==
  ASSUME LoopInv, [Next]_vars, NEW t \in Batch
  PROVE  ContextKept(t)
<1> USE BatchValues DEF ContextKept, CtxErr, LoopInv, TypeOK, TaskTypeOK, LoopTypeOK
<1>1. ASSUME NEW u \in Task, Enter(u) \/ AdmitStep(u) \/ Cancel(u) PROVE ContextKept(t)
  BY <1>1 DEF Enter, AdmitStep, Enqueue, AdmitCancelled, RefuseFull, Cancel
<1>2. ASSUME NEW u \in Task, ApplyPolicy(u) PROVE ContextKept(t)
  BY <1>2 DEF ApplyPolicy, SkipTask, WorkerUnchanged, IsUser
<1>3. ASSUME NEW u \in Task, WorkerStep(u), ~ApplyPolicy(u) PROVE ContextKept(t)
  <2> USE DEF WorkerUnchanged, BatchUnchanged
  <2>1. CASE LockUser(u) \/ LoadLimit(u) \/ Claim(u) \/ ClaimFails(u) \/ Retry(u)
    BY <2>1 DEF LockUser, LoadLimit, Claim, ClaimFails, Retry
  <2>2. CASE GiveUp(u) \/ Return(u) \/ Finish(u)
    BY <2>2 DEF GiveUp, Return, Finish
  <2>3. CASE BatchStep(u)
    BY <2>3 DEF BatchStep, PrepareFails, PrepareLocal, PrepareRemote, Fill, RecordRest, Join, Collect
  <2> QED
    BY <1>3, <2>1, <2>2, <2>3 DEF WorkerStep
<1>4. CASE UNCHANGED <<result, cancelled, ctxDone>>
  BY <1>4
<1>5. CASE SupervisorNext
  BY <1>4, <1>5 DEF SupervisorNext, SupervisorPoll, SupervisorUser, SupervisorReserve, SupervisorClaim,
                SupervisorBackground, SupervisorWait, SupervisorUnchanged
<1>6. CASE Aside
  BY <1>4, <1>6, AsideShape
<1>7. ASSUME NEW q \in Queue, Drain(q), UNCHANGED ctxDone PROVE ContextKept(t)
  <2>1. Head(queue[q]) \in Task
    BY <1>7, HeadQueued DEF Drain, Channels
  <2> QED
    BY <1>7, <2>1 DEF Drain
<1>8. CASE ParentCancel \/ ShutdownBegin \/ ShutdownStep
  <2>1. CASE ShutdownDrain
    BY <1>7, <2>1, QueueValues DEF ShutdownDrain
  <2>2. CASE ~ShutdownDrain
    BY <1>8, <2>2 DEF ParentCancel, ShutdownBegin, ShutdownStep, ShutdownCancel,
      ShutdownClose, ShutdownUnlock, ShutdownJoin
  <2> QED
    BY <2>1, <2>2
<1> QED
  BY <1>1, <1>2, <1>3, <1>4, <1>5, <1>6, <1>8 DEF Next, Aside, Terminated

LEMMA OthersKeep ==
  ASSUME LoopInv, NEW t \in Batch, NEW u \in Task \ {t}, WorkerStep(u) \/ ChildStep(u)
  PROVE  Kept(t) /\ pc'[t] = pc[t]
<1> USE BatchValues DEF Kept, LoopInv, TypeOK, TaskTypeOK, BatchTypeOK, WorkerUnchanged, BatchUnchanged
<1>1. CASE ApplyPolicy(u) \/ LockUser(u) \/ LoadLimit(u) \/ ClaimFails(u) \/ Retry(u)
  BY <1>1 DEF ApplyPolicy, LockUser, LoadLimit, ClaimFails, Retry
<1>2. CASE Claim(u)
  BY <1>2 DEF Claim
<1>3. CASE GiveUp(u) \/ Return(u) \/ Finish(u)
  BY <1>3 DEF GiveUp, Return, Finish
<1>4. CASE BatchStep(u)
  BY <1>4 DEF BatchStep, PrepareFails, PrepareLocal, PrepareRemote, Fill, RecordRest, Join, Collect
<1>5. CASE ChildStep(u)
  BY <1>5 DEF ChildStep, ChildReturn, ChildClose
<1> QED
  BY <1>1, <1>2, <1>3, <1>4, <1>5 DEF WorkerStep

LEMMA QueuePasses ==
  ASSUME LoopInv, NEW t \in Batch,
         \/ \E u \in Task : Enter(u) \/ AdmitStep(u) \/ Cancel(u)
         \/ SupervisorNext \/ ParentCancel \/ ShutdownBegin \/ ShutdownStep
  PROVE  Kept(t) /\ Passes(pc[t], pc'[t])
<1> USE BatchValues DEF LoopInv, TypeOK, TaskTypeOK
<1>1. Kept(t)
  BY DEF Kept, Enter, AdmitStep, Enqueue, AdmitCancelled, RefuseFull, Cancel, SupervisorNext,
    SupervisorPoll, SupervisorUser, SupervisorReserve, SupervisorClaim, SupervisorBackground,
    SupervisorWait, SupervisorUnchanged, ParentCancel, ShutdownBegin, ShutdownStep, ShutdownCancel,
    ShutdownClose, ShutdownDrain, ShutdownUnlock, ShutdownJoin, ShutdownUnchanged
<1>2. ASSUME NEW u \in Task, Enter(u) \/ AdmitStep(u) \/ Cancel(u) PROVE Passes(pc[t], pc'[t])
  BY <1>2 DEF Enter, AdmitStep, Enqueue, AdmitCancelled, RefuseFull, Cancel, Passes, Outside
<1>3. ASSUME LoopShape PROVE Passes(pc[t], pc'[t])
  <2>1. ASSUME NEW q \in Queue, Dequeues(q) PROVE Passes(pc[t], pc'[t])
    <3>1. PICK to \in {"spawned", "finished"} :
            pc[Head(queue[q])] = "queued" /\ pc' = [pc EXCEPT ![Head(queue[q])] = to]
      BY <2>1 DEF Dequeues, Moves
    <3> QED
      BY <3>1 DEF Passes, Outside
  <2> QED
    BY <1>3, <2>1 DEF LoopShape, Stays, Passes
<1> QED
  BY <1>1, <1>2, <1>3, SupervisorShape, ShutdownShape DEF Channels

LEMMA LoopMoveOK ==
  ASSUME LoopInv, NEW t \in Batch, BatchOK(t), ContextKept(t), Kept(t),
         LoadLimit(t) \/ ClaimFails(t) \/ Retry(t) \/ GiveUp(t) \/ Fill(t)
  PROVE  BatchOK(t)'
<1>1. pc[t] \in Looping /\ pc'[t] \in Looping
  BY BatchValues DEF LoadLimit, ClaimFails, Retry, GiveUp, Fill, Looping, Acquiring, LoopInv, TypeOK, TaskTypeOK
<1>2. ChildrenOf(t)' /\ OutcomesOf(t)'
  <2>1. pc'[t] \notin {"joining", "answered"} \cup Outside
    BY <1>1 DEF Looping, Acquiring, Outside
  <2>2. ChildrenOf(t)'
    BY <1>1 DEF Kept, BatchOK, ChildrenOf
  <2>3. OutcomesOf(t)'
    BY <1>1, <2>1 DEF Kept, BatchOK, OutcomesOf
  <2> QED
    BY <2>2, <2>3
<1>3. ShortOf(t)'
  BY DEF Kept, BatchOK, ShortOf, ContextKept
<1>4. WaitsOf(t)'
  <2>1. InFlight(t)' = InFlight(t)
    BY DEF Kept, InFlight, Recorded
  <2>2. CASE GiveUp(t)
    <3>1. CtxErr(t)
      BY <2>2 DEF GiveUp, WaitEnds, Done, CtxErr, LoopInv, Gate
    <3> QED
      BY <3>1 DEF ContextKept, WaitsOf
  <2>3. CASE Fill(t)
    <3>1. ASSUME pc'[t] = "collecting", next[t] <= BatchSize, InFlight(t) = {} PROVE CtxErr(t)
      <4>1. Cardinality(InFlight(t)) < BatchLimit
        BY <3>1, FS_EmptySet, TrafficAssumption
      <4> QED
        BY <2>3, <3>1, <4>1, BatchValues DEF Fill, LoopInv, TypeOK, TaskTypeOK
    <3> QED
      BY <2>1, <3>1 DEF ContextKept, WaitsOf, Kept
  <2>4. CASE LoadLimit(t) \/ ClaimFails(t) \/ Retry(t)
    <3>1. pc'[t] # "collecting"
      BY <2>4, BatchValues DEF LoadLimit, ClaimFails, Retry, LoopInv, TypeOK, TaskTypeOK
    <3> QED
      BY <3>1 DEF WaitsOf
  <2> QED
    BY <2>2, <2>3, <2>4
<1> QED
  BY <1>2, <1>3, <1>4 DEF BatchOK

LEMMA ClaimOK ==
  ASSUME LoopInv, NEW t \in Batch, BatchOK(t), ContextKept(t), Claim(t)
  PROVE  BatchOK(t)'
<1> USE BatchValues DEF LoopInv, TypeOK, TaskTypeOK, BatchTypeOK
<1>1. /\ next[t] \in 1..BatchSize /\ next'[t] = next[t] + 1
      /\ child'[t] = [child[t] EXCEPT ![next[t]] = "remote"]
      /\ UNCHANGED <<verdict, outcomes, committed, result>>
      /\ pc[t] = "claiming" /\ pc'[t] = "filling"
  BY DEF Claim, NextInRange, Acquiring
<1>2. ChildrenOf(t)'
  <2>1. /\ \A j \in ID : child'[t][j] = IF j = next[t] THEN "remote" ELSE child[t][j]
        /\ \A j \in ID : child[t][j] # "pending" => j < next[t]
        /\ \A j \in ID : child[t][j] \in {"sent", "closed"} => verdict[t][j] # "not_attempted"
    BY <1>1 DEF BatchOK, ChildrenOf
  <2>2. \A j \in ID : child'[t][j] # "pending" => j < next'[t]
    BY <1>1, <2>1 DEF ID
  <2>3. \A j \in ID : child'[t][j] \in {"sent", "closed"} => verdict'[t][j] # "not_attempted"
    BY <1>1, <2>1
  <2> QED
    BY <1>1, <2>2, <2>3 DEF ChildrenOf, Looping
<1>3. OutcomesOf(t)'
  <2>1. /\ t \in committed /\ \A o, p \in outcomes[t] : o.id = p.id => o = p
        /\ \A o \in outcomes[t] : o.id \in ID /\ o.id < next[t] /\ o.status # "not_attempted"
    BY <1>1 DEF BatchOK, OutcomesOf, Looping, Acquiring
  <2>2. \A o \in outcomes'[t] : o.id < next'[t] /\ o.status # "not_attempted"
    BY <1>1, <2>1 DEF ID
  <2> QED
    BY <1>1, <2>1, <2>2 DEF OutcomesOf, Outside
<1>4. WaitsOf(t)' /\ ShortOf(t)'
  BY <1>1 DEF BatchOK, WaitsOf, ShortOf, ContextKept
<1> QED
  BY <1>2, <1>3, <1>4 DEF BatchOK

LEMMA PrepareOK ==
  ASSUME LoopInv, NEW t \in Batch, BatchOK(t), ContextKept(t), PrepareLocal(t) \/ PrepareRemote(t)
  PROVE  BatchOK(t)'
<1> USE BatchValues DEF LoopInv, TypeOK, TaskTypeOK, BatchTypeOK
<1>1. pc[t] = "preparing" /\ UNCHANGED <<child, next, verdict>> /\ t \in committed'
  BY DEF PrepareLocal, PrepareRemote
<1>2. /\ outcomes[t] = {}
      /\ \A i \in ID : child[t][i] \in {"pending", "closed"}
  BY <1>1 DEF BatchOK, ChildrenOf, OutcomesOf, Looping, Acquiring, Outside
<1>3. ChildrenOf(t)'
  BY <1>1, <1>2 DEF BatchOK, ChildrenOf
<1>4. CASE PrepareLocal(t)
  <2>1. /\ outcomes'[t] = {[id |-> i, status |-> "not_required"] : i \in ID}
        /\ pc'[t] = "answered" /\ result'[t] = "value"
    BY <1>4 DEF PrepareLocal
  <2>2. Recorded(t)' = ID
    <3>1. \A o \in outcomes'[t] : o.id \in ID
      BY <2>1
    <3>2. ASSUME NEW i \in ID PROVE \E o \in outcomes'[t] : o.id = i
      <4>1. [id |-> i, status |-> "not_required"] \in outcomes'[t]
        BY <2>1
      <4> QED
        BY <4>1
    <3> QED
      BY <3>1, <3>2 DEF Recorded
  <2>3. OutcomesOf(t)'
    BY <1>1, <2>1, <2>2 DEF OutcomesOf, Looping, Acquiring, Outside
  <2>4. WaitsOf(t)' /\ ShortOf(t)'
    BY <2>1 DEF WaitsOf, ShortOf
  <2> QED
    BY <1>3, <2>3, <2>4 DEF BatchOK
<1>5. CASE PrepareRemote(t)
  <2>1. pc'[t] = "filling" /\ UNCHANGED <<outcomes, result>>
    BY <1>5 DEF PrepareRemote
  <2>2. OutcomesOf(t)'
    BY <1>1, <1>2, <2>1 DEF OutcomesOf, Outside
  <2>3. WaitsOf(t)' /\ ShortOf(t)'
    BY <2>1 DEF BatchOK, WaitsOf, ShortOf, ContextKept
  <2> QED
    BY <1>3, <2>2, <2>3 DEF BatchOK
<1> QED
  BY <1>4, <1>5

LEMMA CollectOK ==
  ASSUME LoopInv, NEW t \in Batch, BatchOK(t), ContextKept(t), NEW i \in ID, Collect(t, i)
  PROVE  BatchOK(t)'
<1> USE BatchValues DEF LoopInv, TypeOK, TaskTypeOK, BatchTypeOK
<1> DEFINE o == [id |-> i, status |-> verdict[t][i]]
<1>1. /\ pc[t] = "collecting" /\ pc'[t] = "filling" /\ UNCHANGED <<result, child, next, verdict, committed>>
      /\ outcomes'[t] = outcomes[t] \cup {o}
      /\ i < next[t] /\ i \notin Recorded(t) /\ child[t][i] \in {"sent", "closed"}
  BY DEF Collect, InFlight
<1>2. o.id = i /\ o.status # "not_attempted"
  BY <1>1 DEF BatchOK, ChildrenOf
<1>3. \A p \in outcomes[t] : p.id # i
  BY <1>1 DEF Recorded
<1> HIDE DEF o
<1>4. ChildrenOf(t)'
  BY <1>1 DEF BatchOK, ChildrenOf, Looping
<1>5. OutcomesOf(t)'
  <2>1. \A p, q \in outcomes'[t] : p.id = q.id => p = q
    BY <1>1, <1>2, <1>3 DEF BatchOK, OutcomesOf
  <2>2. \A p \in outcomes'[t] : p.id < next'[t] /\ p.status # "not_attempted"
    BY <1>1, <1>2 DEF BatchOK, OutcomesOf, Looping
  <2> QED
    BY <1>1, <2>1, <2>2 DEF BatchOK, OutcomesOf, Looping, Outside
<1>6. WaitsOf(t)' /\ ShortOf(t)'
  BY <1>1, <1>2 DEF BatchOK, WaitsOf, ShortOf, ContextKept
<1> QED
  BY <1>4, <1>5, <1>6 DEF BatchOK

LEMMA RecordRestOK ==
  ASSUME LoopInv, NEW t \in Batch, BatchOK(t), ContextKept(t), RecordRest(t)
  PROVE  BatchOK(t)'
<1> USE BatchValues DEF LoopInv, TypeOK, TaskTypeOK, BatchTypeOK
<1> DEFINE New == {[id |-> i, status |-> "not_attempted"] : i \in Rest(t)}
<1>1. /\ pc[t] = "collecting" /\ pc'[t] = "joining" /\ UNCHANGED <<result, child, verdict, committed>>
      /\ outcomes'[t] = outcomes[t] \cup New /\ next'[t] = BatchSize + 1
      /\ \A i \in ID : i < next[t] => i \in Recorded(t)
      /\ next[t] \in 1..(BatchSize + 1)
  BY DEF RecordRest, InFlight
<1>2. /\ t \in committed
      /\ \A o \in outcomes[t] : o.id \in ID /\ o.id < next[t] /\ o.status # "not_attempted"
      /\ \A o, p \in outcomes[t] : o.id = p.id => o = p
  BY <1>1 DEF BatchOK, OutcomesOf, Looping
<1>3. /\ \A o \in New : o.id \in ID /\ o.id >= next[t] /\ o.status = "not_attempted"
      /\ \A o, p \in New : o.id = p.id => o = p
      /\ \A i \in ID : i >= next[t] => \E o \in New : o.id = i
  <2>1. \A i \in Rest(t) : i \in ID /\ i >= next[t]
    BY <1>1 DEF Rest, ID
  <2>2. \A i \in ID : i >= next[t] => i \in Rest(t)
    BY <1>1 DEF Rest, ID
  <2>3. ASSUME NEW i \in Rest(t) PROVE \E o \in New : o.id = i
    <3>1. [id |-> i, status |-> "not_attempted"] \in New
      OBVIOUS
    <3> QED
      BY <3>1
  <2> QED
    BY <2>1, <2>2, <2>3
<1>4. ASSUME New # {} PROVE CtxErr(t)
  <2>1. next[t] <= BatchSize
    BY <1>1, <1>4 DEF Rest
  <2> QED
    BY <1>1, <2>1 DEF BatchOK, WaitsOf, RecordRest
<1> HIDE DEF New
<1>5. ChildrenOf(t)'
  BY <1>1 DEF BatchOK, ChildrenOf, ID
<1>6. OutcomesOf(t)'
  <2>1. \A o, p \in outcomes'[t] : o.id = p.id => o = p
    BY <1>1, <1>2, <1>3 DEF ID
  <2>2. Recorded(t)' = ID
    <3>1. \A i \in ID : \E o \in outcomes'[t] : o.id = i
      <4> SUFFICES ASSUME NEW i \in ID PROVE \E o \in outcomes'[t] : o.id = i
        OBVIOUS
      <4>1. CASE i < next[t]
        BY <1>1, <4>1 DEF Recorded
      <4>2. CASE i >= next[t]
        BY <1>1, <1>3, <4>2
      <4> QED
        BY <1>1, <4>1, <4>2 DEF ID
    <3>2. \A o \in outcomes'[t] : o.id \in ID
      BY <1>1, <1>2, <1>3
    <3> QED
      BY <3>1, <3>2 DEF Recorded
  <2> QED
    BY <1>1, <1>2, <2>1, <2>2 DEF OutcomesOf, Looping, Acquiring, Outside
<1>7. WaitsOf(t)'
  BY <1>1 DEF WaitsOf
<1>8. ShortOf(t)'
  BY <1>1, <1>2, <1>4 DEF BatchOK, ShortOf, ContextKept
<1> QED
  BY <1>5, <1>6, <1>7, <1>8 DEF BatchOK

LEMMA JoinOK ==
  ASSUME LoopInv, NEW t \in Batch, BatchOK(t), ContextKept(t), Join(t)
  PROVE  BatchOK(t)'
<1> USE BatchValues DEF LoopInv, TypeOK, TaskTypeOK, BatchTypeOK
<1>1. /\ pc[t] = "joining" /\ pc'[t] = "answered" /\ result'[t] = "value"
      /\ UNCHANGED <<next, child, verdict, outcomes, committed>>
      /\ \A i \in ID : child[t][i] \in {"pending", "closed"}
  BY DEF Join
<1>2. ChildrenOf(t)'
  BY <1>1 DEF BatchOK, ChildrenOf
<1>3. OutcomesOf(t)'
  BY <1>1 DEF BatchOK, OutcomesOf, Looping, Acquiring, Outside, Recorded
<1>4. WaitsOf(t)' /\ ShortOf(t)'
  BY <1>1 DEF BatchOK, WaitsOf, ShortOf, ContextKept
<1> QED
  BY <1>2, <1>3, <1>4 DEF BatchOK

LEMMA ChildOK ==
  ASSUME LoopInv, NEW t \in Batch, BatchOK(t), ContextKept(t), ChildStep(t)
  PROVE  BatchOK(t)'
<1> USE BatchValues DEF LoopInv, TypeOK, TaskTypeOK, BatchTypeOK
<1>1. PICK i \in ID : ChildReturn(t, i) \/ ChildClose(t, i)
  BY DEF ChildStep
<1>2. /\ child[t][i] \in {"remote", "sent"}
      /\ UNCHANGED <<pc, result, next, outcomes, committed>>
      /\ \A j \in ID \ {i} : child'[t][j] = child[t][j] /\ verdict'[t][j] = verdict[t][j]
      /\ child'[t][i] \in {"sent", "closed"} /\ verdict'[t][i] # "not_attempted"
      /\ child[t][i] = "remote" => child'[t][i] = "sent"
  <2>1. CASE ChildReturn(t, i)
    BY <2>1 DEF ChildReturn
  <2>2. CASE ChildClose(t, i)
    BY <2>2 DEF ChildClose, BatchOK, ChildrenOf
  <2> QED
    BY <1>1, <2>1, <2>2
<1>3. pc[t] \in Looping \cup {"joining"} /\ i < next[t]
  BY <1>2 DEF BatchOK, ChildrenOf
<1>4. ChildrenOf(t)'
  BY <1>2, <1>3 DEF BatchOK, ChildrenOf
<1>5. OutcomesOf(t)'
  BY <1>2 DEF BatchOK, OutcomesOf, Recorded
<1>6. WaitsOf(t)' /\ ShortOf(t)'
  BY <1>2 DEF BatchOK, WaitsOf, ShortOf, ContextKept, InFlight, Recorded
<1> QED
  BY <1>4, <1>5, <1>6 DEF BatchOK

LEMMA BatchInit == Init => \A t \in Batch : BatchOK(t)
<1> SUFFICES ASSUME Init, NEW t \in Batch PROVE BatchOK(t)
  OBVIOUS
<1>1. /\ pc[t] = "new" /\ outcomes[t] = {} /\ committed = {} /\ result[t] = "none"
      /\ \A i \in ID : child[t][i] = "pending"
  BY BatchValues DEF Init
<1> QED
  BY <1>1 DEF BatchOK, ChildrenOf, OutcomesOf, WaitsOf, ShortOf, Looping, Acquiring

LEMMA BatchStepOK ==
  ASSUME LoopInv, NEW t \in Batch, BatchOK(t), [Next]_vars
  PROVE  BatchOK(t)'
<1>1. ContextKept(t)
  BY ContextEnds
<1>2. t \in Task
  BY BatchValues
<1>3. ASSUME NEW u \in Task, u # t, WorkerStep(u) \/ ChildStep(u) PROVE BatchOK(t)'
  BY <1>1, <1>3, OthersKeep, KeptOK DEF Passes
<1>4. ASSUME \/ ApplyPolicy(t) \/ LockUser(t) \/ Return(t) \/ Finish(t) \/ PrepareFails(t)
      PROVE  BatchOK(t)'
  <2>1. Kept(t)
    BY <1>4 DEF ApplyPolicy, LockUser, Return, Finish, PrepareFails, Kept
  <2>2. Passes(pc[t], pc'[t])
    BY <1>2, <1>4 DEF ApplyPolicy, LockUser, Return, Finish, PrepareFails, Passes, Outside, Unwinding,
                 IsUser, LoopInv, TypeOK, TaskTypeOK
  <2> QED
    BY <1>1, <2>1, <2>2, KeptOK
<1>5. ASSUME LoadLimit(t) \/ ClaimFails(t) \/ Retry(t) \/ GiveUp(t) \/ Fill(t) PROVE BatchOK(t)'
  <2>1. Kept(t)
    BY <1>5 DEF LoadLimit, ClaimFails, Retry, GiveUp, Fill, Kept
  <2> QED
    BY <1>1, <1>5, <2>1, LoopMoveOK
<1>6. ASSUME WorkerStep(t) PROVE BatchOK(t)'
  BY <1>1, <1>4, <1>5, <1>6, ClaimOK, PrepareOK, CollectOK, RecordRestOK, JoinOK
  DEF WorkerStep, BatchStep
<1>7. ASSUME \/ \E u \in Task : BeginReport(u)
             \/ \E r \in Reporter : ReporterStep(r)
             \/ UIReport \/ LockoutExpires \/ UNCHANGED vars
      PROVE  BatchOK(t)'
  <2>1. UNCHANGED <<pc, batchVars>>
    BY <1>7 DEF BeginReport, ReporterStep, EnterReport, StoreLimit, StoreLockout, UIReport,
              LockoutExpires, QuotaUnchanged
  <2> QED
    BY <1>1, <2>1, KeptOK DEF Kept, Passes
<1>8. ASSUME \/ \E u \in Task : Enter(u) \/ AdmitStep(u) \/ Cancel(u)
             \/ SupervisorNext \/ ParentCancel \/ ShutdownBegin \/ ShutdownStep
      PROVE  BatchOK(t)'
  BY <1>1, <1>8, QueuePasses, KeptOK
<1> QED
  BY <1>1, <1>3, <1>6, <1>7, <1>8, ChildOK, BatchValues DEF Next, Terminated

-----------------------------------------------------------------------------
(* What batches promise. *)

BatchInv == LoopInv /\ \A t \in Batch : BatchOK(t)

LEMMA BatchInvariant == Spec => []BatchInv
<1>1. Init => BatchInv
  BY LoopInit, BatchInit DEF BatchInv
<1>2. BatchInv /\ [Next]_vars => BatchInv'
  BY LoopStep, BatchStepOK DEF BatchInv
<1> QED
  BY <1>1, <1>2, PTL DEF Spec

(* A batch falls short only when its context has ended. *)
THEOREM BatchesFinishUnlessCancelled == Spec => []ShortOnlyIfCancelled
<1>1. BatchInv => ShortOnlyIfCancelled
  BY DEF BatchInv, BatchOK, ShortOf, ShortOnlyIfCancelled
<1> QED
  BY <1>1, BatchInvariant, PTL

(* A committed batch answers with one outcome for each of its IDs, an      *)
(* uncommitted one with none.                                              *)
THEOREM EveryIDHasOneOutcome == Spec => []OneOutcomePerID
<1>1. BatchInv => OneOutcomePerID
  <2> SUFFICES ASSUME BatchInv, NEW t \in Batch, pc[t] = "answered"
               PROVE  IF t \in committed
                        THEN \A i \in ID : Cardinality({o \in outcomes[t] : o.id = i}) = 1
                        ELSE outcomes[t] = {}
    BY DEF OneOutcomePerID
  <2>1. /\ IF t \in committed THEN Recorded(t) = ID ELSE outcomes[t] = {}
        /\ \A o, p \in outcomes[t] : o.id = p.id => o = p
    BY DEF BatchInv, BatchOK, OutcomesOf
  <2>2. ASSUME t \in committed, NEW i \in ID
        PROVE  Cardinality({o \in outcomes[t] : o.id = i}) = 1
    <3>1. PICK o \in outcomes[t] : o.id = i
      BY <2>1, <2>2 DEF Recorded
    <3>2. {p \in outcomes[t] : p.id = i} = {o}
      BY <2>1, <3>1
    <3> QED
      BY <3>2, FS_Singleton
  <2> QED
    BY <2>1, <2>2
<1> QED
  BY <1>1, BatchInvariant, PTL

-----------------------------------------------------------------------------
(* Permits. *)

PermitInv == IsFiniteSet(PermitHolders) /\ PermitAccounting

ChildHolds(t, i) == child[t][i] \in {"remote", "sent"}

IsHolder(x) ==
  \/ \E t \in Task : x = <<t>> /\ HoldsPermit(t)
  \/ \E t \in Batch, i \in ID : x = <<t, i>> /\ ChildHolds(t, i)
  \/ x = <<>> /\ spc = "background"

LEMMA HolderSets ==
  ASSUME NEW c, NEW x
  PROVE  x \in UNION {{<<t, i>> : i \in {j \in ID : c[t][j] \in {"remote", "sent"}}} : t \in Batch}
           <=> \E t \in Batch, i \in ID : x = <<t, i>> /\ c[t][i] \in {"remote", "sent"}
<1> DEFINE S(t) == {<<t, i>> : i \in {j \in ID : c[t][j] \in {"remote", "sent"}}}
<1>1. \A t \in Batch : x \in S(t) <=> \E i \in ID : x = <<t, i>> /\ c[t][i] \in {"remote", "sent"}
  OBVIOUS
<1>2. x \in UNION {S(t) : t \in Batch} <=> \E t \in Batch : x \in S(t)
  <2> HIDE DEF S
  <2> QED
    OBVIOUS
<1> QED
  BY <1>1, <1>2

LEMMA HolderIs ==
  \A x : (x \in PermitHolders <=> IsHolder(x)) /\ (x \in PermitHolders' <=> IsHolder(x)')
<1> SUFFICES ASSUME NEW x
             PROVE  (x \in PermitHolders <=> IsHolder(x)) /\ (x \in PermitHolders' <=> IsHolder(x)')
  OBVIOUS
<1>1. /\ x \in {<<t>> : t \in {u \in Task : HoldsPermit(u)}} <=> \E t \in Task : x = <<t>> /\ HoldsPermit(t)
      /\ x \in {<<t>> : t \in {u \in Task : HoldsPermit(u)'}} <=> \E t \in Task : x = <<t>> /\ HoldsPermit(t)'
  OBVIOUS
<1>2. x \in PermitHolders <=> IsHolder(x)
  <2> DEFINE C == UNION {{<<t, i>> : i \in {j \in ID : child[t][j] \in {"remote", "sent"}}} : t \in Batch}
  <2>1. x \in C <=> \E t \in Batch, i \in ID : x = <<t, i>> /\ child[t][i] \in {"remote", "sent"}
    BY HolderSets
  <2>2. PermitHolders = {<<t>> : t \in {u \in Task : HoldsPermit(u)}} \cup C
                          \cup (IF spc = "background" THEN {<<>>} ELSE {})
    BY DEF PermitHolders
  <2> QED
    BY <1>1, <2>1, <2>2 DEF ChildHolds, IsHolder
<1>3. x \in PermitHolders' <=> IsHolder(x)'
  <2> DEFINE C == UNION {{<<t, i>> : i \in {j \in ID : child'[t][j] \in {"remote", "sent"}}} : t \in Batch}
  <2>1. x \in C <=> \E t \in Batch, i \in ID : x = <<t, i>> /\ child'[t][i] \in {"remote", "sent"}
    BY HolderSets
  <2>2. PermitHolders' = {<<t>> : t \in {u \in Task : HoldsPermit(u)'}} \cup C
                          \cup (IF spc' = "background" THEN {<<>>} ELSE {})
    BY DEF PermitHolders
  <2> QED
    BY <1>1, <2>1, <2>2 DEF ChildHolds, IsHolder
<1> QED
  BY <1>2, <1>3

LEMMA HolderTuples ==
  /\ \A t, u : (<<t>> = <<u>> => t = u) /\ <<t>> # <<>>
  /\ \A t, u, i : <<u, i>> # <<t>> /\ <<u, i>> # <<>>
  /\ \A t, u, i, j : <<t, i>> = <<u, j>> => t = u /\ i = j
OBVIOUS

LEMMA HoldersKept ==
  ASSUME \A t \in Task : HoldsPermit(t)' <=> HoldsPermit(t),
         \A t \in Batch, i \in ID : ChildHolds(t, i)' <=> ChildHolds(t, i),
         spc' = "background" <=> spc = "background"
  PROVE  PermitHolders' = PermitHolders
<1>1. \A x : IsHolder(x)' <=> IsHolder(x)
  BY DEF IsHolder
<1> QED
  BY <1>1, HolderIs

LEMMA PermitKept ==
  ASSUME PermitInv, PermitHolders' = PermitHolders, active' = active
  PROVE  PermitInv'
BY DEF PermitInv, PermitAccounting

LEMMA PermitTaken ==
  ASSUME TypeOK, PermitInv, NEW x, x \notin PermitHolders, PermitHolders' = PermitHolders \cup {x},
         active' = active + 1, active < MaxWorkers
  PROVE  PermitInv'
<1>1. IsFiniteSet(PermitHolders') /\ Cardinality(PermitHolders') = Cardinality(PermitHolders) + 1
  BY FS_AddElement DEF PermitInv
<1>2. active + 1 <= MaxWorkers
  BY LimitValues DEF TypeOK, LoopTypeOK
<1> QED
  BY <1>1, <1>2 DEF PermitInv, PermitAccounting

LEMMA PermitReturned ==
  ASSUME TypeOK, PermitInv, NEW x \in PermitHolders, PermitHolders' = PermitHolders \ {x},
         active' = active - 1
  PROVE  PermitInv'
<1>1. IsFiniteSet(PermitHolders') /\ Cardinality(PermitHolders') = Cardinality(PermitHolders) - 1
  BY FS_RemoveElement DEF PermitInv
<1>2. active - 1 <= MaxWorkers
  BY LimitValues DEF TypeOK, LoopTypeOK, PermitInv, PermitAccounting
<1> QED
  BY <1>1, <1>2 DEF PermitInv, PermitAccounting

LEMMA PermitPassed ==
  ASSUME PermitInv, NEW x \in PermitHolders, NEW y, y \notin PermitHolders,
         PermitHolders' = (PermitHolders \ {x}) \cup {y}, active' = active
  PROVE  PermitInv'
<1> DEFINE S == PermitHolders \ {x}
<1>1. IsFiniteSet(S) /\ Cardinality(S) = Cardinality(PermitHolders) - 1
  BY FS_RemoveElement DEF PermitInv
<1>2. IsFiniteSet(S \cup {y}) /\ Cardinality(S \cup {y}) = Cardinality(S) + 1
  BY <1>1, FS_AddElement
<1>3. Cardinality(PermitHolders) \in Nat
  BY FS_CardinalityType DEF PermitInv
<1> HIDE DEF S
<1>4. IsFiniteSet(PermitHolders') /\ Cardinality(PermitHolders') = Cardinality(PermitHolders)
  BY <1>1, <1>2, <1>3 DEF S
<1> QED
  BY <1>4 DEF PermitInv, PermitAccounting

(* A worker, a child or the supervisor begins or ceases to hold a permit. *)
LEMMA TaskTakes ==
  ASSUME NEW t \in Task, ~HoldsPermit(t), HoldsPermit(t)',
         \A u \in Task \ {t} : HoldsPermit(u)' <=> HoldsPermit(u), UNCHANGED <<child, spc>>
  PROVE  <<t>> \notin PermitHolders /\ PermitHolders' = PermitHolders \cup {<<t>>}
<1>1. ~IsHolder(<<t>>) /\ \A x : IsHolder(x)' <=> IsHolder(x) \/ x = <<t>>
  BY HolderTuples DEF IsHolder, ChildHolds
<1> QED
  BY <1>1, HolderIs

LEMMA TaskReturns ==
  ASSUME NEW t \in Task, HoldsPermit(t), ~HoldsPermit(t)',
         \A u \in Task \ {t} : HoldsPermit(u)' <=> HoldsPermit(u), UNCHANGED <<child, spc>>
  PROVE  <<t>> \in PermitHolders /\ PermitHolders' = PermitHolders \ {<<t>>}
<1>1. IsHolder(<<t>>) /\ \A x : IsHolder(x)' <=> IsHolder(x) /\ x # <<t>>
  BY HolderTuples DEF IsHolder, ChildHolds
<1> QED
  BY <1>1, HolderIs

LEMMA ChildTakes ==
  ASSUME NEW t \in Batch, NEW i \in ID, ~ChildHolds(t, i), ChildHolds(t, i)',
         \A u \in Batch, j \in ID : u # t \/ j # i => (ChildHolds(u, j)' <=> ChildHolds(u, j)),
         \A u \in Task : HoldsPermit(u)' <=> HoldsPermit(u), UNCHANGED spc
  PROVE  <<t, i>> \notin PermitHolders /\ PermitHolders' = PermitHolders \cup {<<t, i>>}
<1>1. ~IsHolder(<<t, i>>) /\ \A x : IsHolder(x)' <=> IsHolder(x) \/ x = <<t, i>>
  BY HolderTuples DEF IsHolder
<1> QED
  BY <1>1, HolderIs

LEMMA ChildReturns ==
  ASSUME NEW t \in Batch, NEW i \in ID, ChildHolds(t, i), ~ChildHolds(t, i)',
         \A u \in Batch, j \in ID : u # t \/ j # i => (ChildHolds(u, j)' <=> ChildHolds(u, j)),
         \A u \in Task : HoldsPermit(u)' <=> HoldsPermit(u), UNCHANGED spc
  PROVE  <<t, i>> \in PermitHolders /\ PermitHolders' = PermitHolders \ {<<t, i>>}
<1>1. IsHolder(<<t, i>>) /\ \A x : IsHolder(x)' <=> IsHolder(x) /\ x # <<t, i>>
  BY HolderTuples DEF IsHolder
<1> QED
  BY <1>1, HolderIs

LEMMA TaskMoves ==
  ASSUME TypeOK, PermitInv, NEW t \in Task, NEW to, pc' = [pc EXCEPT ![t] = to],
         HoldsPermit(t)' <=> HoldsPermit(t), UNCHANGED active,
         \A u \in Batch, i \in ID : ChildHolds(u, i)' <=> ChildHolds(u, i),
         spc' = "background" <=> spc = "background"
  PROVE  PermitInv'
<1>1. \A u \in Task \ {t} : HoldsPermit(u)' <=> HoldsPermit(u)
  BY DEF HoldsPermit, TypeOK, TaskTypeOK, IsUser
<1> QED
  BY <1>1, HoldersKept, PermitKept

LEMMA SupervisorPermits ==
  ASSUME LoopInv, PermitInv, SupervisorNext
  PROVE  PermitInv'
<1> USE DEF SupervisorUnchanged, LoopInv
<1>1. \A t \in Batch, i \in ID : ChildHolds(t, i)' <=> ChildHolds(t, i)
  BY DEF SupervisorNext, SupervisorPoll, SupervisorUser, SupervisorReserve, SupervisorClaim,
         SupervisorBackground, SupervisorWait, ChildHolds
<1>2. ASSUME UNCHANGED pc PROVE \A t \in Task : HoldsPermit(t)' <=> HoldsPermit(t)
  BY <1>2 DEF HoldsPermit, IsUser
<1>3. CASE SupervisorPoll \/ SupervisorReserve \/ SupervisorWait
  <2>1. UNCHANGED <<pc, active>> /\ spc # "background" /\ spc' # "background"
    BY <1>3 DEF SupervisorPoll, SupervisorReserve, SupervisorWait
  <2> QED
    BY <1>1, <1>2, <2>1, HoldersKept, PermitKept
<1>4. CASE SupervisorUser
  <2>1. UNCHANGED active /\ spc # "background" /\ spc' # "background"
    BY <1>4 DEF SupervisorUser
  <2>2. CASE UserTurn
    <3>1. PICK h \in Task : h = Head(queue["high"]) /\ pc[h] = "queued" /\ IsUser(h)
      BY <2>2, QueueValues, HeadQueued DEF UserTurn, Channels, QueueFor
    <3>2. pc' = [pc EXCEPT ![h] = "spawned"]
      BY <1>4, <2>2, <3>1 DEF SupervisorUser
    <3>3. ~HoldsPermit(h) /\ ~HoldsPermit(h)'
      BY <3>1, <3>2 DEF HoldsPermit, IsUser, TypeOK, TaskTypeOK
    <3> QED
      BY <1>1, <2>1, <3>1, <3>2, <3>3, TaskMoves
  <2>3. CASE ~UserTurn
    BY <1>1, <1>2, <1>4, <2>1, <2>3, HoldersKept, PermitKept DEF SupervisorUser
  <2> QED
    BY <2>2, <2>3
<1>5. ASSUME spc = "claim", UNCHANGED pc, spc' = "background"
      PROVE  <<>> \notin PermitHolders /\ PermitHolders' = PermitHolders \cup {<<>>}
  <2>1. ~IsHolder(<<>>) /\ \A x : IsHolder(x)' <=> IsHolder(x) \/ x = <<>>
    BY <1>1, <1>2, <1>5, HolderTuples DEF IsHolder
  <2> QED
    BY <2>1, HolderIs
<1>6. CASE SupervisorClaim
  <2>1. CASE active < seen[Supervisor]
    <3>1. active < MaxWorkers
      BY <2>1, LimitValues DEF TypeOK, LoopTypeOK
    <3> QED
      BY <1>5, <1>6, <2>1, <3>1, PermitTaken DEF SupervisorClaim
  <2>2. CASE ~(active < seen[Supervisor])
    BY <1>1, <1>2, <1>6, <2>2, HoldersKept, PermitKept DEF SupervisorClaim
  <2> QED
    BY <2>1, <2>2
<1>7. CASE SupervisorBackground
  <2>1. ASSUME NEW q \in {"med", "low"}, DequeueBackground(q) PROVE PermitInv'
    <3>1. PICK h \in Task : h = Head(queue[q]) /\ pc[h] = "queued" /\ ~IsUser(h)
      BY <2>1, QueueValues, HeadQueued DEF DequeueBackground, Channels, QueueFor
    <3>2. pc' = [pc EXCEPT ![h] = "spawned"] /\ spc = "background" /\ spc' = "poll" /\ UNCHANGED active
      BY <1>7, <2>1, <3>1 DEF SupervisorBackground, DequeueBackground
    <3>3. /\ ~HoldsPermit(h) /\ HoldsPermit(h)'
          /\ \A u \in Task \ {h} : HoldsPermit(u)' <=> HoldsPermit(u)
      BY <3>1, <3>2 DEF HoldsPermit, IsUser, TypeOK, TaskTypeOK
    <3>4. /\ IsHolder(<<>>) /\ ~IsHolder(<<h>>)
          /\ \A x : IsHolder(x)' <=> (IsHolder(x) /\ x # <<>>) \/ x = <<h>>
      BY <1>1, <3>1, <3>2, <3>3, HolderTuples DEF IsHolder
    <3>5. /\ <<>> \in PermitHolders /\ <<h>> \notin PermitHolders
          /\ PermitHolders' = (PermitHolders \ {<<>>}) \cup {<<h>>}
      BY <3>4, HolderIs
    <3> QED
      BY <3>2, <3>5, PermitPassed
  <2>2. ASSUME UNCHANGED pc, active' = active - 1, spc = "background", spc' = "wait" PROVE PermitInv'
    <3>1. IsHolder(<<>>) /\ \A x : IsHolder(x)' <=> IsHolder(x) /\ x # <<>>
      BY <1>1, <1>2, <2>2, HolderTuples DEF IsHolder
    <3>2. <<>> \in PermitHolders /\ PermitHolders' = PermitHolders \ {<<>>}
      BY <3>1, HolderIs
    <3> QED
      BY <2>2, <3>2, PermitReturned
  <2> QED
    BY <1>7, <2>1, <2>2 DEF SupervisorBackground
<1> QED
  BY <1>3, <1>4, <1>6, <1>7 DEF SupervisorNext

LEMMA WorkerPermits ==
  ASSUME BatchInv, PermitInv, NEW t \in Task, WorkerStep(t)
  PROVE  PermitInv'
<1> USE DEF BatchInv, LoopInv, WorkerUnchanged
<1>1. \A u \in Batch : IsUser(u) /\ u \in Task
  BY BatchValues
<1>2. pc \in [Task -> Phase]
  BY DEF TypeOK, TaskTypeOK
<1>3. ASSUME UNCHANGED <<child, spc, active>>, NEW to, pc' = [pc EXCEPT ![t] = to],
             HoldsPermit(t)' <=> HoldsPermit(t)
      PROVE  PermitInv'
  BY <1>3, TaskMoves DEF ChildHolds
<1>4. CASE ApplyPolicy(t)
  <2>1. PICK to : /\ pc[t] = "spawned" /\ pc' = [pc EXCEPT ![t] = to] /\ UNCHANGED <<child, spc, active>>
                  /\ to \in IF IsUser(t) THEN {"skipped", "locking"} ELSE {"skipped", "running"}
    BY <1>4 DEF ApplyPolicy
  <2>2. HoldsPermit(t)' <=> HoldsPermit(t)
    BY <1>2, <2>1 DEF HoldsPermit, IsUser
  <2> QED
    BY <1>3, <2>1, <2>2
<1>5. CASE LockUser(t) \/ LoadLimit(t) \/ ClaimFails(t) \/ Retry(t) \/ GiveUp(t)
  <2>1. PICK to \in Acquiring \cup {"preparing", "collecting", "yielded"} : pc' = [pc EXCEPT ![t] = to]
    BY <1>5 DEF LockUser, LoadLimit, ClaimFails, Retry, GiveUp, Acquiring
  <2>2. pc[t] \in {"locking"} \cup Acquiring /\ UNCHANGED <<child, spc, active>>
    BY <1>5 DEF LockUser, LoadLimit, ClaimFails, Retry, GiveUp, Acquiring
  <2>3. ~HoldsPermit(t)' /\ ~HoldsPermit(t)
    BY <1>2, <2>1, <2>2 DEF HoldsPermit, IsUser, Acquiring
  <2> QED
    BY <1>3, <2>1, <2>2, <2>3
<1>6. CASE Claim(t)
  <2>1. active' = active + 1 /\ active < MaxWorkers /\ pc[t] = "claiming" /\ UNCHANGED spc
    BY <1>6, LimitValues DEF Claim, TypeOK, LoopTypeOK
  <2>2. CASE t \in Batch
    <3>1. PICK i \in ID : i = next[t]
      BY <2>1, <2>2 DEF NextInRange, Acquiring, ID, TypeOK, BatchTypeOK
    <3>2. pc' = [pc EXCEPT ![t] = "filling"] /\ child' = [child EXCEPT ![t][i] = "remote"]
      BY <1>6, <2>2, <3>1 DEF Claim
    <3>3. ~ChildHolds(t, i)
      <4>1. child[t][i] # "pending" => i < next[t]
        BY <2>2 DEF BatchOK, ChildrenOf
      <4> QED
        BY <3>1, <4>1 DEF ChildHolds, ID
    <3>4. /\ ChildHolds(t, i)'
          /\ \A u \in Batch, j \in ID : u # t \/ j # i => (ChildHolds(u, j)' <=> ChildHolds(u, j))
      BY <2>2, <3>2 DEF ChildHolds, TypeOK, BatchTypeOK
    <3>5. \A u \in Task : HoldsPermit(u)' <=> HoldsPermit(u)
      BY <1>1, <1>2, <2>2, <3>2 DEF HoldsPermit, IsUser
    <3> QED
      BY <2>1, <2>2, <3>3, <3>4, <3>5, ChildTakes, PermitTaken
  <2>3. CASE t \notin Batch
    <3>1. pc' = [pc EXCEPT ![t] = "running"] /\ UNCHANGED child
      BY <1>6, <2>3 DEF Claim
    <3>2. /\ ~HoldsPermit(t) /\ HoldsPermit(t)'
          /\ \A u \in Task \ {t} : HoldsPermit(u)' <=> HoldsPermit(u)
      BY <1>2, <2>1, <2>3, <3>1 DEF HoldsPermit, IsUser
    <3> QED
      BY <2>1, <3>1, <3>2, TaskTakes, PermitTaken
  <2> QED
    BY <2>2, <2>3
<1>7. CASE Return(t)
  <2>1. pc[t] = "running" /\ pc' = [pc EXCEPT ![t] = "answered"] /\ UNCHANGED <<child, spc, active>>
    BY <1>7 DEF Return
  <2>2. HoldsPermit(t)' <=> HoldsPermit(t)
    BY <1>2, <2>1 DEF HoldsPermit, IsUser
  <2> QED
    BY <1>3, <2>1, <2>2
<1>8. CASE Finish(t)
  <2>1. /\ pc' = [pc EXCEPT ![t] = "finished"] /\ UNCHANGED <<child, spc>>
        /\ active' = IF HoldsPermit(t) THEN active - 1 ELSE active
    BY <1>8 DEF Finish
  <2>2. ~HoldsPermit(t)' /\ \A u \in Task \ {t} : HoldsPermit(u)' <=> HoldsPermit(u)
    BY <1>2, <2>1 DEF HoldsPermit, IsUser
  <2>3. CASE HoldsPermit(t)
    BY <2>1, <2>2, <2>3, TaskReturns, PermitReturned
  <2>4. CASE ~HoldsPermit(t)
    BY <1>3, <2>1, <2>2, <2>4
  <2> QED
    BY <2>3, <2>4
<1>9. CASE t \in Batch /\ BatchStep(t)
  <2>1. PICK to : pc' = [pc EXCEPT ![t] = to]
    BY <1>9 DEF BatchStep, PrepareFails, PrepareLocal, PrepareRemote, Fill, RecordRest, Join, Collect
  <2>2. UNCHANGED <<child, spc, active>>
    BY <1>9 DEF BatchStep, PrepareFails, PrepareLocal, PrepareRemote, Fill, RecordRest, Join, Collect,
      BatchUnchanged
  <2>3. ~HoldsPermit(t)' /\ ~HoldsPermit(t)
    BY <1>1, <1>9 DEF HoldsPermit, IsUser
  <2> QED
    BY <1>3, <2>1, <2>2, <2>3
<1> QED
  BY <1>4, <1>5, <1>6, <1>7, <1>8, <1>9 DEF WorkerStep

LEMMA ChildPermits ==
  ASSUME BatchInv, PermitInv, NEW t \in Batch, ChildStep(t)
  PROVE  PermitInv'
<1> USE DEF BatchInv, LoopInv, WorkerUnchanged, BatchUnchanged
<1>1. PICK i \in ID : ChildReturn(t, i) \/ ChildClose(t, i)
  BY DEF ChildStep
<1>2. UNCHANGED <<pc, spc>> /\ \A u \in Task : HoldsPermit(u)' <=> HoldsPermit(u)
  BY <1>1 DEF ChildReturn, ChildClose, HoldsPermit, IsUser
<1>3. \A u \in Batch, j \in ID : u # t \/ j # i => (ChildHolds(u, j)' <=> ChildHolds(u, j))
  BY <1>1 DEF ChildReturn, ChildClose, ChildHolds, TypeOK, BatchTypeOK
<1>4. CASE ChildReturn(t, i)
  <2>1. UNCHANGED active /\ ChildHolds(t, i) /\ ChildHolds(t, i)'
    BY <1>4 DEF ChildReturn, ChildHolds, TypeOK, BatchTypeOK
  <2> QED
    BY <1>2, <1>3, <2>1, HoldersKept, PermitKept
<1>5. CASE ChildClose(t, i)
  <2>1. active' = active - 1 /\ ChildHolds(t, i) /\ ~ChildHolds(t, i)'
    BY <1>5 DEF ChildClose, ChildHolds, TypeOK, BatchTypeOK
  <2> QED
    BY <1>2, <1>3, <2>1, ChildReturns, PermitReturned
<1> QED
  BY <1>1, <1>4, <1>5

LEMMA PermitStep ==
  ASSUME BatchInv, PermitInv, [Next]_vars
  PROVE  PermitInv'
<1> USE DEF BatchInv, LoopInv
<1>1. pc \in [Task -> Phase]
  BY DEF TypeOK, TaskTypeOK
<1>2. ASSUME NEW t \in Task, NEW to \in {"admitting", "queued", "refused", "finished"},
             pc' = [pc EXCEPT ![t] = to], pc[t] \in {"new", "admitting", "queued"},
             UNCHANGED <<child, spc, active>>
      PROVE  PermitInv'
  <2>1. ~HoldsPermit(t)' /\ ~HoldsPermit(t)
    BY <1>1, <1>2 DEF HoldsPermit, IsUser
  <2> QED
    BY <1>2, <2>1, TaskMoves DEF ChildHolds
<1>3. ASSUME UNCHANGED <<pc, child, spc, active>> PROVE PermitInv'
  BY <1>3, HoldersKept, PermitKept DEF HoldsPermit, ChildHolds, IsUser
<1>4. ASSUME NEW t \in Task, Enter(t) \/ AdmitStep(t) PROVE PermitInv'
  <2>1. PICK to \in {"admitting", "queued", "refused", "finished"} : pc' = [pc EXCEPT ![t] = to]
    BY <1>4 DEF Enter, AdmitStep, Enqueue, AdmitCancelled, RefuseFull
  <2>2. pc[t] \in {"new", "admitting"} /\ UNCHANGED <<child, spc, active>>
    BY <1>4 DEF Enter, AdmitStep, Enqueue, AdmitCancelled, RefuseFull
  <2> QED
    BY <1>2, <2>1, <2>2
<1>5. ASSUME \/ \E t \in Task : Cancel(t) \/ BeginReport(t)
             \/ \E r \in Reporter : ReporterStep(r)
             \/ UIReport \/ LockoutExpires \/ UNCHANGED vars
      PROVE  PermitInv'
  BY <1>3, <1>5 DEF Cancel, BeginReport, ReporterStep, EnterReport, StoreLimit, StoreLockout, UIReport,
              LockoutExpires, QuotaUnchanged
<1>6. ASSUME NEW q \in Queue, Drain(q), ShutdownUnchanged PROVE PermitInv'
  <2>1. Head(queue[q]) \in Task /\ pc[Head(queue[q])] = "queued"
    BY <1>6, HeadQueued DEF Drain, Channels
  <2> QED
    BY <1>2, <1>6, <2>1 DEF Drain, ShutdownUnchanged
<1>7. CASE ParentCancel \/ ShutdownBegin \/ ShutdownStep
  <2>1. CASE ShutdownDrain
    BY <1>6, <2>1, QueueValues DEF ShutdownDrain
  <2>2. CASE ~ShutdownDrain
    BY <1>3, <1>7, <2>2 DEF ParentCancel, ShutdownBegin, ShutdownStep, ShutdownCancel,
      ShutdownClose, ShutdownUnlock, ShutdownJoin, ShutdownUnchanged
  <2> QED
    BY <2>1, <2>2
<1> QED
  BY <1>4, <1>5, <1>7, SupervisorPermits, WorkerPermits, ChildPermits DEF Next, Terminated

LEMMA PermitInit == Init => PermitInv
<1> SUFFICES ASSUME Init PROVE PermitInv
  OBVIOUS
<1>1. \A x : ~IsHolder(x)
  BY BatchValues DEF Init, IsHolder, HoldsPermit, ChildHolds
<1>2. PermitHolders = {}
  BY <1>1, HolderIs
<1> QED
  BY <1>2, FS_EmptySet, LimitValues DEF Init, PermitInv, PermitAccounting

LEMMA PermitInvariant == Spec => [](BatchInv /\ PermitInv)
BY BatchInvariant, PermitInit, PermitStep, PTL DEF Spec

(* activeWorkersCount counts the permits that are held, for every limit    *)
(* and batch size, and never more than maxWorkers.                         *)
THEOREM PermitsAreCounted == Spec => []PermitAccounting
<1>1. PermitInv => PermitAccounting
  BY DEF PermitInv
<1> QED
  BY <1>1, PermitInvariant, PTL

-----------------------------------------------------------------------------
(* The end of Shutdown. *)

Quiet == shut = "stopped" => Joined

LEMMA QuietStep ==
  ASSUME LoopInv, Quiet, [Next]_vars
  PROVE  Quiet'
<1> USE DEF LoopInv
<1>1. CASE ShutdownJoin
  BY <1>1 DEF ShutdownJoin, Joined, ShutdownUnchanged, Quiet
<1>2. CASE ~ShutdownJoin
  <2>1. shut' = "stopped" => shut = "stopped"
    <3>1. ASSUME NEW t \in Task, Enter(t) \/ AdmitStep(t) \/ Cancel(t) PROVE UNCHANGED shut
      BY <3>1 DEF Enter, AdmitStep, Enqueue, AdmitCancelled, RefuseFull, Cancel
    <3>2. ASSUME NEW t \in Task, WorkerStep(t) PROVE UNCHANGED shut
      BY <3>2, WorkerShape DEF Works
    <3>3. CASE SupervisorNext
      BY <3>3 DEF SupervisorNext, SupervisorPoll, SupervisorUser, SupervisorReserve, SupervisorClaim,
        SupervisorBackground, SupervisorWait, SupervisorUnchanged
    <3>4. CASE ParentCancel \/ ShutdownBegin \/ ShutdownStep
      BY <1>2, <3>4 DEF ParentCancel, ShutdownBegin, ShutdownStep, ShutdownCancel, ShutdownClose,
        ShutdownDrain, ShutdownUnlock
    <3> QED
      BY <3>1, <3>2, <3>3, <3>4, AsideShape DEF Next, Aside, Terminated
  <2>2. SUFFICES ASSUME shut = "stopped", shut' = shut PROVE Joined'
    BY <2>1 DEF Quiet
  <2>3. spc = "stopped" /\ (\A t \in Task : pc[t] \notin Working) /\ pc \in [Task -> Phase]
    BY <2>2 DEF Quiet, Joined, TypeOK, TaskTypeOK
  <2>4. \A t \in Task : pc[t] \notin {"admitting", "queued"}
    <3>1. \A q \in Queue : queue[q] = <<>>
      BY <2>2 DEF Gate, Drained
    <3> QED
      BY <2>2, <3>1, QueueValues DEF Gate, Channels, AllQueued
  <2>5. ASSUME UNCHANGED spc, \A t \in Task : pc'[t] \notin Working PROVE Joined'
    BY <2>3, <2>5 DEF Joined
  <2>6. ASSUME NEW t \in Task, Enter(t) \/ AdmitStep(t) PROVE Joined'
    <3>1. pc' = [pc EXCEPT ![t] = "refused"] /\ UNCHANGED spc
      BY <2>2, <2>4, <2>6 DEF Enter, AdmitStep, Enqueue, AdmitCancelled, RefuseFull, Done
    <3> QED
      BY <2>3, <2>5, <3>1 DEF Working, Acquiring, Executing, Unwinding
  <2>7. ASSUME NEW t \in Task, WorkerStep(t) PROVE FALSE
    BY <2>3, <2>7, WorkerShape, WorkValues DEF Works
  <2>8. CASE SupervisorNext
    BY <2>3, <2>8 DEF SupervisorNext, SupervisorPoll, SupervisorUser, SupervisorReserve, SupervisorClaim,
      SupervisorBackground, SupervisorWait
  <2>9. ASSUME NEW t \in Task, Cancel(t) PROVE Joined'
    BY <2>3, <2>5, <2>9 DEF Cancel
  <2>10. CASE Aside
    BY <2>3, <2>5, <2>10, AsideShape
  <2>11. CASE ParentCancel \/ ShutdownBegin \/ ShutdownStep
    BY <1>2, <2>2, <2>3, <2>5, <2>11 DEF ParentCancel, ShutdownBegin, ShutdownStep, ShutdownCancel,
      ShutdownClose, ShutdownDrain, ShutdownUnlock, ShutdownUnchanged
  <2>12. CASE UNCHANGED vars
    BY <2>3, <2>5, <2>12
  <2> QED
    BY <2>6, <2>7, <2>8, <2>9, <2>10, <2>11, <2>12 DEF Next, Aside, Terminated
<1> QED
  BY <1>1, <1>2

(* When Shutdown has returned, nothing runs, every permit is back, and no  *)
(* caller is left without an answer.                                       *)
THEOREM ShutdownLeavesNothing == Spec => []StoppedIsQuiet
<1>1. Init => Quiet
  BY DEF Init, Quiet
<1>2. BatchInv /\ PermitInv /\ Quiet => StoppedIsQuiet
  <2> SUFFICES ASSUME BatchInv, PermitInv, Quiet, shut = "stopped"
               PROVE  /\ active = 0 /\ ~userActive
                      /\ \A t \in Task : pc[t] \in {"new", "finished", "refused"}
                      /\ \A t \in Batch, i \in ID : child[t][i] \in {"pending", "closed"}
    BY DEF StoppedIsQuiet
  <2>1. spc = "stopped" /\ \A t \in Task : pc[t] \notin Working
    BY DEF Quiet, Joined
  <2>2. \A t \in Task : pc[t] \notin {"admitting", "queued"}
    <3>1. \A q \in Queue : queue[q] = <<>>
      BY DEF BatchInv, LoopInv, Gate, Drained
    <3> QED
      BY <3>1, QueueValues DEF BatchInv, LoopInv, Gate, Channels, AllQueued
  <2>3. \A t \in Task : pc[t] \in {"new", "finished", "refused"}
    BY <2>1, <2>2 DEF BatchInv, LoopInv, TypeOK, TaskTypeOK, Phase
  <2>4. \A t \in Batch, i \in ID : child[t][i] \in {"pending", "closed"}
    BY <2>3, BatchValues DEF BatchInv, BatchOK, ChildrenOf, Looping, Acquiring
  <2>5. \A x : ~IsHolder(x)
    BY <2>1, <2>3, <2>4 DEF IsHolder, HoldsPermit, ChildHolds
  <2>6. active = 0
    <3>1. PermitHolders = {}
      BY <2>5, HolderIs
    <3> QED
      BY <3>1, FS_EmptySet DEF PermitInv, PermitAccounting
  <2>7. ~userActive
    BY <2>1 DEF BatchInv, LoopInv, UserSlot
  <2> QED
    BY <2>3, <2>4, <2>6, <2>7
<1>3. BatchInv /\ Quiet /\ [Next]_vars => Quiet'
  BY QuietStep DEF BatchInv
<1> QED
  BY <1>1, <1>2, <1>3, PermitInvariant, PTL DEF Spec

-----------------------------------------------------------------------------
(* The controller implements the safety of TaskService. *)

PhaseOf(t, f) ==
  CASE f \in {"new", "admitting"} -> "new"
    [] f = "refused" -> "refused"
    [] f \in Unwinding \cup {"finished"} -> "answered"
    [] f \in Executing \/ (t \in Batch /\ f \in Acquiring) -> "executing"
    [] OTHER -> "accepted"
GateOf(s) ==
  CASE s \in {"open", "locking"} -> "open"
    [] s = "stopped" -> "stopped"
    [] OTHER -> "closed"
Phases == [t \in Task |-> PhaseOf(t, pc[t])]
ServiceStep == [Service!Next]_(Service!vars)

LEMMA PhaseOfValues ==
  \A t \in Task, f \in Phase :
    /\ PhaseOf(t, f) = "new" <=> f \in {"new", "admitting"}
    /\ PhaseOf(t, f) = "refused" <=> f = "refused"
    /\ PhaseOf(t, f) = "answered" <=> f \in Unwinding \cup {"finished"}
    /\ PhaseOf(t, f) = "executing" <=> f \in Executing \/ (t \in Batch /\ f \in Acquiring)
    /\ PhaseOf(t, f) = "accepted" <=>
         f \in {"queued", "spawned", "locking"} \/ (t \notin Batch /\ f \in Acquiring)
BY DEF PhaseOf, Phase, Working, Acquiring, Executing, Unwinding

LEMMA Stutters ==
  ASSUME Phases' = Phases, GateOf(shut') = GateOf(shut)
  PROVE  ServiceStep
BY DEF ServiceStep, Service!vars, Phases, GateOf, PhaseOf

LEMMA PhaseMoves ==
  ASSUME TypeOK, NEW t \in Task, NEW to \in Phase, pc' = [pc EXCEPT ![t] = to]
  PROVE  Phases' = [Phases EXCEPT ![t] = PhaseOf(t, to)]
BY DEF Phases, TypeOK, TaskTypeOK

(* The abstract phase of one task takes one of TaskService's moves. *)
LEMMA ServiceMoves ==
  ASSUME TypeOK, NEW t \in Task, NEW to \in Phase, pc' = [pc EXCEPT ![t] = to],
         GateOf(shut') = GateOf(shut), NEW a, NEW b, a = PhaseOf(t, pc[t]), b = PhaseOf(t, to),
         \/ a = b
         \/ a = "new" /\ b = "refused"
         \/ a = "new" /\ b \in {"accepted", "answered"} /\ GateOf(shut) = "open"
         \/ a \in {"accepted", "executing"} /\ b = "answered"
         \/ /\ a = "accepted" /\ b = "executing"
            /\ IsUser(t) => \A u \in Task : IsUser(u) => PhaseOf(u, pc[u]) # "executing"
  PROVE  ServiceStep
<1>1. Phases' = [Phases EXCEPT ![t] = b] /\ Phases[t] = a
  BY PhaseMoves DEF Phases
<1>2. ASSUME a = b PROVE ServiceStep
  <2>1. Phases' = Phases
    BY <1>1, <1>2 DEF Phases
  <2> QED
    BY <2>1, Stutters
<1>3. ASSUME a # b PROVE Service!Next
  <2>1. CASE a = "new" /\ b = "refused"
    <3>1. Service!Refuse(t)
      BY <1>1, <2>1 DEF Service!Refuse, Service!Move, Phases, PhaseOf, GateOf
    <3> QED
      BY <3>1 DEF Service!Next
  <2>2. CASE a = "new" /\ b = "accepted" /\ GateOf(shut) = "open"
    <3>1. Service!Accept(t)
      BY <1>1, <2>2 DEF Service!Accept, Service!Move, Phases, PhaseOf, GateOf
    <3> QED
      BY <3>1 DEF Service!Next
  <2>3. CASE a = "new" /\ b = "answered" /\ GateOf(shut) = "open"
    <3>1. Service!SkipNew(t)
      BY <1>1, <2>3 DEF Service!SkipNew, Service!Move, Phases, PhaseOf, GateOf
    <3> QED
      BY <3>1 DEF Service!Next
  <2>4. CASE a = "accepted" /\ b = "answered"
    <3>1. Service!Skip(t)
      BY <1>1, <2>4 DEF Service!Skip, Service!Move, Phases, PhaseOf, GateOf
    <3> QED
      BY <3>1 DEF Service!Next, Service!Settle
  <2>5. CASE a = "executing" /\ b = "answered"
    <3>1. Service!Complete(t)
      BY <1>1, <2>5 DEF Service!Complete, Service!Move, Phases, PhaseOf, GateOf
    <3> QED
      BY <3>1 DEF Service!Next, Service!Settle
  <2>6. CASE /\ a = "accepted" /\ b = "executing"
             /\ IsUser(t) => \A u \in Task : IsUser(u) => PhaseOf(u, pc[u]) # "executing"
    <3>1. Service!Execute(t)
      BY <1>1, <2>6 DEF Service!Execute, Service!Move, Phases, PhaseOf, GateOf
    <3> QED
      BY <3>1 DEF Service!Next
  <2> QED
    BY <1>3, <2>1, <2>2, <2>3, <2>4, <2>5, <2>6
<1> QED
  BY <1>2, <1>3 DEF ServiceStep

(* A scalar task that executes goes on to its answer only. *)
LEMMA ExecutingEnds ==
  ASSUME TypeOK, NEW t \in Task \ Batch, WorkerStep(t), pc[t] \in Executing
  PROVE  pc'[t] = "answered"
<1>1. Return(t)
  BY DEF WorkerStep, ApplyPolicy, LockUser, LoadLimit, Claim, ClaimFails, Retry, GiveUp, Finish,
    Executing, Unwinding
<1> QED
  BY <1>1 DEF Return, TypeOK, TaskTypeOK

LEMMA WorkerServes ==
  ASSUME LoopInv, NEW t \in Task, WorkerStep(t)
  PROVE  ServiceStep
<1> USE DEF LoopInv
<1>1. PICK to \in Phase : WorkEdge(pc[t], to) /\ pc' = [pc EXCEPT ![t] = to] /\ UNCHANGED shut
  BY WorkerShape DEF Works, Moves
<1>2. pc[t] \in Phase /\ pc'[t] = to
  BY <1>1 DEF TypeOK, TaskTypeOK
<1> DEFINE a == PhaseOf(t, pc[t])
           b == PhaseOf(t, to)
<1>3. /\ a \in {"accepted", "executing", "answered"} /\ b \in {"accepted", "executing", "answered"}
      /\ a = "answered" => b = "answered"
      /\ a = "executing" => b # "accepted"
  <2>1. t \notin Batch /\ pc[t] \in Executing => to = "answered"
    BY <1>2, ExecutingEnds
  <2> QED
    BY <1>1, <1>2, <2>1, PhaseOfValues DEF WorkEdge, Unwinding, Executing, Acquiring
<1>4. ASSUME a = "accepted", IsUser(t), NEW u \in Task, IsUser(u)
      PROVE  PhaseOf(u, pc[u]) # "executing"
  <2>1. SUFFICES ASSUME PhaseOf(u, pc[u]) = "executing" PROVE FALSE
    OBVIOUS
  <2>2. pc[u] \in Phase /\ pc[u] \in Working
    BY <2>1, PhaseOfValues DEF TypeOK, TaskTypeOK, Working
  <2>3. pc[t] \in Working
    BY <1>1, WorkValues
  <2> QED
    BY <1>4, <2>1, <2>2, <2>3 DEF UserSlot
<1> QED
  BY <1>1, <1>3, <1>4, ServiceMoves

LEMMA ServiceNext ==
  ASSUME LoopInv, [Next]_vars
  PROVE  ServiceStep
<1> USE DEF LoopInv
<1>1. ASSUME UNCHANGED <<pc, shut>> PROVE ServiceStep
  BY <1>1, Stutters DEF Phases
<1>2. ASSUME NEW t \in Task, Enter(t) \/ AdmitStep(t) PROVE ServiceStep
  <2>1. PICK to \in {"admitting", "queued", "refused", "finished"} : pc' = [pc EXCEPT ![t] = to]
    BY <1>2 DEF Enter, AdmitStep, Enqueue, AdmitCancelled, RefuseFull
  <2>2. /\ pc[t] \in {"new", "admitting"} /\ UNCHANGED shut
        /\ to \in {"queued", "finished"} => pc[t] = "admitting"
    BY <1>2, <2>1 DEF Enter, AdmitStep, Enqueue, AdmitCancelled, RefuseFull, TypeOK, TaskTypeOK
  <2>3. pc[t] = "admitting" => GateOf(shut) = "open"
    BY DEF Gate, GateOf
  <2>4. /\ PhaseOf(t, pc[t]) = "new"
        /\ PhaseOf(t, to) = CASE to = "admitting" -> "new" [] to = "queued" -> "accepted"
                              [] to = "refused" -> "refused" [] to = "finished" -> "answered"
    BY <2>1, <2>2, PhaseValues, PhaseOfValues
  <2> QED
    BY <2>1, <2>2, <2>3, <2>4, PhaseValues, ServiceMoves
<1>3. ASSUME NEW q \in Queue, Dequeues(q), UNCHANGED shut PROVE ServiceStep
  <2>1. PICK h \in Task : h = Head(queue[q])
    BY <1>3, HeadQueued DEF Dequeues, Channels
  <2>2. PICK to \in {"spawned", "finished"} : pc[h] = "queued" /\ pc' = [pc EXCEPT ![h] = to]
    BY <1>3, <2>1 DEF Dequeues, Moves
  <2>3. PhaseOf(h, pc[h]) = "accepted" /\ PhaseOf(h, to) \in {"accepted", "answered"}
    BY <2>2, PhaseValues, PhaseOfValues
  <2> QED
    BY <1>3, <2>2, <2>3, PhaseValues, ServiceMoves
<1>4. ASSUME LoopShape, UNCHANGED shut PROVE ServiceStep
  BY <1>1, <1>3, <1>4 DEF LoopShape, Stays
<1>5. ASSUME NEW t \in Task, Cancel(t) PROVE ServiceStep
  BY <1>1, <1>5 DEF Cancel
<1>6. CASE SupervisorNext
  <2>1. UNCHANGED shut
    BY <1>6 DEF SupervisorNext, SupervisorPoll, SupervisorUser, SupervisorReserve, SupervisorClaim,
      SupervisorBackground, SupervisorWait, SupervisorUnchanged
  <2> QED
    BY <1>4, <1>6, <2>1, SupervisorShape DEF Channels
<1>7. CASE Aside
  BY <1>1, <1>7, AsideShape
<1>8. CASE ParentCancel \/ ShutdownBegin \/ ShutdownStep
  <2>1. CASE ParentCancel \/ ShutdownBegin \/ ShutdownClose \/ ShutdownUnlock
    <3>1. UNCHANGED pc /\ GateOf(shut') = GateOf(shut)
      BY <2>1 DEF ParentCancel, ShutdownBegin, ShutdownClose, ShutdownUnlock, GateOf
    <3> QED
      BY <3>1, Stutters DEF Phases
  <2>2. CASE ShutdownDrain
    <3>1. UNCHANGED shut
      BY <2>2 DEF ShutdownDrain
    <3> QED
      BY <1>4, <1>8, <3>1, ShutdownShape DEF Channels
  <2>3. CASE ShutdownCancel
    <3>1. Service!Close
      BY <2>3 DEF ShutdownCancel, Service!Close
    <3> QED
      BY <3>1 DEF ServiceStep, Service!Next
  <2>4. CASE ShutdownJoin
    <3>1. shut = "waiting" /\ shut' = "stopped" /\ UNCHANGED pc /\ \A t \in Task : pc[t] \notin Working
      BY <2>4 DEF ShutdownJoin, Joined
    <3>2. \A t \in Task : pc[t] # "queued"
      <4>1. \A q \in Queue : queue[q] = <<>>
        BY <3>1 DEF Gate, Drained
      <4> QED
        BY <4>1, QueueValues DEF Channels, AllQueued
    <3>3. \A t \in Task : PhaseOf(t, pc[t]) \notin {"accepted", "executing"}
      BY <3>1, <3>2, PhaseOfValues DEF TypeOK, TaskTypeOK, Working
    <3>4. Service!Stop
      BY <3>1, <3>3 DEF Service!Stop, PhaseOf
    <3> QED
      BY <3>4 DEF ServiceStep, Service!Next
  <2> QED
    BY <1>8, <2>1, <2>2, <2>3, <2>4 DEF ShutdownStep
<1>9. CASE UNCHANGED vars
  BY <1>1, <1>9
<1> QED
  BY <1>2, <1>5, <1>6, <1>7, <1>8, <1>9, WorkerServes DEF Next, Aside, Terminated

(* The controller keeps the safety promises of TaskService: every task     *)
(* settles once, user tasks execute alone, and nothing is accepted after   *)
(* the gate has closed or owed when Shutdown returns.                      *)
THEOREM ServiceIsImplemented == Spec => Service!Spec
<1>1. Init => Service!Init
  <2> SUFFICES ASSUME Init PROVE Service!Init
    OBVIOUS
  <2>1. \A t \in Task : pc[t] = "new"
    BY DEF Init
  <2>2. Phases = [t \in Task |-> "new"]
    <3>1. \A t \in Task : PhaseOf(t, pc[t]) = "new"
      BY <2>1, PhaseValues, PhaseOfValues
    <3> QED
      BY <3>1 DEF Phases
  <2>3. GateOf(shut) = "open"
    BY DEF Init, GateOf
  <2> QED
    BY <2>2, <2>3 DEF Service!Init, Phases, PhaseOf, GateOf
<1>2. LoopInv /\ [Next]_vars => [Service!Next]_(Service!vars)
  BY ServiceNext DEF ServiceStep
<1> QED
  BY <1>1, <1>2, LoopInvariant, PTL DEF Spec, Service!Spec

=============================================================================
