---------------------------- MODULE TriageProofs ----------------------------
(* The safety of Triage for any notifications, changes and faults: the types,
   one batch at a time, and a recovery that is shown and keeps what failed
   selected.  What the trust in a batch's result rests on comes last. *)
EXTENDS Triage, FiniteSetTheorems, SequenceTheorems, TLAPS

USE TriageAssumption DEF vars, backend, batchState, history, selection

Waiting == {"created", "registered", "calling"}  \* no answer yet

(* The changes and the backend's queue. *)
OpOK ==
    /\ op \in [Key -> Change] /\ \A k \in Key : op[k].failed \subseteq op[k].ids
    /\ queue \in Seq(Key) /\ \A i, j \in 1 .. Len(queue) : queue[i] = queue[j] => i = j
RestOK ==
    /\ connected \in BOOLEAN /\ conn \in BOOLEAN /\ failures \in 0 .. MaxFailures
    /\ store \in Snapshot /\ github \subseteq ID
    /\ req \in [{"load", "recon", "sync"} -> Request]
    /\ list \in Maybe
    /\ selecting \in BOOLEAN /\ selected \subseteq ID
    /\ selected # {} => selecting
    /\ batchPending \in BOOLEAN
    /\ recovery \in Recovery /\ recoverySeq \in Nat /\ recovery.gen <= recoverySeq
    /\ uncertain \in BOOLEAN /\ refreshPending \in BOOLEAN
    /\ syncing \in BOOLEAN /\ started \in BOOLEAN
    /\ owed \subseteq ID /\ unlocked \in BOOLEAN

(* A change is in the queue only once its command runs. *)
QueuedAreStarted == \A i \in 1 .. Len(queue) : op[queue[i]].phase \notin {"unused", "created"}

(* What a batch answers is one of the three results, and it is uncertain exactly
   as its status says; a refused selection is answered from the start. *)
BatchAnswers ==
    \A k \in Key :
        /\ op[k].kind = "batch" =>
            /\ op[k].phase \in Waiting => ~op[k].pending
            /\ op[k].phase = "answered" =>
                /\ op[k].reply \in Status
                /\ op[k].reply = "unknown" => op[k].pending
                /\ op[k].reply = "rejected" => ~op[k].pending
        /\ op[k].kind = "refused" /\ op[k].phase # "gone" =>
            op[k].phase = "answered" /\ op[k].reply = "rejected" /\ ~op[k].pending

(* A pending batch is under way, and it alone unless the flag was cleared under
   another one. *)
OneUnderway ==
    /\ batchPending => Underway # {}
    /\ ~unlocked /\ batchPending => \E k \in Key : Underway = {k}
    /\ ~unlocked /\ ~batchPending => Underway = {}

(* Only a recovery is owed anything, and it has it selected. *)
Owing == owed \subseteq selected /\ (owed # {} => recovery.status # "none")

IInv == OpOK /\ RestOK /\ QueuedAreStarted /\ BatchAnswers /\ OneUnderway
             /\ RecoveryIsShown /\ Owing

(* TypeOK in two halves: the changes with their queue, and the rest. *)
LEMMA TypeParts == TypeOK <=> OpOK /\ RestOK
BY DEF TypeOK, OpOK, RestOK

-----------------------------------------------------------------------------
(* The records *)

LEMMA PutType ==
  ASSUME NEW s, NEW f \in Field, NEW ids \in SUBSET ID, NEW v \in BOOLEAN
  PROVE  /\ s \in Snapshot => Put(s, f, ids, v) \in Snapshot
         /\ s \in Maybe => Put(s, f, ids, v) \in Maybe
<1>1. s \in Snapshot => Put(s, f, ids, v) \in Snapshot
  BY DEF Put, Snapshot
<1>2. QED  BY <1>1 DEF Put, Maybe

(* The records everything starts from are well typed. *)
LEMMA Constants ==
  /\ NoOp \in Change /\ NoOp.failed = {} /\ NoOp.ids = {} /\ NoOp.pending = FALSE
  /\ NoOp.phase = "gone" /\ NoOp.kind = "none"
  /\ NoReq \in Request
  /\ NoRecovery \in Recovery /\ NoRecovery.awaiting = FALSE /\ NoRecovery.gen = 0
  /\ NoRecovery.status = "none"
<1>1. NoOp \in Change
  BY DEF NoOp, Change, Maybe, Field, Phase
<1>2. NoReq \in Request /\ NoRecovery \in Recovery
  BY DEF NoReq, Request, Maybe, NoRecovery, Recovery
<1>3. QED  BY <1>1, <1>2 DEF NoOp, NoRecovery

(* A new request is one. *)
LEMMA AskType ==
  ASSUME NEW kind, NEW gen \in Nat
  PROVE  Ask(kind, gen) \in Request
BY DEF Ask, NoReq, Request, Maybe

(* What is known of a change once it is answered. *)
LEMMA AnswerType ==
  ASSUME OpOK, NEW k \in Key, NEW snap \in Maybe
  PROVE  LET a == Answer(k, snap) IN
         /\ a \in Change /\ a.failed = op[k].failed /\ a.ids = op[k].ids /\ a.kind = op[k].kind
         /\ a.phase = "answered"
         /\ op[k].kind = "batch" /\ ~op[k].pending =>
              /\ a.reply \in Status
              /\ a.reply = "unknown" => a.pending
              /\ a.reply = "rejected" => ~a.pending
<1> DEFINE o == op[k]
<1>1. /\ o \in Change /\ o.field \in Field /\ o.ids \in SUBSET ID /\ o.value \in BOOLEAN
      /\ o.base \in Maybe /\ o.before \in Maybe /\ Nothing \in Maybe
  BY DEF OpOK, Change, Maybe
<1>2. Put(o.base, o.field, o.ids, o.value) \in Maybe
  BY <1>1, PutType
<1> DEFINE p == Put(o.base, o.field, o.ids, o.value)
           s == AnswerScalar(k, snap)
           b == AnswerBatch(k, snap)
<1>3. s \in Change /\ s.failed = o.failed /\ s.ids = o.ids /\ s.kind = o.kind
  <2>1. \E got \in Maybe : s \in {[o EXCEPT !.snap = got], [o EXCEPT !.reply = "error"]}
    BY <1>1, <1>2 DEF AnswerScalar
  <2>2. QED  BY <1>1, <2>1 DEF Change
<1>4. /\ b \in Change /\ b.failed = o.failed /\ b.ids = o.ids /\ b.kind = o.kind
      /\ b.reply \in Status
      /\ b.reply = "unknown" => b.pending
      /\ b.reply = "rejected" /\ ~o.pending => ~b.pending
  <2>1. \/ b = [o EXCEPT !.reply = "rejected"]
        \/ \E got \in Maybe, pending \in BOOLEAN :
             b = [o EXCEPT !.reply = "committed", !.pending = pending, !.snap = got]
        \/ b = [o EXCEPT !.reply = "unknown", !.pending = TRUE, !.snap = o.base]
    <3>1. CASE o.reply = "local"
      BY <3>1 DEF AnswerBatch
    <3>2. CASE o.reply = "ok" /\ Valid(Result(k).request, Result(k))
      <4>1. b = [o EXCEPT !.reply = "committed", !.pending = (snap = Nothing),
                          !.snap = IF snap # Nothing THEN snap ELSE p]
        BY <3>2 DEF AnswerBatch
      <4>2. (snap = Nothing) \in BOOLEAN /\ (IF snap # Nothing THEN snap ELSE p) \in Maybe
        BY <1>2
      <4> HIDE DEF b, o, p
      <4>3. QED  BY <4>1, <4>2
    <3>3. CASE ~(o.reply = "local") /\ ~(o.reply = "ok" /\ Valid(Result(k).request, Result(k)))
      BY <3>3 DEF AnswerBatch
    <3>4. QED  BY <3>1, <3>2, <3>3
  <2> HIDE DEF b, o
  <2>2. CASE b = [o EXCEPT !.reply = "rejected"]
    BY <1>1, <2>2 DEF Change, Status
  <2>3. CASE \E got \in Maybe, pending \in BOOLEAN :
               b = [o EXCEPT !.reply = "committed", !.pending = pending, !.snap = got]
    <3>1. PICK got \in Maybe, pending \in BOOLEAN :
            b = [o EXCEPT !.reply = "committed", !.pending = pending, !.snap = got]
      BY <2>3
    <3>2. QED  BY <1>1, <3>1 DEF Change, Status
  <2>4. CASE b = [o EXCEPT !.reply = "unknown", !.pending = TRUE, !.snap = o.base]
    BY <1>1, <2>4 DEF Change, Status
  <2>5. QED  BY <2>1, <2>2, <2>3, <2>4
<1>5. Answer(k, snap) = [(IF o.kind = "batch" THEN b ELSE s) EXCEPT !.phase = "answered", !.base = Nothing]
  BY DEF Answer
<1> HIDE DEF s, b, p, o
<1>6. DEFINE t == IF o.kind = "batch" THEN b ELSE s
<1>7. t \in Change /\ t.failed = o.failed /\ t.ids = o.ids /\ t.kind = o.kind
  BY <1>3, <1>4
<1>8. o.kind = "batch" /\ ~o.pending =>
        /\ t.reply \in Status
        /\ t.reply = "unknown" => t.pending
        /\ t.reply = "rejected" => ~t.pending
  BY <1>4
<1> HIDE DEF t
<1>9. DEFINE a == [t EXCEPT !.phase = "answered", !.base = Nothing]
<1>10. /\ a \in Change /\ a.failed = t.failed /\ a.ids = t.ids /\ a.kind = t.kind
       /\ a.phase = "answered" /\ a.reply = t.reply /\ a.pending = t.pending
  BY <1>1, <1>7 DEF Change, Phase
<1>11. Answer(k, snap) = a
  BY <1>5 DEF t
<1> HIDE DEF a
<1>12. QED  BY <1>7, <1>8, <1>10, <1>11 DEF o

(* A change that is dealt with is still a change. *)
LEMMA GoneType ==
  ASSUME NEW o \in Change, o.failed \subseteq o.ids
  PROVE  /\ Gone(o) \in Change /\ Gone(o).failed \subseteq Gone(o).ids /\ Gone(o).phase = "gone"
         /\ Gone(o).kind \in {"none", o.kind}
<1>1. Nothing \in Maybe
  BY DEF Maybe
<1>2. CASE o.call \in {"queued", "persisted"}
  BY <1>1, <1>2 DEF Gone, Change, Phase
<1>3. CASE ~(o.call \in {"queued", "persisted"})
  BY <1>3, Constants DEF Gone
<1>4. QED  BY <1>2, <1>3

-----------------------------------------------------------------------------
(* The queue *)

Distinctive(q) == \A i, j \in 1 .. Len(q) : q[i] = q[j] => i = j
Members(q) == {q[i] : i \in 1 .. Len(q)}

(* A change that was not queued can be appended. *)
LEMMA AppendQueue ==
  ASSUME NEW q \in Seq(Key), Distinctive(q), NEW k \in Key, k \notin Members(q)
  PROVE  /\ Append(q, k) \in Seq(Key) /\ Distinctive(Append(q, k))
         /\ Members(Append(q, k)) \subseteq Members(q) \cup {k}
<1>1. /\ Append(q, k) \in Seq(Key) /\ Len(Append(q, k)) = Len(q) + 1 /\ Len(q) \in Nat
      /\ \A i \in 1 .. Len(q) + 1 : Append(q, k)[i] = IF i = Len(q) + 1 THEN k ELSE q[i]
  BY AppendProperties
<1>2. QED  BY <1>1 DEF Distinctive, Members

(* The queue without its head repeats no change either. *)
LEMMA TailQueue ==
  ASSUME NEW q \in Seq(Key), Distinctive(q), q # <<>>
  PROVE  /\ Tail(q) \in Seq(Key) /\ Distinctive(Tail(q)) /\ Members(Tail(q)) \subseteq Members(q)
<1>1. /\ Tail(q) \in Seq(Key) /\ Len(Tail(q)) = Len(q) - 1
      /\ \A i \in 1 .. Len(Tail(q)) : Tail(q)[i] = q[i + 1]
  BY HeadTailProperties
<1>2. Len(q) \in Nat
  OBVIOUS
<1>3. \A i, j \in 1 .. Len(Tail(q)) : Tail(q)[i] = Tail(q)[j] => i = j
  BY <1>1, <1>2 DEF Distinctive
<1>4. \A i \in 1 .. Len(Tail(q)) : Tail(q)[i] \in Members(q)
  BY <1>1, <1>2 DEF Members
<1>5. QED  BY <1>1, <1>3, <1>4 DEF Distinctive, Members

(* RemoveAt drops one position and keeps the order of the others. *)
LEMMA RemoveQueue ==
  ASSUME NEW q \in Seq(Key), Distinctive(q), NEW p \in 1 .. Len(q)
  PROVE  /\ RemoveAt(q, p) \in Seq(Key) /\ Distinctive(RemoveAt(q, p))
         /\ Members(RemoveAt(q, p)) \subseteq Members(q)
<1> DEFINE n == Len(q)
           a == SubSeq(q, 1, p - 1)
           b == SubSeq(q, p + 1, n)
           r == RemoveAt(q, p)
<1>1. n \in Nat /\ p \in Nat /\ 1 <= p /\ p <= n /\ \A i \in 1 .. n : q[i] \in Key
  OBVIOUS
<1> HIDE DEF n
<1>2. a \in Seq(Key) /\ Len(a) = p - 1 /\ \A i \in 1 .. p - 1 : a[i] = q[i]
  <2>1. 1 \in Int /\ p - 1 \in Int /\ \A i \in 1 .. p - 1 : q[i] \in Key
    BY <1>1
  <2>2. /\ a \in Seq(Key) /\ Len(a) = IF 1 <= p - 1 THEN p - 1 - 1 + 1 ELSE 0
        /\ \A i \in 1 .. p - 1 - 1 + 1 : a[i] = q[1 + i - 1]
    BY <2>1, SubSeqProperties
  <2>3. QED  BY <1>1, <2>2
<1>3. b \in Seq(Key) /\ Len(b) = n - p /\ \A i \in 1 .. n - p : b[i] = q[p + i]
  <2>1. p + 1 \in Int /\ n \in Int /\ \A i \in p + 1 .. n : q[i] \in Key
    BY <1>1
  <2>2. /\ b \in Seq(Key) /\ Len(b) = IF p + 1 <= n THEN n - (p + 1) + 1 ELSE 0
        /\ \A i \in 1 .. n - (p + 1) + 1 : b[i] = q[p + 1 + i - 1]
    BY <2>1, SubSeqProperties
  <2>3. QED  BY <1>1, <2>2
<1>4. r = a \o b
  BY DEF RemoveAt, n
<1> HIDE DEF a, b, r
<1>5. /\ r \in Seq(Key) /\ Len(r) = n - 1
      /\ \A i \in 1 .. n - 1 : r[i] = IF i <= p - 1 THEN q[i] ELSE q[i + 1]
  <2>1. /\ a \o b \in Seq(Key) /\ Len(a \o b) = Len(a) + Len(b)
        /\ \A i \in 1 .. Len(a) + Len(b) : (a \o b)[i] = IF i <= Len(a) THEN a[i] ELSE b[i - Len(a)]
    <3>1. a \in Seq(Key) /\ b \in Seq(Key)
      BY <1>2, <1>3
    <3>2. QED  BY <3>1, ConcatProperties
  <2>2. Len(a) + Len(b) = n - 1
    BY <1>1, <1>2, <1>3
  <2>3. ASSUME NEW i \in 1 .. n - 1
        PROVE  r[i] = IF i <= p - 1 THEN q[i] ELSE q[i + 1]
    <3>1. r[i] = IF i <= p - 1 THEN a[i] ELSE b[i - (p - 1)]
      BY <1>2, <1>4, <2>1, <2>2
    <3>2. CASE i <= p - 1
      BY <1>1, <1>2, <3>1, <3>2
    <3>3. CASE ~(i <= p - 1)
      <4>1. i - (p - 1) \in 1 .. n - p /\ p + (i - (p - 1)) = i + 1
        BY <1>1, <3>3
      <4>2. QED  BY <1>3, <3>1, <3>3, <4>1
    <3>4. QED  BY <3>2, <3>3
  <2>4. QED  BY <1>4, <2>1, <2>2, <2>3
<1>6. \A i, j \in 1 .. n - 1 : r[i] = r[j] => i = j
  <2> DEFINE At(i) == IF i <= p - 1 THEN i ELSE i + 1
  <2>1. \A i \in 1 .. n - 1 : At(i) \in 1 .. n /\ r[i] = q[At(i)]
    BY <1>1, <1>5
  <2>2. \A i, j \in 1 .. n - 1 : At(i) = At(j) => i = j
    BY <1>1
  <2>3. \A i, j \in 1 .. n : q[i] = q[j] => i = j
    BY DEF Distinctive, n
  <2> HIDE DEF At
  <2>4. QED  BY <2>1, <2>2, <2>3
<1>7. \A i \in 1 .. n - 1 : r[i] \in Members(q)
  BY <1>1, <1>5 DEF Members, n
<1>8. QED  BY <1>5, <1>6, <1>7 DEF Distinctive, Members, r

-----------------------------------------------------------------------------
(* Steps of the backend: they never change how a batch stands. *)

Begun(j) == op[j].phase \notin {"unused", "created"}

Quiet ==
    \A j \in Key :
        /\ op'[j].kind = op[j].kind /\ op'[j].pending = op[j].pending
        /\ \/ op[j].phase \in Waiting /\ op'[j].phase \in Waiting
           \/ op'[j].phase = op[j].phase /\ (op[j].phase = "answered" => op'[j].reply = op[j].reply)
        /\ Begun(j) => Begun(j)'

(* A quiet step leaves the batch under way, and what batches answer, as they were.
   *)
LEMMA QuietKeeps == Quiet => Underway' = Underway /\ (BatchAnswers => BatchAnswers')
<1>1. Quiet => Underway' = Underway
  BY DEF Quiet, Underway, Waiting
<1>2. Quiet /\ BatchAnswers => BatchAnswers'
  BY DEF Quiet, BatchAnswers, Waiting
<1>3. QED  BY <1>1, <1>2

(* What is queued has begun, if what joins the queue has. *)
LEMMA QueueKeeps ==
  /\ QueuedAreStarted
  /\ \A j \in Key : Begun(j) => Begun(j)'
  /\ queue \in Seq(Key) /\ queue' \in Seq(Key)
  /\ \A j \in Members(queue') : j \in Members(queue) \/ Begun(j)'
  => QueuedAreStarted'
BY DEF QueuedAreStarted, Members, Begun

(* The members of a queue that stands still. *)
LEMMA SameQueue ==
  ASSUME UNCHANGED queue
  PROVE  Members(queue') = Members(queue) /\ queue' = queue
BY DEF Members

(* A step that touches no change is quiet. *)
LEMMA QuietOps == UNCHANGED <<op, queue>> /\ OpOK => Quiet /\ OpOK'
BY DEF Quiet, OpOK, Begun

(* Triage speaks of ToSet(queue), the lemmas on queues of Members. *)
LEMMA ToSetMembers ==
  ASSUME NEW q \in Seq(Key) PROVE ToSet(q) = Members(q)
BY DEF ToSet, Members

StepOK == OpOK' /\ QueuedAreStarted' /\ Quiet

(* Register cancels the other commands of its scope, but answers none of them. *)
LEMMA RegisterOp ==
  ASSUME OpOK, QueuedAreStarted, NEW k \in Key, Register(k)
  PROVE  StepOK
<1>1. \A j \in Key : op[j] \in Change /\ op[j].failed \subseteq op[j].ids
  BY DEF OpOK
<1>2. ASSUME NEW j \in Key
      PROVE  /\ op'[j] \in Change /\ op'[j].failed \subseteq op'[j].ids
             /\ op'[j].kind = op[j].kind /\ op'[j].pending = op[j].pending /\ op'[j].reply = op[j].reply
             /\ IF j = k THEN op[j].phase = "created" /\ op'[j].phase = "registered"
                         ELSE op'[j].phase = op[j].phase
  <2>1. CASE j = k
    BY <1>1, <2>1 DEF Register, Change, Phase
  <2>2. CASE j # k
    <3>1. op[j] \in Change /\ op[j].failed \subseteq op[j].ids
      BY <1>1
    <3>2. op'[j] = op[j] \/ op'[j] = [op[j] EXCEPT !.cancelled = TRUE]
      BY <2>2 DEF Register
    <3>3. CASE op'[j] = op[j]
      BY <2>2, <3>1, <3>3
    <3>4. CASE op'[j] = [op[j] EXCEPT !.cancelled = TRUE]
      BY <2>2, <3>1, <3>4 DEF Change
    <3>5. QED  BY <3>2, <3>3, <3>4
  <2>3. QED  BY <2>1, <2>2
<1>3. Quiet
  BY <1>2 DEF Quiet, Waiting, Begun
<1>4. op' \in [Key -> Change]
  BY <1>2 DEF Register
<1>5. k \notin Members(queue)
  BY DEF QueuedAreStarted, Members, Register
<1>6. /\ queue' \in Seq(Key) /\ Distinctive(queue')
      /\ \A j \in Members(queue') : j \in Members(queue) \/ j = k
  <2>1. CASE UNCHANGED queue
    BY <2>1 DEF OpOK, Distinctive, Members
  <2>2. CASE queue' = Append(queue, k)
    BY <2>2, <1>5, AppendQueue DEF OpOK, Distinctive
  <2>3. QED  BY <2>1, <2>2 DEF Register
<1>7. QueuedAreStarted'
  <2>1. \A j \in Members(queue') : j \in Members(queue) \/ Begun(j)'
    BY <1>2, <1>6 DEF Begun
  <2>2. QED  BY <1>3, <1>6, <2>1, QueueKeeps DEF OpOK, Quiet
<1>8. QED  BY <1>2, <1>3, <1>4, <1>6, <1>7 DEF StepOK, OpOK, Distinctive

(* The step of one change, the queue keeping its members or gaining a change
   that has begun. *)
LEMMA OneChange ==
  ASSUME OpOK, QueuedAreStarted, NEW k \in Key,
         op' \in [Key -> Change], \A j \in Key : j # k => op'[j] = op[j],
         op'[k].failed \subseteq op'[k].ids,
         queue' \in Seq(Key), Distinctive(queue'),
         \A j \in Members(queue') : j \in Members(queue) \/ j = k,
         Begun(k)'
  PROVE  OpOK' /\ QueuedAreStarted'
<1>1. \A j \in Key : Begun(j) => Begun(j)'
  BY DEF Begun
<1>2. \A j \in Members(queue') : j \in Members(queue) \/ Begun(j)'
  OBVIOUS
<1>3. QueuedAreStarted'
  BY <1>1, <1>2, QueueKeeps DEF OpOK
<1>4. QED  BY <1>3 DEF OpOK, Distinctive

(* ReadBefore starts the call of a change, which its queue holds once. *)
LEMMA ReadBeforeOp ==
  ASSUME OpOK, RestOK, QueuedAreStarted, NEW k \in Key, ReadBefore(k)
  PROVE  StepOK
<1>1. op[k] \in Change /\ op[k].failed \subseteq op[k].ids /\ store \in Maybe /\ op \in [Key -> Change]
  BY DEF OpOK, RestOK, Maybe
<1>2. /\ op' \in [Key -> Change] /\ \A j \in Key : j # k => op'[j] = op[j]
      /\ op'[k].failed \subseteq op'[k].ids
      /\ op'[k].kind = op[k].kind /\ op'[k].pending = op[k].pending
      /\ op[k].phase = "registered" /\ op'[k].phase = "calling"
  <2>1. CASE op' = [op EXCEPT ![k].phase = "calling", ![k].base = store, ![k].call = "queued"]
    BY <1>1, <2>1 DEF ReadBefore, Change, Phase
  <2>2. CASE op' = [op EXCEPT ![k].phase = "calling", ![k].call = "queued"]
    BY <1>1, <2>2 DEF ReadBefore, Change, Phase
  <2>3. CASE op' = [op EXCEPT ![k].phase = "calling"]
    BY <1>1, <2>3 DEF ReadBefore, Change, Phase
  <2>4. CASE op' = [op EXCEPT ![k].phase = "calling", ![k].call = "finished", ![k].reply = "local"]
    BY <1>1, <2>4 DEF ReadBefore, Change, Phase
  <2>5. QED  BY <2>1, <2>2, <2>3, <2>4 DEF ReadBefore
<1>3. Quiet
  BY <1>2 DEF Quiet, Waiting, Begun
<1>4. /\ queue' \in Seq(Key) /\ Distinctive(queue')
      /\ \A j \in Members(queue') : j \in Members(queue) \/ j = k
  <2>1. CASE UNCHANGED queue
    BY <2>1 DEF OpOK, Distinctive, Members
  <2>2. CASE queue' = Append(queue, k) /\ k \notin ToSet(queue)
    BY <2>2, AppendQueue, ToSetMembers DEF OpOK, Distinctive
  <2>3. QED  BY <2>1, <2>2 DEF ReadBefore
<1>5. Begun(k)'
  BY <1>2 DEF Begun
<1>6. OpOK' /\ QueuedAreStarted'
  BY <1>2, <1>4, <1>5, OneChange
<1>7. QED  BY <1>3, <1>6 DEF StepOK

(* What the engine or the store does for the change at the head of the queue. *)
LEMMA HeadChange ==
  ASSUME OpOK, QueuedAreStarted, NEW k \in Key, AtHead(k),
         op' \in [Key -> Change], \A j \in Key : j # k => op'[j] = op[j],
         op'[k].failed \subseteq op'[k].ids,
         op'[k].kind = op[k].kind, op'[k].pending = op[k].pending, op'[k].phase = op[k].phase,
         op[k].phase # "calling" => op'[k].reply = op[k].reply,
         queue' = queue \/ queue' = Tail(queue)
  PROVE  StepOK
<1>1. queue \in Seq(Key) /\ queue # <<>> /\ queue[1] = k /\ Len(queue) \in Nat /\ Len(queue) >= 1
  BY DEF AtHead, OpOK
<1>2. Begun(k)
  BY <1>1 DEF QueuedAreStarted, Begun
<1>3. Quiet
  BY <1>2 DEF Quiet, Waiting, Begun
<1>4. /\ queue' \in Seq(Key) /\ Distinctive(queue')
      /\ \A j \in Members(queue') : j \in Members(queue)
  <2>1. CASE queue' = queue
    BY <2>1 DEF OpOK, Distinctive, Members
  <2>2. CASE queue' = Tail(queue)
    BY <2>2, <1>1, TailQueue DEF OpOK, Distinctive
  <2>3. QED  BY <2>1, <2>2
<1>5. Begun(k)'
  BY <1>2 DEF Begun
<1>6. OpOK' /\ QueuedAreStarted'
  BY <1>4, <1>5, OneChange
<1>7. QED  BY <1>3, <1>6 DEF StepOK

(* A reply is kept only for a call that still waits for it. *)
LEMMA RepliedType ==
  ASSUME OpOK, NEW k \in Key, NEW r \in {"ok", "remote", "local", "error"}
  PROVE  /\ Replied(k, r) \in {"none", "ok", "remote", "local", "error"} \cup Status
         /\ op[k].phase # "calling" => Replied(k, r) = op[k].reply
BY DEF Replied, OpOK, Change

(* Persist takes the head of the queue; its reply answers a waiting call only. *)
LEMMA PersistOp ==
  ASSUME OpOK, QueuedAreStarted, NEW k \in Key, Persist(k)
  PROVE  StepOK
<1>1. op[k] \in Change /\ op[k].failed \subseteq op[k].ids /\ op \in [Key -> Change]
  BY DEF OpOK
<1>2. PICK call \in {"persisted", "finished"}, r \in {op[k].reply, Replied(k, "ok"), Replied(k, "local")} :
        op' = [op EXCEPT ![k].call = call, ![k].reply = r]
  BY <1>1 DEF Persist
<1>3. /\ r \in {"none", "ok", "remote", "local", "error"} \cup Status
      /\ op[k].phase # "calling" => r = op[k].reply
  BY <1>1, RepliedType DEF Change
<1>4. /\ op' \in [Key -> Change] /\ \A j \in Key : j # k => op'[j] = op[j]
      /\ op'[k].failed \subseteq op'[k].ids /\ op'[k].reply = r
      /\ op'[k].kind = op[k].kind /\ op'[k].pending = op[k].pending /\ op'[k].phase = op[k].phase
  BY <1>1, <1>2, <1>3 DEF Change
<1>5. AtHead(k) /\ (queue' = queue \/ queue' = Tail(queue))
  BY DEF Persist
<1>6. QED  BY <1>3, <1>4, <1>5, HeadChange

(* MarkThreads fills in which remote reads failed. *)
LEMMA MarkThreadsOp ==
  ASSUME OpOK, QueuedAreStarted, NEW k \in Key, MarkThreads(k)
  PROVE  StepOK
<1>1. op[k] \in Change /\ op[k].failed \subseteq op[k].ids /\ op \in [Key -> Change] /\ op[k].ids \in SUBSET ID
  BY DEF OpOK, Change
<1>2. PICK failed \in SUBSET op[k].ids, r \in {Replied(k, "ok"), Replied(k, "remote")} :
        op' = [op EXCEPT ![k].call = "finished", ![k].failed = failed, ![k].reply = r]
  BY DEF MarkThreads
<1>3. /\ r \in {"none", "ok", "remote", "local", "error"} \cup Status
      /\ op[k].phase # "calling" => r = op[k].reply
  BY RepliedType
<1>4. /\ op' \in [Key -> Change] /\ \A j \in Key : j # k => op'[j] = op[j]
      /\ op'[k].failed \subseteq op'[k].ids /\ op'[k].reply = r
      /\ op'[k].kind = op[k].kind /\ op'[k].pending = op[k].pending /\ op'[k].phase = op[k].phase
  BY <1>1, <1>2, <1>3 DEF Change
<1>5. AtHead(k) /\ queue' = Tail(queue)
  BY DEF MarkThreads
<1>6. QED  BY <1>3, <1>4, <1>5, HeadChange

(* RefuseCall takes a change off the queue unexecuted. *)
LEMMA RefuseCallOp ==
  ASSUME OpOK, QueuedAreStarted, NEW k \in Key, RefuseCall(k)
  PROVE  StepOK
<1>1. op[k] \in Change /\ op[k].failed \subseteq op[k].ids /\ op \in [Key -> Change]
  BY DEF OpOK
<1>2. op' = [op EXCEPT ![k].call = "finished", ![k].reply = Replied(k, "error")]
  BY DEF RefuseCall
<1>3. /\ Replied(k, "error") \in {"none", "ok", "remote", "local", "error"} \cup Status
      /\ op[k].phase # "calling" => Replied(k, "error") = op[k].reply
  BY RepliedType
<1>4. /\ op' \in [Key -> Change] /\ \A j \in Key : j # k => op'[j] = op[j]
      /\ op'[k].failed \subseteq op'[k].ids /\ op'[k].reply = Replied(k, "error")
      /\ op'[k].kind = op[k].kind /\ op'[k].pending = op[k].pending /\ op'[k].phase = op[k].phase
  BY <1>1, <1>2, <1>3 DEF Change
<1>5. AtHead(k) /\ queue' = Tail(queue)
  BY DEF RefuseCall
<1>6. QED  BY <1>3, <1>4, <1>5, HeadChange

(* EngineEnds empties the queue and answers no one. *)
LEMMA EngineEndsOp ==
  ASSUME OpOK, QueuedAreStarted, EngineEnds
  PROVE  StepOK
<1>1. \A j \in Key : op[j] \in Change /\ op[j].failed \subseteq op[j].ids
  BY DEF OpOK
<1>2. ASSUME NEW j \in Key
      PROVE  /\ op'[j] \in Change /\ op'[j].failed \subseteq op'[j].ids
             /\ op'[j].kind = op[j].kind /\ op'[j].pending = op[j].pending
             /\ op'[j].reply = op[j].reply /\ op'[j].phase = op[j].phase
  BY <1>1 DEF EngineEnds, Change
<1>3. op' \in [Key -> Change]
  BY <1>2 DEF EngineEnds
<1>4. queue' = <<>>
  BY DEF EngineEnds
<1>5. Quiet
  BY <1>2 DEF Quiet, Waiting, Begun
<1>6. queue' \in Seq(Key) /\ Len(queue') = 0
  BY <1>4
<1>7. OpOK' /\ QueuedAreStarted'
  BY <1>2, <1>3, <1>6 DEF OpOK, QueuedAreStarted
<1>8. QED  BY <1>5, <1>7 DEF StepOK

ShownOK == OneUnderway /\ RecoveryIsShown /\ Owing

(* What is shown holds on while neither it nor the batch under way changes. *)
LEMMA ShownKeeps ==
  Underway' = Underway /\ UNCHANGED <<selected, owed, unlocked, batchPending, recovery, uncertain, refreshPending>>
  /\ ShownOK => ShownOK'
BY DEF ShownOK, OneUnderway, RecoveryIsShown, Owing

(* Steps of the backend change nothing that is shown. *)
BackendStep(k) == Register(k) \/ ReadBefore(k) \/ Persist(k) \/ MarkThreads(k) \/ RefuseCall(k)

(* A step the TUI cannot see keeps the invariant if it keeps the changes well
   formed. *)
LEMMA Unseen ==
  ASSUME IInv, StepOK, UNCHANGED <<connected, req, list, selection, batchState, syncing, started>>,
         failures' \in 0 .. MaxFailures,
         store' \in Snapshot, github' \subseteq ID, conn' \in BOOLEAN
  PROVE  IInv'
<1>1. RestOK'
  BY DEF IInv, RestOK
<1>2. Underway' = Underway /\ BatchAnswers'
  BY QuietKeeps DEF StepOK, IInv
<1>3. ShownOK'
  BY <1>2, ShownKeeps DEF IInv, ShownOK
<1>4. QED  BY <1>1, <1>2, <1>3 DEF IInv, StepOK, ShownOK

(* Faults are bounded. *)
LEMMA FaultType ==
  failures \in 0 .. MaxFailures /\ (Fault \/ NoFault) => failures' \in 0 .. MaxFailures
BY DEF Fault, NoFault

(* Each step of the backend keeps the invariant. *)
LEMMA BackendKeeps ==
  ASSUME IInv, NEW k \in Key, BackendStep(k)
  PROVE  IInv'
<1>1. StepOK
  BY RegisterOp, ReadBeforeOp, PersistOp, MarkThreadsOp, RefuseCallOp DEF BackendStep, IInv
<1>2. UNCHANGED <<connected, req, list, selection, batchState, syncing, started>>
  BY DEF BackendStep, Register, ReadBefore, Persist, MarkThreads, RefuseCall
<1>3. failures' \in 0 .. MaxFailures
  <2>1. CASE MarkThreads(k)
    <3>1. failures \in 0 .. MaxFailures
      BY DEF IInv, RestOK
    <3>2. PICK failed \in SUBSET op[k].ids :
            /\ failed # {} => Ended(k) \/ failures < MaxFailures
            /\ failures' = IF failed = {} \/ Ended(k) THEN failures ELSE failures + 1
      BY <2>1 DEF MarkThreads
    <3>3. QED  BY <3>1, <3>2
  <2>2. CASE ~MarkThreads(k)
    <3>1. Fault \/ NoFault
      BY <2>2 DEF BackendStep, Register, ReadBefore, Persist, RefuseCall, NoFault
    <3>2. QED  BY <3>1, FaultType DEF IInv, RestOK
  <2>3. QED  BY <2>1, <2>2
<1>4. store' \in Snapshot /\ github' \subseteq ID /\ conn' \in BOOLEAN
  <2>1. store \in Snapshot /\ github \subseteq ID /\ conn \in BOOLEAN /\ op[k] \in Change
    BY DEF IInv, RestOK, OpOK
  <2>2. op[k].field \in Field /\ op[k].ids \in SUBSET ID /\ op[k].value \in BOOLEAN
    BY <2>1 DEF Change
  <2>3. Put(store, op[k].field, op[k].ids, op[k].value) \in Snapshot
    BY <2>1, <2>2, PutType
  <2>4. CASE Register(k)
    BY <2>1, <2>4 DEF Register
  <2>5. CASE ReadBefore(k)
    BY <2>1, <2>5 DEF ReadBefore
  <2>6. CASE Persist(k)
    BY <2>1, <2>3, <2>6 DEF Persist
  <2>7. CASE MarkThreads(k)
    BY <2>1, <2>2, <2>7 DEF MarkThreads
  <2>8. CASE RefuseCall(k)
    BY <2>1, <2>8 DEF RefuseCall
  <2>9. QED  BY <2>4, <2>5, <2>6, <2>7, <2>8 DEF BackendStep
<1>5. QED  BY <1>1, <1>2, <1>3, <1>4, Unseen

(* The end of the engine keeps the invariant. *)
LEMMA EngineEndsKeeps ==
  ASSUME IInv, EngineEnds
  PROVE  IInv'
<1>1. StepOK
  BY EngineEndsOp DEF IInv
<1>2. /\ UNCHANGED <<connected, store, github, req, list, selection, batchState, syncing, started>>
      /\ conn' = FALSE
  BY DEF EngineEnds
<1>3. failures' \in 0 .. MaxFailures
  BY FaultType DEF EngineEnds, IInv, RestOK
<1>4. store' \in Snapshot /\ github' \subseteq ID /\ conn' \in BOOLEAN
  BY <1>2 DEF IInv, RestOK
<1>5. QED  BY <1>1, <1>2, <1>3, <1>4, Unseen

-----------------------------------------------------------------------------
(* Answers of single changes, and the ends of their commands *)

(* A step of a change that is no batch before or after it. *)
LEMMA NoBatch ==
  ASSUME NEW k \in Key, k \notin Underway, op'[k].kind \notin {"batch", "refused"} \/ op'[k].phase = "gone",
         \A j \in Key : j # k => op'[j] = op[j]
  PROVE  Underway' = Underway /\ (BatchAnswers => BatchAnswers')
<1>1. Underway' = Underway
  BY DEF Underway
<1>2. BatchAnswers => BatchAnswers'
  BY DEF BatchAnswers, Waiting
<1>3. QED  BY <1>1, <1>2

(* A scalar task that was cancelled before it ran leaves the queue without a
   message. *)
LEMMA DroppedTaskKeeps ==
  ASSUME IInv, NEW k \in Key, DroppedTask(k)
  PROVE  IInv'
<1>1. OpOK /\ op \in [Key -> Change] /\ op[k].kind = "scalar"
  BY DEF IInv, OpOK, DroppedTask
<1>2. /\ op' \in [Key -> Change] /\ \A j \in Key : j # k => op'[j] = op[j]
      /\ op'[k] = NoOp
  BY <1>1, Constants DEF DroppedTask
<1>3. /\ queue' \in Seq(Key) /\ Distinctive(queue')
      /\ \A j \in Members(queue') : j \in Members(queue)
  <2>1. queue \in Seq(Key) /\ Distinctive(queue) /\ DOMAIN queue = 1 .. Len(queue)
    BY <1>1 DEF OpOK, Distinctive
  <2>2. PICK i \in 1 .. Len(queue) : queue' = RemoveAt(queue, i)
    BY <2>1 DEF DroppedTask
  <2>3. QED  BY <2>1, <2>2, RemoveQueue
<1>4. Begun(k)'
  BY <1>2, Constants DEF Begun
<1>5. OpOK' /\ QueuedAreStarted'
  BY <1>1, <1>2, <1>3, <1>4, Constants, OneChange DEF IInv
<1>6. Underway' = Underway /\ BatchAnswers'
  <2>1. k \notin Underway /\ op'[k].phase = "gone"
    BY <1>1, <1>2, Constants DEF Underway
  <2>2. QED  BY <1>2, <2>1, NoBatch DEF IInv
<1>7. RestOK' /\ ShownOK'
  BY <1>6, ShownKeeps DEF DroppedTask, IInv, RestOK, ShownOK
<1>8. QED  BY <1>5, <1>6, <1>7 DEF IInv, ShownOK

(* A change of the user that was not made yet. *)
LEMMA NewChange ==
  ASSUME OpOK, QueuedAreStarted, NEW k \in Key, Fresh(k), NEW c \in Change, c.failed \subseteq c.ids,
         op' = [op EXCEPT ![k] = c], UNCHANGED queue
  PROVE  /\ OpOK' /\ QueuedAreStarted' /\ op'[k] = c
         /\ \A j \in Key : j # k => op'[j] = op[j]
         /\ k \notin Underway
<1>1. op[k].phase = "unused"
  BY DEF Fresh
<1>2. \A i \in 1 .. Len(queue) : queue[i] \in Key /\ queue[i] # k
  BY <1>1 DEF OpOK, QueuedAreStarted
<1>3. op' \in [Key -> Change] /\ op'[k] = c /\ \A j \in Key : j # k => op'[j] = op[j]
  BY DEF OpOK
<1>4. QueuedAreStarted'
  BY <1>2, <1>3 DEF QueuedAreStarted
<1>5. OpOK'
  BY <1>3 DEF OpOK
<1>6. QED  BY <1>1, <1>3, <1>4, <1>5 DEF Underway

(* A scalar change: the list changes at once, no batch does. *)
LEMMA ToggleKeeps ==
  ASSUME IInv, NEW k \in Key, NEW f \in Field, NEW id \in ID, Toggle(k, f, id)
  PROVE  IInv'
<1>1. OpOK /\ list \in Snapshot /\ f \in Field /\ {id} \in SUBSET ID
  BY DEF IInv, RestOK, Toggle, Maybe
<1> DEFINE c == [NoOp EXCEPT !.kind = "scalar", !.field = f, !.ids = {id},
                            !.value = id \notin list[f], !.phase = "created",
                            !.before = IF f = "handled" THEN list ELSE Nothing]
<1>2. c \in Change /\ c.failed = {} /\ c.kind = "scalar"
  BY <1>1 DEF NoOp, Change, Phase, Maybe
<1>3. Fresh(k) /\ op' = [op EXCEPT ![k] = c] /\ UNCHANGED queue
  BY DEF Toggle
<1> HIDE DEF c
<1>4. /\ OpOK' /\ QueuedAreStarted' /\ op'[k] = c
      /\ \A j \in Key : j # k => op'[j] = op[j]
      /\ k \notin Underway
  BY <1>1, <1>2, <1>3, NewChange DEF IInv
<1>5. Underway' = Underway /\ BatchAnswers'
  BY <1>2, <1>4, NoBatch DEF IInv
<1>6. list' \in Maybe
  <2>1. Put(list, f, {id}, id \notin list[f]) \in Maybe
    <3>1. (id \notin list[f]) \in BOOLEAN /\ list \in Maybe
      BY <1>1 DEF Maybe
    <3>2. QED  BY <1>1, <3>1, PutType
  <2>2. QED  BY <1>1, <2>1 DEF Toggle, Maybe
<1>7. RestOK' /\ ShownOK'
  BY <1>5, <1>6, ShownKeeps DEF Toggle, IInv, RestOK, ShownOK
<1>8. QED  BY <1>4, <1>5, <1>7 DEF IInv, ShownOK

(* An answer, or the end of a call without one. *)
LEMMA Answering ==
  ASSUME IInv, NEW k \in Key, op[k].phase \in {"registered", "calling"},
         NEW c \in Change, c.failed = op[k].failed, c.ids = op[k].ids, c.kind = op[k].kind,
         c.phase = "answered",
         op[k].kind = "batch" =>
              /\ c.reply \in Status
              /\ c.reply = "unknown" => c.pending
              /\ c.reply = "rejected" => ~c.pending,
         op' = [op EXCEPT ![k] = c],
         failures' \in 0 .. MaxFailures,
         UNCHANGED <<backend, queue, req, list, selection, batchState, syncing, started>>
  PROVE  IInv'
<1>1. OpOK /\ op \in [Key -> Change] /\ op[k].failed \subseteq op[k].ids
  BY DEF IInv, OpOK
<1>2. op' \in [Key -> Change] /\ op'[k] = c /\ \A j \in Key : j # k => op'[j] = op[j]
  BY <1>1
<1>3. /\ queue' \in Seq(Key) /\ Distinctive(queue')
      /\ \A j \in Members(queue') : j \in Members(queue)
  BY <1>1 DEF OpOK, Distinctive, Members
<1>4. OpOK' /\ QueuedAreStarted'
  <2>1. Begun(k)'
    BY <1>2 DEF Begun
  <2>2. QED  BY <1>1, <1>2, <1>3, <2>1, OneChange DEF IInv
<1>5. Underway' = Underway
  BY <1>2 DEF Underway
<1>6. BatchAnswers'
  BY <1>2 DEF BatchAnswers, Waiting, IInv
<1>7. RestOK' /\ ShownOK'
  BY <1>5, ShownKeeps DEF IInv, RestOK, ShownOK
<1>8. QED  BY <1>4, <1>6, <1>7 DEF IInv, ShownOK

(* The call returns: what is made of its reply is well typed, and certain when it
   should be. *)
LEMMA ReturnKeeps ==
  ASSUME IInv, NEW k \in Key, Return(k)
  PROVE  IInv'
<1>1. op[k].phase = "calling" /\ OpOK /\ store \in Maybe /\ Nothing \in Maybe
  BY DEF Return, Returned, IInv, RestOK, Maybe
<1>2. PICK snap \in Maybe : op' = [op EXCEPT ![k] = Answer(k, snap)]
  BY <1>1 DEF Return
<1> DEFINE c == Answer(k, snap)
<1>3. op[k].kind = "batch" => ~op[k].pending
  BY <1>1 DEF IInv, BatchAnswers, Waiting
<1>4. /\ c \in Change /\ c.failed = op[k].failed /\ c.ids = op[k].ids /\ c.kind = op[k].kind
      /\ c.phase = "answered"
      /\ op[k].kind = "batch" =>
           /\ c.reply \in Status
           /\ c.reply = "unknown" => c.pending
           /\ c.reply = "rejected" => ~c.pending
  BY <1>1, <1>3, AnswerType
<1>5. failures' \in 0 .. MaxFailures
  BY FaultType DEF Return, IInv, RestOK
<1>6. UNCHANGED <<backend, queue, req, list, selection, batchState, syncing, started>>
  BY DEF Return
<1> HIDE DEF c
<1>7. op' = [op EXCEPT ![k] = c]
  BY <1>2 DEF c
<1>8. QED  BY <1>1, <1>4, <1>5, <1>6, <1>7, Answering

(* A call that ends early leaves a batch uncertain and pending. *)
LEMMA CallEndsKeeps ==
  ASSUME IInv, NEW k \in Key, CallEnds(k)
  PROVE  IInv'
<1>1. op[k] \in Change /\ op[k].phase \in {"registered", "calling"} /\ Nothing \in Maybe
  BY DEF IInv, OpOK, CallEnds, Maybe
<1> DEFINE o == [op[k] EXCEPT !.phase = "answered", !.base = Nothing]
           c == IF o.kind = "batch"
                THEN [o EXCEPT !.reply = "unknown", !.pending = TRUE, !.snap = op[k].base]
                ELSE IF o.field = "handled"
                THEN [o EXCEPT !.reply = "local", !.snap = o.before]
                ELSE [o EXCEPT !.reply = "error"]
<1>2. /\ o \in Change /\ o.failed = op[k].failed /\ o.ids = op[k].ids /\ o.kind = op[k].kind
      /\ o.phase = "answered"
  BY <1>1 DEF Change, Phase
<1>3. op' = [op EXCEPT ![k] = c]
  BY DEF CallEnds
<1> HIDE DEF o
<1>4. /\ c \in Change /\ c.failed = op[k].failed /\ c.ids = op[k].ids /\ c.kind = op[k].kind
      /\ c.phase = "answered"
      /\ op[k].kind = "batch" => c.reply = "unknown" /\ c.pending
  <2>1. CASE o.kind = "batch"
    BY <1>1, <1>2, <2>1 DEF Change, Status
  <2>2. CASE o.kind # "batch" /\ o.field = "handled"
    BY <1>1, <1>2, <2>2 DEF Change
  <2>3. CASE o.kind # "batch" /\ o.field # "handled"
    BY <1>1, <1>2, <2>3 DEF Change
  <2>4. QED  BY <2>1, <2>2, <2>3
<1> HIDE DEF c
<1>5. /\ failures' \in 0 .. MaxFailures
      /\ UNCHANGED <<backend, queue, req, list, selection, batchState, syncing, started>>
  BY DEF CallEnds, IInv, RestOK
<1>6. op[k].kind = "batch" =>
           /\ c.reply \in Status
           /\ c.reply = "unknown" => c.pending
           /\ c.reply = "rejected" => ~c.pending
  BY <1>4 DEF Status
<1>7. QED  BY <1>1, <1>3, <1>4, <1>5, <1>6, Answering

(* The message of a change takes it away. *)
LEMMA Departing ==
  ASSUME OpOK, QueuedAreStarted, NEW k \in Key, op[k].phase = "answered",
         op' = [op EXCEPT ![k] = Gone(@)], UNCHANGED queue
  PROVE  /\ OpOK' /\ QueuedAreStarted'
         /\ \A j \in Key : j # k => op'[j] = op[j]
         /\ op'[k].phase = "gone"
<1>1. op \in [Key -> Change] /\ op[k] \in Change /\ op[k].failed \subseteq op[k].ids
  BY DEF OpOK
<1>2. /\ Gone(op[k]) \in Change /\ Gone(op[k]).failed \subseteq Gone(op[k]).ids
      /\ Gone(op[k]).phase = "gone"
  BY <1>1, GoneType
<1>3. /\ op' \in [Key -> Change] /\ op'[k] = Gone(op[k])
      /\ \A j \in Key : j # k => op'[j] = op[j]
  BY <1>1, <1>2
<1>4. /\ queue' \in Seq(Key) /\ Distinctive(queue')
      /\ \A j \in Members(queue') : j \in Members(queue)
  BY DEF OpOK, Distinctive, Members
<1>5. Begun(k)'
  BY <1>2, <1>3 DEF Begun
<1>6. OpOK' /\ QueuedAreStarted'
  BY <1>2, <1>3, <1>4, <1>5, OneChange
<1>7. QED  BY <1>2, <1>3, <1>6

(* The answer of a scalar change is handled. *)
LEMMA MutationAppliedKeeps ==
  ASSUME IInv, NEW k \in Key, MutationApplied(k)
  PROVE  IInv'
<1>1. OpOK /\ op[k].phase = "answered" /\ op[k].kind = "scalar" /\ op[k].snap \in Maybe
  BY DEF IInv, OpOK, MutationApplied, Change
<1>2. /\ OpOK' /\ QueuedAreStarted' /\ op'[k].phase = "gone"
      /\ \A j \in Key : j # k => op'[j] = op[j]
  BY <1>1, Departing DEF MutationApplied, IInv
<1>3. k \notin Underway
  BY <1>1 DEF Underway
<1>4. Underway' = Underway /\ BatchAnswers'
  BY <1>2, <1>3, NoBatch DEF IInv
<1>5. RestOK' /\ ShownOK'
  BY <1>1, <1>4, ShownKeeps DEF MutationApplied, IInv, RestOK, ShownOK
<1>6. QED  BY <1>2, <1>4, <1>5 DEF IInv, ShownOK

(* The answer of a batch is handled: its recovery replaces the selection. *)
LEMMA BatchMutationAppliedKeeps ==
  ASSUME IInv, NEW k \in Key, BatchMutationApplied(k)
  PROVE  IInv'
<1>1. /\ op[k] \in Change /\ op[k].phase = "answered" /\ op[k].kind \in {"batch", "refused"}
      /\ op[k].failed \subseteq op[k].ids
  BY DEF IInv, OpOK, BatchMutationApplied
<1>2. /\ OpOK' /\ QueuedAreStarted' /\ op'[k].phase = "gone"
      /\ \A j \in Key : j # k => op'[j] = op[j]
  BY <1>1, Departing DEF BatchMutationApplied, IInv
<1>3. Underway' = Underway \ {k} /\ ~batchPending'
  <2>1. \A j \in Key : j # k => op'[j].kind = op[j].kind /\ op'[j].phase = op[j].phase
    BY <1>2
  <2>2. QED  BY <1>2, <2>1 DEF Underway, BatchMutationApplied
(* Others go on only under a flag this answer, or an earlier one, has cleared
   beside its own batch. *)
<1>4. unlocked' \in BOOLEAN /\ (~unlocked' => Underway' = {})
  <2>1. unlocked' = (Underway \ {k} # {} /\ (unlocked \/ op[k].kind = "refused"))
    BY DEF BatchMutationApplied
  <2>2. CASE unlocked \/ op[k].kind = "refused"
    BY <1>3, <2>1, <2>2
  <2>3. CASE ~unlocked /\ op[k].kind = "batch"
    <3>1. k \in Underway
      BY <1>1, <2>3 DEF Underway
    <3>2. \E j \in Key : Underway = {j}
      BY <2>3, <3>1 DEF IInv, OneUnderway
    <3>3. QED  BY <1>3, <2>1, <3>1, <3>2
  <2>4. QED  BY <1>1, <2>2, <2>3
<1>5. OneUnderway'
  BY <1>3, <1>4 DEF OneUnderway
<1>6. BatchAnswers'
  BY <1>2 DEF BatchAnswers, Waiting, IInv
<1>7. /\ op[k].reply \in Status
      /\ op[k].reply = "unknown" => op[k].pending
      /\ op[k].reply = "rejected" => ~op[k].pending
  BY <1>1 DEF IInv, BatchAnswers, Status
<1>8. /\ op[k].before \in Maybe /\ op[k].snap \in Maybe /\ op[k].pending \in BOOLEAN
      /\ op[k].failed \in SUBSET ID /\ op[k].ids \in SUBSET ID
  BY <1>1 DEF Change
<1>9. /\ list \in Maybe /\ recoverySeq \in Nat /\ recovery.gen <= recoverySeq /\ recovery \in Recovery
      /\ selected \subseteq ID /\ (selected # {} => selecting) /\ selecting \in BOOLEAN
      /\ req \in [{"load", "recon", "sync"} -> Request]
  BY DEF IInv, RestOK
<1>10. /\ uncertain' = (op[k].reply = "unknown") /\ refreshPending' = op[k].pending
       /\ batchPending' = FALSE /\ owed' = IF op[k].reply = "committed" THEN op[k].failed ELSE {}
  BY DEF BatchMutationApplied
<1> DEFINE Set(retry) == /\ recoverySeq' = recoverySeq + 1
                         /\ recovery' = [status |-> op[k].reply, retry |-> retry,
                                         awaiting |-> op[k].pending, gen |-> recoverySeq + 1]
                         /\ selected' = retry /\ selecting' = (retry # {})
           Quits == recovery' = NoRecovery /\ UNCHANGED <<recoverySeq, selecting, selected>>
<1>11. CASE op[k].reply = "rejected"
  <2>1. list' = op[k].before /\ Quits
    BY <1>11 DEF BatchMutationApplied
  <2>2. ~op[k].pending
    BY <1>7, <1>11
  <2> HIDE DEF Quits
  <2>3. /\ list' \in Maybe /\ owed' = {}
        /\ Quits /\ ~uncertain' /\ ~refreshPending'
    BY <1>8, <1>10, <1>11, <2>1, <2>2
  <2>4. UNCHANGED req
    BY <2>2 DEF BatchMutationApplied
  <2>5. RestOK'
    <3>1. /\ recovery' \in Recovery /\ recoverySeq' \in Nat /\ recovery'.gen <= recoverySeq'
          /\ selected' \subseteq ID /\ (selected' # {} => selecting') /\ selecting' \in BOOLEAN
      BY <1>9, <2>3, Constants DEF Quits
    <3>2. uncertain' \in BOOLEAN /\ refreshPending' \in BOOLEAN
      BY <1>8, <1>10
    <3>3. QED  BY <1>4, <1>10, <2>3, <2>4, <3>1, <3>2 DEF RestOK, IInv, BatchMutationApplied
  <2>6. RecoveryIsShown' /\ Owing'
    BY <2>3, Constants DEF Quits, RecoveryIsShown, Owing
  <2>7. QED  BY <1>2, <1>5, <1>6, <2>5, <2>6 DEF IInv
<1>12. ASSUME NEW retry \in SUBSET ID, Set(retry), op[k].reply \in {"committed", "unknown"},
              list' \in Maybe, owed' \subseteq retry
       PROVE  IInv'
  <2>1. req' \in [{"load", "recon", "sync"} -> Request]
    <3>1. Ask("recon", recoverySeq') \in Request
      BY <1>9, <1>12, AskType
    <3>2. QED  BY <1>9, <3>1 DEF BatchMutationApplied
  <2>2. recovery' \in Recovery /\ recoverySeq' \in Nat /\ recovery.gen' <= recoverySeq'
    BY <1>7, <1>8, <1>9, <1>12 DEF Recovery
  <2>3. RestOK'
    BY <1>4, <1>8, <1>10, <1>12, <2>1, <2>2 DEF RestOK, IInv, BatchMutationApplied
  <2>4. RecoveryIsShown' /\ Owing'
    <3>1. recovery'.status # "none"
      BY <1>12
    <3>2. QED  BY <1>7, <1>8, <1>10, <1>12, <3>1 DEF RecoveryIsShown, Owing
  <2>5. QED  BY <1>2, <1>5, <1>6, <2>3, <2>4 DEF IInv
<1>13. CASE op[k].reply = "committed"
  <2>1. list' = op[k].snap /\ owed' = op[k].failed
    BY <1>10, <1>13 DEF BatchMutationApplied
  <2>2. CASE op[k].failed # {} \/ op[k].pending
    <3>1. Set(op[k].failed)
      BY <1>13, <2>2 DEF BatchMutationApplied, SetRecovery
    <3> HIDE DEF Set
    <3>2. QED  BY <1>8, <1>12, <1>13, <2>1, <3>1
  <2>3. CASE ~(op[k].failed # {} \/ op[k].pending)
    <3>1. Quits
      BY <1>13, <2>3 DEF BatchMutationApplied
    <3>2. ~uncertain' /\ ~refreshPending' /\ owed' = {} /\ list' \in Maybe
      BY <1>8, <1>10, <1>13, <2>1, <2>3
    <3>3. UNCHANGED req
      BY <2>3 DEF BatchMutationApplied
    <3> HIDE DEF Quits
    <3>4. RestOK'
      <4>1. /\ recovery' \in Recovery /\ recoverySeq' \in Nat /\ recovery'.gen <= recoverySeq'
            /\ selected' \subseteq ID /\ (selected' # {} => selecting') /\ selecting' \in BOOLEAN
        BY <1>9, <3>1, Constants DEF Quits
      <4>2. uncertain' \in BOOLEAN /\ refreshPending' \in BOOLEAN
        BY <1>8, <1>10
      <4>3. QED  BY <1>4, <1>10, <3>2, <3>3, <4>1, <4>2 DEF RestOK, IInv, BatchMutationApplied
    <3>5. RecoveryIsShown' /\ Owing'
      BY <3>1, <3>2, Constants DEF Quits, RecoveryIsShown, Owing
    <3>6. QED  BY <1>2, <1>5, <1>6, <3>4, <3>5 DEF IInv
  <2>4. QED  BY <2>2, <2>3
<1>14. CASE op[k].reply = "unknown"
  <2>1. list' \in Maybe /\ owed' = {}
    BY <1>8, <1>9, <1>10, <1>14 DEF BatchMutationApplied
  <2>2. Set(op[k].ids)
    BY <1>14 DEF BatchMutationApplied, SetRecovery
  <2> HIDE DEF Set
  <2>3. QED  BY <1>8, <1>12, <1>14, <2>1, <2>2
<1>15. QED  BY <1>7, <1>11, <1>13, <1>14 DEF Status

(* A batch starts: it is the only one unless the flag was cleared under another,
   and what was owed is forgiven. *)
LEMMA BatchKeeps ==
  ASSUME IInv, NEW k \in Key, NEW o \in BatchOperation, Batch(k, o)
  PROVE  IInv'
<1>1. /\ OpOK /\ list \in Maybe /\ selected \in SUBSET ID /\ recoverySeq \in Nat /\ Nothing \in Maybe
      /\ FieldOf(o) \in Field /\ ValueOf(o) \in BOOLEAN
  BY DEF IInv, RestOK, FieldOf, ValueOf, Field, Maybe
<1> DEFINE c == [NoOp EXCEPT !.kind = "batch", !.field = FieldOf(o), !.ids = selected,
                            !.value = ValueOf(o), !.phase = "created", !.before = list]
<1>2. c \in Change /\ c.failed = {} /\ c.kind = "batch" /\ c.phase = "created" /\ ~c.pending
  BY <1>1 DEF NoOp, Change, Phase
<1>3. Fresh(k) /\ op' = [op EXCEPT ![k] = c] /\ UNCHANGED queue
  BY DEF Batch, Applied
<1> HIDE DEF c
<1>4. /\ OpOK' /\ QueuedAreStarted' /\ op'[k] = c
      /\ \A j \in Key : j # k => op'[j] = op[j]
  BY <1>1, <1>2, <1>3, NewChange DEF IInv
<1>5. Underway' = Underway \cup {k} /\ (~unlocked => Underway = {})
  <2>1. Underway' = Underway \cup {k}
    BY <1>2, <1>4 DEF Underway
  <2>2. QED  BY <2>1 DEF IInv, OneUnderway, Batch
<1>6. BatchAnswers'
  BY <1>2, <1>4 DEF BatchAnswers, Waiting, IInv
<1>7. /\ batchPending' = TRUE /\ owed' = {} /\ recovery' = NoRecovery
      /\ uncertain' = FALSE /\ refreshPending' = FALSE /\ UNCHANGED unlocked
  BY DEF Batch, Applied, ClearRecovery
<1>8. list' \in Maybe
  BY <1>1, PutType DEF Batch, Applied
<1>9. RestOK'
  <2>1. recovery' \in Recovery /\ recovery'.gen <= recoverySeq'
    BY <1>1, <1>7, Constants DEF Batch, Applied
  <2>2. RestOK
    BY DEF IInv
  <2>3. QED  BY <1>7, <1>8, <2>1, <2>2 DEF Batch, Applied, RestOK
<1>10. OneUnderway'
  BY <1>5, <1>7 DEF OneUnderway
<1>11. RecoveryIsShown' /\ Owing'
  BY <1>7, Constants DEF RecoveryIsShown, Owing
<1>12. QED  BY <1>4, <1>6, <1>9, <1>10, <1>11 DEF IInv

(* A selection that is too large is answered at once; nothing else changes. *)
LEMMA BatchRefusedKeeps ==
  ASSUME IInv, NEW k \in Key, BatchRefused(k)
  PROVE  IInv'
<1>1. OpOK /\ list \in Maybe
  BY DEF IInv, RestOK
<1> DEFINE c == [NoOp EXCEPT !.kind = "refused", !.phase = "answered",
                            !.before = list, !.reply = "rejected"]
<1>2. /\ c \in Change /\ c.failed = {} /\ c.kind = "refused" /\ c.phase = "answered"
      /\ c.reply = "rejected" /\ ~c.pending
  BY <1>1 DEF NoOp, Change, Phase, Maybe, Status, Field
<1>3. /\ Fresh(k) /\ op' = [op EXCEPT ![k] = c]
      /\ UNCHANGED <<backend, failures, queue, req, list, selection, batchState, syncing, started>>
  BY DEF BatchRefused
<1> HIDE DEF c
<1>4. /\ OpOK' /\ QueuedAreStarted' /\ op'[k] = c
      /\ \A j \in Key : j # k => op'[j] = op[j]
      /\ k \notin Underway
  BY <1>1, <1>2, <1>3, NewChange DEF IInv
<1>5. Underway' = Underway
  BY <1>2, <1>4 DEF Underway
<1>6. BatchAnswers'
  BY <1>2, <1>4 DEF BatchAnswers, Waiting, IInv
<1>7. RestOK' /\ ShownOK'
  BY <1>3, <1>5, ShownKeeps DEF IInv, RestOK, ShownOK
<1>8. QED  BY <1>4, <1>6, <1>7 DEF IInv, ShownOK

-----------------------------------------------------------------------------
(* Steps of the TUI that touch no change *)

LEMMA ViewKeeps ==
  ASSUME IInv, UNCHANGED <<op, queue, batchPending, unlocked>>,
         RestOK', RecoveryIsShown', Owing'
  PROVE  IInv'
<1>1. Quiet /\ OpOK'
  BY QuietOps DEF IInv
<1>2. QueuedAreStarted'
  BY DEF QueuedAreStarted, IInv
<1>3. Underway' = Underway /\ BatchAnswers'
  BY <1>1, QuietKeeps DEF IInv
<1>4. OneUnderway'
  BY <1>3 DEF OneUnderway, IInv
<1>5. QED  BY <1>1, <1>2, <1>3, <1>4 DEF IInv

RequestStep ==
    \/ SyncKey \/ Poll
    \/ \E kind \in {"load", "recon"} : Answered(kind) \/ DeliverError(kind)
    \/ \E kind \in DOMAIN req : Skipped(kind)
    \/ SyncComplete \/ SyncFails

(* Loads, reconciliations and syncs on their way change nothing that is shown. *)
LEMMA RequestKeeps ==
  ASSUME IInv, RequestStep
  PROVE  IInv'
<1>1. /\ req \in [{"load", "recon", "sync"} -> Request] /\ store \in Maybe /\ syncing \in BOOLEAN
      /\ Ask("sync", 0) \in Request /\ Ask("load", 0) \in Request /\ NoReq \in Request
      /\ failures \in 0 .. MaxFailures /\ RestOK
  BY AskType, Constants DEF IInv, RestOK, Maybe
<1> DEFINE RequestsFit ==
             /\ req' \in [{"load", "recon", "sync"} -> Request] /\ syncing' \in BOOLEAN
             /\ failures' \in 0 .. MaxFailures
<1>2. RequestsFit
  <2>1. CASE SyncKey \/ Poll
    BY <1>1, <2>1 DEF SyncKey, Poll
  <2>2. ASSUME NEW kind \in {"load", "recon"}, Answered(kind)
        PROVE  RequestsFit
    <3>1. PICK snap \in Maybe :
            \/ req' = [req EXCEPT ![kind].phase = "answered", ![kind].snap = snap]
            \/ req' = [req EXCEPT ![kind].phase = "answered"]
      BY <1>1, <2>2 DEF Answered
    <3>2. req[kind] \in Request
      BY <1>1
    <3>3. req' \in [{"load", "recon", "sync"} -> Request]
      BY <1>1, <3>1, <3>2 DEF Request
    <3>4. QED  BY <1>1, <2>2, <3>3, FaultType DEF Answered
  <2>3. ASSUME NEW kind \in {"load", "recon"}, DeliverError(kind)
        PROVE  RequestsFit
    BY <1>1, <2>3 DEF DeliverError
  <2>4. ASSUME NEW kind \in DOMAIN req, Skipped(kind)
        PROVE  RequestsFit
    BY <1>1, <2>4, FaultType DEF Skipped
  <2>5. CASE SyncComplete
    BY <1>1, <2>5 DEF SyncComplete
  <2>6. CASE SyncFails
    BY <1>1, <2>6, FaultType DEF SyncFails
  <2>7. QED  BY <2>1, <2>2, <2>3, <2>4, <2>5, <2>6 DEF RequestStep
<1>3. UNCHANGED <<backend, op, queue, list, selection, batchState, started>>
  BY DEF RequestStep, SyncKey, Poll, Answered, DeliverError, Skipped, SyncComplete, SyncFails
<1>4. RestOK'
  BY <1>1, <1>2, <1>3 DEF RestOK
<1>5. RecoveryIsShown' /\ Owing'
  BY <1>3 DEF RecoveryIsShown, Owing, IInv
<1>6. QED  BY <1>3, <1>4, <1>5, ViewKeeps

(* Leaving the selection ends its recovery; there is none while a batch is under
   way. *)
LEMMA ClearSelectionShows ==
  ASSUME IInv, ClearSelection, owed' = {}, UNCHANGED <<batchPending, recoverySeq>>
  PROVE  /\ selected' = {} /\ selecting' = FALSE
         /\ recovery' \in Recovery /\ recovery'.gen <= recoverySeq
         /\ uncertain' \in BOOLEAN /\ refreshPending' \in BOOLEAN
         /\ RecoveryIsShown' /\ Owing'
<1>1. /\ selected' = {} /\ owed' = {} /\ selecting' = FALSE
      /\ recoverySeq \in Nat /\ recovery \in Recovery /\ recovery.gen <= recoverySeq
      /\ uncertain \in BOOLEAN /\ refreshPending \in BOOLEAN
      /\ RecoveryIsShown
  BY DEF ClearSelection, IInv, RestOK
<1>2. CASE batchPending
  <2>1. UNCHANGED <<recovery, uncertain, refreshPending>>
    BY <1>2 DEF ClearSelection
  <2>2. recovery = NoRecovery
    BY <1>1, <1>2 DEF RecoveryIsShown
  <2>3. QED  BY <1>1, <2>1, <2>2 DEF RecoveryIsShown, Owing
<1>3. CASE ~batchPending
  <2>1. recovery' = NoRecovery /\ uncertain' = FALSE /\ refreshPending' = FALSE
    BY <1>3 DEF ClearSelection, ClearRecovery
  <2>2. recovery' \in Recovery /\ recovery'.gen <= recoverySeq /\ ~recovery'.awaiting
    BY <1>1, <2>1, Constants
  <2>3. RecoveryIsShown' /\ Owing'
    BY <1>1, <2>1, <2>2 DEF RecoveryIsShown, Owing
  <2>4. QED  BY <1>1, <2>1, <2>2, <2>3
<1>4. QED  BY <1>2, <1>3

(* The keys that enter and leave the selection. *)
LEMMA SelectionKeysKeep ==
  ASSUME IInv, EnterSelection \/ LeaveSelection
  PROVE  IInv'
<1>1. RestOK /\ RecoveryIsShown /\ Owing
  BY DEF IInv
<1>2. CASE EnterSelection
  <2>1. RestOK' /\ RecoveryIsShown' /\ Owing'
    BY <1>1, <1>2 DEF EnterSelection, RestOK, RecoveryIsShown, Owing
  <2>2. QED  BY <1>2, <2>1, ViewKeeps DEF EnterSelection
<1>3. CASE LeaveSelection
  <2>1. ClearSelection /\ owed' = {} /\ UNCHANGED <<batchPending, recoverySeq>>
    BY <1>3 DEF LeaveSelection
  <2>2. /\ selected' = {} /\ selecting' = FALSE
        /\ recovery' \in Recovery /\ recovery'.gen <= recoverySeq
        /\ uncertain' \in BOOLEAN /\ refreshPending' \in BOOLEAN
        /\ RecoveryIsShown' /\ Owing'
    BY <2>1, ClearSelectionShows
  <2>3. RestOK'
    BY <1>1, <1>3, <2>1, <2>2 DEF LeaveSelection, RestOK
  <2>4. QED  BY <1>3, <2>2, <2>3, ViewKeeps DEF LeaveSelection
<1>4. QED  BY <1>2, <1>3

(* Selecting and deselecting a notification. *)
LEMMA SelectKeeps ==
  ASSUME IInv, NEW id \in ID, Select(id)
  PROVE  IInv'
<1>1. /\ RestOK /\ RecoveryIsShown /\ Owing /\ ~batchPending /\ selecting
      /\ selected' \in SUBSET ID /\ owed' = owed \ {id}
      /\ UNCHANGED <<batchPending, recoverySeq, selecting, unlocked>>
  BY DEF IInv, RestOK, Select
<1> DEFINE Follows == /\ recovery' \in Recovery /\ recovery'.gen <= recoverySeq
                      /\ uncertain' \in BOOLEAN /\ refreshPending' \in BOOLEAN
                      /\ RecoveryIsShown' /\ Owing'
<1>2. owed \ {id} \subseteq selected'
  BY <1>1 DEF Owing, Select
<1>3. Follows
  <2>1. /\ recovery \in Recovery /\ recovery.gen <= recoverySeq /\ recoverySeq \in Nat
        /\ uncertain \in BOOLEAN /\ refreshPending \in BOOLEAN
    BY <1>1 DEF RestOK
  <2>2. CASE recovery = NoRecovery
    <3>1. UNCHANGED <<recovery, uncertain, refreshPending>>
      BY <2>2 DEF Select
    <3>2. owed' = {}
      BY <1>1, <2>2, Constants DEF Owing
    <3>3. QED  BY <1>1, <2>1, <2>2, <3>1, <3>2 DEF RecoveryIsShown, Owing
  <2>3. CASE ClearRecovery /\ selected' = {}
    <3>1. recovery' = NoRecovery /\ uncertain' = FALSE /\ refreshPending' = FALSE
      BY <2>3 DEF ClearRecovery
    <3>2. recovery' \in Recovery /\ recovery'.gen <= recoverySeq /\ ~recovery'.awaiting
      BY <2>1, <3>1, Constants
    <3>3. owed' = {}
      BY <1>1, <1>2, <2>3
    <3>4. QED  BY <3>1, <3>2, <3>3 DEF RecoveryIsShown, Owing
  <2>4. CASE /\ recovery' = [recovery EXCEPT !.retry = selected']
             /\ UNCHANGED <<uncertain, refreshPending>>
    <3>1. /\ recovery' \in Recovery /\ recovery'.gen = recovery.gen /\ recovery'.retry = selected'
          /\ recovery'.awaiting = recovery.awaiting /\ recovery'.status = recovery.status
      BY <1>1, <2>1, <2>4 DEF Recovery
    <3>2. RecoveryIsShown'
      BY <1>1, <2>4, <3>1 DEF RecoveryIsShown
    <3>3. Owing'
      BY <1>1, <1>2, <3>1 DEF Owing
    <3>4. QED  BY <2>1, <2>4, <3>1, <3>2, <3>3
  <2>5. QED  BY <2>2, <2>3, <2>4 DEF Select
<1>4. RestOK'
  BY <1>1, <1>3 DEF RestOK, Select
<1>5. QED  BY <1>1, <1>3, <1>4, ViewKeeps DEF Select

(* A recovery restores the selection it already has. *)
LEMMA RestoreShows ==
  ASSUME IInv, recovery # NoRecovery, RestoreSelection(recovery)
  PROVE  /\ selected' = selected /\ selected = recovery.retry
         /\ selecting' \in BOOLEAN /\ selected' \subseteq ID
         /\ selected' # {} => selecting'
BY DEF IInv, RestOK, RecoveryIsShown, RestoreSelection

(* A load is shown: a recovery that awaits a reconciliation survives it. *)
LEMMA NotificationsLoadedKeeps ==
  ASSUME IInv, NotificationsLoaded
  PROVE  IInv'
<1>1. RestOK /\ RecoveryIsShown /\ Owing
  BY DEF IInv
<1>2. req' \in [{"load", "recon", "sync"} -> Request]
  <2>1. recovery.gen \in Nat /\ req \in [{"load", "recon", "sync"} -> Request]
    BY <1>1 DEF RestOK, Recovery
  <2>2. Ask("recon", recovery.gen) \in Request /\ NoReq \in Request
    BY <2>1, AskType, Constants
  <2>3. QED  BY <2>1, <2>2 DEF NotificationsLoaded
<1>3. list' \in Maybe /\ started' \in BOOLEAN
  <2>1. req["load"] \in Request /\ started \in BOOLEAN
    BY <1>1 DEF RestOK
  <2>2. list' = req["load"].snap /\ started' = (started \/ req["load"].initial)
    BY DEF NotificationsLoaded
  <2>3. req["load"].snap \in Maybe /\ req["load"].initial \in BOOLEAN
    BY <2>1 DEF Request
  <2>4. QED  BY <2>1, <2>2, <2>3
<1>4. UNCHANGED <<backend, failures, op, queue, batchPending, recoverySeq, syncing, history>>
  BY DEF NotificationsLoaded
<1> DEFINE Shows == /\ selected' \subseteq ID /\ selecting' \in BOOLEAN
                    /\ selected' # {} => selecting'
                    /\ recovery' \in Recovery /\ recovery'.gen <= recoverySeq
                    /\ uncertain' \in BOOLEAN /\ refreshPending' \in BOOLEAN
                    /\ RecoveryIsShown' /\ Owing'
<1>5. Shows
  <2>1. CASE recovery # NoRecovery
    <3>1. RestoreSelection(recovery) /\ UNCHANGED <<recovery, uncertain, refreshPending>>
      BY <2>1 DEF NotificationsLoaded
    <3>2. /\ selected' = selected
          /\ selecting' \in BOOLEAN /\ selected' \subseteq ID
          /\ selected' # {} => selecting'
      BY <2>1, <3>1, RestoreShows
    <3>3. RecoveryIsShown' /\ Owing'
      BY <1>1, <1>4, <3>1, <3>2 DEF RecoveryIsShown, Owing
    <3>4. QED  BY <1>1, <3>1, <3>2, <3>3 DEF RestOK
  <2>2. CASE recovery = NoRecovery /\ batchPending
    <3>1. UNCHANGED <<selecting, selected, recovery, uncertain, refreshPending>>
      BY <2>2 DEF NotificationsLoaded
    <3>2. RecoveryIsShown' /\ Owing'
      BY <1>1, <1>4, <3>1 DEF RecoveryIsShown, Owing
    <3>3. QED  BY <1>1, <3>1, <3>2 DEF RestOK
  <2>3. CASE recovery = NoRecovery /\ ~batchPending
    <3>1. ClearSelection
      BY <2>3 DEF NotificationsLoaded
    <3>2. owed' = {}
      BY <1>1, <1>4, <2>3, Constants DEF Owing
    <3>3. QED  BY <1>4, <3>1, <3>2, ClearSelectionShows
  <2>4. QED  BY <2>1, <2>2, <2>3
<1>6. RestOK'
  BY <1>1, <1>2, <1>3, <1>4, <1>5 DEF RestOK
<1>7. QED  BY <1>4, <1>5, <1>6, ViewKeeps

(* A reconciliation settles the recovery that asked for it, and no other. *)
LEMMA ReconciliationLoadedKeeps ==
  ASSUME IInv, ReconciliationLoaded
  PROVE  IInv'
<1>1. RestOK /\ RecoveryIsShown /\ Owing
  BY DEF IInv
<1>2. req' \in [{"load", "recon", "sync"} -> Request]
  BY <1>1, Constants DEF RestOK, ReconciliationLoaded
<1>3. UNCHANGED <<backend, failures, op, queue, batchPending, recoverySeq, syncing, started, history>>
  BY DEF ReconciliationLoaded
<1> DEFINE Shows == /\ list' \in Maybe
                    /\ selected' \subseteq ID /\ selecting' \in BOOLEAN
                    /\ selected' # {} => selecting'
                    /\ recovery' \in Recovery /\ recovery'.gen <= recoverySeq
                    /\ uncertain' \in BOOLEAN /\ refreshPending' \in BOOLEAN
                    /\ RecoveryIsShown' /\ Owing'
<1>4. Shows
  <2>1. CASE ~Correlated
    <3>1. UNCHANGED <<list, selecting, selected, recovery, uncertain, refreshPending>>
      BY <2>1 DEF ReconciliationLoaded
    <3>2. RecoveryIsShown' /\ Owing'
      BY <1>1, <1>3, <3>1 DEF RecoveryIsShown, Owing
    <3>3. QED  BY <1>1, <3>1, <3>2 DEF RestOK
  <2>2. ASSUME Correlated  PROVE  list' \in Maybe /\ recovery # NoRecovery
    <3>1. list' = req["recon"].snap /\ req["recon"] \in Request
      BY <1>1, <2>2 DEF ReconciliationLoaded, RestOK
    <3>2. QED  BY <2>2, <3>1, Constants DEF Request, Correlated
  <2>3. CASE Correlated /\ recovery.status = "committed" /\ recovery.retry = {}
    <3>1. ClearSelection
      BY <2>3 DEF ReconciliationLoaded
    <3>2. owed' = {}
      BY <1>1, <1>3, <2>2, <2>3 DEF Owing, RecoveryIsShown
    <3>3. QED  BY <1>3, <2>2, <2>3, <3>1, <3>2, ClearSelectionShows
  <2>4. CASE Correlated /\ ~(recovery.status = "committed" /\ recovery.retry = {})
    <3>1. /\ recovery' = [recovery EXCEPT !.awaiting = FALSE]
          /\ uncertain' = FALSE /\ refreshPending' = FALSE
          /\ RestoreSelection(recovery)
      BY <2>4 DEF ReconciliationLoaded
    <3>2. /\ selected' = selected /\ selected = recovery.retry
          /\ selecting' \in BOOLEAN /\ selected' \subseteq ID
          /\ selected' # {} => selecting'
      BY <2>2, <2>4, <3>1, RestoreShows
    <3>3. recovery \in Recovery /\ recovery.gen <= recoverySeq
      BY <1>1 DEF RestOK
    <3>4. /\ recovery' \in Recovery /\ recovery'.gen = recovery.gen
          /\ recovery'.retry = recovery.retry /\ recovery'.awaiting = FALSE
          /\ recovery'.status = recovery.status
      BY <3>1, <3>3 DEF Recovery
    <3>5. RecoveryIsShown'
      BY <1>1, <1>3, <2>2, <2>4, <3>1, <3>2, <3>4 DEF RecoveryIsShown
    <3>6. Owing'
      BY <1>1, <1>3, <3>2, <3>4 DEF Owing
    <3>7. QED  BY <2>2, <2>4, <3>1, <3>2, <3>3, <3>4, <3>5, <3>6
  <2>5. QED  BY <2>1, <2>3, <2>4
<1>5. RestOK'
  BY <1>1, <1>2, <1>3, <1>4 DEF RestOK
<1>6. QED  BY <1>3, <1>4, <1>5, ViewKeeps

-----------------------------------------------------------------------------
(* The invariant holds at the start, *)
LEMMA InitHolds == Init => IInv
<1> SUFFICES ASSUME Init PROVE IInv
  OBVIOUS
<1>1. [NoOp EXCEPT !.phase = "unused"] \in Change
  BY Constants DEF Change, Phase
<1> DEFINE u == [NoOp EXCEPT !.phase = "unused"]
<1>2. u \in Change /\ u.failed = {} /\ u.kind = "none"
  BY <1>1 DEF NoOp
<1> HIDE DEF u
<1>3. op = [k \in Key |-> u] /\ queue = <<>>
  BY DEF Init, u
<1>4. OpOK /\ QueuedAreStarted /\ BatchAnswers /\ Underway = {}
  BY <1>2, <1>3 DEF OpOK, QueuedAreStarted, BatchAnswers, Underway
<1>5. RestOK
  <2>1. [NoReq EXCEPT !.phase = "asked", !.initial = TRUE] \in Request /\ NoReq \in Request
    BY DEF NoReq, Request, Maybe
  <2>2. req \in [{"load", "recon", "sync"} -> Request]
    BY <2>1 DEF Init
  <2>3. store \in Snapshot /\ list \in Maybe
    BY DEF Init, Snapshot, Maybe
  <2>4. recovery \in Recovery /\ recoverySeq = 0 /\ recovery.gen <= recoverySeq
    BY Constants DEF Init
  <2>5. failures = 0 /\ 0 \in 0 .. MaxFailures
    BY DEF Init
  <2>6. connected \in BOOLEAN /\ conn \in BOOLEAN /\ syncing \in BOOLEAN /\ started \in BOOLEAN
    BY DEF Init
  <2>7. selecting \in BOOLEAN /\ batchPending \in BOOLEAN /\ uncertain \in BOOLEAN /\ refreshPending \in BOOLEAN
    BY DEF Init
  <2>8. github \subseteq ID /\ selected = {} /\ owed = {} /\ unlocked = FALSE
    BY DEF Init
  <2>9. QED  BY <2>2, <2>3, <2>4, <2>5, <2>6, <2>7, <2>8 DEF RestOK
<1>6. OneUnderway /\ RecoveryIsShown /\ Owing
  BY <1>4, Constants DEF Init, OneUnderway, RecoveryIsShown, Owing
<1>7. QED  BY <1>4, <1>5, <1>6 DEF IInv

(* while nothing happens, *)
LEMMA StutterHolds == IInv /\ UNCHANGED vars => IInv'
<1> SUFFICES ASSUME IInv, UNCHANGED vars PROVE IInv'
  OBVIOUS
<1>1. RestOK' /\ RecoveryIsShown' /\ Owing'
  BY DEF IInv, RestOK, RecoveryIsShown, Owing
<1>2. QED  BY <1>1, ViewKeeps

(* and after every step; *)
LEMMA NextHolds == IInv /\ Next => IInv'
<1> SUFFICES ASSUME IInv, Next PROVE IInv'
  OBVIOUS
<1>1. ASSUME NEW k \in Key, NEW t \in Target, Toggle(k, t[1], t[2])  PROVE IInv'
  <2>1. t[1] \in Field /\ t[2] \in ID
    OBVIOUS
  <2>2. QED  BY <1>1, <2>1, ToggleKeeps
<1>2. ASSUME NEW k \in Key, NEW o \in BatchOperation, Batch(k, o)  PROVE IInv'
  BY <1>2, BatchKeeps
<1>3. ASSUME NEW k \in Key, BatchRefused(k) \/ Runs(k) \/ RefuseCall(k)  PROVE IInv'
  <2>1. CASE BackendStep(k)
    BY <2>1, BackendKeeps
  <2>2. CASE DroppedTask(k)
    BY <2>2, DroppedTaskKeeps
  <2>3. CASE Return(k)
    BY <2>3, ReturnKeeps
  <2>4. CASE CallEnds(k)
    BY <2>4, CallEndsKeeps
  <2>5. CASE MutationApplied(k)
    BY <2>5, MutationAppliedKeeps
  <2>6. CASE BatchMutationApplied(k)
    BY <2>6, BatchMutationAppliedKeeps
  <2>7. CASE BatchRefused(k)
    BY <2>7, BatchRefusedKeeps
  <2>8. QED  BY <1>3, <2>1, <2>2, <2>3, <2>4, <2>5, <2>6, <2>7 DEF Runs, BackendStep
<1>4. ASSUME NEW id \in ID, Select(id)  PROVE IInv'
  BY <1>4, SelectKeeps
<1>5. CASE EnterSelection \/ LeaveSelection
  BY <1>5, SelectionKeysKeep
<1>6. CASE RequestStep
  BY <1>6, RequestKeeps
<1>7. CASE NotificationsLoaded
  BY <1>7, NotificationsLoadedKeeps
<1>8. CASE ReconciliationLoaded
  BY <1>8, ReconciliationLoadedKeeps
<1>9. CASE EngineEnds
  BY <1>9, EngineEndsKeeps
<1>10. QED
  BY <1>1, <1>2, <1>3, <1>4, <1>5, <1>6, <1>7, <1>8, <1>9 DEF Next, RequestStep

(* so it holds always. *)
LEMMA InvariantHolds == Spec => []IInv
<1>1. IInv /\ [Next]_vars => IInv'
  BY NextHolds, StutterHolds
<1>2. QED  BY InitHolds, <1>1, PTL DEF Spec

(* The theorems: each invariant of the run, for any notifications, any number of
   changes and of faults. *)

(* TypeCorrect: every variable keeps its type; no change is queued twice, no
   selection outlives its mode, no recovery is newer than the last one made. *)
THEOREM TypeCorrect == Spec => []TypeOK
<1>1. IInv => TypeOK
  BY TypeParts DEF IInv
<1>2. QED  BY <1>1, InvariantHolds, PTL

(* RecoveryShows: the footer and the selection say what the recovery of a batch
   is, whichever answers came in between and in whichever order. *)
THEOREM RecoveryShows == Spec => []RecoveryIsShown
<1>1. IInv => RecoveryIsShown
  BY DEF IInv
<1>2. QED  BY <1>1, InvariantHolds, PTL

(* FailedKept: a notification whose remote read failed stays selected until the
   user deals with it. *)
THEOREM FailedKept == Spec => []FailedStaySelected
<1>1. IInv => FailedStaySelected
  BY DEF IInv, Owing, FailedStaySelected
<1>2. QED  BY <1>1, InvariantHolds, PTL

(* BatchesExclude: while no answer to a refused selection has come under a batch,
   batchPending holds exactly while one batch is under way, and never two are;
   once one has, a pending batch is still under way. *)
THEOREM BatchesExclude == Spec => []OneBatch
<1>1. IInv => OneBatch
  <2>1. SUFFICES ASSUME IInv PROVE OneBatch
    OBVIOUS
  <2>2. CASE unlocked
    BY <2>1, <2>2 DEF IInv, OneUnderway, OneBatch
  <2>3. CASE ~unlocked /\ batchPending
    <3>1. PICK k \in Key : Underway = {k}
      BY <2>1, <2>3 DEF IInv, OneUnderway
    <3>2. QED  BY <2>3, <3>1, FS_Singleton DEF OneBatch
  <2>4. CASE ~unlocked /\ ~batchPending
    <3>1. Underway = {}
      BY <2>1, <2>4 DEF IInv, OneUnderway
    <3>2. QED  BY <2>4, <3>1, FS_EmptySet DEF OneBatch
  <2>5. QED  BY <2>2, <2>3, <2>4
<1>2. QED  BY <1>1, InvariantHolds, PTL

-----------------------------------------------------------------------------
(* What a caller that has validated the result of a batch may rely on, for
   requests of any length. *)

RawIDs == Seq(Int)
Outcomes == Seq([id : Int, status : RemoteStatus, code : STRING])

(* The IDs of a request are the images of its positions. *)
LEMMA DistinctFinite ==
  ASSUME NEW ids \in RawIDs
  PROVE  IsFiniteSet(Distinct(ids))
<1> DEFINE f == [i \in 1 .. Len(ids) |-> Trim(ids[i])]
<1>1. f \in Surjection(1 .. Len(ids), Distinct(ids))
  BY DEF Surjection, Distinct
<1>2. IsFiniteSet(1 .. Len(ids))
  BY FS_Interval DEF RawIDs
<1>3. QED  BY <1>1, <1>2, FS_Surjection

(* ValidCoversBatch: a result that passes validation reports on every ID of the
   request that was sent, on no other, and on each of them once, however the
   request repeated its IDs or padded them (NotificationBatchResult.Validate:
   the code checks the number of outcomes, that each is expected, and that none
   is repeated, and never looks for a missing one). *)
THEOREM ValidCoversBatch ==
  ASSUME NEW expected, expected.ids \in RawIDs,
         NEW result, result.outcomes \in Outcomes,
         Valid(expected, result)
  PROVE  /\ \A id \in Distinct(expected.ids) :
              \E i \in 1 .. Len(result.outcomes) :
                /\ result.outcomes[i].id = id
                /\ \A j \in 1 .. Len(result.outcomes) : result.outcomes[j].id = id => j = i
         /\ \A i \in 1 .. Len(result.outcomes) : result.outcomes[i].id \in Distinct(expected.ids)
<1> DEFINE n == Len(result.outcomes)
           D == Distinct(expected.ids)
           f == [i \in 1 .. n |-> result.outcomes[i].id]
<1>1. n \in Nat /\ IsFiniteSet(1 .. n) /\ Cardinality(1 .. n) = n
  <2>1. n \in Nat  BY DEF Outcomes
  <2>2. IsFiniteSet(1 .. n) /\ Cardinality(1 .. n) = IF 1 > n THEN 0 ELSE n - 1 + 1
    <3>1. 1 \in Int /\ n \in Int  BY <2>1
    <3>2. QED  BY <3>1, FS_Interval
  <2>3. (IF 1 > n THEN 0 ELSE n - 1 + 1) = n
    BY <2>1
  <2>4. QED  BY <2>1, <2>2, <2>3
<1>2. IsFiniteSet(D) /\ Cardinality(D) = n
  BY DistinctFinite DEF Valid
<1>3. /\ \A i \in 1 .. n : f[i] \in D
      /\ \A i \in 1 .. n : \A j \in 1 .. i - 1 : f[j] # f[i]
  <2>1. ASSUME NEW i \in 1 .. n
        PROVE  f[i] \in D /\ \A j \in 1 .. i - 1 : f[j] # f[i]
    <3>1. \A j \in 1 .. i - 1 : j \in 1 .. n
      BY <1>1
    <3>2. QED  BY <3>1 DEF Valid
  <2>2. QED  BY <2>1
<1>4. \A i, j \in 1 .. n : f[i] = f[j] => i = j
  <2>1. SUFFICES ASSUME NEW i \in 1 .. n, NEW j \in 1 .. n, f[i] = f[j], i # j
                 PROVE  FALSE
    OBVIOUS
  <2>2. i \in 1 .. j - 1 \/ j \in 1 .. i - 1
    BY <1>1, <2>1
  <2>3. QED  BY <1>3, <2>1, <2>2
<1>5. f \in Injection(1 .. n, D)
  BY <1>3, <1>4 DEF Injection, IsInjective
<1>6. f \in Surjection(1 .. n, D)
  BY <1>1, <1>2, <1>5, FS_Injection
<1>7. ASSUME NEW id \in D
      PROVE  \E i \in 1 .. n : f[i] = id /\ \A j \in 1 .. n : f[j] = id => j = i
  <2>1. PICK i \in 1 .. n : f[i] = id
    BY <1>6 DEF Surjection
  <2>2. \A j \in 1 .. n : f[j] = id => j = i
    BY <1>4, <2>1
  <2>3. QED  BY <2>1, <2>2
<1>8. \A i \in 1 .. n : f[i] = result.outcomes[i].id
  OBVIOUS
<1> HIDE DEF f
<1>9. ASSUME NEW id \in D
      PROVE  \E i \in 1 .. n : /\ result.outcomes[i].id = id
                               /\ \A j \in 1 .. n : result.outcomes[j].id = id => j = i
  <2>1. PICK i \in 1 .. n : f[i] = id /\ \A j \in 1 .. n : f[j] = id => j = i
    BY <1>7
  <2>2. QED  BY <1>8, <2>1
<1>10. \A i \in 1 .. n : result.outcomes[i].id \in D
  BY <1>3, <1>8
<1>11. QED  BY <1>9, <1>10
=============================================================================
