----------------------------- MODULE TaskService -----------------------------
(***************************************************************************)
(* What the traffic controller promises its callers, with no queues,       *)
(* permits, locks or supervisor: an accepted task is settled exactly once, *)
(* user tasks never execute side by side, nothing is accepted once the     *)
(* gate has closed, and the service stops only when it owes no answer.     *)
(***************************************************************************)
CONSTANTS Task, UserTask

VARIABLES
  phase,   \* of each task
  gate     \* of the service

vars == <<phase, gate>>

TypeOK ==
  /\ phase \in [Task -> {"new", "accepted", "executing", "answered", "refused"}]
  /\ gate \in {"open", "closed", "stopped"}

Init ==
  /\ phase = [t \in Task |-> "new"]
  /\ gate = "open"

Move(t, from, to) ==
  /\ phase[t] = from
  /\ phase' = [phase EXCEPT ![t] = to]
  /\ UNCHANGED gate

Accept(t) == gate = "open" /\ Move(t, "new", "accepted")
Refuse(t) == Move(t, "new", "refused")

(* Answered without having executed: cancelled, skipped or drained. *)
SkipNew(t) == gate = "open" /\ Move(t, "new", "answered")
Skip(t) == Move(t, "accepted", "answered")

Execute(t) ==
  /\ t \in UserTask => \A u \in UserTask : phase[u] # "executing"
  /\ Move(t, "accepted", "executing")

Complete(t) == Move(t, "executing", "answered")

Close ==
  /\ gate = "open"
  /\ gate' = "closed"
  /\ UNCHANGED phase

Stop ==
  /\ gate = "closed"
  /\ \A t \in Task : phase[t] \notin {"accepted", "executing"}
  /\ gate' = "stopped"
  /\ UNCHANGED phase

Settle(t) == Skip(t) \/ Complete(t)

Next ==
  \/ \E t \in Task : \/ Accept(t) \/ Refuse(t) \/ SkipNew(t)
                     \/ Execute(t) \/ Settle(t)
  \/ Close \/ Stop

Spec == Init /\ [][Next]_vars
FairSpec == Spec /\ WF_vars(Stop) /\ \A t \in Task : WF_vars(Settle(t))

=============================================================================
