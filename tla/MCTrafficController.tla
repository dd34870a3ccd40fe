------------------------ MODULE MCTrafficController ------------------------
(* Instances of TrafficController for TLC: which tasks callers submit, and *)
(* the sizes of the channels, for each of the configurations.              *)
EXTENDS TrafficController, TLC

CONSTANTS b1, u1, u2, s1, e1

MCPriority == [t \in Task |-> CASE t = s1 -> "sync" [] t = e1 -> "enrich" [] OTHER -> "user"]
MCCapacityOne == [q \in Queue |-> 1]
=============================================================================
