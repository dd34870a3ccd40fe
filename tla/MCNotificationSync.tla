------------------------- MODULE MCNotificationSync -------------------------
(* Instances of NotificationSync for TLC. *)
EXTENDS NotificationSync

CONSTANTS t1, t2, t3, c1, c2
=============================================================================
