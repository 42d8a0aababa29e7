--------------------------- MODULE MCHealthSystem ---------------------------
(* Two node processes and one load balancer, for TLC. *)
EXTENDS HealthSystem

CONSTANTS p1, p2
=============================================================================
