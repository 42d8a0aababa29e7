---------------------------- MODULE MCDispatcher ----------------------------
(* Small instances of Dispatcher for TLC. *)
EXTENDS Dispatcher

CONSTANTS t1, t2, a1, z1, z2
=============================================================================
