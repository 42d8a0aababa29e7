------------------------------ MODULE MCLbBoot ------------------------------
(* Two of the nine keys, which the code treats alike, for TLC. *)
EXTENDS LbBoot

TwoKeys == {Iface, "checks_timeout"}
=============================================================================
