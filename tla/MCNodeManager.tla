---------------------------- MODULE MCNodeManager ----------------------------
(* Small instances of NodeManager for TLC. *)
EXTENDS NodeManager, TLC

CONSTANTS s1, s2, k1

\* One stream of one node.
OneStream == {s1}
OneKeyOf == s1 :> k1

\* Two streams of the same node: one connection, or a port used again.
TwoStreams == {s1, s2}
SharedKeyOf == s1 :> k1 @@ s2 :> k1
=============================================================================
