--------------------------- MODULE HealthTracking ---------------------------
(***************************************************************************)
(* What the load balancer promises about the health of its nodes, without  *)
(* goroutines, channels or timers: which health streams it tracks and, per *)
(* node, the streak of health checks they have earned.  NodeManager is     *)
(* shown to implement it.                                                  *)
(***************************************************************************)
EXTENDS Naturals

CONSTANTS
  Stream,
  Key,
  KeyOf,   \* the node of each stream
  Absent   \* the streak of a node that was never registered

VARIABLES
  tracked,    \* the streams that are tracked
  announced,  \* the streams that ended because their node announced a shutdown
  streak      \* the streak of each node, or Absent

vars == <<tracked, announced, streak>>

Init ==
  /\ tracked = {}
  /\ announced = {}
  /\ streak = [k \in Key |-> Absent]

\* A stream of a known node leaves the streak alone.
Join(s) ==
  /\ s \notin tracked
  /\ tracked' = tracked \cup {s}
  /\ streak' = [streak EXCEPT ![KeyOf[s]] = IF @ = Absent THEN 0 ELSE @]
  /\ UNCHANGED announced

Check(s) ==
  /\ s \in tracked
  /\ streak[KeyOf[s]] # Absent
  /\ streak' = [streak EXCEPT ![KeyOf[s]] = @ + 1]
  /\ UNCHANGED <<tracked, announced>>

\* A timeout or a lost connection: the streak ends with the stream.
Fail(s) ==
  /\ s \in tracked
  /\ streak[KeyOf[s]] # Absent
  /\ tracked' = tracked \ {s}
  /\ streak' = [streak EXCEPT ![KeyOf[s]] = 0]
  /\ UNCHANGED announced

\* An announced shutdown: the streak stays.
Leave(s) ==
  /\ s \in tracked
  /\ tracked' = tracked \ {s}
  /\ announced' = announced \cup {s}
  /\ UNCHANGED streak

\* A new process knows nobody.
Restart ==
  /\ tracked' = {}
  /\ announced' = {}
  /\ streak' = [k \in Key |-> Absent]

Next ==
  \/ \E s \in Stream : Join(s) \/ Check(s) \/ Fail(s) \/ Leave(s)
  \/ Restart

Spec == Init /\ [][Next]_vars
=============================================================================
