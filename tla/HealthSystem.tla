---------------------------- MODULE HealthSystem ----------------------------
(***************************************************************************)
(* Nodes and the load balancer together, with time: the health loops of    *)
(* pkg/nodenetwork/dispatcher.go against the timers of                     *)
(* pkg/lbnetwork/nodemanager/node_manager.go.  NodeManager and Dispatcher  *)
(* have the goroutines of each side and no clock; here a goroutine is as   *)
(* coarse as the clock allows, and Tick lets one unit of time pass.        *)
(*                                                                         *)
(* A node process opens one stream in its life: reportHealthLoop does not  *)
(* reconnect, so a node that comes back is another process.                *)
(***************************************************************************)
EXTENDS Naturals

CONSTANTS
  Proc,              \* node processes
  ChecksTimeout,     \* cfg.NodeHealth.ChecksTimeout, the same for both sides
  GetConfigTimeout,  \* the deadline of the node's GetConfig call
  MaxOversleep,      \* bound: how much later than asked the timer of a period fires
  MaxDelay,          \* bound: from a Send to the select that takes the status
  MaxResolve         \* bound: how long the handler looks for the node's MAC

ASSUME TimesAssumption ==
  /\ ChecksTimeout \in Nat \ {0}
  /\ {GetConfigTimeout, MaxOversleep, MaxDelay, MaxResolve} \subseteq Nat

HealthCheckIntervalDivisor == 2
GetConfig == ChecksTimeout   \* the HealthCheckTimeout it answers
Period == GetConfig \div HealthCheckIntervalDivisor
MaxGap == Period + MaxOversleep

\* The oldest a status can be when the handler takes it.
MaxAge == IF MaxDelay > MaxResolve THEN MaxDelay ELSE MaxResolve

\* A silence longer than this is as good as any longer one.
LongSilence == ChecksTimeout + MaxAge + 1

VARIABLES
  node,       \* "new" | "fetching" (GetConfig) | "running" (the loop) | "idle" | "dead"
  sinceSend,  \* time since the process connected or put its last status on the stream
  stream,     \* "none" | "open" | "broken"
  wire,       \* ages of the statuses sent and not taken by the handler yet
  lb,         \* "up" | "down"
  handler,    \* "none" | "resolving" | "tracking" | "closed" (timed out, listener alive)
  elapsed,    \* time since the handler, or its timer, was started
  healthy     \* the registry has a streak of at least one check for the process

nodeVars == <<node, sinceSend>>
netVars  == <<stream, wire>>
lbVars   == <<lb, handler, elapsed, healthy>>
vars     == <<nodeVars, netVars, lbVars>>

TypeOK ==
  /\ node \in [Proc -> {"new", "fetching", "running", "idle", "dead"}]
  /\ sinceSend \in [Proc -> 0 .. LongSilence]
  /\ stream \in [Proc -> {"none", "open", "broken"}]
  /\ wire \in [Proc -> SUBSET (0 .. MaxAge)]
  /\ lb \in {"up", "down"}
  /\ handler \in [Proc -> {"none", "resolving", "tracking", "closed"}]
  /\ elapsed \in [Proc -> Nat]
  /\ healthy \in [Proc -> BOOLEAN]

Init ==
  /\ node = [p \in Proc |-> "new"]
  /\ sinceSend = [p \in Proc |-> 0]
  /\ stream = [p \in Proc |-> "none"]
  /\ wire = [p \in Proc |-> {}]
  /\ lb = "up"
  /\ handler = [p \in Proc |-> "none"]
  /\ elapsed = [p \in Proc |-> 0]
  /\ healthy = [p \in Proc |-> FALSE]

-----------------------------------------------------------------------------
(* The node process *)

\* NewClient: dial, open the health stream; the load balancer starts a handler.
Connect(p) ==
  /\ node[p] = "new" /\ lb = "up"
  /\ node' = [node EXCEPT ![p] = "fetching"]
  /\ stream' = [stream EXCEPT ![p] = "open"]
  /\ handler' = [handler EXCEPT ![p] = "resolving"]
  /\ UNCHANGED <<sinceSend, wire, lb, elapsed, healthy>>

\* A status goes out; on a broken stream Send fails, which is only logged.
Send(p) ==
  IF stream[p] = "open"
  THEN /\ sinceSend' = [sinceSend EXCEPT ![p] = 0]
       /\ wire' = [wire EXCEPT ![p] = @ \cup {0}]
  ELSE UNCHANGED <<sinceSend, wire>>

\* fetchConfig succeeds and the loop starts; it reports before it sleeps first.
Fetch(p) ==
  /\ node[p] = "fetching" /\ lb = "up"
  /\ node' = [node EXCEPT ![p] = "running"]
  /\ Send(p)
  /\ UNCHANGED <<stream, lbVars>>

\* The client or the configuration is not to be had: Start fails and main exits.
StartFails(p) ==
  /\ node[p] \in {"new", "fetching"}
  /\ node' = [node EXCEPT ![p] = "dead"]
  /\ stream' = [stream EXCEPT ![p] = IF @ = "open" THEN "broken" ELSE @]
  /\ UNCHANGED <<sinceSend, wire, lbVars>>

\* Mutant: the loop opens a new stream when Send fails.
BeatReconnects(p) ==
  /\ node[p] = "running" /\ sinceSend[p] >= Period
  /\ \/ stream[p] = "open" /\ Send(p) /\ UNCHANGED <<stream, handler, elapsed>>
     \/ /\ stream[p] = "broken" /\ lb = "up" /\ handler[p] = "none"
        /\ stream' = [stream EXCEPT ![p] = "open"]
        /\ handler' = [handler EXCEPT ![p] = "resolving"]
        /\ elapsed' = [elapsed EXCEPT ![p] = 0]
        /\ UNCHANGED <<sinceSend, wire>>
  /\ UNCHANGED <<node, lb, healthy>>

\* The period is over.
Beat(p) ==
  /\ node[p] = "running" /\ stream[p] = "open"
  /\ sinceSend[p] >= Period
  /\ Send(p)
  /\ UNCHANGED <<node, stream, lbVars>>

\* POST /stop ends the loop; the connection stays, nobody closes it.
StopLoop(p) ==
  /\ node[p] = "running"
  /\ node' = [node EXCEPT ![p] = "idle"]
  /\ UNCHANGED <<sinceSend, netVars, lbVars>>

\* The process or its machine is gone; the stream may look open for a while.
Crash(p) ==
  /\ node[p] \in {"fetching", "running", "idle"}
  /\ node' = [node EXCEPT ![p] = "dead"]
  /\ UNCHANGED <<sinceSend, netVars, lbVars>>

\* The connection breaks, with or without what is on it.
Break(p) ==
  /\ stream[p] = "open"
  /\ stream' = [stream EXCEPT ![p] = "broken"]
  /\ \E left \in {wire[p], {}} : wire' = [wire EXCEPT ![p] = left]
  /\ UNCHANGED <<nodeVars, lbVars>>

-----------------------------------------------------------------------------
(* The handler of the process's stream *)

\* The addresses are known: register, spawn the listener, start the timer.
Track(p) ==
  /\ handler[p] = "resolving"
  /\ handler' = [handler EXCEPT ![p] = "tracking"]
  /\ elapsed' = [elapsed EXCEPT ![p] = 0]
  /\ UNCHANGED <<nodeVars, netVars, lb, healthy>>

\* The handler is gone and what is left of the stream with it.
Drop(p) ==
  /\ stream' = [stream EXCEPT ![p] = "broken"]
  /\ wire' = [wire EXCEPT ![p] = {}]
  /\ elapsed' = [elapsed EXCEPT ![p] = 0]
  /\ UNCHANGED <<nodeVars, lb>>

\* No address: the handler returns an error.
ResolveFails(p) ==
  /\ handler[p] = "resolving"
  /\ handler' = [handler EXCEPT ![p] = "none"]
  /\ Drop(p)
  /\ UNCHANGED healthy

\* The oldest status on the wire is taken off it.
TakeOldest(p) ==
  \E a \in wire[p] : /\ \A b \in wire[p] : b <= a
                     /\ wire' = [wire EXCEPT ![p] = @ \ {a}]

\* Mutant: the timer is not reset after a check.
HandleKeepsTimer(p) ==
  /\ handler[p] = "tracking"
  /\ TakeOldest(p)
  /\ healthy' = [healthy EXCEPT ![p] = TRUE]
  /\ UNCHANGED <<nodeVars, stream, lb, handler, elapsed>>

\* Mutant: the timer is reset and the check is not counted.
HandleUncounted(p) ==
  /\ handler[p] = "tracking"
  /\ TakeOldest(p)
  /\ elapsed' = [elapsed EXCEPT ![p] = 0]
  /\ UNCHANGED <<nodeVars, stream, lb, handler, healthy>>

\* case msg: the status counts as a check and the timer is reset.
Handle(p) ==
  /\ handler[p] = "tracking"
  /\ TakeOldest(p)
  /\ healthy' = [healthy EXCEPT ![p] = TRUE]
  /\ elapsed' = [elapsed EXCEPT ![p] = 0]
  /\ UNCHANGED <<nodeVars, stream, lb, handler>>

\* case err: the lost connection is noticed and reported as a failure.
Disconnected(p) ==
  /\ handler[p] = "tracking" /\ stream[p] = "broken"
  /\ handler' = [handler EXCEPT ![p] = "none"]
  /\ healthy' = [healthy EXCEPT ![p] = FALSE]
  /\ Drop(p)

\* Mutant: the timeout is not reported to the registry.
TimeoutUnreported(p) ==
  /\ handler[p] = "tracking" /\ elapsed[p] = ChecksTimeout
  /\ handler' = [handler EXCEPT ![p] = "none"]
  /\ UNCHANGED healthy
  /\ Drop(p)

(***************************************************************************)
(* case <-timer.C: the failure is reported and the handler returns with    *)
(* its listener still in Recv; only if the stream was broken may the       *)
(* listener have returned before.                                          *)
(***************************************************************************)
Timeout(p) ==
  /\ handler[p] = "tracking" /\ elapsed[p] = ChecksTimeout
  /\ \E after \in {"closed"} \cup (IF stream[p] = "broken" THEN {"none"} ELSE {}) :
       handler' = [handler EXCEPT ![p] = after]
  /\ healthy' = [healthy EXCEPT ![p] = FALSE]
  /\ Drop(p)

\* The listener of a handler that timed out sends on a closed channel.
Panic ==
  /\ \E p \in Proc : handler[p] = "closed"
  /\ lb' = "down"
  /\ stream' = [p \in Proc |-> IF stream[p] = "open" THEN "broken" ELSE stream[p]]
  /\ wire' = [p \in Proc |-> {}]
  /\ handler' = [p \in Proc |-> "none"]
  /\ elapsed' = [p \in Proc |-> 0]
  /\ healthy' = [p \in Proc |-> FALSE]
  /\ UNCHANGED nodeVars

\* systemd, Restart=always
Restart ==
  /\ lb = "down"
  /\ lb' = "up"
  /\ UNCHANGED <<nodeVars, netVars, handler, elapsed, healthy>>

-----------------------------------------------------------------------------
(* Time *)

\* What process p and its handler have to do before any more time may pass.
InTheirTime(p) ==
  /\ node[p] = "fetching" => sinceSend[p] < GetConfigTimeout
  /\ node[p] = "running" /\ stream[p] = "open" => sinceSend[p] < MaxGap
  /\ handler[p] = "resolving" => elapsed[p] < MaxResolve
  /\ handler[p] = "tracking" =>
       elapsed[p] < ChecksTimeout /\ \A a \in wire[p] : a < MaxDelay

Running(p) == handler[p] \in {"resolving", "tracking"}

Tick ==
  /\ \A p \in Proc : InTheirTime(p)
  /\ sinceSend' = [p \in Proc |->
       IF node[p] = "new" \/ sinceSend[p] = LongSilence THEN sinceSend[p] ELSE sinceSend[p] + 1]
  /\ wire' = [p \in Proc |-> IF Running(p) THEN {a + 1 : a \in wire[p]} ELSE wire[p]]
  /\ elapsed' = [p \in Proc |-> IF Running(p) THEN elapsed[p] + 1 ELSE elapsed[p]]
  /\ UNCHANGED <<node, stream, lb, handler, healthy>>

Resolve(p) == Track(p) \/ ResolveFails(p)
Select(p) == Handle(p) \/ Disconnected(p) \/ Timeout(p)
Loop(p) == Fetch(p) \/ StartFails(p) \/ Beat(p)

Next ==
  \/ \E p \in Proc : Connect(p) \/ Loop(p) \/ StopLoop(p) \/ Crash(p) \/ Break(p)
                     \/ Resolve(p) \/ Select(p)
  \/ Panic \/ Restart \/ Tick

Spec == Init /\ [][Next]_vars

(***************************************************************************)
(* Time passes, runnable goroutines run, systemd restarts the process.  No *)
(* process has to be started, and nothing has to fail.                     *)
(***************************************************************************)
Fairness ==
  /\ WF_vars(Tick) /\ WF_vars(Panic) /\ WF_vars(Restart)
  /\ \A p \in Proc : /\ WF_vars(node[p] = "fetching" /\ Loop(p))
                     /\ WF_vars(Beat(p))
                     /\ WF_vars(Resolve(p))
                     /\ WF_vars(Select(p))

FairSpec == Spec /\ Fairness
-----------------------------------------------------------------------------
(* Properties *)

\* The longest a process that works leaves its stream silent.
MaxSilence == IF MaxGap > GetConfigTimeout THEN MaxGap ELSE GetConfigTimeout

\* The timeout leaves room for the longest silence and the longest delay.
EnoughTime == MaxSilence + MaxDelay < ChecksTimeout

(***************************************************************************)
(* If the timeout is longer than the silences (the first one is as long as *)
(* the GetConfig call, the others half the timeout plus the oversleeping)  *)
(* and the delay together, no process that is alive, reports and has its   *)
(* connection ever times out.                                              *)
(***************************************************************************)
Beating(p) ==
  node[p] \in {"fetching", "running"} /\ stream[p] = "open" /\ handler[p] = "tracking"
PunctualNotDropped ==
  EnoughTime => \A p \in Proc : Beating(p) => elapsed[p] < ChecksTimeout

(***************************************************************************)
(* The registry is never older than the timeout and one delay: a process   *)
(* with a streak has sent a status that recently, however it, its          *)
(* connection or the load balancer ended.                                  *)
(***************************************************************************)
StreakIsFresh ==
  \A p \in Proc : healthy[p] => sinceSend[p] <= ChecksTimeout + MaxAge

(***************************************************************************)
(* A process whose stream has ended is lost: it never has a check again,   *)
(* although its loop runs on, until it is started anew (the todos of       *)
(* dispatcher.go:164 and 175).                                             *)
(***************************************************************************)
LostForGood ==
  [][\A p \in Proc : stream[p] = "broken" /\ handler[p] \in {"none", "closed"} =>
       handler'[p] \in {"none", "closed"} /\ ~healthy'[p]]_vars

\* A process that stops reporting, in whatever way, is forgotten and stays so.
SilentIsForgotten ==
  \A p \in Proc : node[p] \in {"idle", "dead"} ~> [](~healthy[p])

\* A stream that is opened earns a check or ends: no process waits unheard for ever.
HeardOrLost ==
  \A p \in Proc : stream[p] = "open" ~> healthy[p] \/ stream[p] = "broken"
=============================================================================
