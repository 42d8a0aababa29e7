----------------------------- MODULE NodeManager -----------------------------
(***************************************************************************)
(* The load balancer's side of the health stream                           *)
(* (pkg/lbnetwork/nodemanager/node_manager.go).  For every stream a node   *)
(* opens, gRPC runs the handler ReportHealthStatus in a goroutine; the     *)
(* handler registers the node, spawns listenerReportHealthStatus in a      *)
(* second goroutine and multiplexes what the listener puts on msgChan and  *)
(* errChan with a timer.  All streams share the registry.                  *)
(*                                                                         *)
(* An action is what a goroutine does between two points at which another  *)
(* goroutine, the timer or the peer can interfere: a channel operation, a  *)
(* registry call (one critical section), a Recv.                           *)
(***************************************************************************)
EXTENDS NodeRegistry, Sequences, FiniteSets

CONSTANTS
  Stream,   \* health streams; each is opened at most once
  KeyOf,    \* the node key of each stream; streams that share a connection,
            \* or whose connections get the same port in turn, share a key
  MaxSent,  \* bound: statuses a node sends on one stream
  MaxEOF    \* bound: how often Recv returns io.EOF on one stream

ASSUME KeyOfAssumption == KeyOf \in [Stream -> Key]
ASSUME BoundAssumption == MaxSent \in Nat /\ MaxEOF \in Nat

VARIABLES
  lb,         \* "up", or "panicked" once a goroutine has panicked
  handler,    \* where the handler goroutine of each stream is
  listener,   \* where the listener goroutine of each stream is
  req,        \* what Recv returned to the listener, not yet on msgChan
  msgChan,
  errChan,
  timer,      \* "off" | "armed" | "fired" (a value waits in timer.C) | "consumed"
  transport,  \* the gRPC stream under Recv: "none" | "open" | "halfClosed" | "canceled"
  inbox,      \* statuses that arrived on the stream and were not received yet
  outcome,    \* how the handler ended
  sent,       \* history: statuses the node has sent
  handled,    \* history: statuses the handler has taken off msgChan
  eofs        \* how many io.EOF results Recv has returned

\* The handler's own state, the listener's, the channels between them, the wire.
handlerVars  == <<handler, timer, outcome>>
listenerVars == <<listener, req, eofs>>
chanVars     == <<msgChan, errChan, handled>>
wireVars     == <<transport, inbox, sent>>
managerVars  == <<lb, handlerVars, listenerVars, chanVars, wireVars>>
vars == <<registry, managerVars>>

-----------------------------------------------------------------------------
(* Statuses, messages and channels *)

Serving      == "Serving"
NotServing   == "NotServing"
ShuttingDown == "ShuttingDown"
Status == {Serving, NotServing, ShuttingDown}

\* The nil *HealthStatus that Recv returns together with an error.
Nil == "nil"
Message == Status \cup {Nil}

\* Mutant: NotServing counts as a passed check.
GetStatusAlwaysUp(msg) == IF msg \in {Nil, NotServing} THEN Serving ELSE msg

\* The generated getter: the zero status, which is Serving, on a nil message.
GetStatus(msg) == IF msg = Nil THEN Serving ELSE msg

\* Codes Canceled and Unavailable on one side, all other errors on the other.
Unrecoverable == "unrecoverable"
Recoverable   == "recoverable"

\* Mutant: every error ends the handler.
gRPCErrAny(err) == TRUE

gRPCErrUnrecoverable(err) == err = Unrecoverable

ChannelBufferSize == 1

HasRoom(chan) == Len(chan) < ChannelBufferSize

\* The deferred closes run in reverse order: errChan first, then msgChan.
ErrChanClosed(s) == handler[s] \in {"closeMsg", "returned"}
MsgChanClosed(s) == handler[s] = "returned"

HandlerState == {"idle", "resolve", "arp", "register", "spawn", "select", "report",
                 "rearm", "fail", "closeErr", "closeMsg", "returned", "lost"}
ListenerState == {"none", "recv", "sendMsg", "sendErr", "sendFatal", "done"}
Outcome == {"running", "noMac", "shutdown", "unrecoverable", "timeout", "lost"}

TypeOK ==
  /\ RegistryTypeOK
  /\ lb \in {"up", "panicked"}
  /\ handler \in [Stream -> HandlerState]
  /\ listener \in [Stream -> ListenerState]
  /\ req \in [Stream -> Message]
  /\ msgChan \in [Stream -> Seq(Message)]
  /\ errChan \in [Stream -> Seq({Unrecoverable, Recoverable})]
  /\ \A s \in Stream : /\ Len(msgChan[s]) <= ChannelBufferSize
                       /\ Len(errChan[s]) <= ChannelBufferSize
  /\ timer \in [Stream -> {"off", "armed", "fired", "consumed"}]
  /\ transport \in [Stream -> {"none", "open", "halfClosed", "canceled"}]
  /\ inbox \in [Stream -> Seq(Status)]
  /\ outcome \in [Stream -> Outcome]
  /\ sent \in [Stream -> Seq(Status)]
  /\ handled \in [Stream -> Seq(Status)]
  /\ eofs \in [Stream -> Nat]

Init ==
  /\ RegistryInit
  /\ lb = "up"
  /\ handler = [s \in Stream |-> "idle"]
  /\ listener = [s \in Stream |-> "none"]
  /\ req = [s \in Stream |-> Nil]
  /\ msgChan = [s \in Stream |-> <<>>]
  /\ errChan = [s \in Stream |-> <<>>]
  /\ timer = [s \in Stream |-> "off"]
  /\ transport = [s \in Stream |-> "none"]
  /\ inbox = [s \in Stream |-> <<>>]
  /\ outcome = [s \in Stream |-> "running"]
  /\ sent = [s \in Stream |-> <<>>]
  /\ handled = [s \in Stream |-> <<>>]
  /\ eofs = [s \in Stream |-> 0]

-----------------------------------------------------------------------------
(* The peer and the transport *)

\* A node opens the stream; gRPC starts the handler.
Open(s) ==
  /\ handler[s] = "idle"
  /\ handler' = [handler EXCEPT ![s] = "resolve"]
  /\ transport' = [transport EXCEPT ![s] = "open"]
  /\ UNCHANGED <<registry, lb, timer, outcome, listenerVars, chanVars, inbox, sent>>

NodeSend(s, st) ==
  /\ transport[s] = "open"
  /\ Len(sent[s]) < MaxSent
  /\ inbox' = [inbox EXCEPT ![s] = Append(@, st)]
  /\ sent' = [sent EXCEPT ![s] = Append(@, st)]
  /\ UNCHANGED <<registry, lb, handlerVars, listenerVars, chanVars, transport>>

\* The client half-closes the stream (CloseSend).
NodeCloseSend(s) ==
  /\ transport[s] = "open"
  /\ MaxEOF > 0
  /\ transport' = [transport EXCEPT ![s] = "halfClosed"]
  /\ UNCHANGED <<registry, lb, handlerVars, listenerVars, chanVars, inbox, sent>>

\* The client cancels or the connection is lost.
Disconnect(s) ==
  /\ transport[s] \in {"open", "halfClosed"}
  /\ transport' = [transport EXCEPT ![s] = "canceled"]
  /\ UNCHANGED <<registry, lb, handlerVars, listenerVars, chanVars, inbox, sent>>

-----------------------------------------------------------------------------
(* The handler: ReportHealthStatus *)

\* The handler moves on and touches nothing else.
Goto(s, place) ==
  /\ handler' = [handler EXCEPT ![s] = place]
  /\ UNCHANGED <<lb, timer, outcome, listenerVars, chanVars, wireVars>>

\* The handler has decided to end, for the reason given.
Leave(s, place, why) ==
  /\ handler' = [handler EXCEPT ![s] = place]
  /\ outcome' = [outcome EXCEPT ![s] = why]

\* A return before the node is registered: no peer address, or no MAC address.
GiveUp(s) ==
  /\ Leave(s, "closeErr", "noMac")
  /\ UNCHANGED <<registry, lb, timer, listenerVars, chanVars, wireVars>>

\* extractTCPFromConn fails.
PeerUnknown(s) == handler[s] = "resolve" /\ GiveUp(s)

\* GetMACFromARPCache finds an entry for the peer's IP, or none.
CacheHit(s) == handler[s] = "resolve" /\ Goto(s, "register") /\ UNCHANGED registry
CacheMiss(s) == handler[s] = "resolve" /\ Goto(s, "arp") /\ UNCHANGED registry

\* GetMACViaARPCall: an answer, an error, or (Resolve has no deadline) neither, ever.
ArpAnswers(s) == handler[s] = "arp" /\ Goto(s, "register") /\ UNCHANGED registry
ArpFails(s) == handler[s] = "arp" /\ GiveUp(s)

Register(s) ==
  /\ handler[s] = "register"
  /\ RegisterNode(KeyOf[s])
  /\ Goto(s, "spawn")

\* go listenerReportHealthStatus, then multiplexHealthStatus starts its timer.
Spawn(s) ==
  /\ handler[s] = "spawn"
  /\ handler' = [handler EXCEPT ![s] = "select"]
  /\ listener' = [listener EXCEPT ![s] = "recv"]
  /\ timer' = [timer EXCEPT ![s] = "armed"]
  /\ UNCHANGED <<registry, lb, outcome, req, eofs, chanVars, wireVars>>

-----------------------------------------------------------------------------
(* The handler: multiplexHealthStatus *)

TakeMsg(s) ==
  /\ handler[s] = "select"
  /\ msgChan[s] # <<>>
  /\ msgChan' = [msgChan EXCEPT ![s] = Tail(@)]
  /\ handled' = IF Head(msgChan[s]) = Nil
                THEN handled
                ELSE [handled EXCEPT ![s] = Append(@, Head(msgChan[s]))]
  /\ UNCHANGED <<registry, lb, errChan, listenerVars, wireVars>>

\* case msg, NotServing: continue, the timer keeps running.
SelectNotServing(s) ==
  /\ TakeMsg(s)
  /\ GetStatus(Head(msgChan[s])) = NotServing
  /\ UNCHANGED handlerVars

\* case msg, ShuttingDown: return nil; the deferred timer.Stop runs.
SelectShuttingDown(s) ==
  /\ TakeMsg(s)
  /\ GetStatus(Head(msgChan[s])) = ShuttingDown
  /\ Leave(s, "closeErr", "shutdown")
  /\ timer' = [timer EXCEPT ![s] = "off"]

\* case msg, any other status.
SelectServing(s) ==
  /\ TakeMsg(s)
  /\ GetStatus(Head(msgChan[s])) \notin {NotServing, ShuttingDown}
  /\ handler' = [handler EXCEPT ![s] = "report"]
  /\ UNCHANGED <<timer, outcome>>

Report(s) ==
  /\ handler[s] = "report"
  /\ ReportNewHealthCheck(KeyOf[s])
  /\ Goto(s, "rearm")

\* Mutant: the timer is stopped and not reset.
RearmWithoutReset(s) ==
  /\ handler[s] = "rearm"
  /\ timer' = [timer EXCEPT ![s] = "off"]
  /\ handler' = [handler EXCEPT ![s] = "select"]
  /\ UNCHANGED <<registry, lb, outcome, listenerVars, chanVars, wireVars>>

(***************************************************************************)
(* if !timer.Stop() { <-timer.C }; timer.Reset.  With the timers of Go     *)
(* 1.23 and later (go.mod: go 1.24.0) Stop takes back a value that waits   *)
(* in timer.C and returns true; it returns false only when the value has   *)
(* been received, and then the receive blocks for ever.                    *)
(***************************************************************************)
Rearm(s) ==
  /\ handler[s] = "rearm"
  /\ timer[s] \in {"armed", "fired"}
  /\ timer' = [timer EXCEPT ![s] = "armed"]
  /\ handler' = [handler EXCEPT ![s] = "select"]
  /\ UNCHANGED <<registry, lb, outcome, listenerVars, chanVars, wireVars>>

\* case err: an unrecoverable one ends the handler, any other is only logged.
SelectErr(s) ==
  /\ handler[s] = "select"
  /\ errChan[s] # <<>>
  /\ errChan' = [errChan EXCEPT ![s] = Tail(@)]
  /\ IF gRPCErrUnrecoverable(Head(errChan[s]))
     THEN Leave(s, "fail", "unrecoverable")
     ELSE UNCHANGED <<handler, outcome>>
  /\ UNCHANGED <<registry, lb, timer, msgChan, handled, listenerVars, wireVars>>

\* Mutant: a timeout is tolerated and the loop goes on.
SelectTimerContinues(s) ==
  /\ handler[s] = "select"
  /\ timer[s] = "fired"
  /\ timer' = [timer EXCEPT ![s] = "consumed"]
  /\ UNCHANGED <<registry, lb, handler, outcome, listenerVars, chanVars, wireVars>>

\* case <-timer.C
SelectTimer(s) ==
  /\ handler[s] = "select"
  /\ timer[s] = "fired"
  /\ timer' = [timer EXCEPT ![s] = "consumed"]
  /\ Leave(s, "fail", "timeout")
  /\ UNCHANGED <<registry, lb, listenerVars, chanVars, wireVars>>

\* Both failing branches report the failure and return; the deferred timer.Stop runs.
Fail(s) ==
  /\ handler[s] = "fail"
  /\ ReportNodeFailure(KeyOf[s])
  /\ timer' = [timer EXCEPT ![s] = "off"]
  /\ handler' = [handler EXCEPT ![s] = "closeErr"]
  /\ UNCHANGED <<lb, outcome, listenerVars, chanVars, wireVars>>

CloseErrChan(s) == handler[s] = "closeErr" /\ Goto(s, "closeMsg") /\ UNCHANGED registry

\* Mutant: the stream outlives its handler, as one with a context of its own would.
CloseMsgChanOnly(s) == handler[s] = "closeMsg" /\ Goto(s, "returned") /\ UNCHANGED registry

\* The handler has returned; gRPC finishes the stream and cancels its context.
CloseMsgChan(s) ==
  /\ handler[s] = "closeMsg"
  /\ handler' = [handler EXCEPT ![s] = "returned"]
  /\ transport' = [transport EXCEPT ![s] = "canceled"]
  /\ UNCHANGED <<registry, lb, timer, outcome, listenerVars, chanVars, inbox, sent>>

TimerExpires(s) ==
  /\ lb = "up"
  /\ timer[s] = "armed"
  /\ timer' = [timer EXCEPT ![s] = "fired"]
  /\ UNCHANGED <<registry, lb, handler, outcome, listenerVars, chanVars, wireVars>>

-----------------------------------------------------------------------------
(* The listener: listenerReportHealthStatus *)

\* Recv returns the next status; on a canceled stream it still may.
RecvStatus(s) ==
  /\ listener[s] = "recv"
  /\ inbox[s] # <<>>
  /\ req' = [req EXCEPT ![s] = Head(inbox[s])]
  /\ inbox' = [inbox EXCEPT ![s] = Tail(@)]
  /\ listener' = [listener EXCEPT ![s] = "sendMsg"]
  /\ UNCHANGED <<registry, lb, handlerVars, chanVars, eofs, transport, sent>>

\* Recv returns (nil, io.EOF), every time, once the client has half-closed.
RecvEOF(s) ==
  /\ listener[s] = "recv"
  /\ transport[s] = "halfClosed"
  /\ inbox[s] = <<>>
  /\ eofs[s] < MaxEOF
  /\ eofs' = [eofs EXCEPT ![s] = @ + 1]
  /\ req' = [req EXCEPT ![s] = Nil]
  /\ listener' = [listener EXCEPT ![s] = "sendErr"]
  /\ UNCHANGED <<registry, lb, handlerVars, chanVars, wireVars>>

\* Recv returns (nil, Canceled).
RecvFatal(s) ==
  /\ listener[s] = "recv"
  /\ transport[s] = "canceled"
  /\ req' = [req EXCEPT ![s] = Nil]
  /\ listener' = [listener EXCEPT ![s] = "sendFatal"]
  /\ UNCHANGED <<registry, lb, handlerVars, chanVars, eofs, wireVars>>

\* errChan <- errRecv
PutErr(s, err) ==
  /\ ~ErrChanClosed(s) /\ HasRoom(errChan[s])
  /\ errChan' = [errChan EXCEPT ![s] = Append(@, err)]
  /\ UNCHANGED <<registry, lb, handlerVars, msgChan, handled, req, eofs, wireVars>>

\* Mutant: the listener goes on after an unrecoverable error.
SendFatalAgain(s) ==
  /\ listener[s] = "sendFatal"
  /\ PutErr(s, Unrecoverable)
  /\ listener' = [listener EXCEPT ![s] = "recv"]

\* An unrecoverable error ends the listener.
SendFatal(s) ==
  /\ listener[s] = "sendFatal"
  /\ PutErr(s, Unrecoverable)
  /\ listener' = [listener EXCEPT ![s] = "done"]

\* Any other: on to msgChan <- req with the nil request.
SendErr(s) ==
  /\ listener[s] = "sendErr"
  /\ PutErr(s, Recoverable)
  /\ listener' = [listener EXCEPT ![s] = "sendMsg"]

\* Mutant: select { case msgChan <- req: default: }, the status is dropped.
SendMsgOrDrop(s) ==
  /\ listener[s] = "sendMsg"
  /\ ~MsgChanClosed(s)
  /\ msgChan' = IF HasRoom(msgChan[s])
                THEN [msgChan EXCEPT ![s] = Append(@, req[s])]
                ELSE msgChan
  /\ req' = [req EXCEPT ![s] = Nil]
  /\ listener' = [listener EXCEPT ![s] = "recv"]
  /\ UNCHANGED <<registry, lb, handlerVars, errChan, handled, eofs, wireVars>>

SendMsg(s) ==
  /\ listener[s] = "sendMsg"
  /\ ~MsgChanClosed(s) /\ HasRoom(msgChan[s])
  /\ msgChan' = [msgChan EXCEPT ![s] = Append(@, req[s])]
  /\ req' = [req EXCEPT ![s] = Nil]
  /\ listener' = [listener EXCEPT ![s] = "recv"]
  /\ UNCHANGED <<registry, lb, handlerVars, errChan, handled, eofs, wireVars>>

\* A send on a closed channel panics; nothing recovers it, so the process dies.
SendOnClosed(s) ==
  /\ \/ listener[s] \in {"sendFatal", "sendErr"} /\ ErrChanClosed(s)
     \/ listener[s] = "sendMsg" /\ MsgChanClosed(s)
  /\ lb' = "panicked"
  /\ UNCHANGED <<registry, handlerVars, listenerVars, chanVars, wireVars>>

-----------------------------------------------------------------------------
(***************************************************************************)
(* systemd starts the load balancer again (Restart=always).  main creates  *)
(* an empty registry; every stream of the old process is gone.             *)
(***************************************************************************)
Restart ==
  LET reset(f, v) == [s \in Stream |-> IF handler[s] = "idle" THEN f[s] ELSE v]
  IN /\ lb = "panicked"
     /\ lb' = "up"
     /\ registry' = [k \in Key |-> NoNode]
     /\ handler' = reset(handler, "lost")
     /\ outcome' = reset(outcome, "lost")
     /\ transport' = reset(transport, "canceled")
     /\ listener' = [s \in Stream |-> "none"]
     /\ req' = [s \in Stream |-> Nil]
     /\ msgChan' = [s \in Stream |-> <<>>]
     /\ errChan' = [s \in Stream |-> <<>>]
     /\ timer' = [s \in Stream |-> "off"]
     /\ inbox' = [s \in Stream |-> <<>>]
     /\ sent' = [s \in Stream |-> <<>>]
     /\ handled' = [s \in Stream |-> <<>>]
     /\ eofs' = [s \in Stream |-> 0]

\* Every stream is over and no goroutine is left: nothing more happens.
Finished ==
  /\ lb = "up"
  /\ \A s \in Stream : /\ handler[s] \in {"returned", "lost"}
                       /\ listener[s] \in {"none", "done"}
  /\ UNCHANGED vars

Handler(s) ==
  /\ lb = "up"
  /\ \/ PeerUnknown(s) \/ CacheHit(s) \/ CacheMiss(s) \/ Register(s) \/ Spawn(s)
     \/ SelectNotServing(s) \/ SelectShuttingDown(s) \/ SelectServing(s)
     \/ Report(s) \/ Rearm(s) \/ SelectErr(s) \/ SelectTimer(s) \/ Fail(s)
     \/ CloseErrChan(s) \/ CloseMsgChan(s)

Listener(s) ==
  /\ lb = "up"
  /\ \/ RecvStatus(s) \/ RecvEOF(s) \/ RecvFatal(s)
     \/ SendFatal(s) \/ SendErr(s) \/ SendMsg(s) \/ SendOnClosed(s)

\* The node, its connection and its network.
Peer(s) ==
  /\ lb = "up"
  /\ \/ Open(s) \/ NodeCloseSend(s) \/ Disconnect(s)
     \/ \E st \in Status : NodeSend(s, st)
     \/ ArpAnswers(s) \/ ArpFails(s)

Next ==
  \/ \E s \in Stream : Handler(s) \/ Listener(s) \/ TimerExpires(s) \/ Peer(s)
  \/ Restart
  \/ Finished

Spec == Init /\ [][Next]_vars

(***************************************************************************)
(* Runnable goroutines run, an armed timer expires, systemd restarts the   *)
(* process.  Nothing is assumed of the nodes, nor that ARP gets an answer.  *)
(***************************************************************************)
Fairness ==
  /\ \A s \in Stream : /\ WF_vars(Handler(s))
                       /\ WF_vars(Listener(s))
                       /\ WF_vars(TimerExpires(s))
  /\ WF_vars(Restart)

FairSpec == Spec /\ Fairness
-----------------------------------------------------------------------------
(* Safety *)

\* The handler of s tracks its node: it has registered it and not returned yet.
Live(s) == handler[s] \in {"spawn", "select", "report", "rearm", "fail"}

(***************************************************************************)
(* "This case should never happen" (registry.go:59, 76): whenever a        *)
(* handler is about to report a check or a failure, the entry of its node  *)
(* is there, also when another stream of the same node failed meanwhile or *)
(* the load balancer came back with an empty registry.                     *)
(***************************************************************************)
NeverMissing == \A s \in Stream : Live(s) => Present(KeyOf[s])

(***************************************************************************)
(* A handler that leaves because of an error leaves no listener behind     *)
(* that could send on the channels it closes: after an unrecoverable error *)
(* the listener has returned, after a failed address lookup it was never   *)
(* spawned.  So a panic comes only from a timeout or a shutdown.           *)
(***************************************************************************)
ErrorExitIsClean ==
  /\ \A s \in Stream :
       /\ outcome[s] = "unrecoverable" => listener[s] = "done"
       /\ outcome[s] = "noMac" => listener[s] = "none"
  /\ lb = "panicked" => \E s \in Stream : outcome[s] \in {"timeout", "shutdown"}

(***************************************************************************)
(* A node with a streak of health checks is one some handler still tracks, *)
(* or one that announced its shutdown: timeouts and lost connections leave *)
(* no streak behind, whatever other streams of the same node did.          *)
(***************************************************************************)
StreakHasSource ==
  \A k \in Key : Checks(k) > 0 =>
    \E s \in Stream : KeyOf[s] = k /\ (Live(s) \/ outcome[s] = "shutdown")

(***************************************************************************)
(* Between the wire and the multiplexer no status is lost, duplicated or   *)
(* overtaken: what the handler has taken, then what waits in msgChan, in   *)
(* the listener's hand and on the stream, is what the node sent.  The nil  *)
(* requests of recoverable errors are not statuses.                        *)
(***************************************************************************)
Statuses(msg) == IF msg = Nil THEN <<>> ELSE <<msg>>
Queued(s) == IF msgChan[s] = <<>> THEN <<>> ELSE Statuses(Head(msgChan[s]))
StatusesInOrder ==
  \A s \in Stream :
    sent[s] = handled[s] \o Queued(s) \o Statuses(req[s]) \o inbox[s]

(***************************************************************************)
(* The handler never waits for ever in "<-timer.C" while it drains the     *)
(* timer: it gets there only when the timer has not been received from.    *)
(***************************************************************************)
DrainNeverBlocks ==
  \A s \in Stream : handler[s] \in {"select", "report", "rearm"} =>
    timer[s] \in {"armed", "fired"}

\* The positions <<s, i>> of the Serving statuses seqs[s][i], s a stream of node k.
ServingOf(seqs, k) ==
  {p \in Stream \X (1 .. MaxSent) :
     KeyOf[p[1]] = k /\ p[2] \in DOMAIN seqs[p[1]] /\ seqs[p[1]][p[2]] = Serving}

\* The io.EOF results on the streams of node k.
EOFsOf(k) ==
  {p \in Stream \X (1 .. MaxEOF) : KeyOf[p[1]] = k /\ p[2] <= eofs[p[1]]}

(***************************************************************************)
(* A streak is earned: it is never longer than the Serving statuses the    *)
(* handlers of the node's streams have taken and the nil requests that     *)
(* errors put on msgChan.                                                  *)
(***************************************************************************)
StreakIsEarned ==
  \A k \in Key :
    Checks(k) <= Cardinality(ServingOf(handled, k)) + Cardinality(EOFsOf(k))

(***************************************************************************)
(* A streak is cut only by the failure of a stream of that node, and then  *)
(* to zero, or by a restart: a second stream with the same key does not    *)
(* reset what the first has earned.                                        *)
(***************************************************************************)
StreakCutOnlyByFailure ==
  [][\A k \in Key : Checks(k)' < Checks(k) =>
       /\ Checks(k)' = 0
       /\ \/ lb = "panicked"
          \/ \E s \in Stream : KeyOf[s] = k /\ handler[s] = "fail"]_vars

(***************************************************************************)
(* The goroutines, channels and timers implement the abstract tracking of  *)
(* HealthTracking: a check or a failure counts for exactly the node of a   *)
(* stream that is registered and has not ended, a streak moves by one or   *)
(* to zero, one stream at a time, it is kept at the end of a stream only   *)
(* after a shutdown announcement, and only a new process forgets nodes.    *)
(***************************************************************************)
Tracking == INSTANCE HealthTracking WITH
  Absent    <- NoNode,
  tracked   <- {s \in Stream : Live(s)},
  announced <- {s \in Stream : outcome[s] = "shutdown"},
  streak    <- [k \in Key |-> IF Present(k) THEN Checks(k) ELSE NoNode]

ImplementsTracking == Tracking!Spec

-----------------------------------------------------------------------------
(* Progress *)

Over(s) == handler[s] \in {"returned", "lost"} /\ listener[s] \in {"none", "done"}

\* A goroutine of the stream, or its timer, has a step to make that needs no peer.
CanMove(s) ==
  \/ handler[s] \in {"register", "spawn", "report", "fail", "closeErr", "closeMsg"}
  \/ handler[s] \in {"select", "rearm"} /\ timer[s] \in {"armed", "fired"}
  \/ /\ handler[s] = "returned"
     /\ \/ listener[s] = "recv" /\ transport[s] = "canceled"
        \/ listener[s] \in {"sendMsg", "sendErr", "sendFatal"}

(***************************************************************************)
(* Handler, listener and timer never wait for one another in a circle, nor *)
(* for a node that stays silent: from registration until both goroutines   *)
(* have returned, one of them can move.  A handler in its select has a     *)
(* timer, one that drains the timer gets its value, and a listener that is *)
(* left behind in Recv or before a channel is woken by the end of the      *)
(* stream or by the close.                                                 *)
(***************************************************************************)
NobodyStuck ==
  lb = "up" => \A s \in Stream :
    handler[s] \in {"idle", "resolve", "arp"} \/ Over(s) \/ CanMove(s)

\* The most steps each goroutine and the timer have before them, on what is there.
HandlerWork(s) ==
  CASE handler[s] = "idle"     -> 14
    [] handler[s] = "resolve"  -> 13
    [] handler[s] = "arp"      -> 12
    [] handler[s] = "register" -> 11
    [] handler[s] = "spawn"    -> 10
    [] handler[s] = "report"   -> 7
    [] handler[s] = "rearm"    -> 6
    [] handler[s] = "select"   -> 4
    [] handler[s] = "fail"     -> 3
    [] handler[s] = "closeErr" -> 2
    [] handler[s] = "closeMsg" -> 1
    [] OTHER              -> 0
ListenerWork(s) ==
  CASE listener[s] = "sendErr"   -> 10
    [] listener[s] = "sendMsg"   -> 8
    [] listener[s] = "recv"      -> 3
    [] listener[s] = "sendFatal" -> 2
    [] OTHER               -> 0
TimerWork(s) == CASE timer[s] = "armed" -> 2 [] timer[s] = "fired" -> 1 [] OTHER -> 0

\* A bound on the steps a stream has before it, if its node does nothing any more: a
\* status on the wire costs six, one on msgChan four, an error on errChan one.
Work(s) ==
  HandlerWork(s) + ListenerWork(s) + TimerWork(s)
    + 6 * Len(inbox[s]) + 4 * Len(msgChan[s]) + Len(errChan[s])

(***************************************************************************)
(* Only its node keeps a stream alive, by a status or by a half-close:     *)
(* every step of the goroutines and of the timer brings the stream nearer  *)
(* to its end, rearming the timer included, unless Recv returns io.EOF     *)
(* once more or the process panics, and no other stream can set it back.   *)
(***************************************************************************)
StreamsRunDown ==
  [][\A s \in Stream :
       /\ Handler(s) \/ Listener(s) \/ TimerExpires(s) =>
            Work(s)' < Work(s) \/ eofs'[s] > eofs[s] \/ lb' = "panicked"
       /\ Work(s)' > Work(s) =>
            Len(sent'[s]) > Len(sent[s]) \/ eofs'[s] > eofs[s]]_vars

-----------------------------------------------------------------------------
(* Liveness *)

(***************************************************************************)
(* Every stream whose node's address is known is over some day, both       *)
(* goroutines included: a node that stops sending is dropped, nobody has   *)
(* to close the stream, and no goroutine stays blocked on a channel.       *)
(* Before that the handler may wait for ever, in an ARP call without       *)
(* deadline and with no timer running.  It is checked for nodes that never *)
(* half-close, as those of this repository: each io.EOF counts as a health *)
(* check and rearms the timer (ErrorsAddNoCheck), so that a half-closed    *)
(* stream would not end.                                                   *)
(***************************************************************************)
EveryStreamEnds ==
  \A s \in Stream : handler[s] \notin {"idle", "resolve", "arp"} ~> Over(s)

-----------------------------------------------------------------------------
(* What comments and documentation say and the code does not do *)

(***************************************************************************)
(* node_manager.go:134: a node that times out "is marked as unhealthy and  *)
(* the traffic is rerouted to other nodes"; the load balancer goes on.     *)
(***************************************************************************)
TimeoutIsSurvived ==
  (\E s \in Stream : outcome[s] = "timeout") => lb = "up"

(***************************************************************************)
(* node_manager.go:170: after a recoverable error "we want to stop         *)
(* tracking this node if it does not send health status": an error alone   *)
(* adds no health check.                                                   *)
(***************************************************************************)
ErrorsAddNoCheck ==
  \A k \in Key : Checks(k) <= Cardinality(ServingOf(sent, k))
=============================================================================
