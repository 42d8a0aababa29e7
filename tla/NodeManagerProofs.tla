------------------------- MODULE NodeManagerProofs -------------------------
(***************************************************************************)
(* Proofs about NodeManager for every set of streams and keys, every       *)
(* assignment of keys to streams and every bound.                          *)
(***************************************************************************)
EXTENDS NodeManager, TLAPS

\* A leaf that names no prover is one for Zenon.
USE ZenonT(30)

USE DEF handlerVars, listenerVars, chanVars, wireVars, Goto, Leave, GiveUp, PutErr

\* The steps of a handler that looks for its node's addresses.
Resolves(s) ==
  PeerUnknown(s) \/ CacheHit(s) \/ CacheMiss(s) \/ ArpAnswers(s) \/ ArpFails(s)

-----------------------------------------------------------------------------
(* What the methods of the registry do to a well-typed registry *)

\* RegisterNode makes the node present and changes no streak.
LEMMA RegisterEffect ==
  ASSUME RegistryTypeOK, NEW k \in Key, RegisterNode(k)
  PROVE  /\ RegistryTypeOK'
         /\ Present(k)'
         /\ \A j \in Key : (Present(j) => Present(j)') /\ Checks(j)' = Checks(j)
         /\ \A j \in Key \ {k} : Present(j)' <=> Present(j)
<1>1. NewNode \in Node
  BY DEF NewNode, Node
<1>2. NewNode # NoNode /\ NewNode.continuousHealthChecks = 0
  BY <1>1, NoNodeAssumption DEF NewNode
<1>. QED
  BY <1>1, <1>2 DEF RegistryTypeOK, RegisterNode, Present, Checks

\* ReportNewHealthCheck adds one to the streak of a node that is present, changes no
\* other node's and removes nobody.
LEMMA ReportEffect ==
  ASSUME RegistryTypeOK, NEW k \in Key, ReportNewHealthCheck(k)
  PROVE  /\ RegistryTypeOK'
         /\ \A j \in Key : Present(j)' <=> Present(j)
         /\ \A j \in Key \ {k} : Checks(j)' = Checks(j)
         /\ Checks(k)' = IF Present(k) THEN Checks(k) + 1 ELSE Checks(k)
<1>1. CASE ~Present(k)
  BY <1>1 DEF RegistryTypeOK, ReportNewHealthCheck, Present, Checks, Node
<1>2. CASE Present(k)
  <2>. DEFINE n == [continuousHealthChecks |-> registry[k].continuousHealthChecks + 1,
                    lastHealthCheck |-> TRUE]
  <2>1. registry[k] \in Node
    BY <1>2 DEF RegistryTypeOK, Present
  <2>2. n \in Node /\ n.continuousHealthChecks = registry[k].continuousHealthChecks + 1
    BY <2>1, SMTT(30) DEF Node
  <2>3. registry' = [registry EXCEPT ![k] = n]
    BY <1>2, <2>1 DEF ReportNewHealthCheck, RegistryTypeOK, Node
  <2>4. n # NoNode
    BY <2>2, NoNodeAssumption
  <2>. HIDE DEF n
  <2>. QED
    BY <1>2, <2>1, <2>2, <2>3, <2>4 DEF RegistryTypeOK, Present, Checks
<1>. QED
  BY <1>1, <1>2

\* ReportNodeFailure ends the node's streak and touches no other, and removes nobody.
LEMMA FailureEffect ==
  ASSUME RegistryTypeOK, NEW k \in Key, ReportNodeFailure(k)
  PROVE  /\ RegistryTypeOK'
         /\ \A j \in Key : Present(j)' <=> Present(j)
         /\ \A j \in Key \ {k} : Checks(j)' = Checks(j)
         /\ Checks(k)' = 0
<1>1. CASE ~Present(k)
  BY <1>1 DEF RegistryTypeOK, ReportNodeFailure, Present, Checks, Node
<1>2. CASE Present(k)
  <2>. DEFINE n == [registry[k] EXCEPT !.continuousHealthChecks = 0]
  <2>1. registry[k] \in Node
    BY <1>2 DEF RegistryTypeOK, Present
  <2>2. n \in Node /\ n.continuousHealthChecks = 0
    BY <2>1 DEF Node
  <2>3. registry' = [registry EXCEPT ![k] = n]
    BY <1>2, <2>1 DEF ReportNodeFailure, RegistryTypeOK, Node
  <2>4. n # NoNode
    BY <2>2, NoNodeAssumption
  <2>. HIDE DEF n
  <2>. QED
    BY <1>2, <2>1, <2>2, <2>3, <2>4 DEF RegistryTypeOK, Present, Checks
<1>. QED
  BY <1>1, <1>2

\* The streaks as HealthTracking sees them, in the refinement mapping of NodeManager.
Streak == [k \in Key |-> IF Present(k) THEN Checks(k) ELSE NoNode]

\* What the two reports do to the streaks of all nodes.
LEMMA StreakEffect ==
  ASSUME RegistryTypeOK, NEW k \in Key, Present(k)
  PROVE  /\ Streak[k] # NoNode
         /\ ReportNewHealthCheck(k) => Streak' = [Streak EXCEPT ![k] = @ + 1]
         /\ ReportNodeFailure(k) => Streak' = [Streak EXCEPT ![k] = 0]
<1>1. \A j \in Key : Checks(j) \in Nat /\ Checks(j) # NoNode
  BY NoNodeAssumption, SMTT(30) DEF RegistryTypeOK, Checks, Present, Node
<1>2. ASSUME \A j \in Key : Present(j)' <=> Present(j),
             \A j \in Key \ {k} : Checks(j)' = Checks(j)
      PROVE  Streak' = [Streak EXCEPT ![k] = Checks(k)']
  <2>1. ASSUME NEW j \in Key
        PROVE  (IF Present(j) THEN Checks(j) ELSE NoNode)'
                 = IF j = k THEN Checks(k)' ELSE IF Present(j) THEN Checks(j) ELSE NoNode
    BY <1>2
  <2>. QED
    BY <2>1 DEF Streak
<1>3. Streak[k] = Checks(k)
  BY DEF Streak
<1>4. ReportNewHealthCheck(k) => Streak' = [Streak EXCEPT ![k] = @ + 1]
  BY <1>2, <1>3, ReportEffect
<1>5. ReportNodeFailure(k) => Streak' = [Streak EXCEPT ![k] = 0]
  BY <1>2, FailureEffect
<1>. QED
  BY <1>1, <1>3, <1>4, <1>5

\* Where the registry is untouched, so is everything read from it.
LEMMA RegistryUnchanged ==
  ASSUME UNCHANGED registry
  PROVE  /\ RegistryTypeOK => RegistryTypeOK'
         /\ \A j \in Key : (Present(j)' <=> Present(j)) /\ Checks(j)' = Checks(j)
BY DEF RegistryTypeOK, Present, Checks

-----------------------------------------------------------------------------
(* Sequences of length at most one, and their tails *)

\* A channel that is read keeps its type and does not grow.
LEMMA TailType ==
  ASSUME NEW S, NEW q \in Seq(S), q # <<>>
  PROVE  Tail(q) \in Seq(S) /\ Len(Tail(q)) = Len(q) - 1 /\ Head(q) \in S
BY SMTT(30)

\* A channel with room that is written keeps its type and its capacity.
LEMMA AppendType ==
  ASSUME NEW S, NEW q \in Seq(S), NEW e \in S
  PROVE  Append(q, e) \in Seq(S) /\ Len(Append(q, e)) = Len(q) + 1
BY SMTT(30)

\* A channel that holds one element is empty after a receive.
LEMMA OneLeft ==
  ASSUME NEW S, NEW q \in Seq(S), Len(q) <= 1, q # <<>>
  PROVE  Tail(q) = <<>>
BY SMTT(30)

\* What TypeOK says of the channel msgChan of a stream.
LEMMA MsgChanType ==
  ASSUME TypeOK, NEW s \in Stream
  PROVE  msgChan[s] \in Seq(Message) /\ Len(msgChan[s]) <= 1
BY DEF TypeOK, ChannelBufferSize

-----------------------------------------------------------------------------
(* Type correctness *)

\* Looking for the addresses moves the handler on, or ends it, and does nothing else.
LEMMA ResolvesEffect ==
  ASSUME TypeOK, NEW s \in Stream, Resolves(s)
  PROVE  /\ UNCHANGED <<registry, lb, timer, listenerVars, chanVars, wireVars>>
         /\ handler' \in [Stream -> HandlerState] /\ outcome' \in [Stream -> Outcome]
         /\ \A r \in Stream \ {s} : handler'[r] = handler[r] /\ outcome'[r] = outcome[r]
         /\ handler[s] \in {"resolve", "arp"}
         /\ handler'[s] \in {"arp", "register", "closeErr"}
         /\ outcome'[s] \in {outcome[s], "noMac"}
<1>1. /\ UNCHANGED <<registry, lb, timer, listenerVars, chanVars, wireVars>>
      /\ handler[s] \in {"resolve", "arp"}
      /\ \E place \in {"arp", "register", "closeErr"} :
           handler' = [handler EXCEPT ![s] = place]
      /\ outcome' = outcome \/ outcome' = [outcome EXCEPT ![s] = "noMac"]
  BY DEF Resolves, PeerUnknown, CacheHit, CacheMiss, ArpAnswers, ArpFails
<1>2. /\ handler' \in [Stream -> HandlerState]
      /\ \A r \in Stream \ {s} : handler'[r] = handler[r]
      /\ handler'[s] \in {"arp", "register", "closeErr"}
  <2>1. PICK place \in {"arp", "register", "closeErr"} :
               handler' = [handler EXCEPT ![s] = place]
    BY <1>1
  <2>2. handler \in [Stream -> HandlerState] /\ place \in HandlerState
    BY DEF TypeOK, HandlerState
  <2>. QED
    BY <2>1, <2>2
<1>3. /\ outcome' \in [Stream -> Outcome]
      /\ \A r \in Stream \ {s} : outcome'[r] = outcome[r]
      /\ outcome'[s] \in {outcome[s], "noMac"}
  <2>1. outcome \in [Stream -> Outcome] /\ "noMac" \in Outcome
    BY DEF TypeOK, Outcome
  <2>. QED
    BY <1>1, <2>1
<1>. QED
  BY <1>1, <1>2, <1>3

\* Every step of the load balancer, of a node or of systemd keeps the types and
\* the capacity of the channels.
LEMMA TypeStep == TypeOK /\ [Next]_vars => TypeOK'
<1>. SUFFICES ASSUME TypeOK, [Next]_vars
              PROVE  TypeOK'
  OBVIOUS
<1>. USE DEF HandlerState, ListenerState, Outcome, Message, Status, Serving, NotServing,
             ShuttingDown, Nil, Unrecoverable, Recoverable, ChannelBufferSize, HasRoom
<1>1. ASSUME NEW s \in Stream, Handler(s)
      PROVE  TypeOK'
  <2>0. ASSUME TakeMsg(s)
        PROVE  /\ msgChan' \in [Stream -> Seq(Message)]
               /\ \A r \in Stream : Len(msgChan'[r]) <= ChannelBufferSize
               /\ handled' \in [Stream -> Seq(Status)]
    BY <2>0, TailType, AppendType, SMTT(30) DEF TypeOK, TakeMsg
  <2>1. CASE Resolves(s)
    BY <2>1, RegistryUnchanged, ResolvesEffect, SMTT(30) DEF TypeOK
  <2>2. CASE Register(s)
    BY <2>2, KeyOfAssumption, RegisterEffect DEF TypeOK, Register
  <2>3. CASE Spawn(s)
    BY <2>3, RegistryUnchanged DEF TypeOK, Spawn
  <2>4. CASE SelectNotServing(s)
    BY <2>0, <2>4, RegistryUnchanged DEF TypeOK, SelectNotServing, TakeMsg
  <2>5. CASE SelectShuttingDown(s)
    BY <2>0, <2>5, RegistryUnchanged DEF TypeOK, SelectShuttingDown, TakeMsg
  <2>6. CASE SelectServing(s)
    BY <2>0, <2>6, RegistryUnchanged DEF TypeOK, SelectServing, TakeMsg
  <2>7. CASE Report(s)
    BY <2>7, KeyOfAssumption, ReportEffect DEF TypeOK, Report
  <2>8. CASE Rearm(s)
    BY <2>8, RegistryUnchanged DEF TypeOK, Rearm
  <2>9. CASE SelectErr(s)
    <3>1. /\ errChan' \in [Stream -> Seq({Unrecoverable, Recoverable})]
          /\ \A r \in Stream : Len(errChan'[r]) <= ChannelBufferSize
      BY <2>9, TailType, SMTT(30) DEF TypeOK, SelectErr
    <3>2. handler' \in [Stream -> HandlerState] /\ outcome' \in [Stream -> Outcome]
      <4>1. CASE Leave(s, "fail", "unrecoverable")
        BY <4>1 DEF TypeOK, Leave, HandlerState, Outcome
      <4>2. CASE UNCHANGED <<handler, outcome>>
        BY <4>2 DEF TypeOK
      <4>. QED
        BY <2>9, <4>1, <4>2 DEF SelectErr
    <3>. QED
      BY <2>9, <3>1, <3>2, RegistryUnchanged DEF TypeOK, SelectErr
  <2>10. CASE SelectTimer(s)
    BY <2>10, RegistryUnchanged DEF TypeOK, SelectTimer
  <2>11. CASE Fail(s)
    BY <2>11, KeyOfAssumption, FailureEffect DEF TypeOK, Fail
  <2>12. CASE CloseErrChan(s)
    BY <2>12, RegistryUnchanged DEF TypeOK, CloseErrChan
  <2>13. CASE CloseMsgChan(s)
    BY <2>13, RegistryUnchanged DEF TypeOK, CloseMsgChan
  <2>. QED
    BY <1>1, <2>1, <2>2, <2>3, <2>4, <2>5, <2>6, <2>7, <2>8, <2>9, <2>10, <2>11, <2>12, <2>13
    DEF Handler, Resolves
<1>2. ASSUME NEW s \in Stream, Listener(s)
      PROVE  TypeOK'
  <2>1. CASE RecvStatus(s)
    BY <2>1, TailType, RegistryUnchanged DEF TypeOK, RecvStatus
  <2>2. CASE RecvEOF(s)
    BY <2>2, RegistryUnchanged, SMTT(30) DEF TypeOK, RecvEOF
  <2>3. CASE RecvFatal(s)
    BY <2>3, RegistryUnchanged DEF TypeOK, RecvFatal
  <2>4. CASE SendFatal(s)
    BY <2>4, AppendType, RegistryUnchanged, SMTT(30) DEF TypeOK, SendFatal
  <2>5. CASE SendErr(s)
    BY <2>5, AppendType, RegistryUnchanged, SMTT(30) DEF TypeOK, SendErr
  <2>6. CASE SendMsg(s)
    BY <2>6, AppendType, RegistryUnchanged, SMTT(30) DEF TypeOK, SendMsg
  <2>7. CASE SendOnClosed(s)
    BY <2>7, RegistryUnchanged DEF TypeOK, SendOnClosed
  <2>. QED
    BY <1>2, <2>1, <2>2, <2>3, <2>4, <2>5, <2>6, <2>7 DEF Listener
<1>3. ASSUME NEW s \in Stream, Peer(s)
      PROVE  TypeOK'
  <2>1. CASE Open(s)
    BY <2>1, RegistryUnchanged DEF TypeOK, Open
  <2>2. CASE NodeCloseSend(s)
    BY <2>2, RegistryUnchanged DEF TypeOK, NodeCloseSend
  <2>3. CASE Disconnect(s)
    BY <2>3, RegistryUnchanged DEF TypeOK, Disconnect
  <2>4. ASSUME NEW st \in Status, NodeSend(s, st)
        PROVE  TypeOK'
    BY <2>4, AppendType, RegistryUnchanged DEF TypeOK, NodeSend
  <2>5. CASE Resolves(s)
    BY <2>5, RegistryUnchanged, ResolvesEffect, SMTT(30) DEF TypeOK
  <2>. QED
    BY <1>3, <2>1, <2>2, <2>3, <2>4, <2>5 DEF Peer, Resolves
<1>4. ASSUME NEW s \in Stream, TimerExpires(s)
      PROVE  TypeOK'
  BY <1>4, RegistryUnchanged DEF TypeOK, TimerExpires
<1>5. CASE Restart
  BY <1>5, SMTT(30) DEF TypeOK, RegistryTypeOK, Restart
<1>6. CASE UNCHANGED vars
  BY <1>6, RegistryUnchanged DEF TypeOK, vars, managerVars
<1>. QED
  BY <1>1, <1>2, <1>3, <1>4, <1>5, <1>6 DEF Next, Finished

\* TypeOK holds in every reachable state, for every instance.
THEOREM TypeCorrect == Spec => []TypeOK
<1>1. Init => TypeOK
  BY SMTT(30) DEF Init, RegistryInit, TypeOK, RegistryTypeOK, HandlerState, ListenerState,
         Outcome, Message, Nil, ChannelBufferSize
<1>. QED
  BY <1>1, TypeStep, PTL DEF Spec

-----------------------------------------------------------------------------
(* The goroutines of one stream *)

(***************************************************************************)
(* How the handler, its listener, the timer and errChan of one stream are  *)
(* in step: the listener lives from Spawn on, the outcome is set when the  *)
(* handler leaves its loop, the timer runs while it is in the loop, and an *)
(* unrecoverable error on errChan is the last thing the listener did.      *)
(***************************************************************************)
InStep(s) ==
  /\ handler[s] \in {"idle", "resolve", "arp", "register", "spawn"} =>
       listener[s] = "none" /\ outcome[s] = "running"
  /\ handler[s] \in {"select", "report", "rearm"} =>
       outcome[s] = "running" /\ timer[s] \in {"armed", "fired"}
  /\ handler[s] \in {"fail", "closeErr", "closeMsg", "returned"} =>
       outcome[s] \notin {"running", "lost"}
  /\ handler[s] = "lost" => outcome[s] = "lost"
  /\ outcome[s] = "unrecoverable" => listener[s] = "done"
  /\ outcome[s] = "noMac" => listener[s] = "none"
  /\ errChan[s] # <<>> /\ Head(errChan[s]) = Unrecoverable => listener[s] = "done"

AllInStep == \A s \in Stream : InStep(s)

\* A channel of capacity one is empty after a receive; after a send its head is what was sent.
LEMMA OneSlot ==
  ASSUME NEW S, NEW q \in Seq(S), Len(q) <= 1, NEW e \in S
  PROVE  /\ q # <<>> => Tail(q) = <<>>
         /\ HasRoom(q) => q = <<>> /\ Append(q, e) = <<e>> /\ Head(Append(q, e)) = e
<1>1. q # <<>> => Tail(q) = <<>>
  BY OneLeft
<1>2. HasRoom(q) => q = <<>>
  BY SMTT(30) DEF HasRoom, ChannelBufferSize
<1>3. Append(<<>>, e) = <<e>> /\ Head(<<e>>) = e
  BY SMTT(30)
<1>. QED
  BY <1>1, <1>2, <1>3

\* The listener sends what it holds on an empty msgChan.
LEMMA SendMsgEffect ==
  ASSUME TypeOK, NEW s \in Stream, SendMsg(s)
  PROVE  /\ msgChan[s] = <<>> /\ msgChan'[s] = <<req[s]>> /\ Head(msgChan'[s]) = req[s]
         /\ req'[s] = Nil /\ listener[s] = "sendMsg" /\ listener'[s] = "recv"
         /\ \A r \in Stream \ {s} : UNCHANGED <<msgChan[r], req[r], listener[r]>>
         /\ UNCHANGED <<registry, handler, handled, eofs, sent, inbox>>
<1>1. /\ msgChan[s] \in Seq(Message) /\ Len(msgChan[s]) <= 1 /\ req[s] \in Message
      /\ HasRoom(msgChan[s])
  BY DEF SendMsg, TypeOK, ChannelBufferSize
<1>2. msgChan[s] = <<>> /\ Append(msgChan[s], req[s]) = <<req[s]>> /\ Head(<<req[s]>>) = req[s]
  BY <1>1, OneSlot
<1>3. msgChan'[s] = Append(msgChan[s], req[s])
  BY DEF SendMsg, TypeOK
<1>4. /\ req'[s] = Nil /\ listener[s] = "sendMsg" /\ listener'[s] = "recv"
      /\ \A r \in Stream \ {s} : UNCHANGED <<msgChan[r], req[r], listener[r]>>
  BY DEF SendMsg, TypeOK
<1>5. UNCHANGED <<registry, handler, handled, eofs, sent, inbox>>
  BY DEF SendMsg, handlerVars, wireVars
<1>. QED
  BY <1>2, <1>3, <1>4, <1>5

\* Every step keeps the goroutines of every stream in step.
LEMMA InStepStep == TypeOK /\ AllInStep /\ [Next]_vars => AllInStep'
<1>. SUFFICES ASSUME TypeOK, AllInStep, [Next]_vars, NEW r \in Stream
              PROVE  InStep(r)'
  BY DEF AllInStep
<1>0. InStep(r)
  BY DEF AllInStep
<1>1. ASSUME NEW s \in Stream, Handler(s)
      PROVE  InStep(r)'
  <2>1. CASE Resolves(s)
    BY <1>0, <2>1, SMTT(30) DEF TypeOK, InStep, Resolves, PeerUnknown, CacheHit, CacheMiss,
       ArpAnswers, ArpFails
  <2>2. CASE Register(s)
    BY <1>0, <2>2 DEF TypeOK, InStep, Register
  <2>3. CASE Spawn(s)
    BY <1>0, <2>3 DEF TypeOK, InStep, Spawn
  <2>4. CASE SelectNotServing(s)
    BY <1>0, <2>4 DEF TypeOK, InStep, SelectNotServing, TakeMsg
  <2>5. CASE SelectShuttingDown(s)
    BY <1>0, <2>5 DEF TypeOK, InStep, SelectShuttingDown, TakeMsg
  <2>6. CASE SelectServing(s)
    BY <1>0, <2>6 DEF TypeOK, InStep, SelectServing, TakeMsg
  <2>7. CASE Report(s)
    BY <1>0, <2>7 DEF TypeOK, InStep, Report
  <2>8. CASE Rearm(s)
    BY <1>0, <2>8 DEF TypeOK, InStep, Rearm
  <2>9. CASE SelectErr(s)
    BY <1>0, <2>9, OneSlot, SMTT(30) DEF ChannelBufferSize, TypeOK, InStep, SelectErr,
       gRPCErrUnrecoverable
  <2>10. CASE SelectTimer(s)
    BY <1>0, <2>10 DEF TypeOK, InStep, SelectTimer
  <2>11. CASE Fail(s)
    BY <1>0, <2>11 DEF TypeOK, InStep, Fail
  <2>12. CASE CloseErrChan(s)
    BY <1>0, <2>12 DEF TypeOK, InStep, CloseErrChan
  <2>13. CASE CloseMsgChan(s)
    BY <1>0, <2>13 DEF TypeOK, InStep, CloseMsgChan
  <2>. QED
    BY <1>1, <2>1, <2>2, <2>3, <2>4, <2>5, <2>6, <2>7, <2>8, <2>9, <2>10, <2>11, <2>12, <2>13
    DEF Handler, Resolves
<1>2. ASSUME NEW s \in Stream, Listener(s)
      PROVE  InStep(r)'
  <2>1. CASE RecvStatus(s)
    BY <1>0, <2>1 DEF TypeOK, InStep, RecvStatus
  <2>2. CASE RecvEOF(s)
    BY <1>0, <2>2 DEF TypeOK, InStep, RecvEOF
  <2>3. CASE RecvFatal(s)
    BY <1>0, <2>3 DEF TypeOK, InStep, RecvFatal
  <2>4. CASE SendFatal(s)
    BY <1>0, <2>4, OneSlot DEF ChannelBufferSize, TypeOK, InStep, SendFatal
  <2>5. CASE SendErr(s)
    BY <1>0, <2>5, OneSlot, SMTT(30) DEF ChannelBufferSize, TypeOK, InStep, SendErr, Recoverable,
       Unrecoverable
  <2>6. CASE SendMsg(s)
    BY <1>0, <2>6 DEF TypeOK, InStep, SendMsg
  <2>7. CASE SendOnClosed(s)
    BY <1>0, <2>7 DEF TypeOK, InStep, SendOnClosed
  <2>. QED
    BY <1>2, <2>1, <2>2, <2>3, <2>4, <2>5, <2>6, <2>7 DEF Listener
<1>3. ASSUME NEW s \in Stream, Peer(s)
      PROVE  InStep(r)'
  <2>1. CASE Open(s)
    BY <1>0, <2>1 DEF TypeOK, InStep, Open
  <2>2. CASE NodeCloseSend(s) \/ Disconnect(s) \/ \E st \in Status : NodeSend(s, st)
    BY <1>0, <2>2 DEF TypeOK, InStep, NodeCloseSend, Disconnect, NodeSend
  <2>3. CASE ArpAnswers(s) \/ ArpFails(s)
    BY <1>0, <2>3 DEF TypeOK, InStep, ArpAnswers, ArpFails
  <2>. QED
    BY <1>3, <2>1, <2>2, <2>3 DEF Peer
<1>4. ASSUME NEW s \in Stream, TimerExpires(s)
      PROVE  InStep(r)'
  BY <1>0, <1>4 DEF TypeOK, InStep, TimerExpires
<1>5. CASE Restart
  BY <1>0, <1>5 DEF TypeOK, InStep, Restart
<1>6. CASE UNCHANGED vars
  BY <1>0, <1>6 DEF InStep, vars, managerVars
<1>. QED
  BY <1>1, <1>2, <1>3, <1>4, <1>5, <1>6 DEF Next, Finished

\* Both invariants hold in every reachable state.
LEMMA InStepInvariant == Spec => [](TypeOK /\ AllInStep)
<1>1. Init => AllInStep
  BY SMTT(30) DEF Init, AllInStep, InStep
<1>. QED
  BY <1>1, TypeCorrect, InStepStep, PTL DEF Spec

\* DrainNeverBlocks: "<-timer.C" in multiplexHealthStatus is never reached with the
\* timer's value already received.
THEOREM DrainSafe == Spec => []DrainNeverBlocks
<1>1. AllInStep => DrainNeverBlocks
  BY DEF AllInStep, InStep, DrainNeverBlocks
<1>. QED
  BY <1>1, InStepInvariant, PTL

-----------------------------------------------------------------------------
(* Error exits and panics *)

\* ErrorExitIsClean: an error exit leaves no listener behind, so only the exits by
\* timeout and by shutdown can make a listener send on a closed channel.
THEOREM ErrorExitsClean == Spec => []ErrorExitIsClean
<1>. DEFINE PanicHasCause ==
       lb = "panicked" => \E s \in Stream : outcome[s] \in {"timeout", "shutdown"}
<1>1. Init => PanicHasCause
  BY DEF Init
<1>2. TypeOK /\ AllInStep /\ PanicHasCause /\ [Next]_vars => PanicHasCause'
  <2>. SUFFICES ASSUME TypeOK, AllInStep, PanicHasCause, [Next]_vars
                PROVE  PanicHasCause'
    OBVIOUS
  <2>1. ASSUME NEW s \in Stream, SendOnClosed(s)
        PROVE  PanicHasCause'
    <3>1. handler[s] \in {"closeMsg", "returned"}
          /\ listener[s] \in {"sendFatal", "sendErr", "sendMsg"}
      BY <2>1 DEF SendOnClosed, ErrChanClosed, MsgChanClosed
    <3>2. outcome[s] \in {"timeout", "shutdown"}
      BY <3>1 DEF AllInStep, InStep, TypeOK, Outcome
    <3>. QED
      BY <2>1, <3>2 DEF SendOnClosed
  <2>2. CASE lb' # "panicked"
    BY <2>2
  <2>3. CASE UNCHANGED <<lb, outcome>>
    BY <2>3
  <2>4. ASSUME NEW s \in Stream, Handler(s) \/ Peer(s) \/ TimerExpires(s)
        PROVE  lb' # "panicked"
    BY <2>4 DEF Handler, Peer, PeerUnknown, CacheHit, CacheMiss, ArpAnswers, ArpFails,
                 Register, Spawn, SelectNotServing,
                SelectShuttingDown, SelectServing, TakeMsg, Report, Rearm, SelectErr,
                SelectTimer, Fail, CloseErrChan, CloseMsgChan, Open, NodeCloseSend,
                Disconnect, NodeSend, TimerExpires
  <2>5. ASSUME NEW s \in Stream, Listener(s), ~SendOnClosed(s)
        PROVE  lb' # "panicked"
    BY <2>5 DEF Listener, RecvStatus, RecvEOF, RecvFatal, SendFatal, SendErr, SendMsg
  <2>6. CASE Restart
    BY <2>6 DEF Restart
  <2>7. CASE UNCHANGED vars
    BY <2>7, <2>3 DEF vars, managerVars
  <2>. QED
    BY <2>1, <2>2, <2>4, <2>5, <2>6, <2>7 DEF Next, Finished
<1>3. AllInStep /\ PanicHasCause => ErrorExitIsClean
  BY DEF AllInStep, InStep, ErrorExitIsClean
<1>. HIDE DEF PanicHasCause
<1>. QED
  BY <1>1, <1>2, <1>3, InStepInvariant, PTL DEF Spec

-----------------------------------------------------------------------------
(* The registry as the streams see it *)

\* The node of s announced its shutdown, and that ended the handler.
Announced(s) == outcome[s] = "shutdown"

\* A step that leaves the registry alone, starts no tracking, and ends at most that of
\* one stream whose node announced its shutdown.
Quiet ==
  /\ UNCHANGED registry
  /\ \/ \A r \in Stream : (Live(r)' <=> Live(r)) /\ (Announced(r)' <=> Announced(r))
     \/ \E s \in Stream :
          /\ Live(s)
          /\ \A r \in Stream : /\ Live(r)' <=> Live(r) /\ r # s
                               /\ Announced(r)' <=> Announced(r) \/ r = s

\* Only Register, Report, Fail and Restart are not quiet.
LEMMA StepKinds ==
  ASSUME TypeOK, AllInStep, [Next]_vars
  PROVE  \/ Quiet
         \/ Restart
         \/ \E s \in Stream : Register(s) \/ Report(s) \/ Fail(s)
<1>. USE DEF Quiet, Live, Announced
<1>1. ASSUME NEW s \in Stream, Handler(s), ~(Register(s) \/ Report(s) \/ Fail(s))
      PROVE  Quiet
  <2>1. CASE Resolves(s)
    <3>1. /\ registry' = registry
          /\ \A r \in Stream \ {s} : handler'[r] = handler[r] /\ outcome'[r] = outcome[r]
          /\ handler[s] \in {"resolve", "arp"}
          /\ handler'[s] \in {"arp", "register", "closeErr"}
          /\ outcome'[s] \in {outcome[s], "noMac"}
      BY <2>1, ResolvesEffect
    <3>2. outcome[s] = "running"
      BY <3>1 DEF AllInStep, InStep
    <3>. QED
      BY <3>1, <3>2
  <2>2. CASE Spawn(s)
    BY <2>2 DEF Spawn, TypeOK, AllInStep, InStep
  <2>3. CASE SelectNotServing(s)
    BY <2>3 DEF SelectNotServing, TakeMsg, TypeOK, AllInStep, InStep
  <2>4. CASE SelectShuttingDown(s)
    BY <2>4 DEF SelectShuttingDown, TakeMsg, TypeOK, AllInStep, InStep
  <2>5. CASE SelectServing(s)
    BY <2>5 DEF SelectServing, TakeMsg, TypeOK, AllInStep, InStep
  <2>6. CASE Rearm(s)
    BY <2>6 DEF Rearm, TypeOK, AllInStep, InStep
  <2>7. CASE SelectErr(s)
    <3>1. UNCHANGED registry /\ handler[s] = "select" /\ outcome[s] = "running"
      BY <2>7 DEF SelectErr, AllInStep, InStep
    <3>2. CASE Leave(s, "fail", "unrecoverable")
      BY <3>1, <3>2 DEF Leave, TypeOK
    <3>3. CASE UNCHANGED <<handler, outcome>>
      BY <3>1, <3>3
    <3>. QED
      BY <2>7, <3>2, <3>3 DEF SelectErr
  <2>8. CASE SelectTimer(s)
    BY <2>8 DEF SelectTimer, TypeOK, AllInStep, InStep
  <2>9. CASE CloseErrChan(s)
    BY <2>9 DEF CloseErrChan, TypeOK, AllInStep, InStep
  <2>10. CASE CloseMsgChan(s)
    BY <2>10 DEF CloseMsgChan, TypeOK, AllInStep, InStep
  <2>. QED
    BY <1>1, <2>1, <2>2, <2>3, <2>4, <2>5, <2>6, <2>7, <2>8, <2>9, <2>10
    DEF Handler, Resolves
<1>2. ASSUME NEW s \in Stream, Listener(s)
      PROVE  Quiet
  BY <1>2 DEF Listener, RecvStatus, RecvEOF, RecvFatal, SendFatal, SendErr, SendMsg,
              SendOnClosed
<1>3. ASSUME NEW s \in Stream, Peer(s) \/ TimerExpires(s)
      PROVE  Quiet
  <2>1. CASE Open(s)
    BY <2>1 DEF Open, TypeOK, AllInStep, InStep
  <2>2. CASE Resolves(s)
    <3>1. /\ registry' = registry
          /\ \A r \in Stream \ {s} : handler'[r] = handler[r] /\ outcome'[r] = outcome[r]
          /\ handler[s] \in {"resolve", "arp"}
          /\ handler'[s] \in {"arp", "register", "closeErr"}
          /\ outcome'[s] \in {outcome[s], "noMac"}
      BY <2>2, ResolvesEffect
    <3>2. outcome[s] = "running"
      BY <3>1 DEF AllInStep, InStep
    <3>. QED
      BY <3>1, <3>2
  <2>3. ASSUME ~Open(s), ~Resolves(s)
        PROVE  UNCHANGED <<registry, handler, outcome>>
    BY <1>3, <2>3 DEF Peer, Resolves, NodeCloseSend, Disconnect, NodeSend, TimerExpires
  <2>. QED
    BY <2>1, <2>2, <2>3
<1>4. CASE UNCHANGED vars
  BY <1>4 DEF vars, managerVars
<1>. HIDE DEF Quiet
<1>. QED
  BY <1>1, <1>2, <1>3, <1>4 DEF Next, Finished

\* NeverMissing: the branches of the registry that "should never happen" never do.
THEOREM EntryNeverMissing == Spec => []NeverMissing
<1>1. Init => NeverMissing
  BY DEF Init, NeverMissing, Live
<1>2. TypeOK /\ AllInStep /\ NeverMissing /\ [Next]_vars => NeverMissing'
  <2>. SUFFICES ASSUME TypeOK, AllInStep, NeverMissing, [Next]_vars,
                       NEW r \in Stream, Live(r)'
                PROVE  Present(KeyOf[r])'
    BY DEF NeverMissing
  <2>0. KeyOf[r] \in Key /\ RegistryTypeOK
    BY KeyOfAssumption DEF TypeOK
  <2>1. CASE Quiet
    BY <2>0, <2>1, RegistryUnchanged DEF Quiet, NeverMissing
  <2>2. CASE Restart
    BY <2>2 DEF Restart, Live, TypeOK
  <2>3. ASSUME NEW s \in Stream, Register(s)
        PROVE  Present(KeyOf[r])'
    <3>1. KeyOf[s] \in Key /\ RegisterNode(KeyOf[s])
      BY <2>3, KeyOfAssumption DEF Register
    <3>2. CASE r = s
      BY <2>0, <3>1, <3>2, RegisterEffect
    <3>3. CASE r # s
      BY <2>0, <2>3, <3>1, <3>3, RegisterEffect DEF Register, Live, NeverMissing, TypeOK
    <3>. QED
      BY <3>2, <3>3
  <2>4. ASSUME NEW s \in Stream, Report(s)
        PROVE  Present(KeyOf[r])'
    BY <2>0, <2>4, KeyOfAssumption, ReportEffect DEF Report, Live, NeverMissing, TypeOK
  <2>5. ASSUME NEW s \in Stream, Fail(s)
        PROVE  Present(KeyOf[r])'
    BY <2>0, <2>5, KeyOfAssumption, FailureEffect DEF Fail, Live, NeverMissing, TypeOK
  <2>. QED
    BY <2>1, <2>2, <2>3, <2>4, <2>5, StepKinds
<1>. QED
  BY <1>1, <1>2, InStepInvariant, PTL DEF Spec

\* StreakHasSource: no streak outlives the streams that earned it, unless one of them
\* ended by a shutdown announcement.
THEOREM StreakSource == Spec => []StreakHasSource
<1>1. Init => StreakHasSource
  BY SMTT(30) DEF Init, RegistryInit, StreakHasSource, Checks, Present
<1>2. TypeOK /\ AllInStep /\ StreakHasSource /\ [Next]_vars => StreakHasSource'
  <2>. DEFINE Source(s, k) == KeyOf[s] = k /\ (Live(s) \/ outcome[s] = "shutdown")
  <2>. SUFFICES ASSUME TypeOK, AllInStep, StreakHasSource, [Next]_vars,
                       NEW k \in Key, Checks(k)' > 0
                PROVE  \E s \in Stream : Source(s, k)'
    BY DEF StreakHasSource
  <2>0. RegistryTypeOK /\ (Checks(k) > 0 => \E s \in Stream : Source(s, k))
    BY DEF TypeOK, StreakHasSource
  <2>1. CASE Quiet
    BY <2>0, <2>1, RegistryUnchanged DEF Quiet, Announced
  <2>2. CASE Restart
    BY <2>2, SMTT(30) DEF Restart, Checks, Present
  <2>3. ASSUME NEW s \in Stream, Register(s)
        PROVE  \E r \in Stream : Source(r, k)'
    <3>1. Checks(k)' = Checks(k)
      BY <2>0, <2>3, KeyOfAssumption, RegisterEffect DEF Register
    <3>. QED
      BY <2>0, <2>3, <3>1 DEF Register, Live, TypeOK
  <2>4. ASSUME NEW s \in Stream, Report(s)
        PROVE  \E r \in Stream : Source(r, k)'
    <3>1. k # KeyOf[s] => Checks(k)' = Checks(k)
      BY <2>0, <2>4, KeyOfAssumption, ReportEffect DEF Report
    <3>2. CASE k = KeyOf[s]
      BY <2>4, <3>2 DEF Report, Live, TypeOK
    <3>3. CASE k # KeyOf[s]
      BY <2>0, <2>4, <3>1, <3>3 DEF Report, Live, TypeOK
    <3>. QED
      BY <3>2, <3>3
  <2>5. ASSUME NEW s \in Stream, Fail(s)
        PROVE  \E r \in Stream : Source(r, k)'
    <3>1. k # KeyOf[s] /\ Checks(k)' = Checks(k)
      BY <2>0, <2>5, KeyOfAssumption, FailureEffect, SMTT(30) DEF Fail
    <3>. QED
      BY <2>0, <2>5, <3>1 DEF Fail, Live, TypeOK
  <2>. QED
    BY <2>1, <2>2, <2>3, <2>4, <2>5, StepKinds
<1>. QED
  BY <1>1, <1>2, InStepInvariant, PTL DEF Spec

\* StreakCutOnlyByFailure: a streak gets shorter only by a failure of one of the
\* node's own streams, or by a restart.
THEOREM StreakCut == Spec => StreakCutOnlyByFailure
<1>. DEFINE Cut == \A k \in Key : Checks(k)' < Checks(k) =>
              /\ Checks(k)' = 0
              /\ \/ lb = "panicked"
                 \/ \E s \in Stream : KeyOf[s] = k /\ handler[s] = "fail"
<1>1. TypeOK /\ AllInStep /\ [Next]_vars => [Cut]_vars
  <2>. SUFFICES ASSUME TypeOK, AllInStep, [Next]_vars,
                       NEW k \in Key, Checks(k)' < Checks(k)
                PROVE  /\ Checks(k)' = 0
                       /\ \/ lb = "panicked"
                          \/ \E s \in Stream : KeyOf[s] = k /\ handler[s] = "fail"
    OBVIOUS
  <2>0. RegistryTypeOK /\ Checks(k) \in Nat
    BY DEF TypeOK, RegistryTypeOK, Checks, Present, Node
  <2>1. CASE Quiet
    BY <2>0, <2>1, RegistryUnchanged, SMTT(30) DEF Quiet
  <2>2. CASE Restart
    BY <2>2 DEF Restart, Checks, Present
  <2>3. ASSUME NEW s \in Stream, Register(s)
        PROVE  FALSE
    BY <2>0, <2>3, KeyOfAssumption, RegisterEffect, SMTT(30) DEF Register
  <2>4. ASSUME NEW s \in Stream, Report(s)
        PROVE  FALSE
    <3>1. KeyOf[s] \in Key /\ ReportNewHealthCheck(KeyOf[s])
      BY <2>4, KeyOfAssumption DEF Report
    <3>2. RegistryTypeOK' /\ (k # KeyOf[s] => Checks(k)' = Checks(k))
          /\ (k = KeyOf[s] => Checks(k)' \in {Checks(k), Checks(k) + 1})
      BY <2>0, <3>1, ReportEffect
    <3>3. Checks(k)' \in Nat
      BY <3>2 DEF RegistryTypeOK, Checks, Present, Node
    <3>. QED
      BY <2>0, <3>2, <3>3, SMTT(30)
  <2>5. ASSUME NEW s \in Stream, Fail(s)
        PROVE  /\ Checks(k)' = 0
               /\ KeyOf[s] = k /\ handler[s] = "fail"
    BY <2>0, <2>5, KeyOfAssumption, FailureEffect, SMTT(30) DEF Fail
  <2>. QED
    BY <2>1, <2>2, <2>3, <2>4, <2>5, StepKinds
<1>. QED
  BY <1>1, InStepInvariant, PTL DEF Spec, StreakCutOnlyByFailure

-----------------------------------------------------------------------------
(* The manager implements HealthTracking *)

\* The rest of the refinement mapping.
Tracked == {s \in Stream : Live(s)}
AnnouncedSet == {s \in Stream : Announced(s)}

\* ImplementsTracking: every step of a handler, a listener, a timer, a node or systemd
\* is a step of the abstract tracking or leaves it as it was.
THEOREM TrackingImplemented == Spec => ImplementsTracking
<1>. USE DEF Tracked, AnnouncedSet, Announced, Streak
<1>1. Init => Tracking!Init
  BY SMTT(30) DEF Init, Tracking!Init, RegistryInit, Live, Present
<1>2. TypeOK /\ AllInStep /\ NeverMissing /\ [Next]_vars
        => [Tracking!Next]_(Tracking!vars)
  <2>. SUFFICES ASSUME TypeOK, AllInStep, NeverMissing, [Next]_vars
                PROVE  Tracking!Next \/ UNCHANGED <<Tracked, AnnouncedSet, Streak>>
    BY DEF Tracking!vars
  <2>0. RegistryTypeOK /\ \A k \in Key : Checks(k) \in Nat /\ Checks(k) # NoNode
    BY NoNodeAssumption, SMTT(30) DEF TypeOK, RegistryTypeOK, Checks, Present, Node
  <2>1. CASE Quiet
    <3>1. UNCHANGED Streak
      BY <2>1, RegistryUnchanged DEF Quiet
    <3>2. CASE \A r \in Stream : (Live(r)' <=> Live(r)) /\ (Announced(r)' <=> Announced(r))
      BY <3>1, <3>2
    <3>3. ASSUME NEW s \in Stream, Live(s),
                 \A r \in Stream : /\ Live(r)' <=> Live(r) /\ r # s
                                   /\ Announced(r)' <=> Announced(r) \/ r = s
          PROVE  Tracking!Next
      <4>1. /\ s \in Tracked /\ Tracked' = Tracked \ {s}
            /\ AnnouncedSet' = AnnouncedSet \cup {s}
        BY <3>3
      <4>2. Tracking!Leave(s)
        BY <3>1, <4>1 DEF Tracking!Leave
      <4>. QED
        BY <4>2 DEF Tracking!Next
    <3>. QED
      BY <2>1, <3>2, <3>3 DEF Quiet
  <2>2. CASE Restart
    <3>1. Tracked' = {} /\ Streak' = [k \in Key |-> NoNode]
      BY <2>2 DEF Restart, Live, Present, TypeOK
    <3>2. AnnouncedSet' = {}
      BY <2>2 DEF Restart, AllInStep, InStep, TypeOK
    <3>. QED
      BY <3>1, <3>2 DEF Tracking!Next, Tracking!Restart
  <2>3. ASSUME NEW s \in Stream, Register(s)
        PROVE  Tracking!Next
    <3>1. s \notin Tracked /\ Tracked' = Tracked \cup {s}
      BY <2>3 DEF Register, Live, TypeOK
    <3>2. Streak' = [Streak EXCEPT ![KeyOf[s]] = IF @ = NoNode THEN 0 ELSE @]
      <4>1. KeyOf[s] \in Key /\ RegisterNode(KeyOf[s])
        BY <2>3, KeyOfAssumption DEF Register
      <4>2. /\ Present(KeyOf[s])'
            /\ \A j \in Key : Checks(j)' = Checks(j)
            /\ \A j \in Key \ {KeyOf[s]} : Present(j)' <=> Present(j)
        BY <2>0, <4>1, RegisterEffect
      <4>3. ~Present(KeyOf[s]) => Checks(KeyOf[s]) = 0
        BY DEF Checks
      <4>. QED
        BY <2>0, <4>1, <4>2, <4>3
    <3>3. Tracking!Join(s)
      BY <2>3, <3>1, <3>2 DEF Register, Tracking!Join
    <3>. QED
      BY <3>3 DEF Tracking!Next
  <2>4. ASSUME NEW s \in Stream, Report(s)
        PROVE  Tracking!Next
    <3>1. s \in Tracked /\ Tracked' = Tracked /\ Present(KeyOf[s])
      BY <2>4 DEF Report, Live, TypeOK, NeverMissing
    <3>2. KeyOf[s] \in Key /\ ReportNewHealthCheck(KeyOf[s])
      BY <2>4, KeyOfAssumption DEF Report
    <3>3. Streak' = [Streak EXCEPT ![KeyOf[s]] = @ + 1] /\ Streak[KeyOf[s]] # NoNode
      BY <2>0, <3>1, <3>2, StreakEffect
    <3>4. Tracking!Check(s)
      BY <2>4, <3>1, <3>3 DEF Report, Tracking!Check
    <3>. QED
      BY <3>4 DEF Tracking!Next
  <2>5. ASSUME NEW s \in Stream, Fail(s)
        PROVE  Tracking!Next
    <3>1. s \in Tracked /\ Tracked' = Tracked \ {s} /\ Present(KeyOf[s])
      BY <2>5 DEF Fail, Live, TypeOK, NeverMissing
    <3>2. KeyOf[s] \in Key /\ ReportNodeFailure(KeyOf[s])
      BY <2>5, KeyOfAssumption DEF Fail
    <3>3. Streak' = [Streak EXCEPT ![KeyOf[s]] = 0] /\ Streak[KeyOf[s]] # NoNode
      BY <2>0, <3>1, <3>2, StreakEffect
    <3>4. Tracking!Fail(s)
      BY <2>5, <3>1, <3>3 DEF Fail, Tracking!Fail
    <3>. QED
      BY <3>4 DEF Tracking!Next
  <2>. QED
    BY <2>1, <2>2, <2>3, <2>4, <2>5, StepKinds
<1>. QED
  BY <1>1, <1>2, EntryNeverMissing, InStepInvariant, PTL
  DEF Spec, ImplementsTracking, Tracking!Spec

-----------------------------------------------------------------------------
(* Delivery in order *)

\* The listener holds a request only between Recv and msgChan <- req.
HandsEmpty == \A s \in Stream : listener[s] # "sendMsg" => req[s] = Nil

\* What StatusesInOrder says of one stream.
InOrder(s) ==
  sent[s] = handled[s] \o Queued(s) \o Statuses(req[s]) \o inbox[s]

\* The pieces of a stream's history are sequences of statuses.
LEMMA PieceTypes ==
  ASSUME TypeOK, NEW s \in Stream
  PROVE  /\ handled[s] \in Seq(Status)
         /\ Queued(s) \in Seq(Status)
         /\ Statuses(req[s]) \in Seq(Status)
         /\ inbox[s] \in Seq(Status)
         /\ sent[s] \in Seq(Status)
BY SMTT(30) DEF TypeOK, Queued, Statuses, Message

\* Moving the first element of the fourth piece to the empty third.
LEMMA ShiftLast ==
  ASSUME NEW h \in Seq(Status), NEW q \in Seq(Status), NEW i \in Seq(Status), i # <<>>
  PROVE  h \o q \o <<>> \o i = h \o q \o <<Head(i)>> \o Tail(i)
<1>1. i = <<Head(i)>> \o Tail(i)
  BY SMTT(30)
<1>. DEFINE p == h \o q
<1>2. p \in Seq(Status) /\ p \o <<>> = p
  BY SMTT(30)
<1>3. <<Head(i)>> \in Seq(Status) /\ Tail(i) \in Seq(Status)
  BY SMTT(30)
<1>4. (p \o <<Head(i)>>) \o Tail(i) = p \o (<<Head(i)>> \o Tail(i))
  BY <1>2, <1>3, SMTT(30)
<1>. QED
  BY <1>1, <1>2, <1>4

\* Sending the request moves it from the third piece to the empty second.
LEMMA SendMsgInOrder ==
  ASSUME TypeOK, NEW s \in Stream, SendMsg(s), InOrder(s)
  PROVE  InOrder(s)'
<1>1. /\ msgChan[s] = <<>> /\ msgChan'[s] = <<req[s]>> /\ Head(msgChan'[s]) = req[s]
      /\ req'[s] = Nil /\ UNCHANGED <<sent[s], handled[s], inbox[s]>>
  BY SendMsgEffect
<1>2. <<req[s]>> # <<>>
  OBVIOUS
<1>3. Queued(s) = <<>> /\ Queued(s)' = Statuses(req[s]) /\ Statuses(req'[s]) = <<>>
  BY <1>1, <1>2 DEF Queued, Statuses
<1>4. handled[s] \o <<>> \o Statuses(req[s]) = handled[s] \o Statuses(req[s]) \o <<>>
  BY PieceTypes, SMTT(30)
<1>. QED
  BY <1>1, <1>3, <1>4 DEF InOrder

\* Appending to the whole is appending to the last piece.
LEMMA AppendLast ==
  ASSUME NEW p \in Seq(Status), NEW i \in Seq(Status), NEW e \in Status
  PROVE  Append(p \o i, e) = p \o Append(i, e)
BY SMTT(30)

\* Appending to the first piece what the second held.
LEMMA AppendFirst ==
  ASSUME NEW h \in Seq(Status), NEW e \in Status
  PROVE  Append(h, e) \o <<>> = h \o <<e>>
BY SMTT(30)

\* Every step keeps the listener's hand empty outside "sendMsg".
LEMMA HandsStep == TypeOK /\ AllInStep /\ HandsEmpty /\ [Next]_vars => HandsEmpty'
<1>. SUFFICES ASSUME TypeOK, AllInStep, HandsEmpty, [Next]_vars, NEW r \in Stream,
                     listener'[r] # "sendMsg"
              PROVE  req'[r] = Nil
  BY DEF HandsEmpty
<1>1. ASSUME NEW s \in Stream, Handler(s) \/ Peer(s) \/ TimerExpires(s), ~Spawn(s)
      PROVE  UNCHANGED <<listener, req>>
  BY <1>1 DEF Handler, Peer, PeerUnknown, CacheHit, CacheMiss, ArpAnswers, ArpFails,
                 Register, SelectNotServing,
              SelectShuttingDown, SelectServing, TakeMsg, Report, Rearm, SelectErr,
              SelectTimer, Fail, CloseErrChan, CloseMsgChan, Open, NodeCloseSend,
              Disconnect, NodeSend, TimerExpires
<1>2. ASSUME NEW s \in Stream, Spawn(s)
      PROVE  req'[r] = Nil
  BY <1>2 DEF Spawn, AllInStep, InStep, HandsEmpty, TypeOK
<1>3. ASSUME NEW s \in Stream, Listener(s)
      PROVE  req'[r] = Nil
  BY <1>3 DEF Listener, RecvStatus, RecvEOF, RecvFatal, SendFatal, SendErr, SendMsg,
              SendOnClosed, HandsEmpty, TypeOK
<1>4. CASE Restart
  BY <1>4 DEF Restart
<1>5. CASE UNCHANGED vars
  BY <1>5 DEF vars, managerVars, HandsEmpty
<1>. QED
  BY <1>1, <1>2, <1>3, <1>4, <1>5 DEF Next, Finished, HandsEmpty

\* StatusesInOrder: between the wire and the multiplexer no status is lost,
\* duplicated or overtaken, whatever the goroutines of the stream do.
THEOREM DeliveryInOrder == Spec => []StatusesInOrder
<1>1. Init => HandsEmpty /\ StatusesInOrder
  BY SMTT(30) DEF Init, HandsEmpty, StatusesInOrder, Queued, Statuses
<1>2. TypeOK /\ AllInStep /\ HandsEmpty /\ StatusesInOrder /\ [Next]_vars => StatusesInOrder'
  <2>. SUFFICES ASSUME TypeOK, AllInStep, HandsEmpty, StatusesInOrder, [Next]_vars,
                       NEW r \in Stream
                PROVE  InOrder(r)'
    BY DEF StatusesInOrder, InOrder
  <2>0. InOrder(r)
    BY DEF StatusesInOrder, InOrder
  <2>. DEFINE Still == UNCHANGED <<sent[r], handled[r], msgChan[r], req[r], inbox[r]>>
  <2>1. Still => InOrder(r)'
    BY <2>0 DEF InOrder, Queued, Statuses
  <2>2. ASSUME NEW s \in Stream, TakeMsg(s)
        PROVE  InOrder(r)'
    <3>1. CASE r # s
      BY <2>1, <2>2, <3>1 DEF TakeMsg, TypeOK
    <3>2. CASE r = s
      <4>1. msgChan[r] # <<>> /\ msgChan'[r] = <<>>
        <5>1. msgChan[r] # <<>> /\ msgChan' = [msgChan EXCEPT ![r] = Tail(@)]
          BY <2>2, <3>2 DEF TakeMsg
        <5>2. msgChan'[r] = Tail(msgChan[r])
          BY <5>1 DEF TypeOK
        <5>3. msgChan[r] \in Seq(Message) /\ Len(msgChan[r]) <= 1
          BY MsgChanType
        <5>. QED
          BY <5>1, <5>2, <5>3, OneLeft
      <4>. DEFINE m == Head(msgChan[r])
      <4>2. m \in Message
        BY <4>1, MsgChanType, TailType
      <4>3. Queued(r) = Statuses(m) /\ Queued(r)' = <<>>
        BY <4>1 DEF Queued
      <4>4. UNCHANGED <<sent[r], req[r], inbox[r]>>
        BY <2>2 DEF TakeMsg
      <4>5. handled'[r] \o <<>> = handled[r] \o Statuses(m)
        <5>1. handled[r] \in Seq(Status)
          BY PieceTypes
        <5>2. CASE m = Nil
          BY <2>2, <3>2, <5>1, <5>2 DEF TakeMsg, Statuses
        <5>3. CASE m # Nil
          <6>1. m \in Status /\ Statuses(m) = <<m>>
            BY <4>2, <5>3 DEF Message, Statuses
          <6>2. handled'[r] = Append(handled[r], m)
            BY <2>2, <3>2, <5>3 DEF TakeMsg, TypeOK
          <6>. QED
            BY <5>1, <6>1, <6>2, AppendFirst
        <5>. QED
          BY <5>2, <5>3
      <4>. HIDE DEF m
      <4>. QED
        BY <2>0, <4>3, <4>4, <4>5 DEF InOrder, Statuses
    <3>. QED
      BY <3>1, <3>2
  <2>3. ASSUME NEW s \in Stream, SendMsg(s)
        PROVE  InOrder(r)'
    <3>1. CASE r # s
      BY <2>1, <2>3, <3>1, SendMsgEffect
    <3>2. CASE r = s
      BY <2>0, <2>3, <3>2, SendMsgInOrder
    <3>. QED
      BY <3>1, <3>2
  <2>4. ASSUME NEW s \in Stream, RecvStatus(s)
        PROVE  InOrder(r)'
    <3>1. CASE r # s
      BY <2>1, <2>4, <3>1 DEF RecvStatus, TypeOK
    <3>2. CASE r = s
      <4>1. req[r] = Nil /\ inbox[r] # <<>>
        BY <2>4, <3>2 DEF RecvStatus, HandsEmpty
      <4>2. req'[r] = Head(inbox[r]) /\ inbox'[r] = Tail(inbox[r])
        BY <2>4, <3>2 DEF RecvStatus, TypeOK
      <4>3. Head(inbox[r]) \in Status
        BY <4>1, TailType DEF TypeOK
      <4>4. Statuses(req[r]) = <<>> /\ Statuses(req'[r]) = <<Head(inbox[r])>>
        BY <4>1, <4>2, <4>3 DEF Statuses, Status, Nil, Serving, NotServing, ShuttingDown
      <4>5. UNCHANGED <<sent[r], handled[r], msgChan[r]>> /\ UNCHANGED Queued(r)
        BY <2>4 DEF RecvStatus, Queued, Statuses
      <4>6. handled[r] \o Queued(r) \o <<>> \o inbox[r]
              = handled[r] \o Queued(r) \o <<Head(inbox[r])>> \o Tail(inbox[r])
        <5>1. /\ handled[r] \in Seq(Status)
              /\ Queued(r) \in Seq(Status)
              /\ inbox[r] \in Seq(Status)
          BY PieceTypes
        <5>. QED
          BY <4>1, <5>1, ShiftLast
      <4>. QED
        BY <2>0, <4>2, <4>4, <4>5, <4>6 DEF InOrder
    <3>. QED
      BY <3>1, <3>2
  <2>5. ASSUME NEW s \in Stream, NEW st \in Status, NodeSend(s, st)
        PROVE  InOrder(r)'
    <3>1. CASE r # s
      BY <2>1, <2>5, <3>1 DEF NodeSend, TypeOK
    <3>2. CASE r = s
      <4>. DEFINE p == handled[r] \o Queued(r) \o Statuses(req[r])
      <4>1. p \in Seq(Status)
        BY PieceTypes, SMTT(30)
      <4>2. sent'[r] = Append(sent[r], st) /\ inbox'[r] = Append(inbox[r], st)
        BY <2>5, <3>2 DEF NodeSend, TypeOK
      <4>3. p' = p
        BY <2>5 DEF NodeSend, Queued, Statuses
      <4>4. sent[r] = p \o inbox[r] /\ (InOrder(r)' <=> sent'[r] = p' \o inbox'[r])
        BY <2>0 DEF InOrder
      <4>5. inbox[r] \in Seq(Status)
        BY PieceTypes
      <4>. HIDE DEF p
      <4>6. Append(p \o inbox[r], st) = p \o Append(inbox[r], st)
        BY <4>1, <4>5, AppendLast
      <4>. QED
        BY <4>2, <4>3, <4>4, <4>6
    <3>. QED
      BY <3>1, <3>2
  <2>6. ASSUME NEW s \in Stream, RecvEOF(s) \/ RecvFatal(s)
        PROVE  InOrder(r)'
    BY <2>1, <2>6 DEF RecvEOF, RecvFatal, HandsEmpty, TypeOK
  <2>7. ASSUME NEW s \in Stream,
               \/ Resolves(s) \/ Register(s) \/ Spawn(s) \/ Report(s) \/ Rearm(s)
               \/ SelectErr(s) \/ SelectTimer(s) \/ Fail(s) \/ CloseErrChan(s)
               \/ CloseMsgChan(s) \/ SendFatal(s) \/ SendErr(s) \/ SendOnClosed(s)
               \/ TimerExpires(s) \/ Open(s) \/ NodeCloseSend(s) \/ Disconnect(s)
        PROVE  Still
    BY <2>7 DEF Resolves, PeerUnknown, CacheHit, CacheMiss, ArpAnswers, ArpFails,
                Register, Spawn, Report, Rearm, SelectErr, SelectTimer,
                Fail, CloseErrChan, CloseMsgChan, SendFatal, SendErr, SendOnClosed,
                TimerExpires, Open, NodeCloseSend, Disconnect
  <2>8. CASE Restart
    BY <2>8, SMTT(30) DEF Restart, InOrder, Queued, Statuses
  <2>9. CASE UNCHANGED vars
    BY <2>1, <2>9 DEF vars, managerVars
  <2>. HIDE DEF Still
  <2>. QED
    BY <2>1, <2>2, <2>3, <2>4, <2>5, <2>6, <2>7, <2>8, <2>9
    DEF Next, Handler, Listener, Peer, Resolves, Finished, SelectNotServing, SelectShuttingDown,
        SelectServing
<1>. QED
  BY <1>1, <1>2, HandsStep, InStepInvariant, PTL DEF Spec

-----------------------------------------------------------------------------
(* Progress: nobody is stuck *)

\* The end of a handler reaches its listener: gRPC has cancelled the stream of a handler that
\* returned, and a listener does not outlive its process.
Released(s) ==
  /\ handler[s] = "returned" => transport[s] = "canceled"
  /\ handler[s] = "lost" => listener[s] = "none"

\* Every step keeps listeners from being left behind.
LEMMA ReleasedStep ==
  TypeOK /\ (\A s \in Stream : Released(s)) /\ [Next]_vars => \A s \in Stream : Released(s)'
<1>. SUFFICES ASSUME TypeOK, [Next]_vars, NEW r \in Stream, Released(r)
              PROVE  Released(r)'
  OBVIOUS
<1>. USE DEF Released
<1>1. ASSUME NEW s \in Stream, Handler(s)
      PROVE  Released(r)'
  <2>1. CASE Spawn(s)
    BY <2>1 DEF TypeOK, Spawn
  <2>2. CASE CloseMsgChan(s)
    BY <2>2 DEF TypeOK, CloseMsgChan
  <2>3. ASSUME ~Spawn(s), ~CloseMsgChan(s)
        PROVE  /\ UNCHANGED <<transport, listener>>
               /\ \E place \in HandlerState \ {"returned", "lost"} :
                    handler' = handler \/ handler' = [handler EXCEPT ![s] = place]
    BY <1>1, <2>3 DEF Handler, PeerUnknown, CacheHit, CacheMiss, Register, TakeMsg,
       SelectNotServing, SelectShuttingDown, SelectServing, Report, Rearm, SelectErr,
       SelectTimer, Fail, CloseErrChan, HandlerState
  <2>. QED
    BY <2>1, <2>2, <2>3 DEF TypeOK
<1>2. ASSUME NEW s \in Stream, Listener(s)
      PROVE  Released(r)'
  <2>1. UNCHANGED <<handler, transport>> /\ listener[s] # "none"
    BY <1>2 DEF Listener, RecvStatus, RecvEOF, RecvFatal, SendFatal, SendErr, SendMsg,
       SendOnClosed
  <2>2. r # s => listener'[r] = listener[r]
    BY <1>2 DEF Listener, RecvStatus, RecvEOF, RecvFatal, SendFatal, SendErr, SendMsg,
       SendOnClosed, TypeOK
  <2>. QED
    BY <2>1, <2>2
<1>3. ASSUME NEW s \in Stream, Peer(s) \/ TimerExpires(s)
      PROVE  Released(r)'
  <2>1. CASE Open(s)
    BY <2>1 DEF TypeOK, Open
  <2>2. CASE \/ NodeCloseSend(s) \/ Disconnect(s) \/ TimerExpires(s)
             \/ \E st \in Status : NodeSend(s, st)
    BY <2>2 DEF TypeOK, NodeCloseSend, Disconnect, TimerExpires, NodeSend
  <2>3. CASE ArpAnswers(s) \/ ArpFails(s)
    BY <2>3 DEF TypeOK, ArpAnswers, ArpFails
  <2>. QED
    BY <1>3, <2>1, <2>2, <2>3 DEF Peer
<1>4. CASE Restart
  BY <1>4 DEF Restart
<1>5. CASE UNCHANGED vars
  BY <1>5 DEF vars, managerVars
<1>. QED
  BY <1>1, <1>2, <1>3, <1>4, <1>5 DEF Next, Finished

\* NobodyStuck: from registration until both goroutines of a stream have returned, one of
\* them or the timer can move without the node.
THEOREM NeverStuck == Spec => []NobodyStuck
<1>1. Init => \A s \in Stream : Released(s)
  BY SMTT(30) DEF Init, Released
<1>2. TypeOK /\ AllInStep /\ (\A s \in Stream : Released(s)) => NobodyStuck
  <2>. SUFFICES ASSUME TypeOK, AllInStep, NEW s \in Stream, Released(s),
                       handler[s] \notin {"idle", "resolve", "arp"}, ~CanMove(s)
                PROVE  Over(s)
    BY DEF NobodyStuck
  <2>1. InStep(s) /\ handler[s] \in HandlerState /\ listener[s] \in ListenerState
    BY DEF AllInStep, TypeOK
  <2>2. handler[s] \in {"returned", "lost"}
    BY <2>1 DEF InStep, CanMove, HandlerState
  <2>. QED
    BY <2>1, <2>2 DEF Released, CanMove, Over, ListenerState
<1>3. TypeOK /\ (\A s \in Stream : Released(s)) /\ [Next]_vars
        => (\A s \in Stream : Released(s))'
  BY ReleasedStep
<1>. QED
  BY <1>1, <1>2, <1>3, InStepInvariant, PTL DEF Spec

-----------------------------------------------------------------------------
(* Progress: a stream left to itself runs down *)

\* What waits on the stream and in the channels.
Unread(s) == Len(inbox[s])
Msgs(s)   == Len(msgChan[s])
Errs(s)   == Len(errChan[s])

\* The parts of Work are natural numbers.
LEMMA WorkParts ==
  ASSUME TypeOK, NEW s \in Stream
  PROVE  /\ HandlerWork(s) \in Nat /\ ListenerWork(s) \in Nat /\ TimerWork(s) \in Nat
         /\ Unread(s) \in Nat /\ Msgs(s) \in Nat /\ Errs(s) \in Nat
<1>1. HandlerWork(s) \in Nat
  BY SMTT(30) DEF HandlerWork
<1>2. ListenerWork(s) \in Nat /\ TimerWork(s) \in Nat
  BY SMTT(30) DEF ListenerWork, TimerWork
<1>3. /\ inbox[s] \in Seq(Status) /\ msgChan[s] \in Seq(Message)
      /\ errChan[s] \in Seq({Unrecoverable, Recoverable})
  BY DEF TypeOK
<1>4. Len(inbox[s]) \in Nat /\ Len(msgChan[s]) \in Nat /\ Len(errChan[s]) \in Nat
  BY <1>3, SMTT(30)
<1>. QED
  BY <1>1, <1>2, <1>4 DEF Unread, Msgs, Errs

\* So they are after a step.
LEMMA WorkPartsNext ==
  ASSUME TypeOK', NEW s \in Stream
  PROVE  /\ HandlerWork(s)' \in Nat /\ ListenerWork(s)' \in Nat /\ TimerWork(s)' \in Nat
         /\ Unread(s)' \in Nat /\ Msgs(s)' \in Nat /\ Errs(s)' \in Nat
<1>1. HandlerWork(s)' \in Nat
  BY SMTT(30) DEF HandlerWork
<1>2. ListenerWork(s)' \in Nat /\ TimerWork(s)' \in Nat
  BY SMTT(30) DEF ListenerWork, TimerWork
<1>3. /\ inbox'[s] \in Seq(Status) /\ msgChan'[s] \in Seq(Message)
      /\ errChan'[s] \in Seq({Unrecoverable, Recoverable})
  BY DEF TypeOK
<1>4. Len(inbox'[s]) \in Nat /\ Len(msgChan'[s]) \in Nat /\ Len(errChan'[s]) \in Nat
  BY <1>3, SMTT(30)
<1>. QED
  BY <1>1, <1>2, <1>4 DEF Unread, Msgs, Errs

\* The sum that is Work.
Total(h, l, t, i, m, e) == h + l + t + 6 * i + 4 * m + e

\* The work before a step and after it, in numbers.
LEMMA WorkSums ==
  ASSUME TypeOK, TypeOK', NEW s \in Stream
  PROVE  \E h, l, t, i, m, e, h2, l2, t2, i2, m2, e2 \in Nat :
           /\ h = HandlerWork(s) /\ l = ListenerWork(s) /\ t = TimerWork(s)
           /\ i = Unread(s) /\ m = Msgs(s) /\ e = Errs(s)
           /\ h2 = HandlerWork(s)' /\ l2 = ListenerWork(s)' /\ t2 = TimerWork(s)'
           /\ i2 = Unread(s)' /\ m2 = Msgs(s)' /\ e2 = Errs(s)'
           /\ Work(s) = Total(h, l, t, i, m, e) /\ Work(s)' = Total(h2, l2, t2, i2, m2, e2)
<1>1. Work(s) = Total(HandlerWork(s), ListenerWork(s), TimerWork(s), Unread(s), Msgs(s), Errs(s))
  BY DEF Work, Total, Unread, Msgs, Errs
<1>2. Work(s)' = Total(HandlerWork(s)', ListenerWork(s)', TimerWork(s)', Unread(s)', Msgs(s)',
                       Errs(s)')
  BY DEF Work, Total, Unread, Msgs, Errs
<1>. QED
  BY <1>1, <1>2, WorkParts, WorkPartsNext

\* What a step of the handler takes from the work of its stream is more than what it adds.
LEMMA HandlerMoves ==
  ASSUME TypeOK, TypeOK', NEW s \in Stream,
         \/ /\ HandlerWork(s)' < HandlerWork(s) /\ TimerWork(s)' \in {0, TimerWork(s)}
            /\ Msgs(s)' \in {Msgs(s), Msgs(s) - 1}
            /\ UNCHANGED <<ListenerWork(s), Unread(s), Errs(s)>>
         \/ /\ HandlerWork(s) = 10 /\ HandlerWork(s)' = 4 /\ ListenerWork(s)' = 3
            /\ TimerWork(s)' = 2 /\ UNCHANGED <<Unread(s), Msgs(s), Errs(s)>>
         \/ /\ HandlerWork(s) = 4 /\ HandlerWork(s)' \in {4, 7} /\ Msgs(s)' = Msgs(s) - 1
            /\ UNCHANGED <<ListenerWork(s), TimerWork(s), Unread(s), Errs(s)>>
         \/ /\ HandlerWork(s) = 6 /\ HandlerWork(s)' = 4
            /\ TimerWork(s) \in {1, 2} /\ TimerWork(s)' = 2
            /\ UNCHANGED <<ListenerWork(s), Unread(s), Msgs(s), Errs(s)>>
         \/ /\ HandlerWork(s) = 4 /\ HandlerWork(s)' \in {3, 4} /\ Errs(s)' = Errs(s) - 1
            /\ UNCHANGED <<ListenerWork(s), TimerWork(s), Unread(s), Msgs(s)>>
  PROVE  Work(s)' < Work(s)
<1>1. PICK h, l, t, i, m, e, h2, l2, t2, i2, m2, e2 \in Nat :
        /\ h = HandlerWork(s) /\ l = ListenerWork(s) /\ t = TimerWork(s)
        /\ i = Unread(s) /\ m = Msgs(s) /\ e = Errs(s)
        /\ h2 = HandlerWork(s)' /\ l2 = ListenerWork(s)' /\ t2 = TimerWork(s)'
        /\ i2 = Unread(s)' /\ m2 = Msgs(s)' /\ e2 = Errs(s)'
        /\ Work(s) = Total(h, l, t, i, m, e) /\ Work(s)' = Total(h2, l2, t2, i2, m2, e2)
  BY WorkSums
<1>2. \/ h2 < h /\ t2 \in {0, t} /\ m2 \in {m, m - 1} /\ l2 = l /\ i2 = i /\ e2 = e
      \/ h = 10 /\ h2 = 4 /\ l2 = 3 /\ t2 = 2 /\ i2 = i /\ m2 = m /\ e2 = e
      \/ h = 4 /\ h2 \in {4, 7} /\ m2 = m - 1 /\ l2 = l /\ t2 = t /\ i2 = i /\ e2 = e
      \/ h = 6 /\ h2 = 4 /\ t \in {1, 2} /\ t2 = 2 /\ l2 = l /\ i2 = i /\ m2 = m /\ e2 = e
      \/ h = 4 /\ h2 \in {3, 4} /\ e2 = e - 1 /\ l2 = l /\ t2 = t /\ i2 = i /\ m2 = m
  BY <1>1
<1>3. Total(h2, l2, t2, i2, m2, e2) < Total(h, l, t, i, m, e)
  BY <1>2, SMTT(30) DEF Total
<1>. QED
  BY <1>1, <1>3

\* The same for a step of the listener.
LEMMA ListenerMoves ==
  ASSUME TypeOK, TypeOK', NEW s \in Stream, UNCHANGED <<HandlerWork(s), TimerWork(s)>>,
         \/ /\ ListenerWork(s) = 3 /\ ListenerWork(s)' = 8 /\ Unread(s)' = Unread(s) - 1
            /\ UNCHANGED <<Msgs(s), Errs(s)>>
         \/ /\ ListenerWork(s) = 8 /\ ListenerWork(s)' = 3 /\ Msgs(s)' = Msgs(s) + 1
            /\ UNCHANGED <<Unread(s), Errs(s)>>
         \/ /\ \/ ListenerWork(s) = 3 /\ ListenerWork(s)' = 2 /\ Errs(s)' = Errs(s)
               \/ ListenerWork(s) = 2 /\ ListenerWork(s)' = 0 /\ Errs(s)' = Errs(s) + 1
               \/ ListenerWork(s) = 10 /\ ListenerWork(s)' = 8 /\ Errs(s)' = Errs(s) + 1
            /\ UNCHANGED <<Unread(s), Msgs(s)>>
  PROVE  Work(s)' < Work(s)
<1>1. PICK h, l, t, i, m, e, h2, l2, t2, i2, m2, e2 \in Nat :
        /\ h = HandlerWork(s) /\ l = ListenerWork(s) /\ t = TimerWork(s)
        /\ i = Unread(s) /\ m = Msgs(s) /\ e = Errs(s)
        /\ h2 = HandlerWork(s)' /\ l2 = ListenerWork(s)' /\ t2 = TimerWork(s)'
        /\ i2 = Unread(s)' /\ m2 = Msgs(s)' /\ e2 = Errs(s)'
        /\ Work(s) = Total(h, l, t, i, m, e) /\ Work(s)' = Total(h2, l2, t2, i2, m2, e2)
  BY WorkSums
<1>2. /\ h2 = h /\ t2 = t
      /\ \/ l = 3 /\ l2 = 8 /\ i2 = i - 1 /\ m2 = m /\ e2 = e
         \/ l = 8 /\ l2 = 3 /\ m2 = m + 1 /\ i2 = i /\ e2 = e
         \/ /\ \/ l = 3 /\ l2 = 2 /\ e2 = e
               \/ l = 2 /\ l2 = 0 /\ e2 = e + 1
               \/ l = 10 /\ l2 = 8 /\ e2 = e + 1
            /\ i2 = i /\ m2 = m
  BY <1>1
<1>3. Total(h2, l2, t2, i2, m2, e2) < Total(h, l, t, i, m, e)
  BY <1>2, SMTT(30) DEF Total
<1>. QED
  BY <1>1, <1>3

\* Where no part of the work grows, it does not grow, and where the timer's part alone falls,
\* it falls.
LEMMA PartsMove ==
  ASSUME TypeOK, TypeOK', NEW s \in Stream,
         HandlerWork(s)' \in {0, HandlerWork(s)}, ListenerWork(s)' \in {0, ListenerWork(s)},
         TimerWork(s)' \in {0, 1, TimerWork(s)}, TimerWork(s)' = 1 => TimerWork(s) \in {1, 2},
         Unread(s)' \in {0, Unread(s)}, Msgs(s)' \in {0, Msgs(s)}, Errs(s)' \in {0, Errs(s)}
  PROVE  /\ Work(s)' <= Work(s)
         /\ TimerWork(s)' # TimerWork(s) => Work(s)' < Work(s)
<1>1. PICK h, l, t, i, m, e, h2, l2, t2, i2, m2, e2 \in Nat :
        /\ h = HandlerWork(s) /\ l = ListenerWork(s) /\ t = TimerWork(s)
        /\ i = Unread(s) /\ m = Msgs(s) /\ e = Errs(s)
        /\ h2 = HandlerWork(s)' /\ l2 = ListenerWork(s)' /\ t2 = TimerWork(s)'
        /\ i2 = Unread(s)' /\ m2 = Msgs(s)' /\ e2 = Errs(s)'
        /\ Work(s) = Total(h, l, t, i, m, e) /\ Work(s)' = Total(h2, l2, t2, i2, m2, e2)
  BY WorkSums
<1>2. /\ h2 \in {0, h} /\ l2 \in {0, l} /\ t2 \in {0, 1, t} /\ (t2 = 1 => t \in {1, 2})
      /\ i2 \in {0, i} /\ m2 \in {0, m} /\ e2 \in {0, e}
  BY <1>1
<1>3. /\ Total(h2, l2, t2, i2, m2, e2) <= Total(h, l, t, i, m, e)
      /\ t2 # t => Total(h2, l2, t2, i2, m2, e2) < Total(h, l, t, i, m, e)
  BY <1>2, SMTT(30) DEF Total
<1>. QED
  BY <1>1, <1>3

\* Every step of the handler lowers the work of its stream.
LEMMA HandlerWorks ==
  ASSUME TypeOK, TypeOK', NEW s \in Stream, Handler(s)
  PROVE  Work(s)' < Work(s)
<1>. USE DEF Unread, Msgs, Errs
<1>1. CASE PeerUnknown(s) \/ CacheHit(s) \/ CacheMiss(s)
  <2>1. /\ handler[s] = "resolve" /\ handler'[s] \in {"arp", "register", "closeErr"}
        /\ UNCHANGED <<timer, listener, inbox, msgChan, errChan>>
    BY <1>1 DEF PeerUnknown, CacheHit, CacheMiss, TypeOK
  <2>2. HandlerWork(s)' < HandlerWork(s)
    BY <2>1, SMTT(30) DEF HandlerWork
  <2>. QED
    BY <2>1, <2>2, HandlerMoves DEF ListenerWork, TimerWork
<1>2. CASE Register(s) \/ Report(s) \/ CloseErrChan(s) \/ CloseMsgChan(s)
  <2>1. /\ <<handler[s], handler'[s]>> \in {<<"register", "spawn">>, <<"report", "rearm">>,
                                             <<"closeErr", "closeMsg">>, <<"closeMsg", "returned">>}
        /\ UNCHANGED <<timer, listener, inbox, msgChan, errChan>>
    BY <1>2 DEF Register, Report, CloseErrChan, CloseMsgChan, TypeOK
  <2>2. HandlerWork(s)' < HandlerWork(s)
    BY <2>1, SMTT(30) DEF HandlerWork
  <2>. QED
    BY <2>1, <2>2, HandlerMoves DEF ListenerWork, TimerWork
<1>3. CASE Spawn(s)
  <2>1. /\ handler[s] = "spawn" /\ handler'[s] = "select" /\ listener'[s] = "recv"
        /\ timer'[s] = "armed" /\ UNCHANGED <<inbox, msgChan, errChan>>
    BY <1>3 DEF Spawn, TypeOK
  <2>2. HandlerWork(s) = 10 /\ HandlerWork(s)' = 4
    BY <2>1, SMTT(30) DEF HandlerWork
  <2>3. ListenerWork(s)' = 3 /\ TimerWork(s)' = 2
    BY <2>1, SMTT(30) DEF ListenerWork, TimerWork
  <2>. QED
    BY <2>1, <2>2, <2>3, HandlerMoves
<1>4. ASSUME TakeMsg(s)
      PROVE  /\ HandlerWork(s) = 4 /\ Msgs(s)' = Msgs(s) - 1
             /\ UNCHANGED <<ListenerWork(s), Unread(s), Errs(s)>>
  <2>1. /\ handler[s] = "select" /\ msgChan[s] # <<>> /\ msgChan'[s] = Tail(msgChan[s])
        /\ UNCHANGED <<listener, inbox, errChan>>
    BY <1>4 DEF TakeMsg, TypeOK
  <2>2. Len(msgChan'[s]) = Len(msgChan[s]) - 1
    BY <2>1, MsgChanType, TailType
  <2>3. HandlerWork(s) = 4
    BY <2>1, SMTT(30) DEF HandlerWork
  <2>. QED
    BY <2>1, <2>2, <2>3 DEF ListenerWork
<1>5. CASE SelectNotServing(s) \/ SelectServing(s)
  <2>1. TakeMsg(s) /\ handler'[s] \in {handler[s], "report"} /\ UNCHANGED timer
    BY <1>5 DEF SelectNotServing, SelectServing, TypeOK
  <2>2. HandlerWork(s)' \in {HandlerWork(s), 7} /\ UNCHANGED TimerWork(s)
    BY <2>1, SMTT(30) DEF HandlerWork, TimerWork
  <2>. QED
    BY <1>4, <2>1, <2>2, HandlerMoves
<1>6. CASE SelectShuttingDown(s)
  <2>1. TakeMsg(s) /\ handler'[s] = "closeErr" /\ timer'[s] = "off"
    BY <1>6 DEF SelectShuttingDown, TypeOK
  <2>2. HandlerWork(s)' < HandlerWork(s) /\ TimerWork(s)' = 0
    BY <1>4, <2>1, SMTT(30) DEF HandlerWork, TimerWork
  <2>. QED
    BY <1>4, <2>1, <2>2, HandlerMoves
<1>7. CASE SelectTimer(s) \/ Fail(s)
  <2>1. /\ <<handler[s], handler'[s]>> \in {<<"select", "fail">>, <<"fail", "closeErr">>}
        /\ timer'[s] \in {"consumed", "off"} /\ UNCHANGED <<listener, inbox, msgChan, errChan>>
    BY <1>7 DEF SelectTimer, Fail, TypeOK
  <2>2. HandlerWork(s)' < HandlerWork(s) /\ TimerWork(s)' = 0
    BY <2>1, SMTT(30) DEF HandlerWork, TimerWork
  <2>. QED
    BY <2>1, <2>2, HandlerMoves DEF ListenerWork
<1>8. CASE Rearm(s)
  <2>1. /\ handler[s] = "rearm" /\ handler'[s] = "select"
        /\ timer[s] \in {"armed", "fired"} /\ timer'[s] = "armed"
        /\ UNCHANGED <<listener, inbox, msgChan, errChan>>
    BY <1>8 DEF Rearm, TypeOK
  <2>2. HandlerWork(s) = 6 /\ HandlerWork(s)' = 4
    BY <2>1, SMTT(30) DEF HandlerWork
  <2>3. TimerWork(s) \in {1, 2} /\ TimerWork(s)' = 2
    BY <2>1, SMTT(30) DEF TimerWork
  <2>. QED
    BY <2>1, <2>2, <2>3, HandlerMoves DEF ListenerWork
<1>9. CASE SelectErr(s)
  <2>1. /\ handler[s] = "select" /\ handler'[s] \in {"select", "fail"}
        /\ errChan[s] # <<>> /\ errChan'[s] = Tail(errChan[s])
        /\ UNCHANGED <<timer, listener, inbox, msgChan>>
    BY <1>9 DEF SelectErr, TypeOK
  <2>2. Len(errChan'[s]) = Len(errChan[s]) - 1
    BY <2>1, TailType DEF TypeOK
  <2>3. HandlerWork(s) = 4 /\ HandlerWork(s)' \in {3, 4}
    BY <2>1, SMTT(30) DEF HandlerWork
  <2>. QED
    BY <2>1, <2>2, <2>3, HandlerMoves DEF ListenerWork, TimerWork
<1>. QED
  BY <1>1, <1>2, <1>3, <1>5, <1>6, <1>7, <1>8, <1>9 DEF Handler

\* Every step of the listener lowers the work of its stream, or is an io.EOF or a panic.
LEMMA ListenerWorks ==
  ASSUME TypeOK, TypeOK', NEW s \in Stream, Listener(s)
  PROVE  Work(s)' < Work(s) \/ eofs'[s] > eofs[s] \/ (lb' = "panicked" /\ Work(s)' = Work(s))
<1>. USE DEF Unread, Msgs, Errs
<1>1. CASE RecvStatus(s)
  <2>1. /\ listener[s] = "recv" /\ listener'[s] = "sendMsg"
        /\ inbox[s] # <<>> /\ inbox'[s] = Tail(inbox[s])
        /\ UNCHANGED <<handler, timer, msgChan, errChan>>
    BY <1>1 DEF RecvStatus, TypeOK
  <2>2. Len(inbox'[s]) = Len(inbox[s]) - 1
    BY <2>1, TailType DEF TypeOK
  <2>3. ListenerWork(s) = 3 /\ ListenerWork(s)' = 8
    BY <2>1, SMTT(30) DEF ListenerWork
  <2>. QED
    BY <2>1, <2>2, <2>3, ListenerMoves DEF HandlerWork, TimerWork
<1>2. CASE RecvEOF(s)
  BY <1>2, SMTT(30) DEF RecvEOF, TypeOK
<1>3. CASE RecvFatal(s)
  <2>1. /\ listener[s] = "recv" /\ listener'[s] = "sendFatal"
        /\ UNCHANGED <<handler, timer, inbox, msgChan, errChan>>
    BY <1>3 DEF RecvFatal, TypeOK
  <2>2. ListenerWork(s) = 3 /\ ListenerWork(s)' = 2
    BY <2>1, SMTT(30) DEF ListenerWork
  <2>. QED
    BY <2>1, <2>2, ListenerMoves DEF HandlerWork, TimerWork
<1>4. CASE SendFatal(s) \/ SendErr(s)
  <2>1. /\ <<listener[s], listener'[s]>> \in {<<"sendFatal", "done">>, <<"sendErr", "sendMsg">>}
        /\ \E err \in {Unrecoverable, Recoverable} : errChan'[s] = Append(errChan[s], err)
        /\ UNCHANGED <<handler, timer, inbox, msgChan>>
    BY <1>4 DEF SendFatal, SendErr, TypeOK
  <2>2. Len(errChan'[s]) = Len(errChan[s]) + 1
    <3>1. errChan[s] \in Seq({Unrecoverable, Recoverable})
      BY DEF TypeOK
    <3>. QED
      BY <2>1, <3>1, SMTT(30)
  <2>3. \/ ListenerWork(s) = 2 /\ ListenerWork(s)' = 0
        \/ ListenerWork(s) = 10 /\ ListenerWork(s)' = 8
    BY <2>1, SMTT(30) DEF ListenerWork
  <2>4. UNCHANGED <<HandlerWork(s), TimerWork(s)>>
    BY <2>1 DEF HandlerWork, TimerWork
  <2>. QED
    BY <2>1, <2>2, <2>3, <2>4, ListenerMoves
<1>5. CASE SendMsg(s)
  <2>1. /\ listener[s] = "sendMsg" /\ listener'[s] = "recv"
        /\ msgChan'[s] = Append(msgChan[s], req[s])
        /\ UNCHANGED <<handler, timer, inbox, errChan>>
    BY <1>5 DEF SendMsg, TypeOK
  <2>2. Len(msgChan'[s]) = Len(msgChan[s]) + 1
    <3>1. msgChan[s] \in Seq(Message) /\ req[s] \in Message
      BY DEF TypeOK
    <3>. QED
      BY <2>1, <3>1, SMTT(30)
  <2>3. ListenerWork(s) = 8 /\ ListenerWork(s)' = 3
    BY <2>1, SMTT(30) DEF ListenerWork
  <2>4. UNCHANGED <<HandlerWork(s), TimerWork(s)>>
    BY <2>1 DEF HandlerWork, TimerWork
  <2>. QED
    BY <2>1, <2>2, <2>3, <2>4, ListenerMoves
<1>6. CASE SendOnClosed(s)
  BY <1>6 DEF SendOnClosed, Work, HandlerWork, ListenerWork, TimerWork
<1>. QED
  BY <1>1, <1>2, <1>3, <1>4, <1>5, <1>6 DEF Listener

\* The expiry of the timer lowers the work of its stream.
LEMMA TimerWorks ==
  ASSUME TypeOK, TypeOK', NEW s \in Stream, TimerExpires(s)
  PROVE  Work(s)' < Work(s)
<1>1. /\ timer[s] = "armed" /\ timer'[s] = "fired"
      /\ UNCHANGED <<handler, listener, inbox, msgChan, errChan>>
  BY SMTT(30) DEF TimerExpires, TypeOK
<1>2. TimerWork(s) = 2 /\ TimerWork(s)' = 1 /\ TimerWork(s)' # TimerWork(s)
  BY <1>1, SMTT(30) DEF TimerWork
<1>3. UNCHANGED <<HandlerWork(s), ListenerWork(s), Unread(s), Msgs(s), Errs(s)>>
  BY <1>1 DEF HandlerWork, ListenerWork, Unread, Msgs, Errs
<1>. QED
  BY <1>2, <1>3, PartsMove

\* A step of another stream leaves the work of a stream as it is.
LEMMA OthersWork ==
  ASSUME TypeOK, NEW s \in Stream, NEW r \in Stream, r # s,
         Handler(s) \/ Listener(s) \/ TimerExpires(s) \/ Peer(s)
  PROVE  Work(r)' = Work(r)
<1>1. UNCHANGED <<handler[r], listener[r], timer[r]>>
  BY DEF Handler, Listener, TimerExpires, Peer, TypeOK, PeerUnknown, CacheHit, CacheMiss,
     Register, Spawn, TakeMsg, SelectNotServing, SelectShuttingDown, SelectServing, Report,
     Rearm, SelectErr, SelectTimer, Fail, CloseErrChan, CloseMsgChan, RecvStatus, RecvEOF,
     RecvFatal, SendFatal, SendErr, SendMsg, SendOnClosed, Open, NodeCloseSend, Disconnect,
     NodeSend, ArpAnswers, ArpFails
<1>2. UNCHANGED <<inbox[r], msgChan[r], errChan[r]>>
  BY DEF Handler, Listener, TimerExpires, Peer, TypeOK, PeerUnknown, CacheHit, CacheMiss,
     Register, Spawn, TakeMsg, SelectNotServing, SelectShuttingDown, SelectServing, Report,
     Rearm, SelectErr, SelectTimer, Fail, CloseErrChan, CloseMsgChan, RecvStatus, RecvEOF,
     RecvFatal, SendFatal, SendErr, SendMsg, SendOnClosed, Open, NodeCloseSend, Disconnect,
     NodeSend, ArpAnswers, ArpFails
<1>. QED
  BY <1>1, <1>2 DEF Work, HandlerWork, ListenerWork, TimerWork

\* Work is a number, so it grows only if it neither falls nor stays.
LEMMA WorkGrows ==
  ASSUME TypeOK, TypeOK', NEW s \in Stream
  PROVE  Work(s)' > Work(s) => ~(Work(s)' <= Work(s)) /\ ~(Work(s)' < Work(s)) /\ Work(s)' # Work(s)
<1>1. PICK h, l, t, i, m, e, h2, l2, t2, i2, m2, e2 \in Nat :
        /\ h = HandlerWork(s) /\ l = ListenerWork(s) /\ t = TimerWork(s)
        /\ i = Unread(s) /\ m = Msgs(s) /\ e = Errs(s)
        /\ h2 = HandlerWork(s)' /\ l2 = ListenerWork(s)' /\ t2 = TimerWork(s)'
        /\ i2 = Unread(s)' /\ m2 = Msgs(s)' /\ e2 = Errs(s)'
        /\ Work(s) = Total(h, l, t, i, m, e) /\ Work(s)' = Total(h2, l2, t2, i2, m2, e2)
  BY WorkSums
<1>. QED
  BY <1>1, SMTT(30) DEF Total

\* The node adds to the work of its stream by a status only.
LEMMA PeerWorks ==
  ASSUME TypeOK, TypeOK', NEW s \in Stream, Peer(s)
  PROVE  Work(s)' < Work(s) \/ Work(s)' = Work(s) \/ Len(sent'[s]) > Len(sent[s])
<1>1. CASE Open(s) \/ ArpAnswers(s) \/ ArpFails(s)
  <2>1. /\ \/ handler[s] = "idle" /\ handler'[s] = "resolve"
           \/ handler[s] = "arp" /\ handler'[s] \in {"register", "closeErr"}
        /\ UNCHANGED <<timer, listener, inbox, msgChan, errChan>>
    BY <1>1 DEF Open, ArpAnswers, ArpFails, TypeOK
  <2>2. HandlerWork(s)' < HandlerWork(s)
    BY <2>1, SMTT(30) DEF HandlerWork
  <2>3. UNCHANGED <<TimerWork(s), ListenerWork(s), Unread(s), Msgs(s), Errs(s)>>
    BY <2>1 DEF TimerWork, ListenerWork, Unread, Msgs, Errs
  <2>. QED
    BY <2>2, <2>3, HandlerMoves
<1>2. CASE NodeCloseSend(s) \/ Disconnect(s)
  BY <1>2 DEF NodeCloseSend, Disconnect, Work, HandlerWork, ListenerWork, TimerWork
<1>3. ASSUME NEW st \in Status, NodeSend(s, st)
      PROVE  Len(sent'[s]) > Len(sent[s])
  <2>1. sent[s] \in Seq(Status) /\ sent'[s] = Append(sent[s], st)
    BY <1>3 DEF NodeSend, TypeOK
  <2>. QED
    BY <2>1, SMTT(30)
<1>. QED
  BY <1>1, <1>2, <1>3 DEF Peer

\* A new process has nothing left to do for the streams of the old one.
LEMMA RestartWorks ==
  ASSUME TypeOK, TypeOK', NEW s \in Stream, Restart
  PROVE  Work(s)' <= Work(s)
<1>1. /\ handler'[s] \in {handler[s], "lost"} /\ listener'[s] = "none" /\ timer'[s] = "off"
      /\ inbox'[s] = <<>> /\ msgChan'[s] = <<>> /\ errChan'[s] = <<>>
  BY DEF Restart
<1>2. /\ HandlerWork(s)' \in {HandlerWork(s), 0} /\ ListenerWork(s)' = 0
      /\ TimerWork(s)' = 0 /\ TimerWork(s)' # 1
  BY <1>1, SMTT(30) DEF HandlerWork, ListenerWork, TimerWork
<1>3. Unread(s)' = 0 /\ Msgs(s)' = 0 /\ Errs(s)' = 0
  BY <1>1, SMTT(30) DEF Unread, Msgs, Errs
<1>. QED
  BY <1>2, <1>3, PartsMove

\* StreamsRunDown: every step of a handler, a listener or a timer lowers the work that is
\* left to its stream, io.EOF and panics apart, and only a status of the node or an io.EOF
\* raises it.
THEOREM RunsDown == Spec => StreamsRunDown
<1>. DEFINE Down == \A s \in Stream :
                      /\ Handler(s) \/ Listener(s) \/ TimerExpires(s) =>
                           Work(s)' < Work(s) \/ eofs'[s] > eofs[s] \/ lb' = "panicked"
                      /\ Work(s)' > Work(s) =>
                           Len(sent'[s]) > Len(sent[s]) \/ eofs'[s] > eofs[s]
<1>1. ASSUME TypeOK, TypeOK', NEW s \in Stream, Handler(s) \/ Listener(s) \/ TimerExpires(s)
      PROVE  Work(s)' < Work(s) \/ eofs'[s] > eofs[s] \/ lb' = "panicked"
  BY <1>1, HandlerWorks, ListenerWorks, TimerWorks
<1>2. ASSUME TypeOK, TypeOK', [Next]_vars, NEW r \in Stream, Work(r)' > Work(r)
      PROVE  Len(sent'[r]) > Len(sent[r]) \/ eofs'[r] > eofs[r]
  <2>0. ~(Work(r)' <= Work(r)) /\ ~(Work(r)' < Work(r)) /\ Work(r)' # Work(r)
    BY <1>2, WorkGrows
  <2>1. ASSUME NEW s \in Stream, Handler(s) \/ Listener(s) \/ TimerExpires(s) \/ Peer(s)
        PROVE  Len(sent'[r]) > Len(sent[r]) \/ eofs'[r] > eofs[r]
    <3>1. r = s
      BY <1>2, <2>0, <2>1, OthersWork
    <3>. QED
      BY <1>2, <2>0, <2>1, <3>1, HandlerWorks, ListenerWorks, TimerWorks, PeerWorks
  <2>2. CASE Restart
    BY <1>2, <2>0, <2>2, RestartWorks
  <2>3. CASE UNCHANGED vars
    BY <2>0, <2>3 DEF vars, managerVars, Work, HandlerWork, ListenerWork, TimerWork
  <2>. QED
    BY <1>2, <2>1, <2>2, <2>3 DEF Next, Finished
<1>3. TypeOK /\ TypeOK' /\ [Next]_vars => [Down]_vars
  BY <1>1, <1>2
<1>. QED
  BY <1>3, TypeCorrect, PTL DEF Spec, StreamsRunDown

=============================================================================
