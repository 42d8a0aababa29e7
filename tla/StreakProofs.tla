---------------------------- MODULE StreakProofs ----------------------------
(***************************************************************************)
(* The proof that a streak is earned (StreakIsEarned of NodeManager): the  *)
(* account of the health checks of a node.  A credit is a Serving status   *)
(* that a handler has taken, or an io.EOF; a debit is a check the registry *)
(* has counted, or one that is under way to it.                            *)
(***************************************************************************)
EXTENDS NodeManagerProofs

\* A leaf that names no prover is one for Zenon.
USE ZenonT(30)

-----------------------------------------------------------------------------
(* The accounts and their entries *)

\* A check under way: a handler that is about to report it, a nil request in the
\* listener's hand, a nil request on msgChan.
Reporting(k) == {s \in Stream : KeyOf[s] = k /\ handler[s] = "report"}
NilHeld(k) ==
  {s \in Stream : KeyOf[s] = k /\ \/ listener[s] = "sendErr"
                                  \/ listener[s] = "sendMsg" /\ req[s] = Nil}
NilQueued(k) ==
  {s \in Stream : KeyOf[s] = k /\ msgChan[s] # <<>> /\ Head(msgChan[s]) = Nil}

\* Nothing new is under way, and the streak does not grow.
KeepEntry(k) ==
  /\ ServingOf(handled, k)' = ServingOf(handled, k)
  /\ EOFsOf(k)' = EOFsOf(k)
  /\ Reporting(k)' \subseteq Reporting(k)
  /\ NilHeld(k)' \subseteq NilHeld(k)
  /\ NilQueued(k)' \subseteq NilQueued(k)
  /\ Checks(k)' <= Checks(k)

\* Recv returns io.EOF: the listener has a nil request in hand.
EOFEntry(k, s, p) ==
  /\ ServingOf(handled, k)' = ServingOf(handled, k)
  /\ p \notin EOFsOf(k) /\ EOFsOf(k)' = EOFsOf(k) \cup {p}
  /\ Reporting(k)' \subseteq Reporting(k)
  /\ NilHeld(k)' \subseteq NilHeld(k) \cup {s}
  /\ NilQueued(k)' \subseteq NilQueued(k)
  /\ Checks(k)' <= Checks(k)

\* The nil request goes from the listener's hand to msgChan.
SendEntry(k, s) ==
  /\ ServingOf(handled, k)' = ServingOf(handled, k)
  /\ EOFsOf(k)' = EOFsOf(k)
  /\ Reporting(k)' \subseteq Reporting(k)
  /\ s \in NilHeld(k) /\ NilHeld(k)' \subseteq NilHeld(k) \ {s}
  /\ NilQueued(k)' \subseteq NilQueued(k) \cup {s}
  /\ Checks(k)' <= Checks(k)

\* The handler takes a nil request for a Serving status.
TakeNilEntry(k, s) ==
  /\ ServingOf(handled, k)' = ServingOf(handled, k)
  /\ EOFsOf(k)' = EOFsOf(k)
  /\ Reporting(k)' \subseteq Reporting(k) \cup {s}
  /\ NilHeld(k)' \subseteq NilHeld(k)
  /\ s \in NilQueued(k) /\ NilQueued(k)' \subseteq NilQueued(k) \ {s}
  /\ Checks(k)' <= Checks(k)

\* The handler takes a Serving status.
TakeEntry(k, s, p) ==
  /\ p \notin ServingOf(handled, k) /\ ServingOf(handled, k)' = ServingOf(handled, k) \cup {p}
  /\ EOFsOf(k)' = EOFsOf(k)
  /\ Reporting(k)' \subseteq Reporting(k) \cup {s}
  /\ NilHeld(k)' \subseteq NilHeld(k)
  /\ NilQueued(k)' \subseteq NilQueued(k)
  /\ Checks(k)' <= Checks(k)

\* The handler reports a check: it is counted, or lost.
ReportEntry(k, s) ==
  /\ ServingOf(handled, k)' = ServingOf(handled, k)
  /\ EOFsOf(k)' = EOFsOf(k)
  /\ s \in Reporting(k) /\ Reporting(k)' \subseteq Reporting(k) \ {s}
  /\ NilHeld(k)' \subseteq NilHeld(k)
  /\ NilQueued(k)' \subseteq NilQueued(k)
  /\ Checks(k)' <= Checks(k) + 1

\* The load balancer starts anew, with an empty registry.
ClearEntry(k) ==
  /\ ServingOf(handled, k)' = {} /\ EOFsOf(k)' = {} /\ Reporting(k)' = {}
  /\ NilHeld(k)' = {} /\ NilQueued(k)' = {} /\ Checks(k)' = 0

Entry(k) ==
  \/ KeepEntry(k)
  \/ \E s, p : EOFEntry(k, s, p) \/ TakeEntry(k, s, p)
  \/ \E s : SendEntry(k, s) \/ TakeNilEntry(k, s) \/ ReportEntry(k, s)
  \/ ClearEntry(k)

-----------------------------------------------------------------------------
(* What the steps do to the checks under way *)

\* The listener of s has a nil request in hand; there is one on msgChan.
HoldsNil(s) == listener[s] = "sendErr" \/ (listener[s] = "sendMsg" /\ req[s] = Nil)
QueuesNil(s) == msgChan[s] # <<>> /\ Head(msgChan[s]) = Nil

\* The step brings no check under way on stream r.
Calm(r) ==
  /\ handled'[r] = handled[r] /\ eofs'[r] = eofs[r]
  /\ handler'[r] = "report" => handler[r] = "report"
  /\ HoldsNil(r)' => HoldsNil(r)
  /\ QueuesNil(r)' => QueuesNil(r)

\* A streak is a number, before and after a step.
LEMMA ChecksType ==
  ASSUME RegistryTypeOK, RegistryTypeOK', NEW k \in Key
  PROVE  Checks(k) \in Nat /\ Checks(k)' \in Nat
BY DEF RegistryTypeOK, Checks, Present, Node

\* What the handler takes off msgChan leaves it empty, and is in handled unless it is nil.
LEMMA TakeEffect ==
  ASSUME TypeOK, NEW s \in Stream, TakeMsg(s)
  PROVE  /\ ~QueuesNil(s)' /\ registry' = registry
         /\ \A r \in Stream \ {s} : QueuesNil(r)' <=> QueuesNil(r)
         /\ \A r \in Stream : (HoldsNil(r)' <=> HoldsNil(r)) /\ eofs'[r] = eofs[r]
         /\ \A r \in Stream \ {s} : handled'[r] = handled[r]
         /\ Head(msgChan[s]) = Nil => handled' = handled /\ QueuesNil(s)
         /\ Head(msgChan[s]) # Nil => handled'[s] = Append(handled[s], Head(msgChan[s]))
<1>1. msgChan[s] \in Seq(Message) /\ Len(msgChan[s]) <= 1 /\ msgChan[s] # <<>>
  BY DEF TypeOK, TakeMsg, ChannelBufferSize
<1>2. Tail(msgChan[s]) = <<>>
  BY <1>1, SMTT(30)
<1>3. msgChan' = [msgChan EXCEPT ![s] = <<>>]
  BY <1>2 DEF TakeMsg
<1>4. ~QueuesNil(s)' /\ \A r \in Stream \ {s} : QueuesNil(r)' <=> QueuesNil(r)
  BY <1>3 DEF QueuesNil, TypeOK
<1>5. \A r \in Stream : (HoldsNil(r)' <=> HoldsNil(r)) /\ eofs'[r] = eofs[r]
  BY DEF TakeMsg, listenerVars, HoldsNil
<1>6. \A r \in Stream \ {s} : handled'[r] = handled[r]
  BY DEF TakeMsg, TypeOK
<1>7. Head(msgChan[s]) = Nil => handled' = handled /\ QueuesNil(s)
  BY <1>1 DEF TakeMsg, QueuesNil
<1>8. Head(msgChan[s]) # Nil => handled'[s] = Append(handled[s], Head(msgChan[s]))
  BY DEF TakeMsg, TypeOK
<1>. QED
  BY <1>4, <1>5, <1>6, <1>7, <1>8 DEF TakeMsg

\* What the handler takes before a report: a nil request or a Serving status.
LEMMA ServingEffect ==
  ASSUME TypeOK, NEW s \in Stream, SelectServing(s)
  PROVE  /\ TakeMsg(s) /\ msgChan[s] # <<>>
         /\ \A r \in Stream \ {s} : handler'[r] = handler[r]
         /\ Head(msgChan[s]) # Nil => Head(msgChan[s]) = Serving /\ Serving \in Status
<1>1. TakeMsg(s) /\ msgChan[s] # <<>>
  BY DEF SelectServing, TakeMsg
<1>2. Head(msgChan[s]) \in Message
  BY <1>1, TailType DEF TypeOK
<1>3. Head(msgChan[s]) # Nil => Head(msgChan[s]) = Serving /\ Serving \in Status
  BY <1>2 DEF SelectServing, GetStatus, Message, Status
<1>4. \A r \in Stream \ {s} : handler'[r] = handler[r]
  BY DEF SelectServing, TypeOK
<1>. QED
  BY <1>1, <1>3, <1>4

\* What an io.EOF changes: the listener of its stream, and the count.
LEMMA EOFEffect ==
  ASSUME TypeOK, NEW s \in Stream, RecvEOF(s)
  PROVE  /\ eofs[s] \in Nat /\ eofs[s] < MaxEOF /\ eofs'[s] = eofs[s] + 1
         /\ UNCHANGED <<registry, handler, handled, msgChan>>
         /\ \A r \in Stream \ {s} : UNCHANGED <<eofs[r], listener[r], req[r]>>
<1>1. eofs[s] \in Nat /\ eofs[s] < MaxEOF /\ eofs'[s] = eofs[s] + 1
  BY DEF RecvEOF, TypeOK
<1>2. UNCHANGED <<registry, handler, handled, msgChan>>
  BY DEF RecvEOF, handlerVars, chanVars
<1>3. \A r \in Stream \ {s} : UNCHANGED <<eofs[r], listener[r], req[r]>>
  BY DEF RecvEOF, TypeOK
<1>. QED
  BY <1>1, <1>2, <1>3

\* The credits of a node are those of its streams.
LEMMA CreditsKept ==
  ASSUME NEW k
  PROVE  /\ (\A r \in Stream : KeyOf[r] = k => handled'[r] = handled[r])
              => ServingOf(handled, k)' = ServingOf(handled, k)
         /\ (\A r \in Stream : KeyOf[r] = k => eofs'[r] = eofs[r])
              => EOFsOf(k)' = EOFsOf(k)
<1>1. ASSUME \A r \in Stream : KeyOf[r] = k => handled'[r] = handled[r]
      PROVE  ServingOf(handled, k)' = ServingOf(handled, k)
  BY <1>1 DEF ServingOf
<1>2. ASSUME \A r \in Stream : KeyOf[r] = k => eofs'[r] = eofs[r]
      PROVE  EOFsOf(k)' = EOFsOf(k)
  BY <1>2 DEF EOFsOf
<1>. QED
  BY <1>1, <1>2

\* The positions of a sequence with one status more.
LEMMA AppendAt ==
  ASSUME NEW q \in Seq(Status), NEW e \in Status
  PROVE  /\ Len(q) \in Nat /\ DOMAIN q = 1 .. Len(q)
         /\ DOMAIN Append(q, e) = 1 .. Len(q) + 1
         /\ \A i \in 1 .. Len(q) : Append(q, e)[i] = q[i]
         /\ Append(q, e)[Len(q) + 1] = e
BY SMTT(30)

\* A status other than Serving is no credit; a Serving one is, at the next position.
LEMMA ServingAppend ==
  ASSUME TypeOK, NEW s \in Stream, NEW e \in Status, NEW k \in Key,
         handled'[s] = Append(handled[s], e),
         \A r \in Stream \ {s} : handled'[r] = handled[r]
  PROVE  /\ e # Serving \/ KeyOf[s] # k => ServingOf(handled, k)' = ServingOf(handled, k)
         /\ e = Serving /\ KeyOf[s] = k /\ Len(handled[s]) < MaxSent =>
              /\ <<s, Len(handled[s]) + 1>> \notin ServingOf(handled, k)
              /\ ServingOf(handled, k)' =
                   ServingOf(handled, k) \cup {<<s, Len(handled[s]) + 1>>}
<1>. DEFINE n == Len(handled[s])
<1>1. /\ n \in Nat /\ DOMAIN handled[s] = 1 .. n
      /\ DOMAIN handled'[s] = 1 .. n + 1
      /\ \A i \in 1 .. n : handled'[s][i] = handled[s][i]
      /\ handled'[s][n + 1] = e
  BY AppendAt, SMTT(30) DEF TypeOK
<1>. HIDE DEF n
<1>2. ASSUME e # Serving \/ KeyOf[s] # k, NEW p \in Stream \X (1 .. MaxSent)
      PROVE  p \in ServingOf(handled, k)' <=> p \in ServingOf(handled, k)
  <2>1. CASE p[1] = s
    BY <1>1, <1>2, <2>1, SMTT(30) DEF ServingOf
  <2>2. CASE p[1] # s
    BY <2>2 DEF ServingOf
  <2>. QED
    BY <2>1, <2>2
<1>3. ASSUME e = Serving, KeyOf[s] = k, n < MaxSent
      PROVE  /\ <<s, n + 1>> \notin ServingOf(handled, k)
             /\ ServingOf(handled, k)' = ServingOf(handled, k) \cup {<<s, n + 1>>}
  <2>1. <<s, n + 1>> \in Stream \X (1 .. MaxSent)
    BY <1>1, <1>3, BoundAssumption, SMTT(30)
  <2>2. <<s, n + 1>> \notin ServingOf(handled, k)
    BY <1>1, SMTT(30) DEF ServingOf
  <2>3. <<s, n + 1>> \in ServingOf(handled, k)'
    BY <2>1, <1>1, <1>3, SMTT(30) DEF ServingOf
  <2>4. ASSUME NEW p \in Stream \X (1 .. MaxSent), p # <<s, n + 1>>
        PROVE  p \in ServingOf(handled, k)' <=> p \in ServingOf(handled, k)
    <3>1. CASE p[1] = s
      <4>1. p[2] # n + 1
        BY <2>4, <3>1, SMTT(30)
      <4>. QED
        BY <1>1, <3>1, <4>1, SMTT(30) DEF ServingOf
    <3>2. CASE p[1] # s
      BY <3>2 DEF ServingOf
    <3>. QED
      BY <3>1, <3>2
  <2>5. /\ ServingOf(handled, k) \subseteq Stream \X (1 .. MaxSent)
        /\ ServingOf(handled, k)' \subseteq Stream \X (1 .. MaxSent)
    BY DEF ServingOf
  <2>. QED
    BY <2>1, <2>2, <2>3, <2>4, <2>5
<1>4. e # Serving \/ KeyOf[s] # k => ServingOf(handled, k)' = ServingOf(handled, k)
  <2>1. /\ ServingOf(handled, k) \subseteq Stream \X (1 .. MaxSent)
        /\ ServingOf(handled, k)' \subseteq Stream \X (1 .. MaxSent)
    BY DEF ServingOf
  <2>. QED
    BY <2>1, <1>2
<1>. QED
  BY <1>3, <1>4 DEF n

\* The steps that book something: an io.EOF, a message sent or taken, a report.
Books(s) ==
  \/ RecvEOF(s) \/ (SendMsg(s) /\ req[s] = Nil) \/ SelectServing(s)
  \/ SelectNotServing(s) \/ SelectShuttingDown(s) \/ Report(s)

\* Every other step of a stream is calm on all of them, and adds to no streak.
LEMMA CalmSteps ==
  ASSUME TypeOK, TypeOK', NEW s \in Stream,
         Handler(s) \/ Listener(s) \/ TimerExpires(s) \/ Peer(s), ~Books(s)
  PROVE  /\ \A r \in Stream : Calm(r)
         /\ \A k \in Key : Checks(k)' <= Checks(k)
<1>0. \A k \in Key : Checks(k) \in Nat
  BY ChecksType DEF TypeOK
<1>1. CASE registry' = registry
  <2>1. \A k \in Key : Checks(k)' <= Checks(k)
    BY <1>0, <1>1, RegistryUnchanged, SMTT(30)
  <2>2. CASE Listener(s) /\ ~SendMsg(s)
    <3>0. RecvStatus(s) \/ RecvFatal(s) \/ SendFatal(s) \/ SendErr(s) \/ SendOnClosed(s)
      BY <2>2 DEF Listener, Books
    <3>1. handled' = handled /\ eofs' = eofs /\ handler' = handler /\ msgChan' = msgChan
      BY <3>0 DEF RecvStatus, RecvFatal, SendFatal, SendErr, SendOnClosed, PutErr,
         handlerVars, listenerVars, chanVars
    <3>2. ASSUME NEW r \in Stream, HoldsNil(r)'
          PROVE  HoldsNil(r)
      <4>1. CASE RecvStatus(s)
        <5>1. Head(inbox[s]) \in Status
          BY <4>1, TailType DEF RecvStatus, TypeOK
        <5>2. req'[s] # Nil /\ listener'[s] = "sendMsg"
          BY <4>1, <5>1 DEF RecvStatus, TypeOK, Status, Nil, Serving,
             NotServing, ShuttingDown
        <5>3. r # s => listener'[r] = listener[r] /\ req'[r] = req[r]
          BY <4>1 DEF RecvStatus, TypeOK
        <5>. QED
          BY <3>2, <5>2, <5>3 DEF HoldsNil
      <4>2. CASE RecvFatal(s)
        BY <3>2, <4>2 DEF RecvFatal, TypeOK, HoldsNil
      <4>3. CASE SendFatal(s) \/ SendErr(s)
        BY <3>2, <4>3 DEF SendFatal, SendErr, PutErr, TypeOK, HoldsNil
      <4>4. CASE SendOnClosed(s)
        BY <3>2, <4>4 DEF SendOnClosed, listenerVars, HoldsNil
      <4>. QED
        BY <3>0, <4>1, <4>2, <4>3, <4>4
    <3>. QED
      BY <2>1, <3>1, <3>2 DEF Calm, QueuesNil
  <2>3. CASE SendMsg(s)
    <3>1. req[s] # Nil /\ handled' = handled /\ eofs' = eofs /\ handler' = handler
      BY <2>3, SendMsgEffect DEF Books
    <3>2. \A r \in Stream : HoldsNil(r)' => HoldsNil(r)
      BY <2>3, SendMsgEffect DEF HoldsNil
    <3>3. Head(msgChan'[s]) = req[s] /\ \A r \in Stream \ {s} : msgChan'[r] = msgChan[r]
      BY <2>3, SendMsgEffect
    <3>. QED
      BY <2>1, <3>1, <3>2, <3>3 DEF Calm, QueuesNil
  <2>4. CASE Handler(s) \/ TimerExpires(s) \/ Peer(s)
    <3>1. /\ handled' = handled /\ eofs' = eofs /\ msgChan' = msgChan /\ req' = req
          /\ listener' = listener \/ Spawn(s)
      BY <2>4 DEF Handler, Books, Peer, PeerUnknown, CacheHit, CacheMiss, ArpAnswers,
         ArpFails, Register, Spawn, Rearm, SelectErr, SelectTimer, Fail, CloseErrChan,
         CloseMsgChan, TimerExpires, Open, NodeSend, NodeCloseSend, Disconnect, Goto, GiveUp,
         handlerVars, listenerVars, chanVars
    <3>2. \A r \in Stream : HoldsNil(r)' => HoldsNil(r)
      BY <3>1 DEF Spawn, TypeOK, HoldsNil
    <3>3. \A r \in Stream : handler'[r] = "report" => handler[r] = "report"
      <4>1. \/ handler' = handler
            \/ handler' = [handler EXCEPT ![s] = "resolve"]
            \/ handler' = [handler EXCEPT ![s] = "arp"]
            \/ handler' = [handler EXCEPT ![s] = "register"]
            \/ handler' = [handler EXCEPT ![s] = "spawn"]
            \/ handler' = [handler EXCEPT ![s] = "select"]
            \/ handler' = [handler EXCEPT ![s] = "fail"]
            \/ handler' = [handler EXCEPT ![s] = "closeErr"]
            \/ handler' = [handler EXCEPT ![s] = "closeMsg"]
            \/ handler' = [handler EXCEPT ![s] = "returned"]
        BY <2>4 DEF Handler, Books, Peer, PeerUnknown, CacheHit, CacheMiss, ArpAnswers,
           ArpFails, Register, Spawn, Rearm, SelectErr, SelectTimer, Fail, CloseErrChan,
           CloseMsgChan, TimerExpires, Open, NodeSend, NodeCloseSend, Disconnect, Goto, GiveUp,
           Leave, handlerVars
      <4>. QED
        BY <4>1 DEF TypeOK
    <3>. QED
      BY <2>1, <3>1, <3>2, <3>3 DEF Calm, QueuesNil
  <2>. QED
    BY <2>2, <2>3, <2>4
<1>2. CASE registry' # registry
  <2>1. Register(s) \/ Fail(s)
    <3>1. ~Listener(s)
      BY <1>2 DEF Listener, RecvStatus, RecvEOF, RecvFatal, SendFatal, SendErr, SendMsg,
         SendOnClosed, PutErr
    <3>2. ~Peer(s) /\ ~TimerExpires(s)
      BY <1>2 DEF Peer, ArpAnswers, ArpFails, TimerExpires, Open, NodeSend, NodeCloseSend,
         Disconnect, GiveUp
    <3>3. Handler(s)
      BY <3>1, <3>2
    <3>. QED
      BY <1>2, <3>3 DEF Handler, Books, PeerUnknown, CacheHit, CacheMiss, Spawn,
         Rearm, SelectErr, SelectTimer, CloseErrChan, CloseMsgChan, GiveUp
  <2>2. \A r \in Stream : Calm(r)
    BY <2>1 DEF Register, Fail, Goto, listenerVars, chanVars, TypeOK, Calm, HoldsNil, QueuesNil
  <2>3. \A k \in Key : Checks(k)' <= Checks(k)
    BY <1>0, <2>1, RegisterEffect, FailureEffect, KeyOfAssumption, SMTT(30)
       DEF Register, Fail, TypeOK
  <2>. QED
    BY <2>2, <2>3
<1>. QED
  BY <1>1, <1>2

\* A step that books something is calm on every other stream and for every other node.
LEMMA BooksElsewhere ==
  ASSUME TypeOK, TypeOK', NEW s \in Stream, Books(s)
  PROVE  /\ \A r \in Stream \ {s} : Calm(r)
         /\ \A k \in Key \ {KeyOf[s]} : Checks(k)' = Checks(k)
<1>1. CASE RecvEOF(s)
  <2>1. /\ handled' = handled /\ handler' = handler /\ msgChan' = msgChan
        /\ \A r \in Stream \ {s} : UNCHANGED <<eofs[r], listener[r], req[r]>>
    BY <1>1, EOFEffect
  <2>2. \A r \in Stream \ {s} : Calm(r)
    BY <2>1 DEF Calm, HoldsNil, QueuesNil
  <2>. QED
    BY <1>1, <2>2, EOFEffect, RegistryUnchanged
<1>4. CASE SendMsg(s)
  <2>1. /\ handled' = handled /\ handler' = handler /\ eofs' = eofs
        /\ \A r \in Stream \ {s} : UNCHANGED <<msgChan[r], listener[r], req[r]>>
    BY <1>4, SendMsgEffect
  <2>2. \A r \in Stream \ {s} : Calm(r)
    BY <2>1 DEF Calm, HoldsNil, QueuesNil
  <2>. QED
    BY <1>4, <2>2, SendMsgEffect, RegistryUnchanged
<1>2. CASE SelectServing(s) \/ SelectNotServing(s) \/ SelectShuttingDown(s)
  <2>1. TakeMsg(s)
    BY <1>2 DEF SelectServing, SelectNotServing, SelectShuttingDown
  <2>2. \A r \in Stream \ {s} : handler'[r] = handler[r]
    BY <1>2 DEF SelectServing, SelectNotServing, SelectShuttingDown, Leave,
       handlerVars, TypeOK
  <2>3. \A r \in Stream \ {s} : Calm(r)
    BY <2>1, <2>2, TakeEffect DEF Calm
  <2>. QED
    BY <2>1, <2>3, RegistryUnchanged DEF TakeMsg
<1>3. CASE Report(s)
  <2>1. \A r \in Stream \ {s} : Calm(r)
    BY <1>3 DEF Report, Goto, listenerVars, chanVars, TypeOK, Calm, HoldsNil,
       QueuesNil
  <2>. QED
    BY <1>3, <2>1, ReportEffect, KeyOfAssumption DEF Report, TypeOK
<1>. QED
  BY <1>1, <1>2, <1>3, <1>4 DEF Books

\* No node sends more than the bound of the model.
SentBounded == \A s \in Stream : Len(sent[s]) <= MaxSent

\* Only NodeSend adds to what was sent, and a restart forgets it.
LEMMA SentChanges ==
  ASSUME [Next]_vars
  PROVE  sent' = sent \/ Restart \/ \E s \in Stream, st \in Status : NodeSend(s, st)
<1>1. ASSUME NEW s \in Stream, Handler(s) \/ TimerExpires(s)
      PROVE  sent' = sent
  BY <1>1 DEF Handler, PeerUnknown, CacheHit, CacheMiss, Register, Spawn, TakeMsg,
     SelectNotServing, SelectShuttingDown, SelectServing, Report, Rearm, SelectErr,
     SelectTimer, Fail, CloseErrChan, CloseMsgChan, TimerExpires, Goto, GiveUp, wireVars
<1>2. ASSUME NEW s \in Stream, Listener(s)
      PROVE  sent' = sent
  BY <1>2 DEF Listener, RecvStatus, RecvEOF, RecvFatal, SendFatal, SendErr, SendMsg,
     SendOnClosed, PutErr, wireVars
<1>3. ASSUME NEW s \in Stream, Peer(s), ~\E st \in Status : NodeSend(s, st)
      PROVE  sent' = sent
  BY <1>3 DEF Peer, Open, NodeCloseSend, Disconnect, ArpAnswers, ArpFails, Goto,
     GiveUp, wireVars
<1>. QED
  BY <1>1, <1>2, <1>3 DEF Next, Finished, vars, managerVars, wireVars

\* NodeSend keeps to the bound.
LEMMA SentStep == TypeOK /\ SentBounded /\ [Next]_vars => SentBounded'
<1>. SUFFICES ASSUME TypeOK, SentBounded, [Next]_vars, NEW r \in Stream
              PROVE  Len(sent'[r]) <= MaxSent
  BY DEF SentBounded
<1>1. Len(sent[r]) <= MaxSent
  BY DEF SentBounded
<1>2. ASSUME NEW s \in Stream, NEW st \in Status, NodeSend(s, st)
      PROVE  Len(sent'[r]) <= MaxSent
  <2>1. CASE r = s
    <3>1. sent'[r] = Append(sent[r], st) /\ Len(sent[r]) < MaxSent /\ sent[r] \in Seq(Status)
      BY <1>2, <2>1 DEF NodeSend, TypeOK
    <3>. QED
      BY <3>1, AppendType, BoundAssumption, SMTT(30)
  <2>2. CASE r # s
    BY <1>1, <1>2, <2>2 DEF NodeSend, TypeOK
  <2>. QED
    BY <2>1, <2>2
<1>3. CASE Restart
  BY <1>3, BoundAssumption, SMTT(30) DEF Restart
<1>. QED
  BY <1>1, <1>2, <1>3, SentChanges

\* A status on msgChan has a position within the bound once it is taken.
LEMMA RoomForTaken ==
  ASSUME TypeOK, StatusesInOrder, SentBounded, NEW s \in Stream,
         msgChan[s] # <<>>, Head(msgChan[s]) # Nil
  PROVE  Len(handled[s]) < MaxSent
<1>. DEFINE h == handled[s]
            q == Queued(s)
            c == Statuses(req[s])
            i == inbox[s]
<1>1. h \in Seq(Status) /\ q \in Seq(Status) /\ c \in Seq(Status) /\ i \in Seq(Status)
  BY PieceTypes
<1>2. Len(q) = 1
  BY DEF Queued, Statuses
<1>3. sent[s] = h \o q \o c \o i /\ Len(sent[s]) <= MaxSent
  BY DEF StatusesInOrder, SentBounded
<1>. HIDE DEF h, q, c, i
<1>4. Len(h \o q \o c \o i) = Len(h) + Len(q) + Len(c) + Len(i)
  BY <1>1, SMTT(30)
<1>5. Len(h) \in Nat /\ Len(c) \in Nat /\ Len(i) \in Nat
  BY <1>1, SMTT(30)
<1>. QED
  BY <1>2, <1>3, <1>4, <1>5, BoundAssumption, SMTT(30) DEF h

-----------------------------------------------------------------------------
(* Every step makes an entry *)

\* A step that brings no check under way on the streams of k is a Keep on the account of k.
LEMMA QuietStep ==
  ASSUME NEW k \in Key, Checks(k)' <= Checks(k),
         \A r \in Stream : KeyOf[r] = k => Calm(r)
  PROVE  KeepEntry(k)
<1>. USE DEF Calm
<1>1. ServingOf(handled, k)' = ServingOf(handled, k)
  BY CreditsKept
<1>2. EOFsOf(k)' = EOFsOf(k)
  BY CreditsKept
<1>3. Reporting(k)' \subseteq Reporting(k)
  BY DEF Reporting
<1>4. NilHeld(k)' \subseteq NilHeld(k)
  BY DEF NilHeld, HoldsNil
<1>5. NilQueued(k)' \subseteq NilQueued(k)
  BY DEF NilQueued, QueuesNil
<1>. QED
  BY <1>1, <1>2, <1>3, <1>4, <1>5 DEF KeepEntry

\* An io.EOF: one credit more, and a nil request in the listener's hand.
LEMMA EOFStep ==
  ASSUME TypeOK, TypeOK', NEW s \in Stream, RecvEOF(s), KeyOf[s] \in Key
  PROVE  \E p : EOFEntry(KeyOf[s], s, p)
<1>. DEFINE p == <<s, eofs[s] + 1>>
<1>1. /\ eofs[s] \in Nat /\ eofs[s] < MaxEOF /\ eofs'[s] = eofs[s] + 1
      /\ \A r \in Stream \ {s} : eofs'[r] = eofs[r]
  BY EOFEffect
<1>2. p \in Stream \X (1 .. MaxEOF)
  BY <1>1, BoundAssumption, SMTT(30)
<1>3. p \notin EOFsOf(KeyOf[s])
  BY <1>1, SMTT(30) DEF EOFsOf
<1>4. EOFsOf(KeyOf[s])' = EOFsOf(KeyOf[s]) \cup {p}
  <2>1. p \in EOFsOf(KeyOf[s])'
    BY <1>1, <1>2, SMTT(30) DEF EOFsOf
  <2>2. ASSUME NEW q \in Stream \X (1 .. MaxEOF), q # p
        PROVE  q \in EOFsOf(KeyOf[s])' <=> q \in EOFsOf(KeyOf[s])
    <3>1. CASE q[1] = s
      <4>1. q[2] # eofs[s] + 1
        BY <2>2, <3>1, SMTT(30)
      <4>. QED
        BY <1>1, <3>1, <4>1, SMTT(30) DEF EOFsOf
    <3>2. CASE q[1] # s
      BY <1>1, <3>2 DEF EOFsOf
    <3>. QED
      BY <3>1, <3>2
  <2>. QED
    BY <1>2, <2>1, <2>2 DEF EOFsOf
<1>5. /\ ServingOf(handled, KeyOf[s])' = ServingOf(handled, KeyOf[s])
      /\ Reporting(KeyOf[s])' \subseteq Reporting(KeyOf[s])
      /\ NilQueued(KeyOf[s])' \subseteq NilQueued(KeyOf[s])
  BY EOFEffect, CreditsKept DEF Reporting, NilQueued
<1>6. NilHeld(KeyOf[s])' \subseteq NilHeld(KeyOf[s]) \cup {s}
  BY EOFEffect DEF NilHeld
<1>7. Checks(KeyOf[s])' <= Checks(KeyOf[s])
  <2>1. Checks(KeyOf[s])' = Checks(KeyOf[s])
    BY EOFEffect, RegistryUnchanged
  <2>2. Checks(KeyOf[s]) \in Nat
    BY ChecksType DEF TypeOK
  <2>. QED
    BY <2>1, <2>2, SMTT(30)
<1>. HIDE DEF p
<1>. QED
  BY <1>3, <1>4, <1>5, <1>6, <1>7 DEF EOFEntry

\* The nil request goes from the listener's hand to msgChan.
LEMMA SendNilStep ==
  ASSUME TypeOK, TypeOK', NEW s \in Stream, SendMsg(s), req[s] = Nil,
         KeyOf[s] \in Key
  PROVE  SendEntry(KeyOf[s], s)
<1>1. /\ ServingOf(handled, KeyOf[s])' = ServingOf(handled, KeyOf[s])
      /\ EOFsOf(KeyOf[s])' = EOFsOf(KeyOf[s])
      /\ Reporting(KeyOf[s])' \subseteq Reporting(KeyOf[s])
  BY SendMsgEffect, CreditsKept DEF Reporting
<1>2. s \in NilHeld(KeyOf[s]) /\ NilHeld(KeyOf[s])' \subseteq NilHeld(KeyOf[s]) \ {s}
  BY SendMsgEffect DEF NilHeld
<1>3. NilQueued(KeyOf[s])' \subseteq NilQueued(KeyOf[s]) \cup {s}
  BY SendMsgEffect DEF NilQueued
<1>4. Checks(KeyOf[s])' <= Checks(KeyOf[s])
  <2>1. Checks(KeyOf[s])' = Checks(KeyOf[s])
    BY SendMsgEffect, RegistryUnchanged
  <2>2. Checks(KeyOf[s]) \in Nat
    BY ChecksType DEF TypeOK
  <2>. QED
    BY <2>1, <2>2, SMTT(30)
<1>. QED
  BY <1>1, <1>2, <1>3, <1>4 DEF SendEntry

\* The handler takes a nil request, or a Serving status, and will report it.
LEMMA ServingStep ==
  ASSUME TypeOK, TypeOK', NEW s \in Stream, SelectServing(s), KeyOf[s] \in Key,
         Head(msgChan[s]) # Nil => Len(handled[s]) < MaxSent
  PROVE  TakeNilEntry(KeyOf[s], s) \/ \E p : TakeEntry(KeyOf[s], s, p)
<1>0. TakeMsg(s)
  BY ServingEffect
<1>1. EOFsOf(KeyOf[s])' = EOFsOf(KeyOf[s])
  BY <1>0, TakeEffect, CreditsKept
<1>2. Reporting(KeyOf[s])' \subseteq Reporting(KeyOf[s]) \cup {s}
  BY ServingEffect DEF Reporting
<1>3. NilHeld(KeyOf[s])' \subseteq NilHeld(KeyOf[s])
  BY <1>0, TakeEffect DEF NilHeld, HoldsNil
<1>4. NilQueued(KeyOf[s])' \subseteq NilQueued(KeyOf[s]) \ {s}
  BY <1>0, TakeEffect DEF NilQueued, QueuesNil
<1>5. Checks(KeyOf[s])' <= Checks(KeyOf[s])
  BY <1>0, ChecksType, RegistryUnchanged, SMTT(30) DEF TakeMsg, TypeOK
<1>6. CASE Head(msgChan[s]) = Nil
  <2>1. s \in NilQueued(KeyOf[s])
    BY <1>0, <1>6, TakeEffect DEF NilQueued, QueuesNil
  <2>2. ServingOf(handled, KeyOf[s])' = ServingOf(handled, KeyOf[s])
    BY <1>0, <1>6, TakeEffect, CreditsKept
  <2>. QED
    BY <1>1, <1>2, <1>3, <1>4, <1>5, <2>1, <2>2 DEF TakeNilEntry
<1>7. CASE Head(msgChan[s]) # Nil
  <2>1. Head(msgChan[s]) = Serving /\ Serving \in Status
    BY <1>7, ServingEffect
  <2>2. /\ handled'[s] = Append(handled[s], Serving)
        /\ \A r \in Stream \ {s} : handled'[r] = handled[r]
    BY <1>0, <1>7, <2>1, TakeEffect
  <2>3. PICK p : p \notin ServingOf(handled, KeyOf[s]) /\
                 ServingOf(handled, KeyOf[s])' = ServingOf(handled, KeyOf[s]) \cup {p}
    BY <1>7, <2>1, <2>2, ServingAppend
  <2>. QED
    BY <1>1, <1>2, <1>3, <1>4, <1>5, <2>3 DEF TakeEntry
<1>. QED
  BY <1>6, <1>7

\* NotServing and ShuttingDown are taken and counted for nothing.
LEMMA OtherStatusStep ==
  ASSUME TypeOK, TypeOK', NEW s \in Stream, SelectNotServing(s) \/ SelectShuttingDown(s),
         KeyOf[s] \in Key
  PROVE  KeepEntry(KeyOf[s])
<1>0. TakeMsg(s)
  BY DEF SelectNotServing, SelectShuttingDown
<1>1. EOFsOf(KeyOf[s])' = EOFsOf(KeyOf[s])
  BY <1>0, TakeEffect, CreditsKept
<1>2. Reporting(KeyOf[s])' \subseteq Reporting(KeyOf[s])
  BY DEF SelectNotServing, SelectShuttingDown, handlerVars, Leave, TypeOK, Reporting
<1>3. NilHeld(KeyOf[s])' \subseteq NilHeld(KeyOf[s])
  BY <1>0, TakeEffect DEF NilHeld, HoldsNil
<1>4. NilQueued(KeyOf[s])' \subseteq NilQueued(KeyOf[s])
  BY <1>0, TakeEffect DEF NilQueued, QueuesNil
<1>5. Checks(KeyOf[s])' <= Checks(KeyOf[s])
  BY <1>0, ChecksType, RegistryUnchanged, SMTT(30) DEF TakeMsg, TypeOK
<1>6. /\ Head(msgChan[s]) \in Status /\ Head(msgChan[s]) # Serving
      /\ Head(msgChan[s]) # Nil
  BY DEF SelectNotServing, SelectShuttingDown, GetStatus, Nil, Status, Serving, NotServing,
         ShuttingDown
<1>7. /\ handled'[s] = Append(handled[s], Head(msgChan[s]))
      /\ \A r \in Stream \ {s} : handled'[r] = handled[r]
  BY <1>0, <1>6, TakeEffect
<1>8. ServingOf(handled, KeyOf[s])' = ServingOf(handled, KeyOf[s])
  BY <1>6, <1>7, ServingAppend
<1>. QED
  BY <1>1, <1>2, <1>3, <1>4, <1>5, <1>8 DEF KeepEntry

\* A report: the check under way becomes a check counted, or is lost.
LEMMA ReportStep ==
  ASSUME TypeOK, TypeOK', NEW s \in Stream, Report(s), KeyOf[s] \in Key
  PROVE  ReportEntry(KeyOf[s], s)
<1>1. /\ ServingOf(handled, KeyOf[s])' = ServingOf(handled, KeyOf[s])
      /\ EOFsOf(KeyOf[s])' = EOFsOf(KeyOf[s])
      /\ NilHeld(KeyOf[s])' \subseteq NilHeld(KeyOf[s])
      /\ NilQueued(KeyOf[s])' \subseteq NilQueued(KeyOf[s])
  <2>1. UNCHANGED <<handled, eofs, listener, req, msgChan>>
    BY DEF Report, Goto, listenerVars, chanVars
  <2>. QED
    BY <2>1, CreditsKept DEF NilHeld, NilQueued
<1>2. s \in Reporting(KeyOf[s]) /\ Reporting(KeyOf[s])' \subseteq Reporting(KeyOf[s]) \ {s}
  BY DEF Report, Goto, TypeOK, Reporting
<1>3. Checks(KeyOf[s])' <= Checks(KeyOf[s]) + 1
  <2>1. Checks(KeyOf[s]) \in Nat
    BY ChecksType DEF TypeOK
  <2>2. Checks(KeyOf[s])' = IF Present(KeyOf[s]) THEN Checks(KeyOf[s]) + 1 ELSE Checks(KeyOf[s])
    BY ReportEffect DEF Report, TypeOK
  <2>. QED
    BY <2>1, <2>2, SMTT(30)
<1>. QED
  BY <1>1, <1>2, <1>3 DEF ReportEntry

\* Every step makes an entry on the account of every node.
LEMMA EntryStep ==
  ASSUME TypeOK, TypeOK', StatusesInOrder, SentBounded, [Next]_vars, NEW k \in Key
  PROVE  Entry(k)
<1>1. ASSUME NEW s \in Stream, Handler(s) \/ Listener(s) \/ TimerExpires(s) \/ Peer(s),
             ~Books(s)
      PROVE  KeepEntry(k)
  BY <1>1, CalmSteps, QuietStep
<1>2. ASSUME NEW s \in Stream, Books(s), KeyOf[s] # k
      PROVE  KeepEntry(k)
  <2>1. /\ \A r \in Stream : KeyOf[r] = k => Calm(r)
        /\ Checks(k)' = Checks(k)
    BY <1>2, BooksElsewhere
  <2>2. Checks(k)' <= Checks(k)
    BY <2>1, ChecksType, SMTT(30) DEF TypeOK
  <2>. QED
    BY <2>1, <2>2, QuietStep
<1>3. ASSUME NEW s \in Stream, Books(s), KeyOf[s] = k
      PROVE  Entry(k)
  <2>1. CASE RecvEOF(s)
    BY <1>3, <2>1, EOFStep DEF Entry
  <2>2. CASE SendMsg(s) /\ req[s] = Nil
    BY <1>3, <2>2, SendNilStep DEF Entry
  <2>3. CASE SelectServing(s)
    <3>1. Head(msgChan[s]) # Nil => Len(handled[s]) < MaxSent
      BY <2>3, ServingEffect, RoomForTaken
    <3>. QED
      BY <1>3, <2>3, <3>1, ServingStep DEF Entry
  <2>4. CASE SelectNotServing(s) \/ SelectShuttingDown(s)
    BY <1>3, <2>4, OtherStatusStep DEF Entry
  <2>5. CASE Report(s)
    BY <1>3, <2>5, ReportStep DEF Entry
  <2>. QED
    BY <1>3, <2>1, <2>2, <2>3, <2>4, <2>5 DEF Books
<1>4. CASE Restart
  <2>1. \A r \in Stream : handler'[r] # "report"
    BY <1>4 DEF Restart
  <2>2. /\ ServingOf(handled, k)' = {} /\ EOFsOf(k)' = {} /\ Reporting(k)' = {}
        /\ NilHeld(k)' = {} /\ NilQueued(k)' = {}
    BY <1>4, <2>1, SMTT(30) DEF Restart, ServingOf, EOFsOf, Reporting, NilHeld, NilQueued
  <2>3. Checks(k)' = 0
    BY <1>4 DEF Restart, Checks, Present
  <2>. QED
    BY <2>2, <2>3 DEF Entry, ClearEntry
<1>5. CASE UNCHANGED vars
  <2>1. /\ \A r \in Stream : Calm(r)
        /\ registry' = registry
    BY <1>5 DEF vars, managerVars, handlerVars, listenerVars, chanVars, Calm, HoldsNil,
       QueuesNil
  <2>2. Checks(k)' <= Checks(k)
    BY <2>1, RegistryUnchanged, ChecksType, SMTT(30) DEF TypeOK
  <2>. QED
    BY <2>1, <2>2, QuietStep DEF Entry
<1>. QED
  BY <1>1, <1>2, <1>3, <1>4, <1>5 DEF Next, Finished, Entry

-----------------------------------------------------------------------------
(* Cardinalities of sets that change by one element *)

\* The library's facts about finite sets.
Sets == INSTANCE FiniteSetTheorems

\* They are about IsFiniteSet and Cardinality as NodeManager has them.
LEMMA SameSets ==
  \A S : /\ Sets!IsFiniteSet(S) <=> IsFiniteSet(S)
         /\ Sets!Cardinality(S) = Cardinality(S)
BY DEF IsFiniteSet, Cardinality, Sets!IsFiniteSet, Sets!Cardinality

\* The empty set, and the size of any finite set.
LEMMA SetSizes ==
  /\ IsFiniteSet({}) /\ Cardinality({}) = 0
  /\ \A S : IsFiniteSet(S) => Cardinality(S) \in Nat
BY SameSets, Sets!FS_EmptySet, Sets!FS_CardinalityType

\* A set S has become T, and both have a size.
Sized(S, T) == IsFiniteSet(T) /\ Cardinality(T) \in Nat /\ Cardinality(S) \in Nat

\* A set that has lost elements, or none.
LEMMA CardShrink ==
  ASSUME NEW S, IsFiniteSet(S), NEW T, T \subseteq S
  PROVE  Sized(S, T) /\ Cardinality(T) <= Cardinality(S)
BY SameSets, SetSizes, Sets!FS_Subset DEF Sized

\* A set that has one element less.
LEMMA CardLose ==
  ASSUME NEW S, IsFiniteSet(S), NEW x \in S, NEW T, T \subseteq S \ {x}
  PROVE  Sized(S, T) /\ Cardinality(T) + 1 <= Cardinality(S)
<1>1. IsFiniteSet(S \ {x}) /\ Cardinality(S \ {x}) = Cardinality(S) - 1
  BY SameSets, Sets!FS_RemoveElement
<1>2. Cardinality(S) \in Nat
  BY SetSizes
<1>. QED
  BY <1>1, <1>2, CardShrink, SMTT(30) DEF Sized

\* A set that may have one element more.
LEMMA CardGain ==
  ASSUME NEW S, IsFiniteSet(S), NEW x, NEW T, T \subseteq S \cup {x}
  PROVE  Sized(S, T) /\ Cardinality(T) <= Cardinality(S) + 1
<1>1. /\ IsFiniteSet(S \cup {x})
      /\ Cardinality(S \cup {x}) = IF x \in S THEN Cardinality(S) ELSE Cardinality(S) + 1
  BY SameSets, Sets!FS_AddElement
<1>2. Cardinality(S) \in Nat
  BY SetSizes
<1>3. IsFiniteSet(T) /\ Cardinality(T) \in Nat /\ Cardinality(T) <= Cardinality(S \cup {x})
  BY <1>1, CardShrink DEF Sized
<1>. QED
  BY <1>1, <1>2, <1>3, SMTT(30) DEF Sized

\* A set that has one element more.
LEMMA CardAdd ==
  ASSUME NEW S, IsFiniteSet(S), NEW x, x \notin S, NEW T, T = S \cup {x}
  PROVE  Sized(S, T) /\ Cardinality(T) = Cardinality(S) + 1
BY SameSets, SetSizes, Sets!FS_AddElement DEF Sized

-----------------------------------------------------------------------------
(* The account of a node *)

\* Only finitely much has happened to a node so far.
Finite(k) ==
  /\ IsFiniteSet(ServingOf(handled, k)) /\ IsFiniteSet(EOFsOf(k))
  /\ IsFiniteSet(Reporting(k)) /\ IsFiniteSet(NilHeld(k)) /\ IsFiniteSet(NilQueued(k))

Debit(k) ==
  Checks(k) + Cardinality(Reporting(k)) + Cardinality(NilHeld(k)) + Cardinality(NilQueued(k))
Credit(k) == Cardinality(ServingOf(handled, k)) + Cardinality(EOFsOf(k))

Balance(k) == Finite(k) /\ Debit(k) <= Credit(k)

Balanced == \A k \in Key : Balance(k)

-----------------------------------------------------------------------------
(* Every entry keeps the account balanced *)

\* Nothing new is under way, and the streak does not grow.
LEMMA BalanceKeep ==
  ASSUME NEW k \in Key, RegistryTypeOK, RegistryTypeOK', Balance(k), KeepEntry(k)
  PROVE  Balance(k)'
<1>. USE DEF Balance, Finite, KeepEntry
<1>1. /\ Sized(ServingOf(handled, k), ServingOf(handled, k)')
      /\ Cardinality(ServingOf(handled, k)') = Cardinality(ServingOf(handled, k))
  BY CardShrink
<1>2. /\ Sized(EOFsOf(k), EOFsOf(k)')
      /\ Cardinality(EOFsOf(k)') = Cardinality(EOFsOf(k))
  BY CardShrink
<1>3. /\ Sized(Reporting(k), Reporting(k)')
      /\ Cardinality(Reporting(k)') <= Cardinality(Reporting(k))
  BY CardShrink
<1>4. /\ Sized(NilHeld(k), NilHeld(k)')
      /\ Cardinality(NilHeld(k)') <= Cardinality(NilHeld(k))
  BY CardShrink
<1>5. /\ Sized(NilQueued(k), NilQueued(k)')
      /\ Cardinality(NilQueued(k)') <= Cardinality(NilQueued(k))
  BY CardShrink
<1>6. Checks(k) \in Nat /\ Checks(k)' \in Nat
  BY ChecksType
<1>. QED
  BY <1>1, <1>2, <1>3, <1>4, <1>5, <1>6, SMTT(30) DEF Sized, Debit, Credit

\* Recv returns io.EOF: the listener has a nil request in hand.
LEMMA BalanceEOF ==
  ASSUME NEW k \in Key, NEW s, NEW p, RegistryTypeOK, RegistryTypeOK', Balance(k), EOFEntry(k, s, p)
  PROVE  Balance(k)'
<1>. USE DEF Balance, Finite, EOFEntry
<1>1. /\ Sized(ServingOf(handled, k), ServingOf(handled, k)')
      /\ Cardinality(ServingOf(handled, k)') = Cardinality(ServingOf(handled, k))
  BY CardShrink
<1>2. /\ Sized(EOFsOf(k), EOFsOf(k)')
      /\ Cardinality(EOFsOf(k)') = Cardinality(EOFsOf(k)) + 1
  BY CardAdd
<1>3. /\ Sized(Reporting(k), Reporting(k)')
      /\ Cardinality(Reporting(k)') <= Cardinality(Reporting(k))
  BY CardShrink
<1>4. /\ Sized(NilHeld(k), NilHeld(k)')
      /\ Cardinality(NilHeld(k)') <= Cardinality(NilHeld(k)) + 1
  BY CardGain
<1>5. /\ Sized(NilQueued(k), NilQueued(k)')
      /\ Cardinality(NilQueued(k)') <= Cardinality(NilQueued(k))
  BY CardShrink
<1>6. Checks(k) \in Nat /\ Checks(k)' \in Nat
  BY ChecksType
<1>. QED
  BY <1>1, <1>2, <1>3, <1>4, <1>5, <1>6, SMTT(30) DEF Sized, Debit, Credit

\* The nil request goes from the listener's hand to msgChan.
LEMMA BalanceSend ==
  ASSUME NEW k \in Key, NEW s, RegistryTypeOK, RegistryTypeOK', Balance(k), SendEntry(k, s)
  PROVE  Balance(k)'
<1>. USE DEF Balance, Finite, SendEntry
<1>1. /\ Sized(ServingOf(handled, k), ServingOf(handled, k)')
      /\ Cardinality(ServingOf(handled, k)') = Cardinality(ServingOf(handled, k))
  BY CardShrink
<1>2. /\ Sized(EOFsOf(k), EOFsOf(k)')
      /\ Cardinality(EOFsOf(k)') = Cardinality(EOFsOf(k))
  BY CardShrink
<1>3. /\ Sized(Reporting(k), Reporting(k)')
      /\ Cardinality(Reporting(k)') <= Cardinality(Reporting(k))
  BY CardShrink
<1>4. /\ Sized(NilHeld(k), NilHeld(k)')
      /\ Cardinality(NilHeld(k)') + 1 <= Cardinality(NilHeld(k))
  BY CardLose
<1>5. /\ Sized(NilQueued(k), NilQueued(k)')
      /\ Cardinality(NilQueued(k)') <= Cardinality(NilQueued(k)) + 1
  BY CardGain
<1>6. Checks(k) \in Nat /\ Checks(k)' \in Nat
  BY ChecksType
<1>. QED
  BY <1>1, <1>2, <1>3, <1>4, <1>5, <1>6, SMTT(30) DEF Sized, Debit, Credit

\* The handler takes a nil request for a Serving status.
LEMMA BalanceTakeNil ==
  ASSUME NEW k \in Key, NEW s, RegistryTypeOK, RegistryTypeOK', Balance(k), TakeNilEntry(k, s)
  PROVE  Balance(k)'
<1>. USE DEF Balance, Finite, TakeNilEntry
<1>1. /\ Sized(ServingOf(handled, k), ServingOf(handled, k)')
      /\ Cardinality(ServingOf(handled, k)') = Cardinality(ServingOf(handled, k))
  BY CardShrink
<1>2. /\ Sized(EOFsOf(k), EOFsOf(k)')
      /\ Cardinality(EOFsOf(k)') = Cardinality(EOFsOf(k))
  BY CardShrink
<1>3. /\ Sized(Reporting(k), Reporting(k)')
      /\ Cardinality(Reporting(k)') <= Cardinality(Reporting(k)) + 1
  BY CardGain
<1>4. /\ Sized(NilHeld(k), NilHeld(k)')
      /\ Cardinality(NilHeld(k)') <= Cardinality(NilHeld(k))
  BY CardShrink
<1>5. /\ Sized(NilQueued(k), NilQueued(k)')
      /\ Cardinality(NilQueued(k)') + 1 <= Cardinality(NilQueued(k))
  BY CardLose
<1>6. Checks(k) \in Nat /\ Checks(k)' \in Nat
  BY ChecksType
<1>. QED
  BY <1>1, <1>2, <1>3, <1>4, <1>5, <1>6, SMTT(30) DEF Sized, Debit, Credit

\* The handler takes a Serving status.
LEMMA BalanceTake ==
  ASSUME NEW k \in Key, NEW s, NEW p, RegistryTypeOK, RegistryTypeOK', Balance(k),
         TakeEntry(k, s, p)
  PROVE  Balance(k)'
<1>. USE DEF Balance, Finite, TakeEntry
<1>1. /\ Sized(ServingOf(handled, k), ServingOf(handled, k)')
      /\ Cardinality(ServingOf(handled, k)') = Cardinality(ServingOf(handled, k)) + 1
  BY CardAdd
<1>2. /\ Sized(EOFsOf(k), EOFsOf(k)')
      /\ Cardinality(EOFsOf(k)') = Cardinality(EOFsOf(k))
  BY CardShrink
<1>3. /\ Sized(Reporting(k), Reporting(k)')
      /\ Cardinality(Reporting(k)') <= Cardinality(Reporting(k)) + 1
  BY CardGain
<1>4. /\ Sized(NilHeld(k), NilHeld(k)')
      /\ Cardinality(NilHeld(k)') <= Cardinality(NilHeld(k))
  BY CardShrink
<1>5. /\ Sized(NilQueued(k), NilQueued(k)')
      /\ Cardinality(NilQueued(k)') <= Cardinality(NilQueued(k))
  BY CardShrink
<1>6. Checks(k) \in Nat /\ Checks(k)' \in Nat
  BY ChecksType
<1>. QED
  BY <1>1, <1>2, <1>3, <1>4, <1>5, <1>6, SMTT(30) DEF Sized, Debit, Credit

\* The handler reports the check.
LEMMA BalanceReport ==
  ASSUME NEW k \in Key, NEW s, RegistryTypeOK, RegistryTypeOK', Balance(k), ReportEntry(k, s)
  PROVE  Balance(k)'
<1>. USE DEF Balance, Finite, ReportEntry
<1>1. /\ Sized(ServingOf(handled, k), ServingOf(handled, k)')
      /\ Cardinality(ServingOf(handled, k)') = Cardinality(ServingOf(handled, k))
  BY CardShrink
<1>2. /\ Sized(EOFsOf(k), EOFsOf(k)')
      /\ Cardinality(EOFsOf(k)') = Cardinality(EOFsOf(k))
  BY CardShrink
<1>3. /\ Sized(Reporting(k), Reporting(k)')
      /\ Cardinality(Reporting(k)') + 1 <= Cardinality(Reporting(k))
  BY CardLose
<1>4. /\ Sized(NilHeld(k), NilHeld(k)')
      /\ Cardinality(NilHeld(k)') <= Cardinality(NilHeld(k))
  BY CardShrink
<1>5. /\ Sized(NilQueued(k), NilQueued(k)')
      /\ Cardinality(NilQueued(k)') <= Cardinality(NilQueued(k))
  BY CardShrink
<1>6. Checks(k) \in Nat /\ Checks(k)' \in Nat
  BY ChecksType
<1>. QED
  BY <1>1, <1>2, <1>3, <1>4, <1>5, <1>6, SMTT(30) DEF Sized, Debit, Credit

\* An entry of any kind.
LEMMA EntryBalances ==
  ASSUME NEW k \in Key, RegistryTypeOK, RegistryTypeOK', Balance(k), Entry(k)
  PROVE  Balance(k)'
<1>1. ASSUME ClearEntry(k)
      PROVE  Balance(k)'
  BY <1>1, SetSizes, SMTT(30) DEF ClearEntry, Balance, Finite, Debit, Credit
<1>. QED
  BY <1>1, BalanceKeep, BalanceEOF, BalanceSend, BalanceTakeNil, BalanceTake, BalanceReport
     DEF Entry

-----------------------------------------------------------------------------
(* The account is always balanced *)

\* StreakIsEarned: a node's HealthChecks never exceeds the Serving statuses that
\* multiplexHealthStatus has taken from its streams and the io.EOF results its
\* listeners got, however the streams of the node interleave, fail and restart.
THEOREM StreakEarned == Spec => []StreakIsEarned
<1>1. Init => SentBounded
  BY BoundAssumption, SMTT(30) DEF Init, SentBounded
<1>2. Init => Balanced
  <2>. SUFFICES ASSUME Init, NEW k \in Key
                PROVE  Balance(k)
    BY DEF Balanced
  <2>1. /\ ServingOf(handled, k) = {} /\ EOFsOf(k) = {} /\ Reporting(k) = {}
        /\ NilHeld(k) = {} /\ NilQueued(k) = {} /\ Checks(k) = 0
    BY SMTT(30) DEF Init, RegistryInit, Checks, Present, ServingOf, EOFsOf, Reporting, NilHeld,
       NilQueued
  <2>. QED
    BY <2>1, SetSizes, SMTT(30) DEF Balance, Finite, Debit, Credit
<1>3. TypeOK /\ Balanced => StreakIsEarned
  <2>. SUFFICES ASSUME TypeOK, Balanced, NEW k \in Key
                PROVE  Checks(k) <= Credit(k)
    BY DEF StreakIsEarned, Credit
  <2>1. Finite(k) /\ Debit(k) <= Credit(k) /\ Checks(k) \in Nat
    BY DEF Balanced, Balance, TypeOK, RegistryTypeOK, Checks, Present, Node
  <2>2. /\ Cardinality(Reporting(k)) \in Nat /\ Cardinality(NilHeld(k)) \in Nat
        /\ Cardinality(NilQueued(k)) \in Nat
        /\ Cardinality(ServingOf(handled, k)) \in Nat /\ Cardinality(EOFsOf(k)) \in Nat
    BY <2>1, SetSizes DEF Finite
  <2>. QED
    BY <2>1, <2>2, SMTT(30) DEF Debit, Credit
<1>4. Spec => []SentBounded
  BY <1>1, TypeCorrect, SentStep, PTL DEF Spec
<1>5. TypeOK /\ TypeOK' /\ StatusesInOrder /\ SentBounded /\ Balanced /\ [Next]_vars => Balanced'
  BY EntryStep, EntryBalances DEF Balanced, TypeOK
<1>6. Spec => []Balanced
  BY <1>2, <1>4, <1>5, TypeCorrect, DeliveryInOrder, PTL DEF Spec
<1>. QED
  BY <1>3, <1>6, TypeCorrect, PTL

-----------------------------------------------------------------------------
(* Only io.EOF adds a check that no node has sent *)

\* Only finitely much has been sent so far, whatever the number of streams.
SentFinite == \A k \in Key : IsFiniteSet(ServingOf(sent, k))

\* A status that is sent is at most one Serving status more.
LEMMA SentFiniteStep ==
  TypeOK /\ SentFinite /\ [Next]_vars => SentFinite'
<1>. SUFFICES ASSUME TypeOK, SentFinite, [Next]_vars, NEW k \in Key
              PROVE  IsFiniteSet(ServingOf(sent, k)')
  BY DEF SentFinite
<1>0. IsFiniteSet(ServingOf(sent, k))
  BY DEF SentFinite
<1>1. ASSUME NEW s \in Stream, NEW st \in Status, NodeSend(s, st)
      PROVE  IsFiniteSet(ServingOf(sent, k)')
  <2>. DEFINE n == Len(sent[s])
  <2>1. /\ n \in Nat /\ DOMAIN sent[s] = 1 .. n /\ DOMAIN sent'[s] = 1 .. n + 1
        /\ \A i \in 1 .. n : sent'[s][i] = sent[s][i]
        /\ \A r \in Stream \ {s} : sent'[r] = sent[r]
    <3>1. /\ sent[s] \in Seq(Status) /\ sent'[s] = Append(sent[s], st)
          /\ \A r \in Stream \ {s} : sent'[r] = sent[r]
      BY <1>1 DEF NodeSend, TypeOK
    <3>. QED
      BY <3>1, AppendAt, SMTT(30)
  <2>. HIDE DEF n
  <2>2. ASSUME NEW p \in Stream \X (1 .. MaxSent), p # <<s, n + 1>>, p \in ServingOf(sent, k)'
        PROVE  p \in ServingOf(sent, k)
    <3>1. CASE p[1] = s
      <4>1. p[2] # n + 1
        BY <2>2, <3>1, SMTT(30)
      <4>. QED
        BY <2>1, <2>2, <3>1, <4>1, SMTT(30) DEF ServingOf
    <3>2. CASE p[1] # s
      BY <2>1, <2>2, <3>2 DEF ServingOf
    <3>. QED
      BY <3>1, <3>2
  <2>3. ServingOf(sent, k)' \subseteq Stream \X (1 .. MaxSent)
    BY DEF ServingOf
  <2>4. ServingOf(sent, k)' \subseteq ServingOf(sent, k) \cup {<<s, n + 1>>}
    BY <2>2, <2>3
  <2>. QED
    BY <1>0, <2>4, CardGain DEF Sized
<1>2. CASE Restart
  <2>1. ServingOf(sent, k)' = {}
    BY <1>2, SMTT(30) DEF Restart, ServingOf
  <2>. QED
    BY <2>1, SetSizes
<1>3. CASE sent' = sent
  BY <1>0, <1>3 DEF ServingOf
<1>. QED
  BY <1>1, <1>2, <1>3, SentChanges

\* What the handler has taken is the beginning of what the node has sent.
LEMMA TakenWasSent ==
  ASSUME TypeOK, StatusesInOrder, NEW k \in Key
  PROVE  ServingOf(handled, k) \subseteq ServingOf(sent, k)
<1>1. ASSUME NEW s \in Stream
      PROVE  \A i \in DOMAIN handled[s] : i \in DOMAIN sent[s] /\ sent[s][i] = handled[s][i]
  <2>. DEFINE h == handled[s]
              q == Queued(s)
              c == Statuses(req[s])
              x == inbox[s]
  <2>1. h \in Seq(Status) /\ q \in Seq(Status) /\ c \in Seq(Status) /\ x \in Seq(Status)
    BY PieceTypes
  <2>2. sent[s] = h \o q \o c \o x
    BY DEF StatusesInOrder
  <2>. HIDE DEF h, q, c, x
  <2>3. \A i \in DOMAIN h : i \in DOMAIN (h \o q \o c \o x) /\ (h \o q \o c \o x)[i] = h[i]
    BY <2>1, SMTT(30)
  <2>. QED
    BY <2>2, <2>3 DEF h
<1>. QED
  BY <1>1 DEF ServingOf

\* ErrorsAddNoCheck for a node none of whose streams had io.EOF: nothing else that happens
\* to a stream makes its streak longer than the Serving statuses it has sent.
THEOREM OnlyEOFAddsChecks ==
  Spec => [](\A k \in Key : EOFsOf(k) = {} => Checks(k) <= Cardinality(ServingOf(sent, k)))
<1>. DEFINE Sent == \A k \in Key : EOFsOf(k) = {} => Checks(k) <= Cardinality(ServingOf(sent, k))
<1>1. Init => SentFinite
  <2>. SUFFICES ASSUME Init, NEW k \in Key
                PROVE  IsFiniteSet(ServingOf(sent, k))
    BY DEF SentFinite
  <2>1. ServingOf(sent, k) = {}
    BY SMTT(30) DEF Init, ServingOf
  <2>. QED
    BY <2>1, SetSizes
<1>2. TypeOK /\ StatusesInOrder /\ SentFinite /\ StreakIsEarned => Sent
  <2>. SUFFICES ASSUME TypeOK, StatusesInOrder, SentFinite, StreakIsEarned, NEW k \in Key,
                       EOFsOf(k) = {}
                PROVE  Checks(k) <= Cardinality(ServingOf(sent, k))
    OBVIOUS
  <2>1. /\ Checks(k) <= Cardinality(ServingOf(handled, k)) + Cardinality(EOFsOf(k))
        /\ IsFiniteSet(ServingOf(sent, k)) /\ Checks(k) \in Nat
    BY DEF StreakIsEarned, SentFinite, TypeOK, RegistryTypeOK, Checks, Present, Node
  <2>2. /\ Sized(ServingOf(sent, k), ServingOf(handled, k))
        /\ Cardinality(ServingOf(handled, k)) <= Cardinality(ServingOf(sent, k))
    BY <2>1, TakenWasSent, CardShrink
  <2>3. Cardinality(EOFsOf(k)) = 0
    BY SetSizes
  <2>. QED
    BY <2>1, <2>2, <2>3, SMTT(30) DEF Sized
<1>3. Spec => []SentFinite
  BY <1>1, SentFiniteStep, TypeCorrect, PTL DEF Spec
<1>. QED
  BY <1>2, <1>3, StreakEarned, TypeCorrect, DeliveryInOrder, PTL
=============================================================================
