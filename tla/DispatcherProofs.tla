-------------------------- MODULE DispatcherProofs --------------------------
(***************************************************************************)
(* Proofs about Dispatcher for every set of targets and of API requests.   *)
(***************************************************************************)
EXTENDS Dispatcher, TLAPS

\* A leaf that names no prover is one for Zenon.
USE ZenonT(30)

\* The groups of variables, and what moves a program counter, are transparent.
USE DEF ctxVars, callVars, loopVars, vars, Goto

-----------------------------------------------------------------------------
(* Types *)

\* A process starts well typed.
LEMMA TypeInit == Init => TypeOK
<1>. SUFFICES ASSUME Init
              PROVE  TypeOK
  OBVIOUS
<1>1. loop \in [Caller -> [Target -> {"none", "pause", "test", "done"}]]
  BY DEF Init
<1>2. seen \in [Caller -> [Target -> Caller \cup {NoCtx}]]
  BY DEF Init
<1>3. pc \in [Caller -> PC]
  BY DEF Init, PC
<1>4. unwritten \in [Caller -> SUBSET Fields] /\ todo \in [Caller -> SUBSET Target]
  BY DEF Init
<1>. QED
  BY <1>1, <1>2, <1>3, <1>4 DEF Init, TypeOK

\* A step of a caller keeps the types.
LEMMA TypeCall ==
  ASSUME TypeOK, NEW c \in Caller, Call(c)
  PROVE  TypeOK'
<1>. USE DEF TypeOK, PC, AfterStart, AfterStop
<1>1. CASE StartRefused(c)
  BY <1>1 DEF StartRefused
<1>2. CASE StartAccepted(c)
  BY <1>2 DEF StartAccepted
<1>3. ASSUME NEW f \in Fields, WriteField(c, f)
      PROVE  TypeOK'
  BY <1>3 DEF WriteField
<1>4. ASSUME NEW t \in Target, Dial(c, t)
      PROVE  TypeOK'
  BY <1>4 DEF Dial
<1>5. CASE DialFails(c)
  BY <1>5 DEF DialFails
<1>6. CASE AllDialled(c)
  BY <1>6 DEF AllDialled
<1>7. CASE Wait(c)
  BY <1>7 DEF Wait
<1>8. CASE Unset(c)
  BY <1>8 DEF Unset
<1>9. CASE StopRefused(c)
  BY <1>9 DEF StopRefused
<1>10. CASE StopAccepted(c)
  BY <1>10 DEF StopAccepted
<1>11. CASE StopPanics(c)
  BY <1>11 DEF StopPanics
<1>. QED
  BY <1>1, <1>2, <1>3, <1>4, <1>5, <1>6, <1>7, <1>8, <1>9, <1>10, <1>11 DEF Call

\* Every step keeps the types.
LEMMA TypeStep == TypeOK /\ [Next]_vars => TypeOK'
<1>. SUFFICES ASSUME TypeOK, [Next]_vars
              PROVE  TypeOK'
  OBVIOUS
<1>1. CASE Serve \/ ServeFails
  BY <1>1 DEF Serve, ServeFails, TypeOK
<1>2. ASSUME NEW r \in StartRequest \cup StopRequest, Request(r)
      PROVE  TypeOK'
  BY <1>2 DEF Request, TypeOK, PC, Caller
<1>3. ASSUME NEW c \in Caller, Call(c)
      PROVE  TypeOK'
  BY <1>3, TypeCall
<1>4. ASSUME NEW c \in Caller, NEW t \in Target, Loop(c, t)
      PROVE  TypeOK'
  <2>1. CASE ReadCtx(c, t)
    BY <2>1 DEF ReadCtx, TypeOK
  <2>2. CASE SeeDone(c, t)
    BY <2>2 DEF SeeDone, TypeOK
  <2>3. CASE SendReport(c, t)
    BY <2>3 DEF SendReport, TypeOK
  <2>. QED
    BY <1>4, <2>1, <2>2, <2>3 DEF Loop
<1>5. CASE Shutdown
  BY <1>5 DEF Shutdown, TypeOK, PC, Caller
<1>6. CASE Exit
  BY <1>6 DEF Exit, TypeOK, PC, Caller
<1>7. CASE UNCHANGED vars
  BY <1>7 DEF TypeOK
<1>. QED
  BY <1>1, <1>2, <1>3, <1>4, <1>5, <1>6, <1>7 DEF Next

\* TypeOK: contexts and cancel functions belong to callers, program counters are labels.
THEOREM TypeCorrect == Spec => []TypeOK
BY TypeInit, TypeStep, PTL DEF Spec

-----------------------------------------------------------------------------
(* What the calls and the loops do to each other *)

\* Every step stops the status, is an accepted Start, or leaves the status and the
\* running Start calls as they are.
LEMMA StatusSteps ==
  ASSUME TypeOK, [Next]_vars
  PROVE  \/ status' = "stopped"
         \/ \E c \in Caller : StartAccepted(c)
         \/ status' = status /\ \A c \in Caller : Starting(c) => Starting(c)'
<1>. USE DEF Starting, TypeOK
<1>1. CASE Serve \/ ServeFails
  BY <1>1 DEF Serve, ServeFails
<1>2. ASSUME NEW r \in StartRequest \cup StopRequest, Request(r)
      PROVE  status' = status /\ \A c \in Caller : Starting(c) => Starting(c)'
  BY <1>2 DEF Request, Caller
<1>3. ASSUME NEW c \in Caller, Call(c), ~StartAccepted(c), status' # "stopped"
      PROVE  status' = status /\ \A b \in Caller : Starting(b) => Starting(b)'
  BY <1>3 DEF Call, StartRefused, WriteField, Dial, DialFails, AllDialled, Wait, Unset,
              StopRefused, StopAccepted, StopPanics
<1>4. ASSUME NEW c \in Caller, NEW t \in Target, Loop(c, t)
      PROVE  UNCHANGED <<status, pc>>
  BY <1>4 DEF Loop, ReadCtx, SeeDone, SendReport
<1>5. CASE Shutdown
  BY <1>5 DEF Shutdown, Caller
<1>6. CASE Exit
  BY <1>6 DEF Exit
<1>7. CASE UNCHANGED vars
  BY <1>7
<1>. QED
  BY <1>1, <1>2, <1>3, <1>4, <1>5, <1>6, <1>7 DEF Next

\* RunningIsTrue: as long as GET /status answers "running" some Start call is under way.
THEOREM RunningTrue == Spec => []RunningIsTrue
<1>1. Init => RunningIsTrue
  BY DEF Init, RunningIsTrue
<1>2. TypeOK /\ RunningIsTrue /\ [Next]_vars => RunningIsTrue'
  <2>. SUFFICES ASSUME TypeOK, RunningIsTrue, [Next]_vars
                PROVE  RunningIsTrue'
    OBVIOUS
  <2>1. ASSUME NEW c \in Caller, StartAccepted(c)
        PROVE  RunningIsTrue'
    BY <2>1 DEF StartAccepted, RunningIsTrue, Starting, TypeOK
  <2>2. CASE status' = status /\ \A c \in Caller : Starting(c) => Starting(c)'
    BY <2>2 DEF RunningIsTrue
  <2>3. CASE status' = "stopped"
    BY <2>3 DEF RunningIsTrue
  <2>. QED
    BY <2>1, <2>2, <2>3, StatusSteps
<1>. QED
  BY <1>1, <1>2, TypeCorrect, PTL DEF Spec

(***************************************************************************)
(* A Start call that has stored its context keeps d.generalCtx from being  *)
(* nil for the rest of the process, whoever stores another one later, and  *)
(* no call dials before it has stored both fields.                         *)
(***************************************************************************)
CtxStored ==
  \A c \in Caller :
    /\ "generalCtx" \notin unwritten[c] => generalCtx # NoCtx
    /\ pc[c] = "dial" => unwritten[c] = {}

\* Contexts are cancelled by Stop only, and loops return only from a cancelled one.
CancelledByStop == cancelled # {} => stopped

(***************************************************************************)
(* A loop that runs belongs to a Start call that still dials or waits, or  *)
(* to one that gave up before its last target.                             *)
(***************************************************************************)
LoopsWaitedFor ==
  \A c \in Caller, t \in Target :
    Alive(c, t) => pc[c] \in {"dial", "wait"} \/ todo[c] # {}

CallInv == CtxStored /\ CtxNeverNil /\ CancelledByStop /\ LoopsEndOnlyByStop /\ LoopsWaitedFor

\* No call has begun and no loop runs when the process starts.
LEMMA CallInvInit == Init => CallInv
BY SMTT(30) DEF Init, CallInv, CtxStored, CtxNeverNil, CancelledByStop, LoopsEndOnlyByStop,
       LoopsWaitedFor, Alive, Fields

\* Every step of a caller keeps CallInv.
LEMMA CallInvCall ==
  ASSUME TypeOK, CallInv, NEW c \in Caller, Call(c)
  PROVE  CallInv'
<1>. USE DEF CallInv, CtxStored, CtxNeverNil, CancelledByStop, LoopsEndOnlyByStop,
             LoopsWaitedFor, Alive, TypeOK
<1>1. CASE StartRefused(c)
  BY <1>1 DEF StartRefused, AfterStart
<1>2. CASE StartAccepted(c)
  BY <1>2 DEF StartAccepted
<1>3. ASSUME NEW f \in Fields, WriteField(c, f)
      PROVE  CallInv'
  <2>1. CtxStored'
    BY <1>3, CallerAssumption DEF WriteField, Fields
  <2>2. generalCtx # NoCtx => generalCtx' # NoCtx
    BY <1>3, CallerAssumption DEF WriteField
  <2>3. UNCHANGED <<loop, seen, cancelled, stopped, todo>>
    BY <1>3 DEF WriteField
  <2>4. \A b \in Caller : pc[b] \in {"dial", "wait"} => pc'[b] \in {"dial", "wait"}
    BY <1>3 DEF WriteField
  <2>. QED
    BY <2>1, <2>2, <2>3, <2>4
<1>4. ASSUME NEW t \in Target, Dial(c, t)
      PROVE  CallInv'
  <2>1. generalCtx # NoCtx
    BY <1>4 DEF Dial
  <2>2. UNCHANGED <<generalCtx, cancelled, pc, unwritten, seen, stopped>> /\ pc[c] = "dial"
    BY <1>4 DEF Dial
  <2>3. /\ \A b \in Caller : b # c => todo'[b] = todo[b]
        /\ \A b \in Caller, u \in Target :
             loop'[b][u] = IF b = c /\ u = t THEN "pause" ELSE loop[b][u]
    BY <1>4 DEF Dial
  <2>4. CtxStored' /\ CancelledByStop'
    BY <2>2
  <2>5. CtxNeverNil'
    BY <2>1, <2>2, <2>3, SMTT(30)
  <2>6. LoopsEndOnlyByStop'
    BY <2>2, <2>3, SMTT(30)
  <2>7. LoopsWaitedFor'
    BY <2>2, <2>3
  <2>. QED
    BY <2>4, <2>5, <2>6, <2>7
<1>5. CASE DialFails(c)
  BY <1>5 DEF DialFails
<1>6. CASE AllDialled(c)
  BY <1>6 DEF AllDialled
<1>7. CASE Wait(c)
  BY <1>7 DEF Wait
<1>8. CASE Unset(c)
  BY <1>8 DEF Unset, AfterStart
<1>9. CASE StopRefused(c)
  BY <1>9 DEF StopRefused, AfterStop
<1>10. CASE StopAccepted(c)
  BY <1>10 DEF StopAccepted, AfterStop
<1>11. CASE StopPanics(c)
  BY <1>11 DEF StopPanics, AfterStop
<1>. QED
  BY <1>1, <1>2, <1>3, <1>4, <1>5, <1>6, <1>7, <1>8, <1>9, <1>10, <1>11 DEF Call

\* Every step of a health loop keeps CallInv.
LEMMA CallInvLoop ==
  ASSUME TypeOK, CallInv, NEW c \in Caller, NEW t \in Target, Loop(c, t)
  PROVE  CallInv'
<1>1. UNCHANGED <<generalCtx, cancelled, pc, unwritten, todo, stopped>>
  BY DEF Loop, ReadCtx, SeeDone, SendReport
<1>2. \A b \in Caller, u \in Target :
        b # c \/ u # t => loop'[b][u] = loop[b][u] /\ seen'[b][u] = seen[b][u]
  BY SMTT(30) DEF Loop, ReadCtx, SeeDone, SendReport, TypeOK
<1>3. Alive(c, t)
  BY DEF Loop, ReadCtx, SeeDone, SendReport, Alive
<1>4. loop'[c][t] = "test" => seen'[c][t] # NoCtx
  BY <1>3, SMTT(30) DEF Loop, ReadCtx, SeeDone, SendReport, TypeOK, CallInv, CtxNeverNil
<1>5. loop'[c][t] = "done" => stopped
  BY SMTT(30) DEF Loop, ReadCtx, SeeDone, SendReport, TypeOK, CallInv, CancelledByStop
<1>6. CtxStored' /\ CancelledByStop'
  BY <1>1 DEF CallInv, CtxStored, CancelledByStop
<1>7. ASSUME NEW b \in Caller, NEW u \in Target, Alive(b, u)'
      PROVE  /\ generalCtx' # NoCtx /\ (loop'[b][u] = "test" => seen'[b][u] # NoCtx)
             /\ pc'[b] \in {"dial", "wait"} \/ todo'[b] # {}
  <2>1. CASE b = c /\ u = t
    BY <1>1, <1>3, <1>4, <2>1 DEF CallInv, CtxNeverNil, LoopsWaitedFor
  <2>2. CASE b # c \/ u # t
    <3>1. Alive(b, u)
      BY <1>2, <1>7, <2>2 DEF Alive
    <3>. QED
      BY <1>1, <1>2, <2>2, <3>1, SMTT(30) DEF CallInv, CtxNeverNil, LoopsWaitedFor
  <2>. QED
    BY <2>1, <2>2
<1>8. ASSUME NEW b \in Caller, NEW u \in Target, loop'[b][u] = "done"
      PROVE  stopped'
  <2>1. CASE b = c /\ u = t
    BY <1>1, <1>5, <1>8, <2>1
  <2>2. CASE b # c \/ u # t
    BY <1>1, <1>2, <1>8, <2>2, SMTT(30) DEF CallInv, LoopsEndOnlyByStop
  <2>. QED
    BY <2>1, <2>2
<1>. QED
  BY <1>6, <1>7, <1>8 DEF CallInv, CtxNeverNil, LoopsEndOnlyByStop, LoopsWaitedFor

\* Every step keeps what calls and loops know of each other.
LEMMA CallInvStep == TypeOK /\ CallInv /\ [Next]_vars => CallInv'
<1>. SUFFICES ASSUME TypeOK, CallInv, [Next]_vars
              PROVE  CallInv'
  OBVIOUS
<1>. USE DEF CallInv, CtxStored, CtxNeverNil, CancelledByStop, LoopsEndOnlyByStop,
             LoopsWaitedFor, Alive, TypeOK
<1>1. CASE Serve \/ ServeFails
  BY <1>1 DEF Serve, ServeFails
<1>2. ASSUME NEW r \in StartRequest \cup StopRequest, Request(r)
      PROVE  CallInv'
  BY <1>2 DEF Request, Caller
<1>3. CASE Shutdown
  BY <1>3 DEF Shutdown, Caller
<1>4. CASE Exit
  BY <1>4 DEF Exit, Fields
<1>5. CASE UNCHANGED vars
  BY <1>5
<1>. QED
  BY <1>1, <1>2, <1>3, <1>4, <1>5, CallInvCall, CallInvLoop DEF Next

\* CallInv is an invariant.
LEMMA CallInvHolds == Spec => []CallInv
BY CallInvInit, CallInvStep, TypeCorrect, PTL DEF Spec

\* CtxNeverNil: no health loop ever evaluates Done on a nil context.
THEOREM ContextNeverNil == Spec => []CtxNeverNil
BY CallInvHolds, PTL DEF CallInv

\* LoopsEndOnlyByStop: a health loop returns only after a Stop in the same process.
THEOREM LoopsEndByStop == Spec => []LoopsEndOnlyByStop
BY CallInvHolds, PTL DEF CallInv

\* OrphansOnlyByFailure: a Start call that has dialled all its targets returns after
\* all of its loops.
THEOREM OrphansByFailure == Spec => []OrphansOnlyByFailure
<1>1. CallInv => OrphansOnlyByFailure
  BY DEF CallInv, LoopsWaitedFor, OrphansOnlyByFailure, Starting
<1>. QED
  BY <1>1, CallInvHolds, PTL

-----------------------------------------------------------------------------
(* A cancelled context wears the loops out *)

\* The most steps a loop takes while the context in d.generalCtx is cancelled: a loop that
\* has read an earlier context before the select makes one more report.
LoopWork(c, t) ==
  CASE loop[c][t] = "pause" -> 2
    [] loop[c][t] = "test" -> IF seen[c][t] \in cancelled THEN 1 ELSE 3
    [] OTHER -> 0

\* CancelReachesAll without its fairness: while d.generalCtx is cancelled every step of a
\* loop, of whichever Start call, leaves it less to do, and only startDispatchers gives it
\* more.
THEOREM CancelWearsOut ==
  Spec => [][\A c \in Caller, t \in Target : generalCtx \in cancelled =>
               /\ Loop(c, t) => LoopWork(c, t)' < LoopWork(c, t)
               /\ LoopWork(c, t)' > LoopWork(c, t) => Dial(c, t)]_vars
<1>. DEFINE Wears ==
       \A c \in Caller, t \in Target : generalCtx \in cancelled =>
         /\ Loop(c, t) => LoopWork(c, t)' < LoopWork(c, t)
         /\ LoopWork(c, t)' > LoopWork(c, t) => Dial(c, t)
<1>1. ASSUME TypeOK, TypeOK', Next, generalCtx \in cancelled, NEW c \in Caller, NEW t \in Target
      PROVE  /\ Loop(c, t) => LoopWork(c, t)' < LoopWork(c, t)
             /\ LoopWork(c, t)' > LoopWork(c, t) => Dial(c, t)
  <2>0. /\ loop \in [Caller -> [Target -> {"none", "pause", "test", "done"}]]
        /\ seen \in [Caller -> [Target -> Caller \cup {NoCtx}]]
    BY <1>1 DEF TypeOK
  <2>1. ASSUME Loop(c, t)
        PROVE  LoopWork(c, t)' < LoopWork(c, t)
    <3>1. CASE ReadCtx(c, t)
      <4>1. /\ loop[c][t] = "pause" /\ loop'[c][t] = "test" /\ seen'[c][t] = generalCtx
            /\ cancelled' = cancelled
        BY <2>0, <3>1 DEF ReadCtx
      <4>. QED
        BY <1>1, <4>1, SMTT(30) DEF LoopWork
    <3>2. CASE SeeDone(c, t)
      <4>1. loop[c][t] = "test" /\ seen[c][t] \in cancelled /\ loop'[c][t] = "done"
        BY <2>0, <3>2 DEF SeeDone
      <4>. QED
        BY <4>1, SMTT(30) DEF LoopWork
    <3>3. CASE SendReport(c, t)
      <4>1. loop[c][t] = "test" /\ seen[c][t] \notin cancelled /\ loop'[c][t] = "pause"
        BY <2>0, <3>3 DEF SendReport
      <4>. QED
        BY <4>1, SMTT(30) DEF LoopWork
    <3>. QED
      BY <2>1, <3>1, <3>2, <3>3 DEF Loop
  <2>2. ASSUME ~Loop(c, t), ~Dial(c, t)
        PROVE  \/ /\ loop'[c][t] = loop[c][t] /\ seen'[c][t] = seen[c][t]
                  /\ cancelled \subseteq cancelled'
               \/ loop'[c][t] = "none"
    <3>1. ASSUME NEW d \in Caller, NEW u \in Target, Loop(d, u), d # c \/ u # t
          PROVE  loop'[c][t] = loop[c][t] /\ seen'[c][t] = seen[c][t] /\ cancelled' = cancelled
      <4>1. CASE ReadCtx(d, u)
        BY <2>0, <3>1, <4>1 DEF ReadCtx
      <4>2. CASE SeeDone(d, u)
        BY <2>0, <3>1, <4>2 DEF SeeDone
      <4>3. CASE SendReport(d, u)
        BY <2>0, <3>1, <4>3 DEF SendReport
      <4>. QED
        BY <3>1, <4>1, <4>2, <4>3 DEF Loop
    <3>2. ASSUME NEW d \in Caller, NEW u \in Target, Dial(d, u), d # c \/ u # t
          PROVE  loop'[c][t] = loop[c][t] /\ seen' = seen /\ cancelled' = cancelled
      BY <2>0, <3>2 DEF Dial
    <3>3. ASSUME NEW d \in Caller, Call(d), ~\E u \in Target : Dial(d, u)
          PROVE  loop' = loop /\ seen' = seen /\ cancelled \subseteq cancelled'
      BY <3>3 DEF Call, StartRefused, StartAccepted, WriteField, DialFails, AllDialled, Wait,
         Unset, StopRefused, StopAccepted, StopPanics
    <3>4. CASE Exit
      BY <3>4 DEF Exit
    <3>5. CASE \/ Serve \/ ServeFails \/ Shutdown
               \/ \E r \in StartRequest \cup StopRequest : Request(r)
      BY <3>5 DEF Serve, ServeFails, Shutdown, Request
    <3>. QED
      BY <1>1, <2>2, <3>1, <3>2, <3>3, <3>4, <3>5 DEF Next
  <2>3. ASSUME ~Loop(c, t), ~Dial(c, t)
        PROVE  ~(LoopWork(c, t)' > LoopWork(c, t))
    BY <2>2, <2>3, SMTT(30) DEF LoopWork
  <2>4. LoopWork(c, t) \in 0 .. 3 /\ LoopWork(c, t)' \in 0 .. 3
    BY SMTT(30) DEF LoopWork
  <2>5. Loop(c, t) => ~(LoopWork(c, t)' > LoopWork(c, t))
    <3>1. PICK a \in 0 .. 3, b \in 0 .. 3 : a = LoopWork(c, t) /\ b = LoopWork(c, t)'
      BY <2>4
    <3>2. b < a => ~(b > a)
      BY SMTT(30)
    <3>. QED
      BY <2>1, <3>1, <3>2
  <2>. QED
    BY <2>1, <2>3, <2>5
<1>2. TypeOK /\ TypeOK' /\ [Next]_vars => [Wears]_vars
  BY <1>1
<1>. QED
  BY <1>2, TypeCorrect, PTL DEF Spec
=============================================================================
