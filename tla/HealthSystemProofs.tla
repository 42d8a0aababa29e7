------------------------- MODULE HealthSystemProofs -------------------------
(***************************************************************************)
(* Proofs about HealthSystem for every set of processes and every timeout, *)
(* deadline, oversleeping and delay.                                       *)
(***************************************************************************)
EXTENDS HealthSystem, TLAPS

\* A leaf that names no prover is one for Zenon.
USE ZenonT(30)

\* What the derived times are, with the assumptions on the constants.
LEMMA Times ==
  /\ ChecksTimeout \in Nat /\ GetConfigTimeout \in Nat /\ MaxOversleep \in Nat
  /\ MaxDelay \in Nat /\ MaxResolve \in Nat /\ Period \in Nat
  /\ MaxGap \in Nat /\ MaxAge \in Nat /\ LongSilence \in Nat /\ MaxSilence \in Nat
  /\ MaxDelay <= MaxAge /\ MaxResolve <= MaxAge
  /\ MaxGap <= MaxSilence /\ GetConfigTimeout <= MaxSilence
  /\ LongSilence = ChecksTimeout + MaxAge + 1
<1>1. Period \in Nat
  BY TimesAssumption, SMTT(30) DEF Period, GetConfig, HealthCheckIntervalDivisor
<1>. QED
  BY <1>1, TimesAssumption, SMTT(30) DEF MaxGap, MaxAge, LongSilence, MaxSilence

-----------------------------------------------------------------------------
(* Types, and how a process, its stream and its handler go together *)

(***************************************************************************)
(* What is true of one process: before it connects there is nothing of it; *)
(* an open stream has a handler; a status that waits for a handler that    *)
(* resolves is not older than that handler; the last status sent is the    *)
(* youngest; while the handler tracks, a status has waited longer than     *)
(* MaxDelay only if it came before the handler did, and then no time has   *)
(* passed since; and a streak belongs to a handler that tracks.            *)
(***************************************************************************)
Coherent(p) ==
  /\ node[p] = "new" =>
       /\ sinceSend[p] = 0 /\ stream[p] = "none" /\ wire[p] = {}
       /\ handler[p] = "none" /\ elapsed[p] = 0
  /\ stream[p] = "open" => handler[p] \in {"resolving", "tracking"}
  /\ handler[p] = "resolving" => \A a \in wire[p] : a <= elapsed[p]
  /\ \A a \in wire[p] : handler[p] \in {"resolving", "tracking"} /\ sinceSend[p] <= a
  /\ handler[p] = "tracking" =>
       /\ elapsed[p] <= ChecksTimeout
       /\ elapsed[p] = 0 \/ \A a \in wire[p] : a <= MaxDelay
  /\ healthy[p] => handler[p] = "tracking" /\ sinceSend[p] <= elapsed[p] + MaxAge

Inv == TypeOK /\ \A p \in Proc : Coherent(p)

\* What one process and its handler do.
Step(p) ==
  Connect(p) \/ Loop(p) \/ StopLoop(p) \/ Crash(p) \/ Break(p) \/ Resolve(p) \/ Select(p)

\* The groups of variables are transparent in what follows.
USE DEF nodeVars, netVars, lbVars

\* Every step keeps the types; time stops for a status before it gets too old.
LEMMA TypeStep == Inv /\ [Next]_vars => TypeOK'
<1>. SUFFICES ASSUME Inv, [Next]_vars
              PROVE  TypeOK'
  OBVIOUS
<1>0. TypeOK
  BY DEF Inv
<1>1. ASSUME NEW p \in Proc, Step(p)
      PROVE  TypeOK'
  <2>1. CASE Connect(p)
    BY <1>0, <2>1, Times DEF TypeOK, Connect
  <2>2. CASE Fetch(p)
    BY <1>0, <2>2, Times, SMTT(30) DEF TypeOK, Fetch, Send
  <2>3. CASE StartFails(p)
    BY <1>0, <2>3, Times DEF TypeOK, StartFails
  <2>4. CASE Beat(p)
    BY <1>0, <2>4, Times, SMTT(30) DEF TypeOK, Beat, Send
  <2>5. CASE StopLoop(p)
    BY <1>0, <2>5, Times DEF TypeOK, StopLoop
  <2>6. CASE Crash(p)
    BY <1>0, <2>6, Times DEF TypeOK, Crash
  <2>7. CASE Break(p)
    BY <1>0, <2>7, Times, SMTT(30) DEF TypeOK, Break
  <2>8. CASE Track(p)
    BY <1>0, <2>8, Times DEF TypeOK, Track
  <2>9. CASE ResolveFails(p)
    BY <1>0, <2>9, Times DEF TypeOK, ResolveFails, Drop
  <2>10. CASE Handle(p)
    BY <1>0, <2>10, Times, SMTT(30) DEF TypeOK, Handle, TakeOldest
  <2>11. CASE Disconnected(p)
    BY <1>0, <2>11, Times DEF TypeOK, Disconnected, Drop
  <2>12. CASE Timeout(p)
    BY <1>0, <2>12, Times DEF TypeOK, Timeout, Drop
  <2>. QED
    BY <1>1, <2>1, <2>2, <2>3, <2>4, <2>5, <2>6, <2>7, <2>8, <2>9, <2>10, <2>11, <2>12
    DEF Step, Loop, Resolve, Select
<1>2. CASE Panic
  BY <1>0, <1>2 DEF TypeOK, Panic
<1>3. CASE Restart
  BY <1>0, <1>3 DEF TypeOK, Restart
<1>4. CASE Tick
  <2>1. sinceSend' \in [Proc -> 0 .. LongSilence] /\ elapsed' \in [Proc -> Nat]
    <3>1. ASSUME NEW p \in Proc
          PROVE  /\ sinceSend[p] \in 0 .. LongSilence /\ elapsed[p] \in Nat
                 /\ sinceSend[p] # LongSilence => sinceSend[p] + 1 \in 0 .. LongSilence
      BY <1>0, Times, SMTT(30) DEF TypeOK
    <3>. QED
      BY <1>4, <3>1, SMTT(30) DEF Tick
  <2>2. ASSUME NEW p \in Proc, Running(p), NEW a \in wire[p]
        PROVE  a + 1 \in 0 .. MaxAge
    <3>1. a \in Nat /\ elapsed[p] \in Nat /\ InTheirTime(p) /\ Coherent(p)
      BY <1>0, <1>4, <2>2, Times, SMTT(30) DEF TypeOK, Tick, Inv
    <3>2. CASE handler[p] = "resolving"
      BY <3>1, <3>2, <2>2, Times, SMTT(30) DEF InTheirTime, Coherent
    <3>3. CASE handler[p] = "tracking"
      BY <3>1, <3>3, <2>2, Times, SMTT(30) DEF InTheirTime
    <3>. QED
      BY <2>2, <3>2, <3>3 DEF Running
  <2>3. wire' \in [Proc -> SUBSET (0 .. MaxAge)]
    BY <1>0, <1>4, <2>2, SMTT(30) DEF TypeOK, Tick
  <2>. QED
    BY <1>0, <1>4, <2>1, <2>3 DEF TypeOK, Tick
<1>5. CASE UNCHANGED vars
  BY <1>0, <1>5 DEF TypeOK, vars
<1>. QED
  BY <1>1, <1>2, <1>3, <1>4, <1>5 DEF Next, Step

\* Every step keeps every process, its stream and its handler together.
LEMMA CoherentStep == Inv /\ [Next]_vars => \A q \in Proc : Coherent(q)'
<1>. SUFFICES ASSUME Inv, [Next]_vars, NEW q \in Proc
              PROVE  Coherent(q)'
  OBVIOUS
<1>0. TypeOK /\ Coherent(q) /\ \A a \in wire[q] : a \in 0 .. MaxAge
  BY DEF Inv, TypeOK
<1>1. ASSUME NEW p \in Proc, Step(p)
      PROVE  Coherent(q)'
  <2>1. CASE Connect(p)
    BY <1>0, <2>1, Times DEF TypeOK, Coherent, Connect
  <2>2. CASE Fetch(p)
    <3>1. CASE stream[p] = "open"
      BY <1>0, <2>2, <3>1, Times, SMTT(30) DEF TypeOK, Coherent, Fetch, Send
    <3>2. CASE stream[p] # "open"
      BY <1>0, <2>2, <3>2, Times DEF TypeOK, Coherent, Fetch, Send
    <3>. QED
      BY <3>1, <3>2
  <2>3. CASE StartFails(p)
    BY <1>0, <2>3, Times DEF TypeOK, Coherent, StartFails
  <2>4. CASE Beat(p)
    <3>1. CASE stream[p] = "open"
      BY <1>0, <2>4, <3>1, Times, SMTT(30) DEF TypeOK, Coherent, Beat, Send
    <3>2. CASE stream[p] # "open"
      BY <1>0, <2>4, <3>2, Times DEF TypeOK, Coherent, Beat, Send
    <3>. QED
      BY <3>1, <3>2
  <2>5. CASE StopLoop(p)
    BY <1>0, <2>5, Times DEF TypeOK, Coherent, StopLoop
  <2>6. CASE Crash(p)
    BY <1>0, <2>6, Times DEF TypeOK, Coherent, Crash
  <2>7. CASE Break(p)
    BY <1>0, <2>7, Times, SMTT(30) DEF TypeOK, Coherent, Break
  <2>8. CASE Track(p)
    BY <1>0, <2>8, Times, SMTT(30) DEF TypeOK, Coherent, Track
  <2>9. CASE ResolveFails(p)
    BY <1>0, <2>9, Times DEF TypeOK, Coherent, ResolveFails, Drop
  <2>10. CASE Handle(p)
    BY <1>0, <2>10, Times, SMTT(30) DEF TypeOK, Coherent, Handle, TakeOldest
  <2>11. CASE Disconnected(p)
    BY <1>0, <2>11, Times DEF TypeOK, Coherent, Disconnected, Drop
  <2>12. CASE Timeout(p)
    BY <1>0, <2>12, Times DEF TypeOK, Coherent, Timeout, Drop
  <2>. QED
    BY <1>1, <2>1, <2>2, <2>3, <2>4, <2>5, <2>6, <2>7, <2>8, <2>9, <2>10, <2>11, <2>12
    DEF Step, Loop, Resolve, Select
<1>2. CASE Panic
  BY <1>0, <1>2 DEF TypeOK, Coherent, Panic
<1>3. CASE Restart
  BY <1>0, <1>3 DEF Coherent, Restart
<1>4. CASE Tick
  <2>1. InTheirTime(q) /\ sinceSend[q] \in 0 .. LongSilence /\ elapsed[q] \in Nat
    BY <1>0, <1>4 DEF Tick, TypeOK
  <2>2. UNCHANGED <<node[q], stream[q], handler[q], healthy[q]>>
    BY <1>4 DEF Tick
  <2>3. /\ node[q] = "new" => UNCHANGED <<sinceSend[q], wire[q], elapsed[q]>>
        /\ sinceSend'[q] \in Nat /\ sinceSend'[q] <= sinceSend[q] + 1
        /\ Running(q) => elapsed'[q] = elapsed[q] + 1 /\ wire'[q] = {a + 1 : a \in wire[q]}
        /\ ~Running(q) => UNCHANGED <<wire[q], elapsed[q]>>
    BY <1>0, <1>4, Times, SMTT(30) DEF Tick, TypeOK, Coherent, Running
  <2>4. CASE Running(q)
    BY <1>0, <2>1, <2>2, <2>3, <2>4, Times, SMTT(30) DEF Coherent, InTheirTime, Running
  <2>5. CASE ~Running(q)
    BY <1>0, <2>1, <2>2, <2>3, <2>5, Times DEF Coherent, Running
  <2>. QED
    BY <2>4, <2>5
<1>5. CASE UNCHANGED vars
  BY <1>0, <1>5 DEF Coherent, vars
<1>. QED
  BY <1>1, <1>2, <1>3, <1>4, <1>5 DEF Next, Step

\* Inv is an inductive invariant.
THEOREM InvHolds == Spec => []Inv
<1>1. Init => Inv
  BY Times, SMTT(30) DEF Init, Inv, TypeOK, Coherent
<1>2. Inv /\ [Next]_vars => Inv'
  BY TypeStep, CoherentStep DEF Inv
<1>. QED
  BY <1>1, <1>2, PTL DEF Spec

\* TypeOK holds in every reachable state; no status gets older than MaxAge.
THEOREM TypeCorrect == Spec => []TypeOK
<1>1. Inv => TypeOK
  BY DEF Inv
<1>. QED
  BY <1>1, InvHolds, PTL

\* StreakIsFresh: the registry holds no streak of a process that has been silent for
\* longer than the timeout and the age of one status.
THEOREM FreshStreaks == Spec => []StreakIsFresh
<1>1. Inv => StreakIsFresh
  <2>. SUFFICES ASSUME Inv, NEW p \in Proc, healthy[p]
                PROVE  sinceSend[p] <= ChecksTimeout + MaxAge
    BY DEF StreakIsFresh
  <2>1. sinceSend[p] \in Nat /\ elapsed[p] \in Nat /\ Coherent(p)
    BY Times, SMTT(30) DEF Inv, TypeOK
  <2>. QED
    BY <2>1, Times, SMTT(30) DEF Coherent
<1>. QED
  BY <1>1, InvHolds, PTL

\* LostForGood: a process whose stream has ended never has a check again.
THEOREM LostProcesses == Spec => LostForGood
<1>. DEFINE Lost == \A p \in Proc : stream[p] = "broken" /\ handler[p] \in {"none", "closed"} =>
                      handler'[p] \in {"none", "closed"} /\ ~healthy'[p]
<1>1. Inv /\ [Next]_vars => [Lost]_vars
  <2>. SUFFICES ASSUME Inv, [Next]_vars, NEW q \in Proc,
                       stream[q] = "broken", handler[q] \in {"none", "closed"}
                PROVE  handler'[q] \in {"none", "closed"} /\ ~healthy'[q]
    OBVIOUS
  <2>0. TypeOK /\ Coherent(q) /\ ~healthy[q]
    BY DEF Inv, Coherent
  <2>1. ASSUME NEW p \in Proc, Connect(p)
        PROVE  p # q
    BY <2>0, <2>1 DEF Connect, Coherent
  <2>2. ASSUME NEW p \in Proc, Step(p)
        PROVE  handler'[q] \in {"none", "closed"} /\ ~healthy'[q]
    BY <2>0, <2>1, <2>2 DEF TypeOK, Step, Loop, Resolve, Select, Connect, Fetch, StartFails,
          Beat, StopLoop, Crash, Break, Track, ResolveFails, Handle, Disconnected, Timeout
  <2>3. CASE Panic
    BY <2>3 DEF Panic
  <2>4. CASE Restart \/ Tick \/ UNCHANGED vars
    BY <2>0, <2>4 DEF Restart, Tick, vars
  <2>. QED
    BY <2>2, <2>3, <2>4 DEF Next, Step
<1>. QED
  BY <1>1, InvHolds, PTL DEF Spec, LostForGood

-----------------------------------------------------------------------------
(* Punctual processes *)

(***************************************************************************)
(* A process that works is not silent for too long, and what its handler's *)
(* timer has run is covered: by the time since the process last sent, or   *)
(* by the age of a status that is on its way, sent at most one silence     *)
(* after the timer was reset.                                              *)
(***************************************************************************)
Covered(p) ==
  /\ node[p] = "fetching" => sinceSend[p] <= GetConfigTimeout
  /\ node[p] = "running" /\ stream[p] = "open" => sinceSend[p] <= MaxGap
  /\ Beating(p) => \/ elapsed[p] <= sinceSend[p]
                   \/ \E a \in wire[p] : elapsed[p] <= a + MaxSilence

\* Every step keeps the timers covered.
LEMMA CoveredStep ==
  EnoughTime /\ Inv /\ (\A q \in Proc : Covered(q)) /\ [Next]_vars
    => \A q \in Proc : Covered(q)'
<1>. SUFFICES ASSUME EnoughTime, Inv, \A r \in Proc : Covered(r), [Next]_vars, NEW q \in Proc
              PROVE  Covered(q)'
  OBVIOUS
<1>. USE DEF Beating
<1>0. /\ TypeOK /\ Coherent(q) /\ Covered(q) /\ sinceSend[q] \in Nat /\ elapsed[q] \in Nat
      /\ \A a \in wire[q] : a \in Nat
  BY Times, SMTT(30) DEF Inv, TypeOK
<1>1. ASSUME NEW p \in Proc, Step(p)
      PROVE  Covered(q)'
  <2>1. CASE Connect(p)
    BY <1>0, <2>1, Times, SMTT(30) DEF TypeOK, Coherent, Covered, Connect
  <2>2. CASE Fetch(p)
    BY <1>0, <2>2, Times, SMTT(30) DEF TypeOK, Coherent, Covered, Fetch, Send
  <2>3. CASE StartFails(p)
    BY <1>0, <2>3, Times DEF TypeOK, Coherent, Covered, StartFails
  <2>4. CASE Beat(p)
    BY <1>0, <2>4, Times, SMTT(30) DEF TypeOK, Coherent, Covered, Beat, Send
  <2>5. CASE StopLoop(p)
    BY <1>0, <2>5, Times DEF TypeOK, Coherent, Covered, StopLoop
  <2>6. CASE Crash(p)
    BY <1>0, <2>6, Times DEF TypeOK, Coherent, Covered, Crash
  <2>7. CASE Break(p)
    BY <1>0, <2>7, Times DEF TypeOK, Coherent, Covered, Break
  <2>8. CASE Track(p)
    BY <1>0, <2>8, Times, SMTT(30) DEF TypeOK, Coherent, Covered, Track
  <2>9. CASE ResolveFails(p)
    BY <1>0, <2>9, Times DEF TypeOK, Coherent, Covered, ResolveFails, Drop
  <2>10. CASE Handle(p)
    BY <1>0, <2>10, Times, SMTT(30) DEF TypeOK, Coherent, Covered, Handle, TakeOldest
  <2>11. CASE Disconnected(p)
    BY <1>0, <2>11, Times DEF TypeOK, Coherent, Covered, Disconnected, Drop
  <2>12. CASE Timeout(p)
    BY <1>0, <2>12, Times DEF TypeOK, Coherent, Covered, Timeout, Drop
  <2>. QED
    BY <1>1, <2>1, <2>2, <2>3, <2>4, <2>5, <2>6, <2>7, <2>8, <2>9, <2>10, <2>11, <2>12
    DEF Step, Loop, Resolve, Select
<1>2. CASE Panic
  BY <1>0, <1>2 DEF TypeOK, Covered, Panic
<1>3. CASE Restart
  BY <1>0, <1>3 DEF Covered, Restart
<1>4. CASE Tick
  <2>1. InTheirTime(q) /\ UNCHANGED <<node[q], stream[q], handler[q]>>
    BY <1>4 DEF Tick
  <2>2. node[q] \in {"fetching", "running"} /\ sinceSend[q] <= MaxSilence
          => sinceSend'[q] = sinceSend[q] + 1
    BY <1>0, <1>4, Times, SMTT(30) DEF Tick, TypeOK, EnoughTime
  <2>3. handler[q] = "tracking" =>
          elapsed'[q] = elapsed[q] + 1 /\ wire'[q] = {a + 1 : a \in wire[q]}
    BY <1>0, <1>4 DEF Tick, TypeOK, Running
  <2>4. node[q] \in {"fetching", "running"} /\ stream[q] = "open" => sinceSend[q] <= MaxSilence
    BY <1>0, Times, SMTT(30) DEF Covered
  <2>5. node[q] = "fetching" => sinceSend[q] <= MaxSilence
    BY <1>0, Times, SMTT(30) DEF Covered
  <2>6. node'[q] = "fetching" => sinceSend'[q] <= GetConfigTimeout
    BY <1>0, <2>1, <2>2, <2>5, Times, SMTT(30) DEF InTheirTime
  <2>7. node'[q] = "running" /\ stream'[q] = "open" => sinceSend'[q] <= MaxGap
    BY <1>0, <2>1, <2>2, <2>4, Times, SMTT(30) DEF InTheirTime
  <2>8. ASSUME Beating(q)'
        PROVE  \/ elapsed'[q] <= sinceSend'[q]
               \/ \E a \in wire'[q] : elapsed'[q] <= a + MaxSilence
    BY <1>0, <2>1, <2>2, <2>3, <2>4, <2>8, Times, SMTT(30) DEF Covered
  <2>. QED
    BY <2>6, <2>7, <2>8 DEF Covered
<1>5. CASE UNCHANGED vars
  BY <1>0, <1>5 DEF Covered, vars
<1>. QED
  BY <1>1, <1>2, <1>3, <1>4, <1>5 DEF Next, Step

\* PunctualNotDropped: if the timeout is longer than the longest silence and the
\* longest delay together, no working process times out.
THEOREM PunctualStays == Spec => []PunctualNotDropped
<1>. DEFINE AllCovered == EnoughTime => \A p \in Proc : Covered(p)
<1>1. Init => AllCovered
  BY Times DEF Init, Covered, Beating
<1>2. Inv /\ AllCovered /\ [Next]_vars => AllCovered'
  BY CoveredStep DEF EnoughTime
<1>3. Inv /\ AllCovered => PunctualNotDropped
  <2>. SUFFICES ASSUME Inv, AllCovered, EnoughTime, NEW p \in Proc, Beating(p)
                PROVE  elapsed[p] < ChecksTimeout
    BY DEF PunctualNotDropped
  <2>1. /\ Covered(p) /\ Coherent(p) /\ sinceSend[p] \in Nat /\ elapsed[p] \in Nat
        /\ \A a \in wire[p] : a \in Nat
    BY Times, SMTT(30) DEF Inv, TypeOK
  <2>2. sinceSend[p] <= MaxSilence
    BY <2>1, Times, SMTT(30) DEF Covered, Beating
  <2>3. elapsed[p] = 0 \/ \A a \in wire[p] : a <= MaxDelay
    BY <2>1 DEF Coherent, Beating
  <2>. QED
    BY <2>1, <2>2, <2>3, Times, SMTT(30) DEF Covered, EnoughTime
<1>. HIDE DEF AllCovered
<1>. QED
  BY <1>1, <1>2, <1>3, InvHolds, PTL DEF Spec
=============================================================================
