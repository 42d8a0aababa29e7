--------------------------- MODULE NodeBootProofs ---------------------------
(***************************************************************************)
(* Proofs about NodeBoot for every set of hosts and addresses and for      *)
(* every number of configured addresses.                                   *)
(***************************************************************************)
EXTENDS NodeBoot, TLAPS

\* A leaf that names no prover is one for Zenon.
USE ZenonT(30)

\* The variables of the exchanges are transparent as a group.
USE DEF exchange, vars

-----------------------------------------------------------------------------
(* The inductive invariant *)

\* An exchange that has not begun: no socket, no goroutine, nothing in its channels.
Untouched(i) ==
  /\ conn[i] = "none" /\ writer[i] = "none" /\ reader[i] = "none"
  /\ errChan[i] = 0 /\ respChan[i] = None

\* An exchange of an address that has its target.
Finished(i) ==
  /\ conn[i] # "open" /\ writer[i] \in {"none", "sent"} /\ reader[i] \in {"none", "done"}
  /\ errChan[i] = 0 /\ respChan[i] = None

\* What is in the channels of an exchange tells how far its goroutines are.
Channels(i) ==
  /\ errChan[i] > 0 => writer[i] = "failed" \/ reader[i] = "done"
  /\ reader[i] = "sendResp" => writer[i] = "sent" /\ answer[i] # None
  /\ respChan[i] # None => /\ reader[i] = "done" /\ writer[i] = "sent"
                           /\ errChan[i] = 0 /\ respChan[i] = answer[i]

\* The target of an address, from its IP or from the answer of its own resolution.
TargetOf(i) ==
  [ip |-> IF addresses[i].ip # None THEN addresses[i].ip ELSE answer[i],
   port |-> addresses[i].port]

\* Where main is in the list of addresses.
Position ==
  /\ Len(addresses) <= MaxAddresses /\ idx <= Len(addresses) + 1
  /\ pc \in {"listen", "deadline", "select", "dial", "lookup"} =>
       /\ idx <= Len(addresses)
       /\ addresses[idx].port # 0 /\ addresses[idx].ip = None
  /\ pc = "config" => idx = 1
  /\ pc = "ready" => idx > Len(addresses)

\* The exchanges before the present one have ended, those after it have not begun.
Past == \A i \in Index : i < idx => Finished(i)
Future ==
  /\ \A i \in Index : i > idx => Untouched(i)
  /\ pc \in {"config", "loop", "listen", "dial", "lookup", "ready"} =>
       \A i \in Index : i = idx => Untouched(i)
Present ==
  /\ pc = "deadline" => reader[idx] = "none"
  /\ pc # "fatal" => \A i \in Index : Channels(i)

\* The targets are those of the addresses main has passed.
Collected == targets = {TargetOf(i) : i \in 1 .. idx - 1}

BootInv == TypeOK /\ Position /\ Past /\ Future /\ Present /\ Collected

-----------------------------------------------------------------------------
(* Configuration *)

\* The list that InitConfig leaves is one of addresses, within the bound.
LEMMA ConfigAddresses ==
  ASSUME TypeOK
  PROVE  /\ parseLBAddresses(flags) \in Seq(Address) /\ Len(parseLBAddresses(flags)) <= MaxAddresses
         /\ LoadConfig \in Seq(Address) /\ Len(LoadConfig) <= MaxAddresses
<1>1. flags \in Seq(Argument) /\ Len(flags) <= MaxAddresses /\ MaxAddresses \in Nat
  BY NodeBootAssumption DEF TypeOK
<1>2. /\ flags \in [1 .. Len(flags) -> Argument]
      /\ DOMAIN flags = 1 .. Len(flags) /\ Len(flags) \in Nat
  BY <1>1, SMTT(30)
<1>3. \A a \in Address : [a EXCEPT !.port = GetInt(@)] \in Address
  BY DEF Address, GetInt
<1>4. parseLBAddresses(flags) \in [1 .. Len(flags) -> Address]
  BY <1>2, <1>3 DEF parseLBAddresses, Argument
<1>5. parseLBAddresses(flags) \in Seq(Address) /\ Len(parseLBAddresses(flags)) = Len(flags)
  <2>1. parseLBAddresses(flags) \in Seq(Address)
    BY <1>2, <1>4, SMTT(30)
  <2>. QED
    BY <1>2, <1>4, <2>1, SMTT(30)
<1>6. file.addresses \in Seq(Address) /\ Len(file.addresses) <= MaxAddresses
  BY NodeBootAssumption DEF TypeOK
<1>7. <<>> \in Seq(Address) /\ Len(<<>>) <= MaxAddresses
  BY <1>1, SMTT(30)
<1>. QED
  BY <1>1, <1>5, <1>6, <1>7 DEF LoadConfig

\* Nothing has been resolved or started before main runs.
LEMMA InvInit == Init => BootInv
<1>. SUFFICES ASSUME Init
              PROVE  BootInv
  OBVIOUS
<1>. USE DEF Init
<1>1. <<>> \in Seq(Address) /\ Len(<<>>) = 0 /\ MaxAddresses \in Nat
  BY NodeBootAssumption, SMTT(30)
<1>2. TypeOK
  BY <1>1, SMTT(30) DEF TypeOK
<1>3. Position
  BY <1>1, SMTT(30) DEF Position
<1>4. Past /\ Future
  BY <1>1, SMTT(30) DEF Past, Future, Untouched, Index
<1>5. Present
  BY SMTT(30) DEF Present, Channels
<1>6. Collected
  BY SMTT(30) DEF Collected
<1>. QED
  BY <1>2, <1>3, <1>4, <1>5, <1>6 DEF BootInv

\* InitConfig: the addresses come from the flag, or from the file, or there are none.
LEMMA InvConfig ==
  ASSUME BootInv, InitConfig
  PROVE  BootInv'
<1>. USE DEF BootInv, InitConfig
<1>1. addresses' \in Seq(Address) /\ Len(addresses') <= MaxAddresses
  BY ConfigAddresses DEF TypeOK, Position
<1>2. TypeOK'
  BY <1>1 DEF TypeOK
<1>3. Len(addresses') \in Nat /\ MaxAddresses \in Nat /\ idx = 1
  BY <1>1, NodeBootAssumption, SMTT(30) DEF Position
<1>4. Position'
  BY <1>1, <1>3, SMTT(30) DEF Position
<1>5. Past' /\ Future' /\ Present'
  BY DEF Past, Future, Present, Finished, Untouched, Channels
<1>6. Collected'
  BY <1>3, SMTT(30) DEF Collected
<1>. QED
  BY <1>2, <1>4, <1>5, <1>6

-----------------------------------------------------------------------------
(* retrieveIPAndPorts and resolveHostname *)

\* Facts about the numbers involved.
LEMMA Bounds ==
  ASSUME BootInv
  PROVE  /\ MaxAddresses \in Nat /\ Len(addresses) \in Nat /\ Len(addresses) <= MaxAddresses
         /\ idx \in Nat /\ idx >= 1 /\ idx <= Len(addresses) + 1
         /\ DOMAIN addresses = 1 .. Len(addresses)
         /\ \A i \in 1 .. Len(addresses) : addresses[i] \in Address /\ i \in Index
         /\ idx <= Len(addresses) => idx \in Index
BY NodeBootAssumption, SMTT(30) DEF BootInv, TypeOK, Position, Index

\* The steps that only move main, to an error or to the next call.
LEMMA InvMove ==
  ASSUME BootInv,
         \/ Invalid \/ resolveHostname \/ Complete \/ ListenFails
         \/ DialFails \/ DialDNS \/ LookupFails
  PROVE  BootInv'
<1>. USE DEF Invalid, resolveHostname, Complete, ListenFails, DialFails, DialDNS, LookupFails,
             InLoop
<1>1. UNCHANGED <<file, flags, addresses, idx, targets, expired, exchange, answer>>
  OBVIOUS
<1>2. TypeOK'
  BY <1>1 DEF BootInv, TypeOK
<1>3. Position'
  BY <1>1 DEF BootInv, Position
<1>4. Past'
  BY <1>1 DEF BootInv, Past, Finished
<1>5. Future'
  BY <1>1 DEF BootInv, Future, Untouched
<1>6. Present'
  BY <1>1 DEF BootInv, Present, Channels
<1>7. Collected'
  BY <1>1 DEF BootInv, Collected, TargetOf
<1>. QED
  BY <1>2, <1>3, <1>4, <1>5, <1>6, <1>7 DEF BootInv

\* The timer of a resolution changes nothing else.
LEMMA InvExpires ==
  ASSUME BootInv, CtxExpires
  PROVE  BootInv'
<1>1. UNCHANGED <<file, flags, pc, addresses, idx, targets, exchange, answer>>
  BY DEF CtxExpires
<1>2. TypeOK'
  BY DEF BootInv, TypeOK, CtxExpires
<1>3. Position' /\ Collected'
  BY <1>1 DEF BootInv, Position, Collected, TargetOf
<1>4. Past' /\ Future' /\ Present'
  BY <1>1 DEF BootInv, Past, Finished, Future, Untouched, Present, Channels
<1>. QED
  BY <1>2, <1>3, <1>4 DEF BootInv

\* A target more: what AddTarget needs to keep the targets complete.
LEMMA CollectedAdd ==
  ASSUME BootInv, NEW ip, AddTarget(ip), idx <= Len(addresses), addresses' = addresses,
         \A i \in Index : i < idx => answer'[i] = answer[i],
         ip = IF addresses[idx].ip # None THEN addresses[idx].ip ELSE answer'[idx]
  PROVE  Collected'
<1>. PICK k \in Nat : k = idx
  BY Bounds
<1>1. 1 .. idx' - 1 = (1 .. k - 1) \cup {k}
  BY Bounds, SMTT(30) DEF AddTarget
<1>2. \A i \in 1 .. k - 1 : TargetOf(i)' = TargetOf(i)
  BY Bounds, SMTT(30) DEF TargetOf, Index
<1>3. TargetOf(k)' = [ip |-> ip, port |-> addresses[idx].port]
  BY DEF TargetOf
<1>4. targets' = {TargetOf(i) : i \in 1 .. k - 1} \cup {TargetOf(k)'}
  BY <1>3 DEF AddTarget, BootInv, Collected
<1>5. targets' = {TargetOf(i)' : i \in 1 .. idx' - 1}
  BY <1>1, <1>2, <1>4, SMTT(30)
<1>. QED
  BY <1>5 DEF Collected

\* AddTarget keeps types and position.
LEMMA AddTargetMoves ==
  ASSUME BootInv, NEW ip \in IP, AddTarget(ip), idx <= Len(addresses), addresses[idx].port # 0,
         addresses' = addresses
  PROVE  /\ Position'
         /\ pc' = "loop" /\ idx' = idx + 1 /\ idx' \in 1 .. MaxAddresses + 1
         /\ targets' \subseteq [ip : IP, port : Port]
<1>1. idx' = idx + 1 /\ pc' = "loop"
  BY DEF AddTarget
<1>2. Position'
  BY <1>1, Bounds, SMTT(30) DEF Position
<1>3. addresses[idx].port \in Port
  BY Bounds, SMTT(30) DEF Address
<1>. QED
  BY <1>1, <1>2, <1>3, Bounds, SMTT(30) DEF AddTarget, BootInv, TypeOK

\* The address has its IP.
LEMMA InvUseIP ==
  ASSUME BootInv, UseIP
  PROVE  BootInv'
<1>1. idx <= Len(addresses) /\ addresses' = addresses /\ answer' = answer
  BY DEF UseIP, InLoop
<1>2. addresses[idx].ip \in IP
  BY <1>1, Bounds, SMTT(30) DEF UseIP, Address
<1>3. /\ Position'
      /\ pc' = "loop" /\ idx' = idx + 1 /\ idx' \in 1 .. MaxAddresses + 1
      /\ targets' \subseteq [ip : IP, port : Port]
  BY <1>1, <1>2, AddTargetMoves DEF UseIP
<1>4. TypeOK'
  BY <1>3 DEF BootInv, TypeOK, UseIP
<1>5. Collected'
  BY <1>1, CollectedAdd DEF UseIP
<1>6. Untouched(idx) \/ idx \notin Index
  BY DEF UseIP, InLoop, BootInv, Future
<1>7. Past'
  BY <1>3, <1>6, Bounds, SMTT(30) DEF UseIP, BootInv, Past, Finished, Untouched, Index
<1>8. Future'
  BY <1>3, Bounds, SMTT(30) DEF UseIP, BootInv, Future, Untouched, Index
<1>9. Present'
  BY <1>3 DEF UseIP, InLoop, BootInv, Present, Channels
<1>. QED
  BY <1>3, <1>4, <1>5, <1>7, <1>8, <1>9 DEF BootInv

\* LookupHost has an answer.
LEMMA InvLookup ==
  ASSUME BootInv, NEW ip \in IP, Lookup(ip)
  PROVE  BootInv'
<1>1. /\ idx <= Len(addresses) /\ addresses' = addresses /\ idx \in Index
      /\ addresses[idx].port # 0 /\ addresses[idx].ip = None
  BY Bounds DEF Lookup, BootInv, Position
<1>2. answer' = [answer EXCEPT ![idx] = ip] /\ answer'[idx] = ip
  BY <1>1 DEF Lookup, BootInv, TypeOK
<1>3. /\ Position'
      /\ pc' = "loop" /\ idx' = idx + 1 /\ idx' \in 1 .. MaxAddresses + 1
      /\ targets' \subseteq [ip : IP, port : Port]
  BY <1>1, AddTargetMoves DEF Lookup
<1>4. TypeOK'
  BY <1>2, <1>3 DEF BootInv, TypeOK, Lookup
<1>5. Collected'
  <2>1. \A i \in Index : i < idx => answer'[i] = answer[i]
    BY <1>2, Bounds, SMTT(30) DEF BootInv, TypeOK, Index
  <2>. QED
    BY <2>1, <1>1, <1>2, CollectedAdd DEF Lookup
<1>6. Untouched(idx)
  BY <1>1 DEF Lookup, BootInv, Future
<1>7. Past'
  BY <1>3, <1>6, Bounds, SMTT(30) DEF Lookup, BootInv, Past, Finished, Untouched, Index
<1>8. Future'
  BY <1>3, Bounds, SMTT(30) DEF Lookup, BootInv, Future, Untouched, Index
<1>9. Present'
  <2>. SUFFICES ASSUME NEW i \in Index
                PROVE  Channels(i)'
    BY <1>3 DEF Present
  <2>1. Channels(i)
    BY DEF Lookup, BootInv, Present
  <2>2. CASE i = idx
    BY <2>2, <1>6, SMTT(30) DEF Lookup, Channels, Untouched
  <2>3. CASE i # idx
    BY <2>1, <2>3, <1>2 DEF Lookup, Channels, BootInv, TypeOK
  <2>. QED
    BY <2>2, <2>3
<1>. QED
  BY <1>3, <1>4, <1>5, <1>7, <1>8, <1>9 DEF BootInv

\* main receives the answer of the exchange, whose goroutines have both ended.
LEMMA InvSelectResp ==
  ASSUME BootInv, SelectResp
  PROVE  BootInv'
<1>1. /\ idx <= Len(addresses) /\ addresses' = addresses /\ idx \in Index
      /\ addresses[idx].port # 0 /\ addresses[idx].ip = None /\ answer' = answer
  BY Bounds DEF SelectResp, BootInv, Position
<1>2. /\ Channels(idx) /\ respChan[idx] # None /\ respChan[idx] \in IP
      /\ respChan[idx] = answer[idx]
  BY <1>1 DEF SelectResp, BootInv, TypeOK, Present, Channels
<1>3. /\ Position'
      /\ pc' = "loop" /\ idx' = idx + 1 /\ idx' \in 1 .. MaxAddresses + 1
      /\ targets' \subseteq [ip : IP, port : Port]
  BY <1>1, <1>2, AddTargetMoves DEF SelectResp
<1>4. TypeOK'
  BY <1>1, <1>3 DEF BootInv, TypeOK, SelectResp
<1>5. Collected'
  BY <1>1, <1>2, CollectedAdd DEF SelectResp
<1>6. Past'
  <2>. SUFFICES ASSUME NEW i \in Index, i < idx'
                PROVE  Finished(i)'
    BY DEF Past
  <2>1. CASE i = idx
    BY <2>1, <1>1, <1>2 DEF SelectResp, Finished, Channels, BootInv, TypeOK
  <2>2. CASE i # idx
    <3>1. i < idx
      BY <2>2, <1>3, Bounds, SMTT(30) DEF Index
    <3>. QED
      BY <2>2, <3>1 DEF SelectResp, Finished, BootInv, TypeOK, Past
  <2>. QED
    BY <2>1, <2>2
<1>7. Future'
  <2>1. ASSUME NEW i \in Index, i >= idx + 1
        PROVE  Untouched(i)'
    <3>1. i > idx /\ i # idx
      BY <2>1, Bounds, SMTT(30) DEF Index
    <3>. QED
      BY <3>1 DEF SelectResp, BootInv, TypeOK, Future, Untouched
  <2>. QED
    BY <2>1, <1>3, Bounds, SMTT(30) DEF Future, Index
<1>8. Present'
  <2>. SUFFICES ASSUME NEW i \in Index
                PROVE  Channels(i)'
    BY <1>3 DEF Present
  <2>1. Channels(i)
    BY DEF SelectResp, BootInv, Present
  <2>. QED
    BY <2>1, <1>1 DEF SelectResp, Channels, BootInv, TypeOK
<1>. QED
  BY <1>3, <1>4, <1>5, <1>6, <1>7, <1>8 DEF BootInv

\* The process ends: sockets and goroutines are gone, the channels are of no account.
LEMMA InvFatal ==
  ASSUME BootInv, Fatal
  PROVE  BootInv'
<1>. USE DEF BootInv, Fatal
<1>1. TypeOK'
  BY DEF TypeOK
<1>2. Position' /\ Collected'
  BY DEF Position, Collected, TargetOf
<1>3. Past' /\ Future' /\ Present'
  BY DEF Past, Future, Present, Finished, Untouched
<1>. QED
  BY <1>1, <1>2, <1>3

-----------------------------------------------------------------------------
(* sendAndReceiveMDNS *)

\* A step within the exchange of one address leaves the other exchanges, the targets and
\* main's position as they are.
LEMMA InvExchange ==
  ASSUME BootInv, NEW i \in Index, i = idx,
         UNCHANGED <<addresses, idx, targets>>, TypeOK', Position',
         \A j \in Index \ {i} :
           /\ conn'[j] = conn[j] /\ writer'[j] = writer[j] /\ reader'[j] = reader[j]
           /\ errChan'[j] = errChan[j] /\ respChan'[j] = respChan[j] /\ answer'[j] = answer[j],
         pc' \in {"deadline", "select", "failed", "fatal"},
         pc' = "deadline" => reader'[i] = "none",
         pc' # "fatal" => pc # "fatal" /\ Channels(i)'
  PROVE  BootInv'
<1>1. Past'
  BY Bounds, SMTT(30) DEF BootInv, Past, Finished, Index
<1>2. Future'
  BY Bounds, SMTT(30) DEF BootInv, Future, Untouched, Index
<1>3. Present'
  <2>1. ASSUME pc' # "fatal", NEW j \in Index
        PROVE  Channels(j)'
    <3>1. CASE j = i
      BY <3>1, <2>1
    <3>2. CASE j # i
      BY <3>2, <2>1, SMTT(30) DEF BootInv, Present, Channels
    <3>. QED
      BY <3>1, <3>2
  <2>. QED
    BY <2>1 DEF Present
<1>4. Collected'
  <2>1. \A j \in 1 .. idx - 1 : TargetOf(j)' = TargetOf(j)
    BY Bounds, SMTT(30) DEF TargetOf, Index
  <2>. QED
    BY <2>1, SMTT(30) DEF BootInv, Collected
<1>. QED
  BY <1>1, <1>2, <1>3, <1>4 DEF BootInv

\* The steps of main in the exchange: the socket, the deadline and the select.
LEMMA InvSelect ==
  ASSUME BootInv,
         \/ Listen \/ SetReadDeadlineFails \/ SetReadDeadline \/ SelectDone \/ SelectErr
  PROVE  BootInv'
<1>. USE DEF Listen, SetReadDeadlineFails, SetReadDeadline, SelectDone, SelectErr
<1>. PICK i \in Index : i = idx
  BY Bounds DEF BootInv, Position
<1>1. /\ pc # "fatal" /\ pc' \in {"deadline", "select", "failed"}
      /\ UNCHANGED <<addresses, idx, targets, answer, respChan>>
  OBVIOUS
<1>2. TypeOK'
  BY SMTT(30) DEF BootInv, TypeOK
<1>3. Position'
  BY DEF BootInv, Position
<1>4. \A j \in Index \ {i} :
        /\ conn'[j] = conn[j] /\ writer'[j] = writer[j] /\ reader'[j] = reader[j]
        /\ errChan'[j] = errChan[j] /\ respChan'[j] = respChan[j] /\ answer'[j] = answer[j]
  BY DEF BootInv, TypeOK
<1>5. Channels(i)
  BY <1>1 DEF BootInv, Present
<1>6. Channels(i)' /\ (pc' = "deadline" => reader'[i] = "none")
  <2>1. CASE Listen
    <3>1. Untouched(i)
      BY <2>1 DEF BootInv, Future
    <3>. QED
      BY <2>1, <3>1, SMTT(30) DEF Channels, Untouched, BootInv, TypeOK
  <2>2. CASE SetReadDeadlineFails \/ SelectDone
    BY <2>2, <1>5 DEF Channels
  <2>3. CASE SetReadDeadline
    <3>1. reader[i] = "none"
      BY <2>3 DEF BootInv, Present
    <3>. QED
      BY <2>3, <3>1, <1>5 DEF Channels, BootInv, TypeOK
  <2>4. CASE SelectErr
    BY <2>4, <1>5 DEF Channels, BootInv, TypeOK
  <2>. QED
    BY <2>1, <2>2, <2>3, <2>4
<1>. QED
  BY <1>1, <1>2, <1>3, <1>4, <1>6, InvExchange

\* The two goroutines: only those of the present exchange are there to take a step.
LEMMA InvGoroutine ==
  ASSUME BootInv, NEW i \in Index, Writer(i) \/ Reader(i)
  PROVE  BootInv'
<1>. USE DEF Writer, Reader, WriteTo, WriterSendsErr, ReadFails, ReaderSendsErr,
             ReaderSendsResp, ReadAnswer
<1>1. /\ UNCHANGED <<file, flags, pc, addresses, idx, targets, expired, conn>>
      /\ writer[i] \in {"write", "sendErr"} \/ reader[i] \in {"read", "sendErr", "sendResp"}
  OBVIOUS
<1>2. i = idx
  BY <1>1, Bounds, SMTT(30) DEF BootInv, Past, Future, Finished, Untouched, Index
<1>3. pc \in {"deadline", "select", "failed", "fatal"}
  BY <1>1, <1>2 DEF BootInv, TypeOK, Future, Untouched
<1>4. TypeOK'
  <2>1. errChan' \in [Index -> 0 .. 1]
    BY SMTT(30) DEF BootInv, TypeOK, ErrChanHasRoom
  <2>. QED
    BY <2>1, SMTT(30) DEF BootInv, TypeOK
<1>5. Position'
  BY <1>1 DEF BootInv, Position
<1>6. \A j \in Index \ {i} :
        /\ conn'[j] = conn[j] /\ writer'[j] = writer[j] /\ reader'[j] = reader[j]
        /\ errChan'[j] = errChan[j] /\ respChan'[j] = respChan[j] /\ answer'[j] = answer[j]
  BY DEF BootInv, TypeOK
<1>7. ASSUME pc # "fatal"
      PROVE  Channels(i)'
  <2>1. Channels(i)
    BY <1>7 DEF BootInv, Present
  <2>2. CASE Writer(i)
    BY <2>1, <2>2 DEF Channels, BootInv, TypeOK
  <2>3. CASE ReadFails(i) \/ ReaderSendsErr(i)
    BY <2>1, <2>3 DEF Channels, BootInv, TypeOK
  <2>4. CASE ReaderSendsResp(i)
    BY <2>1, <2>4, SMTT(30) DEF Channels, BootInv, TypeOK
  <2>5. ASSUME NEW ip \in IP, ReadAnswer(i, ip)
        PROVE  Channels(i)'
    BY <2>1, <2>5, NodeBootAssumption DEF Channels, BootInv, TypeOK
  <2>. QED
    BY <2>2, <2>3, <2>4, <2>5
<1>8. pc' = "deadline" => reader'[i] = "none"
  BY <1>1, <1>2 DEF BootInv, Present, TypeOK
<1>. QED
  BY <1>1, <1>2, <1>3, <1>4, <1>5, <1>6, <1>7, <1>8, InvExchange

-----------------------------------------------------------------------------
(* Theorems *)

\* Every step preserves the invariant.
LEMMA InvStep == BootInv /\ [Next]_vars => BootInv'
<1>. SUFFICES ASSUME BootInv, [Next]_vars
              PROVE  BootInv'
  OBVIOUS
<1>1. CASE Main
  BY <1>1, InvConfig, InvMove, InvUseIP, InvLookup, InvSelectResp, InvFatal, InvSelect DEF Main
<1>2. CASE CtxExpires
  BY <1>2, InvExpires
<1>3. CASE \E i \in Index : Writer(i) \/ Reader(i)
  BY <1>3, InvGoroutine
<1>4. CASE UNCHANGED vars
  <2>1. TypeOK' /\ Position' /\ Collected'
    BY <1>4, SMTT(30) DEF BootInv, TypeOK, Position, Collected, TargetOf
  <2>2. Past' /\ Future' /\ Present'
    BY <1>4 DEF BootInv, Past, Future, Present, Finished, Untouched, Channels
  <2>. QED
    BY <2>1, <2>2 DEF BootInv
<1>. QED
  BY <1>1, <1>2, <1>3, <1>4 DEF Next, Booted

\* The invariant holds whatever the configuration is and whoever answers.
LEMMA InvHolds == Spec => []BootInv
BY InvInit, InvStep, PTL DEF Spec

\* TypeOK: no channel ever holds more than its buffer, no target lacks an IP or a port.
THEOREM TypeCorrect == Spec => []TypeOK
<1>1. BootInv => TypeOK
  BY DEF BootInv
<1>. QED
  BY <1>1, InvHolds, PTL

\* TargetsComplete: retrieveIPAndPorts returns one target for every address, each with the
\* answer of its own resolution.
THEOREM TargetsAreComplete == Spec => []TargetsComplete
<1>1. BootInv => TargetsComplete
  <2>. SUFFICES ASSUME BootInv, pc = "ready"
                PROVE  targets = {TargetOf(i) : i \in DOMAIN addresses}
    BY DEF TargetsComplete, TargetOf
  <2>1. 1 .. idx - 1 = DOMAIN addresses
    BY Bounds, SMTT(30) DEF BootInv, Position
  <2>. QED
    BY <2>1 DEF BootInv, Collected
<1>. QED
  BY <1>1, InvHolds, PTL

\* NothingLeftRunning: when main goes on to the dispatcher every socket of the resolver is
\* closed and both goroutines of every exchange have returned.
THEOREM NothingRuns == Spec => []NothingLeftRunning
<1>1. BootInv => NothingLeftRunning
  <2>. SUFFICES ASSUME BootInv, pc = "ready", NEW i \in Index
                PROVE  Finished(i)
    BY DEF NothingLeftRunning, Finished
  <2>1. i < idx \/ i = idx \/ i > idx
    BY Bounds, SMTT(30) DEF Index
  <2>. QED
    BY <2>1 DEF BootInv, Past, Future, Finished, Untouched
<1>. QED
  BY <1>1, InvHolds, PTL

\* StuckOnlyIfBothFail: a goroutine of sendAndReceiveMDNS that waits for room in errChan
\* after the select waits because the other one has put its error there.
THEOREM StuckIfBothFail == Spec => []StuckOnlyIfBothFail
<1>1. BootInv => StuckOnlyIfBothFail
  BY SMTT(30) DEF BootInv, TypeOK, Present, Channels, StuckOnlyIfBothFail, ErrChanHasRoom
<1>. QED
  BY <1>1, InvHolds, PTL

-----------------------------------------------------------------------------
(* A node with address flags *)

\* Such a node is before its configuration, at its first address, which has port 0, or has
\* given up.
FirstPortZero ==
  flags # <<>> =>
    /\ pc \in {"config", "loop", "failed", "fatal"} /\ idx = 1 /\ targets = {}
    /\ pc = "loop" => addresses # <<>> /\ addresses[1].port = 0

\* InitConfig has read every port as 0, and Invalid is all that can follow.
LEMMA FlagsStep == TypeOK /\ FirstPortZero /\ [Next]_vars => FirstPortZero'
<1>. SUFFICES ASSUME TypeOK, FirstPortZero, [Next]_vars, flags # <<>>, flags' = flags
              PROVE  FirstPortZero'
  BY DEF FirstPortZero, Next, Main, InitConfig, Invalid, UseIP, resolveHostname, Complete,
     Fatal, ListenFails, Listen, SetReadDeadlineFails, SetReadDeadline, SelectDone, SelectErr,
     SelectResp, DialFails, DialDNS, LookupFails, Lookup, CtxExpires, Writer, WriteTo,
     WriterSendsErr, Reader, ReadFails, ReaderSendsErr, ReaderSendsResp, ReadAnswer, Booted
<1>. USE DEF FirstPortZero
<1>1. CASE InitConfig
  <2>1. flags \in Seq(Argument)
    BY NodeBootAssumption DEF TypeOK
  <2>2. 1 \in DOMAIN flags /\ flags[1].address \in Address
    <3>1. 1 \in DOMAIN flags /\ flags[1] \in Argument
      BY <2>1, SMTT(30)
    <3>. QED
      BY <3>1 DEF Argument
  <2>3. parseLBAddresses(flags) # <<>> /\ parseLBAddresses(flags)[1].port = 0
    <3>1. DOMAIN parseLBAddresses(flags) = DOMAIN flags
      BY DEF parseLBAddresses
    <3>2. parseLBAddresses(flags) # <<>>
      BY <2>2, <3>1, SMTT(30)
    <3>3. parseLBAddresses(flags)[1] = [flags[1].address EXCEPT !.port = 0]
      BY <2>2 DEF parseLBAddresses, GetInt
    <3>. QED
      BY <2>2, <3>2, <3>3 DEF Address
  <2>. QED
    BY <1>1, <2>3 DEF InitConfig
<1>2. CASE Invalid \/ Fatal
  BY <1>2 DEF Invalid, Fatal
<1>3. CASE UseIP \/ resolveHostname \/ Complete
  <2>1. pc = "loop" /\ idx = 1 /\ addresses # <<>> /\ addresses[1].port = 0
    BY <1>3 DEF UseIP, resolveHostname, Complete, InLoop
  <2>2. addresses \in Seq(Address)
    BY DEF TypeOK
  <2>3. ~(idx > Len(addresses))
    BY <2>1, <2>2, SMTT(30)
  <2>. QED
    BY <1>3, <2>1, <2>3 DEF UseIP, resolveHostname, Complete
<1>4. CASE ListenFails \/ Listen \/ SetReadDeadlineFails \/ SetReadDeadline \/ SelectDone
           \/ SelectErr \/ SelectResp \/ DialFails \/ DialDNS \/ LookupFails
           \/ (\E ip \in IP : Lookup(ip)) \/ CtxExpires
  BY <1>4 DEF ListenFails, Listen, SetReadDeadlineFails, SetReadDeadline, SelectDone,
     SelectErr, SelectResp, DialFails, DialDNS, LookupFails, Lookup, CtxExpires
<1>5. ASSUME NEW i \in Index, Writer(i) \/ Reader(i)
      PROVE  UNCHANGED <<flags, pc, idx, targets, addresses>>
  BY <1>5 DEF Writer, WriteTo, WriterSendsErr, Reader, ReadFails, ReaderSendsErr,
     ReaderSendsResp, ReadAnswer
<1>6. CASE UNCHANGED vars
  BY <1>6
<1>. QED
  BY <1>1, <1>2, <1>3, <1>4, <1>5, <1>6 DEF Next, Main, Booted

\* FlagsNeverBoot: no arguments of the address flag, no file and no answer of a resolver
\* take a node to its dispatcher once the flag is given.
THEOREM FlagsFail == Spec => []FlagsNeverBoot
<1>1. Init => FirstPortZero
  BY DEF Init, FirstPortZero
<1>2. FirstPortZero => FlagsNeverBoot
  BY DEF FirstPortZero, FlagsNeverBoot
<1>. QED
  BY <1>1, <1>2, FlagsStep, TypeCorrect, PTL DEF Spec

-----------------------------------------------------------------------------
(* The boot runs down *)

\* The most steps main has to take for the present address.
PlaceWork ==
  CASE pc = "config" -> 6
    [] pc = "loop" -> 5
    [] pc \in {"listen", "dial"} -> 4
    [] pc \in {"deadline", "lookup"} -> 3
    [] pc = "select" -> 2
    [] pc = "failed" -> 1
    [] OTHER -> 0

\* The most steps main has to take.
BootWork == 6 * (MaxAddresses + 1 - idx) + PlaceWork

\* Every step of main leaves less to do: main takes at most 6 * MaxAddresses + 6 steps,
\* whoever answers, and no other step gives it more.
THEOREM MainRunsDown ==
  Spec => [][(Main => BootWork' < BootWork) /\ BootWork' <= BootWork /\ BootWork' >= 0]_vars
<1>. DEFINE Down == (Main => BootWork' < BootWork) /\ BootWork' <= BootWork /\ BootWork' >= 0
<1>1. ASSUME BootInv, BootInv', Next
      PROVE  Down
  <2>0. /\ MaxAddresses \in Nat /\ idx \in 1 .. MaxAddresses + 1
        /\ idx' \in 1 .. MaxAddresses + 1
    BY <1>1, NodeBootAssumption DEF BootInv, TypeOK
  <2>1. PlaceWork \in 0 .. 6 /\ PlaceWork' \in 0 .. 6
    BY SMTT(30) DEF PlaceWork
  <2>2. Main => \/ idx' = idx /\ PlaceWork' < PlaceWork
                \/ idx' = idx + 1 /\ PlaceWork' = 5
    <3>1. CASE InitConfig \/ Invalid \/ resolveHostname \/ Complete \/ Fatal
      BY <3>1, SMTT(30) DEF InitConfig, Invalid, resolveHostname, Complete, Fatal, InLoop,
         PlaceWork
    <3>2. CASE ListenFails \/ Listen \/ SetReadDeadlineFails \/ SetReadDeadline
      BY <3>2, SMTT(30) DEF ListenFails, Listen, SetReadDeadlineFails, SetReadDeadline,
         PlaceWork
    <3>3. CASE SelectDone \/ SelectErr \/ DialFails \/ DialDNS \/ LookupFails
      BY <3>3, SMTT(30) DEF SelectDone, SelectErr, DialFails, DialDNS, LookupFails, PlaceWork
    <3>4. CASE UseIP \/ SelectResp \/ \E ip \in IP : Lookup(ip)
      BY <3>4, SMTT(30) DEF UseIP, SelectResp, Lookup, AddTarget, PlaceWork
    <3>. QED
      BY <3>1, <3>2, <3>3, <3>4 DEF Main
  <2>3. ~Main => UNCHANGED <<pc, idx>>
    BY <1>1 DEF Next, CtxExpires, Writer, WriteTo, WriterSendsErr, Reader, ReadFails,
       ReaderSendsErr, ReaderSendsResp, ReadAnswer, Booted
  <2>4. ~Main => PlaceWork' = PlaceWork /\ idx' = idx
    BY <2>3 DEF PlaceWork
  <2>5. PICK p \in 0 .. 6, q \in 0 .. 6 : p = PlaceWork /\ q = PlaceWork'
    BY <2>1
  <2>6. PICK i \in 1 .. MaxAddresses + 1, j \in 1 .. MaxAddresses + 1 : i = idx /\ j = idx'
    BY <2>0
  <2>7. /\ Main => (j = i /\ q < p) \/ (j = i + 1 /\ q = 5)
        /\ ~Main => j = i /\ q = p
    BY <2>2, <2>4, <2>5, <2>6
  <2>. DEFINE before == 6 * (MaxAddresses + 1 - i) + p
              after == 6 * (MaxAddresses + 1 - j) + q
  <2>8. BootWork = before /\ BootWork' = after
    BY <2>5, <2>6 DEF BootWork
  <2>9. /\ (j = i /\ q < p) \/ (j = i + 1 /\ q = 5) => after < before /\ after <= before
        /\ j = i /\ q = p => after <= before
        /\ after >= 0
    BY <2>0, SMTT(30)
  <2>. HIDE DEF before, after
  <2>. QED
    BY <2>7, <2>8, <2>9
<1>2. BootInv /\ BootInv' /\ [Next]_vars => [Down]_vars
  BY <1>1
<1>. QED
  BY <1>2, InvHolds, PTL DEF Spec
=============================================================================
