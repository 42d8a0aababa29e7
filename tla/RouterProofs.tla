---------------------------- MODULE RouterProofs ----------------------------
(***************************************************************************)
(* Proofs about Router, with its ring and its packet programs, for every   *)
(* size of the connection map and every set of clients.                    *)
(***************************************************************************)
EXTENDS Router, RingProofs

\* A leaf that names no prover is one for Zenon.
USE ZenonT(30)

\* The groups of variables are transparent.
USE DEF loaderVars, routerVars, packetVars

-----------------------------------------------------------------------------
(* The connection map *)

\* Every tracked connection is one of a client with the load balancer's target port, and
\* the map has the client's address for it.
Tracked ==
  \A t \in DOMAIN conntrack_map :
    t.dst_ip = LB_IP /\ t.dst_port = TARGET_PORT /\ conntrack_map[t] = t.src_ip

PacketInv ==
  /\ PacketTypeOK
  /\ IsFiniteSet(DOMAIN conntrack_map)
  /\ Tracked
  /\ RepliesNotRestored

\* An empty map, at the start and after the collection is closed.
LEMMA PacketInvEmpty ==
  ASSUME conntrack_map = <<>>, snatted = {}
  PROVE  PacketInv
<1>1. DOMAIN conntrack_map = {}
  BY SMTT(30)
<1>2. IsFiniteSet(DOMAIN conntrack_map) /\ Cardinality(DOMAIN conntrack_map) = 0
  BY <1>1, FS_EmptySet
<1>. QED
  BY <1>1, <1>2, PacketAssumption, SMTT(30) DEF PacketInv, PacketTypeOK, Tracked, RepliesNotRestored

\* The map takes a tuple and stays within max_entries: what it evicts makes the room.
LEMMA UpdateFits ==
  ASSUME PacketInv, NEW tuple, NEW ip, update(tuple, ip)
  PROVE  /\ IsFiniteSet(DOMAIN conntrack_map')
         /\ Cardinality(DOMAIN conntrack_map') <= MaxConntrack
         /\ DOMAIN conntrack_map' \subseteq DOMAIN conntrack_map \cup {tuple}
         /\ \A t \in DOMAIN conntrack_map' :
              conntrack_map'[t] = IF t = tuple THEN ip ELSE conntrack_map[t]
<1>. DEFINE D == DOMAIN conntrack_map
<1>1. PICK gone \in evictions(tuple) :
        conntrack_map' = [t \in (D \cup {tuple}) \ gone |->
                            IF t = tuple THEN ip ELSE conntrack_map[t]]
  BY DEF update
<1>2. DOMAIN conntrack_map' = (D \cup {tuple}) \ gone
  BY <1>1
<1>3. /\ IsFiniteSet(D) /\ Cardinality(D) \in Nat /\ Cardinality(D) <= MaxConntrack
      /\ MaxConntrack \in Nat
  BY FS_CardinalityType, PacketAssumption DEF PacketInv, PacketTypeOK
<1>4. /\ IsFiniteSet(D \cup {tuple})
      /\ Cardinality(D \cup {tuple}) = IF tuple \in D THEN Cardinality(D) ELSE Cardinality(D) + 1
  BY <1>3, FS_AddElement
<1>5. /\ IsFiniteSet((D \cup {tuple}) \ gone)
      /\ Cardinality((D \cup {tuple}) \ gone) <= MaxConntrack
  <2>1. CASE tuple \in D \/ Cardinality(D) < MaxConntrack
    <3>1. gone = {}
      BY <2>1 DEF evictions
    <3>2. (D \cup {tuple}) \ gone = D \cup {tuple}
      BY <3>1
    <3>. QED
      BY <2>1, <3>2, <1>3, <1>4, SMTT(30)
  <2>2. CASE ~(tuple \in D \/ Cardinality(D) < MaxConntrack)
    <3>1. PICK t \in D : gone = {t}
      BY <2>2 DEF evictions
    <3>2. /\ IsFiniteSet((D \cup {tuple}) \ {t})
          /\ Cardinality((D \cup {tuple}) \ {t}) = Cardinality(D \cup {tuple}) - 1
      BY <1>4, FS_RemoveElement
    <3>. QED
      BY <2>2, <3>1, <3>2, <1>3, <1>4, SMTT(30)
  <2>. QED
    BY <2>1, <2>2
<1>. QED
  BY <1>1, <1>2, <1>5

\* dnat_prog tracks the tuple of the request as it came in.
LEMMA PacketInvIngress ==
  ASSUME PacketInv, NEW p \in Incoming, dnat_prog(p)
  PROVE  PacketInv'
<1>1. /\ p.tuple \in conn_tuple /\ p.tuple.src_ip \in Host
      /\ p.tuple.dst_ip = LB_IP /\ p.tuple.dst_port = TARGET_PORT
  BY DEF Incoming, Packet, Host, dnat_prog, conn_tuple
<1>2. /\ IsFiniteSet(DOMAIN conntrack_map')
      /\ Cardinality(DOMAIN conntrack_map') <= MaxConntrack
      /\ DOMAIN conntrack_map' \subseteq DOMAIN conntrack_map \cup {p.tuple}
      /\ \A t \in DOMAIN conntrack_map' :
           conntrack_map'[t] = IF t = p.tuple THEN p.tuple.src_ip ELSE conntrack_map[t]
  BY UpdateFits DEF dnat_prog
<1>3. snatted' = snatted
  BY DEF dnat_prog
<1>4. PacketTypeOK'
  BY <1>1, <1>2, <1>3 DEF PacketInv, PacketTypeOK
<1>5. Tracked'
  BY <1>1, <1>2 DEF PacketInv, Tracked
<1>6. RepliesNotRestored'
  BY <1>3 DEF PacketInv, RepliesNotRestored
<1>. QED
  BY <1>2, <1>4, <1>5, <1>6 DEF PacketInv

\* snat_prog matches only packets whose reverse is tracked, which no reply's is.
LEMMA PacketInvEgress ==
  ASSUME PacketInv, NEW p \in Outgoing, snat_prog(p)
  PROVE  PacketInv'
<1>. DEFINE rev == rev_tuple(p)
            hit == p.parsed /\ rev \in DOMAIN conntrack_map
            after == IF hit THEN [p EXCEPT !.tuple.src_ip = conntrack_map[rev]] ELSE p
<1>1. snatted' = {<<p, after>>} /\ conntrack_map' = conntrack_map
  BY DEF snat_prog
<1>2. p \in Packet /\ p.tuple \in conn_tuple
  BY DEF Outgoing, Packet
<1>3. /\ rev.dst_ip = p.tuple.src_ip /\ rev.dst_port = p.tuple.src_port
      /\ rev.src_ip = p.tuple.dst_ip
  BY DEF rev_tuple
<1>4. hit => /\ p.tuple.src_ip = LB_IP
             /\ p.tuple.src_port = TARGET_PORT
             /\ conntrack_map[rev] = p.tuple.dst_ip
  BY <1>3 DEF PacketInv, Tracked
<1>5. hit => conntrack_map[rev] \in Host
  BY DEF PacketInv, PacketTypeOK
<1>. HIDE DEF rev
<1>6. after \in Packet
  <2>1. CASE hit
    <3>1. [p.tuple EXCEPT !.src_ip = conntrack_map[rev]] \in conn_tuple
      BY <2>1, <1>2, <1>5 DEF conn_tuple
    <3>2. after = [p EXCEPT !.tuple = [p.tuple EXCEPT !.src_ip = conntrack_map[rev]]]
      BY <2>1, <1>2 DEF Packet
    <3>. QED
      BY <3>1, <3>2, <1>2 DEF Packet
  <2>. QED
    BY <2>1, <1>2
<1>7. hit => after.tuple = [p.tuple EXCEPT !.src_ip = p.tuple.dst_ip]
  BY <1>2, <1>4 DEF Packet
<1>8. RepliesNotRestored'
  <2>1. after # p => hit
    OBVIOUS
  <2>. HIDE DEF after, hit
  <2>2. \A step \in snatted' : step[1] = p /\ step[2] = after
    BY <1>1, SMTT(30)
  <2>. QED
    BY <1>4, <1>7, <2>1, <2>2 DEF RepliesNotRestored
<1>9. PacketTypeOK'
  BY <1>1, <1>2, <1>6, SMTT(30) DEF PacketInv, PacketTypeOK
<1>. QED
  BY <1>1, <1>8, <1>9 DEF PacketInv, Tracked

\* A step that sees no packet.
LEMMA PacketInvStutter ==
  ASSUME PacketInv, UNCHANGED packetVars
  PROVE  PacketInv'
BY DEF PacketInv, PacketTypeOK, Tracked, RepliesNotRestored

-----------------------------------------------------------------------------
(* The router *)

\* There is no ring before New makes one.
NoRingYet == stage # "ready" => ring = <<>> /\ nodes = <<>> /\ members = {}

LoaderTypeOK ==
  /\ stage \in Stage
  /\ collection \in BOOLEAN
  /\ links \subseteq {"dnat_prog", "snat_prog"}
  /\ oneCard \in BOOLEAN

RouterInv ==
  RingInv /\ PacketInv /\ LoaderTypeOK /\ NoRingYet /\ NothingOutlivesLoad

\* Before New there is no slice, and the invariant of the ring holds of that.
LEMMA RingInvNone ==
  ASSUME hasher \in [Virtual -> Hash], ring = <<>>, nodes = <<>>, members = {}
  PROVE  RingInv
<1>1. DOMAIN ring = {} /\ DOMAIN nodes = {} /\ Range(nodes) = {} /\ Range(ring) = {}
  BY SMTT(30) DEF Range
<1>2. ring \in Seq(Hash)
  BY EmptySeq
<1>. QED
  BY <1>1, <1>2 DEF RingInv, TypeOK, Ordered, SameHashes, Owned

\* Nothing is loaded, tracked or on the ring before New.
LEMMA RouterInvInit == RouterInit => RouterInv
<1>. SUFFICES ASSUME RouterInit
              PROVE  RouterInv
  OBVIOUS
<1>1. hasher \in [Virtual -> Hash]
  BY RingAssumption, SMTT(30) DEF RouterInit, Hash
<1>2. RingInv
  BY <1>1, RingInvNone DEF RouterInit
<1>3. PacketInv
  BY PacketInvEmpty DEF RouterInit, noPackets
<1>. QED
  BY <1>2, <1>3 DEF RouterInit, RouterInv, LoaderTypeOK, Stage, NoRingYet,
     NothingOutlivesLoad

\* Each step of loadProgram before its return: ring and packets are as they were.
LEMMA RouterInvLoad ==
  ASSUME RouterInv,
         LoadSpec \/ NewCollection \/ Find \/ AttachDNAT \/ AttachSNAT \/ LoadError
  PROVE  RouterInv'
<1>. USE DEF LoadSpec, NewCollection, Find, AttachDNAT, AttachSNAT, LoadError
<1>1. UNCHANGED vars /\ UNCHANGED packetVars
  BY DEF vars
<1>2. RingInv'
  BY <1>1, RingInvStutter DEF RouterInv
<1>3. PacketInv'
  BY <1>1, PacketInvStutter DEF RouterInv
<1>4. LoaderTypeOK'
  BY DEF RouterInv, LoaderTypeOK, Stage
<1>5. NoRingYet' /\ NothingOutlivesLoad'
  BY <1>1 DEF RouterInv, NoRingYet, NothingOutlivesLoad, vars
<1>. QED
  BY <1>2, <1>3, <1>4, <1>5 DEF RouterInv

\* The return of loadProgram: the deferred calls run, and New makes a ring or fails.
LEMMA RouterInvReturn ==
  ASSUME RouterInv, New \/ NewFails
  PROVE  RouterInv'
<1>1. conntrack_map' = <<>> /\ snatted' = {} /\ links' = {} /\ collection' = FALSE
  BY DEF New, NewFails, Defers, closeMap
<1>2. PacketInv'
  <2>1. (conntrack_map = <<>> /\ snatted = {})'
    BY <1>1
  <2>. QED
    BY <2>1, PacketInvEmpty, PTL
<1>3. RingInv'
  <2>1. CASE New
    <3>1. (hasher \in [Virtual -> Hash] /\ newRing)'
      BY <2>1 DEF New, newRing, RouterInv, NoRingYet, zeroEntries
    <3>. QED
      BY <3>1, RingInvNew, PTL
  <2>2. CASE NewFails
    BY <2>2, RingInvStutter DEF NewFails, RouterInv, vars
  <2>. QED
    BY <2>1, <2>2
<1>4. LoaderTypeOK' /\ NothingOutlivesLoad'
  BY <1>1 DEF RouterInv, LoaderTypeOK, NothingOutlivesLoad, Stage, New, NewFails
<1>5. NoRingYet'
  BY DEF RouterInv, NoRingYet, New, NewFails, vars
<1>. QED
  BY <1>2, <1>3, <1>4, <1>5 DEF RouterInv

\* A packet, and a call of AddNode or RemoveNode.
LEMMA RouterInvUse ==
  ASSUME RouterInv,
         \/ \E p \in Incoming : Ingress(p)
         \/ \E p \in Outgoing : Egress(p)
         \/ \E n \in Node : AddNode(n) \/ RemoveNode(n)
  PROVE  RouterInv'
<1>1. UNCHANGED loaderVars
  BY DEF Ingress, Egress, AddNode, RemoveNode
<1>2. LoaderTypeOK' /\ NothingOutlivesLoad'
  BY <1>1 DEF RouterInv, LoaderTypeOK, NothingOutlivesLoad
<1>3. RingInv'
  <2>1. \/ UNCHANGED vars
        \/ \E n \in Node : addNode(n) \/ removeNode(n)
    BY DEF Ingress, Egress, AddNode, RemoveNode
  <2>. QED
    BY <2>1, RingInvAdd, RingInvRemove, RingInvStutter DEF RouterInv
<1>4. PacketInv'
  <2>1. \/ UNCHANGED packetVars
        \/ \E p \in Incoming : dnat_prog(p)
        \/ \E p \in Outgoing : snat_prog(p)
    BY DEF Ingress, Egress, AddNode, RemoveNode
  <2>. QED
    BY <2>1, PacketInvIngress, PacketInvEgress, PacketInvStutter DEF RouterInv
<1>5. NoRingYet'
  BY <1>1 DEF RouterInv, NoRingYet, Ingress, Egress, AddNode, RemoveNode, vars
<1>. QED
  BY <1>2, <1>3, <1>4, <1>5 DEF RouterInv

\* Every step of the loader, the ring and the packet programs keeps the invariant.
LEMMA RouterInvStep == RouterInv /\ [RouterNext]_routerVars => RouterInv'
<1>. SUFFICES ASSUME RouterInv, [RouterNext]_routerVars
              PROVE  RouterInv'
  OBVIOUS
<1>1. CASE RouterNext
  BY <1>1, RouterInvLoad, RouterInvReturn, RouterInvUse DEF RouterNext
<1>2. CASE UNCHANGED routerVars
  BY <1>2, RingInvStutter, PacketInvStutter
     DEF RouterInv, LoaderTypeOK, NoRingYet, NothingOutlivesLoad, vars
<1>. QED
  BY <1>1, <1>2

\* RouterInv is an invariant.
LEMMA RouterInvHolds == RouterSpec => []RouterInv
BY RouterInvInit, RouterInvStep, PTL DEF RouterSpec

-----------------------------------------------------------------------------
(* Theorems *)

\* RouterTypeOK: the connection map never has more than max_entries entries, and slice and
\* map of the ring hold hashes and nodes.
THEOREM RouterTypeCorrect == RouterSpec => []RouterTypeOK
<1>1. RouterInv => RouterTypeOK
  BY DEF RouterInv, RouterTypeOK, RingInv, PacketInv, LoaderTypeOK
<1>. QED
  BY <1>1, RouterInvHolds, PTL

\* NothingOutlivesLoad: whichever way loadProgram returns, its deferred calls detach the
\* programs and close the collection.
THEOREM NothingOutlives == RouterSpec => []NothingOutlivesLoad
<1>1. RouterInv => NothingOutlivesLoad
  BY DEF RouterInv
<1>. QED
  BY <1>1, RouterInvHolds, PTL

\* RepliesNotRestored: snat_prog changes no packet of the backend, whatever dnat_prog
\* tracked and the map evicted.
THEOREM RepliesPass == RouterSpec => []RepliesNotRestored
<1>1. RouterInv => RepliesNotRestored
  BY DEF RouterInv, PacketInv
<1>. QED
  BY <1>1, RouterInvHolds, PTL

\* RingMatchesMap: slice and map agree through the loading of the programs and all calls of
\* AddNode and RemoveNode.
THEOREM RouterRingMatches == RouterSpec => []RingMatchesMap
<1>1. RouterInv => RingMatchesMap
  BY MatchesFromInv DEF RouterInv
<1>. QED
  BY <1>1, RouterInvHolds, PTL

\* LookupIsSuccessor: the ring that New made routes by consistent hashing.
THEOREM RouterLookupCorrect == RouterSpec => []LookupIsSuccessor
<1>1. RouterInv => LookupIsSuccessor
  BY SuccessorFromInv DEF RouterInv
<1>. QED
  BY <1>1, RouterInvHolds, PTL

\* RemovedGetsNothing: after RemoveNode(n) no request goes to n until it is added again.
THEOREM RouterRemovedGetNothing == RouterSpec => []RemovedGetsNothing
<1>1. RouterInv => RemovedGetsNothing
  BY RemovedFromInv DEF RouterInv
<1>. QED
  BY <1>1, RouterInvHolds, PTL

\* EveryRequestHasNode: the router has no node for a request only while the zero entries of
\* newRing remain.
THEOREM RouterOnlyZerosLose == RouterSpec => [](~ZerosRemain => EveryRequestHasNode)
<1>1. RouterInv => (~ZerosRemain => EveryRequestHasNode)
  BY NodeUnlessZeros DEF RouterInv
<1>. QED
  BY <1>1, RouterInvHolds, PTL

\* MovesOnlyWhatItMust: no call of AddNode or RemoveNode moves other requests than it must.
THEOREM RouterMovesOnlyMust == RouterSpec => MovesOnlyWhatItMust
<1>. DEFINE Moves ==
       \A hash \in Hash : Len(ring) > 0 /\ Len(ring') > 0 /\ getNode(hash)' # getNode(hash) =>
         \/ getNode(hash) = ZeroAddr
         \/ \E n \in Node : addNode(n) /\ getNode(hash)' = n
         \/ \E n \in Node : removeNode(n) /\ entry(hash) \in Points(n)
<1>1. ASSUME RouterInv, RouterInv', [RouterNext]_routerVars
      PROVE  [Moves]_vars
  <2>1. CASE stage # "ready"
    <3>1. ring = <<>>
      BY <2>1, <1>1 DEF RouterInv, NoRingYet
    <3>2. ~(Len(ring) > 0)
      BY <3>1, SMTT(30)
    <3>. QED
      BY <3>2
  <2>2. CASE stage = "ready"
    <3>1. [Next]_vars
      BY <2>2, <1>1 DEF RouterNext, LoadSpec, NewCollection, Find, AttachDNAT, AttachSNAT,
         LoadError, New, NewFails, Ingress, Egress, AddNode, RemoveNode, Next, vars
    <3>. QED
      BY <3>1, <1>1, StepMoves DEF RouterInv
  <2>. QED
    BY <2>1, <2>2
<1>. QED
  BY <1>1, RouterInvHolds, PTL DEF RouterSpec, MovesOnlyWhatItMust
=============================================================================
