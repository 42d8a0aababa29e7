-------------------------------- MODULE Ring --------------------------------
(***************************************************************************)
(* The consistent-hash ring of the load balancer (pkg/routing/ring.go and  *)
(* the two operations of router.go that change it).  The methods hold the  *)
(* lock throughout, so each is one action; getNode is an operator of the   *)
(* state.  The hash function is arbitrary and fixed: whatever it maps to   *)
(* one value collides.                                                     *)
(***************************************************************************)
EXTENDS Naturals, Sequences, FiniteSets, SequencesExt

CONSTANTS
  Node,             \* addresses that may be added
  ZeroAddr,         \* the zero AddrKey, what the map yields for an absent hash
  numVirtualNodes,
  MaxHash,          \* hashes are 0 .. MaxHash
  InitialEntries,   \* C.MAX_NUMBER_VIRTUAL_NODE_ENTRIES
  MaxEntries        \* bound: length of the ring beyond which no node is added

Hash == 0 .. MaxHash
Virtual == Node \X (0 .. numVirtualNodes - 1)

ASSUME RingAssumption ==
  /\ ZeroAddr \notin Node
  /\ numVirtualNodes \in Nat \ {0} /\ MaxHash \in Nat
  /\ InitialEntries \in Nat /\ MaxEntries \in Nat

VARIABLES
  hasher,   \* the hash of every virtual node's name
  ring,     \* sorted sequence of hashes
  nodes,    \* the map from hashes to nodes
  members   \* history: nodes added and not removed since

vars == <<hasher, ring, nodes, members>>

TypeOK ==
  /\ hasher \in [Virtual -> Hash]
  /\ ring \in Seq(Hash)
  /\ DOMAIN nodes \subseteq Hash
  /\ Range(nodes) \subseteq Node
  /\ members \subseteq Node

\* make([]uint32, n) has n zero entries, not room for n entries.
zeroEntries == [i \in 1 .. InitialEntries |-> 0]

newRing ==
  /\ ring = zeroEntries
  /\ nodes = <<>>
  /\ members = {}

Init ==
  /\ hasher \in [Virtual -> Hash]
  /\ newRing

Points(n) == {hasher[<<n, i>>] : i \in 0 .. numVirtualNodes - 1}

\* sort.Slice by its result: each element at the position that is its rank.  (SortSeq of
\* TLC computes the same but has no definition to reason from.)
Precedes(seq, j, i) == seq[j] < seq[i] \/ (seq[j] = seq[i] /\ j < i)
Rank(seq, i) == Cardinality({j \in DOMAIN seq : Precedes(seq, j, i)}) + 1
Sorted(seq) == [k \in DOMAIN seq |-> seq[CHOOSE i \in DOMAIN seq : Rank(seq, i) = k]]

\* Mutant: no sort after the appends.
extendedUnsorted(n) == ring \o [i \in 1 .. numVirtualNodes |-> hasher[<<n, i - 1>>]]

extended(n) == Sorted(ring \o [i \in 1 .. numVirtualNodes |-> hasher[<<n, i - 1>>]])

addNode(n) ==
  /\ Len(ring) + numVirtualNodes <= MaxEntries
  /\ ring' = extended(n)
  /\ nodes' = [h \in DOMAIN nodes \cup Points(n) |->
                 IF h \in Points(n) THEN n ELSE nodes[h]]
  /\ members' = members \cup {n}
  /\ UNCHANGED hasher

\* Mutant: only the first virtual node is deleted from the map.
remainingAfterFirst(n) == [h \in DOMAIN nodes \ {hasher[<<n, 0>>]} |-> nodes[h]]

remaining(n) == [h \in DOMAIN nodes \ Points(n) |-> nodes[h]]

\* Mutant: the ring keeps the hashes of the removed node.
rebuiltNot(map) == ring

rebuilt(map) == Sorted(SetToSeq(DOMAIN map))

removeNode(n) ==
  /\ nodes' = remaining(n)
  /\ ring' = rebuilt(remaining(n))
  /\ members' = members \ {n}
  /\ UNCHANGED hasher

Next == \E n \in Node : addNode(n) \/ removeNode(n)

Spec == Init /\ [][Next]_vars

-----------------------------------------------------------------------------
(* getNode *)

\* sort.Search: the least index that satisfies P, n + 1 if none does (from 1).
Search(n, P(_)) ==
  IF \E i \in 1 .. n : P(i)
  THEN CHOOSE i \in 1 .. n : P(i) /\ \A j \in 1 .. i - 1 : ~P(j)
  ELSE n + 1

\* Mutant: "i >= len(ch.ring) - 1" instead of "i == len(ch.ring)".
entryWrapsEarly(hash) ==
  LET i == Search(Len(ring), LAMBDA j : ring[j] >= hash)
  IN ring[IF i >= Len(ring) THEN 1 ELSE i]

\* The entry of the ring that answers for a hash.  The ring must not be empty: the
\* code indexes it without a test.
entry(hash) ==
  LET i == Search(Len(ring), LAMBDA j : ring[j] >= hash)
  IN ring[IF i = Len(ring) + 1 THEN 1 ELSE i]

\* The node a request key with this hash goes to.
getNode(hash) ==
  IF entry(hash) \in DOMAIN nodes THEN nodes[entry(hash)] ELSE ZeroAddr

-----------------------------------------------------------------------------
(* Properties *)

\* The owner of the first occupied point at or after hash, going round: what
\* consistent hashing prescribes for the points in the map.
Successor(hash) ==
  LET after == {h \in DOMAIN nodes : h >= hash}
      least(S) == CHOOSE h \in S : \A g \in S : h <= g
  IN IF after # {} THEN nodes[least(after)] ELSE nodes[least(DOMAIN nodes)]

\* The zero entries of newRing are still in the ring and belong to nobody.
ZerosRemain == 0 \in Range(ring) /\ 0 \notin DOMAIN nodes

(***************************************************************************)
(* getNode is consistent hashing wherever the initial zero entries do not  *)
(* come first: always once a removal has rebuilt the ring, before that for *)
(* every hash above zero that some point follows.  Collisions included.    *)
(***************************************************************************)
LookupIsSuccessor ==
  \A hash \in Hash :
    (DOMAIN nodes # {} /\ (ZerosRemain => hash > 0 /\ \E h \in DOMAIN nodes : h >= hash))
      => getNode(hash) = Successor(hash)

(***************************************************************************)
(* The sorted slice and the map agree: every entry of the slice but the    *)
(* initial zeros has an owner, every point of the map is in the slice.     *)
(***************************************************************************)
RingMatchesMap ==
  /\ Range(ring) \ {0} \subseteq DOMAIN nodes
  /\ DOMAIN nodes \subseteq Range(ring)
  /\ \A i \in 1 .. Len(ring) - 1 : ring[i] <= ring[i + 1]

(***************************************************************************)
(* No request is routed to a node after removeNode, whatever collided and  *)
(* however often the node was added before.                                *)
(***************************************************************************)
RemovedGetsNothing ==
  Len(ring) > 0 => \A hash \in Hash : getNode(hash) \in members \cup {ZeroAddr}

(***************************************************************************)
(* Minimal disruption: adding a node moves requests only to that node, and *)
(* removing it moves only requests that went to one of its points, or that *)
(* had no node before.                                                     *)
(***************************************************************************)
MovesOnlyWhatItMust ==
  [][\A hash \in Hash : Len(ring) > 0 /\ Len(ring') > 0 /\ getNode(hash)' # getNode(hash) =>
       \/ getNode(hash) = ZeroAddr
       \/ \E n \in Node : addNode(n) /\ getNode(hash)' = n
       \/ \E n \in Node : removeNode(n) /\ entry(hash) \in Points(n)]_vars

(***************************************************************************)
(* cmd/lb/main.go:22: the ring is a "routing mechanism with consistent     *)
(* hashing": while there is a node, every request is routed to a node.     *)
(***************************************************************************)
EveryRequestHasNode ==
  members # {} /\ DOMAIN nodes # {} => \A hash \in Hash : getNode(hash) \in Node
=============================================================================
