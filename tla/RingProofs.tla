----------------------------- MODULE RingProofs -----------------------------
(***************************************************************************)
(* Proofs about Ring for every set of nodes, every hash function and every *)
(* number of virtual nodes and of initial entries.                         *)
(***************************************************************************)
EXTENDS Ring, FiniteSetTheorems, NaturalsInduction, SequenceTheorems, TLAPS

\* A leaf that names no prover is one for Zenon.
USE ZenonT(30)

-----------------------------------------------------------------------------
(* Least elements *)

\* A set of naturals that is not empty has a least element.
LEMMA LeastElement ==
  ASSUME NEW T \in SUBSET Nat, T # {}
  PROVE  \E x \in T : \A y \in T : x <= y
<1>1. PICK x \in T : \A y \in T : ~(<<y, x>> \in OpToRel(<, Nat))
  BY NatLessThanWellFounded, WFMin
<1>2. \A y \in T : ~(y < x)
  BY <1>1 DEF OpToRel
<1>. QED
  BY <1>2, SMTT(30)

-----------------------------------------------------------------------------
(* Sorting *)

\* One more element precedes the later of two elements.
LEMMA RankOrder ==
  ASSUME NEW seq \in Seq(Nat), NEW i \in DOMAIN seq, NEW j \in DOMAIN seq,
         Precedes(seq, i, j)
  PROVE  Rank(seq, i) < Rank(seq, j)
<1>. DEFINE P(k) == {m \in DOMAIN seq : Precedes(seq, m, k)}
<1>1. /\ DOMAIN seq = 1 .. Len(seq) /\ Len(seq) \in Nat
      /\ \A k \in DOMAIN seq : seq[k] \in Nat
  BY LenProperties, ElementOfSeq
<1>2. IsFiniteSet(DOMAIN seq)
  BY <1>1, FS_Interval, SMTT(30)
<1>3. P(i) \in SUBSET P(j) /\ i \in P(j) /\ i \notin P(i)
  BY <1>1, SMTT(30) DEF Precedes
<1>4. IsFiniteSet(P(j))
  BY <1>2, FS_Subset
<1>5. /\ IsFiniteSet(P(i)) /\ Cardinality(P(i)) <= Cardinality(P(j))
      /\ Cardinality(P(i)) # Cardinality(P(j))
  BY <1>3, <1>4, FS_Subset
<1>6. Cardinality(P(i)) \in Nat /\ Cardinality(P(j)) \in Nat
  BY <1>4, <1>5, FS_CardinalityType
<1>. QED
  BY <1>5, <1>6, SMTT(30) DEF Rank

\* The ranks of a sequence are its positions.
LEMMA RankBijection ==
  ASSUME NEW seq \in Seq(Nat)
  PROVE  /\ \A i \in DOMAIN seq : Rank(seq, i) \in DOMAIN seq
         /\ \A k \in DOMAIN seq : \E i \in DOMAIN seq : Rank(seq, i) = k
<1>. DEFINE D == DOMAIN seq
            f == [i \in D |-> Rank(seq, i)]
<1>1. /\ D = 1 .. Len(seq) /\ Len(seq) \in Nat
      /\ \A k \in D : seq[k] \in Nat
  BY LenProperties, ElementOfSeq
<1>2. IsFiniteSet(D) /\ Cardinality(D) = Len(seq)
  <2>1. /\ IsFiniteSet(1 .. Len(seq))
        /\ Cardinality(1 .. Len(seq)) = IF 1 > Len(seq) THEN 0 ELSE Len(seq) - 1 + 1
    BY <1>1, FS_Interval, SMTT(30)
  <2>. QED
    BY <1>1, <2>1, SMTT(30)
<1>3. ASSUME NEW i \in D
      PROVE  Rank(seq, i) \in D
  <2>. DEFINE P == {m \in D : Precedes(seq, m, i)}
  <2>1. P \in SUBSET (D \ {i})
    BY <1>1, SMTT(30) DEF Precedes
  <2>2. IsFiniteSet(D \ {i}) /\ Cardinality(D \ {i}) = Len(seq) - 1
    BY <1>2, FS_RemoveElement
  <2>3. IsFiniteSet(P) /\ Cardinality(P) <= Len(seq) - 1
    BY <2>1, <2>2, FS_Subset, SMTT(30)
  <2>4. Cardinality(P) \in Nat
    BY <2>3, FS_CardinalityType
  <2>. QED
    BY <1>1, <2>3, <2>4, SMTT(30) DEF Rank
<1>4. ASSUME NEW i \in D, NEW j \in D, Rank(seq, i) = Rank(seq, j)
      PROVE  i = j
  <2>1. i = j \/ Precedes(seq, i, j) \/ Precedes(seq, j, i)
    BY <1>1, SMTT(30) DEF Precedes
  <2>2. Rank(seq, i) \in Nat /\ Rank(seq, j) \in Nat
    BY <1>1, <1>3, SMTT(30)
  <2>. QED
    BY <2>1, <2>2, <1>4, RankOrder, SMTT(30)
<1>5. f \in Injection(D, D)
  BY <1>3, <1>4 DEF Injection, IsInjective
<1>6. f \in Surjection(D, D)
  BY <1>2, <1>5, FS_Injection
<1>. QED
  BY <1>3, <1>6 DEF Surjection

\* sort.Slice leaves the hashes of the slice, as many as before, in increasing order.
LEMMA SortedSorts ==
  ASSUME NEW seq \in Seq(Nat)
  PROVE  /\ DOMAIN Sorted(seq) = DOMAIN seq
         /\ Range(Sorted(seq)) = Range(seq)
         /\ \A k, l \in DOMAIN seq : k <= l => Sorted(seq)[k] <= Sorted(seq)[l]
<1>. DEFINE D == DOMAIN seq
            at(k) == CHOOSE i \in D : Rank(seq, i) = k
<1>1. /\ D = 1 .. Len(seq) /\ Len(seq) \in Nat
      /\ \A k \in D : seq[k] \in Nat
  BY LenProperties, ElementOfSeq
<1>2. \A k \in D : at(k) \in D /\ Rank(seq, at(k)) = k
  BY RankBijection
<1>3. \A k \in D : Sorted(seq)[k] = seq[at(k)]
  BY DEF Sorted
<1>4. DOMAIN Sorted(seq) = D
  BY DEF Sorted
<1>. HIDE DEF at
<1>5. ASSUME NEW i \in D
      PROVE  \E k \in D : Sorted(seq)[k] = seq[i]
  <2>1. Rank(seq, i) \in D
    BY RankBijection
  <2>2. at(Rank(seq, i)) \in D /\ Rank(seq, at(Rank(seq, i))) = Rank(seq, i)
    BY <2>1, <1>2
  <2>3. at(Rank(seq, i)) = i
    <3>1. \/ at(Rank(seq, i)) = i
          \/ Precedes(seq, at(Rank(seq, i)), i)
          \/ Precedes(seq, i, at(Rank(seq, i)))
      BY <1>1, <2>2, SMTT(30) DEF Precedes
    <3>2. Rank(seq, i) \in Nat
      BY <2>1, <1>1, SMTT(30)
    <3>. QED
      BY <3>1, <3>2, <2>2, RankOrder, SMTT(30)
  <2>. QED
    BY <2>1, <2>3, <1>3
<1>6. Range(Sorted(seq)) = Range(seq)
  <2>1. \A x : x \in Range(Sorted(seq)) => x \in Range(seq)
    BY <1>2, <1>3, <1>4 DEF Range
  <2>2. \A x : x \in Range(seq) => x \in Range(Sorted(seq))
    BY <1>4, <1>5 DEF Range
  <2>. QED
    BY <2>1, <2>2
<1>7. ASSUME NEW k \in D, NEW l \in D, k <= l
      PROVE  seq[at(k)] <= seq[at(l)]
  <2>1. CASE k = l
    BY <2>1, <1>1, <1>2, SMTT(30)
  <2>2. CASE k < l
    <3>1. ~Precedes(seq, at(l), at(k))
      BY <2>2, <1>1, <1>2, RankOrder, SMTT(30)
    <3>. QED
      BY <3>1, <1>1, <1>2, SMTT(30) DEF Precedes
  <2>. QED
    BY <2>1, <2>2, <1>1, <1>7, SMTT(30)
<1>. QED
  BY <1>3, <1>4, <1>6, <1>7

\* The slice that removeNode gathers has each key of the map.
LEMMA SetToSeqRange ==
  ASSUME NEW S, IsFiniteSet(S)
  PROVE  SetToSeq(S) \in Seq(S) /\ Range(SetToSeq(S)) = S
<1>. DEFINE n == Cardinality(S)
            f == SetToSeq(S)
<1>1. n \in Nat /\ ExistsBijection(1 .. n, S)
  BY FS_CardinalityType
<1>2. \E g \in [1 .. n -> S] : IsInjective(g)
  BY <1>1 DEF ExistsBijection, Bijection, Injection
<1>3. f \in [1 .. n -> S] /\ IsInjective(f)
  BY <1>2 DEF SetToSeq
<1>4. IsFiniteSet(1 .. n) /\ Cardinality(1 .. n) = n
  BY <1>1, FS_Interval, SMTT(30)
<1>. HIDE DEF f
<1>5. f \in Surjection(1 .. n, S)
  BY <1>3, <1>4, FS_Injection DEF Injection
<1>6. f \in Seq(S)
  BY <1>1, <1>3, SeqDef
<1>7. Range(f) = S
  BY <1>3, <1>5 DEF Surjection, Range
<1>. QED
  BY <1>6, <1>7 DEF f

-----------------------------------------------------------------------------
(* The steps of the ring *)

\* The slice is in order, at any distance.
Ordered == \A i, j \in DOMAIN ring : i <= j => ring[i] <= ring[j]

\* The slice and the map have the same hashes, up to the zeros of newRing.
SameHashes == Range(ring) \ {0} \subseteq DOMAIN nodes /\ DOMAIN nodes \subseteq Range(ring)

\* A point of the map belongs to a member that has a virtual node there.
Owned == \A h \in DOMAIN nodes : nodes[h] \in members /\ h \in Points(nodes[h])

RingInv == TypeOK /\ Ordered /\ SameHashes /\ Owned

\* The virtual nodes of a node hash to hashes.
LEMMA PointsType ==
  ASSUME TypeOK, NEW n \in Node
  PROVE  Points(n) \subseteq Hash
<1>1. \A i \in 0 .. numVirtualNodes - 1 : <<n, i>> \in Virtual
  BY DEF Virtual
<1>. QED
  BY <1>1 DEF TypeOK, Points

\* Sorting hashes yields hashes.
LEMMA SortedType ==
  ASSUME NEW seq \in Seq(Hash)
  PROVE  /\ Sorted(seq) \in Seq(Hash)
         /\ Range(Sorted(seq)) = Range(seq)
         /\ \A k, l \in DOMAIN Sorted(seq) : k <= l => Sorted(seq)[k] <= Sorted(seq)[l]
<1>1. Hash \subseteq Nat
  BY RingAssumption, SMTT(30) DEF Hash
<1>2. seq \in Seq(Nat)
  BY <1>1, SeqMonotonic
<1>3. /\ DOMAIN Sorted(seq) = DOMAIN seq
      /\ Range(Sorted(seq)) = Range(seq)
      /\ \A k, l \in DOMAIN seq : k <= l => Sorted(seq)[k] <= Sorted(seq)[l]
  BY <1>2, SortedSorts
<1>4. DOMAIN seq = 1 .. Len(seq) /\ Len(seq) \in Nat /\ seq \in [1 .. Len(seq) -> Hash]
  BY LenProperties
<1>5. \A k \in 1 .. Len(seq) : Sorted(seq)[k] \in Hash
  BY <1>3, <1>4 DEF Range
<1>6. Sorted(seq) = [k \in 1 .. Len(seq) |-> Sorted(seq)[k]]
  BY <1>4, SMTT(30) DEF Sorted
<1>7. Sorted(seq) \in [1 .. Len(seq) -> Hash]
  BY <1>5, <1>6
<1>8. Sorted(seq) \in Seq(Hash)
  BY <1>4, <1>7, SeqDef
<1>. QED
  BY <1>3, <1>8

\* addNode adds the hashes of the node's virtual nodes to the slice, and keeps it sorted.
LEMMA ExtendedIs ==
  ASSUME TypeOK, NEW n \in Node
  PROVE  /\ extended(n) \in Seq(Hash)
         /\ Range(extended(n)) = Range(ring) \cup Points(n)
         /\ \A k, l \in DOMAIN extended(n) : k <= l => extended(n)[k] <= extended(n)[l]
<1>. DEFINE new == [i \in 1 .. numVirtualNodes |-> hasher[<<n, i - 1>>]]
<1>1. numVirtualNodes \in Nat
  BY RingAssumption
<1>2. \A i \in 1 .. numVirtualNodes : i - 1 \in 0 .. numVirtualNodes - 1
  BY <1>1, SMTT(30)
<1>3. \A i \in 1 .. numVirtualNodes : hasher[<<n, i - 1>>] \in Points(n)
  BY <1>2 DEF Points
<1>4. new \in Seq(Hash)
  <2>1. new \in [1 .. numVirtualNodes -> Hash]
    BY <1>3, PointsType
  <2>. QED
    BY <2>1, <1>1, SeqDef
<1>5. Range(new) = Points(n)
  <2>1. \A h \in Points(n) : h \in Range(new)
    <3>. SUFFICES ASSUME NEW i \in 0 .. numVirtualNodes - 1
                  PROVE  hasher[<<n, i>>] \in Range(new)
      BY DEF Points
    <3>1. i + 1 \in 1 .. numVirtualNodes /\ (i + 1) - 1 = i
      BY <1>1, SMTT(30)
    <3>2. new[i + 1] = hasher[<<n, i>>]
      BY <3>1
    <3>. QED
      BY <3>1, <3>2 DEF Range
  <2>2. \A h \in Range(new) : h \in Points(n)
    BY <1>3 DEF Range
  <2>. QED
    BY <2>1, <2>2
<1>. HIDE DEF new
<1>6. ring \o new \in Seq(Hash)
  BY <1>4, ConcatProperties DEF TypeOK
<1>7. Range(ring \o new) = Range(ring) \cup Points(n)
  BY <1>4, <1>5, RangeConcatenation, SMTT(30) DEF TypeOK
<1>8. extended(n) = Sorted(ring \o new)
  BY DEF extended, new
<1>. QED
  BY <1>6, <1>7, <1>8, SortedType

\* removeNode rebuilds the slice from the keys that the map has left.
LEMMA RebuiltIs ==
  ASSUME NEW map, DOMAIN map \subseteq Hash
  PROVE  /\ rebuilt(map) \in Seq(Hash)
         /\ Range(rebuilt(map)) = DOMAIN map
         /\ \A k, l \in DOMAIN rebuilt(map) : k <= l => rebuilt(map)[k] <= rebuilt(map)[l]
<1>1. IsFiniteSet(Hash)
  BY RingAssumption, FS_Interval, SMTT(30) DEF Hash
<1>2. IsFiniteSet(DOMAIN map)
  BY <1>1, FS_Subset
<1>3. SetToSeq(DOMAIN map) \in Seq(DOMAIN map) /\ Range(SetToSeq(DOMAIN map)) = DOMAIN map
  BY <1>2, SetToSeqRange
<1>4. SetToSeq(DOMAIN map) \in Seq(Hash)
  BY <1>3, SeqMonotonic
<1>. QED
  BY <1>3, <1>4, SortedType DEF rebuilt

\* A new ring has zeros and no points.
LEMMA RingInvNew ==
  ASSUME hasher \in [Virtual -> Hash], newRing
  PROVE  RingInv
<1>1. zeroEntries \in [1 .. InitialEntries -> Hash] /\ InitialEntries \in Nat
  BY RingAssumption, SMTT(30) DEF zeroEntries, Hash
<1>2. ring \in Seq(Hash) /\ DOMAIN ring = 1 .. InitialEntries
  BY <1>1, SeqDef, SMTT(30) DEF newRing
<1>3. \A i \in DOMAIN ring : ring[i] = 0
  BY <1>2 DEF newRing, zeroEntries
<1>4. DOMAIN nodes = {} /\ Range(nodes) = {}
  BY SMTT(30) DEF newRing, Range
<1>5. TypeOK
  BY <1>2, <1>4 DEF TypeOK, newRing
<1>6. Ordered
  BY <1>3, SMTT(30) DEF Ordered
<1>7. SameHashes /\ Owned
  BY <1>3, <1>4 DEF SameHashes, Owned, Range
<1>. QED
  BY <1>5, <1>6, <1>7 DEF RingInv

\* addNode preserves the invariant, when points collide and when the node is there already.
LEMMA RingInvAdd ==
  ASSUME RingInv, NEW n \in Node, addNode(n)
  PROVE  RingInv'
<1>1. /\ ring' \in Seq(Hash)
      /\ Range(ring') = Range(ring) \cup Points(n)
      /\ \A k, l \in DOMAIN ring' : k <= l => ring'[k] <= ring'[l]
  BY ExtendedIs DEF addNode, RingInv
<1>2. Points(n) \subseteq Hash
  BY PointsType DEF RingInv
<1>3. /\ DOMAIN nodes' = DOMAIN nodes \cup Points(n)
      /\ \A h \in Points(n) : nodes'[h] = n
      /\ \A h \in DOMAIN nodes \ Points(n) : nodes'[h] = nodes[h]
  BY DEF addNode
<1>4. members' = members \cup {n} /\ hasher' = hasher
  BY DEF addNode
<1>5. TypeOK'
  BY <1>1, <1>2, <1>3, <1>4 DEF RingInv, TypeOK, Range
<1>6. Ordered'
  BY <1>1 DEF Ordered
<1>7. SameHashes'
  BY <1>1, <1>3 DEF RingInv, SameHashes
<1>8. Owned'
  <2>. SUFFICES ASSUME NEW h \in DOMAIN nodes'
                PROVE  (nodes[h] \in members /\ h \in Points(nodes[h]))'
    BY DEF Owned
  <2>1. CASE h \in Points(n)
    BY <2>1, <1>3, <1>4 DEF Points
  <2>2. CASE h \in DOMAIN nodes \ Points(n)
    BY <2>2, <1>3, <1>4 DEF RingInv, Owned, Points
  <2>. QED
    BY <2>1, <2>2, <1>3
<1>. QED
  BY <1>5, <1>6, <1>7, <1>8 DEF RingInv

\* removeNode preserves the invariant: no point is left that belonged to the node.
LEMMA RingInvRemove ==
  ASSUME RingInv, NEW n \in Node, removeNode(n)
  PROVE  RingInv'
<1>1. /\ DOMAIN nodes' = DOMAIN nodes \ Points(n)
      /\ \A h \in DOMAIN nodes' : nodes'[h] = nodes[h]
  BY DEF removeNode, remaining
<1>2. DOMAIN remaining(n) \subseteq Hash
  BY DEF remaining, RingInv, TypeOK
<1>3. /\ ring' \in Seq(Hash)
      /\ Range(ring') = DOMAIN nodes'
      /\ \A k, l \in DOMAIN ring' : k <= l => ring'[k] <= ring'[l]
  BY <1>2, RebuiltIs DEF removeNode
<1>4. members' = members \ {n} /\ hasher' = hasher
  BY DEF removeNode
<1>5. \A m : Points(m)' = Points(m)
  BY <1>4 DEF Points
<1>6. TypeOK'
  BY <1>1, <1>3, <1>4 DEF RingInv, TypeOK, Range
<1>7. Ordered' /\ SameHashes'
  BY <1>3 DEF Ordered, SameHashes
<1>8. Owned'
  BY <1>1, <1>4, <1>5 DEF RingInv, Owned
<1>. QED
  BY <1>6, <1>7, <1>8 DEF RingInv

\* A step that leaves the ring alone.
LEMMA RingInvStutter ==
  ASSUME RingInv, UNCHANGED vars
  PROVE  RingInv'
BY DEF vars, RingInv, TypeOK, Ordered, SameHashes, Owned, Points

-----------------------------------------------------------------------------
(* getNode *)

\* e is the first of the hashes S at or after hash, going round.
First(S, hash, e) ==
  /\ e \in S
  /\ \/ e >= hash /\ \A g \in S : g >= hash => e <= g
     \/ (\A g \in S : ~(g >= hash)) /\ \A g \in S : e <= g

\* There is one such hash.
LEMMA FirstUnique ==
  ASSUME NEW S \in SUBSET Nat, NEW hash \in Nat, NEW d, NEW e,
         First(S, hash, d), First(S, hash, e)
  PROVE  d = e
BY SMTT(30) DEF First

\* sort.Search on the ordered slice, with the wrap-around, finds it.
LEMMA EntryIsFirst ==
  ASSUME TypeOK, Ordered, Len(ring) > 0, NEW hash \in Hash
  PROVE  First(Range(ring), hash, entry(hash))
<1>. DEFINE n == Len(ring)
            T == {j \in 1 .. n : ring[j] >= hash}
            i == Search(n, LAMBDA j : ring[j] >= hash)
<1>1. /\ n \in Nat /\ DOMAIN ring = 1 .. n /\ Hash \subseteq Nat
      /\ \A j \in 1 .. n : ring[j] \in Nat
  BY RingAssumption, LenProperties, ElementOfSeq, SMTT(30) DEF TypeOK, Hash
<1>2. CASE T # {}
  <2>1. PICK m \in T : \A j \in T : m <= j
    <3>. T \in SUBSET Nat
      BY <1>1, SMTT(30)
    <3>. HIDE DEF T
    <3>. QED
      BY <1>2, LeastElement
  <2>2. \A j \in 1 .. m - 1 : ~(ring[j] >= hash)
    BY <2>1, <1>1, SMTT(30)
  <2>3. i \in 1 .. n /\ ring[i] >= hash /\ \A j \in 1 .. i - 1 : ~(ring[j] >= hash)
    BY <2>1, <2>2 DEF Search
  <2>4. entry(hash) = ring[i]
    BY <2>3, <1>1, SMTT(30) DEF entry
  <2>. HIDE DEF i
  <2>5. ASSUME NEW g \in Range(ring), g >= hash
        PROVE  ring[i] <= g
    <3>1. PICK k \in 1 .. n : g = ring[k]
      BY <1>1 DEF Range
    <3>2. i <= k
      BY <3>1, <2>3, <2>5, <1>1, SMTT(30)
    <3>. QED
      BY <3>1, <3>2, <2>3, <1>1 DEF Ordered
  <2>6. ring[i] \in Range(ring)
    BY <2>3, <1>1 DEF Range
  <2>. QED
    BY <2>3, <2>4, <2>5, <2>6 DEF First
<1>3. CASE T = {}
  <2>1. i = n + 1
    BY <1>3 DEF Search
  <2>2. entry(hash) = ring[1]
    BY <2>1, <1>1 DEF entry
  <2>3. \A g \in Range(ring) : ~(g >= hash) /\ ring[1] <= g
    BY <1>1, <1>3, SMTT(30) DEF Range, Ordered
  <2>4. ring[1] \in Range(ring)
    BY <1>1, SMTT(30) DEF Range
  <2>. QED
    BY <2>2, <2>3, <2>4 DEF First
<1>. QED
  BY <1>2, <1>3

\* The same of every hash at once, in this state and in the next.
LEMMA EntriesAreFirst ==
  /\ RingInv /\ Len(ring) > 0 => \A hash \in Hash : First(Range(ring), hash, entry(hash))
  /\ (RingInv /\ Len(ring) > 0 => \A hash \in Hash : First(Range(ring), hash, entry(hash)))'
<1>1. RingInv /\ Len(ring) > 0 => \A hash \in Hash : First(Range(ring), hash, entry(hash))
  BY EntryIsFirst DEF RingInv
<1>. QED
  BY <1>1, PTL

\* The hashes of slice and map are natural numbers.
LEMMA HashesAreNaturals ==
  ASSUME RingInv
  PROVE  Hash \subseteq Nat /\ Range(ring) \subseteq Nat /\ DOMAIN nodes \subseteq Nat
<1>1. Hash \subseteq Nat
  BY RingAssumption, SMTT(30) DEF Hash
<1>2. Range(ring) \subseteq Hash
  BY LenProperties, SMTT(30) DEF RingInv, TypeOK, Range
<1>. QED
  BY <1>1, <1>2 DEF RingInv, TypeOK

-----------------------------------------------------------------------------
(* What the invariant implies *)

\* RingMatchesMap is the order of neighbours and the agreement of slice and map.
LEMMA MatchesFromInv == RingInv => RingMatchesMap
<1>. SUFFICES ASSUME RingInv
              PROVE  RingMatchesMap
  OBVIOUS
<1>1. DOMAIN ring = 1 .. Len(ring) /\ Len(ring) \in Nat
  BY LenProperties DEF RingInv, TypeOK
<1>2. \A i \in 1 .. Len(ring) - 1 : ring[i] <= ring[i + 1]
  BY <1>1, SMTT(30) DEF RingInv, Ordered
<1>. QED
  BY <1>2 DEF RingMatchesMap, RingInv, SameHashes

\* RemovedGetsNothing: an entry with an owner has a member as its owner.
LEMMA RemovedFromInv == RingInv => RemovedGetsNothing
BY DEF RingInv, Owned, RemovedGetsNothing, getNode

\* LookupIsSuccessor: where the zeros do not come first, the first entry of the slice is
\* the first point of the map.
LEMMA SuccessorFromInv == RingInv => LookupIsSuccessor
<1>. SUFFICES ASSUME RingInv, NEW hash \in Hash, DOMAIN nodes # {},
                     ZerosRemain => hash > 0 /\ \E h \in DOMAIN nodes : h >= hash
              PROVE  getNode(hash) = Successor(hash)
  BY DEF LookupIsSuccessor
<1>. DEFINE M == DOMAIN nodes
            e == entry(hash)
            after == {h \in M : h >= hash}
<1>1. hash \in Nat /\ Range(ring) \subseteq Nat /\ M \subseteq Nat
  BY HashesAreNaturals
<1>2. First(Range(ring), hash, e)
  <2>1. Len(ring) > 0
    BY LenProperties, SMTT(30) DEF RingInv, TypeOK, SameHashes, Range
  <2>. QED
    BY <2>1, EntriesAreFirst
<1>. HIDE DEF e
<1>3. First(M, hash, e)
  <2>1. CASE ZerosRemain
    BY <2>1, <1>1, <1>2, SMTT(30) DEF First, RingInv, SameHashes
  <2>2. CASE ~ZerosRemain
    <3>1. Range(ring) = M
      BY <2>2 DEF ZerosRemain, RingInv, SameHashes
    <3>. QED
      BY <3>1, <1>2
  <2>. QED
    BY <2>1, <2>2
<1>4. getNode(hash) = nodes[e]
  BY <1>3 DEF First, getNode, e
<1>5. CASE after # {}
  <2>1. e \in after /\ \A g \in after : e <= g
    BY <1>1, <1>3, <1>5 DEF First
  <2>2. (CHOOSE h \in after : \A g \in after : h <= g) = e
    BY <1>1, <2>1, SMTT(30)
  <2>. QED
    BY <1>4, <1>5, <2>2 DEF Successor
<1>6. CASE after = {}
  <2>1. e \in M /\ \A g \in M : e <= g
    BY <1>1, <1>3, <1>6 DEF First
  <2>2. (CHOOSE h \in M : \A g \in M : h <= g) = e
    BY <1>1, <2>1, SMTT(30)
  <2>. QED
    BY <1>4, <1>6, <2>2 DEF Successor
<1>. QED
  BY <1>5, <1>6

\* A request that addNode moves goes to the new node.
LEMMA AddMoves ==
  ASSUME RingInv, RingInv', NEW n \in Node, addNode(n), NEW hash \in Hash,
         Len(ring) > 0, Len(ring') > 0, getNode(hash)' # getNode(hash)
  PROVE  getNode(hash)' = n
<1>. DEFINE d == entry(hash)
            e == entry(hash)'
<1>1. hash \in Nat /\ Range(ring) \subseteq Nat
  BY HashesAreNaturals
<1>2. First(Range(ring), hash, d) /\ First(Range(ring'), hash, e)
  BY EntriesAreFirst
<1>3. Range(ring') = Range(ring) \cup Points(n)
  BY ExtendedIs DEF addNode, RingInv
<1>4. /\ DOMAIN nodes' = DOMAIN nodes \cup Points(n)
      /\ \A h \in Points(n) : nodes'[h] = n
      /\ \A h \in DOMAIN nodes \ Points(n) : nodes'[h] = nodes[h]
  BY DEF addNode
<1>5. /\ getNode(hash) = IF d \in DOMAIN nodes THEN nodes[d] ELSE ZeroAddr
      /\ getNode(hash)' = IF e \in DOMAIN nodes' THEN nodes'[e] ELSE ZeroAddr
  BY DEF getNode
<1>. HIDE DEF d, e
<1>6. CASE e \in Points(n)
  BY <1>6, <1>4, <1>5
<1>7. CASE e \notin Points(n)
  <2>1. First(Range(ring), hash, e)
    BY <1>2, <1>3, <1>7 DEF First
  <2>2. d = e
    BY <2>1, <1>1, <1>2, FirstUnique
  <2>. QED
    BY <2>2, <1>4, <1>5, <1>7
<1>. QED
  BY <1>6, <1>7

\* A request that removeNode moves went to one of the node's points, or had no node.
LEMMA RemoveMoves ==
  ASSUME RingInv, RingInv', NEW n \in Node, removeNode(n), NEW hash \in Hash,
         Len(ring) > 0, Len(ring') > 0, getNode(hash)' # getNode(hash),
         getNode(hash) # ZeroAddr
  PROVE  entry(hash) \in Points(n)
<1>. SUFFICES ASSUME entry(hash) \notin Points(n)
              PROVE  FALSE
  OBVIOUS
<1>. DEFINE d == entry(hash)
            e == entry(hash)'
<1>1. hash \in Nat /\ Range(ring) \subseteq Nat
  BY HashesAreNaturals
<1>2. First(Range(ring), hash, d) /\ First(Range(ring'), hash, e)
  BY EntriesAreFirst
<1>3. DOMAIN nodes' = DOMAIN nodes \ Points(n) /\ \A h \in DOMAIN nodes' : nodes'[h] = nodes[h]
  BY DEF removeNode, remaining
<1>4. Range(ring') = DOMAIN nodes' /\ DOMAIN nodes \subseteq Range(ring)
  <2>1. DOMAIN remaining(n) \subseteq Hash
    BY DEF remaining, RingInv, TypeOK
  <2>. QED
    BY <2>1, RebuiltIs DEF removeNode, RingInv, SameHashes
<1>5. /\ getNode(hash) = IF d \in DOMAIN nodes THEN nodes[d] ELSE ZeroAddr
      /\ getNode(hash)' = IF e \in DOMAIN nodes' THEN nodes'[e] ELSE ZeroAddr
  BY DEF getNode
<1>6. d \notin Points(n)
  OBVIOUS
<1>. HIDE DEF d, e
<1>7. d \in DOMAIN nodes'
  BY <1>3, <1>5, <1>6
<1>8. First(Range(ring'), hash, d)
  BY <1>1, <1>2, <1>3, <1>4, <1>7 DEF First
<1>9. d = e
  BY <1>1, <1>2, <1>3, <1>4, <1>8, FirstUnique
<1>. QED
  BY <1>3, <1>5, <1>7, <1>9

\* The two together: what one step of the ring moves.
LEMMA StepMoves ==
  ASSUME RingInv, RingInv', [Next]_vars
  PROVE  [\A hash \in Hash : Len(ring) > 0 /\ Len(ring') > 0 /\ getNode(hash)' # getNode(hash) =>
            \/ getNode(hash) = ZeroAddr
            \/ \E n \in Node : addNode(n) /\ getNode(hash)' = n
            \/ \E n \in Node : removeNode(n) /\ entry(hash) \in Points(n)]_vars
<1>. SUFFICES ASSUME Next, NEW hash \in Hash, Len(ring) > 0, Len(ring') > 0,
                     getNode(hash)' # getNode(hash), getNode(hash) # ZeroAddr
              PROVE  \/ \E n \in Node : addNode(n) /\ getNode(hash)' = n
                     \/ \E n \in Node : removeNode(n) /\ entry(hash) \in Points(n)
  OBVIOUS
<1>1. PICK n \in Node : addNode(n) \/ removeNode(n)
  BY DEF Next
<1>2. CASE addNode(n)
  BY <1>2, AddMoves
<1>3. CASE removeNode(n)
  BY <1>3, RemoveMoves
<1>. QED
  BY <1>1, <1>2, <1>3

-----------------------------------------------------------------------------
(* The zero entries of newRing *)

\* EveryRequestHasNode fails only for the zero entries: without them every entry of the
\* ring has an owner.
LEMMA NodeUnlessZeros == RingInv /\ ~ZerosRemain => EveryRequestHasNode
<1>. SUFFICES ASSUME RingInv, ~ZerosRemain, DOMAIN nodes # {}, NEW hash \in Hash
              PROVE  getNode(hash) \in Node
  BY DEF EveryRequestHasNode
<1>1. Range(ring) = DOMAIN nodes
  BY DEF ZerosRemain, RingInv, SameHashes
<1>2. Len(ring) > 0
  BY <1>1, LenProperties, SMTT(30) DEF RingInv, TypeOK, Range
<1>3. entry(hash) \in DOMAIN nodes
  BY <1>1, <1>2, EntriesAreFirst DEF First
<1>. QED
  BY <1>3 DEF getNode, RingInv, TypeOK, Owned

\* removeNode rebuilds the ring from the map, and addNode appends no entry without an owner.
LEMMA ZerosGone ==
  ASSUME RingInv, NEW n \in Node, removeNode(n) \/ (addNode(n) /\ ~ZerosRemain)
  PROVE  ~ZerosRemain'
<1>1. CASE removeNode(n)
  <2>1. DOMAIN remaining(n) \subseteq Hash
    BY DEF remaining, RingInv, TypeOK
  <2>2. Range(ring') = DOMAIN nodes'
    BY <1>1, <2>1, RebuiltIs DEF removeNode
  <2>. QED
    BY <2>2 DEF ZerosRemain
<1>2. CASE addNode(n) /\ ~ZerosRemain
  <2>1. Range(ring') = Range(ring) \cup Points(n) /\ DOMAIN nodes' = DOMAIN nodes \cup Points(n)
    BY <1>2, ExtendedIs DEF addNode, RingInv
  <2>. QED
    BY <1>2, <2>1 DEF ZerosRemain
<1>. QED
  BY <1>1, <1>2

-----------------------------------------------------------------------------
(* Theorems *)

\* The invariant holds of a ring that newRing made, whatever is added and removed.
LEMMA RingInvHolds == Spec => []RingInv
<1>1. Init => RingInv
  BY RingInvNew DEF Init
<1>2. RingInv /\ [Next]_vars => RingInv'
  BY RingInvAdd, RingInvRemove, RingInvStutter DEF Next
<1>. QED
  BY <1>1, <1>2, PTL DEF Spec

\* RingMatchesMap: after any adds and removals the slice is sorted and has the keys of the
\* map, with collisions, duplicates and the zeros of newRing.
THEOREM RingMatches == Spec => []RingMatchesMap
BY RingInvHolds, MatchesFromInv, PTL

\* LookupIsSuccessor: the binary search of getNode is consistent hashing.
THEOREM LookupCorrect == Spec => []LookupIsSuccessor
BY RingInvHolds, SuccessorFromInv, PTL

\* RemovedGetsNothing: getNode returns no node that removeNode took out.
THEOREM RemovedGetNothing == Spec => []RemovedGetsNothing
BY RingInvHolds, RemovedFromInv, PTL

\* MovesOnlyWhatItMust: addNode moves requests to the new node only, removeNode only the
\* requests that were answered from a point of the node.
THEOREM MovesOnlyMust == Spec => MovesOnlyWhatItMust
BY RingInvHolds, StepMoves, PTL DEF Spec, MovesOnlyWhatItMust

\* EveryRequestHasNode holds but for the zero entries of newRing.
THEOREM OnlyZerosLoseRequests == Spec => [](~ZerosRemain => EveryRequestHasNode)
BY RingInvHolds, NodeUnlessZeros, PTL

\* The first removal takes the zero entries out of the ring, and they do not come back.
THEOREM RemovalMends ==
  Spec => [][(\E n \in Node : removeNode(n)) \/ ~ZerosRemain => ~ZerosRemain']_vars
<1>. DEFINE Mends == (\E n \in Node : removeNode(n)) \/ ~ZerosRemain => ~ZerosRemain'
<1>1. RingInv /\ [Next]_vars => [Mends]_vars
  BY ZerosGone DEF Next
<1>. QED
  BY <1>1, RingInvHolds, PTL DEF Spec
=============================================================================
