------------------------------ MODULE MCRouter ------------------------------
(* A small instance of Router for TLC. *)
EXTENDS Router, TLC

CONSTANTS n1, n2, n3, c1, c2

Interchangeable == Permutations({n1, n2, n3}) \cup Permutations({c1, c2})

\* Sorted is the sort that TLC computes, on every sequence of up to five of the hashes.
ASSUME SortedIsSortSeq ==
  \A n \in 0 .. 5 : \A seq \in [1 .. n -> Hash] :
    Sorted(seq) = SortSeq(seq, LAMBDA x, y : x < y)
=============================================================================
