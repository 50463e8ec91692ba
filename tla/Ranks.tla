-------------------------------- MODULE Ranks --------------------------------
(***************************************************************************)
(* Selecting entries of a sequence by a set of positions.                  *)
(***************************************************************************)
EXTENDS Integers, Sequences, FiniteSets

\* The place of i in the ascending order of a finite set of integers.
Rank(S, i) == Cardinality({j \in S : j <= i})

\* The member of S at place k.
Nth(S, k) == CHOOSE i \in S : Rank(S, i) = k

\* The entries of a sequence at the given positions, in their order.
Subsequence(seq, positions) == [k \in 1..Cardinality(positions) |-> seq[Nth(positions, k)]]
=============================================================================
