------------------------------- MODULE Positions -------------------------------
(* Sets of positions in a sequence, in their order. *)
EXTENDS Naturals, Sequences, FiniteSets

\* The k-th smallest element of a set of positions.
Ranked(S, k) == {p \in S : Cardinality({q \in S : q <= p}) = k}
Kth(S, k) == CHOOSE p \in Ranked(S, k) : TRUE

\* What a sequence has at the positions S.
At(s, S) == [k \in 1..Cardinality(S) |-> s[Kth(S, k)]]
=============================================================================
