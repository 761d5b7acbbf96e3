----------------------------- MODULE Positions -----------------------------
(***************************************************************************)
(* Filtering a sequence by the positions it keeps.  SelectSeq does the     *)
(* same, but is defined by recursion, of which the provers know nothing.   *)
(***************************************************************************)
EXTENDS Naturals, Sequences, FiniteSets

\* The i-th of a finite set of positions, from the left.
NthPlace(places, i) == CHOOSE k \in places : Cardinality({j \in places : j <= k}) = i

\* The entries of s at the given positions, in their order.
EntriesAt(s, places) == [i \in 1 .. Cardinality(places) |-> s[NthPlace(places, i)]]
=============================================================================
