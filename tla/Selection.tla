----------------------------- MODULE Selection ------------------------------
(***************************************************************************)
(* What a filter keeps of a sequence: the elements at some of its          *)
(* positions, in their order.                                              *)
(***************************************************************************)
EXTENDS Naturals, Sequences, FiniteSets

\* The k-th of a set of positions: k of them are not beyond it.
Nth(I, k) == CHOOSE i \in I : Cardinality(I \cap 1 .. i) = k

Kept(s, I) == [k \in 1 .. Cardinality(I) |-> s[Nth(I, k)]]
=============================================================================
