------------------------ MODULE MCRefreshAheadCache ------------------------
(* RefreshAheadCache for TLC.                                              *)
EXTENDS RefreshAheadCache, Naturals, FiniteSets, TLC

\* Operations are interchangeable, and so are callers.
Symmetry == Permutations(Ops) \cup Permutations(Callers)

\* cur, next and one operation per caller can be in use when a fresh one is
\* needed: with this many, allocation never blocks, as in the program.
ASSUME Cardinality(Ops) >= Cardinality(Callers) + 3

=============================================================================
