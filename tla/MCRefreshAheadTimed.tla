------------------------ MODULE MCRefreshAheadTimed ------------------------
(* RefreshAheadTimed for TLC.                                              *)
EXTENDS RefreshAheadTimed, FiniteSets, TLC

\* Operations are interchangeable.
Symmetry == Permutations(Ops)

\* As in MCRefreshAheadCache: allocation never blocks.
ASSUME Cardinality(Ops) >= Cardinality(Callers) + 3

=============================================================================
