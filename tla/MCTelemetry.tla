---------------------------- MODULE MCTelemetry ----------------------------
(* Telemetry for TLC.                                                      *)
EXTENDS Telemetry, TLC

\* Connections are interchangeable, and so are caches.
Symmetry == Permutations(Conns) \cup Permutations(Caches)

=============================================================================
