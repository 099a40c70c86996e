------------------------------ MODULE MCDialer ------------------------------
(* Dialer for TLC.                                                         *)
EXTENDS Dialer, TLC

\* Calls of Dial are interchangeable, and so are calls of Close.
Symmetry == Permutations(Dials) \cup Permutations(Closers)

=============================================================================
