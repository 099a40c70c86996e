------------------------------ MODULE MCDriver ------------------------------
(* Driver for TLC: two DSNs that name two instances.                       *)
EXTENDS Driver, TLC

CONSTANTS s1, s2, u1, u2, o1, o2

MCHost == (s1 :> u1) @@ (s2 :> u2)

\* The Opens are interchangeable: both of one pool or of two.
MCPools == {(o1 :> s1) @@ (o2 :> s) : s \in DSNs} \cup {(o1 :> s2) @@ (o2 :> s2)}

=============================================================================
