-------------------------- MODULE MCAdministration --------------------------
(* A small instance of Administration for TLC. *)
EXTENDS Administration, TLC

CONSTANTS u1, u2, e1, e2, p1, p2, r1, r2

Symmetric == UNION {Permutations(s) : s \in {{u1, u2}, {e1, e2}, {p1, p2}, {r1, r2}}}
=============================================================================
