----------------------------- MODULE MCRegalias -----------------------------
(* A small instance of Regalias for TLC. *)
EXTENDS Regalias, TLC

CONSTANTS u1, u2, u3, p1, p2

Symmetric == Permutations({u1, u2, u3}) \cup Permutations({p1, p2})
=============================================================================
