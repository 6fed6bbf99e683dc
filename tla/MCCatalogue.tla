----------------------------- MODULE MCCatalogue -----------------------------
(* A small instance of Catalogue for TLC. *)
EXTENDS Catalogue, TLC

CONSTANTS c1, c2, x1, x2, t1, t2, i1, i2, p1, p2

Symmetric == UNION {Permutations(s) : s \in {{c1, c2}, {x1, x2}, {t1, t2}, {p1, p2}}}
=============================================================================
