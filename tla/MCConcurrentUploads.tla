------------------------- MODULE MCConcurrentUploads -------------------------
(* A small instance of ConcurrentUploads for TLC. *)
EXTENDS ConcurrentUploads, TLC

CONSTANTS p1, p2

Symmetric == Permutations({p1, p2})
=============================================================================
