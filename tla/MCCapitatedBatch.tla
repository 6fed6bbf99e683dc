-------------------------- MODULE MCCapitatedBatch --------------------------
(* Small instances of CapitatedBatch for TLC. *)
EXTENDS CapitatedBatch, TLC

CONSTANTS d1, d2, i1, i2

Tier(r, lo, hi) == [rule |-> r, from |-> lo, to |-> hi]

\* An entry limit of 64, a renewal limit of 69, and one tier: nothing clashes.
StrictPlan == [entry |-> 64, renewal |-> 69, tiers |-> {Tier(1, 60, 69)}]

\* Two tiers that overlap from 66 to 68: of the Ages, 30 is plain, 67 meets both
\* tiers, and 69 is too old to enter and not to renew.
OverlapPlan == [entry |-> 68, renewal |-> 69,
                tiers |-> {Tier(1, 60, 68), Tier(2, 66, 80)}]

OnePlan     == {StrictPlan}
Overlapping == {OverlapPlan}

Young    == {30}
Ages     == {30, 67, 69}

Documents == Permutations({d1, d2})
=============================================================================
