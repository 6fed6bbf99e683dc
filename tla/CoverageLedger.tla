--------------------------- MODULE CoverageLedger ---------------------------
(***************************************************************************)
(* What the capitated-coverage component promises, without files, rows,    *)
(* sessions or contracts.  Every insured document has one slot per         *)
(* calendar month.  A slot starts free, an upload may cover it, and a      *)
(* rollback may revert it; a reverted slot is never used again (the table  *)
(* capitados_monthly_records has one row per company, product, person and  *)
(* month, whatever the status of that row).                                *)
(***************************************************************************)
EXTENDS Integers

CONSTANTS Doc,         \* the insured documents, one per product
          LastMonth    \* the calendar is 1..LastMonth

VARIABLE slot          \* slot[d][m] is "free", "covered" or "reverted"

Month == 1 .. LastMonth

Init == slot = [d \in Doc |-> [m \in Month |-> "free"]]

(***************************************************************************)
(* An upload takes effect at once, for one month m and a set S of          *)
(* documents, none of which is covered in m or later.                      *)
(***************************************************************************)
Cover(S, m) ==
    /\ \A d \in S : slot[d][m] = "free"
    /\ \A d \in S, n \in Month : slot[d][n] = "covered" => n < m
    /\ slot' = [d \in Doc |->
                  IF d \in S THEN [slot[d] EXCEPT ![m] = "covered"]
                             ELSE slot[d]]

\* A rollback reverts documents covered in one month, all at once.
Revert(S, m) ==
    /\ \A d \in S : slot[d][m] = "covered"
    /\ slot' = [d \in Doc |->
                  IF d \in S THEN [slot[d] EXCEPT ![m] = "reverted"]
                             ELSE slot[d]]

Next == \E S \in SUBSET Doc, m \in Month : Cover(S, m) \/ Revert(S, m)

Spec == Init /\ [][Next]_slot
=============================================================================
