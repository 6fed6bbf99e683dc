--------------------------- MODULE MCPlanVersions ---------------------------
(* Small instances of PlanVersions for TLC. *)
EXTENDS PlanVersions, TLC
CONSTANTS p1, p2, r1

\* Surcharges, coverages and records decide nothing about activations: they are
\* followed while there are two versions, records while there are three, and
\* requests without them to four versions.
FewDetails == /\ lastVersion > 2 => Details = {} /\ covered = {}
              /\ lastVersion > 3 => recorded = {}
=============================================================================
