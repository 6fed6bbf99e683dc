------------------------------ MODULE Regalias ------------------------------
(***************************************************************************)
(* Regalias: who earns a commission on the sales of which user or unit.    *)
(* Two controllers write the table regalias, regalias_controller.py        *)
(* through RegaliasService, which looks for cycles and redundancies, and   *)
(* the GSA commissions of business_units_controller.py, which look for     *)
(* duplicates only.  The tree of units moves under both.  The percentage   *)
(* is between 0 and 100 on every path in and tells no state apart here.    *)
(***************************************************************************)
EXTENDS BusinessUnits

CONSTANT MaxRegalias   \* bound: rows ever inserted in regalias

ASSUME RegaliaBoundAssumption == MaxRegalias \in Nat
ASSUME SourceAssumption == User \cap UnitId = {}   \* source_type tells them apart

RegaliaId == 1 .. MaxRegalias
Regalia   == [beneficiary : User, source : User \cup UnitId]
NoRegalia == [beneficiary |-> Null]

VARIABLES
    regalias,      \* rows by id, or NoRegalia
    lastRegalia,   \* the id inserted last
    bypassed       \* whether a write was made that nobody checks for redundancy

regaliaVars == <<units, request, raced, regalias, lastRegalia, bypassed>>

-----------------------------------------------------------------------------
Rows == {regalias[g] : g \in RegaliaId} \ {NoRegalia}
Has(b, s) == [beneficiary |-> b, source |-> s] \in Rows

\* What the depth-first search from s visits is the least set of users that
\* holds s and, with a user, every user it earns from.
Closed(S) == \A b \in S, s \in User : Has(b, s) => s \in S
ReachesMutant(s, b) == s = b
Reaches(s, b) == \A S \in SUBSET User : s \in S /\ Closed(S) => b \in S

UnitsOf(b) == {u \in Units : Has(b, u)}

\* ancestor_chain follows node.parent; the query loads one level of it, and a
\* parent beyond what the session holds cannot be loaded there: the request
\* fails with a 500.
ChainLoads(b, u) ==
    LET held == UnitsOf(b) \cup {u}
        session == held \cup {units[v].parent : v \in held}
    IN  \A v \in held : Ancestors(v) \subseteq session

RedundantMutant(b, u) == \E e \in UnitsOf(b) : e \in Ancestors(u)
Redundant(b, u) == \E e \in UnitsOf(b) : u \in Ancestors(e) \/ e \in Ancestors(u)

StoreUserRegalia(p, b, s) ==
    /\ Free(p)
    /\ ~Has(b, s)
    /\ ~Reaches(s, b)
    /\ Go(p, Insert("regalias", [beneficiary |-> b, source |-> s]))
    /\ UNCHANGED <<units, raced, regalias, lastRegalia, bypassed>>

StoreUnitRegalia(p, b, u) ==
    /\ Free(p)
    /\ u \in Units
    /\ ~Has(b, u)
    /\ UnitsOf(b) # {} => ~Redundant(b, u) /\ ChainLoads(b, u)
    /\ Go(p, Insert("regalias", [beneficiary |-> b, source |-> u]))
    /\ UNCHANGED <<units, raced, regalias, lastRegalia, bypassed>>

DestroyRegalia(p, g) ==
    /\ Free(p)
    /\ regalias[g] # NoRegalia
    /\ Go(p, Delete("regalias", g))
    /\ UNCHANGED <<units, raced, regalias, lastRegalia, bypassed>>

StoreCommissionMutant(p, u, b) ==
    /\ Free(p)
    /\ u \in Units
    /\ Go(p, Insert("regalias", [beneficiary |-> b, source |-> u]))
    /\ bypassed' = TRUE
    /\ UNCHANGED <<units, raced, regalias, lastRegalia>>

StoreCommission(p, u, b) ==
    /\ Free(p)
    /\ u \in Units
    /\ ~Has(b, u)
    /\ Go(p, Insert("regalias", [beneficiary |-> b, source |-> u]))
    /\ bypassed' = TRUE
    /\ UNCHANGED <<units, raced, regalias, lastRegalia>>

DestroyCommission(p, u, g) ==
    /\ Free(p)
    /\ regalias[g] # NoRegalia /\ regalias[g].source = u
    /\ Go(p, Delete("regalias", g))
    /\ UNCHANGED <<units, raced, regalias, lastRegalia, bypassed>>

\* Deleting a row that is gone does nothing.
CommitRegalia(p) ==
    /\ Pending(p, "regalias")
    /\ \/ /\ request[p].op = "insert"
          /\ lastRegalia < MaxRegalias
          /\ lastRegalia' = lastRegalia + 1
          /\ regalias' = [regalias EXCEPT ![lastRegalia + 1] = request[p].row]
       \/ /\ request[p].op = "delete"
          /\ regalias' = [regalias EXCEPT ![request[p].id] = NoRegalia]
          /\ UNCHANGED lastRegalia
    /\ Commit(p, "regalias")
    /\ UNCHANGED <<units, bypassed>>

\* A unit that gets a parent takes its regalias along, unchecked.
TreeMoves(p) ==
    /\ TreeNext(p)
    /\ bypassed' = (bypassed \/ \E u \in Units : units'[u].parent \notin {units[u].parent, Null})
    /\ UNCHANGED <<regalias, lastRegalia>>

-----------------------------------------------------------------------------
RegaliasInit ==
    /\ TreeInit
    /\ regalias = [g \in RegaliaId |-> NoRegalia]
    /\ lastRegalia = 0
    /\ bypassed = FALSE

RegaliasNext(p) ==
    \/ TreeMoves(p)
    \/ \E b \in User, s \in User : StoreUserRegalia(p, b, s)
    \/ \E b \in User, u \in UnitId : StoreUnitRegalia(p, b, u)
    \/ \E g \in RegaliaId : DestroyRegalia(p, g)
    \/ \E b \in User, u \in UnitId : StoreCommission(p, u, b)
    \/ \E u \in UnitId, g \in RegaliaId : DestroyCommission(p, u, g)
    \/ CommitRegalia(p)

RegaliasSpec == RegaliasInit /\ [][\E p \in Proc : RegaliasNext(p)]_regaliaVars

-----------------------------------------------------------------------------
(***************************************************************************)
(* Properties.                                                             *)
(***************************************************************************)
RegaliasTypeOK ==
    /\ TreeTypeOK
    /\ regalias \in [RegaliaId -> Regalia \cup {NoRegalia}]
    /\ lastRegalia \in 0 .. MaxRegalias
    /\ bypassed \in BOOLEAN

(***************************************************************************)
(* No user earns, through other users, on itself: every non-empty set of   *)
(* users has a member that earns from nobody in the set.  It takes a race  *)
(* of two inserts, each fine on its own, to close a cycle.                 *)
(***************************************************************************)
Acyclic ==
    \A S \in (SUBSET User) \ {{}} : \E b \in S : \A s \in S : ~Has(b, s)

UserCycleFree == "regalias" \notin raced => Acyclic

(***************************************************************************)
(* A beneficiary has one row per origin, whichever controller wrote it,    *)
(* unless two inserts raced: the table has no unique key.                  *)
(***************************************************************************)
OneRegaliaPerOrigin ==
    "regalias" \notin raced =>
        \A g, h \in RegaliaId : g # h /\ regalias[g] # NoRegalia => regalias[g] # regalias[h]

(***************************************************************************)
(* Nobody earns on a unit and on a unit above it, as long as rows come     *)
(* from RegaliasService and no unit is given a parent: the GSA commissions *)
(* and move write what the service would refuse.                           *)
(***************************************************************************)
NoRedundantUnits ==
    "regalias" \notin raced /\ ~bypassed =>
        \A b \in User : \A u, v \in UnitsOf(b) : u \in Above(v) => u = v

(***************************************************************************)
(* The tree and the rows that point into it are sound: a forest with the   *)
(* types in their places unless requests raced, with counters under a unit *)
(* even then.                                                              *)
(***************************************************************************)
TreeConsistent == RegaliasTypeOK /\ ForestUnlessRaced /\ CounterHasParent
=============================================================================
