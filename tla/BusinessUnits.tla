---------------------------- MODULE BusinessUnits ----------------------------
(***************************************************************************)
(* The tree of business units: the endpoints of                            *)
(* business_units_controller.py that create, convert and move units.       *)
(***************************************************************************)
EXTENDS Integers, Requests

CONSTANTS
    User,       \* users of the admin realm, members and beneficiaries
    MaxUnits    \* bound: rows of business_units

ASSUME UnitBoundsAssumption == MaxUnits \in Nat

UnitId   == 1 .. MaxUnits
UnitType == {"consolidator", "office", "counter", "freelance"}

\* A NULL column, and a row that does not exist.
Null     == 0
NoUnit   == [type |-> "absent", parent |-> Null]
Unit     == [type : UnitType, parent : UnitId \cup {Null}]

VARIABLE units   \* business_units by id

treeVars == <<units, request, raced>>

-----------------------------------------------------------------------------
(***************************************************************************)
(* The tree.                                                               *)
(***************************************************************************)
Units == {u \in UnitId : units[u] # NoUnit}
IsNextUnit(u) == u \in UnitId \ Units /\ \A v \in UnitId : v < u => v \in Units

\* What a climb from u meets, on a tree or on a cycle, is the least set that
\* holds the parent of u and, with a unit, its parent.
Upward(S)    == \A v \in S : units[v].parent \in S \cup {Null}
Leads(u, S)  == units[u].parent \in S \cup {Null} /\ Upward(S)
Above(u)     == {v \in UnitId : \A S \in SUBSET UnitId : Leads(u, S) => v \in S}
Ancestors(u) == {u} \cup Above(u)

ParentRules(type, parent) ==
    /\ type \in {"consolidator", "freelance"} => parent = Null
    /\ type = "counter" => parent # Null

StoreUnit(p, type, parent) ==
    /\ Free(p)
    /\ ParentRules(type, parent)
    /\ parent \in Units \cup {Null}
    /\ Go(p, Insert("units", [type |-> type, parent |-> parent]))
    /\ UNCHANGED <<units, raced>>

Rewrite(p, u, new) ==
    /\ new # units[u]
    /\ Go(p, Update("units", u, Changes(units[u], new)))

Converts(unit, type, detach) ==
    \/ unit.type = "freelance" /\ type = "office"
    \/ unit.type = "counter" /\ type = "office"
    \/ unit.type = "office" /\ type = "consolidator" /\ unit.parent = Null
    \/ unit.type = "office" /\ type = "office" /\ detach /\ unit.parent # Null

\* Every conversion leaves a unit without a parent, which the rules allow.
ChangeType(p, u, type, detach) ==
    /\ Free(p)
    /\ u \in Units
    /\ Converts(units[u], type, detach)
    /\ Rewrite(p, u, [type |-> type, parent |-> Null])
    /\ UNCHANGED <<units, raced>>

\* The loop climbs from the new parent and stops at a unit it has seen.
ClosesMutant(u, parent) == parent = u
Closes(u, parent) == parent # Null /\ u \in Ancestors(parent)

Move(p, u, parent) ==
    /\ Free(p)
    /\ u \in Units /\ parent \in Units \cup {Null}
    /\ ParentRules(units[u].type, parent)
    /\ ~Closes(u, parent)
    /\ Rewrite(p, u, [units[u] EXCEPT !.parent = parent])
    /\ UNCHANGED <<units, raced>>

CommitUnit(p) ==
    /\ Pending(p, "units")
    /\ LET r == request[p] IN
       IF r.op = "insert"
       THEN \E u \in UnitId : IsNextUnit(u) /\ units' = [units EXCEPT ![u] = r.row]
       ELSE units' = [units EXCEPT ![r.id] = Merge(r.write, @)]
    /\ Commit(p, "units")

-----------------------------------------------------------------------------
TreeInit ==
    /\ units = [u \in UnitId |-> NoUnit]
    /\ RequestsInit

TreeNext(p) ==
    \/ \E type \in UnitType, parent \in UnitId \cup {Null} : StoreUnit(p, type, parent)
    \/ \E u \in UnitId, type \in UnitType, detach \in BOOLEAN : ChangeType(p, u, type, detach)
    \/ \E u \in UnitId, parent \in UnitId \cup {Null} : Move(p, u, parent)
    \/ CommitUnit(p)
    \/ Drop(p) /\ UNCHANGED units

TreeSpec == TreeInit /\ [][\E p \in Proc : TreeNext(p)]_treeVars

-----------------------------------------------------------------------------
(***************************************************************************)
(* Properties.                                                             *)
(***************************************************************************)
TreeTypeOK ==
    /\ units \in [UnitId -> Unit \cup {NoUnit}]
    /\ RequestsTypeOK

(***************************************************************************)
(* As long as no write to the tree was decided on an older tree, no unit   *)
(* is above itself and a consolidator is a root: move and change-type keep *)
(* it a forest.                                                            *)
(***************************************************************************)
ForestUnlessRaced ==
    "units" \notin raced =>
        \A u \in Units :
            /\ units[u].parent \in Units \cup {Null}
            /\ u \notin Above(u)
            /\ ParentRules(units[u].type, units[u].parent)

(***************************************************************************)
(* Even when requests overtake one another a counter hangs from a unit and *)
(* a freelance hangs from none: no conversion leads to either type, so     *)
(* what a request saw of the type still holds when it writes the parent.   *)
(***************************************************************************)
CounterHasParent ==
    \A u \in Units :
        /\ units[u].type = "counter" => units[u].parent \in Units
        /\ units[u].type = "freelance" => units[u].parent = Null
=============================================================================
