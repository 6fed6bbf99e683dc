-------------------------------- MODULE Acl --------------------------------
(***************************************************************************)
(* Roles and permissions of the two guards and the matrix that grants the  *)
(* one to the other: acl_controller.py.  Neither table has a unique key on *)
(* the name; labels, scopes and descriptions are read by no check here.    *)
(***************************************************************************)
EXTENDS Requests

CONSTANTS
    RoleRow,         \* ids of roles
    PermissionRow,   \* ids of permissions
    Name,            \* names
    Guard            \* admin and customer

VARIABLES
    named,    \* roles and permissions: name and guard of each row, or NoName
    granted   \* role_has_permissions: a role and a permission each

aclVars == <<named, granted>>

NoName == [name |-> "none"]
Tables == {"roles", "permissions"}
Row(t) == IF t = "roles" THEN RoleRow ELSE PermissionRow

-----------------------------------------------------------------------------
Taken(t, n, g) == {i \in Row(t) : named[t][i] = [name |-> n, guard |-> g]}

StoreNamed(p, t, n, g) ==
    /\ Free(p)
    /\ Taken(t, n, g) = {}
    /\ Go(p, Insert(t, [name |-> n, guard |-> g]))
    /\ UNCHANGED <<raced, aclVars>>

UpdateNamed(p, t, i, n, g) ==
    /\ Free(p)
    /\ named[t][i] # NoName /\ named[t][i].guard = g
    /\ Taken(t, n, g) \subseteq {i}
    /\ Go(p, Update(t, i, Changes(named[t][i], [name |-> n, guard |-> g])))
    /\ UNCHANGED <<raced, aclVars>>

CommitNamed(p, t) ==
    /\ Pending(p, t)
    /\ \/ /\ request[p].op = "insert"
          /\ \E i \in {j \in Row(t) : named[t][j] = NoName} :
               named' = [named EXCEPT ![t][i] = request[p].row]
       \/ /\ request[p].op = "update"
          /\ named' = [named EXCEPT ![t][request[p].id] = Merge(request[p].write, @)]
    /\ Commit(p, t)
    /\ UNCHANGED granted

StoreRole(p, n, g)           == StoreNamed(p, "roles", n, g)
StorePermission(p, n, g)     == StoreNamed(p, "permissions", n, g)
UpdateRole(p, i, n, g)       == UpdateNamed(p, "roles", i, n, g)
UpdatePermission(p, i, n, g) == UpdateNamed(p, "permissions", i, n, g)

-----------------------------------------------------------------------------
Grant(role, permission) == [role |-> role, permission |-> permission]

InGuard(t, g) == {i \in Row(t) : named[t][i] # NoName /\ named[t][i].guard = g}

ToggleAssignment(p, g, role, permission, value) ==
    /\ Free(p)
    /\ role \in InGuard("roles", g)
    /\ permission \in InGuard("permissions", g)
    /\ value # (Grant(role, permission) \in granted)
    /\ Go(p, IF value THEN Insert("role_has_permissions", Grant(role, permission))
                      ELSE Delete("role_has_permissions", Grant(role, permission)))
    /\ UNCHANGED <<raced, aclVars>>

\* A grant that is there by now breaks the primary key and changes nothing.
CommitToggle(p) ==
    /\ Pending(p, "role_has_permissions")
    /\ granted' = IF request[p].op = "insert" THEN granted \cup {request[p].row}
                                              ELSE granted \ {request[p].id}
    /\ Commit(p, "role_has_permissions")
    /\ UNCHANGED named

-----------------------------------------------------------------------------
AclInit ==
    /\ named = [t \in Tables |-> [i \in Row(t) |-> NoName]]
    /\ granted = {}

AclNext(p) ==
    \/ \E n \in Name, g \in Guard : StoreRole(p, n, g) \/ StorePermission(p, n, g)
    \/ \E n \in Name, g \in Guard : \/ \E i \in RoleRow : UpdateRole(p, i, n, g)
                                    \/ \E i \in PermissionRow : UpdatePermission(p, i, n, g)
    \/ \E t \in Tables : CommitNamed(p, t)
    \/ \E g \in Guard, role \in RoleRow, permission \in PermissionRow, value \in BOOLEAN :
         ToggleAssignment(p, g, role, permission, value)
    \/ CommitToggle(p)

-----------------------------------------------------------------------------
(***************************************************************************)
(* Properties.                                                             *)
(***************************************************************************)
AclTypeOK ==
    /\ DOMAIN named = Tables
    /\ \A t \in Tables : named[t] \in [Row(t) -> [name : Name, guard : Guard] \cup {NoName}]
    /\ granted \subseteq [role : RoleRow, permission : PermissionRow]

(***************************************************************************)
(* Two roles, or two permissions, of a guard share a name only after a     *)
(* race.  From then on the queries for one row fail, so neither of the two *)
(* can take that name again.                                               *)
(***************************************************************************)
NamesDiffer ==
    \A t \in Tables : t \notin raced =>
        \A i, j \in Row(t) : i # j /\ named[t][i] = named[t][j] => named[t][i] = NoName

(***************************************************************************)
(* No role ever carries a permission of the other guard, however renames,  *)
(* new rows and toggles interleave: a check by name alone, which is how    *)
(* get_permissions works, cannot let a customer's role into the back       *)
(* office.                                                                 *)
(***************************************************************************)
GrantsStayInGuard ==
    \A grant \in granted :
        /\ named["roles"][grant.role] # NoName /\ named["permissions"][grant.permission] # NoName
        /\ named["roles"][grant.role].guard = named["permissions"][grant.permission].guard
=============================================================================
