------------------------------- MODULE Members -------------------------------
(***************************************************************************)
(* The members of the business units and the permissions they get there:   *)
(* the member endpoints of business_units_controller.py and the resolver   *)
(* of business_unit_permission_resolver.py.  No member endpoint reads more *)
(* of a unit than its type, so the tree is any tree and stays as it is.    *)
(***************************************************************************)
EXTENDS FiniteSets, BusinessUnits

CONSTANTS
    Role,            \* roles that a membership may carry
    UnitScoped,      \* the roles whose scope is "unit"
    Key,             \* keys of PERMISSION_KEYS told apart
    ManageChildren,  \* the key unit.manage_children
    Grants,          \* the keys that the permissions of a role name
    Trees,           \* the trees to start from
    MaxMembers       \* bound: rows ever inserted in memberships_business_unit

ASSUME MemberBoundAssumption == MaxMembers \in Nat
ASSUME RolesAssumption == UnitScoped \subseteq Role /\ Grants \in [Role -> SUBSET Key]
ASSUME KeyAssumption   == ManageChildren \in Key
ASSUME TreesAssumption == Trees \subseteq [UnitId -> Unit \cup {NoUnit}]

MemberId == 1 .. MaxMembers
Member   == [unit : UnitId, user : User, role : Role]
NoMember == [unit |-> Null]

VARIABLES
    users,       \* the users created so far
    members,     \* memberships_business_unit: rows by id, or NoMember
    lastMember   \* the id inserted last

memberVars == <<units, request, raced, users, members, lastMember>>

-----------------------------------------------------------------------------
(***************************************************************************)
(* Members.                                                                *)
(***************************************************************************)
Members      == {m \in MemberId : members[m] # NoMember}
RowsOf(s, u) == {m \in Members : members[m].unit = u /\ members[m].user = s}

LinkMemberMutant(p, u, s, role) ==
    /\ Free(p)
    /\ u \in Units /\ s \in users
    /\ Go(p, Insert("members", [unit |-> u, user |-> s, role |-> role]))
    /\ UNCHANGED <<units, raced, users, members, lastMember>>

LinkMember(p, u, s, role) ==
    /\ Free(p)
    /\ u \in Units /\ s \in users
    /\ RowsOf(s, u) = {}
    /\ Go(p, Insert("members", [unit |-> u, user |-> s, role |-> role]))
    /\ UNCHANGED <<units, raced, users, members, lastMember>>

\* The user and the membership are one transaction; nobody else can name the
\* user before it commits, so the request is one step.
CreateMember(p, u, s, role) ==
    /\ Free(p)
    /\ u \in Units /\ units[u].type # "freelance"
    /\ role \in UnitScoped
    /\ s \in User \ users
    /\ lastMember < MaxMembers
    /\ users' = users \cup {s}
    /\ lastMember' = lastMember + 1
    /\ members' = [members EXCEPT ![lastMember + 1] =
                      [unit |-> u, user |-> s, role |-> role]]
    /\ request' = [q \in Proc |-> IF Pending(q, "members")
                                  THEN [request[q] EXCEPT !.fresh = FALSE]
                                  ELSE request[q]]
    /\ UNCHANGED <<units, raced>>

\* Any role is accepted here, of whatever scope.
ChangeRole(p, m, role) ==
    /\ Free(p)
    /\ m \in Members /\ members[m].role # role
    /\ Go(p, Update("members", m, {<<"role", role>>}))
    /\ UNCHANGED <<units, raced, users, members, lastMember>>

RemoveMember(p, m) ==
    /\ Free(p)
    /\ m \in Members
    /\ Go(p, Delete("members", m))
    /\ UNCHANGED <<units, raced, users, members, lastMember>>

\* The row may be gone by now: an UPDATE then fails, a DELETE does nothing.
CommitMember(p) ==
    /\ Pending(p, "members")
    /\ LET r == request[p] IN
       \/ /\ r.op = "insert"
          /\ lastMember < MaxMembers
          /\ lastMember' = lastMember + 1
          /\ members' = [members EXCEPT ![lastMember + 1] = r.row]
       \/ /\ r.op = "update"
          /\ members' = IF r.id \in Members
                        THEN [members EXCEPT ![r.id] = Merge(r.write, @)]
                        ELSE members
          /\ UNCHANGED lastMember
       \/ /\ r.op = "delete"
          /\ members' = [members EXCEPT ![r.id] = NoMember]
          /\ UNCHANGED lastMember
    /\ Commit(p, "members")
    /\ UNCHANGED <<units, users>>

-----------------------------------------------------------------------------
MembersInit ==
    /\ units \in Trees
    /\ RequestsInit
    /\ users \in SUBSET User
    /\ members = [m \in MemberId |-> NoMember]
    /\ lastMember = 0

MembersNext(p) ==
    \/ \E u \in UnitId, s \in User, role \in Role : LinkMember(p, u, s, role)
    \/ \E u \in UnitId, s \in User, role \in Role : CreateMember(p, u, s, role)
    \/ \E m \in MemberId, role \in Role : ChangeRole(p, m, role)
    \/ \E m \in MemberId : RemoveMember(p, m)
    \/ CommitMember(p)
    \/ Drop(p) /\ UNCHANGED <<units, users, members, lastMember>>

MembersSpec == MembersInit /\ [][\E p \in Proc : MembersNext(p)]_memberVars

-----------------------------------------------------------------------------
(***************************************************************************)
(* The permission resolver.  A user may have two rows for a unit once two  *)
(* links raced; the dictionary keeps one of them, so the operators take    *)
(* the row kept for each unit (own) as a parameter.                        *)
(***************************************************************************)
LevelNone      == 0
LevelLocal     == 1
LevelInherited == 2
LevelGlobal    == 3

Kept(s) == {own \in [UnitId -> Members \cup {0}] :
              \A u \in UnitId : IF RowsOf(s, u) = {} THEN own[u] = 0
                                                     ELSE own[u] \in RowsOf(s, u)}

\* The unit n levels above u, Null above a root.
Climb[n \in 0 .. MaxUnits] ==
    [u \in 0 .. MaxUnits |->
        IF n = 0 \/ u = Null THEN u ELSE Climb[n - 1][units[u].parent]]

Local(own, u) == IF own[u] = 0 THEN {} ELSE Grants[members[own[u]].role]

LevelsMutant(global, own, unit) ==
    LET top == Cardinality(Ancestors(unit)) - 1
        level[h \in 0 .. top] ==
            [key \in Key |->
               IF key \in global THEN LevelGlobal
               ELSE IF \E a \in (h + 1) .. top :
                         /\ ManageChildren \in Local(own, Climb[a][unit])
                         /\ key \in Local(own, Climb[a][unit]) THEN LevelInherited
               ELSE IF key \in Local(own, Climb[h][unit]) THEN LevelLocal
               ELSE LevelNone]
    IN  level[0]

\* The chain is walked from its root, at height top, down to the unit.
Levels(global, own, unit) ==
    LET top == Cardinality(Ancestors(unit)) - 1
        level[h \in 0 .. top] ==
            [key \in Key |->
               IF key \in global THEN LevelGlobal
               ELSE IF \E a \in (h + 1) .. top :
                         /\ level[a][ManageChildren] > LevelNone
                         /\ key \in Local(own, Climb[a][unit]) THEN LevelInherited
               ELSE IF key \in Local(own, Climb[h][unit]) THEN LevelLocal
               ELSE LevelNone]
    IN  level[0]

-----------------------------------------------------------------------------
(***************************************************************************)
(* Properties.                                                             *)
(***************************************************************************)
MembersTypeOK ==
    /\ TreeTypeOK
    /\ users \subseteq User
    /\ members \in [MemberId -> Member \cup {NoMember}]
    /\ lastMember \in 0 .. MaxMembers

(***************************************************************************)
(* Linking a user twice takes a race: the table has no unique key, the     *)
(* check of member_link is all there is.                                   *)
(***************************************************************************)
OneMembershipPerUnit ==
    "members" \notin raced =>
        \A u \in UnitId, s \in User : \A m, n \in RowsOf(s, u) : m = n

\* The documentation: a unit passes its local permissions down when
\* manage_children is global, or local to it or to a unit above it in the
\* chain; the level of a key is the greatest of global, inherited and local.
Passes(global, own, unit, h) ==
    \/ ManageChildren \in global
    \/ \E a \in h .. Cardinality(Ancestors(unit)) - 1 :
           ManageChildren \in Local(own, Climb[a][unit])

Greatest(global, own, unit, key) ==
    LET inherited == \E h \in 1 .. Cardinality(Ancestors(unit)) - 1 :
                         /\ key \in Local(own, Climb[h][unit])
                         /\ Passes(global, own, unit, h)
    IN  CASE key \in global -> LevelGlobal
          [] key \notin global /\ inherited -> LevelInherited
          [] key \notin global /\ ~inherited /\ key \in Local(own, unit) -> LevelLocal
          [] OTHER -> LevelNone

(***************************************************************************)
(* What the resolver computes level by level along a chain, on any tree    *)
(* that requests can leave (cycles and duplicated rows included), is what  *)
(* its documentation says.  Looked at between requests: a pending one has  *)
(* changed no row.                                                         *)
(***************************************************************************)
ResolverMatchesReference ==
    (\A p \in Proc : Free(p)) =>
    \A s \in users, global \in SUBSET Key, unit \in Units :
        \A own \in Kept(s), key \in Key :
            Levels(global, own, unit)[key] = Greatest(global, own, unit, key)

\* Memberships point to users and units, once each unless requests raced.
MembershipsConsistent == MembersTypeOK /\ OneMembershipPerUnit
=============================================================================
