------------------------------ MODULE MCMembers ------------------------------
(* A small instance of Members for TLC. *)
EXTENDS Members, TLC

CONSTANTS u1, p1, p2

Roles      == {"lead", "seller"}
RoleGrants == [r \in Roles |-> IF r = "lead" THEN {"manage"} ELSE {"edit"}]

Office(parent) == [type |-> "office", parent |-> parent]

\* A chain, a fork, a cycle of two with a unit below it, and a cycle of three.
Shapes == { <<Office(0), Office(1), Office(2)>>,
            <<[type |-> "consolidator", parent |-> 0], Office(1), Office(1)>>,
            <<Office(2), Office(1), Office(2)>>,
            <<Office(2), Office(3), Office(1)>>,
            <<[type |-> "freelance", parent |-> 0], Office(0), NoUnit>> }

Symmetric == Permutations({p1, p2})
=============================================================================
