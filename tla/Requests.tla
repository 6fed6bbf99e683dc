------------------------------ MODULE Requests ------------------------------
(***************************************************************************)
(* How an endpoint works on a table.  A request reads, decides, and        *)
(* commits one write.  Other requests may commit in between, and a request *)
(* may die before its commit.  The ORM writes the columns that differ from *)
(* what it loaded, so a pending write holds just those columns.  raced     *)
(* remembers the tables in which a write landed although the table had     *)
(* changed since the request read it: the invariants that hold only while  *)
(* no request overtakes another say so.                                    *)
(***************************************************************************)
CONSTANT Proc   \* requests in flight at once

VARIABLES
    request,   \* what each request is about to write
    raced      \* tables in which a stale decision was written

Idle          == [table |-> "none"]
Free(p)       == request[p] = Idle
Pending(p, t) == request[p].table = t
Go(p, r)      == request' = [request EXCEPT ![p] = r]

RequestsInit ==
    /\ request = [p \in Proc |-> Idle]
    /\ raced = {}

RequestsTypeOK ==
    /\ DOMAIN request = Proc
    /\ \A p \in Proc : \/ Free(p)
                       \/ request[p].op \in {"insert", "update", "delete"}

Insert(t, row) == [table |-> t, op |-> "insert", row |-> row, fresh |-> TRUE]
Delete(t, id)  == [table |-> t, op |-> "delete", id |-> id, fresh |-> TRUE]
Update(t, id, write) ==
    [table |-> t, op |-> "update", id |-> id, write |-> write, fresh |-> TRUE]

\* A write is a set of columns with their values: of those that new changes in
\* what the session loaded.
Changes(row, new) ==
    {<<column, new[column]>> : column \in {f \in DOMAIN row : new[f] # row[f]}}

Written(write, column) ==
    {pair[2] : pair \in {w \in write : w[1] = column}}

Merge(write, row) ==
    [column \in DOMAIN row |->
        IF Written(write, column) = {} THEN row[column]
        ELSE CHOOSE v \in Written(write, column) : TRUE]

\* After a commit to table t the others work with what they read before it.
Commit(p, t) ==
    /\ request' = [q \in Proc |->
         IF q = p THEN Idle
         ELSE IF request[q].table = t THEN [request[q] EXCEPT !.fresh = FALSE]
         ELSE request[q]]
    /\ raced' = IF request[p].fresh THEN raced ELSE raced \cup {t}

\* The client leaves, the process dies, or the commit fails.
Drop(p) ==
    /\ ~Free(p)
    /\ Go(p, Idle)
    /\ UNCHANGED raced
=============================================================================
