--------------------------- MODULE MCSubscriptions ---------------------------
(* Small instances of Subscriptions for TLC. *)
EXTENDS Subscriptions, TLC

CONSTANTS u1, u2, p1, p2, e1, e2

\* One customer with an address; and a second one, who has had that address
\* and another one.
OneAddress  == u1 :> {e1}
OneIsShared == u1 :> {e1} @@ u2 :> {e1, e2}

Symmetric == Permutations({p1, p2})

\* Two events are outstanding at once while there is one row or one customer;
\* with two of each, one event at a time.
Complete == /\ \A r \in RowId : Exists(r)
            /\ \A c \in CustomerId : stripe[c].email # None

FewEvents == Complete => Cardinality(events) <= 1

\* Commissions decide nothing about the status or the link of a row.
NobodyRefers == /\ \A r \in RowId : rows[r].ref = None
                /\ \A p \in Proc : request[p].step \in {"create", "checkout", "created"}
                                       => request[p].ref = None

\* u1 is the only one who has done anything.
Alone == /\ \A r \in RowId : rows[r].user # u2
         /\ \A p \in Proc : request[p].step \in {"create", "checkout", "created"}
                                => request[p].user = u1

\* Two events are outstanding at once while there is one row and one customer,
\* one event with three of them, and none with all four.
FewRows == Cardinality({r \in RowId : Exists(r)})
             + Cardinality({c \in CustomerId : stripe[c].email # None})
             + Cardinality(events) <= 4

\* Two requests at a time, of one user, then with two events until the rows and
\* customers are complete, or of two users.
Overlapping == NobodyRefers /\ (FewRows \/ (Alone /\ ~Complete))
=============================================================================
