------------------------- MODULE BusinessUnitsProofs -------------------------
(***************************************************************************)
(* Unless two writes to a table raced, the units are a forest, users never *)
(* earn in a circle, and a beneficiary has one row per origin and no unit  *)
(* twice, for any number of users, units, rows and requests.               *)
(*                                                                         *)
(* None of it is inductive: the row that a request writes was judged when  *)
(* the request began.  What carries over is that, until some other write   *)
(* to the table lands, that judgement is still true of the rows there are. *)
(* Three invariants share the requests: the rows as users see them         *)
(* (EdgesInv), the tree (TreeInv), and the rows upon the tree (UnitsInv),  *)
(* which the writes to the tree cross.  Last come the memberships, and     *)
(* that the permission resolver computes what its documentation says.      *)
(***************************************************************************)
EXTENDS Regalias, Members, FiniteSetTheorems, WellFoundedInduction, TLAPS

-----------------------------------------------------------------------------
(***************************************************************************)
(* Requests.                                                               *)
(***************************************************************************)
Table == {"units", "regalias", "members"}

RequestsOK ==
    /\ RequestsTypeOK
    /\ \A p \in Proc : /\ "table" \in DOMAIN request[p]
                       /\ \/ Free(p)
                          \/ request[p].table \in Table /\ "op" \in DOMAIN request[p]

\* A step that leaves the tables of T and the requests that write them alone.
Elsewhere(T) ==
    /\ DOMAIN request' = Proc
    /\ \A q \in Proc : request'[q].table \in T => request'[q] = request[q]
    /\ raced \cap T \subseteq raced'

LEMMA Begun ==
    ASSUME RequestsOK, NEW p \in Proc, NEW r, Go(p, r), UNCHANGED raced,
           "table" \in DOMAIN r,
           \/ r = Idle
           \/ /\ r.table \in Table /\ "op" \in DOMAIN r
              /\ r.op \in {"insert", "update", "delete"}
    PROVE  /\ RequestsOK'
           /\ request'[p] = r
           /\ \A q \in Proc : q # p => request'[q] = request[q]
           /\ \A T \in SUBSET Table : r.table \notin T => Elsewhere(T)
<1>1. /\ request'[p] = r /\ DOMAIN request' = Proc
      /\ \A q \in Proc : q # p => request'[q] = request[q]
  BY DEF RequestsOK, RequestsTypeOK, Go
<1> QED
  BY <1>1 DEF RequestsOK, RequestsTypeOK, Elsewhere, Free

LEMMA Landed ==
    ASSUME RequestsOK, NEW p \in Proc, NEW t \in Table, Pending(p, t), Commit(p, t)
    PROVE  /\ RequestsOK'
           /\ request'[p] = Idle
           /\ \A q \in Proc : request'[q].table = t =>
                /\ request[q].table = t
                /\ request'[q] = [request[q] EXCEPT !.fresh = FALSE]
           /\ raced' = IF request[p].fresh THEN raced ELSE raced \cup {t}
           /\ \A T \in SUBSET Table : t \notin T => Elsewhere(T)
<1>1. /\ request'[p] = Idle /\ DOMAIN request' = Proc
      /\ \A q \in Proc : q # p /\ request[q].table = t =>
           request'[q] = [request[q] EXCEPT !.fresh = FALSE]
      /\ \A q \in Proc : q # p /\ request[q].table # t => request'[q] = request[q]
  BY DEF RequestsOK, RequestsTypeOK, Commit
<1>2. \A q \in Proc : q # p /\ request[q].table = t =>
        /\ DOMAIN request'[q] = DOMAIN request[q]
        /\ request'[q].table = t
        /\ "op" \in DOMAIN request[q] /\ request'[q].op = request[q].op
        /\ request[q] # Idle
  BY <1>1 DEF RequestsOK, RequestsTypeOK, Free, Idle, Table
<1>3. Idle.table = "none" /\ "table" \in DOMAIN Idle /\ "none" \notin Table
  BY DEF Idle, Table
<1>4. RequestsOK'
  BY <1>1, <1>2, <1>3 DEF RequestsOK, RequestsTypeOK, Free
<1>5. raced' = IF request[p].fresh THEN raced ELSE raced \cup {t}
  BY DEF Commit
<1>6. \A q \in Proc : request'[q].table = t =>
        /\ request[q].table = t
        /\ request'[q] = [request[q] EXCEPT !.fresh = FALSE]
  BY <1>1, <1>3
<1>7. ASSUME NEW T \in SUBSET Table, t \notin T PROVE Elsewhere(T)
  <2>1. ASSUME NEW q \in Proc, request'[q].table \in T PROVE request'[q] = request[q]
    BY <1>1, <1>2, <1>3, <1>7, <2>1
  <2> QED
    BY <1>1, <1>5, <1>7, <2>1 DEF Elsewhere
<1> QED
  BY <1>1, <1>4, <1>5, <1>6, <1>7

LEMMA Dropped ==
    ASSUME RequestsOK, NEW p \in Proc, Drop(p)
    PROVE  RequestsOK' /\ \A T \in SUBSET Table : Elsewhere(T)
<1>1. Idle.table = "none" /\ "table" \in DOMAIN Idle /\ "none" \notin Table
  BY DEF Idle, Table
<1>2. Go(p, Idle) /\ UNCHANGED raced
  BY DEF Drop
<1> QED
  BY <1>1, <1>2, Begun

-----------------------------------------------------------------------------
(***************************************************************************)
(* What the ORM writes.                                                    *)
(***************************************************************************)
\* The value of a written column is one of those in the write.
LEMMA MergeColumn ==
    ASSUME NEW write, NEW row, NEW f \in DOMAIN row,
           \A w \in write : w = <<w[1], w[2]>>
    PROVE  /\ DOMAIN Merge(write, row) = DOMAIN row
           /\ Merge(write, row)[f] = row[f] \/ <<f, Merge(write, row)[f]>> \in write
<1>1. DOMAIN Merge(write, row) = DOMAIN row
  BY DEF Merge
<1>2. CASE Written(write, f) = {}
  BY <1>1, <1>2 DEF Merge
<1>3. CASE Written(write, f) # {}
  <2>1. Merge(write, row)[f] \in Written(write, f)
    BY <1>3 DEF Merge
  <2> QED
    BY <1>1, <2>1 DEF Written
<1> QED
  BY <1>2, <1>3

\* What was loaded and is still there becomes what the request decided.
LEMMA MergeChanges ==
    ASSUME NEW D, NEW row, NEW new,
           row = [f \in D |-> row[f]], new = [f \in D |-> new[f]]
    PROVE  Merge(Changes(row, new), row) = new
<1>1. DOMAIN row = D /\ DOMAIN new = D
  OBVIOUS
<1>2. ASSUME NEW f \in D PROVE Merge(Changes(row, new), row)[f] = new[f]
  <2>1. \A w \in Changes(row, new) : w[1] = f => new[f] # row[f] /\ w[2] = new[f]
    BY <1>1 DEF Changes
  <2>2. new[f] # row[f] => <<f, new[f]>> \in Changes(row, new)
    BY <1>1 DEF Changes
  <2>3. Written(Changes(row, new), f) = IF new[f] # row[f] THEN {new[f]} ELSE {}
    BY <2>1, <2>2 DEF Written
  <2> QED
    BY <1>1, <2>3 DEF Merge
<1>3. Merge(Changes(row, new), row) = [f \in D |-> Merge(Changes(row, new), row)[f]]
  BY <1>1 DEF Merge
<1> QED
  BY <1>2, <1>3

-----------------------------------------------------------------------------
(***************************************************************************)
(* The rows, as users see them.                                            *)
(***************************************************************************)
Insertion == [table : {"regalias"}, op : {"insert"}, row : Regalia, fresh : BOOLEAN]
Deletion  == [table : {"regalias"}, op : {"delete"}, id : RegaliaId, fresh : BOOLEAN]

Typed ==
    /\ DOMAIN request = Proc
    /\ \A p \in Proc : "table" \in DOMAIN request[p]
    /\ regalias \in [RegaliaId -> Regalia \cup {NoRegalia}]
    /\ lastRegalia \in 0 .. MaxRegalias
    /\ \A p \in Proc : request[p].table = "regalias" =>
                         request[p] \in Insertion \cup Deletion

\* What the checks before an insert of the row found.
Fine(row) ==
    /\ ~Has(row.beneficiary, row.source)
    /\ row.source \in User => ~Reaches(row.source, row.beneficiary)

Judged == \A p \in Proc : request[p] \in Insertion /\ request[p].fresh =>
                             Fine(request[p].row)

EdgesInv == Typed /\ Judged /\ UserCycleFree /\ OneRegaliaPerOrigin

-----------------------------------------------------------------------------
(***************************************************************************)
(* The graph of who earns on whom.                                         *)
(***************************************************************************)
LEMMA NullIsNoRow == NoRegalia \notin Regalia
<1>1. DOMAIN NoRegalia = {"beneficiary"}
    BY DEF NoRegalia
<1>2. \A row \in Regalia : DOMAIN row = {"beneficiary", "source"}
    BY DEF Regalia
<1>3. QED
    BY <1>1, <1>2

\* An edge that the search did not find a way back along closes no circle.
LEMMA EdgeAdded ==
    ASSUME Acyclic, NEW b \in User, NEW s \in User, ~Reaches(s, b),
           \A x, y \in User : Has(x, y)' => Has(x, y) \/ (x = b /\ y = s)
    PROVE  Acyclic'
<1>1. PICK C \in SUBSET User : s \in C /\ Closed(C) /\ b \notin C
    BY DEF Reaches
<1>2. SUFFICES ASSUME NEW S \in SUBSET User, S # {}
               PROVE  \E x \in S : \A y \in S : ~Has(x, y)'
    BY DEF Acyclic
<1>3. CASE S \cap C = {}
  <2>1. PICK x \in S : \A y \in S : ~Has(x, y)
    BY <1>2 DEF Acyclic
  <2>2. \A y \in S : ~Has(x, y)'
    BY <1>1, <1>2, <1>3, <2>1
  <2>3. QED
    BY <2>2
<1>4. CASE S \cap C # {}
  <2>1. S \cap C \in (SUBSET User) \ {{}}
    BY <1>2, <1>4
  <2>2. PICK x \in S \cap C : \A y \in S \cap C : ~Has(x, y)
    BY <2>1 DEF Acyclic
  <2>3. x # b
    BY <1>1, <2>2
  <2>4. \A y \in S : Has(x, y) => y \in C
    BY <1>1, <1>2, <2>2 DEF Closed
  <2>5. \A y \in S : ~Has(x, y)'
    BY <1>2, <2>2, <2>3, <2>4
  <2>6. QED
    BY <2>2, <2>5
<1>5. QED
    BY <1>3, <1>4

LEMMA EdgesLost ==
    ASSUME Acyclic, \A x, y \in User : Has(x, y)' => Has(x, y)
    PROVE  Acyclic'
    BY DEF Acyclic

-----------------------------------------------------------------------------
(***************************************************************************)
(* Steps that leave the table as it is.                                    *)
(***************************************************************************)
LEMMA TableKept ==
    ASSUME EdgesInv, UNCHANGED <<regalias, lastRegalia>>, DOMAIN request' = Proc,
           "regalias" \in raced => "regalias" \in raced',
           \A p \in Proc : "table" \in DOMAIN request'[p],
           \A p \in Proc : \/ request'[p] = request[p]
                           \/ request'[p].table # "regalias"
                           \/ request'[p] \in Deletion
                           \/ request'[p] \in Insertion /\ Fine(request'[p].row)
    PROVE  EdgesInv'
<1>1. \A x, y : Has(x, y)' <=> Has(x, y)
    BY DEF Has, Rows
<1>2. \A row : Fine(row)' <=> Fine(row)
    BY <1>1 DEF Fine, Reaches, Closed
<1>3. Typed'
    BY DEF EdgesInv, Typed
<1>4. Judged'
    BY <1>2 DEF EdgesInv, Judged, Insertion, Deletion
<1>5. UserCycleFree'
    BY <1>1 DEF EdgesInv, UserCycleFree, Acyclic
<1>6. OneRegaliaPerOrigin'
    BY DEF EdgesInv, OneRegaliaPerOrigin
<1>7. QED
    BY <1>3, <1>4, <1>5, <1>6 DEF EdgesInv

\* A request that begins to work on something else than an insert.
LEMMA Begins ==
    ASSUME EdgesInv, NEW p \in Proc, NEW r, Go(p, r), "table" \in DOMAIN r,
           UNCHANGED <<regalias, lastRegalia, raced>>,
           \/ r.table # "regalias"
           \/ r \in Deletion
           \/ r \in Insertion /\ Fine(r.row)
    PROVE  EdgesInv'
<1>1. request'[p] = r /\ \A q \in Proc : q # p => request'[q] = request[q]
    BY DEF Go, EdgesInv, Typed
<1>2. DOMAIN request' = Proc /\ \A q \in Proc : "table" \in DOMAIN request'[q]
    BY <1>1 DEF Go, EdgesInv, Typed
<1>3. QED
    BY <1>1, <1>2, TableKept

LEMMA TreeKeeps ==
    ASSUME EdgesInv, NEW p \in Proc, TreeMoves(p) PROVE EdgesInv'
<1>0. UNCHANGED <<regalias, lastRegalia>>
    BY DEF TreeMoves
<1>1. ASSUME NEW type \in UnitType, NEW parent \in UnitId \cup {Null},
             StoreUnit(p, type, parent)
      PROVE  EdgesInv'
    BY <1>0, <1>1, Begins DEF StoreUnit, Insert
<1>2. ASSUME NEW u \in UnitId, NEW type \in UnitType, NEW detach \in BOOLEAN,
             ChangeType(p, u, type, detach)
      PROVE  EdgesInv'
    BY <1>0, <1>2, Begins DEF ChangeType, Rewrite, Update
<1>3. ASSUME NEW u \in UnitId, NEW parent \in UnitId \cup {Null}, Move(p, u, parent)
      PROVE  EdgesInv'
    BY <1>0, <1>3, Begins DEF Move, Rewrite, Update
<1>4. ASSUME CommitUnit(p) PROVE EdgesInv'
  <2>1. Commit(p, "units")
    BY <1>4 DEF CommitUnit
  <2>2. \A q \in Proc : request'[q] = request[q] \/ request'[q].table # "regalias"
    <3>1. ASSUME NEW q \in Proc, request[q].table = "units", q # p
          PROVE  request'[q].table # "regalias"
      BY <2>1, <3>1 DEF Commit, EdgesInv, Typed
    <3>2. QED
      BY <2>1, <3>1 DEF Commit, Idle
  <2>3. DOMAIN request' = Proc /\ raced \subseteq raced'
    BY <2>1 DEF Commit
  <2>4. \A q \in Proc : "table" \in DOMAIN request'[q]
    BY <2>1 DEF Commit, Idle, EdgesInv, Typed
  <2>5. QED
    BY <1>0, <2>2, <2>3, <2>4, TableKept
<1>5. ASSUME Drop(p) PROVE EdgesInv'
    BY <1>0, <1>5, Begins DEF Drop, Idle
<1>6. QED
    BY <1>1, <1>2, <1>3, <1>4, <1>5 DEF TreeMoves, TreeNext

-----------------------------------------------------------------------------
(***************************************************************************)
(* The commit of a row.                                                    *)
(***************************************************************************)
LEMMA RegaliaCommitted ==
    ASSUME EdgesInv, NEW p \in Proc, CommitRegalia(p) PROVE EdgesInv'
<1>1. Commit(p, "regalias") /\ request[p].table = "regalias"
    BY DEF CommitRegalia, Pending
<1>2. /\ DOMAIN request' = Proc
      /\ \A q \in Proc :
           /\ "table" \in DOMAIN request'[q]
           /\ request'[q].table = "regalias" =>
                 request'[q] \in Insertion \cup Deletion /\ ~request'[q].fresh
  <2>1. DOMAIN request' = Proc
    BY <1>1 DEF Commit
  <2>2. ASSUME NEW q \in Proc, q # p, request[q].table = "regalias"
        PROVE  /\ "table" \in DOMAIN request'[q]
               /\ request'[q] \in Insertion \cup Deletion /\ ~request'[q].fresh
    <3>1. request[q] \in Insertion \cup Deletion
      BY <2>2 DEF EdgesInv, Typed
    <3>2. request'[q] = [request[q] EXCEPT !.fresh = FALSE]
      BY <1>1, <2>2 DEF Commit
    <3>3. QED
      BY <3>1, <3>2 DEF Insertion, Deletion
  <2>3. ASSUME NEW q \in Proc, q = p \/ request[q].table # "regalias"
        PROVE  /\ "table" \in DOMAIN request'[q]
               /\ request'[q].table # "regalias"
    BY <1>1, <2>3 DEF Commit, Idle, EdgesInv, Typed
  <2>4. QED
    BY <2>1, <2>2, <2>3
<1>3. Judged'
    BY <1>2 DEF Judged, Insertion
<1>4. "regalias" \notin raced' => request[p].fresh /\ "regalias" \notin raced
    BY <1>1 DEF Commit
<1>5. CASE request[p].op = "delete"
  <2>1. regalias' = [regalias EXCEPT ![request[p].id] = NoRegalia] /\ UNCHANGED lastRegalia
    BY <1>5 DEF CommitRegalia
  <2>2. \A g \in RegaliaId : regalias'[g] = regalias[g] \/ regalias'[g] = NoRegalia
    BY <2>1 DEF EdgesInv, Typed
  <2>3. Typed'
    BY <1>2, <2>1 DEF EdgesInv, Typed
  <2>4. \A x, y : Has(x, y)' => Has(x, y)
    BY <2>2 DEF Has, Rows
  <2>5. UserCycleFree'
    BY <1>4, <2>4, EdgesLost DEF EdgesInv, UserCycleFree
  <2>6. OneRegaliaPerOrigin'
    BY <1>4, <2>2 DEF EdgesInv, OneRegaliaPerOrigin
  <2>7. QED
    BY <1>3, <2>3, <2>5, <2>6 DEF EdgesInv
<1>6. CASE request[p].op = "insert"
  <2> DEFINE row == request[p].row
             b == row.beneficiary
             s == row.source
  <2>1. /\ row \in Regalia
        /\ b \in User /\ s \in User \cup UnitId
        /\ row = [beneficiary |-> b, source |-> s]
    BY <1>1, <1>6 DEF EdgesInv, Typed, Insertion, Deletion, Regalia
  <2>2. /\ lastRegalia' = lastRegalia + 1
        /\ regalias' = [regalias EXCEPT ![lastRegalia + 1] = row]
    BY <1>6 DEF CommitRegalia
  <2>3. "regalias" \notin raced' => Fine(row)
    BY <1>1, <1>4, <1>6 DEF EdgesInv, Typed, Judged, Insertion, Deletion
  <2> HIDE DEF row
  <2>4. \A g \in RegaliaId : regalias'[g] = regalias[g]
                              \/ (g = lastRegalia + 1 /\ regalias'[g] = row)
    BY <2>2 DEF EdgesInv, Typed
  <2>5. Typed'
    <3>1. regalias' \in [RegaliaId -> Regalia \cup {NoRegalia}]
      BY <2>1, <2>2 DEF EdgesInv, Typed
    <3>2. lastRegalia' \in 0 .. MaxRegalias
      BY <1>6, <2>2, RegaliaBoundAssumption DEF CommitRegalia, EdgesInv, Typed
    <3>3. QED
      BY <1>2, <3>1, <3>2 DEF Typed
  <2>6. \A x, y : Has(x, y)' => Has(x, y) \/ (x = b /\ y = s)
    BY <2>1, <2>4 DEF Has, Rows
  <2>7. UserCycleFree'
    <3>1. SUFFICES ASSUME "regalias" \notin raced' PROVE Acyclic'
      BY DEF UserCycleFree
    <3>2. Acyclic
      BY <1>4, <3>1 DEF EdgesInv, UserCycleFree
    <3>3. CASE s \in User
      BY <2>1, <2>3, <2>6, <3>1, <3>2, <3>3, EdgeAdded DEF Fine
    <3>4. CASE s \notin User
      BY <2>6, <3>2, <3>4, EdgesLost
    <3>5. QED
      BY <3>3, <3>4
  <2>8. OneRegaliaPerOrigin'
    <3>1. SUFFICES ASSUME "regalias" \notin raced', NEW g \in RegaliaId,
                          NEW h \in RegaliaId, g # h, regalias'[g] # NoRegalia
                   PROVE  regalias'[g] # regalias'[h]
      BY DEF OneRegaliaPerOrigin
    <3>2. row # NoRegalia /\ ~Has(b, s)
      BY <2>1, <2>3, <3>1, NullIsNoRow DEF Fine
    <3>3. \A k \in RegaliaId : regalias[k] # row
      BY <2>1, <3>2 DEF Has, Rows
    <3>4. regalias[g] # NoRegalia => regalias[g] # regalias[h]
      BY <1>4, <3>1 DEF EdgesInv, OneRegaliaPerOrigin
    <3>5. QED
      BY <2>4, <3>1, <3>3, <3>4
  <2>9. QED
    BY <1>3, <2>5, <2>7, <2>8 DEF EdgesInv
<1>7. QED
    BY <1>5, <1>6 DEF CommitRegalia

-----------------------------------------------------------------------------
(***************************************************************************)
(* The tree of units.                                                      *)
(***************************************************************************)
UnitColumn    == ({"type"} \X {"office", "consolidator"})
                    \cup ({"parent"} \X (UnitId \cup {Null}))
UnitInsertion == [table : {"units"}, op : {"insert"}, row : Unit, fresh : BOOLEAN]
UnitUpdate    == [table : {"units"}, op : {"update"}, id : UnitId,
                  write : SUBSET UnitColumn, fresh : BOOLEAN]

\* The row as a request leaves it that nobody has overtaken.
UnitAfter(r) == Merge(r.write, units[r.id])

\* What the checks of a new row, or of a new place, found.
Placed(row)     == /\ row.parent \in Units \cup {Null}
                   /\ ParentRules(row.type, row.parent)
Writable(u, write) ==
    /\ \A v : <<"parent", v>> \in write => v \in Units \cup {Null}
    /\ Written(write, "type") = {} =>
         /\ units[u].type = "counter" => <<"parent", Null>> \notin write
         /\ units[u].type = "freelance" => \A v \in Units : <<"parent", v>> \notin write

UnitRequest(r) ==
    \/ r \in UnitInsertion /\ Placed(r.row)
    \/ /\ r \in UnitUpdate /\ r.id \in Units /\ Writable(r.id, r.write)
       /\ r.fresh => Placed(UnitAfter(r)) /\ ~Closes(r.id, UnitAfter(r).parent)

Rooted ==
    /\ units \in [UnitId -> Unit \cup {NoUnit}]
    /\ \A u \in Units : units[u].parent \in Units \cup {Null}

TreeInv ==
    /\ Rooted /\ CounterHasParent /\ ForestUnlessRaced
    /\ \A p \in Proc : Pending(p, "units") => UnitRequest(request[p])

LEMMA NullIsNoUnit == Null \notin UnitId /\ NoUnit \notin Unit
<1>1. NoUnit.type = "absent" /\ \A row \in Unit : row.type # "absent"
    BY DEF NoUnit, Unit, UnitType
<1>2. QED
    BY <1>1 DEF Null, UnitId

\* A unit that keeps or loses its parent, or is new, gets nothing above it
\* that was not there.
LEMMA AboveShrinks ==
    ASSUME Rooted, \A v \in Units : units'[v].parent \in {units[v].parent, Null}
    PROVE  \A v \in Units : Above(v)' \subseteq Above(v)
<1>1. SUFFICES ASSUME NEW v \in Units, NEW x \in Above(v)',
                      NEW S \in SUBSET UnitId, Leads(v, S)
               PROVE  x \in S
    BY DEF Above
<1>2. PICK T \in SUBSET UnitId : T = S \cap Units
    OBVIOUS
<1>3. Leads(v, T)'
    BY <1>1, <1>2 DEF Rooted, Leads, Upward
<1>4. QED
    BY <1>1, <1>2, <1>3 DEF Above

\* A move that does not close a cycle keeps the forest.
LEMMA ForestMoved ==
    ASSUME Rooted, \A v \in Units : v \notin Above(v),
           NEW u \in Units, ~Closes(u, units'[u].parent),
           units'[u].parent \in Units \cup {Null},
           \A v \in UnitId : v # u => units'[v] = units[v]
    PROVE  \A v \in Units : v \notin Above(v)'
<1>0. Units \subseteq UnitId /\ Null \notin UnitId
    BY NullIsNoUnit DEF Units
<1>1. PICK C \in SUBSET UnitId : /\ u \notin C /\ Upward(C)
                                 /\ units'[u].parent \in C \cup {Null}
  <2>1. CASE units'[u].parent = Null
    <3>1. Upward({})
      BY DEF Upward
    <3>2. QED
      BY <2>1, <3>1
  <2>2. CASE units'[u].parent # Null
    <3> DEFINE parent == units'[u].parent
    <3>1. parent \in UnitId /\ u # parent /\ u \notin Above(parent)
      BY <1>0, <2>2 DEF Closes, Ancestors
    <3> HIDE DEF parent
    <3>2. PICK S \in SUBSET UnitId : Leads(parent, S) /\ u \notin S
      BY <1>0, <3>1 DEF Above
    <3>3. Upward(S \cup {parent})
      BY <3>2 DEF Leads, Upward
    <3>4. S \cup {parent} \in SUBSET UnitId /\ u \notin S \cup {parent}
      BY <3>1, <3>2
    <3>5. QED
      BY <3>3, <3>4 DEF parent
  <2>3. QED
    BY <2>1, <2>2
<1>2. SUFFICES ASSUME NEW v \in Units
               PROVE  \E S \in SUBSET UnitId : Leads(v, S)' /\ v \notin S
    BY <1>0 DEF Above
<1>3. CASE v = u
  <2>1. Leads(u, C)'
    BY <1>1 DEF Leads, Upward
  <2>2. QED
    BY <1>1, <1>3, <2>1
<1>4. CASE v # u
  <2>1. PICK S \in SUBSET UnitId : Leads(v, S) /\ v \notin S
    BY <1>0 DEF Above
  <2>2. units'[v] = units[v]
    BY <1>0, <1>4
  <2>3. CASE u \notin S
    <3>1. Leads(v, S)'
      BY <2>1, <2>2, <2>3 DEF Leads, Upward
    <3>2. QED
      BY <2>1, <3>1
  <2>4. CASE v \notin C
    <3>1. Leads(v, S \cup C)'
      BY <1>1, <2>1, <2>2 DEF Leads, Upward
    <3>2. QED
      BY <2>1, <2>4, <3>1
  <2>5. CASE v \in C
    <3>1. Leads(v, S \cap C)'
      BY <1>0, <1>1, <2>1, <2>2, <2>5 DEF Leads, Upward
    <3>2. QED
      BY <2>1, <3>1
  <2>6. QED
    BY <2>3, <2>4, <2>5
<1>5. QED
    BY <1>3, <1>4

LEMMA UnitRequestKept ==
    ASSUME UNCHANGED units PROVE \A r : UnitRequest(r) => UnitRequest(r)'
    BY DEF UnitRequest, Placed, Writable, Closes, Ancestors, Above, Leads, Upward,
           UnitAfter, Units

LEMMA TreeElsewhere ==
    ASSUME TreeInv, Elsewhere({"units"}), UNCHANGED units PROVE TreeInv'
<1>1. Rooted' /\ CounterHasParent' /\ ForestUnlessRaced'
    BY DEF TreeInv, Rooted, CounterHasParent, ForestUnlessRaced, Elsewhere, Units,
           Above, Leads, Upward
<1>2. QED
    BY <1>1, UnitRequestKept DEF TreeInv, Elsewhere, Pending

LEMMA TreeBegin ==
    ASSUME TreeInv, RequestsOK, NEW p \in Proc, NEW r, Go(p, r),
           UnitRequest(r), UNCHANGED <<units, raced>>
    PROVE  TreeInv'
<1>1. Rooted' /\ CounterHasParent' /\ ForestUnlessRaced'
    BY DEF TreeInv, Rooted, CounterHasParent, ForestUnlessRaced, Units, Above, Leads, Upward
<1>2. \A q \in Proc : request'[q] = IF q = p THEN r ELSE request[q]
    BY DEF RequestsOK, RequestsTypeOK, Go
<1>3. QED
    BY <1>1, <1>2, UnitRequestKept DEF TreeInv, Pending

\* The row of a unit, with or without some of its columns written.
LEMMA UnitColumns ==
    ASSUME NEW row \in Unit, NEW write \in SUBSET UnitColumn
    PROVE  /\ Merge(write, row) \in Unit
           /\ \/ Merge(write, row).type \in {"office", "consolidator"}
              \/ Merge(write, row).type = row.type /\ Written(write, "type") = {}
           /\ \/ Merge(write, row).parent = row.parent
              \/ <<"parent", Merge(write, row).parent>> \in write
<1>1. \A w \in write : w = <<w[1], w[2]>>
    BY DEF UnitColumn
<1>2. DOMAIN row = {"type", "parent"}
    BY DEF Unit
<1>3. DOMAIN Merge(write, row) = {"type", "parent"}
    BY <1>2 DEF Merge
<1>4. \/ Merge(write, row).parent = row.parent
      \/ <<"parent", Merge(write, row).parent>> \in write
    BY <1>1, <1>2, MergeColumn
<1>5. Merge(write, row).parent \in UnitId \cup {Null}
    BY <1>4 DEF UnitColumn, Unit
<1>6. Written(write, "type") = {} => Merge(write, row).type = row.type
    BY <1>2 DEF Merge
<1>7. Written(write, "type") # {} => Merge(write, row).type \in {"office", "consolidator"}
  <2>1. Written(write, "type") # {} => Merge(write, row).type \in Written(write, "type")
    BY <1>2 DEF Merge
  <2>2. Written(write, "type") \subseteq {"office", "consolidator"}
    BY DEF Written, UnitColumn
  <2>3. QED
    BY <2>1, <2>2
<1>8. Merge(write, row).type \in UnitType
    BY <1>6, <1>7 DEF Unit, UnitType
<1>9. Merge(write, row) = [f \in {"type", "parent"} |-> Merge(write, row)[f]]
    BY <1>2 DEF Merge
<1> HIDE DEF Unit
<1> DEFINE m == Merge(write, row)
<1>10. m = [type |-> m.type, parent |-> m.parent]
    BY <1>3, <1>9
<1>11. m \in Unit
    BY <1>5, <1>8, <1>10 DEF Unit
<1>12. QED
    BY <1>4, <1>6, <1>7, <1>11

\* What a rewrite decides is what it will write if nobody overtakes it.
LEMMA UnitRewritten ==
    ASSUME TreeInv, NEW p \in Proc, NEW u \in Units, NEW new \in Unit, Rewrite(p, u, new),
           Placed(new), ~Closes(u, new.parent),
           new.type \in {units[u].type, "office", "consolidator"}
    PROVE  \E r : Go(p, r) /\ UnitRequest(r)
<1> DEFINE write == Changes(units[u], new)
           r == Update("units", u, write)
<1>1. Go(p, r)
    BY DEF Rewrite
<1>2. u \in UnitId /\ units[u] \in Unit
    BY DEF TreeInv, Rooted, Units
<1>3. write \subseteq UnitColumn
    BY <1>2 DEF Changes, UnitColumn, Unit
<1>4. UnitAfter(r) = new
  <2>1. /\ units[u] = [f \in {"type", "parent"} |-> units[u][f]]
        /\ new = [f \in {"type", "parent"} |-> new[f]]
    BY <1>2 DEF Unit
  <2>2. QED
    BY <2>1, MergeChanges DEF UnitAfter, Update
<1>5. Writable(u, write)
  <2>1. \A v : <<"parent", v>> \in write => v = new.parent
    BY <1>2 DEF Changes, Unit
  <2>2. Written(write, "type") = {} => new.type = units[u].type
    <3>1. new.type # units[u].type => <<"type", new.type>> \in write
      BY <1>2 DEF Changes, Unit
    <3>2. QED
      BY <3>1 DEF Written
  <2>3. QED
    BY <2>1, <2>2, NullIsNoUnit DEF Writable, Placed, ParentRules, Units
<1>6. /\ r.id = u /\ r.write = write
      /\ write \in SUBSET UnitColumn => r \in UnitUpdate
    BY <1>2 DEF Update, UnitUpdate
<1> HIDE DEF r, write
<1>7. UnitRequest(r)
    BY <1>3, <1>4, <1>5, <1>6 DEF UnitRequest
<1>8. QED
    BY <1>1, <1>7

LEMMA TreeBegun ==
    ASSUME TreeInv, RequestsOK, NEW p \in Proc,
           \/ \E type \in UnitType, parent \in UnitId \cup {Null} : StoreUnit(p, type, parent)
           \/ \E u \in UnitId, type \in UnitType, detach \in BOOLEAN :
                 ChangeType(p, u, type, detach)
           \/ \E u \in UnitId, parent \in UnitId \cup {Null} : Move(p, u, parent)
    PROVE  TreeInv' /\ UNCHANGED <<units, raced>> /\ \E r : Go(p, r) /\ UnitRequest(r)
<1>1. ASSUME NEW type \in UnitType, NEW parent \in UnitId \cup {Null},
             StoreUnit(p, type, parent)
      PROVE  UNCHANGED <<units, raced>> /\ \E r : Go(p, r) /\ UnitRequest(r)
  <2> DEFINE row == [type |-> type, parent |-> parent]
             r == Insert("units", row)
  <2>1. Go(p, r) /\ UNCHANGED <<units, raced>>
    BY <1>1 DEF StoreUnit
  <2>2. row \in Unit /\ Placed(row)
    BY <1>1 DEF StoreUnit, Placed, Unit
  <2>3. r.row = row /\ (row \in Unit => r \in UnitInsertion)
    BY DEF Insert, UnitInsertion
  <2> HIDE DEF row, r
  <2>4. QED
    BY <2>1, <2>2, <2>3 DEF UnitRequest
<1>2. ASSUME NEW u \in UnitId, NEW type \in UnitType, NEW detach \in BOOLEAN,
             ChangeType(p, u, type, detach)
      PROVE  UNCHANGED <<units, raced>> /\ \E r : Go(p, r) /\ UnitRequest(r)
  <2> DEFINE new == [type |-> type, parent |-> Null]
  <2>1. /\ new \in Unit /\ new.type \in {"office", "consolidator"}
        /\ Placed(new) /\ ~Closes(u, new.parent)
    BY <1>2 DEF ChangeType, Converts, Unit, Placed, ParentRules, Closes
  <2>2. u \in Units /\ Rewrite(p, u, new) /\ UNCHANGED <<units, raced>>
    BY <1>2 DEF ChangeType
  <2> HIDE DEF new
  <2>3. QED
    BY <2>1, <2>2, UnitRewritten
<1>3. ASSUME NEW u \in UnitId, NEW parent \in UnitId \cup {Null}, Move(p, u, parent)
      PROVE  UNCHANGED <<units, raced>> /\ \E r : Go(p, r) /\ UnitRequest(r)
  <2> DEFINE new == [units[u] EXCEPT !.parent = parent]
  <2>0. u \in Units /\ units[u] \in Unit
    BY <1>3 DEF Move, TreeInv, Rooted, Units
  <2>1. new \in Unit /\ new.type = units[u].type /\ new.parent = parent
    BY <2>0 DEF Unit
  <2>2. Rewrite(p, u, new) /\ UNCHANGED <<units, raced>>
    BY <1>3 DEF Move
  <2> HIDE DEF new
  <2>3. Placed(new) /\ ~Closes(u, new.parent)
    BY <1>3, <2>1 DEF Move, Placed
  <2>4. QED
    BY <2>0, <2>1, <2>2, <2>3, UnitRewritten
<1>4. QED
    BY <1>1, <1>2, <1>3, TreeBegin

\* A request that is overtaken keeps what holds whatever the others do.
LEMMA UnitOvertaken ==
    ASSUME NEW s, UnitRequest(s), Units \subseteq Units',
           \A u \in Units : \/ units'[u].type = units[u].type
                            \/ units'[u].type \in {"office", "consolidator"}
    PROVE  UnitRequest([s EXCEPT !.fresh = FALSE])'
<1>1. PICK t : t = [s EXCEPT !.fresh = FALSE]
    OBVIOUS
<1>2. CASE s \in UnitInsertion /\ Placed(s.row)
  <2>1. t \in UnitInsertion /\ t.row = s.row
    BY <1>1, <1>2 DEF UnitInsertion
  <2>2. Placed(s.row)'
    BY <1>2 DEF Placed, ParentRules
  <2>3. QED
    BY <1>1, <2>1, <2>2 DEF UnitRequest, Placed
<1>3. CASE s \in UnitUpdate /\ s.id \in Units /\ Writable(s.id, s.write)
  <2>1. t \in UnitUpdate /\ t.id = s.id /\ t.write = s.write /\ ~t.fresh
    BY <1>1, <1>3 DEF UnitUpdate
  <2>2. PICK u, write : u = s.id /\ write = s.write
    OBVIOUS
  <2>3. Null \notin Units'
    BY NullIsNoUnit DEF Units
  <2>4. Writable(u, write)'
    BY <1>3, <2>2, <2>3 DEF Writable
  <2>5. QED
    BY <1>1, <1>3, <2>1, <2>2, <2>4 DEF UnitRequest
<1>4. QED
    BY <1>2, <1>3 DEF UnitRequest

LEMMA TreeCommitted ==
    ASSUME TreeInv, RequestsOK, NEW p \in Proc, CommitUnit(p)
    PROVE  TreeInv' /\ Units \subseteq Units'
<1> DEFINE r == request[p]
<1>0. /\ Pending(p, "units") /\ Commit(p, "units") /\ UnitRequest(r)
      /\ units \in [UnitId -> Unit \cup {NoUnit}]
      /\ Null \notin UnitId /\ NoUnit \notin Unit /\ Units \subseteq UnitId
    BY NullIsNoUnit DEF CommitUnit, TreeInv, Rooted, Units
<1>1. /\ \A q \in Proc : request'[q].table = "units" =>
           request[q].table = "units" /\ request'[q] = [request[q] EXCEPT !.fresh = FALSE]
      /\ "units" \notin raced' => r.fresh /\ "units" \notin raced
    BY <1>0, Landed DEF Table
<1> HIDE DEF r
<1>2. ASSUME Units \subseteq Units',
             \A u \in Units : \/ units'[u].type = units[u].type
                              \/ units'[u].type \in {"office", "consolidator"}
      PROVE  \A q \in Proc : Pending(q, "units")' => UnitRequest(request[q])'
  <2>1. SUFFICES ASSUME NEW q \in Proc, request'[q].table = "units"
                 PROVE  UnitRequest(request[q])'
    BY DEF Pending
  <2>2. PICK s : s = request[q]
    OBVIOUS
  <2>3. UnitRequest(s) /\ request'[q] = [s EXCEPT !.fresh = FALSE]
    BY <1>1, <2>1, <2>2 DEF TreeInv, Pending
  <2>4. UnitRequest([s EXCEPT !.fresh = FALSE])'
    BY <1>2, <2>3, UnitOvertaken
  <2>5. PICK t : t = [s EXCEPT !.fresh = FALSE]
    OBVIOUS
  <2>6. UnitRequest(t)' /\ request'[q] = t
    BY <2>3, <2>4, <2>5
  <2>7. QED
    BY <2>6
<1>3. CASE r.op = "insert"
  <2>1. r \in UnitInsertion /\ Placed(r.row)
    BY <1>0, <1>3 DEF UnitRequest, UnitUpdate
  <2>2. PICK row : row = r.row
    OBVIOUS
  <2>3. PICK u \in UnitId : u \notin Units /\ units' = [units EXCEPT ![u] = row]
    BY <1>3, <2>2 DEF CommitUnit, IsNextUnit, r
  <2>4. row \in Unit /\ Placed(row)
    BY <2>1, <2>2 DEF UnitInsertion
  <2>5. /\ units'[u] = row /\ \A v \in UnitId : v # u => units'[v] = units[v]
        /\ Units' = Units \cup {u} /\ u \notin Units
        /\ units' \in [UnitId -> Unit \cup {NoUnit}]
    BY <1>0, <2>3, <2>4 DEF Units
  <2>6. Rooted' /\ CounterHasParent'
    BY <1>0, <2>4, <2>5 DEF TreeInv, Rooted, CounterHasParent, Placed, ParentRules
  <2>7. ForestUnlessRaced'
    <3>1. SUFFICES ASSUME "units" \notin raced, NEW v \in Units'
                   PROVE  (v \notin Above(v) /\ ParentRules(units[v].type, units[v].parent))'
      BY <1>1, <2>6 DEF ForestUnlessRaced, Rooted
    <3>2. CASE v \in Units
      <4>1. Above(v)' \subseteq Above(v)
        BY <1>0, <2>5, <3>2, AboveShrinks DEF TreeInv
      <4>2. QED
        BY <1>0, <2>5, <3>1, <3>2, <4>1 DEF TreeInv, ForestUnlessRaced, ParentRules
    <3>3. CASE v = u
      <4>1. PICK S \in SUBSET UnitId : S = Units
        BY <1>0
      <4>2. Leads(u, S)' /\ u \notin S
        BY <1>0, <2>4, <2>5, <4>1 DEF Leads, Upward, TreeInv, Rooted, Placed
      <4>3. u \notin Above(u)'
        BY <4>1, <4>2 DEF Above
      <4>4. QED
        BY <2>4, <2>5, <3>3, <4>3 DEF Placed, ParentRules
    <3>4. QED
      BY <2>5, <3>2, <3>3
  <2>8. QED
    BY <1>0, <1>2, <2>5, <2>6, <2>7 DEF TreeInv
<1>4. CASE r.op # "insert"
  <2>1. PICK u, write : u = r.id /\ write = r.write
    OBVIOUS
  <2>2. /\ u \in Units /\ write \in SUBSET UnitColumn /\ Writable(u, write)
        /\ r.fresh => Placed(UnitAfter(r)) /\ ~Closes(u, UnitAfter(r).parent)
    BY <1>0, <1>4, <2>1 DEF UnitRequest, UnitInsertion, UnitUpdate
  <2>3. PICK new : new = Merge(write, units[u])
    OBVIOUS
  <2>4. units' = [units EXCEPT ![u] = new] /\ UnitAfter(r) = new
    BY <1>4, <2>1, <2>3 DEF CommitUnit, UnitAfter, r
  <2>5. units[u] \in Unit
    BY <1>0, <2>2 DEF Units
  <2>6. /\ new \in Unit
        /\ \/ new.type \in {"office", "consolidator"}
           \/ new.type = units[u].type /\ Written(write, "type") = {}
        /\ new.parent = units[u].parent \/ <<"parent", new.parent>> \in write
    BY <2>2, <2>3, <2>5, UnitColumns
  <2>7. /\ units'[u] = new /\ \A v \in UnitId : v # u => units'[v] = units[v]
        /\ Units' = Units
        /\ units' \in [UnitId -> Unit \cup {NoUnit}]
    BY <1>0, <2>2, <2>4, <2>6 DEF Units
  <2>8. new.parent \in Units \cup {Null}
    BY <2>2, <2>6 DEF TreeInv, Rooted, Writable
  <2>9. Rooted'
    BY <1>0, <2>7, <2>8 DEF TreeInv, Rooted
  <2>10. CounterHasParent'
    <3>1. new.type = "counter" => new.parent \in Units
      BY <2>2, <2>6, <2>8 DEF TreeInv, CounterHasParent, Writable
    <3>2. new.type = "freelance" => new.parent = Null
      BY <2>2, <2>6, <2>8 DEF TreeInv, CounterHasParent, Writable
    <3>3. QED
      BY <1>0, <2>7, <3>1, <3>2 DEF TreeInv, CounterHasParent
  <2>11. ForestUnlessRaced'
    <3>1. SUFFICES ASSUME "units" \notin raced'
                   PROVE  \A v \in Units : /\ v \notin Above(v)'
                                           /\ ParentRules(units[v].type, units[v].parent)'
      BY <2>7, <2>9 DEF ForestUnlessRaced, Rooted
    <3>2. Placed(new) /\ ~Closes(u, new.parent) /\ "units" \notin raced
      BY <1>1, <2>2, <2>4, <3>1
    <3>3. \A v \in Units : v \notin Above(v)'
      BY <2>2, <2>7, <3>2, ForestMoved, <2>8, <1>0 DEF TreeInv, ForestUnlessRaced
    <3>4. \A v \in Units : ParentRules(units[v].type, units[v].parent)'
      BY <1>0, <2>7, <3>2 DEF TreeInv, ForestUnlessRaced, Placed, ParentRules
    <3>5. QED
      BY <3>3, <3>4
  <2>12. QED
    BY <1>0, <1>2, <2>6, <2>7, <2>9, <2>10, <2>11 DEF TreeInv
<1>5. QED
    BY <1>3, <1>4

-----------------------------------------------------------------------------
(***************************************************************************)
(* Royalties on units.                                                     *)
(***************************************************************************)
Apart(row) == row.source \in UnitId => ~Redundant(row.beneficiary, row.source)

RowJudged(r) ==
    /\ r.row.source \in User \cup Units
    /\ r.fresh /\ ~bypassed => Apart(r.row)

UnitsInv ==
    /\ bypassed \in BOOLEAN
    /\ \A g \in RegaliaId : regalias[g] # NoRegalia => regalias[g].source \in User \cup Units
    /\ \A p \in Proc : request[p] \in Insertion => RowJudged(request[p])
    /\ NoRedundantUnits

\* A move that nobody checks apart, the units of a user lose what is above them.
LEMMA UnitsElsewhere ==
    ASSUME UnitsInv, EdgesInv, Elsewhere({"regalias"}), UNCHANGED regalias,
           Units \subseteq Units', bypassed' \in BOOLEAN, bypassed => bypassed',
           ~bypassed' => \A v \in Units : Above(v)' \subseteq Above(v)
    PROVE  UnitsInv'
<1>1. \A b \in User : UnitsOf(b)' = UnitsOf(b)
  <2>1. ASSUME NEW b \in User, NEW u \in Units', Has(b, u)
        PROVE  u \in Units
    <3>1. PICK g \in RegaliaId : regalias[g] = [beneficiary |-> b, source |-> u]
      BY <2>1 DEF Has, Rows
    <3>2. regalias[g] # NoRegalia
      BY <3>1 DEF NoRegalia
    <3>3. u \in User \cup Units
      BY <3>1, <3>2 DEF UnitsInv
    <3>4. QED
      BY <3>3, SourceAssumption DEF Units
  <2>2. \A b, u : Has(b, u)' <=> Has(b, u)
    BY DEF Has, Rows
  <2>3. QED
    BY <2>1, <2>2 DEF UnitsOf
<1>2. ASSUME ~bypassed', NEW b \in User, NEW u \in UnitId, u \in User \cup Units,
             ~Redundant(b, u)
      PROVE  ~Redundant(b, u)'
  <2>1. u \in Units
    BY <1>2, SourceAssumption
  <2>2. QED
    BY <1>1, <1>2, <2>1 DEF Redundant, Ancestors, UnitsOf
<1>3. \A q \in Proc : request'[q] \in Insertion => request'[q] = request[q]
    BY DEF Elsewhere, Insertion
<1>4. NoRedundantUnits'
    BY <1>1 DEF NoRedundantUnits, UnitsInv, Elsewhere, UnitsOf
<1>5. ASSUME NEW r \in Insertion, RowJudged(r) PROVE RowJudged(r)'
  <2>1. r.row.beneficiary \in User /\ r.row.source \in User \cup Units
    BY <1>5 DEF RowJudged, Insertion, Regalia
  <2>2. ~bypassed' => ~bypassed
    OBVIOUS
  <2>3. QED
    BY <1>2, <1>5, <2>1, <2>2 DEF RowJudged, Apart
<1>6. \A q \in Proc : (request[q] \in Insertion => RowJudged(request[q]))'
    BY <1>3, <1>5 DEF UnitsInv
<1>7. QED
    BY <1>4, <1>6 DEF UnitsInv

\* A request that begins to write a row, or to delete one.
LEMMA UnitsBegin ==
    ASSUME UnitsInv, RequestsOK, NEW p \in Proc, NEW r, Go(p, r),
           r \in Insertion => /\ r.row.source \in User \cup Units
                              /\ ~bypassed' => Apart(r.row),
           UNCHANGED <<units, raced, regalias>>,
           bypassed' \in BOOLEAN, bypassed => bypassed'
    PROVE  UnitsInv'
<1>1. \A q \in Proc : request'[q] = IF q = p THEN r ELSE request[q]
    BY DEF RequestsOK, RequestsTypeOK, Go
<1>2. \A row : Apart(row)' <=> Apart(row)
    BY DEF Apart, Redundant, Ancestors, Above, Leads, Upward, UnitsOf, Units, Has, Rows
<1>3. NoRedundantUnits'
    BY DEF UnitsInv, NoRedundantUnits, Above, Leads, Upward, UnitsOf, Units, Has, Rows
<1>4. QED
    BY <1>1, <1>2, <1>3 DEF UnitsInv, RowJudged, Units

LEMMA UnitsCommitted ==
    ASSUME UnitsInv, EdgesInv, RequestsOK, NEW p \in Proc, CommitRegalia(p)
    PROVE  UnitsInv'
<1> DEFINE r == request[p]
<1>0. /\ Pending(p, "regalias") /\ Commit(p, "regalias") /\ UNCHANGED <<units, bypassed>>
      /\ regalias \in [RegaliaId -> Regalia \cup {NoRegalia}]
      /\ r \in Insertion \cup Deletion /\ r.op \in {"insert", "delete"}
    BY DEF CommitRegalia, EdgesInv, Typed, Pending, Insertion, Deletion
<1>1. /\ \A q \in Proc : request'[q].table = "regalias" =>
           request[q].table = "regalias" /\ request'[q] = [request[q] EXCEPT !.fresh = FALSE]
      /\ "regalias" \notin raced' => r.fresh /\ "regalias" \notin raced
    BY <1>0, Landed DEF Table
<1>2. \A q \in Proc : request'[q] \in Insertion =>
        ~request'[q].fresh /\ request'[q].row.source \in User \cup Units
  <2>1. SUFFICES ASSUME NEW q \in Proc, request'[q] \in Insertion
                 PROVE  ~request'[q].fresh /\ request'[q].row.source \in User \cup Units
    OBVIOUS
  <2>2. /\ request[q].table = "regalias"
        /\ request'[q] = [request[q] EXCEPT !.fresh = FALSE]
    BY <1>1, <2>1 DEF Insertion
  <2>3. request[q] \in Insertion
    BY <2>1, <2>2 DEF EdgesInv, Typed, Insertion, Deletion
  <2>4. ~request'[q].fresh /\ request'[q].row = request[q].row
    BY <2>2, <2>3 DEF Insertion
  <2>5. QED
    BY <2>3, <2>4 DEF UnitsInv, RowJudged
<1>3. Units' = Units /\ \A v \in UnitId : Above(v)' = Above(v)
    BY <1>0 DEF Units, Above, Leads, Upward
<1>4. CASE r.op = "delete"
  <2>1. \A g \in RegaliaId : regalias'[g] = regalias[g] \/ regalias'[g] = NoRegalia
    BY <1>0, <1>4 DEF CommitRegalia
  <2>2. \A b, u : Has(b, u)' => Has(b, u)
    BY <2>1 DEF Has, Rows
  <2>3. NoRedundantUnits'
    BY <1>0, <1>1, <1>3, <2>2 DEF UnitsInv, NoRedundantUnits, UnitsOf, Units
  <2>4. QED
    BY <1>0, <1>2, <1>3, <2>1, <2>3 DEF UnitsInv, RowJudged
<1>5. CASE r.op = "insert"
  <2>1. PICK row \in Regalia : row = r.row
    BY <1>0, <1>5 DEF Insertion, Deletion
  <2>2. PICK b \in User, s \in User \cup UnitId : row = [beneficiary |-> b, source |-> s]
    BY DEF Regalia
  <2>3. /\ r \in Insertion /\ s \in User \cup Units
        /\ r.fresh /\ ~bypassed => Apart(row)
    <3>1. r \in Insertion /\ RowJudged(r)
      BY <1>0, <1>5 DEF Deletion, UnitsInv
    <3>2. row.source = s
      BY <2>2
    <3>3. QED
      BY <2>1, <3>1, <3>2 DEF RowJudged
  <2>4. \A g \in RegaliaId : regalias'[g] \in {regalias[g], row}
    BY <1>0, <1>5, <2>1 DEF CommitRegalia
  <2>5. \A x, y : Has(x, y)' => Has(x, y) \/ (x = b /\ y = s)
    BY <2>2, <2>4 DEF Has, Rows
  <2>6. NoRedundantUnits'
    <3>1. SUFFICES ASSUME "regalias" \notin raced', ~bypassed, NEW x \in User,
                          NEW u \in UnitsOf(x)', NEW v \in UnitsOf(x)', u \in Above(v)
                   PROVE  u = v
      BY <1>0, <1>3 DEF NoRedundantUnits, UnitsOf, Units
    <3>2. u \in Units /\ v \in Units /\ Units \subseteq UnitId
      BY <1>3 DEF UnitsOf, Units
    <3>3. ASSUME s \in UnitId PROVE ~Redundant(b, s)
      BY <1>1, <2>2, <2>3, <3>1, <3>3 DEF Apart
    <3>4. (u \in UnitsOf(x) \/ (x = b /\ u = s)) /\ (v \in UnitsOf(x) \/ (x = b /\ v = s))
      BY <2>5, <3>2 DEF UnitsOf
    <3>5. u \in UnitsOf(x) /\ v \in UnitsOf(x) => u = v
      BY <1>1, <3>1 DEF UnitsInv, NoRedundantUnits
    <3>6. QED
      BY <3>1, <3>2, <3>3, <3>4, <3>5 DEF Redundant, Ancestors
  <2>7. QED
    BY <1>0, <1>2, <1>3, <2>2, <2>3, <2>4, <2>6 DEF UnitsInv, RowJudged
<1>6. QED
    BY <1>0, <1>4, <1>5

-----------------------------------------------------------------------------
(***************************************************************************)
(* The three parts together.                                               *)
(***************************************************************************)
Inductive == RequestsOK /\ EdgesInv /\ TreeInv /\ UnitsInv

LEMMA InitInductive == RegaliasInit => Inductive
<1> SUFFICES ASSUME RegaliasInit PROVE Inductive
    OBVIOUS
<1>1. /\ DOMAIN request = Proc
      /\ \A p \in Proc : request[p] = Idle /\ Idle.table = "none" /\ "table" \in DOMAIN Idle
    BY DEF RegaliasInit, TreeInit, RequestsInit, Idle
<1>2. RequestsOK
    BY <1>1 DEF RequestsOK, RequestsTypeOK, Free
<1>3. \A x, y : ~Has(x, y)
    BY DEF RegaliasInit, Has, Rows
<1>4. EdgesInv
  <2>1. Typed
    BY <1>1, RegaliaBoundAssumption DEF RegaliasInit, TreeInit, RequestsInit, Typed
  <2>2. Judged
    BY <1>1 DEF Judged, Insertion
  <2>3. UserCycleFree /\ OneRegaliaPerOrigin
    BY <1>3 DEF RegaliasInit, UserCycleFree, Acyclic, OneRegaliaPerOrigin
  <2>4. QED
    BY <2>1, <2>2, <2>3 DEF EdgesInv
<1>5. Units = {} /\ units \in [UnitId -> Unit \cup {NoUnit}]
    BY DEF RegaliasInit, TreeInit, Units
<1>6. TreeInv
    BY <1>1, <1>5 DEF TreeInv, Rooted, CounterHasParent, ForestUnlessRaced, Pending
<1>7. UnitsInv
    BY <1>1, <1>3 DEF RegaliasInit, UnitsInv, NoRedundantUnits, UnitsOf, Insertion
<1>8. QED
    BY <1>2, <1>4, <1>6, <1>7 DEF Inductive

LEMMA StepOfTree ==
    ASSUME Inductive, NEW p \in Proc, TreeMoves(p) PROVE Inductive'
<1>0. /\ RequestsOK /\ EdgesInv /\ TreeInv /\ UnitsInv
      /\ UNCHANGED regalias /\ EdgesInv'
      /\ bypassed' \in BOOLEAN /\ (bypassed => bypassed')
    BY TreeKeeps DEF Inductive, TreeMoves, UnitsInv
<1>1. ~bypassed' => \A v \in Units : units'[v].parent \in {units[v].parent, Null}
    BY DEF TreeMoves
<1>2. ~bypassed' => \A v \in Units : Above(v)' \subseteq Above(v)
    BY <1>0, <1>1, AboveShrinks DEF TreeInv
<1>3. SUFFICES RequestsOK' /\ TreeInv' /\ Elsewhere({"regalias"}) /\ Units \subseteq Units'
  <2>1. ASSUME Elsewhere({"regalias"}), Units \subseteq Units' PROVE UnitsInv'
    BY <1>0, <1>2, <2>1, UnitsElsewhere
  <2>2. QED
    BY <1>0, <2>1 DEF Inductive
<1>4. CASE CommitUnit(p)
  <2>1. Pending(p, "units") /\ Commit(p, "units")
    BY <1>4 DEF CommitUnit
  <2>2. RequestsOK' /\ Elsewhere({"regalias"})
    BY <1>0, <2>1, Landed DEF Table
  <2>3. QED
    BY <1>0, <1>4, <2>2, TreeCommitted
<1>5. CASE Drop(p) /\ UNCHANGED units
  <2>1. RequestsOK' /\ Elsewhere({"regalias"}) /\ Elsewhere({"units"})
    BY <1>0, <1>5, Dropped DEF Table
  <2>2. QED
    BY <1>0, <1>5, <2>1, TreeElsewhere DEF Units
<1>6. CASE \/ \E type \in UnitType, parent \in UnitId \cup {Null} : StoreUnit(p, type, parent)
           \/ \E u \in UnitId, type \in UnitType, detach \in BOOLEAN :
                 ChangeType(p, u, type, detach)
           \/ \E u \in UnitId, parent \in UnitId \cup {Null} : Move(p, u, parent)
  <2>1. TreeInv' /\ UNCHANGED <<units, raced>> /\ \E r : Go(p, r) /\ UnitRequest(r)
    BY <1>0, <1>6, TreeBegun
  <2>2. PICK r : Go(p, r) /\ UnitRequest(r)
    BY <2>1
  <2>3. r.table = "units" /\ {"table", "op"} \subseteq DOMAIN r /\ r.op \in {"insert", "update"}
    BY <2>2 DEF UnitRequest, UnitInsertion, UnitUpdate
  <2>4. RequestsOK' /\ Elsewhere({"regalias"})
    BY <1>0, <2>1, <2>2, <2>3, Begun DEF Table
  <2>5. QED
    BY <2>1, <2>4 DEF Units
<1>7. QED
    BY <1>4, <1>5, <1>6 DEF TreeMoves, TreeNext

\* A request on the table regalias begins.
LEMMA StepOfRows ==
    ASSUME Inductive, NEW p \in Proc, NEW r, Go(p, r),
           \/ r \in Deletion
           \/ r \in Insertion /\ Fine(r.row) /\ r.row.source \in User \cup Units
                /\ (~bypassed' => Apart(r.row)),
           UNCHANGED <<units, raced, regalias, lastRegalia>>,
           bypassed' \in BOOLEAN, bypassed => bypassed'
    PROVE  Inductive'
<1>1. /\ r.table = "regalias" /\ {"table", "op"} \subseteq DOMAIN r
      /\ r.op \in {"insert", "delete"}
      /\ r \in Insertion => r \notin Deletion
    BY DEF Insertion, Deletion
<1>2. RequestsOK' /\ Elsewhere({"units"})
    BY <1>1, Begun DEF Inductive, Table
<1>3. EdgesInv'
    BY <1>1, Begins DEF Inductive
<1>4. TreeInv'
    BY <1>2, TreeElsewhere DEF Inductive
<1>5. UnitsInv'
    BY <1>1, UnitsBegin DEF Inductive
<1>6. QED
    BY <1>2, <1>3, <1>4, <1>5 DEF Inductive

LEMMA StepInductive ==
    Inductive /\ [\E p \in Proc : RegaliasNext(p)]_regaliaVars => Inductive'
<1> SUFFICES ASSUME Inductive, [\E p \in Proc : RegaliasNext(p)]_regaliaVars
             PROVE  Inductive'
    OBVIOUS
<1>1. CASE UNCHANGED regaliaVars
  <2>1. RequestsOK' /\ EdgesInv'
    BY <1>1, TableKept DEF regaliaVars, Inductive, RequestsOK, RequestsTypeOK, Free, EdgesInv, Typed
  <2>2. Elsewhere({"units"}) /\ Elsewhere({"regalias"}) /\ UNCHANGED <<units, regalias, bypassed>>
    BY <1>1 DEF regaliaVars, Elsewhere, Inductive, RequestsOK, RequestsTypeOK
  <2>3. TreeInv'
    BY <2>2, TreeElsewhere DEF Inductive
  <2>4. UnitsInv'
    <3>1. Units' = Units /\ \A v \in Units : Above(v)' = Above(v)
      BY <2>2 DEF Units, Above, Leads, Upward
    <3>2. QED
      BY <2>2, <3>1, UnitsElsewhere DEF Inductive, UnitsInv
  <2>5. QED
    BY <2>1, <2>3, <2>4 DEF Inductive
<1>2. ASSUME NEW p \in Proc, RegaliasNext(p) PROVE Inductive'
  <2>0. bypassed \in BOOLEAN /\ Units \subseteq UnitId
    BY DEF Inductive, UnitsInv, Units
  <2>1. ASSUME NEW b \in User, NEW s \in User, StoreUserRegalia(p, b, s)
        PROVE  Inductive'
    <3> DEFINE row == [beneficiary |-> b, source |-> s]
    <3>1. row \in Regalia /\ row.beneficiary = b /\ row.source = s
      BY DEF Regalia
    <3>2. /\ Go(p, Insert("regalias", row))
          /\ UNCHANGED <<units, raced, regalias, lastRegalia, bypassed>>
      BY <2>1 DEF StoreUserRegalia
    <3> HIDE DEF row
    <3>3. Fine(row) /\ Apart(row)
      BY <2>1, <3>1, SourceAssumption DEF StoreUserRegalia, Fine, Apart
    <3>4. Insert("regalias", row) \in Insertion /\ Insert("regalias", row).row = row
      BY <3>1 DEF Insert, Insertion
    <3>5. /\ Fine(Insert("regalias", row).row) /\ (bypassed' \in BOOLEAN)
          /\ Insert("regalias", row).row.source \in User \cup Units
          /\ ~bypassed' => Apart(Insert("regalias", row).row)
          /\ bypassed => bypassed'
      BY <2>0, <3>1, <3>2, <3>3, <3>4
    <3>6. QED
      BY <3>2, <3>4, <3>5, StepOfRows
  <2>2. ASSUME NEW b \in User, NEW u \in UnitId,
               StoreUnitRegalia(p, b, u) \/ StoreCommission(p, u, b)
        PROVE  Inductive'
    <3> DEFINE row == [beneficiary |-> b, source |-> u]
    <3>1. row \in Regalia /\ row.beneficiary = b /\ row.source = u
      BY DEF Regalia
    <3>2. /\ Go(p, Insert("regalias", row)) /\ u \in Units
          /\ UNCHANGED <<units, raced, regalias, lastRegalia>>
          /\ bypassed' = TRUE \/ bypassed' = bypassed
      BY <2>2 DEF StoreUnitRegalia, StoreCommission
    <3> HIDE DEF row
    <3>3. Fine(row)
      BY <2>2, <3>1, SourceAssumption DEF StoreUnitRegalia, StoreCommission, Fine
    <3>4. ~bypassed' => Apart(row)
      BY <2>2, <3>1 DEF StoreUnitRegalia, StoreCommission, Apart, Redundant
    <3>5. Insert("regalias", row) \in Insertion /\ Insert("regalias", row).row = row
      BY <3>1 DEF Insert, Insertion
    <3>6. /\ Fine(Insert("regalias", row).row) /\ bypassed' \in BOOLEAN
          /\ Insert("regalias", row).row.source \in User \cup Units
          /\ ~bypassed' => Apart(Insert("regalias", row).row)
      BY <2>0, <3>1, <3>2, <3>3, <3>4, <3>5
    <3>7. bypassed => bypassed'
      BY <3>2
    <3>8. QED
      BY <3>2, <3>5, <3>6, <3>7, StepOfRows
  <2>3. ASSUME NEW g \in RegaliaId, NEW u,
               DestroyRegalia(p, g) \/ DestroyCommission(p, u, g)
        PROVE  Inductive'
    <3>1. /\ Go(p, Delete("regalias", g))
          /\ UNCHANGED <<units, raced, regalias, lastRegalia, bypassed>>
      BY <2>3 DEF DestroyRegalia, DestroyCommission
    <3>2. Delete("regalias", g) \in Deletion
      BY DEF Delete, Deletion
    <3>3. QED
      BY <2>0, <3>1, <3>2, StepOfRows
  <2>4. ASSUME CommitRegalia(p) PROVE Inductive'
    <3>1. Pending(p, "regalias") /\ Commit(p, "regalias") /\ UNCHANGED <<units, bypassed>>
      BY <2>4 DEF CommitRegalia
    <3>2. RequestsOK' /\ Elsewhere({"units"})
      BY <3>1, Landed DEF Inductive, Table
    <3>3. EdgesInv' /\ UnitsInv'
      BY <2>4, RegaliaCommitted, UnitsCommitted DEF Inductive
    <3>4. TreeInv'
      BY <3>1, <3>2, TreeElsewhere DEF Inductive
    <3>5. QED
      BY <3>2, <3>3, <3>4 DEF Inductive
  <2>5. QED
    BY <1>2, <2>1, <2>2, <2>3, <2>4, StepOfTree DEF RegaliasNext
<1>3. QED
    BY <1>1, <1>2

LEMMA Invariance == RegaliasSpec => []Inductive
    BY InitInductive, StepInductive, PTL DEF RegaliasSpec

-----------------------------------------------------------------------------
(***************************************************************************)
(* No user earns on itself through others, unless two writes raced: the    *)
(* depth-first search of RegaliasService is enough.                        *)
(***************************************************************************)
THEOREM UsersNeverEarnInACircle == RegaliasSpec => []UserCycleFree
<1>1. Inductive => UserCycleFree
    BY DEF Inductive, EdgesInv
<1>2. QED
    BY <1>1, Invariance, PTL

(***************************************************************************)
(* One row per beneficiary and origin, unless two writes raced: the two    *)
(* controllers look for the duplicate in the same table.                   *)
(***************************************************************************)
THEOREM OneRowPerOrigin == RegaliasSpec => []OneRegaliaPerOrigin
<1>1. Inductive => OneRegaliaPerOrigin
    BY DEF Inductive, EdgesInv
<1>2. QED
    BY <1>1, Invariance, PTL

(***************************************************************************)
(* The units are a forest unless two writes to the tree raced, and whether *)
(* they raced or not a counter hangs from a unit and a freelance from      *)
(* none: the climb of move is enough for any number of units.              *)
(***************************************************************************)
THEOREM TheTreeIsSound == RegaliasSpec => []TreeConsistent
<1>1. Inductive => TreeConsistent
  <2> SUFFICES ASSUME Inductive PROVE TreeConsistent
    OBVIOUS
  <2>1. RegaliasTypeOK
    BY DEF Inductive, RequestsOK, EdgesInv, Typed, TreeInv, Rooted, UnitsInv,
           RegaliasTypeOK, TreeTypeOK
  <2>2. QED
    BY <2>1 DEF Inductive, TreeInv, TreeConsistent
<1>2. QED
    BY <1>1, Invariance, PTL

(***************************************************************************)
(* Nobody earns on a unit and on one above it, as long as every row came   *)
(* from RegaliasService, no insert overtook another and no unit got a      *)
(* parent: what else happens to the tree only takes ancestors away.        *)
(***************************************************************************)
THEOREM NoUnitIsPaidTwice == RegaliasSpec => []NoRedundantUnits
<1>1. Inductive => NoRedundantUnits
    BY DEF Inductive, UnitsInv
<1>2. QED
    BY <1>1, Invariance, PTL

-----------------------------------------------------------------------------
(***************************************************************************)
(* The members.  A pending link was judged on the rows there were; the     *)
(* user of a new account has none, so creating one beside it does no harm. *)
(***************************************************************************)
MemberInsertion == [table : {"members"}, op : {"insert"}, row : Member, fresh : BOOLEAN]
MemberUpdate    == [table : {"members"}, op : {"update"}, id : MemberId,
                    write : SUBSET ({"role"} \X Role), fresh : BOOLEAN]
MemberDeletion  == [table : {"members"}, op : {"delete"}, id : MemberId, fresh : BOOLEAN]

MemberRequest(r) ==
    \/ /\ r \in MemberInsertion /\ r.row.user \in users
       /\ r.fresh => RowsOf(r.row.user, r.row.unit) = {}
    \/ r \in MemberUpdate
    \/ r \in MemberDeletion

MembersInv ==
    /\ RequestsOK /\ MembersTypeOK /\ OneMembershipPerUnit
    /\ \A m \in Members : members[m].user \in users
    /\ \A p \in Proc : Pending(p, "members") => MemberRequest(request[p])

LEMMA NoMemberIsNoRow == NoMember \notin Member
<1>1. DOMAIN NoMember = {"unit"} /\ \A row \in Member : DOMAIN row = {"unit", "user", "role"}
    BY DEF NoMember, Member
<1>2. QED
    BY <1>1

LEMMA MembersBegin ==
    ASSUME MembersInv, NEW p \in Proc, NEW r, Go(p, r),
           MemberRequest(r), UNCHANGED <<units, raced, users, members, lastMember>>
    PROVE  MembersInv'
<1>1. /\ r.table = "members" /\ {"table", "op"} \subseteq DOMAIN r
      /\ r.op \in {"insert", "update", "delete"}
    BY DEF MemberRequest, MemberInsertion, MemberUpdate, MemberDeletion
<1>2. RequestsOK' /\ \A q \in Proc : request'[q] = IF q = p THEN r ELSE request[q]
    BY <1>1, Begun DEF MembersInv, Table
<1>3. MembersTypeOK' /\ OneMembershipPerUnit' /\ \A m \in Members' : members'[m].user \in users'
    BY <1>2 DEF MembersInv, MembersTypeOK, TreeTypeOK, OneMembershipPerUnit, RowsOf, Members,
                RequestsOK
<1>4. \A s : MemberRequest(s) => MemberRequest(s)'
    BY DEF MemberRequest, RowsOf, Members
<1>5. QED
    BY <1>2, <1>3, <1>4 DEF MembersInv, Pending

\* A membership that is written keeps its unit and its user.
LEMMA MemberColumns ==
    ASSUME NEW row \in Member, NEW write \in SUBSET ({"role"} \X Role)
    PROVE  /\ Merge(write, row) \in Member
           /\ Merge(write, row).unit = row.unit /\ Merge(write, row).user = row.user
<1>1. \A w \in write : w = <<w[1], w[2]>>
    OBVIOUS
<1>2. DOMAIN row = {"unit", "user", "role"}
    BY DEF Member
<1>3. DOMAIN Merge(write, row) = {"unit", "user", "role"}
    BY <1>2 DEF Merge
<1>4. Merge(write, row).unit = row.unit /\ Merge(write, row).user = row.user
  <2>1. Written(write, "unit") = {} /\ Written(write, "user") = {}
    BY DEF Written
  <2>2. QED
    BY <1>2, <2>1 DEF Merge
<1>5. Merge(write, row).role \in Role
  <2>1. Merge(write, row).role = row.role \/ <<"role", Merge(write, row).role>> \in write
    BY <1>1, <1>2, MergeColumn
  <2>2. QED
    BY <2>1 DEF Member
<1>6. Merge(write, row) = [f \in {"unit", "user", "role"} |-> Merge(write, row)[f]]
    BY <1>2 DEF Merge
<1> HIDE DEF Member
<1> DEFINE m == Merge(write, row)
<1>7. m = [unit |-> m.unit, user |-> m.user, role |-> m.role]
    BY <1>3, <1>6
<1>8. m.unit \in UnitId /\ m.user \in User
    BY <1>4 DEF Member
<1>9. m \in Member
    BY <1>5, <1>7, <1>8 DEF Member
<1>10. QED
    BY <1>4, <1>9

LEMMA MemberCommitted ==
    ASSUME MembersInv, NEW p \in Proc, CommitMember(p) PROVE MembersInv'
<1> DEFINE r == request[p]
<1>0. /\ Pending(p, "members") /\ Commit(p, "members") /\ UNCHANGED <<units, users>>
      /\ members \in [MemberId -> Member \cup {NoMember}] /\ NoMember \notin Member
      /\ MemberRequest(r)
    BY NoMemberIsNoRow DEF CommitMember, MembersInv, MembersTypeOK
<1>1. /\ RequestsOK'
      /\ \A q \in Proc : request'[q].table = "members" =>
           request[q].table = "members" /\ request'[q] = [request[q] EXCEPT !.fresh = FALSE]
      /\ "members" \notin raced' => r.fresh /\ "members" \notin raced
    BY <1>0, Landed DEF MembersInv, Table
<1>2. \A q \in Proc : Pending(q, "members")' => MemberRequest(request[q])'
  <2>1. SUFFICES ASSUME NEW q \in Proc, request'[q].table = "members"
                 PROVE  MemberRequest(request[q])'
    BY DEF Pending
  <2>2. PICK s : s = request[q]
    OBVIOUS
  <2>3. MemberRequest(s) /\ request'[q] = [s EXCEPT !.fresh = FALSE]
    BY <1>1, <2>1, <2>2 DEF MembersInv, Pending
  <2>4. PICK t : t = [s EXCEPT !.fresh = FALSE]
    OBVIOUS
  <2>5. MemberRequest(t)'
    BY <1>0, <2>3, <2>4 DEF MemberRequest, MemberInsertion, MemberUpdate, MemberDeletion
  <2>6. QED
    BY <2>3, <2>4, <2>5
<1>3. SUFFICES /\ members' \in [MemberId -> Member \cup {NoMember}]
               /\ lastMember' \in 0 .. MaxMembers
               /\ \A m \in Members' : members'[m].user \in users
               /\ OneMembershipPerUnit'
    BY <1>0, <1>1, <1>2 DEF MembersInv, MembersTypeOK, TreeTypeOK, RequestsOK
<1>4. CASE r.op = "insert"
  <2>1. r \in MemberInsertion
    BY <1>0, <1>4 DEF MemberRequest, MemberUpdate, MemberDeletion
  <2>2. PICK row \in Member : row = r.row /\ row.user \in users
    BY <1>0, <2>1 DEF MemberRequest, MemberInsertion, MemberUpdate, MemberDeletion
  <2>3. r.fresh => RowsOf(row.user, row.unit) = {}
    BY <1>0, <1>4, <2>1, <2>2 DEF MemberRequest, MemberUpdate, MemberDeletion
  <2>4. /\ lastMember' = lastMember + 1 /\ lastMember < MaxMembers
        /\ members' = [members EXCEPT ![lastMember + 1] = row]
    BY <1>4, <2>2 DEF CommitMember
  <2>5. lastMember + 1 \in MemberId /\ lastMember' \in 0 .. MaxMembers
    BY <2>4, MemberBoundAssumption DEF MembersInv, MembersTypeOK, MemberId
  <2>6. \A m \in MemberId : members'[m] = IF m = lastMember + 1 THEN row ELSE members[m]
    BY <1>0, <2>4
  <2>7. OneMembershipPerUnit'
    <3>1. SUFFICES ASSUME "members" \notin raced', NEW u \in UnitId, NEW s \in User,
                          NEW m \in RowsOf(s, u)', NEW n \in RowsOf(s, u)'
                   PROVE  m = n
      BY DEF OneMembershipPerUnit
    <3>2. /\ (m = lastMember + 1 /\ u = row.unit /\ s = row.user) \/ m \in RowsOf(s, u)
          /\ (n = lastMember + 1 /\ u = row.unit /\ s = row.user) \/ n \in RowsOf(s, u)
      BY <2>6 DEF RowsOf, Members
    <3>3. RowsOf(row.user, row.unit) = {}
      BY <1>1, <2>3, <3>1
    <3>4. QED
      BY <1>1, <3>1, <3>2, <3>3 DEF MembersInv, OneMembershipPerUnit
  <2>8. QED
    BY <1>0, <2>2, <2>4, <2>5, <2>6, <2>7 DEF MembersInv, Members
<1>5. CASE r.op = "update"
  <2>1. r \in MemberUpdate
    BY <1>0, <1>5 DEF MemberRequest, MemberInsertion, MemberDeletion
  <2>2. PICK i \in MemberId, write \in SUBSET ({"role"} \X Role) : i = r.id /\ write = r.write
    BY <2>1 DEF MemberUpdate
  <2>3. CASE i \in Members
    <3>1. PICK row : row = Merge(write, members[i])
      OBVIOUS
    <3>2. members' = [members EXCEPT ![i] = row] /\ UNCHANGED lastMember
      BY <1>5, <2>2, <2>3, <3>1 DEF CommitMember
    <3>3. members[i] \in Member
      BY <1>0, <2>3 DEF Members
    <3>4. row \in Member /\ row.unit = members[i].unit /\ row.user = members[i].user
      BY <2>2, <3>1, <3>3, MemberColumns
    <3>5. Members' = Members /\ \A s, u : RowsOf(s, u)' = RowsOf(s, u)
      BY <1>0, <2>3, <3>2, <3>3, <3>4 DEF RowsOf, Members
    <3>6. OneMembershipPerUnit'
      BY <1>1, <3>5 DEF MembersInv, OneMembershipPerUnit
    <3>7. \A m \in Members' : members'[m].user \in users
      BY <1>0, <2>3, <3>2, <3>4, <3>5 DEF MembersInv, Members
    <3>8. QED
      BY <1>0, <3>2, <3>4, <3>6, <3>7 DEF MembersInv, MembersTypeOK
  <2>4. CASE i \notin Members
    <3>1. UNCHANGED <<members, lastMember>>
      BY <1>5, <2>2, <2>4 DEF CommitMember
    <3>2. QED
      BY <1>1, <3>1 DEF MembersInv, MembersTypeOK, OneMembershipPerUnit, RowsOf, Members
  <2>5. QED
    BY <2>3, <2>4
<1>6. CASE r.op = "delete"
  <2>1. members' = [members EXCEPT ![r.id] = NoMember] /\ UNCHANGED lastMember
    BY <1>6 DEF CommitMember
  <2>2. \A m \in MemberId : members'[m] = members[m] \/ members'[m] = NoMember
    BY <1>0, <2>1
  <2>3. \A s, u : RowsOf(s, u)' \subseteq RowsOf(s, u)
    BY <2>2 DEF RowsOf, Members
  <2>4. OneMembershipPerUnit'
    BY <1>1, <2>3 DEF MembersInv, OneMembershipPerUnit
  <2>5. QED
    BY <1>0, <2>1, <2>2, <2>4 DEF MembersInv, MembersTypeOK, Members
<1>7. QED
    BY <1>4, <1>5, <1>6 DEF CommitMember

\* A user who is created with a membership had none, pending ones included.
LEMMA MemberCreated ==
    ASSUME MembersInv, NEW p \in Proc, NEW u \in UnitId, NEW s \in User, NEW role \in Role,
           CreateMember(p, u, s, role)
    PROVE  MembersInv'
<1> DEFINE new == [unit |-> u, user |-> s, role |-> role]
<1>0. /\ members \in [MemberId -> Member \cup {NoMember}] /\ NoMember \notin Member
      /\ s \notin users /\ users' = users \cup {s} /\ UNCHANGED <<units, raced>>
      /\ lastMember' = lastMember + 1 /\ lastMember < MaxMembers
      /\ members' = [members EXCEPT ![lastMember + 1] = new]
    BY NoMemberIsNoRow DEF CreateMember, MembersInv, MembersTypeOK
<1>1. new \in Member /\ new.unit = u /\ new.user = s
    BY DEF Member
<1> HIDE DEF new
<1>2. lastMember + 1 \in MemberId /\ lastMember' \in 0 .. MaxMembers
    BY <1>0, MemberBoundAssumption DEF MembersInv, MembersTypeOK, MemberId
<1>3. \A m \in MemberId : members'[m] = IF m = lastMember + 1 THEN new ELSE members[m]
    BY <1>0
<1>4. \A q \in Proc : /\ request[q].table = "members" =>
                           request'[q] = [request[q] EXCEPT !.fresh = FALSE]
                      /\ request[q].table # "members" => request'[q] = request[q]
    BY DEF CreateMember, Pending
<1>5. RequestsOK'
  <2>1. DOMAIN request' = Proc
    BY DEF CreateMember
  <2>2. ASSUME NEW q \in Proc
        PROVE  /\ "table" \in DOMAIN request'[q]
               /\ \/ request'[q] = Idle
                  \/ /\ request'[q].table \in Table /\ "op" \in DOMAIN request'[q]
                     /\ request'[q].op \in {"insert", "update", "delete"}
    <3>1. CASE request[q].table = "members"
      <4>1. request[q] # Idle
        BY <3>1 DEF Idle
      <4>2. QED
        BY <1>4, <3>1, <4>1 DEF MembersInv, RequestsOK, RequestsTypeOK, Free
    <3>2. CASE request[q].table # "members"
      BY <1>4, <3>2 DEF MembersInv, RequestsOK, RequestsTypeOK, Free
    <3>3. QED
      BY <3>1, <3>2
  <2>3. QED
    BY <2>1, <2>2 DEF RequestsOK, RequestsTypeOK, Free
<1>6. \A q \in Proc : Pending(q, "members")' => MemberRequest(request[q])'
  <2>1. SUFFICES ASSUME NEW q \in Proc, request'[q].table = "members"
                 PROVE  MemberRequest(request[q])'
    BY DEF Pending
  <2>2. PICK b : b = request[q]
    OBVIOUS
  <2>3. MemberRequest(b) /\ request'[q] = [b EXCEPT !.fresh = FALSE]
    BY <1>4, <2>1, <2>2 DEF MembersInv, Pending
  <2>4. PICK t : t = [b EXCEPT !.fresh = FALSE]
    OBVIOUS
  <2>5. MemberRequest(t)'
    BY <1>0, <2>3, <2>4 DEF MemberRequest, MemberInsertion, MemberUpdate, MemberDeletion
  <2>6. QED
    BY <2>3, <2>4, <2>5
<1>7. OneMembershipPerUnit'
  <2>1. SUFFICES ASSUME "members" \notin raced, NEW v \in UnitId, NEW t \in User,
                        NEW m \in RowsOf(t, v)', NEW n \in RowsOf(t, v)'
                 PROVE  m = n
    BY <1>0 DEF OneMembershipPerUnit
  <2>2. /\ (m = lastMember + 1 /\ t = s) \/ m \in RowsOf(t, v)
        /\ (n = lastMember + 1 /\ t = s) \/ n \in RowsOf(t, v)
    BY <1>1, <1>3 DEF RowsOf, Members
  <2>3. RowsOf(s, v) = {}
    BY <1>0 DEF MembersInv, RowsOf
  <2>4. QED
    BY <2>1, <2>2, <2>3 DEF MembersInv, OneMembershipPerUnit
<1>8. \A m \in Members' : members'[m].user \in users'
    BY <1>0, <1>1, <1>3 DEF MembersInv, Members
<1>9. MembersTypeOK'
    BY <1>0, <1>1, <1>2, <1>5 DEF MembersInv, MembersTypeOK, TreeTypeOK, RequestsOK
<1>10. QED
    BY <1>5, <1>6, <1>7, <1>8, <1>9 DEF MembersInv

LEMMA MembersStart == MembersInit => MembersInv
<1> SUFFICES ASSUME MembersInit PROVE MembersInv
    OBVIOUS
<1>1. /\ DOMAIN request = Proc
      /\ \A p \in Proc : request[p] = Idle /\ Idle.table = "none" /\ "table" \in DOMAIN Idle
    BY DEF MembersInit, RequestsInit, Idle
<1>2. RequestsOK
    BY <1>1 DEF RequestsOK, RequestsTypeOK, Free
<1>3. Members = {} /\ lastMember \in 0 .. MaxMembers
    BY MemberBoundAssumption DEF MembersInit, Members
<1>4. MembersTypeOK
    BY <1>2, <1>3, TreesAssumption DEF MembersInit, MembersTypeOK, TreeTypeOK, RequestsOK
<1>5. QED
    BY <1>1, <1>2, <1>3, <1>4 DEF MembersInv, OneMembershipPerUnit, RowsOf, Pending

LEMMA MembersStep ==
    MembersInv /\ [\E p \in Proc : MembersNext(p)]_memberVars => MembersInv'
<1> SUFFICES ASSUME MembersInv, [\E p \in Proc : MembersNext(p)]_memberVars
             PROVE  MembersInv'
    OBVIOUS
<1>1. CASE UNCHANGED memberVars
    BY <1>1 DEF memberVars, MembersInv, RequestsOK, RequestsTypeOK, Free, MembersTypeOK,
                TreeTypeOK, OneMembershipPerUnit, RowsOf, Members, Pending, MemberRequest
<1>2. ASSUME NEW p \in Proc, MembersNext(p) PROVE MembersInv'
  <2>1. ASSUME NEW u \in UnitId, NEW s \in User, NEW role \in Role, LinkMember(p, u, s, role)
        PROVE  MembersInv'
    <3> DEFINE row == [unit |-> u, user |-> s, role |-> role]
               r == Insert("members", row)
    <3>1. Go(p, r) /\ UNCHANGED <<units, raced, users, members, lastMember>>
      BY <2>1 DEF LinkMember
    <3>2. r \in MemberInsertion /\ r.row = row /\ row.unit = u /\ row.user = s
      BY DEF Insert, MemberInsertion, Member
    <3> HIDE DEF r, row
    <3>3. MemberRequest(r)
      BY <2>1, <3>2 DEF LinkMember, MemberRequest
    <3>4. QED
      BY <3>1, <3>3, MembersBegin
  <2>2. ASSUME NEW m \in MemberId, NEW role \in Role, ChangeRole(p, m, role)
        PROVE  MembersInv'
    <3> DEFINE r == Update("members", m, {<<"role", role>>})
    <3>1. Go(p, r) /\ UNCHANGED <<units, raced, users, members, lastMember>>
      BY <2>2 DEF ChangeRole
    <3>2. r \in MemberUpdate
      BY DEF Update, MemberUpdate
    <3>3. QED
      BY <3>1, <3>2, MembersBegin DEF MemberRequest
  <2>3. ASSUME NEW m \in MemberId, RemoveMember(p, m) PROVE MembersInv'
    <3>1. /\ Go(p, Delete("members", m))
          /\ UNCHANGED <<units, raced, users, members, lastMember>>
      BY <2>3 DEF RemoveMember
    <3>2. Delete("members", m) \in MemberDeletion
      BY DEF Delete, MemberDeletion
    <3>3. QED
      BY <3>1, <3>2, MembersBegin DEF MemberRequest
  <2>4. ASSUME Drop(p), UNCHANGED <<units, users, members, lastMember>> PROVE MembersInv'
    <3>1. RequestsOK' /\ Elsewhere({"members"})
      BY <2>4, Dropped DEF MembersInv, Table
    <3>2. UNCHANGED raced
      BY <2>4 DEF Drop
    <3>3. QED
      BY <2>4, <3>1, <3>2 DEF MembersInv, MembersTypeOK, TreeTypeOK, RequestsOK, Elsewhere,
             OneMembershipPerUnit, RowsOf, Members, Pending, MemberRequest
  <2>5. QED
    BY <1>2, <2>1, <2>2, <2>3, <2>4, MemberCreated, MemberCommitted DEF MembersNext
<1>3. QED
    BY <1>1, <1>2

(***************************************************************************)
(* Memberships are typed, and a user has one per unit unless requests      *)
(* raced: the look-up of member_link is enough as long as nothing overtakes *)
(* it, whatever roles change and whoever is created or removed meanwhile.  *)
(***************************************************************************)
THEOREM MembershipsAreSound == MembersSpec => []MembershipsConsistent
<1>1. MembersInv => MembershipsConsistent
    BY DEF MembersInv, MembershipsConsistent
<1>2. QED
    BY <1>1, MembersStart, MembersStep, PTL DEF MembersSpec
-----------------------------------------------------------------------------
(***************************************************************************)
(* The resolver.  Both recursive functions are a CHOOSE until some         *)
(* function is shown to satisfy their equation.  For Climb a smallest      *)
(* height without one cannot exist; for the levels the closed form of the  *)
(* documentation is one, and the largest height at which another solution  *)
(* differs from it cannot exist.                                           *)
(***************************************************************************)
LEMMA SmallestHeight ==
    ASSUME NEW T, T \subseteq Nat, T # {}
    PROVE  \E x \in T : \A y \in T : x <= y
<1> DEFINE R == OpToRel(<, Nat)
<1>1. IsWellFoundedOn(R, Nat)
    BY NatLessThanWellFounded
<1> HIDE DEF R
<1>2. PICK x \in T : \A y \in T : <<y, x>> \notin R
    BY <1>1, WFMin
<1>3. \A y \in T : ~(y < x)
    BY <1>2 DEF R, OpToRel
<1>4. QED
    BY <1>3

LEMMA LargestHeight ==
    ASSUME NEW n \in Nat, NEW T, T \subseteq 0 .. n, T # {}
    PROVE  \E x \in T : \A y \in T : y <= x
<1> DEFINE D == {n - y : y \in T}
<1>1. D \subseteq Nat
    OBVIOUS
<1>0. D # {}
    OBVIOUS
<1>2. PICK d \in D : \A e \in D : d <= e
    BY <1>0, <1>1, SmallestHeight
<1>3. PICK x \in T : d = n - x
    OBVIOUS
<1>4. \A y \in T : n - y \in D
    OBVIOUS
<1>5. QED
    BY <1>2, <1>3, <1>4

ClimbsTo(k, f) ==
    f = [n \in 0 .. k |-> [u \in 0 .. MaxUnits |->
            IF n = 0 \/ u = Null THEN u ELSE f[n - 1][units[u].parent]]]

LEMMA ParentsAreUnits ==
    ASSUME TreeTypeOK, NEW u \in 0 .. MaxUnits, u # Null
    PROVE  units[u].parent \in 0 .. MaxUnits
BY UnitBoundsAssumption DEF TreeTypeOK, UnitId, Unit, NoUnit, Null

LEMMA ClimbGrows ==
    ASSUME TreeTypeOK, NEW k \in Nat, NEW f, ClimbsTo(k, f)
    PROVE  \E g : ClimbsTo(k + 1, g)
<1> DEFINE g == [n \in 0 .. k + 1 |-> [u \in 0 .. MaxUnits |->
                    IF n = 0 \/ u = Null THEN u ELSE f[n - 1][units[u].parent]]]
<1>1. \A n \in 0 .. k, u \in 0 .. MaxUnits :
         f[n][u] = IF n = 0 \/ u = Null THEN u ELSE f[n - 1][units[u].parent]
  <2> DEFINE row(n) == [u \in 0 .. MaxUnits |->
                          IF n = 0 \/ u = Null THEN u ELSE f[n - 1][units[u].parent]]
  <2>1. \A n \in 0 .. k : f[n] = row(n)
    BY Zenon DEF ClimbsTo
  <2>2. \A n \in 0 .. k, u \in 0 .. MaxUnits :
           row(n)[u] = IF n = 0 \/ u = Null THEN u ELSE f[n - 1][units[u].parent]
    OBVIOUS
  <2> HIDE DEF row
  <2>3. QED
    BY <2>1, <2>2
<1>2. \A n \in 0 .. k, u \in 0 .. MaxUnits : g[n][u] = f[n][u]
    BY <1>1
<1>3. \A n \in 0 .. k + 1, u \in 0 .. MaxUnits :
         n # 0 /\ u # Null => g[n - 1][units[u].parent] = f[n - 1][units[u].parent]
  <2>1. ASSUME NEW n \in 0 .. k + 1, NEW u \in 0 .. MaxUnits, n # 0, u # Null
        PROVE  g[n - 1][units[u].parent] = f[n - 1][units[u].parent]
    <3>1. n - 1 \in 0 .. k /\ units[u].parent \in 0 .. MaxUnits
      BY <2>1, ParentsAreUnits
    <3>2. QED
      BY <1>2, <3>1
  <2>2. QED
    BY <2>1
<1>4. g = [n \in 0 .. k + 1 |-> [u \in 0 .. MaxUnits |->
              IF n = 0 \/ u = Null THEN u ELSE g[n - 1][units[u].parent]]]
    BY <1>3
<1>5. QED
    BY <1>4 DEF ClimbsTo

LEMMA ClimbExists ==
    ASSUME TreeTypeOK, NEW k \in Nat
    PROVE  \E f : ClimbsTo(k, f)
<1> DEFINE T == {n \in Nat : ~\E f : ClimbsTo(n, f)}
<1> SUFFICES ASSUME T # {} PROVE FALSE
    OBVIOUS
<1>1. PICK x \in T : \A y \in T : x <= y
    BY SmallestHeight, T \subseteq Nat
<1>2. CASE x = 0
  <2> DEFINE f == [n \in 0 .. 0 |-> [u \in 0 .. MaxUnits |-> u]]
  <2>1. ClimbsTo(0, f)
    BY DEF ClimbsTo
  <2>2. QED
    BY <1>2, <2>1
<1>3. CASE x # 0
  <2>1. x - 1 \in Nat /\ x - 1 \notin T /\ (x - 1) + 1 = x
    BY <1>1, <1>3
  <2>2. QED
    BY <2>1, ClimbGrows
<1>4. QED
    BY <1>2, <1>3

LEMMA ClimbStaysPut ==
    ASSUME TreeTypeOK, NEW u \in UnitId
    PROVE  Climb[0][u] = u
<1>1. Climb = CHOOSE f : f = [n \in 0 .. MaxUnits |-> [v \in 0 .. MaxUnits |->
                                IF n = 0 \/ v = Null THEN v ELSE f[n - 1][units[v].parent]]]
    BY DEF Climb
<1>2. \E f : f = [n \in 0 .. MaxUnits |-> [v \in 0 .. MaxUnits |->
                    IF n = 0 \/ v = Null THEN v ELSE f[n - 1][units[v].parent]]]
    BY ClimbExists, UnitBoundsAssumption DEF ClimbsTo
<1>3. Climb = [n \in 0 .. MaxUnits |-> [v \in 0 .. MaxUnits |->
                 IF n = 0 \/ v = Null THEN v ELSE Climb[n - 1][units[v].parent]]]
    BY <1>1, <1>2
<1>4. QED
    BY <1>3, UnitBoundsAssumption DEF UnitId

\* The height of the root of the chain, or of its last unit on a cycle.
Top(unit) == Cardinality(Ancestors(unit)) - 1

LEMMA TopIsAHeight ==
    ASSUME NEW unit \in UnitId
    PROVE  Top(unit) \in Nat
<1>1. IsFiniteSet(UnitId)
    BY FS_Interval, UnitBoundsAssumption DEF UnitId
<1>2. Ancestors(unit) \subseteq UnitId /\ unit \in Ancestors(unit)
    BY DEF Ancestors, Above
<1>3. IsFiniteSet(Ancestors(unit))
    BY <1>1, <1>2, FS_Subset
<1>4. Cardinality(Ancestors(unit)) \in Nat /\ Cardinality(Ancestors(unit)) # 0
    BY <1>2, <1>3, FS_CardinalityType, FS_EmptySet
<1>5. QED
    BY <1>4 DEF Top

\* The levels of one unit from those above it, as the resolver has them.
LevelAt(global, own, unit, level, h) ==
    [key \in Key |->
       IF key \in global THEN LevelGlobal
       ELSE IF \E a \in (h + 1) .. Top(unit) :
                 /\ level[a][ManageChildren] > LevelNone
                 /\ key \in Local(own, Climb[a][unit]) THEN LevelInherited
       ELSE IF key \in Local(own, Climb[h][unit]) THEN LevelLocal
       ELSE LevelNone]

\* The levels at height h as the documentation has them.
Promised(global, own, unit, h) ==
    [key \in Key |->
       IF key \in global THEN LevelGlobal
       ELSE IF \E a \in (h + 1) .. Top(unit) :
                 /\ Passes(global, own, unit, a)
                 /\ key \in Local(own, Climb[a][unit]) THEN LevelInherited
       ELSE IF key \in Local(own, Climb[h][unit]) THEN LevelLocal
       ELSE LevelNone]

LEMMA PassesDown ==
    ASSUME NEW global, NEW own, NEW unit \in UnitId, NEW h \in 0 .. Top(unit)
    PROVE  Promised(global, own, unit, h)[ManageChildren] > LevelNone
              <=> Passes(global, own, unit, h)
<1>1. Top(unit) \in Nat
    BY TopIsAHeight
<1> DEFINE carries(a) == ManageChildren \in Local(own, Climb[a][unit])
           global_ == ManageChildren \in global
           above == \E a \in (h + 1) .. Top(unit) : Passes(global, own, unit, a) /\ carries(a)
<1>2. Promised(global, own, unit, h)[ManageChildren]
         = IF global_ THEN LevelGlobal
           ELSE IF above THEN LevelInherited
           ELSE IF carries(h) THEN LevelLocal
           ELSE LevelNone
    BY KeyAssumption DEF Promised
<1>3. \A g \in 0 .. Top(unit) :
         Passes(global, own, unit, g) <=> global_ \/ \E a \in g .. Top(unit) : carries(a)
    BY DEF Passes, Top
<1> HIDE DEF carries, global_
<1>4. above => Passes(global, own, unit, h)
    BY <1>1, <1>3
<1>5. Passes(global, own, unit, h) => global_ \/ above \/ carries(h)
  <2>1. ASSUME NEW a \in h .. Top(unit), carries(a), a # h PROVE above
    BY <1>1, <1>3, <2>1
  <2>2. QED
    BY <1>3, <2>1
<1>6. global_ \/ carries(h) => Passes(global, own, unit, h)
    BY <1>1, <1>3
<1> HIDE DEF above
<1>7. QED
    BY <1>2, <1>4, <1>5, <1>6 DEF LevelNone, LevelLocal, LevelInherited, LevelGlobal

LEMMA PromiseIsALevel ==
    ASSUME NEW global, NEW own, NEW unit \in UnitId, NEW h \in 0 .. Top(unit), NEW level,
           \A a \in (h + 1) .. Top(unit) : level[a] = Promised(global, own, unit, a)
    PROVE  LevelAt(global, own, unit, level, h) = Promised(global, own, unit, h)
<1>1. Top(unit) \in Nat
    BY TopIsAHeight
<1>2. \A a \in (h + 1) .. Top(unit) :
         level[a][ManageChildren] > LevelNone <=> Passes(global, own, unit, a)
    BY <1>1, PassesDown
<1>3. QED
    BY <1>2 DEF LevelAt, Promised

LEMMA LevelsArePromised ==
    ASSUME NEW global, NEW own, NEW unit \in UnitId
    PROVE  Levels(global, own, unit) = Promised(global, own, unit, 0)
<1> DEFINE top == Top(unit)
<1>1. top \in Nat
    BY TopIsAHeight
<1>2. PICK level :
         /\ level = CHOOSE f : f = [h \in 0 .. top |-> LevelAt(global, own, unit, f, h)]
         /\ Levels(global, own, unit) = level[0]
    BY DEF Levels, LevelAt, Top
<1> HIDE DEF top
<1>3. \E f : f = [h \in 0 .. top |-> LevelAt(global, own, unit, f, h)]
  <2> DEFINE f == [h \in 0 .. top |-> Promised(global, own, unit, h)]
  <2>1. ASSUME NEW h \in 0 .. top PROVE LevelAt(global, own, unit, f, h) = f[h]
    <3>1. \A a \in (h + 1) .. top : f[a] = Promised(global, own, unit, a)
      BY <1>1
    <3> HIDE DEF f
    <3>2. LevelAt(global, own, unit, f, h) = Promised(global, own, unit, h)
      BY <3>1, PromiseIsALevel DEF top
    <3>3. QED
      BY <3>2 DEF f
  <2>2. f = [h \in 0 .. top |-> LevelAt(global, own, unit, f, h)]
    BY <2>1
  <2>3. QED
    BY <2>2
<1>4. level = [h \in 0 .. top |-> LevelAt(global, own, unit, level, h)]
    BY <1>2, <1>3
<1>5. \A h \in 0 .. top : level[h] = Promised(global, own, unit, h)
  <2> DEFINE T == {h \in 0 .. top : level[h] # Promised(global, own, unit, h)}
  <2> SUFFICES ASSUME T # {} PROVE FALSE
    OBVIOUS
  <2>1. PICK x \in T : \A y \in T : y <= x
    BY <1>1, LargestHeight, T \subseteq 0 .. top
  <2>2. \A a \in (x + 1) .. top : level[a] = Promised(global, own, unit, a)
    BY <1>1, <2>1
  <2>3. LevelAt(global, own, unit, level, x) = Promised(global, own, unit, x)
    BY <2>2, PromiseIsALevel DEF top
  <2>4. level[x] = LevelAt(global, own, unit, level, x)
    BY <1>4
  <2>5. QED
    BY <2>3, <2>4
<1>6. QED
    BY <1>1, <1>2, <1>5

LEMMA ResolverIsRight == TreeTypeOK => ResolverMatchesReference
<1> SUFFICES ASSUME TreeTypeOK, NEW global \in SUBSET Key, NEW unit \in Units,
                    NEW s \in users, NEW own \in Kept(s), NEW key \in Key
             PROVE  Levels(global, own, unit)[key] = Greatest(global, own, unit, key)
    BY DEF ResolverMatchesReference
<1>1. Levels(global, own, unit)[key] = Promised(global, own, unit, 0)[key]
    BY LevelsArePromised DEF Units
<1>2. Climb[0][unit] = unit
    BY ClimbStaysPut DEF Units
<1> DEFINE inherited == \E h \in 1 .. Top(unit) : /\ key \in Local(own, Climb[h][unit])
                                                  /\ Passes(global, own, unit, h)
<1>3. Promised(global, own, unit, 0)[key]
         = IF key \in global THEN LevelGlobal
           ELSE IF inherited THEN LevelInherited
           ELSE IF key \in Local(own, unit) THEN LevelLocal
           ELSE LevelNone
    BY <1>2 DEF Promised
<1>4. QED
    BY <1>1, <1>3 DEF Top, Greatest

(***************************************************************************)
(* Whatever tree and memberships requests leave, cycles and doubled rows   *)
(* included, the resolver gives every user the level that its              *)
(* documentation defines, for chains of any length.                        *)
(***************************************************************************)
THEOREM ResolverKeepsItsPromise == MembersSpec => []ResolverMatchesReference
<1>1. MembersInv => ResolverMatchesReference
    BY ResolverIsRight DEF MembersInv, MembersTypeOK
<1>2. QED
    BY <1>1, MembersStart, MembersStep, PTL DEF MembersSpec
=============================================================================
