--------------------------- MODULE CatalogueProofs ---------------------------
(***************************************************************************)
(* What Catalogue keeps, for any number of requests, rows, texts, files    *)
(* and versions.  Each part has an invariant of its own: the types, the    *)
(* property that the runs check, and for every pending request the shape   *)
(* of its write and what it may still rely on: everything that it saw,     *)
(* while it is fresh, and nothing but what no other write can take away,   *)
(* once it was overtaken.  The parts share no table (Elsewhere), so each   *)
(* keeps its invariant through the steps of the others.                    *)
(***************************************************************************)
EXTENDS Catalogue, FiniteSetTheorems, TLAPS

-----------------------------------------------------------------------------
(***************************************************************************)
(* Requests: what a begin, a commit and an abort do to those of a table.   *)
(***************************************************************************)
Table == {"coverages", "rows", "coverage_categories", "items", "terms", "values", "countries",
          "plan_version_countries", "plan_version_repatriation_countries", "templates",
          "template_versions", "config_items", "files"}

RequestsOK ==
    /\ DOMAIN request = Proc
    /\ \A p \in Proc : /\ "table" \in DOMAIN request[p]
                       /\ Free(p) \/ request[p].table \in Table

\* A step that leaves the tables of T and the requests that write them alone.
Elsewhere(T) ==
    /\ DOMAIN request' = Proc
    /\ \A q \in Proc : request'[q].table \in T => request'[q] = request[q]
    /\ raced \cap T \subseteq raced'

\* A request that begins touches its own entry and no table.
LEMMA Begun ==
    ASSUME RequestsOK, NEW p \in Proc, NEW r, Go(p, r), UNCHANGED raced,
           "table" \in DOMAIN r, r = Idle \/ r.table \in Table
    PROVE  /\ RequestsOK'
           /\ request'[p] = r
           /\ \A q \in Proc : q # p => request'[q] = request[q]
           /\ \A T \in SUBSET Table : r.table \notin T => Elsewhere(T)
<1>1. /\ request'[p] = r /\ DOMAIN request' = Proc
      /\ \A q \in Proc : q # p => request'[q] = request[q]
  BY DEF RequestsOK, Go
<1> QED
  BY <1>1 DEF RequestsOK, Elsewhere, Free

\* A commit to t makes the others of t stale, itself idle, and concerns t only.
LEMMA Landed ==
    ASSUME RequestsOK, NEW p \in Proc, NEW t \in Table, Pending(p, t), Commit(p, t)
    PROVE  /\ RequestsOK'
           /\ request'[p] = Idle
           /\ \A q \in Proc : request'[q].table = t =>
                /\ request[q].table = t
                /\ request'[q] = [request[q] EXCEPT !.fresh = FALSE]
           /\ raced' = IF request[p].fresh THEN raced ELSE raced \cup {t}
           /\ \A T \in SUBSET Table : t \notin T => Elsewhere(T)
<1>1. /\ request'[p] = Idle /\ DOMAIN request' = Proc
      /\ \A q \in Proc : q # p /\ request[q].table = t =>
           request'[q] = [request[q] EXCEPT !.fresh = FALSE]
      /\ \A q \in Proc : q # p /\ request[q].table # t => request'[q] = request[q]
  BY DEF RequestsOK, Commit
<1>2. \A q \in Proc : q # p /\ request[q].table = t =>
        /\ DOMAIN request'[q] = DOMAIN request[q]
        /\ request'[q].table = t
  BY <1>1 DEF RequestsOK
<1>3. Idle.table = "none" /\ "table" \in DOMAIN Idle /\ "none" \notin Table
  BY DEF Idle, Table
<1>4. RequestsOK'
  BY <1>1, <1>2, <1>3 DEF RequestsOK, Free
<1>5. raced' = IF request[p].fresh THEN raced ELSE raced \cup {t}
  BY DEF Commit
<1>6. \A q \in Proc : request'[q].table = t =>
        /\ request[q].table = t
        /\ request'[q] = [request[q] EXCEPT !.fresh = FALSE]
  BY <1>1, <1>3
<1>7. ASSUME NEW T \in SUBSET Table, t \notin T PROVE Elsewhere(T)
  <2>1. ASSUME NEW q \in Proc, request'[q].table \in T PROVE request'[q] = request[q]
    BY <1>1, <1>2, <1>3, <1>7, <2>1
  <2> QED
    BY <1>1, <1>5, <1>7, <2>1 DEF Elsewhere
<1> QED
  BY <1>1, <1>4, <1>5, <1>6, <1>7

\* A commit ends no request but its own.
LEMMA Others ==
    ASSUME RequestsOK, NEW p \in Proc, NEW t \in Table, Pending(p, t), Commit(p, t)
    PROVE  \A q \in Proc : q # p /\ request[q] # Idle =>
              /\ request'[q] # Idle /\ request'[q].table = request[q].table
              /\ request'[q] = request[q] \/ request'[q] = [request[q] EXCEPT !.fresh = FALSE]
<1>1. Idle.table = "none" /\ "none" \notin Table
  BY DEF Idle, Table
<1> SUFFICES ASSUME NEW q \in Proc, q # p, request[q] # Idle
             PROVE  /\ request'[q].table = request[q].table
                    /\ request'[q] = request[q] \/ request'[q] = [request[q] EXCEPT !.fresh = FALSE]
  BY <1>1 DEF RequestsOK, Free
<1>2. CASE request[q].table = t
  <2>1. request'[q] = [request[q] EXCEPT !.fresh = FALSE]
    BY <1>2 DEF RequestsOK, Commit
  <2> QED
    BY <2>1 DEF RequestsOK
<1>3. CASE request[q].table # t
  BY <1>3 DEF RequestsOK, Commit
<1> QED
  BY <1>2, <1>3

\* Whoever is idle after the commit of another was pending on nothing.
LEMMA StillPending ==
    ASSUME RequestsOK, NEW p \in Proc, NEW t \in Table, Pending(p, t), Commit(p, t)
    PROVE  \A q \in Proc : q # p /\ request'[q] = Idle => \A u \in Table : ~Pending(q, u)
<1>1. Idle.table \notin Table
  BY DEF Idle, Table
<1> QED
  BY <1>1, Others DEF Pending

\* A request that is given up leaves every table alone.
LEMMA Dropped ==
    ASSUME RequestsOK, NEW p \in Proc, Drop(p)
    PROVE  RequestsOK' /\ \A T \in SUBSET Table : Elsewhere(T)
<1>1. Idle.table = "none" /\ "table" \in DOMAIN Idle /\ "none" \notin Table
  BY DEF Idle, Table
<1> QED
  BY <1>1, Begun DEF Drop

-----------------------------------------------------------------------------
(***************************************************************************)
(* What the ORM writes.                                                    *)
(***************************************************************************)
\* The value of a written column is one of those in the write.
LEMMA MergeColumn ==
    ASSUME NEW write, NEW row, NEW f \in DOMAIN row,
           \A w \in write : w = <<w[1], w[2]>>
    PROVE  /\ DOMAIN Merge(write, row) = DOMAIN row
           /\ Merge(write, row)[f] = row[f] \/ <<f, Merge(write, row)[f]>> \in write
<1>1. DOMAIN Merge(write, row) = DOMAIN row
  BY DEF Merge
<1>2. CASE Written(write, f) = {}
  BY <1>1, <1>2 DEF Merge
<1>3. CASE Written(write, f) # {}
  <2>1. Merge(write, row)[f] \in Written(write, f)
    BY <1>3 DEF Merge
  <2> QED
    BY <1>1, <2>1 DEF Written
<1> QED
  BY <1>2, <1>3

\* What was loaded and is still there becomes what the request decided.
LEMMA MergeChanges ==
    ASSUME NEW D, NEW row, NEW new,
           row = [f \in D |-> row[f]], new = [f \in D |-> new[f]]
    PROVE  Merge(Changes(row, new), row) = new
<1>1. DOMAIN row = D /\ DOMAIN new = D
  OBVIOUS
<1>2. ASSUME NEW f \in D PROVE Merge(Changes(row, new), row)[f] = new[f]
  <2>1. \A w \in Changes(row, new) : w[1] = f => new[f] # row[f] /\ w[2] = new[f]
    BY <1>1 DEF Changes
  <2>2. new[f] # row[f] => <<f, new[f]>> \in Changes(row, new)
    BY <1>1 DEF Changes
  <2>3. Written(Changes(row, new), f) = IF new[f] # row[f] THEN {new[f]} ELSE {}
    BY <2>1, <2>2 DEF Written
  <2> QED
    BY <1>1, <2>3 DEF Merge
<1>3. Merge(Changes(row, new), row) = [f \in D |-> Merge(Changes(row, new), row)[f]]
  BY <1>1 DEF Merge
<1> QED
  BY <1>2, <1>3

-----------------------------------------------------------------------------
(***************************************************************************)
(* The coverages of a plan version.                                        *)
(***************************************************************************)
NewRowRequest(r) ==
    /\ r \in [table : {"rows"}, op : {"insert"}, fresh : BOOLEAN,
              row : [coverage : Coverage, order : Nat \ {0}]]
    /\ r.fresh => /\ Holding(r.row.coverage) = {}
                  /\ \A s \in Attached : rows[s].order < r.row.order

OldRowRequest(r) ==
    r \in [table : {"rows"}, op : {"delete"}, fresh : BOOLEAN, id : RowId]

\* What was listed but not moved has its place already.
Reorders(r, L, S, order, fresh) ==
    /\ r = [table |-> "rows", op |-> "update", id |-> S, write |-> order, fresh |-> fresh]
    /\ \A s, u \in L : s # u => order[s] # order[u]
    /\ fresh => \A s \in L \ S : rows[s].order = order[s]

ReorderRequest(r) ==
    \E L \in SUBSET RowId : \E S \in SUBSET L :
      \E order \in [L -> Nat \ {0}] : \E fresh \in BOOLEAN : Reorders(r, L, S, order, fresh)

RowRequest(r) == NewRowRequest(r) \/ OldRowRequest(r) \/ ReorderRequest(r)

UnusedRequest(r) ==
    r \in [table : {"coverages"}, op : {"delete"}, fresh : BOOLEAN, id : Coverage]

CoveragesInv ==
    /\ CoveragesTypeOK
    /\ \A s \in Attached : s <= lastRow
    /\ CoverageOnce
    /\ AttachedIsInCatalogue
    /\ \A p \in Proc : Pending(p, "rows") => RowRequest(request[p])
    /\ \A p \in Proc : Pending(p, "coverages") => UnusedRequest(request[p])

\* A finite set of numbers that is not empty has a largest.
LEMMA Largest ==
    ASSUME NEW N \in Nat, NEW S \in SUBSET (1 .. N), S # {}, NEW f, \A s \in S : f[s] \in Int
    PROVE  \E n \in {f[s] : s \in S} : \A m \in {f[s] : s \in S} : m <= n
<1> DEFINE Tops(k)  == \E s \in S : s <= k /\ \A u \in S : u <= k => f[u] <= f[s]
           Fails(k) == (\E s \in S : s <= k) /\ ~Tops(k)
           B == {k \in 0 .. N : Fails(k)}
           R == OpToRel(<, Nat)
<1>0. \A s \in S : s <= N
  OBVIOUS
<1>1. B = {}
  <2> SUFFICES ASSUME B # {} PROVE FALSE
    OBVIOUS
  <2>1. B \subseteq Nat /\ IsWellFoundedOn(R, Nat)
    <3>1. B \subseteq Nat
      OBVIOUS
    <3>2. IsWellFoundedOn(R, Nat)
      BY NatLessThanWellFounded
    <3> QED
      BY <3>1, <3>2
  <2>2. PICK k \in B : \A j \in B : ~(<<j, k>> \in R)
    <3> HIDE DEF B, R
    <3> QED
      BY <2>1, WFMin
  <2>3. \A j \in B : ~(j < k)
    BY <2>1, <2>2 DEF OpToRel
  <2>4. k \in 1 .. N /\ k - 1 \in 0 .. N
    OBVIOUS
  <2>5. ~Fails(k - 1)
    <3> HIDE DEF Fails
    <3> QED
      BY <2>3, <2>4
  <2>6. \A u \in S : u <= k <=> u <= k - 1 \/ u = k
    BY <2>4
  <2>7. CASE \E s \in S : s <= k - 1
    <3>1. PICK s \in S : s <= k - 1 /\ \A u \in S : u <= k - 1 => f[u] <= f[s]
      BY <2>5, <2>7
    <3>2. CASE k \in S /\ f[k] > f[s]
      <4>1. \A u \in S : u <= k => f[u] <= f[k]
        BY <2>6, <3>1, <3>2
      <4> QED
        BY <2>4, <3>2, <4>1
    <3>3. CASE ~(k \in S /\ f[k] > f[s])
      <4>1. \A u \in S : u <= k => f[u] <= f[s]
        BY <2>6, <3>1, <3>3
      <4> QED
        BY <2>6, <3>1, <4>1
    <3> QED
      BY <3>2, <3>3
  <2>8. CASE ~ \E s \in S : s <= k - 1
    <3>1. \A u \in S : u <= k => u = k
      BY <2>6, <2>8
    <3> QED
      BY <3>1
  <2> QED
    BY <2>7, <2>8
<1>2. Tops(N)
  <2>1. ~Fails(N)
    <3> HIDE DEF Fails
    <3> QED
      BY <1>1
  <2>2. \E s \in S : s <= N
    BY <1>0
  <2> HIDE DEF Tops
  <2> QED
    BY <2>1, <2>2 DEF Fails
<1> QED
  BY <1>0, <1>2

-----------------------------------------------------------------------------
\* The last order is an order in use, or 0, and no row is behind it.
LEMMA LastOrderBounds ==
    ASSUME CoveragesInv
    PROVE  /\ LastOrder \in Nat
           /\ \A s \in Attached : rows[s].order <= LastOrder
<1> USE RowBoundAssumption
<1>1. /\ Attached \subseteq 1 .. MaxRows
      /\ \A s \in Attached : rows[s].order \in Nat
  BY DEF CoveragesInv, CoveragesTypeOK, Attached, RowId
<1>2. CASE Attached = {}
  BY <1>1, <1>2 DEF LastOrder
<1>3. CASE Attached # {}
  <2> DEFINE f == [s \in Attached |-> rows[s].order]
  <2>1. {f[s] : s \in Attached} = {rows[s].order : s \in Attached}
    OBVIOUS
  <2>2. \E n \in {rows[s].order : s \in Attached} :
          \A m \in {rows[s].order : s \in Attached} : m <= n
    <3>1. \A s \in Attached : f[s] \in Int
      BY <1>1
    <3> HIDE DEF f
    <3>2. \E n \in {f[s] : s \in Attached} : \A m \in {f[s] : s \in Attached} : m <= n
      BY <1>1, <1>3, <3>1, Largest
    <3> QED
      BY <2>1, <3>2
  <2>3. \E n \in {rows[s].order : s \in Attached} : \A s \in Attached : rows[s].order <= n
    BY <2>2
  <2>4. /\ LastOrder \in {rows[s].order : s \in Attached}
        /\ \A s \in Attached : rows[s].order <= LastOrder
    BY <1>3, <2>3 DEF LastOrder
  <2> QED
    BY <1>1, <2>4
<1> QED
  BY <1>2, <1>3

\* A step that concerns other tables keeps the invariant.
LEMMA CoveragesElsewhere ==
    ASSUME CoveragesInv, Elsewhere({"coverages", "rows"}), UNCHANGED coverageVars
    PROVE  CoveragesInv'
<1>1. UNCHANGED catalogue /\ UNCHANGED rows /\ UNCHANGED lastRow
  BY DEF coverageVars
<1>2. \A r : (RowRequest(r) => RowRequest(r)') /\ (UnusedRequest(r) => UnusedRequest(r)')
  BY <1>1 DEF RowRequest, NewRowRequest, OldRowRequest, ReorderRequest, Reorders, UnusedRequest, Holding,
         Attached
<1>3. CoveragesTypeOK' /\ AttachedIsInCatalogue' /\ CoverageOnce'
      /\ \A s \in Attached' : s <= lastRow'
  BY <1>1 DEF CoveragesInv, CoveragesTypeOK, AttachedIsInCatalogue, CoverageOnce, Attached,
              Elsewhere
<1>4. \A p \in Proc : Pending(p, "rows")' => RowRequest(request[p])'
  BY <1>2 DEF CoveragesInv, Elsewhere, Pending
<1>5. \A p \in Proc : Pending(p, "coverages")' => UnusedRequest(request[p])'
  BY <1>2 DEF CoveragesInv, Elsewhere, Pending
<1> QED
  BY <1>3, <1>4, <1>5 DEF CoveragesInv

\* A request that is idle begins.
LEMMA CoveragesBegin ==
    ASSUME CoveragesInv, RequestsOK, NEW p \in Proc, NEW r, Go(p, r),
           RowRequest(r) \/ UnusedRequest(r), UNCHANGED <<raced, coverageVars>>
    PROVE  CoveragesInv'
<1>1. UNCHANGED catalogue /\ UNCHANGED rows /\ UNCHANGED lastRow /\ UNCHANGED raced
  BY DEF coverageVars
<1>2. \A s : (RowRequest(s) => RowRequest(s)') /\ (UnusedRequest(s) => UnusedRequest(s)')
  BY <1>1 DEF RowRequest, NewRowRequest, OldRowRequest, ReorderRequest, Reorders, UnusedRequest, Holding,
         Attached
<1>3. CoveragesTypeOK' /\ AttachedIsInCatalogue' /\ CoverageOnce'
      /\ \A s \in Attached' : s <= lastRow'
  BY <1>1 DEF CoveragesInv, CoveragesTypeOK, AttachedIsInCatalogue, CoverageOnce, Attached
<1>4. \A q \in Proc : request'[q] = IF q = p THEN r ELSE request[q]
  BY DEF RequestsOK, Go
<1>5. (r.table = "rows" => RowRequest(r)) /\ (r.table = "coverages" => UnusedRequest(r))
  BY DEF RowRequest, NewRowRequest, OldRowRequest, ReorderRequest, Reorders, UnusedRequest
<1>6. \A q \in Proc : Pending(q, "rows")' => RowRequest(request[q])'
  BY <1>2, <1>4, <1>5 DEF CoveragesInv, Pending
<1>7. \A q \in Proc : Pending(q, "coverages")' => UnusedRequest(request[q])'
  BY <1>2, <1>4, <1>5 DEF CoveragesInv, Pending
<1> QED
  BY <1>3, <1>6, <1>7 DEF CoveragesInv

\* Every operation on coverages begins a request of the right shape.
LEMMA CoveragesBegun ==
    ASSUME CoveragesInv, RequestsOK, NEW p \in Proc,
           \/ \E c \in Coverage : DestroyCoverage(p, c) \/ StoreRow(p, c)
           \/ \E r \in RowId : DestroyRow(p, r)
           \/ \E order \in Orders : Reorder(p, order)
    PROVE  /\ UNCHANGED <<raced, coverageVars>>
           /\ \E r : Go(p, r) /\ (RowRequest(r) \/ UnusedRequest(r))
<1>1. ASSUME NEW c \in Coverage, DestroyCoverage(p, c)
      PROVE  \E r : Go(p, r) /\ UnusedRequest(r)
  <2>1. Go(p, Delete("coverages", c)) /\ UnusedRequest(Delete("coverages", c))
    BY <1>1 DEF DestroyCoverage, UnusedRequest, Delete
  <2> QED
    BY <2>1
<1>2. ASSUME NEW c \in Coverage, StoreRow(p, c)
      PROVE  \E r : Go(p, r) /\ NewRowRequest(r)
  <2> DEFINE r == Insert("rows", [coverage |-> c, order |-> LastOrder + 1])
  <2>1. Go(p, r) /\ Holding(c) = {}
    BY <1>2 DEF StoreRow
  <2>2. LastOrder \in Nat /\ LastOrder + 1 \in Nat \ {0}
    BY LastOrderBounds
  <2>3. \A s \in Attached : rows[s].order < LastOrder + 1
    <3>1. \A s \in Attached : rows[s].order \in Nat
      BY DEF CoveragesInv, CoveragesTypeOK, Attached
    <3> QED
      BY <2>2, <3>1, LastOrderBounds
  <2>4. NewRowRequest(r)
    BY <2>1, <2>2, <2>3 DEF NewRowRequest, Insert
  <2> QED
    BY <2>1, <2>4
<1>3. ASSUME NEW s \in RowId, DestroyRow(p, s)
      PROVE  \E r : Go(p, r) /\ OldRowRequest(r)
  <2>1. Go(p, Delete("rows", s)) /\ OldRowRequest(Delete("rows", s))
    BY <1>3 DEF DestroyRow, OldRowRequest, Delete
  <2> QED
    BY <2>1
<1>4. ASSUME NEW order \in Orders, Reorder(p, order)
      PROVE  \E r : Go(p, r) /\ ReorderRequest(r)
  <2> DEFINE S == {s \in DOMAIN order : rows[s].order # order[s]}
             r == Update("rows", S, order)
  <2>1. Go(p, r)
    BY <1>4 DEF Reorder
  <2>2. PICK L \in SUBSET Attached : /\ order \in [L -> 1 .. MaxList]
                                    /\ \A s, u \in L : s # u => order[s] # order[u]
    BY DEF Orders
  <2>3. L \in SUBSET RowId /\ S \in SUBSET L /\ order \in [L -> Nat \ {0}]
    BY <2>2, RowBoundAssumption DEF Attached
  <2>4. \A s \in L \ S : rows[s].order = order[s]
    BY <2>2
  <2>5. r = [table |-> "rows", op |-> "update", id |-> S, write |-> order, fresh |-> TRUE]
    BY DEF Update
  <2> HIDE DEF S, r
  <2>6. Reorders(r, L, S, order, TRUE)
    BY <2>2, <2>4, <2>5 DEF Reorders
  <2>7. ReorderRequest(r)
    BY <2>3, <2>6 DEF ReorderRequest
  <2> QED
    BY <2>1, <2>7
<1>5. UNCHANGED <<raced, coverageVars>>
  BY DEF DestroyCoverage, StoreRow, DestroyRow, Reorder, coverageVars
<1> QED
  BY <1>1, <1>2, <1>3, <1>4, <1>5 DEF RowRequest

\* What is left of a decision once another one has landed.
LEMMA StaleUpdate ==
    ASSUME NEW t, NEW i, NEW w, NEW fresh
    PROVE  [[table |-> t, op |-> "update", id |-> i, write |-> w, fresh |-> fresh]
               EXCEPT !.fresh = FALSE]
             = [table |-> t, op |-> "update", id |-> i, write |-> w, fresh |-> FALSE]
<1> DEFINE r == [table |-> t, op |-> "update", id |-> i, write |-> w, fresh |-> fresh]
           a == [r EXCEPT !.fresh = FALSE]
           b == [table |-> t, op |-> "update", id |-> i, write |-> w, fresh |-> FALSE]
           D == {"table", "op", "id", "write", "fresh"}
<1>1. a = [x \in D |-> a[x]] /\ b = [x \in D |-> b[x]]
  OBVIOUS
<1>2. \A x \in D : a[x] = b[x]
  <2>1. a["fresh"] = FALSE /\ b["fresh"] = FALSE
    OBVIOUS
  <2>2. /\ a["table"] = b["table"] /\ a["op"] = b["op"]
        /\ a["id"] = b["id"] /\ a["write"] = b["write"]
    OBVIOUS
  <2> HIDE DEF a, b
  <2> QED
    BY <2>1, <2>2
<1> HIDE DEF a, b, D
<1> QED
  BY <1>1, <1>2 DEF a, b, r

\* A stale request keeps its shape.
LEMMA RowStale ==
    ASSUME NEW r, RowRequest(r)
    PROVE  RowRequest([r EXCEPT !.fresh = FALSE])'
<1> DEFINE s == [r EXCEPT !.fresh = FALSE]
<1>1. CASE NewRowRequest(r)
  <2>1. s \in [table : {"rows"}, op : {"insert"}, fresh : {FALSE},
               row : [coverage : Coverage, order : Nat \ {0}]]
    BY <1>1 DEF NewRowRequest
  <2> QED
    BY <2>1 DEF RowRequest, NewRowRequest
<1>2. CASE OldRowRequest(r)
  BY <1>2 DEF RowRequest, OldRowRequest
<1>3. CASE ReorderRequest(r)
  <2>1. PICK L \in SUBSET RowId : \E S \in SUBSET L :
          \E order \in [L -> Nat \ {0}] : \E fresh \in BOOLEAN : Reorders(r, L, S, order, fresh)
    BY <1>3 DEF ReorderRequest
  <2>2. PICK S \in SUBSET L : \E order \in [L -> Nat \ {0}] :
          \E fresh \in BOOLEAN : Reorders(r, L, S, order, fresh)
    BY <2>1
  <2>3. PICK order \in [L -> Nat \ {0}] : \E fresh \in BOOLEAN : Reorders(r, L, S, order, fresh)
    BY <2>2
  <2>4. PICK fresh \in BOOLEAN : Reorders(r, L, S, order, fresh)
    BY <2>3
  <2>5. s = [table |-> "rows", op |-> "update", id |-> S, write |-> order, fresh |-> FALSE]
    BY <2>4, StaleUpdate DEF Reorders
  <2> HIDE DEF s
  <2>6. Reorders(s, L, S, order, FALSE)'
    BY <2>4, <2>5 DEF Reorders
  <2>7. ReorderRequest(s)'
    BY <2>6 DEF ReorderRequest
  <2> QED
    BY <2>7 DEF RowRequest, s
<1> QED
  BY <1>1, <1>2, <1>3 DEF RowRequest

LEMMA ReorderUpdates ==
    ASSUME NEW r, ReorderRequest(r)
    PROVE  r.op = "update"
<1>1. \A L, S, order, fresh : Reorders(r, L, S, order, fresh) => r.op = "update"
  BY DEF Reorders
<1> QED
  BY <1>1 DEF ReorderRequest

\* What a reorder that finds all its rows makes of them.
LEMMA RowsReordered ==
    ASSUME CoveragesInv, NEW t, ReorderRequest(t),
           rows' = [s \in RowId |-> IF t.id \subseteq Attached /\ s \in t.id
                                    THEN [rows[s] EXCEPT !.order = t.write[s]] ELSE rows[s]]
    PROVE  /\ t.op = "update"
           /\ rows' \in [RowId -> [coverage : Coverage, order : Nat \ {0}] \cup {NoRow}]
           /\ Attached' = Attached
           /\ \A s \in Attached : rows'[s].coverage = rows[s].coverage
           /\ \A s, u \in DOMAIN t.write : s # u => t.write[s] # t.write[u]
           /\ \A s \in Attached \ DOMAIN t.write : rows'[s].order = rows[s].order
           /\ t.fresh =>
                 \/ rows' = rows
                 \/ \A s \in Attached \cap DOMAIN t.write : rows'[s].order = t.write[s]
<1> DEFINE Row == [coverage : Coverage, order : Nat \ {0}]
<1>1. PICK L \in SUBSET RowId : \E S \in SUBSET L :
        \E order \in [L -> Nat \ {0}] : \E fresh \in BOOLEAN : Reorders(t, L, S, order, fresh)
  BY DEF ReorderRequest
<1>2. PICK S \in SUBSET L : \E order \in [L -> Nat \ {0}] :
        \E fresh \in BOOLEAN : Reorders(t, L, S, order, fresh)
  BY <1>1
<1>3. PICK order \in [L -> Nat \ {0}] : \E fresh \in BOOLEAN : Reorders(t, L, S, order, fresh)
  BY <1>2
<1>4. /\ t.op = "update" /\ t.id = S /\ t.write = order /\ DOMAIN t.write = L
      /\ \A s, u \in L : s # u => order[s] # order[u]
      /\ t.fresh => \A s \in L \ S : rows[s].order = order[s]
  BY <1>3 DEF Reorders
<1>5. /\ rows \in [RowId -> Row \cup {NoRow}]
      /\ \A s \in RowId : s \in Attached => rows[s] \in Row
      /\ Attached \subseteq RowId
  BY DEF CoveragesInv, CoveragesTypeOK, Attached
<1>6. CASE S \subseteq Attached
  <2>1. \A s \in RowId : /\ s \in S => rows'[s] = [rows[s] EXCEPT !.order = order[s]]
                         /\ s \notin S => rows'[s] = rows[s]
    BY <1>4, <1>6
  <2>2. ASSUME NEW s \in S
        PROVE  /\ rows'[s] \in Row /\ rows'[s] # NoRow /\ s \in Attached
               /\ rows'[s].order = order[s] /\ rows'[s].coverage = rows[s].coverage
    <3>1. rows[s] \in Row /\ order[s] \in Nat \ {0} /\ s \in RowId
      BY <1>5, <1>6
    <3>2. rows'[s] = [rows[s] EXCEPT !.order = order[s]]
      BY <2>1, <3>1
    <3> QED
      BY <1>6, <3>1, <3>2 DEF NoRow
  <2>3. Attached' = Attached
    BY <2>1, <2>2 DEF Attached
  <2>4. rows' \in [RowId -> Row \cup {NoRow}]
    <3>1. \A s \in RowId : rows'[s] \in Row \cup {NoRow}
      BY <1>5, <2>1, <2>2
    <3>2. rows' = [s \in RowId |-> rows'[s]]
      OBVIOUS
    <3> HIDE DEF Row
    <3> QED
      BY <3>1, <3>2
  <2>5. \A s \in Attached : rows'[s].coverage = rows[s].coverage
    BY <1>5, <2>1, <2>2
  <2>6. \A s \in Attached \ L : rows'[s].order = rows[s].order
    BY <1>5, <2>1
  <2>7. t.fresh => \A s \in Attached \cap L : rows'[s].order = order[s]
    BY <1>4, <1>5, <2>1, <2>2
  <2> QED
    BY <1>4, <2>3, <2>4, <2>5, <2>6, <2>7
<1>7. CASE ~(S \subseteq Attached)
  <2>1. rows' = rows
    BY <1>4, <1>5, <1>7
  <2> QED
    BY <1>4, <1>5, <2>1 DEF Attached
<1> QED
  BY <1>6, <1>7

\* The commit to plan_version_coverages keeps the invariant.
LEMMA RowsCommitted ==
    ASSUME RequestsOK, CoveragesInv, NEW p \in Proc, CommitRows(p)
    PROVE  CoveragesInv'
<1> USE RowBoundAssumption
<1>1. PICK t : t = request[p]
  OBVIOUS
<1>2. RowRequest(t) /\ Pending(p, "rows") /\ Commit(p, "rows") /\ UNCHANGED catalogue
  BY <1>1 DEF CommitRows, CoveragesInv
<1>3. /\ lastRow \in 0 .. MaxRows
      /\ \A s \in Attached : s \in 1 .. lastRow
  BY DEF CoveragesInv, CoveragesTypeOK, Attached, RowId
<1>4. /\ \A q \in Proc : Pending(q, "rows")' =>
            Pending(q, "rows") /\ request'[q] = [request[q] EXCEPT !.fresh = FALSE]
      /\ \A q \in Proc : Pending(q, "coverages")' => request'[q] = request[q]
      /\ "rows" \notin raced' => "rows" \notin raced /\ t.fresh
  <2>1. {"coverages"} \in SUBSET Table /\ "rows" \in Table /\ "rows" \notin {"coverages"}
    BY DEF Table
  <2>2. Elsewhere({"coverages"})
    BY <1>2, <2>1, Landed
  <2> QED
    BY <1>1, <1>2, <2>1, <2>2, Landed DEF Pending, Elsewhere
<1>5. /\ rows' \in [RowId -> [coverage : Coverage, order : Nat \ {0}] \cup {NoRow}]
      /\ lastRow' \in 0 .. MaxRows
      /\ \A s \in Attached' : s <= lastRow'
      /\ "rows" \notin raced /\ t.fresh =>
            \A s, u \in Attached' : s # u => rows'[s].coverage # rows'[u].coverage
      /\ AttachedIsInCatalogue'
  <2> DEFINE Row == [coverage : Coverage, order : Nat \ {0}]
  <2>1. CASE NewRowRequest(t)
    <3>1. /\ lastRow < MaxRows /\ lastRow' = lastRow + 1
          /\ rows' = IF catalogue[t.row.coverage] = "absent" THEN rows
                     ELSE [rows EXCEPT ![lastRow + 1] = t.row]
      BY <1>1, <2>1 DEF CommitRows, NewRowRequest
    <3>2. CASE catalogue[t.row.coverage] = "absent"
      <4>1. rows' = rows /\ Attached' = Attached
        BY <3>1, <3>2 DEF Attached
      <4>2. lastRow' \in 0 .. MaxRows /\ \A s \in Attached' : s <= lastRow'
        BY <1>3, <3>1, <4>1
      <4>3. AttachedIsInCatalogue'
        BY <1>2, <4>1 DEF CoveragesInv, AttachedIsInCatalogue
      <4> QED
        BY <4>1, <4>2, <4>3 DEF CoveragesInv, CoveragesTypeOK, CoverageOnce
    <3>3. CASE catalogue[t.row.coverage] # "absent"
      <4>1. t.row \in Row /\ t.row # NoRow
        BY <2>1 DEF NewRowRequest, NoRow
      <4>2. lastRow + 1 \in RowId /\ lastRow + 1 \notin Attached
        BY <1>3, <3>1 DEF RowId
      <4>3. /\ \A s \in RowId : rows'[s] = IF s = lastRow + 1 THEN t.row ELSE rows[s]
            /\ rows' \in [RowId -> Row \cup {NoRow}]
        BY <3>1, <3>3, <4>1, <4>2 DEF CoveragesInv, CoveragesTypeOK
      <4>4. Attached' = Attached \cup {lastRow + 1}
        BY <4>1, <4>2, <4>3 DEF Attached
      <4>5. \A s \in Attached' : s <= lastRow'
        BY <1>3, <3>1, <4>4
      <4>6. AttachedIsInCatalogue'
        BY <1>2, <3>3, <4>3, <4>4 DEF CoveragesInv, AttachedIsInCatalogue, Attached
      <4>7. ASSUME "rows" \notin raced, t.fresh
            PROVE  \A s, u \in Attached' : s # u => rows'[s].coverage # rows'[u].coverage
        <5>1. \A s \in Attached : rows[s].coverage # t.row.coverage
          BY <2>1, <4>7 DEF NewRowRequest, Holding
        <5>2. \A s, u \in Attached : s # u => rows[s].coverage # rows[u].coverage
          BY <4>7 DEF CoveragesInv, CoverageOnce
        <5> QED
          BY <4>2, <4>3, <4>4, <5>1, <5>2 DEF Attached
      <4>8. lastRow' \in 0 .. MaxRows
        BY <1>3, <3>1
      <4> QED
        BY <4>3, <4>5, <4>6, <4>7, <4>8
    <3> QED
      BY <3>2, <3>3
  <2>2. CASE OldRowRequest(t)
    <3>1. rows' = [rows EXCEPT ![t.id] = NoRow] /\ lastRow' = lastRow /\ t.id \in RowId
      BY <1>1, <2>2 DEF CommitRows, OldRowRequest
    <3>2. /\ \A s \in RowId : rows'[s] = IF s = t.id THEN NoRow ELSE rows[s]
          /\ rows' \in [RowId -> Row \cup {NoRow}]
      BY <3>1 DEF CoveragesInv, CoveragesTypeOK
    <3>3. Attached' \subseteq Attached /\ \A s \in Attached' : rows'[s] = rows[s]
      BY <3>2 DEF Attached
    <3> QED
      BY <1>2, <1>3, <3>1, <3>2, <3>3
         DEF CoveragesInv, CoveragesTypeOK, CoverageOnce, AttachedIsInCatalogue
  <2>3. CASE ReorderRequest(t)
    <3>1. t.op = "update"
      BY <2>3, ReorderUpdates
    <3>2. /\ lastRow' = lastRow
          /\ rows' = [s \in RowId |-> IF t.id \subseteq Attached /\ s \in t.id
                                      THEN [rows[s] EXCEPT !.order = t.write[s]] ELSE rows[s]]
      BY <1>1, <3>1 DEF CommitRows
    <3>3. /\ rows' \in [RowId -> Row \cup {NoRow}] /\ Attached' = Attached
          /\ \A s \in Attached : rows'[s].coverage = rows[s].coverage
      BY <2>3, <3>2, RowsReordered
    <3>4. AttachedIsInCatalogue'
      BY <1>2, <3>3 DEF CoveragesInv, AttachedIsInCatalogue
    <3> QED
      BY <1>3, <3>2, <3>3, <3>4 DEF CoveragesInv, CoverageOnce
  <2> QED
    BY <1>2, <2>1, <2>2, <2>3 DEF RowRequest
<1>6. \A q \in Proc : Pending(q, "rows")' => RowRequest(request[q])'
  <2> SUFFICES ASSUME NEW q \in Proc, Pending(q, "rows")' PROVE RowRequest(request[q])'
    OBVIOUS
  <2>1. PICK s : s = request[q]
    OBVIOUS
  <2>2. RowRequest(s) /\ request'[q] = [s EXCEPT !.fresh = FALSE]
    BY <1>4, <2>1 DEF CoveragesInv
  <2>3. RowRequest([s EXCEPT !.fresh = FALSE])'
    BY <2>2, RowStale
  <2> QED
    BY <2>2, <2>3
<1>7. \A q \in Proc : Pending(q, "coverages")' => UnusedRequest(request[q])'
  BY <1>4 DEF CoveragesInv, Pending, UnusedRequest
<1>8. CoveragesTypeOK'
  BY <1>2, <1>5 DEF CoveragesInv, CoveragesTypeOK
<1>9. CoverageOnce'
  BY <1>4, <1>5 DEF CoverageOnce
<1> QED
  BY <1>5, <1>6, <1>7, <1>8, <1>9 DEF CoveragesInv

\* Whom a tie of two coverages is owed to: see OrderTieHasACause.
TiesRows(p, pair) ==
    /\ Pending(p, "rows") /\ request'[p] = Idle
    /\ \/ ~request[p].fresh
       \/ /\ request[p].op = "update"
          /\ Cardinality({pair[1], pair[2]} \cap DOMAIN request[p].write) = 1

OrderTies == \A pair \in SameOrder' \ SameOrder : \E p \in Proc : TiesRows(p, pair)

\* A commit that was not overtaken makes a tie by a list with one of the two.
LEMMA RowsTied ==
    ASSUME RequestsOK, CoveragesInv, NEW p \in Proc, CommitRows(p)
    PROVE  OrderTies
<1>1. PICK t : t = request[p]
  OBVIOUS
<1>2. RowRequest(t) /\ Pending(p, "rows") /\ Commit(p, "rows")
  BY <1>1 DEF CommitRows, CoveragesInv
<1>3. request'[p] = Idle
  BY <1>2, Landed DEF Table
<1>4. /\ rows \in [RowId -> [coverage : Coverage, order : Nat \ {0}] \cup {NoRow}]
      /\ \A s \in Attached : s \in RowId /\ rows[s].order \in Nat
  BY DEF CoveragesInv, CoveragesTypeOK, Attached
<1> SUFFICES ASSUME t.fresh, NEW a \in Attached', NEW b \in Attached', a # b,
                    rows'[a].order = rows'[b].order,
                    ~(a \in Attached /\ b \in Attached /\ rows[a].order = rows[b].order)
             PROVE  t.op = "update" /\ Cardinality({a, b} \cap DOMAIN t.write) = 1
  <2> SUFFICES ASSUME NEW pair \in SameOrder' \ SameOrder PROVE TiesRows(p, pair)
    BY DEF OrderTies
  <2>1. PICK a \in Attached', b \in Attached' :
          pair = <<a, b>> /\ a # b /\ rows'[a].order = rows'[b].order
    BY DEF SameOrder
  <2>2. ~(a \in Attached /\ b \in Attached /\ rows[a].order = rows[b].order)
    BY <2>1 DEF SameOrder
  <2>3. t.fresh => t.op = "update" /\ Cardinality({a, b} \cap DOMAIN t.write) = 1
    BY <2>1, <2>2
  <2> QED
    BY <1>1, <1>2, <1>3, <2>1, <2>3 DEF TiesRows
<1>5. CASE NewRowRequest(t)
  <2>1. /\ lastRow < MaxRows
        /\ rows' = rows \/ rows' = [rows EXCEPT ![lastRow + 1] = t.row]
    BY <1>1, <1>5 DEF CommitRows, NewRowRequest
  <2>2. CASE rows' = rows
    BY <2>2 DEF Attached
  <2>3. CASE rows' = [rows EXCEPT ![lastRow + 1] = t.row]
    <3>1. \A s \in RowId : rows'[s] = IF s = lastRow + 1 THEN t.row ELSE rows[s]
      BY <1>4, <2>3
    <3>2. /\ a \in RowId /\ b \in RowId
          /\ a = lastRow + 1 \/ a \in Attached
          /\ b = lastRow + 1 \/ b \in Attached
      BY <3>1 DEF Attached
    <3>3. t.row.order \in Nat /\ \A s \in Attached : rows[s].order < t.row.order
      BY <1>5 DEF NewRowRequest
    <3>4. \A s \in Attached : rows[s].order # t.row.order
      BY <1>4, <3>3
    <3>5. CASE a = lastRow + 1
      BY <3>1, <3>2, <3>4, <3>5
    <3>6. CASE b = lastRow + 1
      BY <3>1, <3>2, <3>4, <3>6
    <3> QED
      BY <3>1, <3>2, <3>5, <3>6
  <2> QED
    BY <2>1, <2>2, <2>3
<1>6. CASE OldRowRequest(t)
  <2>1. rows' = [rows EXCEPT ![t.id] = NoRow]
    BY <1>1, <1>6 DEF CommitRows, OldRowRequest
  <2>2. \A s \in RowId : rows'[s] = IF s = t.id THEN NoRow ELSE rows[s]
    BY <1>4, <2>1
  <2> QED
    BY <2>2 DEF Attached
<1>7. CASE ReorderRequest(t)
  <2>1. t.op = "update"
    BY <1>7, ReorderUpdates
  <2>2. rows' = [s \in RowId |-> IF t.id \subseteq Attached /\ s \in t.id
                                 THEN [rows[s] EXCEPT !.order = t.write[s]] ELSE rows[s]]
    BY <1>1, <2>1 DEF CommitRows
  <2>3. /\ Attached' = Attached
        /\ \A s, u \in DOMAIN t.write : s # u => t.write[s] # t.write[u]
        /\ \A s \in Attached \ DOMAIN t.write : rows'[s].order = rows[s].order
        /\ \/ rows' = rows
           \/ \A s \in Attached \cap DOMAIN t.write : rows'[s].order = t.write[s]
    BY <1>7, <2>2, RowsReordered
  <2>4. rows' # rows
    BY <2>3
  <2>5. ~(a \in DOMAIN t.write /\ b \in DOMAIN t.write)
    BY <2>3, <2>4
  <2>6. a \in DOMAIN t.write \/ b \in DOMAIN t.write
    BY <2>3
  <2>7. PICK x : {a, b} \cap DOMAIN t.write = {x}
    BY <2>5, <2>6
  <2> QED
    BY <2>1, <2>7, FS_Singleton
<1> QED
  BY <1>2, <1>5, <1>6, <1>7 DEF RowRequest

\* So does the delete of a coverage: one that a version has stays.
LEMMA CatalogueCommitted ==
    ASSUME RequestsOK, CoveragesInv, NEW p \in Proc, CommitCatalogue(p)
    PROVE  CoveragesInv'
<1>1. PICK c \in Coverage : c = request[p].id
  BY DEF CommitCatalogue, CoveragesInv, UnusedRequest
<1>2. /\ catalogue' = IF Holding(c) = {} THEN [catalogue EXCEPT ![c] = "absent"] ELSE catalogue
      /\ Pending(p, "coverages") /\ Commit(p, "coverages")
      /\ UNCHANGED rows /\ UNCHANGED lastRow
  BY <1>1 DEF CommitCatalogue
<1>3. /\ \A q \in Proc : Pending(q, "coverages")' =>
            Pending(q, "coverages") /\ request'[q] = [request[q] EXCEPT !.fresh = FALSE]
      /\ Elsewhere({"rows"})
  <2>1. {"rows"} \in SUBSET Table /\ "coverages" \in Table /\ "coverages" \notin {"rows"}
    BY DEF Table
  <2> QED
    BY <1>2, <2>1, Landed DEF Pending
<1>4. CoveragesTypeOK' /\ AttachedIsInCatalogue' /\ Attached' = Attached
  <2>1. Attached' = Attached
    BY <1>2 DEF Attached
  <2>2. catalogue' \in [Coverage -> {"absent", "active", "archived"}]
    BY <1>2 DEF CoveragesInv, CoveragesTypeOK
  <2>3. \A s \in Attached : catalogue'[rows[s].coverage] # "absent"
    <3> SUFFICES ASSUME NEW s \in Attached PROVE catalogue'[rows[s].coverage] # "absent"
      OBVIOUS
    <3>1. catalogue[rows[s].coverage] # "absent" /\ rows[s].coverage \in Coverage
      BY DEF CoveragesInv, AttachedIsInCatalogue, CoveragesTypeOK, Attached
    <3>2. Holding(c) = {} => rows[s].coverage # c
      BY DEF Holding
    <3> QED
      BY <1>2, <3>1, <3>2 DEF CoveragesInv, CoveragesTypeOK
  <2> QED
    BY <1>2, <2>1, <2>2, <2>3 DEF CoveragesInv, CoveragesTypeOK, AttachedIsInCatalogue
<1>5. CoverageOnce'
  BY <1>2, <1>3, <1>4 DEF CoveragesInv, CoverageOnce, Elsewhere
<1>6. \A r : RowRequest(r) => RowRequest(r)'
  BY <1>2 DEF RowRequest, NewRowRequest, OldRowRequest, ReorderRequest, Reorders, Holding, Attached
<1>7. \A q \in Proc : Pending(q, "rows")' => RowRequest(request[q])'
  BY <1>3, <1>6 DEF CoveragesInv, Elsewhere, Pending
<1>8. \A q \in Proc : Pending(q, "coverages")' => UnusedRequest(request[q])'
  <2> SUFFICES ASSUME NEW q \in Proc, Pending(q, "coverages")' PROVE UnusedRequest(request[q])'
    OBVIOUS
  <2>1. PICK s : s = request[q]
    OBVIOUS
  <2>2. UnusedRequest(s) /\ request'[q] = [s EXCEPT !.fresh = FALSE]
    BY <1>3, <2>1 DEF CoveragesInv
  <2>3. request'[q].fresh = FALSE
    BY <2>2 DEF UnusedRequest
  <2>4. request'[q] \in [table : {"coverages"}, op : {"delete"}, id : Coverage, fresh : BOOLEAN]
    BY <2>2 DEF UnusedRequest
  <2> QED
    BY <2>3, <2>4 DEF UnusedRequest
<1>9. \A s \in Attached' : s <= lastRow'
  BY <1>2, <1>4 DEF CoveragesInv
<1> QED
  BY <1>4, <1>5, <1>7, <1>8, <1>9 DEF CoveragesInv

\* Every step on coverages keeps the invariant and concerns their tables.
LEMMA CoveragesStep ==
    ASSUME RequestsOK, CoveragesInv, NEW p \in Proc, CoveragesNext(p)
    PROVE  CoveragesInv' /\ OrderTies /\ RequestsOK' /\ \A T \in SUBSET Table :
              T \cap {"coverages", "rows"} = {} => Elsewhere(T)
<1>1. ASSUME NEW c \in Coverage, StoreCoverage(c) \/ ArchiveCoverage(c) \/ RestoreCoverage(c)
      PROVE  CoveragesInv' /\ RequestsOK' /\ \A T \in SUBSET Table : Elsewhere(T)
  <2>1. /\ \E st \in {"active", "archived"} : catalogue' = [catalogue EXCEPT ![c] = st]
        /\ UNCHANGED rows /\ UNCHANGED lastRow /\ UNCHANGED request /\ UNCHANGED raced
    BY <1>1 DEF StoreCoverage, ArchiveCoverage, RestoreCoverage
  <2>2. /\ catalogue' \in [Coverage -> {"absent", "active", "archived"}]
        /\ \A d \in Coverage : catalogue[d] # "absent" => catalogue'[d] # "absent"
    BY <2>1 DEF CoveragesInv, CoveragesTypeOK
  <2>3. Attached' = Attached
    BY <2>1 DEF Attached
  <2>4. CoveragesTypeOK' /\ AttachedIsInCatalogue' /\ CoverageOnce'
        /\ \A s \in Attached' : s <= lastRow'
    BY <2>1, <2>2, <2>3
       DEF CoveragesInv, CoveragesTypeOK, AttachedIsInCatalogue, CoverageOnce, Attached
  <2>5. \A r : (RowRequest(r) => RowRequest(r)') /\ (UnusedRequest(r) => UnusedRequest(r)')
    BY <2>1 DEF RowRequest, NewRowRequest, OldRowRequest, ReorderRequest, Reorders, UnusedRequest, Holding,
           Attached
  <2>6. \A q \in Proc : Pending(q, "rows")' => RowRequest(request[q])'
    BY <2>1, <2>5 DEF CoveragesInv, Pending
  <2>7. \A q \in Proc : Pending(q, "coverages")' => UnusedRequest(request[q])'
    BY <2>1, <2>5 DEF CoveragesInv, Pending
  <2>8. CoveragesInv'
    BY <2>4, <2>6, <2>7 DEF CoveragesInv
  <2> QED
    BY <2>1, <2>8 DEF RequestsOK, Elsewhere, Free
<1>2. ASSUME \/ \E c \in Coverage : DestroyCoverage(p, c) \/ StoreRow(p, c)
             \/ \E r \in RowId : DestroyRow(p, r)
             \/ \E order \in Orders : Reorder(p, order)
      PROVE  CoveragesInv' /\ RequestsOK' /\ \A T \in SUBSET Table :
                T \cap {"coverages", "rows"} = {} => Elsewhere(T)
  <2>1. UNCHANGED <<raced, coverageVars>>
    BY <1>2, CoveragesBegun
  <2>2. PICK r : Go(p, r) /\ (RowRequest(r) \/ UnusedRequest(r))
    BY <1>2, CoveragesBegun
  <2>3. r.table \in {"coverages", "rows"} /\ "table" \in DOMAIN r
    BY <2>2 DEF RowRequest, NewRowRequest, OldRowRequest, ReorderRequest, Reorders, UnusedRequest
  <2>4. CoveragesInv'
    BY <2>1, <2>2, CoveragesBegin
  <2>5. r.table \in Table /\ UNCHANGED raced
    BY <2>1, <2>3 DEF Table
  <2> QED
    BY <2>2, <2>3, <2>4, <2>5, Begun
<1>3. ASSUME CommitCatalogue(p) \/ CommitRows(p)
      PROVE  CoveragesInv' /\ RequestsOK' /\ \A T \in SUBSET Table :
                T \cap {"coverages", "rows"} = {} => Elsewhere(T)
  <2>1. CoveragesInv'
    BY <1>3, CatalogueCommitted, RowsCommitted
  <2>2. \E t \in {"coverages", "rows"} : Pending(p, t) /\ Commit(p, t)
    BY <1>3 DEF CommitCatalogue, CommitRows
  <2>3. {"coverages", "rows"} \subseteq Table
    BY DEF Table
  <2> QED
    BY <2>1, <2>2, <2>3, Landed
<1>4. OrderTies
  <2>1. UNCHANGED rows => SameOrder' = SameOrder
    BY DEF SameOrder, Attached
  <2>2. UNCHANGED rows \/ CommitRows(p)
    BY DEF CoveragesNext, StoreCoverage, ArchiveCoverage, RestoreCoverage, DestroyCoverage,
       StoreRow, DestroyRow, Reorder, CommitCatalogue, coverageVars
  <2>3. CommitRows(p) => OrderTies
    BY RowsTied
  <2> QED
    BY <2>1, <2>2, <2>3 DEF OrderTies
<1> QED
  BY <1>1, <1>2, <1>3, <1>4 DEF CoveragesNext

-----------------------------------------------------------------------------
(***************************************************************************)
(* The places of categories and of coverages.                              *)
(***************************************************************************)
CategoryRequest(r) ==
    /\ r \in [table : {"coverage_categories"}, op : {"insert"}, fresh : BOOLEAN,
              row : [status : {"active"}, order : 1 .. lastCategory + 1]]
    /\ r.fresh => \A k \in Categories : categories[k].order < r.row.order

NewItemRequest(r) ==
    /\ r \in [table : {"items"}, op : {"insert"}, fresh : BOOLEAN,
              row : [category : Categories, order : Int]]
    /\ r.fresh => \A c \in InCategory(r.row.category) : places[c].order < r.row.order

Moves(r, c, k, fresh) ==
    r = [table |-> "items", op |-> "update", id |-> {c},
         write |-> [d \in {c} |-> {<<"category", k>>}], fresh |-> fresh]

MoveRequest(r) ==
    \E c \in CatalogueItem, k \in Categories, fresh \in BOOLEAN : Moves(r, c, k, fresh)

\* What was named but not shifted has its place already, if it is still there.
Arranges(r, L, S, order, fresh) ==
    /\ r = [table |-> "items", op |-> "update", id |-> S,
            write |-> [c \in L |-> {<<"order", order[c]>>}], fresh |-> fresh]
    /\ fresh => \A c \in L \ S : c \in Placed => places[c].order = order[c]

ArrangeRequest(r) ==
    \E L \in SUBSET CatalogueItem : \E S \in SUBSET L :
      \E order \in [L -> Int] : \E fresh \in BOOLEAN : Arranges(r, L, S, order, fresh)

PlaceRequest(r) == NewItemRequest(r) \/ MoveRequest(r) \/ ArrangeRequest(r)

CategoriesInv ==
    /\ CategoriesTypeOK
    /\ \A c \in Placed : places[c] \in [category : Categories, order : Int]
    /\ DOMAIN categories = CategoryId /\ DOMAIN places = CatalogueItem
    /\ \A k \in Categories : k <= lastCategory /\ categories[k].order <= lastCategory
    /\ CategoryPlacesDiffer
    /\ \A p \in Proc : Pending(p, "coverage_categories") => CategoryRequest(request[p])
    /\ \A p \in Proc : Pending(p, "items") => PlaceRequest(request[p])

\* The number after a finite set of orders is greater than each.
LEMMA AfterAll ==
    ASSUME NEW N \in Nat, NEW S \in SUBSET (1 .. N), NEW f, \A s \in S : f[s] \in Int
    PROVE  /\ After({f[x] : x \in S}) \in Int
           /\ \A s \in S : f[s] < After({f[x] : x \in S})
           /\ After({f[x] : x \in S}) = 1 \/ \E s \in S : After({f[x] : x \in S}) = 1 + f[s]
<1> DEFINE orders == {f[s] : s \in S}
<1>1. CASE S = {}
  <2>1. orders = {}
    BY <1>1
  <2> QED
    BY <1>1, <2>1 DEF After
<1>2. CASE S # {}
  <2>1. \E n \in orders : \A m \in orders : m <= n
    BY <1>2, Largest
  <2>2. orders # {}
    BY <1>2
  <2>3. PICK n \in orders : After(orders) = 1 + n /\ \A m \in orders : m <= n
    <3> HIDE DEF orders
    <3> QED
      BY <2>1, <2>2 DEF After
  <2>4. n \in Int
    OBVIOUS
  <2>5. \A s \in S : f[s] <= n
    BY <2>3
  <2>6. After(orders) = 1 + n
    BY <2>3
  <2>7. \E s \in S : n = f[s]
    OBVIOUS
  <2> HIDE DEF orders
  <2>8. /\ After(orders) \in Int /\ \A s \in S : f[s] < After(orders)
        /\ \E s \in S : After(orders) = 1 + f[s]
    BY <2>4, <2>5, <2>6, <2>7
  <2> QED
    BY <2>8 DEF orders
<1> QED
  BY <1>1, <1>2

\* Coverages that are there may be removed, categories may be added: what a
\* request decided stays as good.
LEMMA PlacesShrink ==
    ASSUME NEW r, PlaceRequest(r), Categories \subseteq Categories', Placed' \subseteq Placed,
           \A c \in Placed' : places'[c] = places[c]
    PROVE  PlaceRequest(r)'
<1>1. \A k : InCategory(k)' \subseteq InCategory(k)
  BY DEF InCategory
<1>2. CASE NewItemRequest(r)
  <2>1. r \in [table : {"items"}, op : {"insert"}, fresh : BOOLEAN,
               row : [category : Categories', order : Int]]
    BY <1>2 DEF NewItemRequest
  <2>2. r.fresh => \A c \in InCategory(r.row.category)' : places'[c].order < r.row.order
    BY <1>1, <1>2 DEF NewItemRequest, InCategory
  <2> QED
    BY <2>1, <2>2 DEF PlaceRequest, NewItemRequest
<1>3. CASE MoveRequest(r)
  <2>1. MoveRequest(r)'
    BY <1>3 DEF MoveRequest, Moves
  <2> QED
    BY <2>1 DEF PlaceRequest
<1>4. CASE ArrangeRequest(r)
  <2>1. ASSUME NEW L, NEW S, NEW order, NEW fresh, Arranges(r, L, S, order, fresh)
        PROVE  Arranges(r, L, S, order, fresh)'
    BY <2>1 DEF Arranges
  <2>2. ArrangeRequest(r)'
    BY <1>4, <2>1 DEF ArrangeRequest
  <2> QED
    BY <2>2 DEF PlaceRequest
<1> QED
  BY <1>2, <1>3, <1>4 DEF PlaceRequest

\* A stale request keeps its shape, whatever happened to the rows.
LEMMA PlaceStale ==
    ASSUME NEW r, PlaceRequest(r), Categories \subseteq Categories'
    PROVE  PlaceRequest([r EXCEPT !.fresh = FALSE])'
<1> DEFINE s == [r EXCEPT !.fresh = FALSE]
<1>1. CASE NewItemRequest(r)
  <2>1. s \in [table : {"items"}, op : {"insert"}, fresh : {FALSE},
               row : [category : Categories', order : Int]]
    BY <1>1 DEF NewItemRequest
  <2> QED
    BY <2>1 DEF PlaceRequest, NewItemRequest
<1>2. CASE MoveRequest(r)
  <2>1. PICK c \in CatalogueItem, k \in Categories, fresh \in BOOLEAN : Moves(r, c, k, fresh)
    BY <1>2 DEF MoveRequest
  <2>2. Moves(s, c, k, FALSE)
    BY <2>1, StaleUpdate DEF Moves
  <2> HIDE DEF s
  <2>3. MoveRequest(s)'
    BY <2>2 DEF MoveRequest, Moves
  <2> QED
    BY <2>3 DEF PlaceRequest, s
<1>3. CASE ArrangeRequest(r)
  <2>1. PICK L \in SUBSET CatalogueItem : \E S \in SUBSET L : \E order \in [L -> Int] :
          \E fresh \in BOOLEAN : Arranges(r, L, S, order, fresh)
    BY <1>3 DEF ArrangeRequest
  <2>2. PICK S \in SUBSET L : \E order \in [L -> Int] :
          \E fresh \in BOOLEAN : Arranges(r, L, S, order, fresh)
    BY <2>1
  <2>3. PICK order \in [L -> Int] : \E fresh \in BOOLEAN : Arranges(r, L, S, order, fresh)
    BY <2>2
  <2>4. PICK fresh \in BOOLEAN : Arranges(r, L, S, order, fresh)
    BY <2>3
  <2>5. s = [table |-> "items", op |-> "update", id |-> S,
             write |-> [c \in L |-> {<<"order", order[c]>>}], fresh |-> FALSE]
    <3> DEFINE w == [c \in L |-> {<<"order", order[c]>>}]
    <3>1. r = [table |-> "items", op |-> "update", id |-> S, write |-> w, fresh |-> fresh]
      BY <2>4 DEF Arranges
    <3> HIDE DEF w
    <3>2. s = [table |-> "items", op |-> "update", id |-> S, write |-> w, fresh |-> FALSE]
      BY <3>1, StaleUpdate
    <3> QED
      BY <3>2 DEF w
  <2> HIDE DEF s
  <2>6. Arranges(s, L, S, order, FALSE)'
    BY <2>5 DEF Arranges
  <2>7. ArrangeRequest(s)'
    BY <2>6 DEF ArrangeRequest
  <2> QED
    BY <2>7 DEF PlaceRequest, s
<1> QED
  BY <1>1, <1>2, <1>3 DEF PlaceRequest

\* Which table a request of each shape writes.
LEMMA ItemTables ==
    ASSUME NEW r
    PROVE  /\ CategoryRequest(r) => r.table = "coverage_categories" /\ "table" \in DOMAIN r
           /\ PlaceRequest(r) => r.table = "items" /\ "table" \in DOMAIN r
<1>1. CategoryRequest(r) => r.table = "coverage_categories" /\ "table" \in DOMAIN r
  BY DEF CategoryRequest
<1>2. NewItemRequest(r) => r.table = "items" /\ "table" \in DOMAIN r
  BY DEF NewItemRequest
<1>3. MoveRequest(r) => r.table = "items" /\ "table" \in DOMAIN r
  <2>1. \A c, k, fresh : Moves(r, c, k, fresh) => r.table = "items" /\ "table" \in DOMAIN r
    BY DEF Moves
  <2> QED
    BY <2>1 DEF MoveRequest
<1>4. ArrangeRequest(r) => r.table = "items" /\ "table" \in DOMAIN r
  <2>1. \A L, S, order, fresh : Arranges(r, L, S, order, fresh) =>
          r.table = "items" /\ "table" \in DOMAIN r
    BY DEF Arranges
  <2> QED
    BY <2>1 DEF ArrangeRequest
<1> QED
  BY <1>1, <1>2, <1>3, <1>4 DEF PlaceRequest

\* A step that concerns other tables keeps the invariant.
LEMMA CategoriesElsewhere ==
    ASSUME CategoriesInv, Elsewhere({"coverage_categories", "items"}), UNCHANGED categoryVars
    PROVE  CategoriesInv'
<1>1. /\ UNCHANGED categories /\ UNCHANGED lastCategory /\ UNCHANGED places
      /\ Categories' = Categories /\ Placed' = Placed
  BY DEF categoryVars, Categories, Placed
<1>2. \A r : (CategoryRequest(r) => CategoryRequest(r)') /\ (PlaceRequest(r) => PlaceRequest(r)')
  BY <1>1, PlacesShrink DEF CategoryRequest
<1>3. CategoriesTypeOK' /\ CategoryPlacesDiffer'
  BY <1>1 DEF CategoriesInv, CategoriesTypeOK, CategoryPlacesDiffer, Elsewhere
<1>4. \A p \in Proc : Pending(p, "coverage_categories")' => CategoryRequest(request[p])'
  BY <1>2 DEF CategoriesInv, Elsewhere, Pending
<1>5. \A p \in Proc : Pending(p, "items")' => PlaceRequest(request[p])'
  BY <1>2 DEF CategoriesInv, Elsewhere, Pending
<1> QED
  BY <1>1, <1>3, <1>4, <1>5 DEF CategoriesInv

\* So does the begin of a request of the right shape.
LEMMA CategoriesBegin ==
    ASSUME CategoriesInv, RequestsOK, NEW p \in Proc, NEW r, Go(p, r),
           CategoryRequest(r) \/ PlaceRequest(r), UNCHANGED <<raced, categoryVars>>
    PROVE  CategoriesInv'
<1>1. /\ UNCHANGED categories /\ UNCHANGED lastCategory /\ UNCHANGED places
      /\ Categories' = Categories /\ Placed' = Placed /\ UNCHANGED raced
  BY DEF categoryVars, Categories, Placed
<1>2. \A s : (CategoryRequest(s) => CategoryRequest(s)') /\ (PlaceRequest(s) => PlaceRequest(s)')
  BY <1>1, PlacesShrink DEF CategoryRequest
<1>3. CategoriesTypeOK' /\ CategoryPlacesDiffer'
  BY <1>1 DEF CategoriesInv, CategoriesTypeOK, CategoryPlacesDiffer
<1>4. \A q \in Proc : request'[q] = IF q = p THEN r ELSE request[q]
  BY DEF RequestsOK, Go
<1>5. /\ r.table = "coverage_categories" => CategoryRequest(r)
      /\ r.table = "items" => PlaceRequest(r)
  BY ItemTables
<1>6. \A q \in Proc : Pending(q, "coverage_categories")' => CategoryRequest(request[q])'
  BY <1>2, <1>4, <1>5 DEF CategoriesInv, Pending
<1>7. \A q \in Proc : Pending(q, "items")' => PlaceRequest(request[q])'
  BY <1>2, <1>4, <1>5 DEF CategoriesInv, Pending
<1> QED
  BY <1>1, <1>3, <1>6, <1>7 DEF CategoriesInv

\* A new category goes behind all the others.
LEMMA NextCategory ==
    ASSUME CategoriesInv
    PROVE  /\ lastCategory \in Nat
           /\ After({categories[k].order : k \in Categories}) \in 1 .. lastCategory + 1
           /\ \A k \in Categories :
                 categories[k].order < After({categories[l].order : l \in Categories})
<1> USE CategoryBoundAssumption
<1> DEFINE f == [k \in Categories |-> categories[k].order]
<1>1. /\ lastCategory \in Nat /\ Categories \in SUBSET (1 .. MaxCategories)
      /\ \A k \in Categories : categories[k].order \in 1 .. lastCategory
  BY DEF CategoriesInv, CategoriesTypeOK, Categories, CategoryId
<1>2. {f[k] : k \in Categories} = {categories[k].order : k \in Categories}
      /\ \A k \in Categories : f[k] = categories[k].order
  OBVIOUS
<1> HIDE DEF f
<1>3. \A k \in Categories : f[k] \in Int
  BY <1>1, <1>2
<1>4. PICK a : a = After({f[k] : k \in Categories})
  OBVIOUS
<1>5. /\ a \in Int /\ \A k \in Categories : f[k] < a
      /\ a = 1 \/ \E k \in Categories : a = 1 + f[k]
  BY <1>1, <1>3, <1>4, AfterAll
<1>6. a \in 1 .. lastCategory + 1
  <2>1. CASE a = 1
    BY <1>1, <2>1
  <2>2. CASE \E k \in Categories : a = 1 + f[k]
    BY <1>1, <1>2, <2>2
  <2> QED
    BY <1>5, <2>1, <2>2
<1> QED
  BY <1>1, <1>2, <1>4, <1>5, <1>6

\* The coverages of a category are finitely many, with integer orders.
LEMMA InCategoryFinite ==
    ASSUME CategoriesInv, NEW k
    PROVE  /\ InCategory(k) \in SUBSET (1 .. MaxItems)
           /\ \A c \in InCategory(k) : /\ places[c] \in [category : Categories, order : Int]
                                       /\ k \in Categories /\ c \in CatalogueItem /\ c \in Placed
<1>1. InCategory(k) \in SUBSET (1 .. MaxItems)
  BY DEF InCategory, Placed, CatalogueItem
<1>2. \A c \in InCategory(k) : /\ places[c] \in [category : Categories, order : Int]
                               /\ k \in Categories /\ c \in CatalogueItem /\ c \in Placed
  BY DEF CategoriesInv, InCategory, Placed
<1> QED
  BY <1>1, <1>2

\* A new coverage goes behind all those of its category.
LEMMA NextPlace ==
    ASSUME CategoriesInv, NEW k
    PROVE  /\ After({places[c].order : c \in InCategory(k)}) \in Int
           /\ \A c \in InCategory(k) :
                 places[c].order < After({places[d].order : d \in InCategory(k)})
<1> USE CategoryBoundAssumption
<1> DEFINE f == [c \in InCategory(k) |-> places[c].order]
<1>1. {f[c] : c \in InCategory(k)} = {places[c].order : c \in InCategory(k)}
      /\ \A c \in InCategory(k) : f[c] = places[c].order
  OBVIOUS
<1> HIDE DEF f
<1>2. \A c \in InCategory(k) : f[c] \in Int
  BY <1>1, InCategoryFinite
<1>3. PICK a : a = After({f[c] : c \in InCategory(k)})
  OBVIOUS
<1>4. a \in Int /\ \A c \in InCategory(k) : f[c] < a
  <2>1. PICK S \in SUBSET (1 .. MaxItems) : S = InCategory(k)
    BY InCategoryFinite
  <2>2. (\A c \in S : f[c] \in Int) /\ a = After({f[c] : c \in S})
    BY <1>2, <1>3, <2>1
  <2>3. a \in Int /\ \A c \in S : f[c] < a
    BY <2>2, AfterAll
  <2> QED
    BY <2>1, <2>3
<1> QED
  BY <1>1, <1>3, <1>4

\* Every operation on places begins a request of the right shape.
LEMMA CategoriesBegun ==
    ASSUME CategoriesInv, RequestsOK, NEW p \in Proc,
           \/ StoreCategory(p)
           \/ \E k \in CategoryId : StoreCatalogueItem(p, k)
           \/ \E c \in CatalogueItem, k \in CategoryId : MoveCatalogueItem(p, c, k)
           \/ \E k \in CategoryId : \E order \in Arrangements(k) : ReorderCatalogue(p, order)
    PROVE  /\ UNCHANGED <<raced, categoryVars>>
           /\ \E r : Go(p, r) /\ (CategoryRequest(r) \/ PlaceRequest(r))
<1>1. ASSUME StoreCategory(p)
      PROVE  \E r : Go(p, r) /\ CategoryRequest(r)
  <2> DEFINE a == After({categories[k].order : k \in Categories})
             r == Insert("coverage_categories", [status |-> "active", order |-> a])
  <2>1. Go(p, r)
    BY <1>1 DEF StoreCategory
  <2>2. a \in 1 .. lastCategory + 1 /\ \A k \in Categories : categories[k].order < a
    BY NextCategory
  <2> HIDE DEF a
  <2>3. CategoryRequest(r)
    BY <2>2 DEF CategoryRequest, Insert
  <2> QED
    BY <2>1, <2>3
<1>2. ASSUME NEW k \in CategoryId, StoreCatalogueItem(p, k)
      PROVE  \E r : Go(p, r) /\ NewItemRequest(r)
  <2> DEFINE a == After({places[c].order : c \in InCategory(k)})
             r == Insert("items", [category |-> k, order |-> a])
  <2>1. Go(p, r) /\ k \in Categories
    BY <1>2 DEF StoreCatalogueItem
  <2>2. a \in Int /\ \A c \in InCategory(k) : places[c].order < a
    BY NextPlace
  <2> HIDE DEF a
  <2>3. NewItemRequest(r)
    BY <2>1, <2>2 DEF NewItemRequest, Insert
  <2> QED
    BY <2>1, <2>3
<1>3. ASSUME NEW c \in CatalogueItem, NEW k \in CategoryId, MoveCatalogueItem(p, c, k)
      PROVE  \E r : Go(p, r) /\ MoveRequest(r)
  <2> DEFINE r == Update("items", {c}, [d \in {c} |-> {<<"category", k>>}])
  <2>1. Go(p, r) /\ k \in Categories \ {places[c].category}
    BY <1>3 DEF MoveCatalogueItem
  <2>2. Moves(r, c, k, TRUE)
    BY DEF Moves, Update
  <2> HIDE DEF r
  <2>3. MoveRequest(r)
    BY <2>1, <2>2 DEF MoveRequest
  <2> QED
    BY <2>1, <2>3
<1>4. ASSUME NEW k \in CategoryId, NEW order \in Arrangements(k), ReorderCatalogue(p, order)
      PROVE  \E r : Go(p, r) /\ ArrangeRequest(r)
  <2> DEFINE S == {c \in DOMAIN order : places[c].order # order[c]}
             r == Update("items", S, [c \in DOMAIN order |-> {<<"order", order[c]>>}])
  <2>1. Go(p, r)
    BY <1>4 DEF ReorderCatalogue
  <2>2. PICK L \in SUBSET InCategory(k) : order \in [L -> SentOrder]
    BY DEF Arrangements
  <2>3. L \in SUBSET CatalogueItem /\ S \in SUBSET L /\ order \in [L -> Int]
    BY <2>2, InCategoryFinite, CategoryBoundAssumption
  <2>4. Arranges(r, L, S, order, TRUE)
    <3>1. \A c \in L \ S : places[c].order = order[c]
      BY <2>2
    <3>2. DOMAIN order = L
      BY <2>2
    <3> HIDE DEF S
    <3>3. r = [table |-> "items", op |-> "update", id |-> S,
               write |-> [c \in L |-> {<<"order", order[c]>>}], fresh |-> TRUE]
      BY <3>2 DEF Update
    <3> HIDE DEF r
    <3> QED
      BY <3>1, <3>3 DEF Arranges
  <2> HIDE DEF S, r
  <2>5. ArrangeRequest(r)
    BY <2>3, <2>4 DEF ArrangeRequest
  <2> QED
    BY <2>1, <2>5
<1>5. UNCHANGED <<raced, categoryVars>>
  BY DEF StoreCategory, StoreCatalogueItem, MoveCatalogueItem, ReorderCatalogue, categoryVars
<1> QED
  BY <1>1, <1>2, <1>3, <1>4, <1>5 DEF PlaceRequest

\* The insert of a category keeps the invariant.
LEMMA CategoryCommitted ==
    ASSUME RequestsOK, CategoriesInv, NEW p \in Proc, CommitCategory(p)
    PROVE  CategoriesInv'
<1> USE CategoryBoundAssumption
<1>1. PICK t : t = request[p]
  OBVIOUS
<1>2. /\ CategoryRequest(t) /\ Pending(p, "coverage_categories")
      /\ Commit(p, "coverage_categories") /\ UNCHANGED places
      /\ lastCategory < MaxCategories /\ lastCategory' = lastCategory + 1
      /\ categories' = [categories EXCEPT ![lastCategory + 1] = t.row]
  BY <1>1 DEF CommitCategory, CategoriesInv
<1>3. /\ lastCategory \in 0 .. MaxCategories /\ DOMAIN categories = CategoryId
      /\ \A k \in Categories : k \in 1 .. lastCategory /\ categories[k].order \in 1 .. lastCategory
  BY DEF CategoriesInv, CategoriesTypeOK, Categories, CategoryId
<1>4. /\ \A q \in Proc : Pending(q, "coverage_categories")' =>
            /\ Pending(q, "coverage_categories")
            /\ request'[q] = [request[q] EXCEPT !.fresh = FALSE]
      /\ \A q \in Proc : Pending(q, "items")' => request'[q] = request[q]
      /\ "coverage_categories" \notin raced' => "coverage_categories" \notin raced /\ t.fresh
      /\ "items" \notin raced' => "items" \notin raced
  <2>1. {"items"} \in SUBSET Table /\ "coverage_categories" \in Table
        /\ "coverage_categories" \notin {"items"}
    BY DEF Table
  <2>2. Elsewhere({"items"})
    BY <1>2, <2>1, Landed
  <2> QED
    BY <1>1, <1>2, <2>1, <2>2, Landed DEF Pending, Elsewhere
<1>5. /\ t.row \in [status : {"active"}, order : 1 .. lastCategory + 1] /\ t.row # NoCategory
      /\ t.fresh => \A k \in Categories : categories[k].order < t.row.order
  BY <1>2 DEF CategoryRequest, NoCategory
<1>6. lastCategory + 1 \in CategoryId /\ lastCategory + 1 \notin Categories
  BY <1>2, <1>3 DEF CategoryId
<1>7. \A k \in CategoryId : categories'[k] = IF k = lastCategory + 1 THEN t.row ELSE categories[k]
  BY <1>2, <1>3, <1>6
<1>8. Categories' = Categories \cup {lastCategory + 1} /\ Placed' = Placed
  BY <1>2, <1>5, <1>6, <1>7 DEF Categories, Placed
<1>9. DOMAIN categories' = CategoryId /\ lastCategory' \in 0 .. MaxCategories
  BY <1>2, <1>3
<1>10. \A k \in Categories' : k <= lastCategory' /\ categories'[k].order <= lastCategory'
  BY <1>2, <1>3, <1>5, <1>6, <1>7, <1>8 DEF Categories
<1>11. CategoriesTypeOK'
  <2>1. \A k \in Categories' : categories'[k] \in
          [status : {"active", "archived"}, order : 1 .. MaxCategories]
    <3>1. t.row \in [status : {"active", "archived"}, order : 1 .. MaxCategories]
      BY <1>2, <1>3, <1>5
    <3>2. \A k \in Categories : categories[k] \in
            [status : {"active", "archived"}, order : 1 .. MaxCategories]
      BY DEF CategoriesInv, CategoriesTypeOK
    <3> QED
      BY <1>6, <1>7, <1>8, <3>1, <3>2 DEF Categories
  <2>2. \A c \in Placed' : places'[c].category \in Categories' /\ places'[c].order \in Int
    BY <1>2, <1>8 DEF CategoriesInv, CategoriesTypeOK
  <2> QED
    BY <1>2, <1>9, <2>1, <2>2 DEF CategoriesInv, CategoriesTypeOK
<1>12. \A c \in Placed' : places'[c] \in [category : Categories', order : Int]
  BY <1>2, <1>8 DEF CategoriesInv
<1>13. CategoryPlacesDiffer'
  <2> SUFFICES ASSUME "coverage_categories" \notin raced', NEW k \in Categories',
                      NEW l \in Categories', k # l
               PROVE  categories'[k].order # categories'[l].order
    BY DEF CategoryPlacesDiffer
  <2>1. \A i \in Categories : categories[i].order # t.row.order
    BY <1>3, <1>4, <1>5
  <2>2. \A i, j \in Categories : i # j => categories[i].order # categories[j].order
    BY <1>4 DEF CategoriesInv, CategoryPlacesDiffer
  <2> QED
    BY <1>6, <1>7, <1>8, <2>1, <2>2 DEF Categories
<1>15. \A q \in Proc : Pending(q, "coverage_categories")' => CategoryRequest(request[q])'
  <2> SUFFICES ASSUME NEW q \in Proc, Pending(q, "coverage_categories")'
               PROVE  CategoryRequest(request[q])'
    OBVIOUS
  <2>1. PICK s : s = request[q]
    OBVIOUS
  <2>2. CategoryRequest(s) /\ request'[q] = [s EXCEPT !.fresh = FALSE]
    BY <1>4, <2>1 DEF CategoriesInv
  <2>3. s.row.order \in 1 .. lastCategory' + 1
    BY <1>2, <1>3, <2>2 DEF CategoryRequest
  <2>4. request'[q] \in [table : {"coverage_categories"}, op : {"insert"}, fresh : {FALSE},
                         row : [status : {"active"}, order : 1 .. lastCategory' + 1]]
    BY <2>2, <2>3 DEF CategoryRequest
  <2> QED
    BY <2>4 DEF CategoryRequest
<1>16. \A q \in Proc : Pending(q, "items")' => PlaceRequest(request[q])'
  BY <1>2, <1>4, <1>8, PlacesShrink DEF CategoriesInv, Pending
<1>17. DOMAIN places' = CatalogueItem
  BY <1>2 DEF CategoriesInv
<1> QED
  BY <1>9, <1>10, <1>11, <1>12, <1>13, <1>15, <1>16, <1>17 DEF CategoriesInv

\* So do archive and restore: an archived category keeps its place.
LEMMA CategoryShelved ==
    ASSUME RequestsOK, CategoriesInv, NEW k \in CategoryId, ArchiveCategory(k) \/ RestoreCategory(k)
    PROVE  CategoriesInv'
<1>1. /\ k \in Categories /\ UNCHANGED request /\ UNCHANGED raced /\ UNCHANGED lastCategory
      /\ UNCHANGED places
      /\ \E status \in {"active", "archived"} :
            categories' = [categories EXCEPT ![k].status = status]
  BY DEF ArchiveCategory, RestoreCategory
<1>2. PICK status \in {"active", "archived"} :
        categories' = [categories EXCEPT ![k].status = status]
  BY <1>1
<1>3. \A l \in CategoryId : categories'[l] = IF l = k THEN [categories[k] EXCEPT !.status = status]
                                                    ELSE categories[l]
  BY <1>2 DEF CategoriesInv
<1>4. \A l \in Categories : categories[l] \in
        [status : {"active", "archived"}, order : 1 .. MaxCategories]
  BY DEF CategoriesInv, CategoriesTypeOK
<1>5. \A l \in Categories : /\ categories'[l].order = categories[l].order
                            /\ categories'[l] \in
                                 [status : {"active", "archived"}, order : 1 .. MaxCategories]
                            /\ categories'[l] # NoCategory
  <2>1. [categories[k] EXCEPT !.status = status] \in
          [status : {"active", "archived"}, order : 1 .. MaxCategories]
    BY <1>1, <1>4
  <2>2. [categories[k] EXCEPT !.status = status].order = categories[k].order
        /\ [categories[k] EXCEPT !.status = status] # NoCategory
    BY <1>1, <1>4 DEF NoCategory
  <2> QED
    BY <1>3, <1>4, <2>1, <2>2 DEF Categories
<1>6. Categories' = Categories /\ Placed' = Placed
  BY <1>1, <1>3, <1>5 DEF Categories, Placed
<1>7. /\ DOMAIN categories' = CategoryId /\ DOMAIN places' = CatalogueItem
      /\ \A l \in Categories' : l <= lastCategory' /\ categories'[l].order <= lastCategory'
      /\ \A c \in Placed' : places'[c] \in [category : Categories', order : Int]
  BY <1>1, <1>2, <1>5, <1>6 DEF CategoriesInv
<1>11. CategoriesTypeOK'
  BY <1>1, <1>5, <1>6 DEF CategoriesInv, CategoriesTypeOK
<1>12. CategoryPlacesDiffer'
  BY <1>1, <1>5, <1>6 DEF CategoriesInv, CategoryPlacesDiffer
<1>8. \A r : (CategoryRequest(r) => CategoryRequest(r)') /\ (PlaceRequest(r) => PlaceRequest(r)')
  BY <1>1, <1>5, <1>6, PlacesShrink DEF CategoryRequest
<1>9. \A q \in Proc : Pending(q, "coverage_categories")' => CategoryRequest(request[q])'
  BY <1>1, <1>8 DEF CategoriesInv, Pending
<1>10. \A q \in Proc : Pending(q, "items")' => PlaceRequest(request[q])'
  BY <1>1, <1>8 DEF CategoriesInv, Pending
<1> QED
  BY <1>7, <1>9, <1>10, <1>11, <1>12 DEF CategoriesInv

\* So does the removal of a coverage.
LEMMA ItemDestroyed ==
    ASSUME RequestsOK, CategoriesInv, NEW d \in CatalogueItem, DestroyCatalogueItem(d)
    PROVE  CategoriesInv'
<1>1. /\ UNCHANGED request /\ UNCHANGED raced /\ UNCHANGED lastCategory
      /\ UNCHANGED categories /\ Categories' = Categories
      /\ places' = [places EXCEPT ![d] = Gone] /\ DOMAIN places = CatalogueItem
  BY DEF DestroyCatalogueItem, CategoriesInv, Categories
<1>2. Placed' \subseteq Placed /\ \A c \in Placed' : places'[c] = places[c]
  BY <1>1 DEF Placed
<1>3. /\ DOMAIN categories' = CategoryId /\ DOMAIN places' = CatalogueItem
      /\ \A l \in Categories' : l <= lastCategory' /\ categories'[l].order <= lastCategory'
      /\ \A c \in Placed' : places'[c] \in [category : Categories', order : Int]
  BY <1>1, <1>2 DEF CategoriesInv
<1>4. CategoriesTypeOK'
  BY <1>1, <1>2 DEF CategoriesInv, CategoriesTypeOK
<1>5. CategoryPlacesDiffer'
  BY <1>1, <1>2 DEF CategoriesInv, CategoryPlacesDiffer
<1>6. \A r : (CategoryRequest(r) => CategoryRequest(r)') /\ (PlaceRequest(r) => PlaceRequest(r)')
  BY <1>1, <1>2, PlacesShrink DEF CategoryRequest
<1>7. \A q \in Proc : Pending(q, "coverage_categories")' => CategoryRequest(request[q])'
  BY <1>1, <1>6 DEF CategoriesInv, Pending
<1>8. \A q \in Proc : Pending(q, "items")' => PlaceRequest(request[q])'
  BY <1>1, <1>6 DEF CategoriesInv, Pending
<1> QED
  BY <1>3, <1>4, <1>5, <1>7, <1>8 DEF CategoriesInv

\* One column of a place is written.
LEMMA ColumnWritten ==
    ASSUME NEW row, DOMAIN row = {"category", "order"},
           NEW column \in {"category", "order"}, NEW value
    PROVE  Merge({<<column, value>>}, row) =
             [f \in {"category", "order"} |-> IF f = column THEN value ELSE row[f]]
<1>1. \A c : {w \in {<<column, value>>} : w[1] = c}
              = IF c = column THEN {<<column, value>>} ELSE {}
  OBVIOUS
<1>2. {pair[2] : pair \in {<<column, value>>}} = {value} /\ {pair[2] : pair \in {}} = {}
  OBVIOUS
<1>3. Written({<<column, value>>}, column) = {pair[2] : pair \in {<<column, value>>}}
  BY <1>1 DEF Written
<1>4. \A other \in {"category", "order"} \ {column} :
        Written({<<column, value>>}, other) = {pair[2] : pair \in {}}
  BY <1>1 DEF Written
<1>5. (CHOOSE v \in {value} : TRUE) = value
  OBVIOUS
<1>6. \A f \in {"category", "order"} :
        (IF Written({<<column, value>>}, f) = {} THEN row[f]
         ELSE CHOOSE v \in Written({<<column, value>>}, f) : TRUE)
          = IF f = column THEN value ELSE row[f]
  BY <1>2, <1>3, <1>4, <1>5
<1> QED
  BY <1>6 DEF Merge

\* A write changes a category or an order, and leaves the other.
LEMMA PlaceWritten ==
    ASSUME NEW K, NEW row \in [category : K, order : Int]
    PROVE  /\ \A k \in K : /\ Merge({<<"category", k>>}, row) \in [category : K, order : Int]
                           /\ Merge({<<"category", k>>}, row).category = k
                           /\ Merge({<<"category", k>>}, row).order = row.order
           /\ \A n \in Int :
                 /\ Merge({<<"order", n>>}, row) \in [category : K, order : Int]
                 /\ Merge({<<"order", n>>}, row).category = row.category
                 /\ Merge({<<"order", n>>}, row).order = n
<1>1. DOMAIN row = {"category", "order"}
  OBVIOUS
<1>2. \A k : Merge({<<"category", k>>}, row) =
               [f \in {"category", "order"} |-> IF f = "category" THEN k ELSE row[f]]
  BY <1>1, ColumnWritten
<1>3. \A n : Merge({<<"order", n>>}, row) =
               [f \in {"category", "order"} |-> IF f = "order" THEN n ELSE row[f]]
  BY <1>1, ColumnWritten
<1>4. ASSUME NEW k \in K
      PROVE  /\ Merge({<<"category", k>>}, row) \in [category : K, order : Int]
             /\ Merge({<<"category", k>>}, row).category = k
             /\ Merge({<<"category", k>>}, row).order = row.order
  <2>1. Merge({<<"category", k>>}, row) = [category |-> k, order |-> row.order]
    BY <1>2
  <2> QED
    BY <2>1
<1>5. ASSUME NEW n \in Int
      PROVE  /\ Merge({<<"order", n>>}, row) \in [category : K, order : Int]
             /\ Merge({<<"order", n>>}, row).category = row.category
             /\ Merge({<<"order", n>>}, row).order = n
  <2>1. Merge({<<"order", n>>}, row) = [category |-> row.category, order |-> n]
    BY <1>3
  <2> QED
    BY <2>1
<1> QED
  BY <1>4, <1>5

\* What a commit makes of the places.
LEMMA PlacesWritten ==
    ASSUME CategoriesInv, NEW p \in Proc, CommitPlaces(p),
           NEW t, t = request[p], PlaceRequest(t)
    PROVE  /\ DOMAIN places' = CatalogueItem
           /\ \A c \in Placed' : places'[c] \in [category : Categories, order : Int]
           /\ t.fresh => \A a, b \in Placed' :
                 a # b /\ places'[a] = places'[b] =>
                    \/ a \in Placed /\ b \in Placed /\ places[a] = places[b]
                    \/ t.op = "update" /\ {a, b} \cap DOMAIN t.write # {} /\ ~Parts(t, a, b)
<1> DEFINE Place == [category : Categories, order : Int]
           Owed(a, b) ==
              \/ a \in Placed /\ b \in Placed /\ places[a] = places[b]
              \/ t.op = "update" /\ {a, b} \cap DOMAIN t.write # {} /\ ~Parts(t, a, b)
<1>1. /\ DOMAIN places = CatalogueItem
      /\ \A c \in Placed : places[c] \in Place
      /\ \A place \in Place : place # Nowhere /\ place # Gone
  BY DEF CategoriesInv, CategoriesTypeOK, Nowhere, Gone
<1>2. \A c \in CatalogueItem : c \in Placed <=> places[c] \notin {Nowhere, Gone}
  BY DEF Placed
<1>3. CASE NewItemRequest(t)
  <2>1. PICK c \in CatalogueItem : places[c] = Nowhere /\ places' = [places EXCEPT ![c] = t.row]
    BY <1>3 DEF CommitPlaces, NewItemRequest
  <2>2. t.row \in Place
    BY <1>3 DEF NewItemRequest
  <2>3. \A d \in CatalogueItem : places'[d] = IF d = c THEN t.row ELSE places[d]
    BY <1>1, <2>1
  <2>4. Placed' = Placed \cup {c} /\ c \notin Placed
    BY <1>1, <1>2, <2>1, <2>2, <2>3 DEF Placed
  <2>5. \A d \in Placed' : places'[d] \in Place
    BY <1>1, <2>2, <2>3, <2>4 DEF Placed
  <2>6. ASSUME t.fresh, NEW d \in Placed', NEW e \in Placed', d # e, places'[d] = places'[e]
        PROVE  d \in Placed /\ e \in Placed /\ places[d] = places[e]
    <3>1. \A f \in Placed : places[f] # t.row
      <4>1. \A f \in InCategory(t.row.category) : places[f].order < t.row.order
        BY <1>3, <2>6 DEF NewItemRequest
      <4> QED
        BY <1>1, <2>2, <4>1 DEF InCategory
    <3> QED
      BY <2>3, <2>4, <2>6, <3>1 DEF Placed
  <2> QED
    BY <1>1, <2>1, <2>5, <2>6
<1>4. ASSUME t.op = "update", ~(t.id \subseteq Placed)
      PROVE  UNCHANGED places
  BY <1>4 DEF CommitPlaces
<1>5. ASSUME UNCHANGED places
      PROVE  /\ DOMAIN places' = CatalogueItem
             /\ \A c \in Placed' : places'[c] \in Place
             /\ \A a, b \in Placed' : places'[a] = places'[b] => Owed(a, b)
  <2>1. Placed' = Placed
    BY <1>5 DEF Placed
  <2> QED
    BY <1>1, <1>5, <2>1
<1>6. ASSUME t.op = "update", t.id \subseteq Placed
      PROVE  /\ DOMAIN places' = CatalogueItem
             /\ \A c \in CatalogueItem :
                   places'[c] = IF c \in t.id THEN Merge(t.write[c], places[c]) ELSE places[c]
  BY <1>6 DEF CommitPlaces
<1>7. CASE MoveRequest(t)
  <2>1. PICK m \in CatalogueItem, k \in Categories, fresh \in BOOLEAN : Moves(t, m, k, fresh)
    BY <1>7 DEF MoveRequest
  <2>2. t.op = "update" /\ t.id = {m} /\ DOMAIN t.write = {m} /\ t.write[m] = {<<"category", k>>}
    BY <2>1 DEF Moves
  <2>3. CASE m \in Placed
    <3>1. Merge(t.write[m], places[m]) \in Place
      <4>1. PICK row \in Place : row = places[m]
        BY <1>1, <2>3
      <4>2. Merge({<<"category", k>>}, row) \in Place
        BY ONLY <4>1, k \in Categories, PlaceWritten
      <4> QED
        BY <2>2, <4>1, <4>2
    <3>2. /\ DOMAIN places' = CatalogueItem
          /\ \A c \in CatalogueItem : c # m => places'[c] = places[c]
          /\ places'[m] = Merge(t.write[m], places[m])
      BY <1>6, <2>2, <2>3
    <3>3. Placed' = Placed
      BY <1>1, <1>2, <2>3, <3>1, <3>2 DEF Placed
    <3>4. \A c \in Placed' : places'[c] \in Place
      BY <1>1, <3>1, <3>2, <3>3 DEF Placed
    <3>5. ASSUME NEW a \in Placed', NEW b \in Placed', a # b, places'[a] = places'[b]
          PROVE  Owed(a, b)
      <4>1. CASE a = m \/ b = m
        BY <2>2, <3>5, <4>1 DEF Parts
      <4>2. CASE a # m /\ b # m
        BY <3>2, <3>3, <3>5, <4>2 DEF Placed
      <4> QED
        BY <4>1, <4>2
    <3> QED
      BY <3>2, <3>4, <3>5
  <2>4. CASE m \notin Placed
    BY <1>4, <1>5, <2>2, <2>4
  <2> QED
    BY <2>3, <2>4
<1>8. CASE ArrangeRequest(t)
  <2>1. PICK L \in SUBSET CatalogueItem : \E S \in SUBSET L : \E order \in [L -> Int] :
          \E fresh \in BOOLEAN : Arranges(t, L, S, order, fresh)
    BY <1>8 DEF ArrangeRequest
  <2>2. PICK S \in SUBSET L : \E order \in [L -> Int] :
          \E fresh \in BOOLEAN : Arranges(t, L, S, order, fresh)
    BY <2>1
  <2>3. PICK order \in [L -> Int] : \E fresh \in BOOLEAN : Arranges(t, L, S, order, fresh)
    BY <2>2
  <2>4. /\ t.op = "update" /\ t.id = S /\ DOMAIN t.write = L
        /\ \A c \in L : t.write[c] = {<<"order", order[c]>>}
        /\ t.fresh => \A c \in L \ S : c \in Placed => places[c].order = order[c]
    <3> DEFINE w == [c \in L |-> {<<"order", order[c]>>}]
    <3>1. /\ t.op = "update" /\ t.id = S /\ t.write = w
          /\ t.fresh => \A c \in L \ S : c \in Placed => places[c].order = order[c]
      <4> HIDE DEF w
      <4>1. PICK fresh \in BOOLEAN :
              /\ t = [table |-> "items", op |-> "update", id |-> S, write |-> w, fresh |-> fresh]
              /\ fresh => \A c \in L \ S : c \in Placed => places[c].order = order[c]
        BY <2>3 DEF Arranges, w
      <4> QED
        BY <4>1
    <3> QED
      BY <3>1
  <2>5. CASE S \subseteq Placed
    <3>1. DOMAIN places' = CatalogueItem /\ \A c \in CatalogueItem \ S : places'[c] = places[c]
      BY <1>6, <2>4, <2>5
    <3>2. ASSUME NEW c \in S
          PROVE  places'[c] \in Place /\ places'[c].order = order[c]
      <4>1. PICK row \in Place : row = places[c]
        BY <1>1, <2>5
      <4>2. /\ Merge({<<"order", order[c]>>}, row) \in Place
            /\ Merge({<<"order", order[c]>>}, row).order = order[c]
        BY PlaceWritten
      <4>3. places'[c] = Merge({<<"order", order[c]>>}, row)
        BY <1>6, <2>4, <2>5, <4>1
      <4> QED
        BY <4>1, <4>2, <4>3
    <3>3. Placed' = Placed
      BY <1>1, <1>2, <2>5, <3>1, <3>2 DEF Placed
    <3>4. \A c \in Placed' : places'[c] \in Place
      BY <1>1, <3>1, <3>2, <3>3 DEF Placed
    <3>5. ASSUME t.fresh, NEW a \in Placed', NEW b \in Placed', a # b, places'[a] = places'[b]
          PROVE  Owed(a, b)
      <4>1. \A c \in L : c \in Placed => places'[c].order = order[c]
        BY <2>4, <3>1, <3>2, <3>5 DEF Placed
      <4>2. CASE a \notin L /\ b \notin L
        BY <3>1, <3>3, <3>5, <4>2 DEF Placed
      <4>3. CASE a \in L /\ b \in L
        <5>1. order[a] = order[b]
          BY <3>3, <3>5, <4>1, <4>3
        <5>2. t.write[a] = t.write[b]
          BY <2>4, <4>3, <5>1
        <5> QED
          BY <2>4, <4>3, <5>2 DEF Parts
      <4>4. CASE (a \in L) # (b \in L)
        BY <2>4, <4>4 DEF Parts
      <4> QED
        BY <4>2, <4>3, <4>4
    <3> QED
      BY <3>1, <3>4, <3>5
  <2>6. CASE ~(S \subseteq Placed)
    BY <1>4, <1>5, <2>4, <2>6
  <2> QED
    BY <2>5, <2>6
<1> QED
  BY <1>3, <1>7, <1>8 DEF PlaceRequest

\* Whom a shared place is owed to: see PlaceTieHasACause.
TiesPlaces(p, pair) ==
    /\ Pending(p, "items") /\ request'[p] = Idle
    /\ \/ ~request[p].fresh
       \/ /\ request[p].op = "update"
          /\ {pair[1], pair[2]} \cap DOMAIN request[p].write # {}
          /\ ~Parts(request[p], pair[1], pair[2])

PlaceTies == \A pair \in SamePlace' \ SamePlace : \E p \in Proc : TiesPlaces(p, pair)

\* The commit to the coverages keeps the invariant of places.
LEMMA PlacesCommitted ==
    ASSUME RequestsOK, CategoriesInv, NEW p \in Proc, CommitPlaces(p)
    PROVE  CategoriesInv' /\ PlaceTies
<1>1. PICK t : t = request[p]
  OBVIOUS
<1>2. /\ PlaceRequest(t) /\ Pending(p, "items") /\ Commit(p, "items")
      /\ UNCHANGED categories /\ UNCHANGED lastCategory /\ Categories' = Categories
  BY <1>1 DEF CommitPlaces, CategoriesInv, Categories
<1>3. /\ \A q \in Proc : Pending(q, "items")' =>
            Pending(q, "items") /\ request'[q] = [request[q] EXCEPT !.fresh = FALSE]
      /\ \A q \in Proc : Pending(q, "coverage_categories")' => request'[q] = request[q]
      /\ "coverage_categories" \notin raced' => "coverage_categories" \notin raced
      /\ request'[p] = Idle
  <2>1. {"coverage_categories"} \in SUBSET Table /\ "items" \in Table
        /\ "items" \notin {"coverage_categories"}
    BY DEF Table
  <2>2. Elsewhere({"coverage_categories"})
    BY <1>2, <2>1, Landed
  <2> QED
    BY <1>1, <1>2, <2>1, <2>2, Landed DEF Pending, Elsewhere
<1>4. /\ DOMAIN places' = CatalogueItem
      /\ \A c \in Placed' : places'[c] \in [category : Categories, order : Int]
      /\ t.fresh => \A a, b \in Placed' :
            a # b /\ places'[a] = places'[b] =>
               \/ a \in Placed /\ b \in Placed /\ places[a] = places[b]
               \/ t.op = "update" /\ {a, b} \cap DOMAIN t.write # {} /\ ~Parts(t, a, b)
  BY <1>1, <1>2, PlacesWritten
<1>5. CategoriesTypeOK'
  BY <1>2, <1>4 DEF CategoriesInv, CategoriesTypeOK
<1>6. PlaceTies
  <2> SUFFICES ASSUME NEW pair \in SamePlace' \ SamePlace PROVE TiesPlaces(p, pair)
    BY DEF PlaceTies
  <2>1. PICK a \in Placed', b \in Placed' : pair = <<a, b>> /\ a # b /\ places'[a] = places'[b]
    BY DEF SamePlace
  <2>2. ~(a \in Placed /\ b \in Placed /\ places[a] = places[b])
    BY <2>1 DEF SamePlace
  <2>3. t.fresh => t.op = "update" /\ {a, b} \cap DOMAIN t.write # {} /\ ~Parts(t, a, b)
    BY <1>4, <2>1, <2>2
  <2> QED
    BY <1>1, <1>2, <1>3, <2>1, <2>3 DEF TiesPlaces
<1>7. CategoryPlacesDiffer'
  BY <1>2, <1>3 DEF CategoriesInv, CategoryPlacesDiffer
<1>8. /\ DOMAIN categories' = CategoryId
      /\ \A k \in Categories' : k <= lastCategory' /\ categories'[k].order <= lastCategory'
      /\ \A c \in Placed' : places'[c] \in [category : Categories', order : Int]
  BY <1>2, <1>4 DEF CategoriesInv
<1>9. \A r : CategoryRequest(r) => CategoryRequest(r)'
  BY <1>2 DEF CategoryRequest
<1>10. \A q \in Proc : Pending(q, "coverage_categories")' => CategoryRequest(request[q])'
  BY <1>3, <1>9 DEF CategoriesInv, Pending
<1>11. \A q \in Proc : Pending(q, "items")' => PlaceRequest(request[q])'
  <2> SUFFICES ASSUME NEW q \in Proc, Pending(q, "items")' PROVE PlaceRequest(request[q])'
    OBVIOUS
  <2>1. PICK s : s = request[q]
    OBVIOUS
  <2>2. PlaceRequest(s) /\ request'[q] = [s EXCEPT !.fresh = FALSE]
    BY <1>3, <2>1 DEF CategoriesInv
  <2>3. PlaceRequest([s EXCEPT !.fresh = FALSE])'
    BY <1>2, <2>2, PlaceStale
  <2> QED
    BY <2>2, <2>3
<1> QED
  BY <1>4, <1>5, <1>6, <1>7, <1>8, <1>10, <1>11 DEF CategoriesInv

\* Every step on places keeps the invariant and concerns their tables.
LEMMA CategoriesStep ==
    ASSUME RequestsOK, CategoriesInv, NEW p \in Proc, CategoriesNext(p) \/ PlacesNext(p)
    PROVE  CategoriesInv' /\ PlaceTies /\ RequestsOK' /\ \A T \in SUBSET Table :
              T \cap {"coverage_categories", "items"} = {} => Elsewhere(T)
<1>1. ASSUME \/ \E k \in CategoryId : ArchiveCategory(k) \/ RestoreCategory(k)
             \/ \E c \in CatalogueItem : DestroyCatalogueItem(c)
      PROVE  CategoriesInv' /\ RequestsOK' /\ \A T \in SUBSET Table : Elsewhere(T)
  <2>1. UNCHANGED request /\ UNCHANGED raced
    BY <1>1 DEF ArchiveCategory, RestoreCategory, DestroyCatalogueItem
  <2>2. CategoriesInv'
    BY <1>1, CategoryShelved, ItemDestroyed
  <2> QED
    BY <2>1, <2>2 DEF RequestsOK, Elsewhere, Free
<1>2. ASSUME \/ StoreCategory(p)
             \/ \E k \in CategoryId : StoreCatalogueItem(p, k)
             \/ \E c \in CatalogueItem, k \in CategoryId : MoveCatalogueItem(p, c, k)
             \/ \E k \in CategoryId : \E order \in Arrangements(k) :
                  ReorderCatalogue(p, order)
      PROVE  CategoriesInv' /\ RequestsOK' /\ \A T \in SUBSET Table :
                T \cap {"coverage_categories", "items"} = {} => Elsewhere(T)
  <2>1. UNCHANGED <<raced, categoryVars>>
    BY <1>2, CategoriesBegun
  <2>2. PICK r : Go(p, r) /\ (CategoryRequest(r) \/ PlaceRequest(r))
    BY <1>2, CategoriesBegun
  <2>3. r.table \in {"coverage_categories", "items"} /\ "table" \in DOMAIN r
    BY <2>2, ItemTables
  <2>4. CategoriesInv'
    BY <2>1, <2>2, CategoriesBegin
  <2>5. r.table \in Table /\ UNCHANGED raced
    BY <2>1, <2>3 DEF Table
  <2> QED
    BY <2>2, <2>3, <2>4, <2>5, Begun
<1>3. ASSUME CommitCategory(p) \/ CommitPlaces(p)
      PROVE  CategoriesInv' /\ RequestsOK' /\ \A T \in SUBSET Table :
                T \cap {"coverage_categories", "items"} = {} => Elsewhere(T)
  <2>1. CategoriesInv'
    BY <1>3, CategoryCommitted, PlacesCommitted
  <2>2. \E t \in {"coverage_categories", "items"} : Pending(p, t) /\ Commit(p, t)
    BY <1>3 DEF CommitCategory, CommitPlaces
  <2>3. {"coverage_categories", "items"} \subseteq Table
    BY DEF Table
  <2> QED
    BY <2>1, <2>2, <2>3, Landed
<1>4. PlaceTies
  <2>1. UNCHANGED places => SamePlace' = SamePlace
    BY DEF SamePlace, Placed
  <2>2. CASE \E c \in CatalogueItem : DestroyCatalogueItem(c)
    <3>1. PICK c \in CatalogueItem : places' = [places EXCEPT ![c] = Gone]
      BY <2>2 DEF DestroyCatalogueItem
    <3>2. \A d \in Placed' : d \in Placed /\ places'[d] = places[d]
      BY <3>1 DEF CategoriesInv, Placed
    <3>3. SamePlace' \subseteq SamePlace
      BY <3>2 DEF SamePlace
    <3> QED
      BY <3>3 DEF PlaceTies
  <2>3. UNCHANGED places \/ CommitPlaces(p) \/ \E c \in CatalogueItem : DestroyCatalogueItem(c)
    BY DEF CategoriesNext, PlacesNext, StoreCategory, CommitCategory, ArchiveCategory,
       RestoreCategory, StoreCatalogueItem, MoveCatalogueItem, ReorderCatalogue, categoryVars
  <2>4. CommitPlaces(p) => PlaceTies
    BY PlacesCommitted
  <2> QED
    BY <2>1, <2>2, <2>3, <2>4 DEF PlaceTies
<1> QED
  BY <1>1, <1>2, <1>3, <1>4 DEF CategoriesNext, PlacesNext

-----------------------------------------------------------------------------
(***************************************************************************)
(* The texts.                                                              *)
(***************************************************************************)
TermsRequest(r) ==
    /\ r \in [table : {"terms"}, op : {"update"}, fresh : BOOLEAN, id : SUBSET Locale,
              write : SUBSET [Locale -> Text]]
    /\ r.fresh => \A html \in r.write : \A l \in Locale \ r.id : html[l] = terms[l]

ValuesRequest(r) ==
    /\ r \in [table : {"values"}, op : {"update"}, fresh : BOOLEAN, id : SUBSET Field,
              write : SUBSET (Field \X Text)]
    /\ r.write \subseteq r.id \X Text

TextsInv ==
    /\ TextsTypeOK
    /\ \A p \in Proc : Pending(p, "terms") => TermsRequest(request[p])
    /\ \A p \in Proc : Pending(p, "values") => ValuesRequest(request[p])

\* A step that concerns other tables keeps the invariant.
LEMMA TextsElsewhere ==
    ASSUME TextsInv, Elsewhere({"terms", "values"}), UNCHANGED textVars
    PROVE  TextsInv'
<1>1. UNCHANGED terms /\ UNCHANGED values
  BY DEF textVars
<1>2. \A r : (TermsRequest(r) => TermsRequest(r)') /\ (ValuesRequest(r) => ValuesRequest(r)')
  BY <1>1 DEF TermsRequest, ValuesRequest
<1> QED
  BY <1>1, <1>2 DEF TextsInv, TextsTypeOK, Elsewhere, Pending

\* So does the begin of a request of the right shape.
LEMMA TextsBegin ==
    ASSUME TextsInv, RequestsOK, NEW p \in Proc, NEW r, Go(p, r),
           TermsRequest(r) \/ ValuesRequest(r), UNCHANGED <<raced, textVars>>
    PROVE  TextsInv'
<1>1. UNCHANGED terms /\ UNCHANGED values
  BY DEF textVars
<1>2. \A s : (TermsRequest(s) => TermsRequest(s)') /\ (ValuesRequest(s) => ValuesRequest(s)')
  BY <1>1 DEF TermsRequest, ValuesRequest
<1>3. \A q \in Proc : request'[q] = IF q = p THEN r ELSE request[q]
  BY DEF RequestsOK, Go
<1>4. (r.table = "terms" => TermsRequest(r)) /\ (r.table = "values" => ValuesRequest(r))
  BY DEF TermsRequest, ValuesRequest
<1> QED
  BY <1>1, <1>2, <1>3, <1>4 DEF TextsInv, TextsTypeOK, Pending

\* Every edit begins a request of the right shape.
LEMMA TextsBegun ==
    ASSUME TextsInv, RequestsOK, NEW p \in Proc,
           \/ \E locale \in Locale, text \in Text : UpdateTerms(p, locale, text)
           \/ \E body \in Bodies \ {{}} : UpdateValues(p, body)
    PROVE  /\ UNCHANGED <<raced, textVars>>
           /\ Free(p) /\ \E r : Go(p, r) /\ (TermsRequest(r) \/ ValuesRequest(r))
<1>1. ASSUME NEW locale \in Locale, NEW text \in Text, UpdateTerms(p, locale, text)
      PROVE  \E r : Go(p, r) /\ TermsRequest(r)
  <2> DEFINE write == {[terms EXCEPT ![locale] = text]} \ {terms}
             r     == Update("terms", {locale}, write)
  <2>1. Go(p, r)
    BY <1>1 DEF UpdateTerms
  <2>2. write \in SUBSET [Locale -> Text]
        /\ \A html \in write : \A l \in Locale \ {locale} : html[l] = terms[l]
    BY DEF TextsInv, TextsTypeOK
  <2> HIDE DEF write
  <2>3. TermsRequest(r)
    BY <2>2 DEF TermsRequest, Update
  <2> QED
    BY <2>1, <2>3
<1>2. ASSUME NEW body \in Bodies, UpdateValues(p, body)
      PROVE  \E r : Go(p, r) /\ ValuesRequest(r)
  <2> DEFINE id    == {pair[1] : pair \in body}
             write == Changes(values, Merge(body, values))
             r     == Update("values", id, write)
  <2>1. Go(p, r)
    BY <1>2 DEF UpdateValues
  <2>2. body \subseteq Field \X Text
    BY DEF Bodies
  <2>3. \A w \in body : w = <<w[1], w[2]>>
    BY <2>2
  <2>4. DOMAIN values = Field
    BY DEF TextsInv, TextsTypeOK
  <2>5. id \in SUBSET Field
    BY <2>2
  <2>6. write \subseteq id \X Text
    <3> SUFFICES ASSUME NEW w \in write PROVE w \in id \X Text
      OBVIOUS
    <3>1. PICK f \in Field : w = <<f, Merge(body, values)[f]>> /\ Merge(body, values)[f] # values[f]
      BY <2>4 DEF Changes
    <3>2. w \in body
      BY <2>3, <2>4, <3>1, MergeColumn
    <3> QED
      BY <2>2, <3>1, <3>2
  <2>7. write \in SUBSET (Field \X Text)
    BY <2>5, <2>6
  <2> HIDE DEF write, id
  <2>8. ValuesRequest(r)
    BY <2>5, <2>6, <2>7 DEF ValuesRequest, Update
  <2> QED
    BY <2>1, <2>8
<1>3. UNCHANGED <<raced, textVars>> /\ Free(p)
  BY DEF UpdateTerms, UpdateValues, textVars
<1> QED
  BY <1>1, <1>2, <1>3

\* Who ends its request with what.
TextsKeep ==
    \A p \in Proc :
         /\ Pending(p, "terms") /\ request'[p] = Idle /\ request[p].fresh =>
              \A l \in Locale \ request[p].id : terms'[l] = terms[l]
         /\ Pending(p, "values") /\ request'[p] = Idle =>
              \A f \in Field \ request[p].id : values'[f] = values[f]

\* The commit of the terms keeps the other language, if it is fresh.
LEMMA TermsCommitted ==
    ASSUME RequestsOK, TextsInv, NEW p \in Proc, CommitTerms(p)
    PROVE  TextsInv' /\ TextsKeep
<1>1. PICK t : t = request[p]
  OBVIOUS
<1>2. /\ TermsRequest(t) /\ Pending(p, "terms") /\ Commit(p, "terms") /\ UNCHANGED values
      /\ terms' = IF t.write = {} THEN terms ELSE CHOOSE html \in t.write : TRUE
  BY <1>1 DEF CommitTerms, TextsInv
<1>3. /\ \A q \in Proc : Pending(q, "terms")' =>
            Pending(q, "terms") /\ request'[q] = [request[q] EXCEPT !.fresh = FALSE]
      /\ \A q \in Proc : Pending(q, "values")' => request'[q] = request[q]
  <2>1. {"values"} \in SUBSET Table /\ "terms" \in Table /\ "terms" \notin {"values"}
    BY DEF Table
  <2>2. Elsewhere({"values"})
    BY <1>2, <2>1, Landed
  <2> QED
    BY <1>2, <2>1, <2>2, Landed DEF Pending, Elsewhere
<1>4. terms' = terms \/ terms' \in t.write
  BY <1>2
<1>5. /\ terms' \in [Locale -> Text]
      /\ t.fresh => \A l \in Locale \ t.id : terms'[l] = terms[l]
  BY <1>2, <1>4 DEF TermsRequest, TextsInv, TextsTypeOK
<1>6. \A q \in Proc : Pending(q, "terms")' => TermsRequest(request[q])'
  <2> SUFFICES ASSUME NEW q \in Proc, Pending(q, "terms")' PROVE TermsRequest(request[q])'
    OBVIOUS
  <2>1. PICK s : s = request[q]
    OBVIOUS
  <2>2. TermsRequest(s) /\ request'[q] = [s EXCEPT !.fresh = FALSE]
    BY <1>3, <2>1 DEF TextsInv
  <2>3. request'[q] \in [table : {"terms"}, op : {"update"}, fresh : {FALSE}, id : SUBSET Locale,
                         write : SUBSET [Locale -> Text]]
    BY <2>2 DEF TermsRequest
  <2> QED
    BY <2>3 DEF TermsRequest
<1>7. \A q \in Proc : Pending(q, "values")' => ValuesRequest(request[q])'
  BY <1>3 DEF TextsInv, Pending, ValuesRequest
<1>8. TextsInv'
  BY <1>2, <1>5, <1>6, <1>7 DEF TextsInv, TextsTypeOK
<1>9. \A q \in Proc : q # p /\ request'[q] = Idle => ~Pending(q, "terms") /\ ~Pending(q, "values")
  BY <1>2, StillPending DEF Table
<1>10. TextsKeep
  <2>1. ~Pending(p, "values")
    BY <1>2 DEF Pending
  <2>2. \A q \in Proc : Pending(q, "terms") /\ request'[q] = Idle => q = p
    BY <1>9
  <2>3. \A q \in Proc : Pending(q, "values") => request'[q] # Idle
    BY <1>9, <2>1
  <2> QED
    BY <1>1, <1>5, <2>2, <2>3 DEF TextsKeep
<1> QED
  BY <1>8, <1>10

\* The commit of values writes the columns that were sent, and no other.
LEMMA ValuesCommitted ==
    ASSUME RequestsOK, TextsInv, NEW p \in Proc, CommitValues(p)
    PROVE  TextsInv' /\ TextsKeep
<1>1. PICK t : t = request[p]
  OBVIOUS
<1>2. /\ ValuesRequest(t) /\ Pending(p, "values") /\ Commit(p, "values") /\ UNCHANGED terms
      /\ values' = Merge(t.write, values)
  BY <1>1 DEF CommitValues, TextsInv
<1>3. /\ \A q \in Proc : Pending(q, "values")' =>
            Pending(q, "values") /\ request'[q] = [request[q] EXCEPT !.fresh = FALSE]
      /\ \A q \in Proc : Pending(q, "terms")' => request'[q] = request[q]
  <2>1. {"terms"} \in SUBSET Table /\ "values" \in Table /\ "values" \notin {"terms"}
    BY DEF Table
  <2>2. Elsewhere({"terms"})
    BY <1>2, <2>1, Landed
  <2> QED
    BY <1>2, <2>1, <2>2, Landed DEF Pending, Elsewhere
<1>4. /\ t.write \subseteq t.id \X Text /\ DOMAIN values = Field
      /\ \A w \in t.write : w = <<w[1], w[2]>>
  BY <1>2 DEF ValuesRequest, TextsInv, TextsTypeOK
<1>5. ASSUME NEW f \in Field
      PROVE  values'[f] \in Text /\ (f \notin t.id => values'[f] = values[f])
  <2>1. values'[f] = values[f] \/ <<f, values'[f]>> \in t.write
    BY <1>2, <1>4, MergeColumn
  <2> QED
    BY <1>4, <2>1 DEF TextsInv, TextsTypeOK
<1>6. values' \in [Field -> Text]
  <2>1. values' = [f \in Field |-> values'[f]]
    BY <1>2, <1>4 DEF Merge
  <2> QED
    BY <1>5, <2>1
<1>7. \A q \in Proc : Pending(q, "values")' => ValuesRequest(request[q])'
  <2> SUFFICES ASSUME NEW q \in Proc, Pending(q, "values")' PROVE ValuesRequest(request[q])'
    OBVIOUS
  <2>1. PICK s : s = request[q]
    OBVIOUS
  <2>2. ValuesRequest(s) /\ request'[q] = [s EXCEPT !.fresh = FALSE]
    BY <1>3, <2>1 DEF TextsInv
  <2>3. PICK w : w = s.write
    OBVIOUS
  <2>4. /\ request'[q] \in [table : {"values"}, op : {"update"}, fresh : BOOLEAN,
                             id : SUBSET Field, write : SUBSET (Field \X Text)]
        /\ request'[q].write = w /\ request'[q].id = s.id /\ w \subseteq s.id \X Text
    BY <2>2, <2>3 DEF ValuesRequest
  <2> QED
    BY <2>4 DEF ValuesRequest
<1>8. \A q \in Proc : Pending(q, "terms")' => TermsRequest(request[q])'
  BY <1>2, <1>3 DEF TextsInv, Pending, TermsRequest
<1>9. TextsInv'
  BY <1>2, <1>6, <1>7, <1>8 DEF TextsInv, TextsTypeOK
<1>10. \A q \in Proc : q # p /\ request'[q] = Idle => ~Pending(q, "terms") /\ ~Pending(q, "values")
  BY <1>2, StillPending DEF Table
<1>11. TextsKeep
  <2>1. ~Pending(p, "terms")
    BY <1>2 DEF Pending
  <2>2. \A q \in Proc : Pending(q, "values") /\ request'[q] = Idle => q = p
    BY <1>10
  <2>3. \A q \in Proc : Pending(q, "terms") => request'[q] # Idle
    BY <1>10, <2>1
  <2> QED
    BY <1>1, <1>5, <2>2, <2>3 DEF TextsKeep
<1> QED
  BY <1>9, <1>11

\* Every step on texts keeps the invariant and what it was not about.
LEMMA TextsStep ==
    ASSUME RequestsOK, TextsInv, NEW p \in Proc, TextsNext(p)
    PROVE  /\ TextsInv' /\ TextsKeep /\ RequestsOK'
           /\ \A T \in SUBSET Table : T \cap {"terms", "values"} = {} => Elsewhere(T)
<1>1. ASSUME \/ \E locale \in Locale, text \in Text : UpdateTerms(p, locale, text)
             \/ \E body \in Bodies \ {{}} : UpdateValues(p, body)
      PROVE  /\ TextsInv' /\ TextsKeep /\ RequestsOK'
             /\ \A T \in SUBSET Table : T \cap {"terms", "values"} = {} => Elsewhere(T)
  <2>1. UNCHANGED <<raced, textVars>> /\ Free(p)
    BY <1>1, TextsBegun
  <2>2. PICK r : Go(p, r) /\ (TermsRequest(r) \/ ValuesRequest(r))
    BY <1>1, TextsBegun
  <2>3. r.table \in {"terms", "values"} /\ "table" \in DOMAIN r
    BY <2>2 DEF TermsRequest, ValuesRequest
  <2>4. TextsInv'
    BY <2>1, <2>2, TextsBegin
  <2>5. r.table \in Table /\ UNCHANGED raced
    BY <2>1, <2>3 DEF Table
  <2>6. TextsKeep
    BY <2>1 DEF TextsKeep, textVars
  <2> QED
    BY <2>2, <2>3, <2>4, <2>5, <2>6, Begun
<1>2. ASSUME CommitTerms(p) \/ CommitValues(p)
      PROVE  /\ TextsInv' /\ TextsKeep /\ RequestsOK'
             /\ \A T \in SUBSET Table : T \cap {"terms", "values"} = {} => Elsewhere(T)
  <2>1. TextsInv' /\ TextsKeep
    BY <1>2, TermsCommitted, ValuesCommitted
  <2>2. \E t \in {"terms", "values"} : Pending(p, t) /\ Commit(p, t)
    BY <1>2 DEF CommitTerms, CommitValues
  <2>3. {"terms", "values"} \subseteq Table
    BY DEF Table
  <2> QED
    BY <2>1, <2>2, <2>3, Landed
<1> QED
  BY <1>1, <1>2 DEF TextsNext

-----------------------------------------------------------------------------
(***************************************************************************)
(* The countries.                                                          *)
(***************************************************************************)
NewCountryRequest(r) ==
    /\ r \in [table : {"countries"}, op : {"insert"}, fresh : BOOLEAN,
              row : [country : Country, code : Code]]
    /\ r.fresh => \A d \in Known : code[d] # r.row.code

CountryRequest(r) ==
    /\ r \in [table : {"countries"}, op : {"update"}, fresh : BOOLEAN, id : Country,
              write : [code : Code]]
    /\ r.fresh => \A d \in Known \ {r.id} : code[d] # r.write.code

ListRequest(r) ==
    \/ r \in [table : Lists, op : {"insert"}, fresh : BOOLEAN, row : SUBSET Country]
    \/ r \in [table : Lists, op : {"delete"}, fresh : BOOLEAN, id : SUBSET Country]
    \/ r \in [table : {"plan_version_countries"}, op : {"update"}, fresh : BOOLEAN, id : Country,
              write : [price : {"unpriced", "priced"}]]

CountriesInv ==
    /\ CountriesTypeOK
    /\ CodesDiffer
    /\ \A p \in Proc : Pending(p, "countries") =>
          NewCountryRequest(request[p]) \/ CountryRequest(request[p])
    /\ \A p \in Proc : request[p].table \in Lists => ListRequest(request[p])

CountryTables == {"countries", "plan_version_countries", "plan_version_repatriation_countries"}

PriceKeeps ==
    \A c \in Country : sold[c] = "priced" /\ sold'[c] # "priced" =>
       \E p \in Proc : /\ Pending(p, "plan_version_countries")
                       /\ request[p].op \in {"update", "delete"}
                       /\ request'[p] = Idle

\* A step that concerns other tables keeps the invariant.
LEMMA CountriesElsewhere ==
    ASSUME CountriesInv, Elsewhere(CountryTables), UNCHANGED countryVars
    PROVE  CountriesInv'
<1>1. UNCHANGED code /\ UNCHANGED zones /\ UNCHANGED sold /\ UNCHANGED repatriation
  BY DEF countryVars
<1>2. \A r : /\ NewCountryRequest(r) => NewCountryRequest(r)'
             /\ CountryRequest(r) => CountryRequest(r)'
  BY <1>1 DEF NewCountryRequest, CountryRequest, Known
<1>3. \A q \in Proc : request'[q].table \in CountryTables => request'[q] = request[q]
  BY DEF Elsewhere
<1>4. CodesDiffer'
  BY <1>1 DEF CodesDiffer, CountriesInv, Elsewhere, CountryTables, Known
<1>5. \A q \in Proc : Pending(q, "countries")' =>
         NewCountryRequest(request[q])' \/ CountryRequest(request[q])'
  BY <1>2, <1>3 DEF CountriesInv, Pending, CountryTables
<1>6. \A q \in Proc : request'[q].table \in Lists => ListRequest(request'[q])
  BY <1>3 DEF CountriesInv, CountryTables, Lists
<1>7. CountriesTypeOK'
  BY <1>1 DEF CountriesInv, CountriesTypeOK
<1> QED
  BY <1>4, <1>5, <1>6, <1>7 DEF CountriesInv

\* So does the begin of a request of the right shape.
LEMMA CountriesBegin ==
    ASSUME CountriesInv, RequestsOK, NEW p \in Proc, NEW r, Go(p, r),
           NewCountryRequest(r) \/ CountryRequest(r) \/ ListRequest(r),
           UNCHANGED <<raced, countryVars>>
    PROVE  CountriesInv'
<1>1. /\ UNCHANGED code /\ UNCHANGED zones /\ UNCHANGED sold /\ UNCHANGED repatriation
      /\ UNCHANGED raced
  BY DEF countryVars
<1>2. \A s : /\ NewCountryRequest(s) => NewCountryRequest(s)'
             /\ CountryRequest(s) => CountryRequest(s)'
  BY <1>1 DEF NewCountryRequest, CountryRequest, Known
<1>3. \A q \in Proc : request'[q] = IF q = p THEN r ELSE request[q]
  BY DEF RequestsOK, Go
<1>4. /\ r.table = "countries" => NewCountryRequest(r) \/ CountryRequest(r)
      /\ r.table \in Lists => ListRequest(r)
  BY DEF NewCountryRequest, CountryRequest, ListRequest, Lists
<1>5. CodesDiffer'
  BY <1>1 DEF CodesDiffer, CountriesInv, Known
<1>6. \A q \in Proc : Pending(q, "countries")' =>
         NewCountryRequest(request[q])' \/ CountryRequest(request[q])'
  BY <1>2, <1>3, <1>4 DEF CountriesInv, Pending
<1>7. \A q \in Proc : request'[q].table \in Lists => ListRequest(request'[q])
  BY <1>3, <1>4 DEF CountriesInv
<1>8. CountriesTypeOK'
  BY <1>1 DEF CountriesInv, CountriesTypeOK
<1> QED
  BY <1>5, <1>6, <1>7, <1>8 DEF CountriesInv

CountryBegins(p) ==
    \/ \E c \in Country, iso \in Code : StoreCountry(p, c, iso) \/ UpdateCountry(p, c, iso)
    \/ \E S \in SUBSET Country : AttachCountries(p, S) \/ AttachRepatriation(p, S)
    \/ \E z \in Zone : \/ AttachZone(p, z) \/ DetachZone(p, z)
                       \/ AttachRepatriationZone(p, z) \/ DetachRepatriationZone(p, z)
    \/ \E c \in Country : DetachCountry(p, c) \/ DetachRepatriation(p, c)
    \/ \E c \in Country, price \in {"unpriced", "priced"} : SetPrice(p, c, price)

\* Every operation on countries begins a request of the right shape.
LEMMA CountriesBegun ==
    ASSUME CountriesInv, RequestsOK, NEW p \in Proc, CountryBegins(p)
    PROVE  /\ UNCHANGED <<raced, countryVars>>
           /\ \E r : Go(p, r) /\ (NewCountryRequest(r) \/ CountryRequest(r) \/ ListRequest(r))
<1>1. ASSUME NEW c \in Country, NEW iso \in Code, StoreCountry(p, c, iso)
      PROVE  \E r : Go(p, r) /\ NewCountryRequest(r)
  <2> DEFINE r == Insert("countries", [country |-> c, code |-> iso])
  <2>1. Go(p, r) /\ NewCountryRequest(r)
    BY <1>1 DEF StoreCountry, NewCountryRequest, Insert
  <2> QED
    BY <2>1
<1>2. ASSUME NEW c \in Country, NEW iso \in Code, UpdateCountry(p, c, iso)
      PROVE  \E r : Go(p, r) /\ CountryRequest(r)
  <2> DEFINE r == Update("countries", c, [code |-> iso])
  <2>1. Go(p, r) /\ CountryRequest(r)
    BY <1>2 DEF UpdateCountry, CountryRequest, Update
  <2> QED
    BY <2>1
<1>3. ASSUME NEW t \in Lists, NEW S, Attach(p, t, S), S \subseteq Country
      PROVE  \E r : Go(p, r) /\ ListRequest(r)
  <2>1. PICK R \in SUBSET Country : R = S \ In(t)
    BY <1>3
  <2>2. Go(p, Insert(t, R)) /\ ListRequest(Insert(t, R))
    BY <1>3, <2>1 DEF Attach, ListRequest, Insert
  <2> QED
    BY <2>2
<1>4. ASSUME NEW t \in Lists, NEW S, Detach(p, t, S), S \subseteq Country
      PROVE  \E r : Go(p, r) /\ ListRequest(r)
  <2>1. PICK R \in SUBSET Country : R = S \cap In(t)
    BY <1>4
  <2>2. Go(p, Delete(t, R)) /\ ListRequest(Delete(t, R))
    BY <1>4, <2>1 DEF Detach, ListRequest, Delete
  <2> QED
    BY <2>2
<1>5. ASSUME NEW c \in Country, NEW price \in {"unpriced", "priced"}, SetPrice(p, c, price)
      PROVE  \E r : Go(p, r) /\ ListRequest(r)
  <2> DEFINE r == Update("plan_version_countries", c, [price |-> price])
  <2>1. Go(p, r) /\ ListRequest(r)
    BY <1>5 DEF SetPrice, ListRequest, Update
  <2> QED
    BY <2>1
<1>6. \A z \in Zone : Offered(z) \subseteq Country /\ zones[z].countries \subseteq Country
  BY DEF CountriesInv, CountriesTypeOK, Offered
<1>7. "plan_version_countries" \in Lists /\ "plan_version_repatriation_countries" \in Lists
      /\ Known \subseteq Country
  BY DEF Lists, Known
<1>8. UNCHANGED <<raced, countryVars>>
  BY DEF CountryBegins, StoreCountry, UpdateCountry, AttachCountries, AttachRepatriation,
     AttachZone, DetachZone, AttachRepatriationZone, DetachRepatriationZone, DetachCountry,
     DetachRepatriation, SetPrice, Attach, Detach
<1>9. CASE \E c \in Country, iso \in Code : StoreCountry(p, c, iso) \/ UpdateCountry(p, c, iso)
  BY <1>1, <1>2, <1>8, <1>9
<1>10. CASE \E S \in SUBSET Country : AttachCountries(p, S) \/ AttachRepatriation(p, S)
  BY <1>3, <1>7, <1>8, <1>10 DEF AttachCountries, AttachRepatriation
<1>11. CASE \E z \in Zone : \/ AttachZone(p, z) \/ DetachZone(p, z)
                            \/ AttachRepatriationZone(p, z) \/ DetachRepatriationZone(p, z)
  BY <1>3, <1>4, <1>6, <1>7, <1>8, <1>11
     DEF AttachZone, DetachZone, AttachRepatriationZone, DetachRepatriationZone
<1>12. CASE \E c \in Country : DetachCountry(p, c) \/ DetachRepatriation(p, c)
  BY <1>4, <1>7, <1>8, <1>12 DEF DetachCountry, DetachRepatriation
<1>13. CASE \E c \in Country, price \in {"unpriced", "priced"} : SetPrice(p, c, price)
  BY <1>5, <1>8, <1>13
<1> QED
  BY <1>9, <1>10, <1>11, <1>12, <1>13 DEF CountryBegins

\* What a commit to another table leaves of a request, it leaves of its columns.
LEMMA ListStale ==
    ASSUME NEW r, ListRequest(r)
    PROVE  ListRequest([r EXCEPT !.fresh = FALSE])
<1>1. CASE r \in [table : Lists, op : {"insert"}, fresh : BOOLEAN, row : SUBSET Country]
  BY <1>1 DEF ListRequest
<1>2. CASE r \in [table : Lists, op : {"delete"}, fresh : BOOLEAN, id : SUBSET Country]
  BY <1>2 DEF ListRequest
<1>3. CASE r \in [table : {"plan_version_countries"}, op : {"update"}, fresh : BOOLEAN,
                  id : Country, write : [price : {"unpriced", "priced"}]]
  <2>1. [r EXCEPT !.fresh = FALSE] \in
           [table : {"plan_version_countries"}, op : {"update"}, fresh : BOOLEAN,
            id : Country, write : [price : {"unpriced", "priced"}]]
    <3>1. PICK w \in [price : {"unpriced", "priced"}] : w = r.write
      BY <1>3
    <3> QED
      BY <1>3, <3>1
  <2> QED
    BY <2>1 DEF ListRequest
<1> QED
  BY <1>1, <1>2, <1>3 DEF ListRequest

\* A fresh country has an ISO code of its own.
LEMMA CountryCommitted ==
    ASSUME RequestsOK, CountriesInv, NEW p \in Proc, CommitCountry(p)
    PROVE  CountriesInv'
<1>1. PICK t : t = request[p]
  OBVIOUS
<1>2. /\ NewCountryRequest(t) \/ CountryRequest(t)
      /\ Pending(p, "countries") /\ Commit(p, "countries")
      /\ UNCHANGED zones /\ UNCHANGED sold /\ UNCHANGED repatriation
  BY <1>1 DEF CommitCountry, CountriesInv
<1>3. \E c \in Country, iso \in Code :
         /\ code' = [code EXCEPT ![c] = iso]
         /\ t.fresh => \A d \in Known \ {c} : code[d] # iso
  <2>1. CASE NewCountryRequest(t)
    <3>1. /\ t.op = "insert" /\ t.row.code \in Code
          /\ t.fresh => \A d \in Known : code[d] # t.row.code
      BY <2>1 DEF NewCountryRequest
    <3> QED
      BY <1>1, <3>1 DEF CommitCountry, Known
  <2>2. CASE CountryRequest(t)
    <3>1. /\ t.op = "update" /\ t.write.code \in Code /\ t.id \in Country
          /\ t.fresh => \A d \in Known \ {t.id} : code[d] # t.write.code
      BY <2>2 DEF CountryRequest
    <3> QED
      BY <1>1, <3>1 DEF CommitCountry
  <2> QED
    BY <1>2, <2>1, <2>2
<1>4. /\ \A q \in Proc : Pending(q, "countries")' =>
            Pending(q, "countries") /\ request'[q] = [request[q] EXCEPT !.fresh = FALSE]
      /\ \A q \in Proc : request'[q].table \in Lists => request'[q] = request[q]
      /\ "countries" \notin raced' => "countries" \notin raced /\ t.fresh
  <2>1. Lists \in SUBSET Table /\ "countries" \in Table /\ "countries" \notin Lists
    BY DEF Table, Lists
  <2>2. Elsewhere(Lists)
    BY <1>2, <2>1, Landed
  <2> QED
    BY <1>1, <1>2, <2>1, <2>2, Landed DEF Pending, Elsewhere
<1>5. CountriesTypeOK'
  BY <1>2, <1>3 DEF CountriesInv, CountriesTypeOK
<1>6. CodesDiffer'
  <2> SUFFICES ASSUME "countries" \notin raced', NEW d \in Country, NEW e \in Country,
                      code'[d] # "absent", code'[e] # "absent", d # e
               PROVE  code'[d] # code'[e]
    BY DEF CodesDiffer, Known
  <2>1. PICK c \in Country, iso \in Code :
           code' = [code EXCEPT ![c] = iso] /\ \A x \in Known \ {c} : code[x] # iso
    BY <1>3, <1>4
  <2>2. \A x \in Country : code'[x] = IF x = c THEN iso ELSE code[x]
    BY <2>1 DEF CountriesInv, CountriesTypeOK
  <2>3. \A x \in Country \ {c} : code'[x] # "absent" => x \in Known
    BY <2>2 DEF Known
  <2>4. \A x, y \in Known : x # y => code[x] # code[y]
    BY <1>4 DEF CountriesInv, CodesDiffer
  <2> QED
    BY <2>1, <2>2, <2>3, <2>4
<1>7. ASSUME NEW q \in Proc, Pending(q, "countries")'
      PROVE  NewCountryRequest(request[q])' \/ CountryRequest(request[q])'
  <2>1. PICK s : s = request[q]
    OBVIOUS
  <2>2. /\ NewCountryRequest(s) \/ CountryRequest(s)
        /\ request'[q] = [s EXCEPT !.fresh = FALSE]
    BY <1>4, <1>7, <2>1 DEF CountriesInv
  <2>3. CASE NewCountryRequest(s)
    <3>1. PICK w \in [country : Country, code : Code] : w = s.row
      BY <2>3 DEF NewCountryRequest
    <3>2. request'[q] \in [table : {"countries"}, op : {"insert"}, fresh : {FALSE},
                           row : [country : Country, code : Code]]
      BY <2>2, <2>3, <3>1 DEF NewCountryRequest
    <3> QED
      BY <3>2 DEF NewCountryRequest
  <2>4. CASE CountryRequest(s)
    <3>1. PICK w \in [code : Code] : w = s.write
      BY <2>4 DEF CountryRequest
    <3>2. request'[q] \in [table : {"countries"}, op : {"update"}, fresh : {FALSE},
                           id : Country, write : [code : Code]]
      BY <2>2, <2>4, <3>1 DEF CountryRequest
    <3> QED
      BY <3>2 DEF CountryRequest
  <2> QED
    BY <2>2, <2>3, <2>4
<1>8. \A q \in Proc : request'[q].table \in Lists => ListRequest(request'[q])
  BY <1>4 DEF CountriesInv
<1> QED
  BY <1>5, <1>6, <1>7, <1>8 DEF CountriesInv

\* A price is taken away by an update or a delete, never by an insert.
LEMMA ListCommitted ==
    ASSUME RequestsOK, CountriesInv, NEW p \in Proc, CommitSold(p) \/ CommitRepatriation(p)
    PROVE  CountriesInv' /\ PriceKeeps
<1>1. PICK t : t = request[p]
  OBVIOUS
<1>2. PICK u \in Lists : Pending(p, u) /\ Commit(p, u)
  BY DEF CommitSold, CommitRepatriation, Lists
<1>3. ListRequest(t) /\ UNCHANGED code /\ UNCHANGED zones
  BY <1>1, <1>2 DEF CommitSold, CommitRepatriation, CountriesInv, Pending
<1>4. /\ \A q \in Proc : request'[q].table = u =>
            request[q].table = u /\ request'[q] = [request[q] EXCEPT !.fresh = FALSE]
      /\ Elsewhere(CountryTables \ {u})
      /\ request'[p] = Idle
  <2>1. CountryTables \ {u} \in SUBSET Table /\ u \in Table
    BY DEF Table, CountryTables, Lists
  <2> QED
    BY <1>2, <2>1, Landed
<1>5. sold' \in [Country -> {"absent", "unpriced", "priced"}] /\ repatriation' \subseteq Country
      /\ PriceKeeps
  <2>1. CASE CommitSold(p)
    <3>1. /\ Pending(p, "plan_version_countries") /\ UNCHANGED repatriation
          /\ sold' = [c \in Country |->
               CASE t.op = "insert" /\ c \in t.row /\ t.row \cap Sold = {} -> "unpriced"
                 [] t.op = "delete" /\ c \in t.id   -> "absent"
                 [] t.op = "update" /\ c = t.id /\ c \in Sold -> t.write.price
                 [] OTHER -> sold[c]]
      BY <1>1, <2>1 DEF CommitSold
    <3>2. /\ t.op \in {"insert", "delete", "update"}
          /\ t.op = "update" => t.write.price \in {"unpriced", "priced"}
      BY <1>3 DEF ListRequest
    <3>3. sold' \in [Country -> {"absent", "unpriced", "priced"}]
      BY <3>1, <3>2 DEF CountriesInv, CountriesTypeOK
    <3>4. ASSUME NEW c \in Country, sold[c] = "priced", sold'[c] # "priced"
          PROVE  t.op \in {"update", "delete"}
      BY <3>1, <3>2, <3>4 DEF Sold
    <3>5. PriceKeeps
      BY <1>1, <1>4, <3>1, <3>4 DEF PriceKeeps
    <3> QED
      BY <3>1, <3>3, <3>5 DEF CountriesInv, CountriesTypeOK
  <2>2. CASE CommitRepatriation(p)
    <3>1. UNCHANGED sold
      BY <2>2 DEF CommitRepatriation
    <3>2. t.op = "insert" => t.row \subseteq Country
      BY <1>3 DEF ListRequest
    <3>3. repatriation' \subseteq Country
      BY <1>1, <2>2, <3>2 DEF CommitRepatriation, CountriesInv, CountriesTypeOK
    <3> QED
      BY <3>1, <3>3 DEF CountriesInv, CountriesTypeOK, PriceKeeps
  <2> QED
    BY <2>1, <2>2
<1>6. CountriesTypeOK'
  BY <1>3, <1>5 DEF CountriesInv, CountriesTypeOK
<1>7. CodesDiffer'
  <2>1. "countries" \in raced => "countries" \in raced'
    BY <1>4 DEF Elsewhere, CountryTables, Lists
  <2> QED
    BY <1>3, <2>1 DEF CountriesInv, CodesDiffer, Known
<1>8. \A r : /\ NewCountryRequest(r) => NewCountryRequest(r)'
             /\ CountryRequest(r) => CountryRequest(r)'
  BY <1>3 DEF NewCountryRequest, CountryRequest, Known
<1>9. \A q \in Proc : Pending(q, "countries")' =>
         NewCountryRequest(request[q])' \/ CountryRequest(request[q])'
  <2>1. "countries" \in CountryTables \ {u}
    BY DEF CountryTables, Lists
  <2> QED
    BY <1>4, <1>8, <2>1 DEF CountriesInv, Pending, Elsewhere
<1>10. ASSUME NEW q \in Proc, request'[q].table \in Lists PROVE ListRequest(request'[q])
  <2>1. CASE request'[q].table = u
    <3>1. PICK s : s = request[q]
      OBVIOUS
    <3>2. ListRequest(s) /\ request'[q] = [s EXCEPT !.fresh = FALSE]
      BY <1>4, <2>1, <3>1 DEF CountriesInv
    <3> QED
      BY <3>2, ListStale
  <2>2. CASE request'[q].table # u
    BY <1>4, <1>10, <2>2 DEF CountriesInv, Elsewhere, CountryTables, Lists
  <2> QED
    BY <2>1, <2>2
<1> QED
  BY <1>5, <1>6, <1>7, <1>9, <1>10 DEF CountriesInv

\* Every step on countries keeps the invariant and the prices.
LEMMA CountriesStep ==
    ASSUME RequestsOK, CountriesInv, NEW p \in Proc,
           CountriesNext(p) \/ SoldNext(p) \/ RepatriationNext(p)
    PROVE  /\ CountriesInv' /\ PriceKeeps /\ RequestsOK'
           /\ \A T \in SUBSET Table : T \cap CountryTables = {} => Elsewhere(T)
<1>1. ASSUME \/ \E z \in Zone : ToggleZone(z)
             \/ \E z \in Zone, c \in Country : AttachToZone(z, c) \/ DetachFromZone(z, c)
      PROVE  CountriesInv' /\ PriceKeeps /\ RequestsOK' /\ \A T \in SUBSET Table : Elsewhere(T)
  <2>1. /\ UNCHANGED request /\ UNCHANGED raced /\ UNCHANGED code /\ UNCHANGED sold
        /\ UNCHANGED repatriation
    BY <1>1 DEF ToggleZone, AttachToZone, DetachFromZone
  <2>2. zones' \in [Zone -> [active : BOOLEAN, countries : SUBSET Country]]
    <3>1. ASSUME NEW z \in Zone, ToggleZone(z)
          PROVE  zones' \in [Zone -> [active : BOOLEAN, countries : SUBSET Country]]
      BY <3>1 DEF CountriesInv, CountriesTypeOK, ToggleZone
    <3>2. ASSUME NEW z \in Zone, NEW c \in Country, AttachToZone(z, c) \/ DetachFromZone(z, c)
          PROVE  zones' \in [Zone -> [active : BOOLEAN, countries : SUBSET Country]]
      BY <3>2 DEF CountriesInv, CountriesTypeOK, AttachToZone, DetachFromZone
    <3> QED
      BY <1>1, <3>1, <3>2
  <2>3. \A r : /\ NewCountryRequest(r) => NewCountryRequest(r)'
               /\ CountryRequest(r) => CountryRequest(r)'
    BY <2>1 DEF NewCountryRequest, CountryRequest, Known
  <2>4. CountriesTypeOK' /\ CodesDiffer'
    BY <2>1, <2>2 DEF CountriesInv, CountriesTypeOK, CodesDiffer, Known
  <2>5. CountriesInv'
    BY <2>1, <2>3, <2>4 DEF CountriesInv, Pending
  <2> QED
    BY <2>1, <2>5 DEF RequestsOK, Elsewhere, Free, PriceKeeps
<1>2. ASSUME CountryBegins(p)
      PROVE  /\ CountriesInv' /\ PriceKeeps /\ RequestsOK'
             /\ \A T \in SUBSET Table : T \cap CountryTables = {} => Elsewhere(T)
  <2>1. UNCHANGED <<raced, countryVars>>
    BY <1>2, CountriesBegun
  <2>2. PICK r : Go(p, r) /\ (NewCountryRequest(r) \/ CountryRequest(r) \/ ListRequest(r))
    BY <1>2, CountriesBegun
  <2>3. r.table \in CountryTables /\ "table" \in DOMAIN r
    BY <2>2 DEF NewCountryRequest, CountryRequest, ListRequest, Lists, CountryTables
  <2>4. CountriesInv'
    BY <2>1, <2>2, CountriesBegin
  <2>5. r.table \in Table /\ UNCHANGED raced
    BY <2>1, <2>3 DEF Table, CountryTables
  <2>6. PriceKeeps
    BY <2>1 DEF PriceKeeps, countryVars
  <2> QED
    BY <2>2, <2>3, <2>4, <2>5, <2>6, Begun
<1>3. ASSUME CommitCountry(p) \/ CommitSold(p) \/ CommitRepatriation(p)
      PROVE  /\ CountriesInv' /\ PriceKeeps /\ RequestsOK'
             /\ \A T \in SUBSET Table : T \cap CountryTables = {} => Elsewhere(T)
  <2>1. CountriesInv' /\ PriceKeeps
    <3>1. CommitCountry(p) => PriceKeeps
      BY DEF CommitCountry, PriceKeeps
    <3> QED
      BY <1>3, <3>1, CountryCommitted, ListCommitted
  <2>2. \E t \in CountryTables : Pending(p, t) /\ Commit(p, t)
    BY <1>3 DEF CommitCountry, CommitSold, CommitRepatriation, CountryTables
  <2>3. CountryTables \subseteq Table
    BY DEF Table, CountryTables
  <2> QED
    BY <2>1, <2>2, <2>3, Landed
<1>4. CountriesNext(p) \/ SoldNext(p) \/ RepatriationNext(p) =>
         \/ \E z \in Zone : ToggleZone(z)
         \/ \E z \in Zone, c \in Country : AttachToZone(z, c) \/ DetachFromZone(z, c)
         \/ CountryBegins(p)
         \/ CommitCountry(p) \/ CommitSold(p) \/ CommitRepatriation(p)
  BY DEF CountriesNext, SoldNext, RepatriationNext, CountryBegins
<1> QED
  BY <1>1, <1>2, <1>3, <1>4

-----------------------------------------------------------------------------
(***************************************************************************)
(* The templates.                                                          *)
(***************************************************************************)
NewTemplateRequest(r) ==
    r \in [table : {"templates"}, op : {"insert"}, fresh : BOOLEAN,
           row : [slug : Slug, copies : {0, 1}]]

TemplateColumn == ({"slug"} \X Slug) \cup ({"deleted"} \X BOOLEAN)
                     \cup ({"active"} \X (VersionId \cup {NoVersion}))

TemplateRequest(r) ==
    /\ r \in [table : {"templates"}, op : {"update"}, fresh : BOOLEAN, id : Stored,
              write : [named : VersionId \cup {NoVersion}, columns : SUBSET TemplateColumn]]
    /\ \A v \in VersionId : <<"active", v>> \in r.write.columns =>
          v <= lastVersion /\ versions[v] \in {r.id, "none"}
    /\ r.fresh => /\ r.id \in Live
                  /\ <<"active", NoVersion>> \in r.write.columns =>
                        r.write.named = templates[r.id].active

NewVersionRequest(r) ==
    r \in [table : {"template_versions"}, op : {"insert"}, fresh : BOOLEAN,
           row : [template : Stored]]

OldVersionRequest(r) ==
    r \in [table : {"template_versions"}, op : {"delete"}, fresh : BOOLEAN, id : VersionId]

SlugsDiffer == \A t, u \in Stored : t # u => templates[t].slug # templates[u].slug

TemplatesInv ==
    /\ TemplatesTypeOK
    /\ DOMAIN templates = Template
    /\ ActiveVersionIsOwn
    /\ SlugsDiffer
    /\ \A v \in VersionId : versions[v] # "none" => v <= lastVersion
    /\ \A t \in Stored : templates[t].active <= lastVersion
    /\ \A p \in Proc : Pending(p, "templates") =>
          NewTemplateRequest(request[p]) \/ TemplateRequest(request[p])
    /\ \A p \in Proc : Pending(p, "template_versions") =>
          NewVersionRequest(request[p]) \/ OldVersionRequest(request[p])

TemplateTables == {"templates", "template_versions"}

TemplateRow == [slug : Slug, deleted : BOOLEAN, active : VersionId \cup {NoVersion}]

\* What a commit may do to the row of a template: see DeletedTemplateRests and
\* OnlyNamedVersionIsDeactivated.
TemplatesRest ==
    \A t \in Stored \ Live : templates'[t] # templates[t] =>
       \E p \in Proc : Pending(p, "templates") /\ ~request[p].fresh /\ request'[p] = Idle

NamedIsDeactivated ==
    \A t \in Stored : templates[t].active # NoVersion /\ templates'[t].active = NoVersion =>
       \E p \in Proc : /\ Pending(p, "templates") /\ request'[p] = Idle
                       /\ ~request[p].fresh \/ request[p].write.named = templates[t].active

TemplatesKeep == TemplatesRest /\ NamedIsDeactivated

\* A row with its columns is not the mark of an absent one.
LEMMA RowIsNoNoTemplate ==
    \A row : "deleted" \in DOMAIN row => row # NoTemplate
BY DEF NoTemplate

\* A step that concerns other tables keeps the invariant.
LEMMA TemplatesElsewhere ==
    ASSUME TemplatesInv, Elsewhere(TemplateTables), UNCHANGED templateVars
    PROVE  TemplatesInv'
<1>1. UNCHANGED templates /\ UNCHANGED versions /\ UNCHANGED lastVersion
  BY DEF templateVars
<1>2. Stored' = Stored /\ Live' = Live
  BY <1>1 DEF Stored, Live
<1>3. \A r : /\ NewTemplateRequest(r) => NewTemplateRequest(r)'
             /\ TemplateRequest(r) => TemplateRequest(r)'
             /\ NewVersionRequest(r) => NewVersionRequest(r)'
             /\ OldVersionRequest(r) => OldVersionRequest(r)'
  BY <1>1, <1>2
     DEF NewTemplateRequest, TemplateRequest, NewVersionRequest, OldVersionRequest
<1>4. \A q \in Proc : request'[q].table \in TemplateTables => request'[q] = request[q]
  BY DEF Elsewhere
<1>5. \A q \in Proc : Pending(q, "templates")' =>
         NewTemplateRequest(request[q])' \/ TemplateRequest(request[q])'
  BY <1>3, <1>4 DEF TemplatesInv, Pending, TemplateTables
<1>6. \A q \in Proc : Pending(q, "template_versions")' =>
         NewVersionRequest(request[q])' \/ OldVersionRequest(request[q])'
  BY <1>3, <1>4 DEF TemplatesInv, Pending, TemplateTables
<1>7. TemplatesTypeOK' /\ ActiveVersionIsOwn' /\ SlugsDiffer'
  BY <1>1, <1>2 DEF TemplatesInv, TemplatesTypeOK, ActiveVersionIsOwn, SlugsDiffer, Versions
<1> QED
  BY <1>1, <1>2, <1>5, <1>6, <1>7 DEF TemplatesInv

\* So does the begin of a request of the right shape.
LEMMA TemplatesBegin ==
    ASSUME TemplatesInv, RequestsOK, NEW p \in Proc, NEW r, Go(p, r),
           \/ NewTemplateRequest(r) \/ TemplateRequest(r)
           \/ NewVersionRequest(r) \/ OldVersionRequest(r),
           UNCHANGED <<raced, templateVars>>
    PROVE  TemplatesInv'
<1>1. UNCHANGED templates /\ UNCHANGED versions /\ UNCHANGED lastVersion
  BY DEF templateVars
<1>2. Stored' = Stored /\ Live' = Live
  BY <1>1 DEF Stored, Live
<1>3. \A s : /\ NewTemplateRequest(s) => NewTemplateRequest(s)'
             /\ TemplateRequest(s) => TemplateRequest(s)'
             /\ NewVersionRequest(s) => NewVersionRequest(s)'
             /\ OldVersionRequest(s) => OldVersionRequest(s)'
  BY <1>1, <1>2
     DEF NewTemplateRequest, TemplateRequest, NewVersionRequest, OldVersionRequest
<1>4. \A q \in Proc : request'[q] = IF q = p THEN r ELSE request[q]
  BY DEF RequestsOK, Go
<1>5. /\ r.table = "templates" => NewTemplateRequest(r) \/ TemplateRequest(r)
      /\ r.table = "template_versions" => NewVersionRequest(r) \/ OldVersionRequest(r)
  BY DEF NewTemplateRequest, TemplateRequest, NewVersionRequest, OldVersionRequest
<1>6. \A q \in Proc : Pending(q, "templates")' =>
         NewTemplateRequest(request[q])' \/ TemplateRequest(request[q])'
  BY <1>3, <1>4, <1>5 DEF TemplatesInv, Pending
<1>7. \A q \in Proc : Pending(q, "template_versions")' =>
         NewVersionRequest(request[q])' \/ OldVersionRequest(request[q])'
  BY <1>3, <1>4, <1>5 DEF TemplatesInv, Pending
<1>8. TemplatesTypeOK' /\ ActiveVersionIsOwn' /\ SlugsDiffer'
  BY <1>1, <1>2 DEF TemplatesInv, TemplatesTypeOK, ActiveVersionIsOwn, SlugsDiffer, Versions
<1> QED
  BY <1>1, <1>2, <1>6, <1>7, <1>8 DEF TemplatesInv

TemplateBegins(p) ==
    \/ \E s \in Slug : StoreTemplate(p, s)
    \/ \E t \in Template : CloneTemplate(p, t) \/ DestroyTemplate(p, t) \/ StoreVersion(p, t)
    \/ \E t \in Template, s \in Slug : UpdateBasic(p, t, s)
    \/ \E t \in Template, v \in VersionId :
         \/ Activate(p, t, v) \/ Deactivate(p, t, v)
         \/ CloneVersion(p, t, v) \/ DestroyVersion(p, t, v)

\* A request that saves what it changed in the row that it read.
LEMMA Saved ==
    ASSUME TemplatesInv, NEW p \in Proc, NEW t \in Live, NEW new \in TemplateRow,
           NEW named \in VersionId \cup {NoVersion}, Save(p, named, t, new),
           new.active # templates[t].active /\ new.active # NoVersion =>
              new.active \in Versions(t),
           new.active # templates[t].active /\ new.active = NoVersion =>
              named = templates[t].active
    PROVE  \E r : Go(p, r) /\ TemplateRequest(r)
<1>1. /\ t \in Stored /\ t \in Template /\ templates[t] \in TemplateRow
      /\ DOMAIN templates[t] = {"slug", "deleted", "active"}
  BY DEF Live, Stored, TemplatesInv, TemplatesTypeOK, TemplateRow
<1>2. PICK columns : columns = Changes(templates[t], new)
  OBVIOUS
<1>3. \A w \in columns : \/ w = <<"slug", new.slug>>
                         \/ w = <<"deleted", new.deleted>>
                         \/ w = <<"active", new.active>> /\ new.active # templates[t].active
  BY <1>1, <1>2 DEF Changes
<1>4. columns \in SUBSET TemplateColumn
  BY <1>3 DEF TemplateColumn, TemplateRow
<1>5. ASSUME NEW v \in VersionId \cup {NoVersion}, <<"active", v>> \in columns
      PROVE  v = new.active /\ v # templates[t].active
  BY <1>3, <1>5
<1>6. \A v \in VersionId : <<"active", v>> \in columns => v <= lastVersion /\ versions[v] = t
  <2>1. \A v \in VersionId : v # NoVersion
    BY DEF VersionId, NoVersion
  <2>2. ASSUME NEW v \in VersionId, <<"active", v>> \in columns
        PROVE  v <= lastVersion /\ versions[v] = t
    <3>1. v \in Versions(t)
      BY <1>5, <2>1, <2>2
    <3> QED
      BY <1>1, <3>1, TemplateAssumption DEF Versions, TemplatesInv
  <2> QED
    BY <2>2
<1>7. <<"active", NoVersion>> \in columns => named = templates[t].active
  BY <1>5
<1> DEFINE r == Update("templates", t, [named |-> named, columns |-> columns])
<1>8. Go(p, r)
  BY <1>2 DEF Save
<1>9. TemplateRequest(r)
  <2>1. r \in [table : {"templates"}, op : {"update"}, fresh : BOOLEAN, id : Stored,
               write : [named : VersionId \cup {NoVersion}, columns : SUBSET TemplateColumn]]
    BY <1>1, <1>4 DEF Update
  <2>2. r.id = t /\ r.write.columns = columns /\ r.write.named = named
    BY DEF Update
  <2> HIDE DEF r
  <2> QED
    BY <1>6, <1>7, <2>1, <2>2 DEF TemplateRequest
<1> QED
  BY <1>8, <1>9

\* Every operation on templates begins a request of the right shape.
LEMMA TemplatesBegun ==
    ASSUME TemplatesInv, RequestsOK, NEW p \in Proc, TemplateBegins(p)
    PROVE  /\ UNCHANGED <<raced, templateVars>>
           /\ \E r : /\ Go(p, r)
                     /\ \/ NewTemplateRequest(r) \/ TemplateRequest(r)
                        \/ NewVersionRequest(r) \/ OldVersionRequest(r)
<1> DEFINE Good == \E r : /\ Go(p, r)
                          /\ \/ NewTemplateRequest(r) \/ TemplateRequest(r)
                             \/ NewVersionRequest(r) \/ OldVersionRequest(r)
<1>1. ASSUME NEW s \in Slug, NEW n \in {0, 1},
             Go(p, Insert("templates", [slug |-> s, copies |-> n]))
      PROVE  Good
  <2>1. NewTemplateRequest(Insert("templates", [slug |-> s, copies |-> n]))
    BY DEF NewTemplateRequest, Insert
  <2> QED
    BY <1>1, <2>1
<1>2. ASSUME NEW t \in Stored, Go(p, Insert("template_versions", [template |-> t]))
      PROVE  Good
  <2>1. NewVersionRequest(Insert("template_versions", [template |-> t]))
    BY DEF NewVersionRequest, Insert
  <2> QED
    BY <1>2, <2>1
<1>3. ASSUME NEW v \in VersionId, Go(p, Delete("template_versions", v))
      PROVE  Good
  <2>1. OldVersionRequest(Delete("template_versions", v))
    BY DEF OldVersionRequest, Delete
  <2> QED
    BY <1>3, <2>1
<1>4. \A t \in Live : t \in Stored /\ templates[t] \in TemplateRow
  BY DEF Live, TemplatesInv, TemplatesTypeOK, TemplateRow
<1>5. ASSUME NEW t \in Template, NEW v \in Versions(t) PROVE t \in Stored /\ v \in VersionId
  BY TemplateAssumption DEF Versions, TemplatesInv, TemplatesTypeOK
<1>6. UNCHANGED <<raced, templateVars>>
  BY DEF TemplateBegins, StoreTemplate, CloneTemplate, DestroyTemplate, StoreVersion, UpdateBasic,
     Activate, Deactivate, CloneVersion, DestroyVersion
<1>7. ASSUME NEW s \in Slug, StoreTemplate(p, s) PROVE Good
  BY <1>1, <1>7 DEF StoreTemplate
<1>8. ASSUME NEW t \in Template, CloneTemplate(p, t) PROVE Good
  <2>1. PICK s \in Slug : Go(p, Insert("templates",
            [slug |-> s, copies |-> IF templates[t].active = NoVersion THEN 0 ELSE 1]))
    BY <1>8 DEF CloneTemplate
  <2> QED
    BY <1>1, <2>1
<1>9. ASSUME NEW t \in Template, StoreVersion(p, t) PROVE Good
  BY <1>2, <1>4, <1>9 DEF StoreVersion, GetTemplate
<1>10. ASSUME NEW t \in Template, NEW v \in VersionId, CloneVersion(p, t, v) PROVE Good
  BY <1>2, <1>5, <1>10 DEF CloneVersion
<1>11. ASSUME NEW t \in Template, NEW v \in VersionId, DestroyVersion(p, t, v) PROVE Good
  BY <1>3, <1>11 DEF DestroyVersion
<1>12. ASSUME NEW t \in Template, DestroyTemplate(p, t) PROVE Good
  <2>1. PICK new : new = [templates[t] EXCEPT !.deleted = TRUE]
    OBVIOUS
  <2>2. t \in Live /\ Save(p, NoVersion, t, new)
    BY <1>12, <2>1 DEF DestroyTemplate, GetTemplate
  <2>3. new \in TemplateRow /\ new.active = templates[t].active
    BY <1>4, <2>1, <2>2 DEF TemplateRow
  <2> QED
    BY <2>2, <2>3, Saved
<1>13. ASSUME NEW t \in Template, NEW s \in Slug, UpdateBasic(p, t, s) PROVE Good
  <2>1. PICK new : new = [templates[t] EXCEPT !.slug = s]
    OBVIOUS
  <2>2. t \in Live /\ Save(p, NoVersion, t, new)
    BY <1>13, <2>1 DEF UpdateBasic, GetTemplate
  <2>3. new \in TemplateRow /\ new.active = templates[t].active
    BY <1>4, <2>1, <2>2 DEF TemplateRow
  <2> QED
    BY <2>2, <2>3, Saved
<1>14. ASSUME NEW t \in Template, NEW v \in VersionId, Activate(p, t, v) PROVE Good
  <2>1. PICK new : new = [templates[t] EXCEPT !.active = v]
    OBVIOUS
  <2>2. t \in Live /\ Save(p, NoVersion, t, new) /\ v \in Versions(t)
    BY <1>14, <2>1 DEF Activate, GetTemplate
  <2>3. new \in TemplateRow /\ new.active = v
    BY <1>4, <2>1, <2>2 DEF TemplateRow
  <2>4. v # NoVersion
    BY DEF VersionId, NoVersion
  <2> QED
    BY <2>2, <2>3, <2>4, Saved
<1>15. ASSUME NEW t \in Template, NEW v \in VersionId, Deactivate(p, t, v) PROVE Good
  <2>1. PICK new : new = [templates[t] EXCEPT !.active = NoVersion]
    OBVIOUS
  <2>2. t \in Live /\ Save(p, v, t, new) /\ templates[t].active = v
    BY <1>15, <2>1 DEF Deactivate, GetTemplate
  <2>3. new \in TemplateRow /\ new.active = NoVersion
    BY <1>4, <2>1, <2>2 DEF TemplateRow
  <2> QED
    BY <2>2, <2>3, Saved
<1> HIDE DEF Good
<1>16. Good
  BY <1>7, <1>8, <1>9, <1>10, <1>11, <1>12, <1>13, <1>14, <1>15 DEF TemplateBegins
<1> QED
  BY <1>6, <1>16 DEF Good

\* Versions that are given are kept or deleted, never given to another template.
VersionsOnly ==
    /\ Stored \subseteq Stored' /\ lastVersion' \in Nat /\ lastVersion <= lastVersion'
    /\ \A v \in VersionId : v <= lastVersion => versions'[v] \in {versions[v], "none"}

\* What an update may rely on survives new and deleted versions.
LEMMA TemplateRequestKept ==
    ASSUME TemplatesInv, VersionsOnly, NEW r, TemplateRequest(r), r.fresh => UNCHANGED templates
    PROVE  TemplateRequest(r)'
<1>1. r \in [table : {"templates"}, op : {"update"}, fresh : BOOLEAN, id : Stored',
             write : [named : VersionId \cup {NoVersion}, columns : SUBSET TemplateColumn]]
  BY DEF TemplateRequest, VersionsOnly
<1>2. \A v \in VersionId : <<"active", v>> \in r.write.columns =>
         v <= lastVersion' /\ versions'[v] \in {r.id, "none"}
  <2> SUFFICES ASSUME NEW v \in VersionId, <<"active", v>> \in r.write.columns
               PROVE  v <= lastVersion' /\ versions'[v] \in {r.id, "none"}
    OBVIOUS
  <2>1. v <= lastVersion /\ versions[v] \in {r.id, "none"}
    BY DEF TemplateRequest
  <2>2. v \in Nat /\ lastVersion \in Nat /\ lastVersion' \in Nat /\ lastVersion <= lastVersion'
    BY MaxVersionsAssumption DEF VersionId, TemplatesInv, TemplatesTypeOK, VersionsOnly
  <2> QED
    BY <2>1, <2>2 DEF VersionsOnly
<1>3. UNCHANGED templates => Live' = Live
  BY DEF Live, Stored
<1>4. r.fresh => /\ r.id \in Live'
                 /\ <<"active", NoVersion>> \in r.write.columns =>
                       r.write.named = templates'[r.id].active
  BY <1>3 DEF TemplateRequest
<1> QED
  BY <1>1, <1>2, <1>4 DEF TemplateRequest

\* A stale update keeps its shape.
LEMMA TemplateStale ==
    ASSUME NEW r, TemplateRequest(r)
    PROVE  TemplateRequest([r EXCEPT !.fresh = FALSE])
<1>1. PICK w \in [named : VersionId \cup {NoVersion}, columns : SUBSET TemplateColumn] :
         w = r.write
  BY DEF TemplateRequest
<1>2. PICK s : s = [r EXCEPT !.fresh = FALSE]
  OBVIOUS
<1>3. /\ s \in [table : {"templates"}, op : {"update"}, fresh : BOOLEAN, id : Stored,
                write : [named : VersionId \cup {NoVersion}, columns : SUBSET TemplateColumn]]
      /\ s.write = r.write /\ s.id = r.id /\ ~s.fresh
  BY <1>1, <1>2 DEF TemplateRequest
<1> QED
  BY <1>2, <1>3 DEF TemplateRequest

\* So does a stale insert.
LEMMA NewTemplateStale ==
    ASSUME NEW r, NewTemplateRequest(r)
    PROVE  NewTemplateRequest([r EXCEPT !.fresh = FALSE])
<1>1. PICK w \in [slug : Slug, copies : {0, 1}] : w = r.row
  BY DEF NewTemplateRequest
<1> QED
  BY <1>1 DEF NewTemplateRequest

\* So does a stale insert or delete of a version.
LEMMA VersionStale ==
    ASSUME NEW r, NewVersionRequest(r) \/ OldVersionRequest(r), Stored \subseteq Stored'
    PROVE  /\ NewVersionRequest(r)' \/ OldVersionRequest(r)'
           /\ \/ NewVersionRequest([r EXCEPT !.fresh = FALSE])'
              \/ OldVersionRequest([r EXCEPT !.fresh = FALSE])'
<1>1. CASE NewVersionRequest(r)
  <2>1. PICK w \in [template : Stored] : w = r.row
    BY <1>1 DEF NewVersionRequest
  <2>2. w \in [template : Stored']
    BY <2>1
  <2> QED
    BY <1>1, <2>1, <2>2 DEF NewVersionRequest
<1>2. CASE OldVersionRequest(r)
  BY <1>2 DEF OldVersionRequest
<1> QED
  BY <1>1, <1>2

\* A template is inserted, with a version of its own if it copies one.
LEMMA TemplateInserted ==
    ASSUME TemplatesInv, NEW r, NewTemplateRequest(r), lastVersion + r.row.copies <= MaxVersions,
           NEW t \in Template \ Stored, NEW v, v = lastVersion + 1,
           \A u \in Stored : templates[u].slug # r.row.slug,
           NEW row, row = [slug |-> r.row.slug, deleted |-> FALSE,
                           active |-> IF r.row.copies = 1 THEN v ELSE NoVersion],
           templates' = [templates EXCEPT ![t] = row],
           versions' = IF r.row.copies = 1 THEN [versions EXCEPT ![v] = t] ELSE versions,
           lastVersion' = lastVersion + r.row.copies
    PROVE  /\ TemplatesTypeOK' /\ ActiveVersionIsOwn' /\ SlugsDiffer' /\ VersionsOnly
           /\ DOMAIN templates' = Template
           /\ \A u \in VersionId : versions'[u] # "none" => u <= lastVersion'
           /\ \A u \in Stored' : templates'[u].active <= lastVersion'
           /\ \A u \in Stored : templates'[u] = templates[u]
<1>1. /\ r.row.copies \in {0, 1} /\ r.row.slug \in Slug /\ lastVersion \in 0 .. MaxVersions
      /\ r.row.copies = 1 => v \in VersionId
  BY MaxVersionsAssumption DEF NewTemplateRequest, TemplatesInv, TemplatesTypeOK, VersionId
<1>2. row \in TemplateRow /\ row # NoTemplate
  BY <1>1, RowIsNoNoTemplate DEF TemplateRow
<1>3. \A u \in Template : templates'[u] = IF u = t THEN row ELSE templates[u]
  BY DEF TemplatesInv
<1>4. Stored' = Stored \cup {t}
  BY <1>2, <1>3 DEF Stored
<1>5. \A u \in VersionId : versions'[u] = IF r.row.copies = 1 /\ u = v THEN t ELSE versions[u]
  BY <1>1 DEF TemplatesInv, TemplatesTypeOK
<1>6. lastVersion' \in 0 .. MaxVersions
  BY <1>1, MaxVersionsAssumption
<1>7. versions' \in [VersionId -> Stored' \cup {"none"}]
  BY <1>1, <1>4 DEF TemplatesInv, TemplatesTypeOK
<1>8. TemplatesTypeOK'
  BY <1>2, <1>3, <1>4, <1>6, <1>7 DEF TemplatesInv, TemplatesTypeOK, TemplateRow
<1>9. VersionsOnly
  <2>1. \A u \in VersionId : u <= lastVersion => u # v
    BY <1>1, MaxVersionsAssumption DEF VersionId
  <2>2. lastVersion' \in Nat /\ lastVersion <= lastVersion'
    BY <1>1, MaxVersionsAssumption
  <2> QED
    BY <1>4, <1>5, <2>1, <2>2 DEF VersionsOnly
<1>10. SlugsDiffer'
  BY <1>3, <1>4 DEF TemplatesInv, SlugsDiffer, Stored
<1>11. \A u \in Stored : templates'[u] = templates[u]
  BY <1>3 DEF Stored
<1>12. \A u \in VersionId : versions'[u] # "none" => u <= lastVersion'
  BY <1>1, <1>5, MaxVersionsAssumption DEF TemplatesInv, VersionId
<1>13. row.active <= lastVersion' /\ row.active \in VersionId => row.active = v /\ r.row.copies = 1
  BY <1>1, MaxVersionsAssumption DEF NoVersion, VersionId
<1>14. \A u \in Stored' : templates'[u].active <= lastVersion'
  <2>1. row.active <= lastVersion'
    BY <1>1, MaxVersionsAssumption DEF NoVersion
  <2>2. ASSUME NEW u \in Stored PROVE templates[u].active <= lastVersion'
    <3>1. PICK a \in Nat : a = templates[u].active
      BY MaxVersionsAssumption DEF TemplatesInv, TemplatesTypeOK, VersionId, NoVersion
    <3>2. a <= lastVersion
      BY <3>1 DEF TemplatesInv
    <3> QED
      BY <1>1, <3>1, <3>2, MaxVersionsAssumption
  <2> QED
    BY <1>3, <1>4, <1>11, <2>1, <2>2
<1>15. ActiveVersionIsOwn'
  <2> SUFFICES ASSUME NEW u \in Stored', templates'[u].active # NoVersion
               PROVE  /\ templates'[u].active \in VersionId
                      /\ versions'[templates'[u].active] = u
    BY DEF ActiveVersionIsOwn, Versions
  <2>1. PICK a : a = templates'[u].active
    OBVIOUS
  <2>2. CASE u = t
    <3>1. t \in Template /\ a = row.active
      BY <1>3, <2>1, <2>2
    <3>2. r.row.copies = 1 /\ a = v
      BY <1>1, <2>1, <3>1
    <3> QED
      BY <1>1, <1>5, <2>1, <2>2, <3>2
  <2>3. CASE u # t
    <3>1. u \in Stored /\ a = templates[u].active
      BY <1>4, <1>11, <2>1, <2>3
    <3>2. a \in VersionId /\ versions[a] = u /\ a <= lastVersion
      BY <2>1, <3>1 DEF TemplatesInv, ActiveVersionIsOwn, Versions
    <3>3. a # v
      BY <1>1, <3>2, MaxVersionsAssumption DEF VersionId
    <3> QED
      BY <1>5, <2>1, <3>2, <3>3
  <2> QED
    BY <2>2, <2>3
<1> QED
  BY <1>8, <1>9, <1>10, <1>11, <1>12, <1>14, <1>15 DEF TemplatesInv

\* The columns of an update are written into the row that is there now.
LEMMA TemplateUpdated ==
    ASSUME TemplatesInv, NEW r, TemplateRequest(r),
           NEW row, row = Merge(r.write.columns, templates[r.id]),
           templates' = IF Lawful(r.id, row) THEN [templates EXCEPT ![r.id] = row] ELSE templates,
           UNCHANGED versions, UNCHANGED lastVersion
    PROVE  /\ TemplatesTypeOK' /\ ActiveVersionIsOwn' /\ SlugsDiffer' /\ VersionsOnly
           /\ DOMAIN templates' = Template
           /\ \A u \in VersionId : versions'[u] # "none" => u <= lastVersion'
           /\ \A u \in Stored' : templates'[u].active <= lastVersion'
           /\ \A u \in Stored : u # r.id => templates'[u] = templates[u]
           /\ templates'[r.id].active = NoVersion /\ templates[r.id].active # NoVersion =>
                 <<"active", NoVersion>> \in r.write.columns
<1> DEFINE t == r.id
<1>1. /\ t \in Stored /\ t \in Template /\ templates[t] \in TemplateRow
      /\ DOMAIN templates[t] = {"slug", "deleted", "active"}
      /\ r.write.columns \subseteq TemplateColumn
  BY DEF TemplateRequest, Stored, TemplatesInv, TemplatesTypeOK, TemplateRow
<1>2. \A w \in r.write.columns : w = <<w[1], w[2]>>
  BY <1>1 DEF TemplateColumn
<1>3. /\ DOMAIN row = {"slug", "deleted", "active"}
      /\ row.slug = templates[t].slug \/ <<"slug", row.slug>> \in r.write.columns
      /\ row.deleted = templates[t].deleted \/ <<"deleted", row.deleted>> \in r.write.columns
      /\ row.active = templates[t].active \/ <<"active", row.active>> \in r.write.columns
  <2> HIDE DEF t
  <2>1. \A f \in DOMAIN templates[t] :
           /\ DOMAIN row = DOMAIN templates[t]
           /\ row[f] = templates[t][f] \/ <<f, row[f]>> \in r.write.columns
    BY <1>1, <1>2, MergeColumn DEF t
  <2> QED
    BY <1>1, <2>1
<1>4. row \in TemplateRow
  <2>1. row.slug \in Slug
    BY <1>1, <1>3 DEF TemplateColumn, TemplateRow
  <2>2. row.deleted \in BOOLEAN
    BY <1>1, <1>3 DEF TemplateColumn, TemplateRow
  <2>3. row.active \in VersionId \cup {NoVersion}
    BY <1>1, <1>3 DEF TemplateColumn, TemplateRow
  <2>4. row = [f \in {"slug", "deleted", "active"} |-> row[f]]
    BY <1>1 DEF Merge
  <2>5. row = [slug |-> row.slug, deleted |-> row.deleted, active |-> row.active]
    BY <2>4
  <2> QED
    BY <2>1, <2>2, <2>3, <2>5 DEF TemplateRow
<1>5. CASE ~Lawful(t, row)
  <2>1. UNCHANGED templates
    BY <1>5
  <2>2. Stored' = Stored
    BY <2>1 DEF Stored
  <2>3. lastVersion \in Nat
    BY MaxVersionsAssumption DEF TemplatesInv, TemplatesTypeOK
  <2> QED
    BY <2>1, <2>2, <2>3
       DEF TemplatesInv, TemplatesTypeOK, ActiveVersionIsOwn, SlugsDiffer, Versions, VersionsOnly
<1>6. CASE Lawful(t, row)
  <2>1. \A u \in Template : templates'[u] = IF u = t THEN row ELSE templates[u]
    BY <1>6 DEF TemplatesInv
  <2>2. row # NoTemplate
    BY <1>3, RowIsNoNoTemplate
  <2>3. Stored' = Stored
    BY <1>1, <2>1, <2>2 DEF Stored
  <2>4. row.active # NoVersion => /\ row.active \in VersionId /\ versions[row.active] = t
                                  /\ row.active <= lastVersion
    <3> SUFFICES ASSUME row.active # NoVersion
                 PROVE  /\ row.active \in VersionId /\ versions[row.active] = t
                        /\ row.active <= lastVersion
      OBVIOUS
    <3>1. row.active \in VersionId /\ versions[row.active] # "none"
      BY <1>4, <1>6 DEF Lawful, TemplateRow
    <3>2. CASE row.active = templates[t].active
      BY <1>1, <3>1, <3>2 DEF TemplatesInv, ActiveVersionIsOwn, Versions
    <3>3. CASE row.active # templates[t].active
      BY <1>3, <3>1, <3>3 DEF TemplateRequest
    <3> QED
      BY <3>2, <3>3
  <2>5. TemplatesTypeOK'
    BY <1>4, <2>1, <2>3 DEF TemplatesInv, TemplatesTypeOK, TemplateRow, Stored
  <2>6. SlugsDiffer'
    BY <1>1, <1>6, <2>1, <2>3 DEF TemplatesInv, SlugsDiffer, Lawful, Stored
  <2>7. VersionsOnly
    <3>1. lastVersion \in Nat
      BY MaxVersionsAssumption DEF TemplatesInv, TemplatesTypeOK
    <3> QED
      BY <2>3, <3>1 DEF VersionsOnly
  <2>8. \A u \in Stored : u # t => templates'[u] = templates[u]
    BY <2>1 DEF Stored
  <2>9. templates'[t] = row
    BY <1>1, <2>1
  <2>10. ActiveVersionIsOwn'
    BY <2>3, <2>4, <2>8, <2>9 DEF TemplatesInv, ActiveVersionIsOwn, Versions
  <2>11. \A u \in Stored' : templates'[u].active <= lastVersion'
    <3>1. NoVersion <= lastVersion
      BY MaxVersionsAssumption DEF TemplatesInv, TemplatesTypeOK, NoVersion
    <3> QED
      BY <2>3, <2>4, <2>8, <2>9, <3>1 DEF TemplatesInv
  <2>12. DOMAIN templates' = Template
    BY DEF TemplatesInv
  <2> QED
    BY <1>3, <2>5, <2>6, <2>7, <2>8, <2>9, <2>10, <2>11, <2>12 DEF TemplatesInv
<1> QED
  BY <1>5, <1>6

\* The commit to templates keeps the invariant, whoever was overtaken.
LEMMA TemplateCommitted ==
    ASSUME RequestsOK, TemplatesInv, NEW p \in Proc, CommitTemplate(p)
    PROVE  TemplatesInv' /\ TemplatesKeep
<1>1. PICK r : r = request[p]
  OBVIOUS
<1>2. /\ NewTemplateRequest(r) \/ TemplateRequest(r)
      /\ Pending(p, "templates") /\ Commit(p, "templates")
  BY <1>1 DEF CommitTemplate, TemplatesInv
<1>3. /\ request'[p] = Idle
      /\ \A q \in Proc : Pending(q, "templates")' =>
            Pending(q, "templates") /\ request'[q] = [request[q] EXCEPT !.fresh = FALSE]
      /\ \A q \in Proc : Pending(q, "template_versions")' => request'[q] = request[q]
  <2>1. {"template_versions"} \in SUBSET Table /\ "templates" \in Table
        /\ "templates" \notin {"template_versions"}
    BY DEF Table
  <2>2. Elsewhere({"template_versions"})
    BY <1>2, <2>1, Landed
  <2> QED
    BY <1>2, <2>1, <2>2, Landed DEF Pending, Elsewhere
<1>4. /\ TemplatesTypeOK' /\ ActiveVersionIsOwn' /\ SlugsDiffer' /\ VersionsOnly
      /\ DOMAIN templates' = Template
      /\ \A u \in VersionId : versions'[u] # "none" => u <= lastVersion'
      /\ \A u \in Stored' : templates'[u].active <= lastVersion'
      /\ TemplatesKeep
  <2>1. ASSUME UNCHANGED templateVars
        PROVE  /\ TemplatesTypeOK' /\ ActiveVersionIsOwn' /\ SlugsDiffer' /\ VersionsOnly
               /\ DOMAIN templates' = Template
               /\ \A u \in VersionId : versions'[u] # "none" => u <= lastVersion'
               /\ \A u \in Stored' : templates'[u].active <= lastVersion'
               /\ TemplatesKeep
    <3>1. UNCHANGED templates /\ UNCHANGED versions /\ UNCHANGED lastVersion
      BY <2>1 DEF templateVars
    <3>2. Stored' = Stored /\ lastVersion \in Nat
      BY <3>1, MaxVersionsAssumption DEF Stored, TemplatesInv, TemplatesTypeOK
    <3> QED
      BY <3>1, <3>2 DEF TemplatesInv, TemplatesTypeOK, ActiveVersionIsOwn, SlugsDiffer, Versions,
         VersionsOnly, TemplatesKeep, TemplatesRest, NamedIsDeactivated
  <2>2. CASE NewTemplateRequest(r)
    <3>1. r.op = "insert"
      BY <2>2 DEF NewTemplateRequest
    <3>2. PICK v : v = lastVersion + 1
      OBVIOUS
    <3>3. PICK row : row = [slug |-> r.row.slug, deleted |-> FALSE,
                            active |-> IF r.row.copies = 1 THEN v ELSE NoVersion]
      OBVIOUS
    <3>4. lastVersion + r.row.copies <= MaxVersions
      BY <1>1, <3>1 DEF CommitTemplate
    <3>5. PICK t \in Template \ Stored :
             IF \E u \in Stored : templates[u].slug = row.slug
             THEN UNCHANGED templateVars
             ELSE /\ templates' = [templates EXCEPT ![t] = row]
                  /\ versions' = IF r.row.copies = 1 THEN [versions EXCEPT ![v] = t] ELSE versions
                  /\ lastVersion' = lastVersion + r.row.copies
      BY <1>1, <3>1, <3>2, <3>3 DEF CommitTemplate
    <3>6. CASE \E u \in Stored : templates[u].slug = row.slug
      BY <2>1, <3>5, <3>6
    <3>7. CASE ~ \E u \in Stored : templates[u].slug = row.slug
      <4>1. /\ TemplatesTypeOK' /\ ActiveVersionIsOwn' /\ SlugsDiffer' /\ VersionsOnly
            /\ DOMAIN templates' = Template
            /\ \A u \in VersionId : versions'[u] # "none" => u <= lastVersion'
            /\ \A u \in Stored' : templates'[u].active <= lastVersion'
            /\ \A u \in Stored : templates'[u] = templates[u]
        <5>1. row.slug = r.row.slug
          BY <3>3
        <5>2. \A u \in Stored : templates[u].slug # r.row.slug
          BY <3>7, <5>1
        <5> QED
          BY <2>2, <3>2, <3>3, <3>4, <3>5, <3>7, <5>2, TemplateInserted
      <4>2. TemplatesKeep
        BY <4>1 DEF TemplatesKeep, TemplatesRest, NamedIsDeactivated, Live
      <4> QED
        BY <4>1, <4>2
    <3> QED
      BY <3>6, <3>7
  <2>3. CASE TemplateRequest(r)
    <3>1. r.op = "update"
      BY <2>3 DEF TemplateRequest
    <3>2. PICK row : row = Merge(r.write.columns, templates[r.id])
      OBVIOUS
    <3>3. /\ templates' = IF Lawful(r.id, row) THEN [templates EXCEPT ![r.id] = row] ELSE templates
          /\ UNCHANGED versions /\ UNCHANGED lastVersion
      BY <1>1, <3>1, <3>2 DEF CommitTemplate
    <3>4. /\ TemplatesTypeOK' /\ ActiveVersionIsOwn' /\ SlugsDiffer' /\ VersionsOnly
          /\ DOMAIN templates' = Template
          /\ \A u \in VersionId : versions'[u] # "none" => u <= lastVersion'
          /\ \A u \in Stored' : templates'[u].active <= lastVersion'
          /\ \A u \in Stored : u # r.id => templates'[u] = templates[u]
          /\ templates'[r.id].active = NoVersion /\ templates[r.id].active # NoVersion =>
                <<"active", NoVersion>> \in r.write.columns
      BY <2>3, <3>2, <3>3, TemplateUpdated
    <3>5. r.fresh => /\ r.id \in Live
                     /\ <<"active", NoVersion>> \in r.write.columns =>
                           r.write.named = templates[r.id].active
      BY <2>3 DEF TemplateRequest
    <3>6. TemplatesRest
      BY <1>1, <1>2, <1>3, <3>4, <3>5 DEF TemplatesRest
    <3>7. NamedIsDeactivated
      BY <1>1, <1>2, <1>3, <3>4, <3>5 DEF NamedIsDeactivated
    <3> QED
      BY <3>4, <3>6, <3>7 DEF TemplatesKeep
  <2> QED
    BY <1>2, <2>2, <2>3
<1>5. ASSUME NEW q \in Proc, Pending(q, "templates")'
      PROVE  NewTemplateRequest(request[q])' \/ TemplateRequest(request[q])'
  <2>1. PICK s : s = request[q]
    OBVIOUS
  <2>2. PICK u : u = [s EXCEPT !.fresh = FALSE]
    OBVIOUS
  <2>3. /\ NewTemplateRequest(s) \/ TemplateRequest(s)
        /\ request'[q] = u
    BY <1>3, <1>5, <2>1, <2>2 DEF TemplatesInv
  <2>4. NewTemplateRequest(u) \/ TemplateRequest(u)
    BY <2>2, <2>3, NewTemplateStale, TemplateStale
  <2>5. ~u.fresh
    <3>1. "fresh" \in DOMAIN s
      BY <2>3 DEF NewTemplateRequest, TemplateRequest
    <3> QED
      BY <2>2, <3>1
  <2>6. TemplateRequest(u) => TemplateRequest(u)'
    BY <1>4, <2>5, TemplateRequestKept
  <2>7. NewTemplateRequest(u) => NewTemplateRequest(u)'
    BY DEF NewTemplateRequest
  <2> QED
    BY <2>3, <2>4, <2>6, <2>7
<1>6. ASSUME NEW q \in Proc, Pending(q, "template_versions")'
      PROVE  NewVersionRequest(request[q])' \/ OldVersionRequest(request[q])'
  <2>1. PICK s : s = request[q]
    OBVIOUS
  <2>2. /\ NewVersionRequest(s) \/ OldVersionRequest(s)
        /\ request'[q] = s
    BY <1>3, <1>6, <2>1 DEF TemplatesInv, Pending
  <2>3. NewVersionRequest(s)' \/ OldVersionRequest(s)'
    BY <1>4, <2>2, VersionStale DEF VersionsOnly
  <2> QED
    BY <2>2, <2>3
<1> QED
  BY <1>4, <1>5, <1>6 DEF TemplatesInv

\* So does the commit to versions: the active one cannot be deleted.
LEMMA VersionCommitted ==
    ASSUME RequestsOK, TemplatesInv, NEW p \in Proc, CommitVersion(p)
    PROVE  TemplatesInv' /\ TemplatesKeep
<1>1. PICK r : r = request[p]
  OBVIOUS
<1>2. /\ NewVersionRequest(r) \/ OldVersionRequest(r)
      /\ Pending(p, "template_versions") /\ Commit(p, "template_versions")
      /\ UNCHANGED templates /\ Stored' = Stored
  BY <1>1 DEF CommitVersion, TemplatesInv, Stored
<1>3. /\ \A q \in Proc : Pending(q, "template_versions")' =>
            /\ Pending(q, "template_versions")
            /\ request'[q] = [request[q] EXCEPT !.fresh = FALSE]
      /\ \A q \in Proc : Pending(q, "templates")' => request'[q] = request[q]
  <2>1. {"templates"} \in SUBSET Table /\ "template_versions" \in Table
        /\ "template_versions" \notin {"templates"}
    BY DEF Table
  <2>2. Elsewhere({"templates"})
    BY <1>2, <2>1, Landed
  <2> QED
    BY <1>2, <2>1, <2>2, Landed DEF Pending, Elsewhere
<1>4. lastVersion \in Nat /\ MaxVersions \in Nat /\ lastVersion <= MaxVersions
      /\ \A v \in VersionId : v \in Nat /\ v >= 1
  BY MaxVersionsAssumption DEF TemplatesInv, TemplatesTypeOK, VersionId
<1>5. /\ versions' \in [VersionId -> Stored \cup {"none"}] /\ lastVersion' \in 0 .. MaxVersions
      /\ lastVersion <= lastVersion'
      /\ \A v \in VersionId : v <= lastVersion => versions'[v] \in {versions[v], "none"}
      /\ \A v \in VersionId : versions'[v] # "none" => v <= lastVersion'
      /\ \A t \in Stored : templates[t].active # NoVersion =>
            versions'[templates[t].active] = versions[templates[t].active]
  <2>1. CASE NewVersionRequest(r)
    <3>1. r.op = "insert" /\ r.row.template \in Stored
      BY <2>1 DEF NewVersionRequest
    <3>2. PICK n : n = lastVersion
      OBVIOUS
    <3>3. n \in Nat /\ n < MaxVersions /\ lastVersion' = n + 1
          /\ versions' = [versions EXCEPT ![n + 1] = r.row.template]
      BY <1>1, <1>4, <3>1, <3>2 DEF CommitVersion
    <3>4. n + 1 \in VersionId
      BY <3>3, MaxVersionsAssumption DEF VersionId
    <3>5. \A v \in VersionId : versions'[v] = IF v = n + 1 THEN r.row.template ELSE versions[v]
      BY <3>3 DEF TemplatesInv, TemplatesTypeOK
    <3>6. \A v \in VersionId : (v <= n => v # n + 1) /\ (v <= n => v <= n + 1)
      BY <1>4, <3>3
    <3>7. \A t \in Stored : templates[t].active # NoVersion =>
             templates[t].active \in VersionId /\ templates[t].active <= n
      BY <3>2 DEF TemplatesInv, TemplatesTypeOK
    <3>8. versions' \in [VersionId -> Stored \cup {"none"}]
      BY <3>1, <3>3 DEF TemplatesInv, TemplatesTypeOK
    <3>9. lastVersion' \in 0 .. MaxVersions /\ lastVersion <= lastVersion'
      BY <1>4, <3>2, <3>3
    <3>10. \A v \in VersionId : versions[v] # "none" => v <= n
      BY <3>2 DEF TemplatesInv
    <3>11. \A v \in VersionId : v <= n => versions'[v] = versions[v]
      BY <3>5, <3>6
    <3>12. \A v \in VersionId : versions'[v] # "none" => v <= n + 1
      BY <3>3, <3>5, <3>6, <3>10
    <3> QED
      BY <3>2, <3>3, <3>7, <3>8, <3>9, <3>11, <3>12
  <2>2. CASE OldVersionRequest(r)
    <3>1. r.op = "delete" /\ r.id \in VersionId
      BY <2>2 DEF OldVersionRequest
    <3>2. /\ UNCHANGED lastVersion
          /\ versions' = IF \E t \in Stored : templates[t].active = r.id THEN versions
                         ELSE [versions EXCEPT ![r.id] = "none"]
      BY <1>1, <3>1 DEF CommitVersion
    <3>3. \A v \in VersionId : \/ versions'[v] = versions[v]
                               \/ /\ versions'[v] = "none"
                                  /\ ~ \E t \in Stored : templates[t].active = v
      BY <3>2 DEF TemplatesInv, TemplatesTypeOK
    <3>4. versions' \in [VersionId -> Stored \cup {"none"}]
      BY <3>2 DEF TemplatesInv, TemplatesTypeOK
    <3>5. \A t \in Stored : templates[t].active # NoVersion => templates[t].active \in VersionId
      BY DEF TemplatesInv, TemplatesTypeOK
    <3> QED
      BY <1>4, <3>2, <3>3, <3>4, <3>5 DEF TemplatesInv
  <2> QED
    BY <1>2, <2>1, <2>2
<1>6. TemplatesTypeOK' /\ SlugsDiffer'
  BY <1>2, <1>5 DEF TemplatesInv, TemplatesTypeOK, SlugsDiffer
<1>7. ActiveVersionIsOwn'
  BY <1>2, <1>5 DEF TemplatesInv, ActiveVersionIsOwn, Versions
<1>8. \A t \in Stored' : templates'[t].active <= lastVersion'
  <2>1. ASSUME NEW t \in Stored PROVE templates[t].active <= lastVersion'
    <3>1. PICK a \in Nat : a = templates[t].active
      BY MaxVersionsAssumption DEF TemplatesInv, TemplatesTypeOK, VersionId, NoVersion
    <3>2. a <= lastVersion /\ lastVersion' \in Nat /\ lastVersion <= lastVersion'
      BY <1>5, <3>1 DEF TemplatesInv
    <3> QED
      BY <1>4, <3>1, <3>2
  <2> QED
    BY <1>2, <2>1
<1>9. VersionsOnly
  BY <1>2, <1>4, <1>5 DEF VersionsOnly
<1>10. ASSUME NEW q \in Proc, Pending(q, "templates")'
      PROVE  NewTemplateRequest(request[q])' \/ TemplateRequest(request[q])'
  <2>1. PICK s : s = request[q]
    OBVIOUS
  <2>2. /\ NewTemplateRequest(s) \/ TemplateRequest(s)
        /\ request'[q] = s
    BY <1>3, <1>10, <2>1 DEF TemplatesInv, Pending
  <2>3. TemplateRequest(s) => TemplateRequest(s)'
    BY <1>2, <1>9, TemplateRequestKept
  <2>4. NewTemplateRequest(s) => NewTemplateRequest(s)'
    BY DEF NewTemplateRequest
  <2> QED
    BY <2>2, <2>3, <2>4
<1>11. ASSUME NEW q \in Proc, Pending(q, "template_versions")'
      PROVE  NewVersionRequest(request[q])' \/ OldVersionRequest(request[q])'
  <2>1. PICK s : s = request[q]
    OBVIOUS
  <2>2. PICK u : u = [s EXCEPT !.fresh = FALSE]
    OBVIOUS
  <2>3. /\ NewVersionRequest(s) \/ OldVersionRequest(s)
        /\ request'[q] = u
    BY <1>3, <1>11, <2>1, <2>2 DEF TemplatesInv
  <2>4. NewVersionRequest(u)' \/ OldVersionRequest(u)'
    BY <1>2, <2>2, <2>3, VersionStale
  <2> QED
    BY <2>3, <2>4
<1>12. DOMAIN templates' = Template /\ \A v \in VersionId : versions'[v] # "none" => v <= lastVersion'
  BY <1>2, <1>5 DEF TemplatesInv
<1>13. TemplatesKeep
  BY <1>2 DEF TemplatesKeep, TemplatesRest, NamedIsDeactivated
<1> QED
  BY <1>6, <1>7, <1>8, <1>10, <1>11, <1>12, <1>13 DEF TemplatesInv

\* Every step on templates keeps the invariant and concerns their tables.
LEMMA TemplatesStep ==
    ASSUME RequestsOK, TemplatesInv, NEW p \in Proc, TemplatesNext(p)
    PROVE  /\ TemplatesInv' /\ TemplatesKeep /\ RequestsOK'
           /\ \A T \in SUBSET Table : T \cap TemplateTables = {} => Elsewhere(T)
<1>1. ASSUME TemplateBegins(p)
      PROVE  /\ TemplatesInv' /\ TemplatesKeep /\ RequestsOK'
             /\ \A T \in SUBSET Table : T \cap TemplateTables = {} => Elsewhere(T)
  <2>1. UNCHANGED <<raced, templateVars>>
    BY <1>1, TemplatesBegun
  <2>2. PICK r : /\ Go(p, r)
                 /\ \/ NewTemplateRequest(r) \/ TemplateRequest(r)
                    \/ NewVersionRequest(r) \/ OldVersionRequest(r)
    BY <1>1, TemplatesBegun
  <2>3. r.table \in TemplateTables /\ "table" \in DOMAIN r
    BY <2>2 DEF NewTemplateRequest, TemplateRequest, NewVersionRequest, OldVersionRequest,
           TemplateTables
  <2>4. TemplatesInv'
    BY <2>1, <2>2, TemplatesBegin
  <2>5. r.table \in Table /\ UNCHANGED raced
    BY <2>1, <2>3 DEF Table, TemplateTables
  <2>6. TemplatesKeep
    BY <2>1 DEF TemplatesKeep, TemplatesRest, NamedIsDeactivated, templateVars
  <2> QED
    BY <2>2, <2>3, <2>4, <2>5, <2>6, Begun
<1>2. ASSUME CommitTemplate(p) \/ CommitVersion(p)
      PROVE  /\ TemplatesInv' /\ TemplatesKeep /\ RequestsOK'
             /\ \A T \in SUBSET Table : T \cap TemplateTables = {} => Elsewhere(T)
  <2>1. TemplatesInv' /\ TemplatesKeep
    BY <1>2, TemplateCommitted, VersionCommitted
  <2>2. \E t \in TemplateTables : Pending(p, t) /\ Commit(p, t)
    BY <1>2 DEF CommitTemplate, CommitVersion, TemplateTables
  <2>3. TemplateTables \subseteq Table
    BY DEF Table, TemplateTables
  <2> QED
    BY <2>1, <2>2, <2>3, Landed
<1>3. TemplateBegins(p) \/ CommitTemplate(p) \/ CommitVersion(p)
  BY DEF TemplatesNext, TemplateBegins
<1> QED
  BY <1>1, <1>2, <1>3

\* Unique slugs make the two queries find the same template.
LEMMA PrintsThePreview ==
    ASSUME TemplatesInv
    PROVE  ContractPrintsThePreview
<1> SUFFICES ASSUME NEW choice \in Stored \cup {NoChoice}, Previewed(choice) # {}
             PROVE  Printed(choice) = Previewed(choice)
  BY DEF ContractPrintsThePreview
<1>1. NoVersion \notin VersionId
  BY DEF NoVersion, VersionId
<1>2. ASSUME NEW S, NEW t \in S, \A u \in S : u = t, templates[t].active \in VersionId,
             templates[t].active \in Versions(t)
      PROVE  /\ {v \in VersionId : \E u \in S : templates[u].active = v /\ v \in Versions(u)}
                   = {templates[t].active}
             /\ {templates[u].active : u \in S} \ {NoVersion} = {templates[t].active}
  BY <1>1, <1>2
<1>3. CASE choice # NoChoice
  <2>1. PICK v \in VersionId : templates[choice].active = v /\ v \in Versions(choice)
    BY <1>3 DEF Previewed
  <2> QED
    BY <1>2, <1>3, <2>1 DEF Previewed, Printed
<1>4. CASE choice = NoChoice
  <2>1. PICK t \in WithSlug(Principal), v \in VersionId :
           templates[t].active = v /\ v \in Versions(t)
    BY <1>4 DEF Previewed
  <2> DEFINE All == {u \in Stored : templates[u].slug = Principal}
  <2>2. t \in All /\ \A u \in All : u = t
    BY <2>1 DEF WithSlug, Live, TemplatesInv, SlugsDiffer
  <2>3. WithSlug(Principal) \subseteq All
    BY DEF WithSlug, Live
  <2>4. \A u \in WithSlug(Principal) : u = t
    BY <2>2, <2>3
  <2>5. Previewed(choice) = {templates[t].active}
    BY <1>2, <1>4, <2>1, <2>4 DEF Previewed
  <2>6. Printed(choice) = {templates[t].active}
    <3> HIDE DEF All
    <3>1. {templates[u].active : u \in All} \ {NoVersion} = {templates[t].active}
      BY <1>2, <2>1, <2>2
    <3> QED
      BY <1>4, <3>1 DEF Printed, All
  <2> QED
    BY <2>5, <2>6
<1> QED
  BY <1>3, <1>4

-----------------------------------------------------------------------------
(***************************************************************************)
(* The configuration items and their files.                                *)
(***************************************************************************)
ItemColumn == ({"category"} \X Category) \cup ({"token"} \X Token)
                 \cup ({"type"} \X {"file", "text"})

NewItemOf(r) ==
    /\ r \in [table : {"config_items"}, op : {"insert"}, fresh : BOOLEAN,
              row : [category : Category, token : Token, type : {"file"}, file : {NoFile}]]
    /\ r.fresh => HasToken(r.row.category, r.row.token) = {}

ItemAfter(r) == Merge(r.write.columns, items[r.id])

\* The token was sent, and checked in the category that the item gets.
TokenChecked(r) ==
    Written(r.write.sent, "token") # {} /\ Empty \notin Written(r.write.sent, "category")

ItemRequest(r) ==
    /\ r \in [table : {"config_items"}, op : {"update"}, fresh : BOOLEAN, id : Item,
              write : [sent : SUBSET ItemColumn, columns : SUBSET ItemColumn]]
    /\ r.fresh => /\ r.id \in Items
                  /\ TokenChecked(r) =>
                        HasToken(ItemAfter(r).category, ItemAfter(r).token) \subseteq {r.id}

OldItemRequest(r) ==
    r \in [table : {"config_items"}, op : {"delete"}, fresh : BOOLEAN, id : Item]

UploadRequest(r) ==
    \/ r \in [table : {"files"}, op : {"insert"}, fresh : BOOLEAN,
              row : [item : Item, path : FileId]]
    \/ r \in [table : {"files"}, op : {"update"}, fresh : BOOLEAN, id : FileId,
              write : [item : Item, path : FileId]]

OldFileRequest(r) ==
    r \in [table : {"files"}, op : {"delete"}, fresh : BOOLEAN, id : FileId, write : [item : Item]]

PathOf(r) == IF r.op = "insert" THEN r.row.path ELSE r.write.path

Uploading(p) == Pending(p, "files") /\ request[p].op \in {"insert", "update"}

FilesKept ==
    /\ \A p \in Proc : Pending(p, "files") => UploadRequest(request[p]) \/ OldFileRequest(request[p])
    /\ \A p \in Proc : Uploading(p) =>
          /\ PathOf(request[p]) \in disk
          /\ \A f \in Files : files[f] # PathOf(request[p])
    /\ \A p, q \in Proc : Uploading(p) /\ Uploading(q) /\ p # q =>
          PathOf(request[p]) # PathOf(request[q])
    /\ \A f, g \in Files : f # g => files[f] # files[g]
    /\ MissingFileHasACause

ItemsInv ==
    /\ ItemsTypeOK
    /\ DOMAIN items = Item /\ uploads \in 0 .. MaxUploads
    /\ \A p \in Proc : Pending(p, "config_items") =>
          NewItemOf(request[p]) \/ ItemRequest(request[p]) \/ OldItemRequest(request[p])
    /\ FilesKept

ItemRow(F) == [category : Category, token : Token, type : {"file", "text"}, file : F \cup {NoFile}]

\* A row with its columns is not the mark of an absent one.
LEMMA RowIsNoNoItem ==
    \A row : "file" \in DOMAIN row => row # NoItem
BY DEF NoItem

DefinitionRequest(r) == NewItemOf(r) \/ ItemRequest(r) \/ OldItemRequest(r)

\* What is said of an item, its file apart, is kept.
SameDefinitions ==
    /\ Items' = Items
    /\ \A i \in Items : /\ DOMAIN items'[i] = DOMAIN items[i]
                        /\ items'[i].category = items[i].category
                        /\ items'[i].token = items[i].token

\* A write to a file column leaves what a definition relies on.
LEMMA DefinitionRequestKept ==
    ASSUME ItemsInv, SameDefinitions, NEW r, DefinitionRequest(r)
    PROVE  DefinitionRequest(r)'
<1>1. \A i \in Items : items[i] \in ItemRow(Files)
  BY DEF ItemsInv, ItemsTypeOK, ItemRow
<1>2. \A c, k : HasToken(c, k)' = HasToken(c, k)
  BY DEF SameDefinitions, HasToken
<1>3. CASE NewItemOf(r)
  BY <1>2, <1>3 DEF NewItemOf, DefinitionRequest
<1>4. CASE ItemRequest(r)
  <2>1. r.id \in Items => /\ ItemAfter(r)'.category = ItemAfter(r).category
                          /\ ItemAfter(r)'.token = ItemAfter(r).token
    <3> SUFFICES ASSUME r.id \in Items
                 PROVE  /\ ItemAfter(r)'.category = ItemAfter(r).category
                        /\ ItemAfter(r)'.token = ItemAfter(r).token
      OBVIOUS
    <3>1. /\ {"category", "token"} \subseteq DOMAIN items[r.id]
          /\ DOMAIN items'[r.id] = DOMAIN items[r.id]
          /\ items'[r.id].category = items[r.id].category
          /\ items'[r.id].token = items[r.id].token
      BY <1>1 DEF SameDefinitions, ItemRow
    <3> QED
      BY <3>1 DEF ItemAfter, Merge
  <2> QED
    BY <1>2, <1>4, <2>1 DEF ItemRequest, DefinitionRequest, SameDefinitions, TokenChecked
<1>5. CASE OldItemRequest(r)
  BY <1>5 DEF OldItemRequest, DefinitionRequest
<1> QED
  BY <1>3, <1>4, <1>5 DEF DefinitionRequest

\* A stale request for a definition keeps its shape.
LEMMA DefinitionStale ==
    ASSUME NEW r, DefinitionRequest(r)
    PROVE  \A s : s = [r EXCEPT !.fresh = FALSE] => DefinitionRequest(s) /\ ~s.fresh
<1> SUFFICES ASSUME NEW s, s = [r EXCEPT !.fresh = FALSE]
             PROVE  DefinitionRequest(s) /\ ~s.fresh
  OBVIOUS
<1>1. CASE NewItemOf(r)
  <2>1. PICK w \in [category : Category, token : Token, type : {"file"}, file : {NoFile}] :
           w = r.row
    BY <1>1 DEF NewItemOf
  <2>2. s \in [table : {"config_items"}, op : {"insert"}, fresh : {FALSE},
               row : [category : Category, token : Token, type : {"file"}, file : {NoFile}]]
    BY <1>1, <2>1 DEF NewItemOf
  <2> QED
    BY <2>2 DEF NewItemOf, DefinitionRequest
<1>2. CASE ItemRequest(r)
  <2>1. PICK w \in [sent : SUBSET ItemColumn, columns : SUBSET ItemColumn] : w = r.write
    BY <1>2 DEF ItemRequest
  <2>2. s \in [table : {"config_items"}, op : {"update"}, fresh : {FALSE}, id : Item,
               write : [sent : SUBSET ItemColumn, columns : SUBSET ItemColumn]]
    BY <1>2, <2>1 DEF ItemRequest
  <2> QED
    BY <2>2 DEF ItemRequest, DefinitionRequest
<1>3. CASE OldItemRequest(r)
  <2>2. s \in [table : {"config_items"}, op : {"delete"}, fresh : {FALSE}, id : Item]
    BY <1>3 DEF OldItemRequest
  <2> QED
    BY <2>2 DEF OldItemRequest, DefinitionRequest
<1> QED
  BY <1>1, <1>2, <1>3 DEF DefinitionRequest

FileRequest(r) == UploadRequest(r) \/ OldFileRequest(r)

\* A stale request for a file is as good as a fresh one: nothing was checked.
LEMMA FileStale ==
    ASSUME NEW r, FileRequest(r)
    PROVE  \A s : s = [r EXCEPT !.fresh = FALSE] =>
              /\ FileRequest(s) /\ s.table = r.table /\ s.op = r.op
              /\ r.op # "insert" => s.id = r.id
              /\ r.op \in {"insert", "update"} => PathOf(s) = PathOf(r)
<1> SUFFICES ASSUME NEW s, s = [r EXCEPT !.fresh = FALSE]
             PROVE  /\ FileRequest(s) /\ s.table = r.table /\ s.op = r.op
                    /\ r.op # "insert" => s.id = r.id
                    /\ r.op \in {"insert", "update"} => PathOf(s) = PathOf(r)
  OBVIOUS
<1>1. CASE r \in [table : {"files"}, op : {"insert"}, fresh : BOOLEAN,
                  row : [item : Item, path : FileId]]
  <2>1. PICK w \in [item : Item, path : FileId] : w = r.row
    BY <1>1
  <2>2. /\ s \in [table : {"files"}, op : {"insert"}, fresh : BOOLEAN,
                  row : [item : Item, path : FileId]]
        /\ s.row = r.row /\ s.table = r.table /\ s.op = r.op /\ r.op = "insert"
    BY <1>1, <2>1
  <2> QED
    BY <2>2 DEF FileRequest, UploadRequest, PathOf
<1>2. CASE r \in [table : {"files"}, op : {"update"}, fresh : BOOLEAN, id : FileId,
                  write : [item : Item, path : FileId]]
  <2>1. PICK w \in [item : Item, path : FileId] : w = r.write
    BY <1>2
  <2>2. /\ s \in [table : {"files"}, op : {"update"}, fresh : BOOLEAN, id : FileId,
                  write : [item : Item, path : FileId]]
        /\ s.write = r.write /\ s.table = r.table /\ s.op = r.op /\ r.op = "update"
        /\ s.id = r.id
    BY <1>2, <2>1
  <2> QED
    BY <2>2 DEF FileRequest, UploadRequest, PathOf
<1>3. CASE r \in [table : {"files"}, op : {"delete"}, fresh : BOOLEAN, id : FileId,
                  write : [item : Item]]
  <2>1. PICK w \in [item : Item] : w = r.write
    BY <1>3
  <2>2. /\ s \in [table : {"files"}, op : {"delete"}, fresh : BOOLEAN, id : FileId,
                  write : [item : Item]]
        /\ s.table = r.table /\ s.op = r.op /\ r.op = "delete"
        /\ s.id = r.id
    BY <1>3, <2>1
  <2> QED
    BY <2>2 DEF FileRequest, OldFileRequest
<1> QED
  BY <1>1, <1>2, <1>3 DEF FileRequest, UploadRequest, OldFileRequest

\* A step that leaves the files and the requests for them as they are.
FilesAlone ==
    /\ UNCHANGED files /\ UNCHANGED disk /\ UNCHANGED uploads /\ UNCHANGED doubtful
    /\ \A q \in Proc : request'[q].table = "files" => request'[q] = request[q]
    /\ \A q \in Proc : Pending(q, "files") => request'[q] = request[q]

\* Such a step keeps what is said of the files.
LEMMA FilesUntouched ==
    ASSUME FilesKept, FilesAlone
    PROVE  FilesKept'
<1>1. Files' = Files
  BY DEF FilesAlone, Files
<1>2. \A q \in Proc : Pending(q, "files")' => Pending(q, "files") /\ request'[q] = request[q]
  BY DEF FilesAlone, Pending
<1>3. \A q \in Proc : Uploading(q)' => Uploading(q) /\ request'[q] = request[q]
  BY <1>2 DEF Uploading
<1>4. \A q \in Proc : \A f : WorksOn(q, f) => WorksOn(q, f)'
  BY DEF FilesAlone, WorksOn, Pending
<1>5. MissingFileHasACause'
  BY <1>1, <1>4 DEF FilesKept, MissingFileHasACause, FilesAlone
<1>6. \A q \in Proc : Pending(q, "files")' => UploadRequest(request'[q]) \/ OldFileRequest(request'[q])
  BY <1>2 DEF FilesKept
<1>7. \A q \in Proc : Uploading(q)' =>
         /\ PathOf(request'[q]) \in disk'
         /\ \A f \in Files' : files'[f] # PathOf(request'[q])
  BY <1>1, <1>3 DEF FilesKept, FilesAlone
<1>8. \A q, s \in Proc : Uploading(q)' /\ Uploading(s)' /\ q # s =>
         PathOf(request'[q]) # PathOf(request'[s])
  BY <1>3 DEF FilesKept
<1>9. \A f, g \in Files' : f # g => files'[f] # files'[g]
  BY <1>1 DEF FilesKept, FilesAlone
<1> QED
  BY <1>5, <1>6, <1>7, <1>8, <1>9 DEF FilesKept

\* A step that concerns other tables keeps the invariant.
LEMMA ItemsElsewhere ==
    ASSUME ItemsInv, Elsewhere({"config_items", "files"}), UNCHANGED itemVars,
           \A q \in Proc : Pending(q, "files") => request'[q] = request[q]
    PROVE  ItemsInv'
<1>1. /\ UNCHANGED items /\ UNCHANGED files /\ UNCHANGED disk /\ UNCHANGED uploads
      /\ UNCHANGED doubtful
  BY DEF itemVars
<1>2. Items' = Items /\ Files' = Files
  BY <1>1 DEF Items, Files
<1>3. FilesKept'
  BY <1>1, FilesUntouched DEF ItemsInv, FilesAlone, Elsewhere
<1>4. \A r : DefinitionRequest(r) => DefinitionRequest(r)'
  BY <1>1, <1>2, DefinitionRequestKept DEF SameDefinitions
<1>5. \A q \in Proc : Pending(q, "config_items")' => DefinitionRequest(request[q])'
  BY <1>4 DEF ItemsInv, Elsewhere, Pending, DefinitionRequest
<1>6. ItemsTypeOK'
  BY <1>1, <1>2 DEF ItemsInv, ItemsTypeOK
<1> QED
  BY <1>1, <1>3, <1>5, <1>6 DEF ItemsInv, DefinitionRequest

-----------------------------------------------------------------------------
DefinitionBegins(p) ==
    \/ \E c \in Category, k \in Token : StoreItem(p, c, k, "file")
    \/ \E i \in Items : DestroyItem(p, i) \/ \E body \in SUBSET ItemColumn : UpdateDefinition(p, i, body)

\* Every operation on definitions begins a request of the right shape.
LEMMA DefinitionBegun ==
    ASSUME ItemsInv, RequestsOK, NEW p \in Proc, DefinitionBegins(p)
    PROVE  /\ UNCHANGED <<raced, itemVars>> /\ Free(p)
           /\ \E r : Go(p, r) /\ DefinitionRequest(r)
<1>1. ASSUME NEW c \in Category, NEW k \in Token, StoreItem(p, c, k, "file")
      PROVE  \E r : Go(p, r) /\ DefinitionRequest(r)
  <2> DEFINE r == Insert("config_items", [category |-> c, token |-> k, type |-> "file",
                                          file |-> NoFile])
  <2>1. Go(p, r) /\ NewItemOf(r)
    BY <1>1 DEF StoreItem, NewItemOf, Insert
  <2> QED
    BY <2>1 DEF DefinitionRequest
<1>2. ASSUME NEW i \in Items, DestroyItem(p, i)
      PROVE  \E r : Go(p, r) /\ DefinitionRequest(r)
  <2>1. Go(p, Delete("config_items", i)) /\ OldItemRequest(Delete("config_items", i))
    BY <1>2 DEF DestroyItem, OldItemRequest, Delete, Items
  <2> QED
    BY <2>1 DEF DefinitionRequest
<1>3. ASSUME NEW i \in Items, NEW body \in SUBSET ItemColumn, UpdateDefinition(p, i, body)
      PROVE  \E r : Go(p, r) /\ DefinitionRequest(r)
  <2>1. PICK new : new = Merge(body, items[i])
    OBVIOUS
  <2>2. PICK columns : columns = Changes(items[i], new)
    OBVIOUS
  <2>3. i \in Item /\ items[i] \in ItemRow(Files)
        /\ DOMAIN items[i] = {"category", "token", "type", "file"}
    BY DEF Items, ItemsInv, ItemsTypeOK, ItemRow
  <2>4. \A w \in body : w = <<w[1], w[2]>>
    BY DEF ItemColumn
  <2>5. DOMAIN new = {"category", "token", "type", "file"}
        /\ new = [f \in {"category", "token", "type", "file"} |-> new[f]]
    BY <2>1, <2>3 DEF Merge
  <2>6. columns \subseteq body
    <3> SUFFICES ASSUME NEW w \in columns PROVE w \in body
      OBVIOUS
    <3>1. PICK f \in DOMAIN items[i] : w = <<f, new[f]>> /\ new[f] # items[i][f]
      BY <2>2 DEF Changes
    <3> QED
      BY <2>1, <2>4, <3>1, MergeColumn
  <2>7. Merge(columns, items[i]) = new
    <3>1. items[i] = [f \in {"category", "token", "type", "file"} |-> items[i][f]]
      BY <2>3 DEF ItemRow
    <3> QED
      BY <2>2, <2>5, <3>1, MergeChanges
  <2>8. ASSUME Written(body, "token") # {}, Empty \notin Written(body, "category")
        PROVE  HasToken(new.category, new.token) \subseteq {i}
    <3>1. new.token \in Written(body, "token")
      BY <2>1, <2>3, <2>8 DEF Merge
    <3>2. \A w \in body : w # <<"category", Empty>>
      <4> SUFFICES ASSUME <<"category", Empty>> \in body PROVE FALSE
        OBVIOUS
      <4>1. <<"category", Empty>> \in {w \in body : w[1] = "category"}
        OBVIOUS
      <4> QED
        BY <2>8, <4>1 DEF Written
    <3>3. {w \in body : w # <<"category", Empty>>} = body
      BY <3>2
    <3>4. Checked(body, i) = new.category
      BY <2>1, <3>3 DEF Checked
    <3> QED
      BY <1>3, <3>1, <3>4 DEF UpdateDefinition
  <2> DEFINE r == Update("config_items", i, [sent |-> body, columns |-> columns])
  <2>9. Go(p, r)
    BY <1>3, <2>1, <2>2 DEF UpdateDefinition
  <2>10. /\ r \in [table : {"config_items"}, op : {"update"}, fresh : BOOLEAN, id : Item,
                   write : [sent : SUBSET ItemColumn, columns : SUBSET ItemColumn]]
         /\ r.id = i /\ r.write.sent = body /\ r.write.columns = columns
    BY <2>3, <2>6 DEF Update
  <2> HIDE DEF r
  <2>11. ItemAfter(r) = new
    BY <2>7, <2>10 DEF ItemAfter
  <2>12. ItemRequest(r)
    BY <2>8, <2>10, <2>11 DEF ItemRequest, TokenChecked
  <2> QED
    BY <2>9, <2>12 DEF DefinitionRequest
<1>4. UNCHANGED <<raced, itemVars>> /\ Free(p)
  BY DEF DefinitionBegins, StoreItem, DestroyItem, UpdateDefinition
<1> QED
  BY <1>1, <1>2, <1>3, <1>4 DEF DefinitionBegins

\* The begin of such a request keeps the invariant.
LEMMA DefinitionBegin ==
    ASSUME ItemsInv, RequestsOK, NEW p \in Proc, Free(p), NEW r, Go(p, r), DefinitionRequest(r),
           UNCHANGED <<raced, itemVars>>
    PROVE  ItemsInv'
<1>1. /\ UNCHANGED items /\ UNCHANGED files /\ UNCHANGED disk /\ UNCHANGED uploads
      /\ UNCHANGED doubtful
  BY DEF itemVars
<1>2. Items' = Items /\ Files' = Files
  BY <1>1 DEF Items, Files
<1>3. \A q \in Proc : request'[q] = IF q = p THEN r ELSE request[q]
  BY DEF RequestsOK, Go
<1>4. r.table = "config_items"
  BY DEF DefinitionRequest, NewItemOf, ItemRequest, OldItemRequest
<1>5. FilesKept'
  <2>1. Idle.table # "files"
    BY DEF Idle
  <2> QED
    BY <1>1, <1>3, <1>4, <2>1, FilesUntouched DEF ItemsInv, FilesAlone, Pending, Free
<1>6. \A s : DefinitionRequest(s) => DefinitionRequest(s)'
  BY <1>1, <1>2, DefinitionRequestKept DEF SameDefinitions
<1>7. \A q \in Proc : Pending(q, "config_items")' => DefinitionRequest(request[q])'
  BY <1>3, <1>6 DEF ItemsInv, Pending, DefinitionRequest
<1>8. ItemsTypeOK'
  BY <1>1, <1>2 DEF ItemsInv, ItemsTypeOK
<1> QED
  BY <1>1, <1>5, <1>7, <1>8 DEF ItemsInv, DefinitionRequest

\* See TokenClashHasACause and UploadIsServed.
ClashHasACause ==
    ~(SameToken' \subseteq SameToken) =>
       \E p \in Proc : /\ Pending(p, "config_items") /\ request'[p] = Idle
                       /\ \/ ~request[p].fresh
                          \/ /\ request[p].op = "update"
                             /\ \/ Written(request[p].write.sent, "token") = {}
                                \/ Empty \in Written(request[p].write.sent, "category")

Served == \A f \in FileId : files'[f] # files[f] /\ files'[f] # NoFile => files'[f] \in disk'

\* A write to a file column makes no clash of tokens.
LEMMA NoNewClash ==
    ASSUME ItemsInv, SameDefinitions
    PROVE  SameToken' = SameToken
BY DEF SameDefinitions, SameToken

\* A stale request relies on nothing that a step may change.
LEMMA DefinitionKept ==
    ASSUME NEW r, DefinitionRequest(r), ~r.fresh
    PROVE  DefinitionRequest(r)'
BY DEF DefinitionRequest, NewItemOf, ItemRequest, OldItemRequest

\* What the commit of a definition writes: one row.
LEMMA DefinitionWritten ==
    ASSUME ItemsInv, NEW p \in Proc, CommitItem(p), request'[p] = Idle
    PROVE  /\ DOMAIN items' = Item /\ \A i \in Items' : items'[i] \in ItemRow(Files)
           /\ ClashHasACause
<1>1. PICK r : r = request[p]
  OBVIOUS
<1>2. DefinitionRequest(r) /\ Pending(p, "config_items")
  BY <1>1 DEF CommitItem, ItemsInv, DefinitionRequest
<1>3. /\ \A i \in Items : i \in Item /\ items[i] \in ItemRow(Files)
      /\ DOMAIN items = Item
  BY DEF ItemsInv, ItemsTypeOK, ItemRow, Items
<1>4. CASE NewItemOf(r)
  <2>1. PICK row \in ItemRow(Files) :
           /\ r.op = "insert" /\ row = r.row
           /\ r.fresh => HasToken(row.category, row.token) = {}
    BY <1>4 DEF NewItemOf, ItemRow
  <2>2. PICK i \in Item \ Items : items' = [items EXCEPT ![i] = row]
    BY <1>1, <2>1 DEF CommitItem
  <2>3. \A j \in Item : items'[j] = IF j = i THEN row ELSE items[j]
    BY <1>3, <2>2
  <2>4. \A j \in Items' : j = i \/ j \in Items
    BY <2>2, <2>3 DEF Items
  <2>5. ClashHasACause
    <3>1. ASSUME r.fresh, NEW j \in Items', NEW k \in Items', j # k,
                 items'[j].token = items'[k].token, items'[j].category = items'[k].category
          PROVE  <<j, k>> \in SameToken
      <4>1. \A l \in Items : ~(items[l].category = row.category /\ items[l].token = row.token)
        BY <2>1, <3>1 DEF HasToken
      <4>2. j \in Item /\ k \in Item
        BY <1>3, <2>4
      <4>3. j # i /\ k # i
        BY <2>2, <2>3, <2>4, <3>1, <4>1, <4>2
      <4> QED
        BY <2>3, <2>4, <3>1, <4>2, <4>3 DEF SameToken
    <3>2. r.fresh => SameToken' \subseteq SameToken
      BY <3>1 DEF SameToken
    <3> QED
      BY <1>1, <1>2, <3>2 DEF ClashHasACause
  <2>6. \A j \in Items' : items'[j] \in ItemRow(Files)
    BY <1>3, <2>1, <2>2, <2>3, <2>4
  <2> QED
    BY <1>3, <2>2, <2>5, <2>6
<1>5. CASE ItemRequest(r)
  <2>1. /\ r.op = "update" /\ r.id \in Item /\ r.write.columns \subseteq ItemColumn
        /\ r.fresh /\ TokenChecked(r) =>
              HasToken(ItemAfter(r).category, ItemAfter(r).token) \subseteq {r.id}
    BY <1>5 DEF ItemRequest
  <2>2. items' = IF r.id \in Items THEN [items EXCEPT ![r.id] = Merge(r.write.columns, @)] ELSE items
    BY <1>1, <2>1 DEF CommitItem
  <2>3. CASE r.id \notin Items
    <3>1. UNCHANGED items /\ Items' = Items
      BY <2>2, <2>3 DEF Items
    <3> QED
      BY <1>3, <3>1 DEF ClashHasACause, SameToken
  <2>4. CASE r.id \in Items
    <3>1. PICK row : row = ItemAfter(r)
      OBVIOUS
    <3>2. \A j \in Item : items'[j] = IF j = r.id THEN row ELSE items[j]
      BY <1>3, <2>1, <2>2, <2>4, <3>1 DEF ItemAfter
    <3>3. row \in ItemRow(Files)
      <4>1. /\ items[r.id] \in ItemRow(Files)
            /\ DOMAIN items[r.id] = {"category", "token", "type", "file"}
        BY <1>3, <2>4 DEF ItemRow
      <4>2. \A w \in r.write.columns : w = <<w[1], w[2]>>
        BY <2>1 DEF ItemColumn
      <4>3. \A f \in {"category", "token", "type", "file"} :
               row[f] = items[r.id][f] \/ <<f, row[f]>> \in ItemColumn
        BY <2>1, <3>1, <4>1, <4>2, MergeColumn DEF ItemAfter
      <4>4. row.category \in Category
        BY <4>1, <4>3 DEF ItemColumn, ItemRow
      <4>5. row.token \in Token
        BY <4>1, <4>3 DEF ItemColumn, ItemRow
      <4>6. row.type \in {"file", "text"}
        BY <4>1, <4>3 DEF ItemColumn, ItemRow
      <4>7. row.file \in Files \cup {NoFile}
        BY <4>1, <4>3 DEF ItemColumn, ItemRow
      <4>8. row = [f \in {"category", "token", "type", "file"} |-> row[f]]
        BY <3>1, <4>1 DEF ItemAfter, Merge
      <4>9. row = [category |-> row.category, token |-> row.token, type |-> row.type,
                   file |-> row.file]
        BY <4>8
      <4> QED
        BY <4>4, <4>5, <4>6, <4>7, <4>9 DEF ItemRow
    <3>4. row # NoItem
      BY <3>3, RowIsNoNoItem DEF ItemRow
    <3>5. Items' = Items
      BY <1>3, <2>4, <3>2, <3>4 DEF Items
    <3>6. ClashHasACause
      <4>1. ASSUME r.fresh, TokenChecked(r),
                   NEW j \in Items, NEW k \in Items, j # k,
                   items'[j].token = items'[k].token, items'[j].category = items'[k].category
            PROVE  <<j, k>> \in SameToken
        <5>1. \A l \in Items : items[l].category = row.category /\ items[l].token = row.token =>
                 l = r.id
          BY <2>1, <3>1, <4>1 DEF HasToken
        <5>2. j # r.id /\ k # r.id
          BY <1>3, <3>2, <4>1, <5>1
        <5> QED
          BY <1>3, <3>2, <4>1, <5>2 DEF SameToken
      <4>2. r.fresh /\ TokenChecked(r) => SameToken' \subseteq SameToken
        BY <3>5, <4>1 DEF SameToken
      <4> QED
        BY <1>1, <1>2, <2>1, <4>2 DEF ClashHasACause, TokenChecked
    <3>7. \A j \in Items' : items'[j] \in ItemRow(Files)
      BY <1>3, <3>2, <3>3, <3>5
    <3>8. DOMAIN items' = Item
      BY <1>3, <2>2
    <3> QED
      BY <3>6, <3>7, <3>8
  <2> QED
    BY <2>3, <2>4
<1>6. CASE OldItemRequest(r)
  <2>1. r.op = "delete" /\ r.id \in Item
    BY <1>6 DEF OldItemRequest
  <2>2. items' = [items EXCEPT ![r.id] = NoItem]
    BY <1>1, <2>1 DEF CommitItem
  <2>3. \A j \in Item : items'[j] = IF j = r.id THEN NoItem ELSE items[j]
    BY <1>3, <2>2
  <2>4. \A j \in Items' : j \in Items /\ items'[j] = items[j]
    BY <2>3 DEF Items
  <2>5. SameToken' \subseteq SameToken
    BY <2>4 DEF SameToken
  <2> QED
    BY <1>3, <2>2, <2>4, <2>5 DEF ClashHasACause
<1> QED
  BY <1>2, <1>4, <1>5, <1>6 DEF DefinitionRequest

\* The commit of a definition keeps the invariant.
LEMMA DefinitionCommitted ==
    ASSUME RequestsOK, ItemsInv, NEW p \in Proc, CommitItem(p)
    PROVE  ItemsInv' /\ ClashHasACause /\ Served
<1>1. /\ Pending(p, "config_items") /\ Commit(p, "config_items")
      /\ UNCHANGED files /\ UNCHANGED disk /\ UNCHANGED uploads /\ UNCHANGED doubtful
  BY DEF CommitItem
<1>2. /\ request'[p] = Idle
      /\ \A q \in Proc : Pending(q, "config_items")' =>
            Pending(q, "config_items") /\ request'[q] = [request[q] EXCEPT !.fresh = FALSE]
      /\ \A q \in Proc : Pending(q, "files")' => request'[q] = request[q]
  <2>1. {"files"} \in SUBSET Table /\ "config_items" \in Table /\ "config_items" \notin {"files"}
    BY DEF Table
  <2>2. Elsewhere({"files"})
    BY <1>1, <2>1, Landed
  <2> QED
    BY <1>1, <2>1, <2>2, Landed DEF Pending, Elsewhere
<1>3. \A q \in Proc : Pending(q, "files") => request'[q] = request[q]
  BY <1>1 DEF Commit, Pending
<1>4. FilesKept' /\ Files' = Files
  BY <1>1, <1>2, <1>3, FilesUntouched DEF ItemsInv, FilesAlone, Files, Pending
<1>5. /\ DOMAIN items' = Item /\ \A i \in Items' : items'[i] \in ItemRow(Files)
      /\ ClashHasACause
  BY <1>2, DefinitionWritten
<1>6. ItemsTypeOK'
  BY <1>1, <1>4, <1>5 DEF ItemsInv, ItemsTypeOK, ItemRow
<1>7. ASSUME NEW q \in Proc, Pending(q, "config_items")' PROVE DefinitionRequest(request[q])'
  <2>1. PICK s : s = request[q]
    OBVIOUS
  <2>2. PICK u : u = [s EXCEPT !.fresh = FALSE]
    OBVIOUS
  <2>3. DefinitionRequest(s) /\ request'[q] = u
    BY <1>2, <1>7, <2>1, <2>2 DEF ItemsInv, DefinitionRequest
  <2>4. DefinitionRequest(u) /\ ~u.fresh
    BY <2>2, <2>3, DefinitionStale
  <2>5. DefinitionRequest(u)'
    BY <2>4, DefinitionKept
  <2> QED
    BY <2>3, <2>5
<1>8. Served
  BY <1>1 DEF Served
<1> QED
  BY <1>1, <1>4, <1>5, <1>6, <1>7, <1>8 DEF ItemsInv, DefinitionRequest

UploadBegins(p) ==
    \E i \in Items : UploadFirst(p, i) \/ UploadAgain(p, i) \/ DeleteFile(p, i)

\* What an upload or a deletion has done to the disk before it commits.
LEMMA UploadBegun ==
    ASSUME ItemsInv, RequestsOK, NEW p \in Proc, UploadBegins(p)
    PROVE  /\ UNCHANGED raced /\ UNCHANGED items /\ UNCHANGED files /\ UNCHANGED doubtful
           /\ Free(p)
           /\ \E r, gone :
                 /\ Go(p, r) /\ FileRequest(r) /\ r.table = "files"
                 /\ \/ gone = {}
                    \/ \E f \in Files : gone = {files[f]} /\ r.op # "insert" /\ r.id = f
                 /\ \/ r.op = "delete" /\ UNCHANGED uploads /\ disk' = disk \ gone
                    \/ /\ r.op \in {"insert", "update"} /\ PathOf(r) = uploads + 1
                       /\ uploads < MaxUploads /\ uploads' = uploads + 1
                       /\ disk' = (disk \ gone) \cup {uploads + 1}
<1> DEFINE Good(r, gone) ==
              /\ Go(p, r) /\ FileRequest(r) /\ r.table = "files"
              /\ \/ gone = {}
                 \/ \E f \in Files : gone = {files[f]} /\ r.op # "insert" /\ r.id = f
              /\ \/ r.op = "delete" /\ UNCHANGED uploads /\ disk' = disk \ gone
                 \/ /\ r.op \in {"insert", "update"} /\ PathOf(r) = uploads + 1
                    /\ uploads < MaxUploads /\ uploads' = uploads + 1
                    /\ disk' = (disk \ gone) \cup {uploads + 1}
<1>1. PICK i \in Items : UploadFirst(p, i) \/ UploadAgain(p, i) \/ DeleteFile(p, i)
  BY DEF UploadBegins
<1>2. /\ UNCHANGED raced /\ UNCHANGED items /\ UNCHANGED files /\ UNCHANGED doubtful
      /\ Free(p)
  BY <1>1 DEF UploadFirst, UploadAgain, DeleteFile, FileItem
<1>3. i \in Item /\ items[i].file \in Files \cup {NoFile}
  BY DEF Items, ItemsInv, ItemsTypeOK
<1>4. PICK n : n = uploads + 1
  OBVIOUS
<1>5. uploads < MaxUploads => n \in FileId
  BY <1>4, ConfigItemsAssumption DEF ItemsInv, FileId
<1>6. CASE UploadFirst(p, i)
  <2> DEFINE r == Insert("files", [item |-> i, path |-> n])
  <2>1. /\ Go(p, r) /\ uploads < MaxUploads /\ uploads' = uploads + 1
        /\ disk' = (disk \ {}) \cup {uploads + 1}
    BY <1>4, <1>6 DEF UploadFirst
  <2>2. /\ FileRequest(r) /\ r.table = "files" /\ r.op = "insert" /\ PathOf(r) = uploads + 1
    BY <1>3, <1>4, <1>5, <2>1 DEF FileRequest, UploadRequest, Insert, PathOf
  <2> HIDE DEF r
  <2>3. Good(r, {})
    BY <2>1, <2>2
  <2> QED
    BY <1>2, <2>3
<1>7. CASE UploadAgain(p, i)
  <2>1. PICK f \in Files : f = items[i].file
    BY <1>3, <1>7 DEF UploadAgain
  <2>2. f \in FileId
    BY DEF Files
  <2> DEFINE r == Update("files", f, [item |-> i, path |-> n])
  <2>3. /\ Go(p, r) /\ uploads < MaxUploads /\ uploads' = uploads + 1
        /\ disk' = (disk \ {files[f]}) \cup {uploads + 1}
    BY <1>4, <1>7, <2>1 DEF UploadAgain
  <2>4. /\ FileRequest(r) /\ r.table = "files" /\ r.op = "update" /\ PathOf(r) = uploads + 1
        /\ r.id = f
    BY <1>3, <1>4, <1>5, <2>2, <2>3 DEF FileRequest, UploadRequest, Update, PathOf
  <2> HIDE DEF r
  <2>5. Good(r, {files[f]})
    BY <2>3, <2>4
  <2> QED
    BY <1>2, <2>5
<1>8. CASE DeleteFile(p, i)
  <2>1. PICK f \in Files : f = items[i].file
    BY <1>3, <1>8 DEF DeleteFile
  <2>2. f \in FileId
    BY DEF Files
  <2> DEFINE r == [Update("files", f, [item |-> i]) EXCEPT !.op = "delete"]
  <2>3. /\ Go(p, r) /\ UNCHANGED uploads /\ disk' = disk \ {files[f]}
    BY <1>8, <2>1 DEF DeleteFile
  <2>4. /\ r \in [table : {"files"}, op : {"delete"}, fresh : BOOLEAN, id : FileId,
                  write : [item : Item]]
        /\ r.table = "files" /\ r.op = "delete" /\ r.id = f
    BY <1>3, <2>2 DEF Update
  <2> HIDE DEF r
  <2>5. Good(r, {files[f]})
    BY <2>3, <2>4 DEF FileRequest, OldFileRequest
  <2> QED
    BY <1>2, <2>5
<1> QED
  BY <1>1, <1>6, <1>7, <1>8

\* The begin of an upload or a deletion keeps the invariant.
LEMMA UploadBegin ==
    ASSUME ItemsInv, RequestsOK, NEW p \in Proc, UploadBegins(p)
    PROVE  ItemsInv'
<1>1. /\ UNCHANGED raced /\ UNCHANGED items /\ UNCHANGED files /\ UNCHANGED doubtful
      /\ Free(p)
  BY UploadBegun
<1>2. PICK r, gone :
         /\ Go(p, r) /\ FileRequest(r) /\ r.table = "files"
         /\ \/ gone = {}
            \/ \E f \in Files : gone = {files[f]} /\ r.op # "insert" /\ r.id = f
         /\ \/ r.op = "delete" /\ UNCHANGED uploads /\ disk' = disk \ gone
            \/ /\ r.op \in {"insert", "update"} /\ PathOf(r) = uploads + 1
               /\ uploads < MaxUploads /\ uploads' = uploads + 1
               /\ disk' = (disk \ gone) \cup {uploads + 1}
  BY UploadBegun
<1>3. Items' = Items /\ Files' = Files
  BY <1>1 DEF Items, Files
<1>4. \A q \in Proc : request'[q] = IF q = p THEN r ELSE request[q]
  BY <1>2 DEF RequestsOK, Go
<1>5. ~Pending(p, "files") /\ ~Pending(p, "config_items")
  BY <1>1 DEF Free, Idle, Pending
<1>6. PICK n \in Nat : n = uploads
  BY ConfigItemsAssumption DEF ItemsInv
<1>7. /\ uploads' \in 0 .. MaxUploads /\ disk' \subseteq 1 .. uploads'
      /\ files' \in [FileId -> 0 .. uploads']
  <2>1. disk \subseteq 1 .. n /\ files \in [FileId -> 0 .. n]
    BY <1>6 DEF ItemsInv, ItemsTypeOK
  <2>2. CASE UNCHANGED uploads /\ disk' = disk \ gone
    BY <1>1, <1>6, <2>1, <2>2 DEF ItemsInv
  <2>3. CASE uploads < MaxUploads /\ uploads' = uploads + 1
             /\ disk' = (disk \ gone) \cup {uploads + 1}
    <3>1. uploads' = n + 1 /\ n + 1 \in 0 .. MaxUploads /\ n + 1 \in 1 .. n + 1
      BY <1>6, <2>3, ConfigItemsAssumption
    <3>2. disk' = (disk \ gone) \cup {n + 1}
      BY <1>6, <2>3
    <3>3. 1 .. n \subseteq 1 .. n + 1 /\ 0 .. n \subseteq 0 .. n + 1
      OBVIOUS
    <3>4. disk' \subseteq 1 .. n + 1
      BY <2>1, <3>1, <3>2, <3>3
    <3>5. files' \in [FileId -> 0 .. n + 1]
      BY <1>1, <2>1, <3>3
    <3> QED
      BY <3>1, <3>4, <3>5
  <2> QED
    BY <1>2, <2>2, <2>3
<1>8. ItemsTypeOK'
  BY <1>1, <1>3, <1>7 DEF ItemsInv, ItemsTypeOK
<1>9. n + 1 \notin disk /\ \A f \in Files : files[f] # n + 1
  BY <1>6 DEF ItemsInv, ItemsTypeOK, Files
<1>10. \A q \in Proc : Uploading(q) => PathOf(request[q]) \in disk /\ PathOf(request[q]) \notin gone
                                       /\ \A f \in Files : files[f] # PathOf(request[q])
  BY <1>2 DEF ItemsInv, FilesKept
<1>11. \A q \in Proc : Uploading(q)' => \/ q # p /\ Uploading(q) /\ request'[q] = request[q]
                                        \/ /\ q = p /\ PathOf(request'[q]) = n + 1
                                           /\ disk' = (disk \ gone) \cup {n + 1}
  BY <1>2, <1>4, <1>6 DEF Uploading, Pending
<1>12. disk \ gone \subseteq disk'
  BY <1>2
<1>13. FilesKept'
  <2>1. \A q \in Proc : Pending(q, "files")' =>
           UploadRequest(request'[q]) \/ OldFileRequest(request'[q])
    BY <1>2, <1>4 DEF ItemsInv, FilesKept, Pending, FileRequest
  <2>2. ASSUME NEW q \in Proc, Uploading(q)'
        PROVE  /\ PathOf(request'[q]) \in disk'
               /\ \A f \in Files' : files'[f] # PathOf(request'[q])
    <3>1. CASE q # p /\ Uploading(q) /\ request'[q] = request[q]
      <4>1. PathOf(request[q]) \in disk' /\ \A f \in Files : files[f] # PathOf(request[q])
        BY <1>10, <1>12, <3>1
      <4> QED
        BY <1>1, <1>3, <3>1, <4>1
    <3>2. CASE q = p /\ PathOf(request'[q]) = n + 1 /\ disk' = (disk \ gone) \cup {n + 1}
      BY <1>1, <1>3, <1>9, <3>2
    <3> QED
      BY <1>11, <2>2, <3>1, <3>2
  <2>3. ASSUME NEW q \in Proc, NEW s \in Proc, Uploading(q)', Uploading(s)', q # s
        PROVE  PathOf(request'[q]) # PathOf(request'[s])
    <3>1. CASE q # p /\ s # p
      <4>1. PathOf(request[q]) # PathOf(request[s])
        BY <1>11, <2>3, <3>1 DEF ItemsInv, FilesKept
      <4>2. request'[q] = request[q] /\ request'[s] = request[s]
        BY <1>4, <3>1
      <4> QED
        BY <4>1, <4>2
    <3>2. ASSUME NEW u \in Proc, NEW w \in Proc, u = p, w # p, Uploading(u)', Uploading(w)'
          PROVE  PathOf(request'[u]) # PathOf(request'[w])
      <4>1. PathOf(request'[u]) = n + 1
        BY <1>11, <3>2
      <4>2. PathOf(request[w]) \in disk /\ request'[w] = request[w]
        BY <1>10, <1>11, <3>2
      <4> QED
        BY <1>9, <4>1, <4>2
    <3> QED
      BY <2>3, <3>1, <3>2
  <2>4. \A f, g \in Files' : f # g => files'[f] # files'[g]
    BY <1>1, <1>3 DEF ItemsInv, FilesKept
  <2>5. MissingFileHasACause'
    <3> SUFFICES ASSUME NEW f \in Files
                 PROVE  \/ files[f] \in disk' \/ f \in doubtful
                        \/ \E q \in Proc : WorksOn(q, f)'
      BY <1>1, <1>3 DEF MissingFileHasACause
    <3>1. CASE files[f] \in gone
      <4>1. r.op # "insert" /\ r.id = f
        BY <1>2, <3>1 DEF ItemsInv, FilesKept
      <4>2. WorksOn(p, f)'
        BY <1>2, <1>4, <4>1 DEF WorksOn, Pending
      <4> QED
        BY <4>2
    <3>2. CASE files[f] \in disk /\ files[f] \notin gone
      BY <1>12, <3>2
    <3>3. CASE f \in doubtful
      BY <3>3
    <3>4. ASSUME NEW q \in Proc, WorksOn(q, f) PROVE WorksOn(q, f)'
      BY <1>4, <1>5, <3>4 DEF WorksOn, Pending
    <3> QED
      BY <3>1, <3>2, <3>3, <3>4 DEF ItemsInv, FilesKept, MissingFileHasACause
  <2> QED
    BY <2>1, <2>2, <2>3, <2>4, <2>5 DEF FilesKept
<1>14. \A s : DefinitionRequest(s) => DefinitionRequest(s)'
  BY <1>1, <1>3, DefinitionRequestKept DEF SameDefinitions
<1>15. \A q \in Proc : Pending(q, "config_items")' => DefinitionRequest(request[q])'
  BY <1>2, <1>4, <1>14 DEF ItemsInv, Pending, DefinitionRequest
<1>16. DOMAIN items' = Item
  BY <1>1 DEF ItemsInv
<1> QED
  BY <1>7, <1>8, <1>13, <1>15, <1>16 DEF ItemsInv, DefinitionRequest

\* The column of an item that refers to its file.
LEMMA FileColumn ==
    ASSUME ItemsInv, NEW i \in Items, NEW x, items' = [items EXCEPT ![i].file = x]
    PROVE  /\ SameDefinitions /\ DOMAIN items' = Item
           /\ \A j \in Items : \A F : (IF j = i THEN x ELSE items[j].file) \in F \cup {NoFile} =>
                 items'[j] \in ItemRow(F)
<1>1. /\ \A j \in Items : j \in Item /\ items[j] \in ItemRow(Files)
      /\ DOMAIN items = Item
  BY DEF ItemsInv, ItemsTypeOK, ItemRow, Items
<1>2. \A j \in Item : items'[j] = IF j = i THEN [items[i] EXCEPT !.file = x] ELSE items[j]
  BY <1>1
<1>3. /\ DOMAIN [items[i] EXCEPT !.file = x] = DOMAIN items[i]
      /\ [items[i] EXCEPT !.file = x].category = items[i].category
      /\ [items[i] EXCEPT !.file = x].token = items[i].token
      /\ [items[i] EXCEPT !.file = x] # NoItem
  BY <1>1, RowIsNoNoItem DEF ItemRow
<1>4. Items' = Items
  BY <1>1, <1>2, <1>3 DEF Items
<1>5. SameDefinitions
  BY <1>1, <1>2, <1>3, <1>4 DEF SameDefinitions
<1>6. ASSUME NEW j \in Items, NEW F, (IF j = i THEN x ELSE items[j].file) \in F \cup {NoFile}
      PROVE  items'[j] \in ItemRow(F)
  <2>1. CASE j = i
    <3>1. [items[i] EXCEPT !.file = x] \in ItemRow(F)
      BY <1>1, <1>6, <2>1 DEF ItemRow
    <3> QED
      BY <1>1, <1>2, <2>1, <3>1
  <2>2. CASE j # i
    BY <1>1, <1>2, <1>6, <2>2 DEF ItemRow
  <2> QED
    BY <2>1, <2>2
<1> QED
  BY <1>1, <1>5, <1>6

\* What the commit of request r of p writes: its own path, over nobody's.
LandsWell(p, r) ==
    /\ SameDefinitions /\ DOMAIN items' = Item /\ \A i \in Items : items'[i] \in ItemRow(Files')
    /\ files' \in [FileId -> 0 .. uploads] /\ doubtful' \subseteq FileId
    /\ \A f \in Files' : \/ f \in Files /\ files'[f] = files[f]
                         \/ r.op \in {"insert", "update"} /\ files'[f] = PathOf(r)
    /\ \A f, g \in Files' : f # g => files'[f] # files'[g]
    /\ \A f \in Files' : \/ files'[f] \in disk \/ f \in doubtful'
                         \/ \E q \in Proc : q # p /\ WorksOn(q, f)
    /\ \A f \in FileId : files'[f] # files[f] /\ files'[f] # NoFile => files'[f] \in disk

\* The three writes to files land well.
LEMMA FileWritten ==
    ASSUME RequestsOK, ItemsInv, NEW p \in Proc, CommitFile(p)
    PROVE  LandsWell(p, request[p])
<1>1. PICK r : r = request[p]
  OBVIOUS
<1>2. FileRequest(r) /\ Pending(p, "files") /\ UNCHANGED disk /\ UNCHANGED uploads
  BY <1>1 DEF CommitFile, ItemsInv, FilesKept, FileRequest
<1>3. /\ \A i \in Items : i \in Item /\ items[i] \in ItemRow(Files)
      /\ DOMAIN items = Item /\ files \in [FileId -> 0 .. uploads] /\ doubtful \subseteq FileId
      /\ disk \subseteq 1 .. uploads /\ uploads \in Nat
  BY ConfigItemsAssumption DEF ItemsInv, ItemsTypeOK, ItemRow, Items
<1>4. /\ \A f, g \in Files : f # g => files[f] # files[g]
      /\ \A f \in Files : \/ files[f] \in disk \/ f \in doubtful \/ \E q \in Proc : WorksOn(q, f)
  BY DEF ItemsInv, FilesKept, MissingFileHasACause
<1>5. r.op \in {"insert", "update"} =>
         PathOf(r) \in disk /\ \A f \in Files : files[f] # PathOf(r)
  BY <1>1, <1>2 DEF ItemsInv, FilesKept, Uploading
<1>6. \A f : WorksOn(p, f) => r.op # "insert" /\ f = r.id
  BY <1>1 DEF WorksOn
<1>7. ASSUME UNCHANGED items, UNCHANGED files, doubtful' \subseteq FileId, doubtful \subseteq doubtful',
             \A f \in Files : WorksOn(p, f) => f \in doubtful'
      PROVE  LandsWell(p, r)
  <2>1. Files' = Files /\ Items' = Items
    BY <1>7 DEF Files, Items
  <2> QED
    BY <1>3, <1>4, <1>7, <2>1 DEF LandsWell, SameDefinitions
<1>8. ASSUME r \in [table : {"files"}, op : {"insert"}, fresh : BOOLEAN,
                    row : [item : Item, path : FileId]]
      PROVE  LandsWell(p, r)
  <2>1. PICK i \in Item, path \in FileId : i = r.row.item /\ path = r.row.path /\ r.op = "insert"
    BY <1>8
  <2>2. InsertFile(r.row) /\ PathOf(r) = path
    BY <1>1, <2>1 DEF CommitFile, PathOf
  <2>3. CASE i \notin Items
    BY <1>3, <1>6, <1>7, <2>1, <2>2, <2>3 DEF InsertFile
  <2>4. CASE i \in Items
    <3>1. /\ files' = [files EXCEPT ![path] = path] /\ items' = [items EXCEPT ![i].file = path]
          /\ UNCHANGED doubtful
      BY <2>1, <2>2, <2>4 DEF InsertFile
    <3>2. \A f \in FileId : files'[f] = IF f = path THEN path ELSE files[f]
      BY <1>3, <3>1
    <3>3. path # NoFile
      BY ConfigItemsAssumption DEF FileId, NoFile
    <3>4. Files' = Files \cup {path}
      BY <3>2, <3>3 DEF Files
    <3>5. path \in disk /\ \A f \in Files : files[f] # path
      BY <1>5, <2>1, <2>2
    <3>6. files' \in [FileId -> 0 .. uploads]
      <4>1. path \in 0 .. uploads
        BY <1>3, <3>5
      <4> QED
        BY <1>3, <3>1, <4>1
    <3>7. /\ SameDefinitions /\ DOMAIN items' = Item
          /\ \A j \in Items : items'[j] \in ItemRow(Files')
      <4>1. \A j \in Items : items[j].file \in Files \cup {NoFile}
        BY <1>3 DEF ItemRow
      <4>2. \A j \in Items : (IF j = i THEN path ELSE items[j].file) \in Files' \cup {NoFile}
        BY <3>4, <4>1
      <4> QED
        BY <2>4, <3>1, <4>2, FileColumn
    <3>8. \A f \in Files' : \/ files'[f] \in disk \/ f \in doubtful'
                            \/ \E q \in Proc : q # p /\ WorksOn(q, f)
      BY <1>4, <1>6, <2>1, <3>1, <3>2, <3>4, <3>5 DEF Files
    <3>9. \A f \in Files' : \/ f \in Files /\ files'[f] = files[f]
                            \/ f = path /\ files'[f] = path
      BY <3>2, <3>4 DEF Files
    <3>10. \A f, g \in Files' : f # g => files'[f] # files'[g]
      BY <1>4, <3>5, <3>9
    <3>11. \A f \in FileId : files'[f] # files[f] => files'[f] \in disk
      BY <3>2, <3>5
    <3>12. \A f \in Files' : \/ f \in Files /\ files'[f] = files[f]
                             \/ r.op \in {"insert", "update"} /\ files'[f] = PathOf(r)
      BY <2>1, <2>2, <3>9
    <3> QED
      BY <1>3, <3>1, <3>6, <3>7, <3>8, <3>10, <3>11, <3>12 DEF LandsWell
  <2> QED
    BY <2>3, <2>4
<1>9. ASSUME r \in [table : {"files"}, op : {"update"}, fresh : BOOLEAN, id : FileId,
                    write : [item : Item, path : FileId]]
      PROVE  LandsWell(p, r)
  <2>1. PICK h \in FileId, path \in FileId : h = r.id /\ path = r.write.path /\ r.op = "update"
    BY <1>9
  <2>2. ReplaceFile(h, path) /\ PathOf(r) = path
    BY <1>1, <2>1 DEF CommitFile, PathOf
  <2>3. CASE files[h] = NoFile
    <3>1. \A f \in Files : ~WorksOn(p, f)
      BY <1>6, <2>1, <2>3 DEF Files
    <3>2. UNCHANGED items /\ UNCHANGED files /\ UNCHANGED doubtful
      BY <2>2, <2>3 DEF ReplaceFile
    <3> QED
      BY <1>3, <1>7, <3>1, <3>2
  <2>4. CASE files[h] # NoFile
    <3>1. /\ files' = [files EXCEPT ![h] = path] /\ doubtful' = doubtful \ {h} /\ UNCHANGED items
      BY <2>2, <2>4 DEF ReplaceFile
    <3>2. \A f \in FileId : files'[f] = IF f = h THEN path ELSE files[f]
      BY <1>3, <3>1
    <3>3. path # NoFile
      BY ConfigItemsAssumption DEF FileId, NoFile
    <3>4. Files' = Files /\ Items' = Items
      BY <2>4, <3>1, <3>2, <3>3 DEF Files, Items
    <3>5. path \in disk /\ \A f \in Files : files[f] # path
      BY <1>5, <2>1, <2>2
    <3>6. files' \in [FileId -> 0 .. uploads]
      <4>1. path \in 0 .. uploads
        BY <1>3, <3>5
      <4> QED
        BY <1>3, <3>1, <4>1
    <3>7. /\ SameDefinitions /\ DOMAIN items' = Item
          /\ \A j \in Items : items'[j] \in ItemRow(Files')
      BY <1>3, <3>1, <3>4 DEF SameDefinitions
    <3>8. \A f \in Files' : \/ files'[f] \in disk \/ f \in doubtful'
                            \/ \E q \in Proc : q # p /\ WorksOn(q, f)
      <4> SUFFICES ASSUME NEW f \in Files', f # h
                   PROVE  \/ files'[f] \in disk \/ f \in doubtful'
                          \/ \E q \in Proc : q # p /\ WorksOn(q, f)
        BY <3>2, <3>5
      <4>1. f \in Files /\ files'[f] = files[f] /\ (f \in doubtful => f \in doubtful')
            /\ ~WorksOn(p, f)
        BY <1>6, <2>1, <3>1, <3>2, <3>4 DEF Files
      <4> QED
        BY <1>4, <4>1
    <3>9. \A f \in Files' : \/ f # h /\ f \in Files /\ files'[f] = files[f]
                            \/ f = h /\ files'[f] = path
      BY <3>2, <3>4 DEF Files
    <3>10. \A f, g \in Files' : f # g => files'[f] # files'[g]
      BY <1>4, <3>5, <3>9
    <3>11. \A f \in FileId : files'[f] # files[f] => files'[f] \in disk
      BY <3>2, <3>5
    <3>12. \A f \in Files' : \/ f \in Files /\ files'[f] = files[f]
                             \/ r.op \in {"insert", "update"} /\ files'[f] = PathOf(r)
      BY <2>1, <2>2, <3>9
    <3>13. doubtful' \subseteq FileId
      BY <1>3, <3>1
    <3> QED
      BY <3>6, <3>7, <3>8, <3>10, <3>11, <3>12, <3>13 DEF LandsWell
  <2> QED
    BY <2>3, <2>4
<1>10. ASSUME r \in [table : {"files"}, op : {"delete"}, fresh : BOOLEAN, id : FileId,
                     write : [item : Item]]
       PROVE  LandsWell(p, r)
  <2>1. PICK h \in FileId, i \in Item : h = r.id /\ i = r.write.item /\ r.op = "delete"
    BY <1>10
  <2>2. DropFile(h, i)
    BY <1>1, <2>1 DEF CommitFile
  <2>3. CASE (\E j \in Items : items[j].file = h) \/ i \notin Items \/ files[h] = NoFile
    <3>1. UNCHANGED items /\ UNCHANGED files /\ doubtful' = doubtful \cup {h}
      BY <2>2, <2>3 DEF DropFile
    <3> QED
      BY <1>3, <1>6, <1>7, <2>1, <3>1
  <2>4. CASE ~((\E j \in Items : items[j].file = h) \/ i \notin Items \/ files[h] = NoFile)
    <3>1. /\ files' = [files EXCEPT ![h] = NoFile] /\ items' = [items EXCEPT ![i].file = NoFile]
          /\ UNCHANGED doubtful /\ i \in Items /\ \A j \in Items : items[j].file # h
      BY <2>2, <2>4 DEF DropFile
    <3>2. \A f \in FileId : files'[f] = IF f = h THEN NoFile ELSE files[f]
      BY <1>3, <3>1
    <3>3. Files' = Files \ {h}
      BY <3>2 DEF Files
    <3>4. files' \in [FileId -> 0 .. uploads]
      <4>1. NoFile \in 0 .. uploads
        BY <1>3 DEF NoFile
      <4> QED
        BY <1>3, <3>1, <4>1
    <3>5. /\ SameDefinitions /\ DOMAIN items' = Item
          /\ \A j \in Items : items'[j] \in ItemRow(Files')
      <4>1. \A j \in Items : items[j].file \in Files \cup {NoFile}
        BY <1>3 DEF ItemRow
      <4>2. \A j \in Items : (IF j = i THEN NoFile ELSE items[j].file) \in Files' \cup {NoFile}
        BY <3>1, <3>3, <4>1
      <4> QED
        BY <3>1, <4>2, FileColumn
    <3>6. \A f \in Files' : f # h /\ f \in Files /\ files'[f] = files[f]
      BY <3>2, <3>3 DEF Files
    <3>7. \A f \in Files' : \/ files'[f] \in disk \/ f \in doubtful'
                            \/ \E q \in Proc : q # p /\ WorksOn(q, f)
      BY <1>4, <1>6, <2>1, <3>1, <3>6
    <3>8. \A f, g \in Files' : f # g => files'[f] # files'[g]
      BY <1>4, <3>6
    <3>9. \A f \in FileId : files'[f] # files[f] => files'[f] = NoFile
      BY <3>2
    <3> QED
      BY <1>3, <3>1, <3>4, <3>5, <3>6, <3>7, <3>8, <3>9 DEF LandsWell
  <2> QED
    BY <2>3, <2>4
<1>11. LandsWell(p, r)
  BY <1>2, <1>8, <1>9, <1>10 DEF FileRequest, UploadRequest, OldFileRequest
<1> QED
  BY <1>1, <1>11

\* So the commit of a file keeps the invariant.
LEMMA FileCommitted ==
    ASSUME RequestsOK, ItemsInv, NEW p \in Proc, CommitFile(p)
    PROVE  ItemsInv' /\ Served /\ ClashHasACause
<1>1. PICK r : r = request[p]
  OBVIOUS
<1>2. /\ LandsWell(p, r) /\ Pending(p, "files") /\ Commit(p, "files")
      /\ UNCHANGED disk /\ UNCHANGED uploads
  BY <1>1, FileWritten DEF CommitFile
<1>3. /\ request'[p] = Idle
      /\ \A q \in Proc : Pending(q, "files")' =>
            Pending(q, "files") /\ request'[q] = [request[q] EXCEPT !.fresh = FALSE]
      /\ \A q \in Proc : Pending(q, "config_items")' => request'[q] = request[q]
  <2>1. {"config_items"} \in SUBSET Table /\ "files" \in Table /\ "files" \notin {"config_items"}
    BY DEF Table
  <2>2. Elsewhere({"config_items"})
    BY <1>2, <2>1, Landed
  <2> QED
    BY <1>2, <2>1, <2>2, Landed DEF Pending, Elsewhere
<1>4. \A q \in Proc : q # p /\ Pending(q, "files") =>
         Pending(q, "files")' /\ request'[q] = [request[q] EXCEPT !.fresh = FALSE]
  BY <1>2, FileStale DEF Commit, Pending, RequestsOK
<1>5. \A q \in Proc : Pending(q, "files")' =>
         /\ q # p /\ Pending(q, "files") /\ FileRequest(request'[q])
         /\ request'[q].op = request[q].op
         /\ request[q].op \in {"insert", "update"} => PathOf(request'[q]) = PathOf(request[q])
  <2> SUFFICES ASSUME NEW q \in Proc, Pending(q, "files")'
               PROVE  /\ q # p /\ Pending(q, "files") /\ FileRequest(request'[q])
                      /\ request'[q].op = request[q].op
                      /\ request[q].op \in {"insert", "update"} =>
                            PathOf(request'[q]) = PathOf(request[q])
    OBVIOUS
  <2>1. PICK s : s = request[q]
    OBVIOUS
  <2>2. Pending(q, "files") /\ request'[q] = [s EXCEPT !.fresh = FALSE] /\ FileRequest(s)
    BY <1>3, <2>1 DEF ItemsInv, FilesKept, FileRequest
  <2>3. q # p
    BY <1>3 DEF Pending, Idle
  <2> QED
    BY <2>1, <2>2, <2>3, FileStale
<1>6. \A q \in Proc : \A f : q # p /\ WorksOn(q, f) => WorksOn(q, f)'
  <2> SUFFICES ASSUME NEW q \in Proc, NEW f, q # p, WorksOn(q, f) PROVE WorksOn(q, f)'
    OBVIOUS
  <2>1. PICK s : s = request[q]
    OBVIOUS
  <2>2. /\ FileRequest(s) /\ Pending(q, "files")' /\ request'[q] = [s EXCEPT !.fresh = FALSE]
        /\ s.op # "insert" /\ s.id = f
    BY <1>4, <2>1 DEF ItemsInv, FilesKept, FileRequest, WorksOn
  <2>3. request'[q].op = s.op /\ request'[q].id = s.id
    BY <2>2, FileStale
  <2> QED
    BY <2>2, <2>3 DEF WorksOn
<1>7. \A q \in Proc : Uploading(q)' =>
         q # p /\ Uploading(q) /\ PathOf(request'[q]) = PathOf(request[q])
  BY <1>5 DEF Uploading
<1>8. Uploading(p) <=> r.op \in {"insert", "update"}
  BY <1>1, <1>2 DEF Uploading
<1>9. FilesKept'
  <2>1. \A q \in Proc : Pending(q, "files")' =>
           UploadRequest(request'[q]) \/ OldFileRequest(request'[q])
    BY <1>5 DEF FileRequest
  <2>2. ASSUME NEW q \in Proc, Uploading(q)'
        PROVE  /\ PathOf(request'[q]) \in disk'
               /\ \A f \in Files' : files'[f] # PathOf(request'[q])
    <3>1. q # p /\ Uploading(q) /\ PathOf(request'[q]) = PathOf(request[q])
      BY <1>7, <2>2
    <3>2. /\ PathOf(request[q]) \in disk /\ \A f \in Files : files[f] # PathOf(request[q])
          /\ r.op \in {"insert", "update"} => PathOf(r) # PathOf(request[q])
      BY <1>1, <1>8, <3>1 DEF ItemsInv, FilesKept
    <3> QED
      BY <1>2, <3>1, <3>2 DEF LandsWell
  <2>3. \A q, s \in Proc : Uploading(q)' /\ Uploading(s)' /\ q # s =>
           PathOf(request'[q]) # PathOf(request'[s])
    BY <1>7 DEF ItemsInv, FilesKept
  <2>4. \A f, g \in Files' : f # g => files'[f] # files'[g]
    BY <1>2 DEF LandsWell
  <2>5. MissingFileHasACause'
    BY <1>2, <1>6 DEF LandsWell, MissingFileHasACause
  <2> QED
    BY <2>1, <2>2, <2>3, <2>4, <2>5 DEF FilesKept
<1>10. \A s : DefinitionRequest(s) => DefinitionRequest(s)'
  BY <1>2, DefinitionRequestKept DEF LandsWell
<1>11. \A q \in Proc : Pending(q, "config_items")' => DefinitionRequest(request[q])'
  BY <1>3, <1>10 DEF ItemsInv, Pending, DefinitionRequest
<1>12. ItemsTypeOK'
  BY <1>2 DEF LandsWell, ItemsInv, ItemsTypeOK, ItemRow, SameDefinitions
<1>13. Served
  BY <1>2 DEF LandsWell, Served
<1>14. ClashHasACause
  BY <1>2, NoNewClash DEF LandsWell, ClashHasACause
<1>15. DOMAIN items' = Item /\ uploads' \in 0 .. MaxUploads
  BY <1>2 DEF LandsWell, ItemsInv
<1> QED
  BY <1>9, <1>11, <1>12, <1>13, <1>14, <1>15 DEF ItemsInv, DefinitionRequest

\* Every step on items and files keeps the invariant.
LEMMA FilesStep ==
    ASSUME RequestsOK, ItemsInv, NEW p \in Proc, DefinitionsNext(p) \/ FilesNext(p)
    PROVE  /\ ItemsInv' /\ ClashHasACause /\ Served /\ RequestsOK'
           /\ \A T \in SUBSET Table : T \cap {"config_items", "files"} = {} => Elsewhere(T)
<1>1. ASSUME DefinitionBegins(p)
      PROVE  /\ ItemsInv' /\ ClashHasACause /\ Served /\ RequestsOK'
             /\ \A T \in SUBSET Table : T \cap {"config_items", "files"} = {} => Elsewhere(T)
  <2>1. UNCHANGED raced /\ UNCHANGED itemVars /\ Free(p)
    BY <1>1, DefinitionBegun
  <2>2. PICK r : Go(p, r) /\ DefinitionRequest(r)
    BY <1>1, DefinitionBegun
  <2>3. r.table = "config_items" /\ "table" \in DOMAIN r /\ "config_items" \in Table
    BY <2>2 DEF DefinitionRequest, NewItemOf, ItemRequest, OldItemRequest, Table
  <2>4. ItemsInv'
    BY <2>1, <2>2, DefinitionBegin
  <2>5. UNCHANGED items /\ UNCHANGED files
    BY <2>1 DEF itemVars
  <2>6. ClashHasACause /\ Served
    BY <2>5 DEF ClashHasACause, Served, SameToken, Items
  <2> QED
    BY <2>1, <2>2, <2>3, <2>4, <2>6, Begun
<1>2. ASSUME UploadBegins(p)
      PROVE  /\ ItemsInv' /\ ClashHasACause /\ Served /\ RequestsOK'
             /\ \A T \in SUBSET Table : T \cap {"config_items", "files"} = {} => Elsewhere(T)
  <2>1. UNCHANGED raced /\ UNCHANGED items /\ UNCHANGED files
    BY <1>2, UploadBegun
  <2>2. PICK r : Go(p, r) /\ r.table = "files" /\ FileRequest(r)
    BY <1>2, UploadBegun
  <2>3. "table" \in DOMAIN r /\ "files" \in Table
    BY <2>2 DEF FileRequest, UploadRequest, OldFileRequest, Table
  <2>4. ItemsInv'
    BY <1>2, UploadBegin
  <2>5. ClashHasACause /\ Served
    BY <2>1 DEF ClashHasACause, Served, SameToken, Items
  <2> QED
    BY <2>1, <2>2, <2>3, <2>4, <2>5, Begun
<1>3. ASSUME CommitItem(p) \/ CommitFile(p)
      PROVE  /\ ItemsInv' /\ ClashHasACause /\ Served /\ RequestsOK'
             /\ \A T \in SUBSET Table : T \cap {"config_items", "files"} = {} => Elsewhere(T)
  <2>1. ItemsInv' /\ ClashHasACause /\ Served
    BY <1>3, DefinitionCommitted, FileCommitted
  <2>2. \E t \in {"config_items", "files"} : Pending(p, t) /\ Commit(p, t)
    BY <1>3 DEF CommitItem, CommitFile
  <2>3. {"config_items", "files"} \subseteq Table
    BY DEF Table
  <2> QED
    BY <2>1, <2>2, <2>3, Landed
<1>4. DefinitionBegins(p) \/ UploadBegins(p) \/ CommitItem(p) \/ CommitFile(p)
  <2>1. /\ \A c \in Category, k \in Token : /\ {<<"category", c>>} \in SUBSET ItemColumn
                                            /\ {<<"token", k>>} \in SUBSET ItemColumn
                                            /\ {<<"category", c>>, <<"token", k>>} \in SUBSET ItemColumn
        /\ \A type \in {"file", "text"} : {<<"type", type>>} \in SUBSET ItemColumn
    BY DEF ItemColumn
  <2>2. DefinitionsNext(p) => DefinitionBegins(p) \/ CommitItem(p)
    BY <2>1 DEF DefinitionsNext, DefinitionBegins
  <2>3. FilesNext(p) =>
           DefinitionBegins(p) \/ UploadBegins(p) \/ CommitItem(p) \/ CommitFile(p)
    BY <2>1 DEF FilesNext, DefinitionBegins, UploadBegins
  <2> QED
    BY <2>2, <2>3
<1> QED
  BY <1>1, <1>2, <1>3, <1>4

\* A request that ends without a commit leaves what it did to the disk.
LEMMA ItemRequestDropped ==
    ASSUME RequestsOK, ItemsInv, NEW p \in Proc, DropItemRequest(p)
    PROVE  ItemsInv' /\ ClashHasACause /\ Served
<1>1. /\ Go(p, Idle) /\ doubtful' = doubtful \cup {f \in FileId : WorksOn(p, f)}
      /\ UNCHANGED items /\ UNCHANGED files /\ UNCHANGED disk /\ UNCHANGED uploads
  BY DEF DropItemRequest, Drop
<1>2. Items' = Items /\ Files' = Files
  BY <1>1 DEF Items, Files
<1>3. \A q \in Proc : request'[q] = IF q = p THEN Idle ELSE request[q]
  BY <1>1 DEF RequestsOK, Go
<1>4. \A q \in Proc : /\ Pending(q, "files")' => q # p /\ request'[q] = request[q]
                      /\ Pending(q, "config_items")' => q # p /\ request'[q] = request[q]
  BY <1>3 DEF Pending, Idle
<1>5. ItemsTypeOK'
  BY <1>1, <1>2 DEF ItemsInv, ItemsTypeOK
<1>6. MissingFileHasACause'
  <2> SUFFICES ASSUME NEW f \in Files
               PROVE  \/ files[f] \in disk \/ f \in doubtful'
                      \/ \E q \in Proc : WorksOn(q, f)'
    BY <1>1, <1>2 DEF MissingFileHasACause
  <2>1. ASSUME NEW q \in Proc, WorksOn(q, f), q # p PROVE WorksOn(q, f)'
    BY <1>3, <2>1 DEF WorksOn, Pending
  <2>2. WorksOn(p, f) => f \in doubtful'
    BY <1>1 DEF Files
  <2> QED
    BY <1>1, <2>1, <2>2 DEF ItemsInv, FilesKept, MissingFileHasACause
<1>7. \A q \in Proc : Uploading(q)' => Uploading(q) /\ request'[q] = request[q]
  BY <1>4 DEF Uploading, Pending
<1>8. FilesKept'
  <2>1. \A q \in Proc : Pending(q, "files")' =>
           UploadRequest(request'[q]) \/ OldFileRequest(request'[q])
    BY <1>4 DEF ItemsInv, FilesKept, Pending
  <2>2. \A q \in Proc : Uploading(q)' =>
           /\ PathOf(request'[q]) \in disk'
           /\ \A f \in Files' : files'[f] # PathOf(request'[q])
    BY <1>1, <1>2, <1>7 DEF ItemsInv, FilesKept
  <2>3. \A q, s \in Proc : Uploading(q)' /\ Uploading(s)' /\ q # s =>
           PathOf(request'[q]) # PathOf(request'[s])
    BY <1>7 DEF ItemsInv, FilesKept
  <2>4. \A f, g \in Files' : f # g => files'[f] # files'[g]
    BY <1>1, <1>2 DEF ItemsInv, FilesKept
  <2> QED
    BY <1>6, <2>1, <2>2, <2>3, <2>4 DEF FilesKept
<1>9. \A s : DefinitionRequest(s) => DefinitionRequest(s)'
  BY <1>1, <1>2, DefinitionRequestKept DEF SameDefinitions
<1>10. \A q \in Proc : Pending(q, "config_items")' => DefinitionRequest(request[q])'
  BY <1>4, <1>9 DEF ItemsInv, Pending, DefinitionRequest
<1>11. ClashHasACause /\ Served
  BY <1>1 DEF ClashHasACause, Served, SameToken, Items
<1> QED
  BY <1>1, <1>5, <1>8, <1>10, <1>11 DEF ItemsInv, DefinitionRequest

-----------------------------------------------------------------------------
\* The other parts end no request for a file.
Orderly(p) ==
    \/ UNCHANGED request
    \/ Free(p) /\ \E r : Go(p, r)
    \/ \E t \in Table \ {"files"} : Pending(p, t) /\ Commit(p, t)

\* An orderly step leaves the requests for files as they are.
LEMMA FilesAtWork ==
    ASSUME RequestsOK, NEW p \in Proc, Orderly(p)
    PROVE  \A q \in Proc : Pending(q, "files") => request'[q] = request[q]
<1>1. "files" # Idle.table
  BY DEF Idle
<1>2. CASE Free(p) /\ \E r : Go(p, r)
  BY <1>1, <1>2 DEF Free, Pending, Go, RequestsOK
<1>3. CASE \E t \in Table \ {"files"} : Pending(p, t) /\ Commit(p, t)
  BY <1>3 DEF Pending, Commit
<1> QED
  BY <1>2, <1>3 DEF Orderly

\* The steps of the other parts are orderly.
LEMMA PartsAreOrderly ==
    ASSUME NEW p \in Proc
    PROVE  /\ CoveragesNext(p) => Orderly(p)
           /\ CategoriesNext(p) \/ PlacesNext(p) => Orderly(p)
           /\ TextsNext(p) => Orderly(p)
           /\ CountriesNext(p) \/ SoldNext(p) \/ RepatriationNext(p) => Orderly(p)
           /\ TemplatesNext(p) => Orderly(p)
<1>1. CoveragesNext(p) => Orderly(p)
  BY DEF CoveragesNext, Orderly, Table, StoreCoverage, ArchiveCoverage, RestoreCoverage,
     DestroyCoverage, StoreRow, DestroyRow, Reorder, CommitCatalogue, CommitRows
<1>2. CategoriesNext(p) \/ PlacesNext(p) => Orderly(p)
  BY DEF CategoriesNext, PlacesNext, Orderly, Table, StoreCategory, ArchiveCategory,
     RestoreCategory, CommitCategory, StoreCatalogueItem, MoveCatalogueItem, ReorderCatalogue,
     DestroyCatalogueItem, CommitPlaces
<1>3. TextsNext(p) => Orderly(p)
  BY DEF TextsNext, Orderly, Table, UpdateTerms, UpdateValues, CommitTerms, CommitValues
<1>4. CountriesNext(p) \/ SoldNext(p) \/ RepatriationNext(p) => Orderly(p)
  <2>1. CountriesNext(p) => Orderly(p)
    BY DEF CountriesNext, Orderly, Table, StoreCountry, UpdateCountry, CommitCountry, ToggleZone,
       AttachToZone, DetachFromZone
  <2>2. SoldNext(p) \/ RepatriationNext(p) => Orderly(p)
    BY DEF SoldNext, RepatriationNext, Orderly, Table, AttachCountries, AttachRepatriation,
       AttachZone, DetachZone, AttachRepatriationZone, DetachRepatriationZone, DetachCountry,
       DetachRepatriation, SetPrice, Attach, Detach, CommitSold, CommitRepatriation
  <2> QED
    BY <2>1, <2>2
<1>5. TemplatesNext(p) => Orderly(p)
  <2>1. \A t \in Template : CloneTemplate(p, t) => Free(p) /\ \E r : Go(p, r)
    BY DEF CloneTemplate, GetTemplate
  <2> QED
    BY <2>1 DEF TemplatesNext, Orderly, Table, StoreTemplate, DestroyTemplate, StoreVersion,
       UpdateBasic, Activate, Deactivate, CloneVersion, DestroyVersion, CommitTemplate,
       CommitVersion, GetTemplate, Save
<1> QED
  BY <1>1, <1>2, <1>3, <1>4, <1>5

-----------------------------------------------------------------------------
(***************************************************************************)
(* The catalogue as a whole.                                               *)
(***************************************************************************)
CatalogueInv ==
    RequestsOK /\ CoveragesInv /\ CategoriesInv /\ TextsInv /\ CountriesInv /\ TemplatesInv /\ ItemsInv

Ties == OrderTies /\ PlaceTies
Kept == Ties /\ TextsKeep /\ PriceKeeps /\ TemplatesKeep /\ ClashHasACause /\ Served

\* The invariant holds initially.
LEMMA CatalogueInitially ==
    ASSUME CatalogueInit
    PROVE  CatalogueInv
<1>1. /\ request = [p \in Proc |-> Idle]
      /\ CoveragesInit /\ TextsInit /\ TemplatesInit
      /\ CategoriesInit \/ CategoriesExist
      /\ CountriesInit \/ CountriesExist
      /\ ItemsInit \/ LogoExists
  BY DEF CatalogueInit, RequestsInit
<1>2. RequestsOK /\ \A p \in Proc : \A t \in Table : ~Pending(p, t)
  BY <1>1 DEF RequestsOK, Free, Pending, Idle, Table
<1>3. CoveragesInv
  <2>1. Attached = {}
    BY <1>1 DEF CoveragesInit, Attached
  <2>2. CoveragesTypeOK
    BY <1>1, RowBoundAssumption DEF CoveragesInit, CoveragesTypeOK
  <2>3. CoverageOnce /\ AttachedIsInCatalogue
    BY <2>1 DEF CoverageOnce, AttachedIsInCatalogue
  <2> QED
    BY <1>2, <2>1, <2>2, <2>3 DEF CoveragesInv, Table
<1>4. CategoriesInv
  <2>1. Placed = {} /\ DOMAIN places = CatalogueItem
    BY <1>1 DEF CategoriesInit, CategoriesExist, Placed
  <2>2. CASE CategoriesInit
    <3>1. Categories = {}
      BY <2>2 DEF CategoriesInit, Categories
    <3> QED
      BY <1>2, <2>1, <2>2, <3>1, CategoryBoundAssumption
         DEF CategoriesInv, CategoriesInit, CategoriesTypeOK, CategoryPlacesDiffer, Table
  <2>3. CASE CategoriesExist
    <3>1. \A k \in CategoryId : /\ categories[k].status = "active" /\ categories[k].order = k
                                /\ k \in Nat \ {0} /\ k <= MaxCategories
      BY <2>3, CategoryBoundAssumption DEF CategoriesExist, CategoryId
    <3> QED
      BY <1>2, <2>1, <2>3, <3>1, CategoryBoundAssumption
         DEF CategoriesInv, CategoriesExist, CategoriesTypeOK, CategoryPlacesDiffer, Table,
             Categories
  <2> QED
    BY <1>1, <2>2, <2>3
<1>5. TextsInv
  <2>1. TextsTypeOK
    BY <1>1, TextAssumption DEF TextsInit, TextsTypeOK
  <2> QED
    BY <1>2, <2>1 DEF TextsInv, Table
<1>6. CountriesInv
  <2>1. CASE CountriesInit
    <3>1. CountriesTypeOK /\ Known = {}
      BY <2>1 DEF CountriesInit, CountriesTypeOK, Known
    <3> QED
      BY <1>2, <3>1 DEF CountriesInv, CodesDiffer, Table, Lists, Pending
  <2>2. CASE CountriesExist
    <3>1. CountriesTypeOK /\ CodesDiffer
      BY <2>2 DEF CountriesExist, CountriesTypeOK, CodesDiffer, Known
    <3> QED
      BY <1>2, <3>1 DEF CountriesInv, Table, Lists, Pending
  <2> QED
    BY <1>1, <2>1, <2>2
<1>7. TemplatesInv
  <2>1. Stored = {} /\ DOMAIN templates = Template
    BY <1>1 DEF TemplatesInit, Stored
  <2>2. TemplatesTypeOK
    BY <1>1, <2>1, MaxVersionsAssumption DEF TemplatesInit, TemplatesTypeOK
  <2>3. \A v \in VersionId : versions[v] = "none"
    BY <1>1 DEF TemplatesInit
  <2> QED
    BY <1>2, <2>1, <2>2, <2>3 DEF TemplatesInv, ActiveVersionIsOwn, SlugsDiffer, Table
<1>8. ItemsInv
  <2>1. Files = {} /\ disk = {} /\ doubtful = {} /\ uploads = 0
        /\ files = [f \in FileId |-> NoFile]
    BY <1>1 DEF ItemsInit, LogoExists, Files
  <2>2. /\ DOMAIN items = Item
        /\ \A i \in Items : items[i] \in ItemRow(Files)
    <3>1. LogoRow \in ItemRow(Files)
      BY ConfigItemsAssumption DEF LogoRow, ItemRow
    <3> QED
      BY <1>1, <3>1 DEF ItemsInit, LogoExists, Items
  <2>3. ItemsTypeOK
    BY <2>1, <2>2 DEF ItemsTypeOK, ItemRow, NoFile
  <2>4. FilesKept
    BY <1>2, <2>1 DEF FilesKept, Uploading, MissingFileHasACause, Table
  <2>5. uploads \in 0 .. MaxUploads
    BY <2>1, ConfigItemsAssumption
  <2> QED
    BY <1>2, <2>2, <2>3, <2>4, <2>5 DEF ItemsInv, Table
<1> QED
  BY <1>2, <1>3, <1>4, <1>5, <1>6, <1>7, <1>8 DEF CatalogueInv

\* The parts share the machinery of requests and no table.
LEMMA CatalogueStep ==
    ASSUME CatalogueInv, [CatalogueNext]_catalogueVars
    PROVE  CatalogueInv' /\ Kept
<1> USE DEF CatalogueInv
<1> DEFINE A == {"coverages", "rows"}
           B == {"coverage_categories", "items"}
           C == {"terms", "values"}
           D == CountryTables
           E == TemplateTables
           F == {"config_items", "files"}
<1>1. /\ A \in SUBSET Table /\ B \in SUBSET Table /\ C \in SUBSET Table
      /\ D \in SUBSET Table /\ E \in SUBSET Table /\ F \in SUBSET Table
  BY DEF Table, CountryTables, TemplateTables
<1>2. /\ A \cap B = {} /\ A \cap C = {} /\ A \cap D = {} /\ A \cap E = {} /\ A \cap F = {}
      /\ B \cap C = {} /\ B \cap D = {} /\ B \cap E = {} /\ B \cap F = {}
      /\ C \cap D = {} /\ C \cap E = {} /\ C \cap F = {}
      /\ D \cap E = {} /\ D \cap F = {} /\ E \cap F = {}
  BY DEF CountryTables, TemplateTables
<1>3. /\ UNCHANGED coverageVars /\ Elsewhere(A) => CoveragesInv'
      /\ UNCHANGED categoryVars /\ Elsewhere(B) => CategoriesInv'
      /\ UNCHANGED textVars /\ Elsewhere(C) => TextsInv'
      /\ UNCHANGED countryVars /\ Elsewhere(D) => CountriesInv'
      /\ UNCHANGED templateVars /\ Elsewhere(E) => TemplatesInv'
  BY CoveragesElsewhere, CategoriesElsewhere, TextsElsewhere, CountriesElsewhere,
     TemplatesElsewhere
<1>4. ASSUME UNCHANGED itemVars, Elsewhere(F),
             \A q \in Proc : Pending(q, "files") => request'[q] = request[q]
      PROVE  ItemsInv'
  BY <1>4, ItemsElsewhere
<1>5. /\ UNCHANGED coverageVars => OrderTies
      /\ UNCHANGED categoryVars => PlaceTies
      /\ UNCHANGED textVars => TextsKeep
      /\ UNCHANGED countryVars => PriceKeeps
      /\ UNCHANGED templateVars => TemplatesKeep
      /\ UNCHANGED itemVars => ClashHasACause /\ Served
  BY DEF OrderTies, SameOrder, Attached, coverageVars, PlaceTies, SamePlace, Placed,
     categoryVars, TextsKeep, textVars, PriceKeeps, countryVars, TemplatesKeep, TemplatesRest,
     NamedIsDeactivated, templateVars, ClashHasACause, Served, SameToken, Items, itemVars
<1> HIDE DEF A, B, C, D, E, F
<1>6. CASE UNCHANGED catalogueVars
  <2>1. UNCHANGED request /\ UNCHANGED raced /\ UNCHANGED coverageVars /\ UNCHANGED categoryVars
        /\ UNCHANGED textVars /\ UNCHANGED countryVars /\ UNCHANGED templateVars
        /\ UNCHANGED itemVars
    BY <1>6 DEF catalogueVars
  <2>2. RequestsOK' /\ \A T : Elsewhere(T)
    BY <2>1 DEF RequestsOK, Elsewhere, Free
  <2> QED
    BY <1>3, <1>4, <1>5, <2>1, <2>2 DEF Kept, Ties
<1>7. ASSUME NEW p \in Proc, DropItemRequest(p), UNCHANGED coverageVars, UNCHANGED categoryVars,
             UNCHANGED textVars, UNCHANGED countryVars, UNCHANGED templateVars
      PROVE  CatalogueInv' /\ Kept
  <2>1. RequestsOK' /\ \A T \in SUBSET Table : Elsewhere(T)
    BY <1>7, Dropped DEF DropItemRequest
  <2>2. ItemsInv' /\ ClashHasACause /\ Served
    BY <1>7, ItemRequestDropped
  <2> QED
    BY <1>1, <1>3, <1>5, <1>7, <2>1, <2>2 DEF Kept, Ties
<1>8. ASSUME NEW p \in Proc, Orderly(p), UNCHANGED itemVars, Elsewhere(F)
      PROVE  ItemsInv'
  BY <1>4, <1>8, FilesAtWork
<1>9. ASSUME NEW p \in Proc, CoveragesNext(p), UNCHANGED categoryVars, UNCHANGED textVars,
             UNCHANGED countryVars, UNCHANGED templateVars, UNCHANGED itemVars
      PROVE  CatalogueInv' /\ Kept
  <2>1. /\ CoveragesInv' /\ OrderTies /\ RequestsOK'
        /\ Elsewhere(B) /\ Elsewhere(C) /\ Elsewhere(D) /\ Elsewhere(E) /\ Elsewhere(F)
    BY <1>1, <1>2, <1>9, CoveragesStep DEF A
  <2>2. ItemsInv'
    BY <1>8, <1>9, <2>1, PartsAreOrderly
  <2> QED
    BY <1>3, <1>5, <1>9, <2>1, <2>2 DEF Kept, Ties
<1>10. ASSUME NEW p \in Proc, CategoriesNext(p) \/ PlacesNext(p), UNCHANGED coverageVars,
              UNCHANGED textVars, UNCHANGED countryVars, UNCHANGED templateVars,
              UNCHANGED itemVars
       PROVE  CatalogueInv' /\ Kept
  <2>1. /\ CategoriesInv' /\ PlaceTies /\ RequestsOK'
        /\ Elsewhere(A) /\ Elsewhere(C) /\ Elsewhere(D) /\ Elsewhere(E) /\ Elsewhere(F)
    BY <1>1, <1>2, <1>10, CategoriesStep DEF B
  <2>2. ItemsInv'
    BY <1>8, <1>10, <2>1, PartsAreOrderly
  <2> QED
    BY <1>3, <1>5, <1>10, <2>1, <2>2 DEF Kept, Ties
<1>11. ASSUME NEW p \in Proc, TextsNext(p), UNCHANGED coverageVars, UNCHANGED categoryVars,
              UNCHANGED countryVars, UNCHANGED templateVars, UNCHANGED itemVars
       PROVE  CatalogueInv' /\ Kept
  <2>1. /\ TextsInv' /\ TextsKeep /\ RequestsOK'
        /\ Elsewhere(A) /\ Elsewhere(B) /\ Elsewhere(D) /\ Elsewhere(E) /\ Elsewhere(F)
    BY <1>1, <1>2, <1>11, TextsStep DEF C
  <2>2. ItemsInv'
    BY <1>8, <1>11, <2>1, PartsAreOrderly
  <2> QED
    BY <1>3, <1>5, <1>11, <2>1, <2>2 DEF Kept, Ties
<1>12. ASSUME NEW p \in Proc, CountriesNext(p) \/ SoldNext(p) \/ RepatriationNext(p),
              UNCHANGED coverageVars, UNCHANGED categoryVars, UNCHANGED textVars,
              UNCHANGED templateVars, UNCHANGED itemVars
       PROVE  CatalogueInv' /\ Kept
  <2>1. /\ CountriesInv' /\ PriceKeeps /\ RequestsOK'
        /\ Elsewhere(A) /\ Elsewhere(B) /\ Elsewhere(C) /\ Elsewhere(E) /\ Elsewhere(F)
    BY <1>1, <1>2, <1>12, CountriesStep DEF D
  <2>2. ItemsInv'
    BY <1>8, <1>12, <2>1, PartsAreOrderly
  <2> QED
    BY <1>3, <1>5, <1>12, <2>1, <2>2 DEF Kept, Ties
<1>13. ASSUME NEW p \in Proc, TemplatesNext(p), UNCHANGED coverageVars, UNCHANGED categoryVars,
              UNCHANGED textVars, UNCHANGED countryVars, UNCHANGED itemVars
       PROVE  CatalogueInv' /\ Kept
  <2>1. /\ TemplatesInv' /\ TemplatesKeep /\ RequestsOK'
        /\ Elsewhere(A) /\ Elsewhere(B) /\ Elsewhere(C) /\ Elsewhere(D) /\ Elsewhere(F)
    BY <1>1, <1>2, <1>13, TemplatesStep DEF E
  <2>2. ItemsInv'
    BY <1>8, <1>13, <2>1, PartsAreOrderly
  <2> QED
    BY <1>3, <1>5, <1>13, <2>1, <2>2 DEF Kept, Ties
<1>14. ASSUME NEW p \in Proc, DefinitionsNext(p) \/ FilesNext(p), UNCHANGED coverageVars,
              UNCHANGED categoryVars, UNCHANGED textVars, UNCHANGED countryVars,
              UNCHANGED templateVars
       PROVE  CatalogueInv' /\ Kept
  <2>1. /\ ItemsInv' /\ ClashHasACause /\ Served /\ RequestsOK'
        /\ Elsewhere(A) /\ Elsewhere(B) /\ Elsewhere(C) /\ Elsewhere(D) /\ Elsewhere(E)
    BY <1>1, <1>2, <1>14, FilesStep DEF F
  <2> QED
    BY <1>3, <1>5, <1>14, <2>1 DEF Kept, Ties
<1>15. CASE CatalogueNext
  <2>1. PICK p \in Proc :
          \/ /\ CoveragesNext(p)
             /\ UNCHANGED <<categoryVars, textVars, countryVars, templateVars, itemVars>>
          \/ /\ CategoriesNext(p) \/ PlacesNext(p)
             /\ UNCHANGED <<coverageVars, textVars, countryVars, templateVars, itemVars>>
          \/ /\ TextsNext(p)
             /\ UNCHANGED <<coverageVars, categoryVars, countryVars, templateVars, itemVars>>
          \/ /\ CountriesNext(p) \/ SoldNext(p) \/ RepatriationNext(p)
             /\ UNCHANGED <<coverageVars, categoryVars, textVars, templateVars, itemVars>>
          \/ /\ TemplatesNext(p)
             /\ UNCHANGED <<coverageVars, categoryVars, textVars, countryVars, itemVars>>
          \/ /\ DefinitionsNext(p) \/ FilesNext(p) \/ DropItemRequest(p)
             /\ UNCHANGED <<coverageVars, categoryVars, textVars, countryVars, templateVars>>
    BY <1>15 DEF CatalogueNext
  <2> QED
    BY <1>7, <1>9, <1>10, <1>11, <1>12, <1>13, <1>14, <2>1
<1> QED
  BY <1>6, <1>15

-----------------------------------------------------------------------------
\* The invariant holds always.
LEMMA CatalogueHolds == CatalogueSpec => []CatalogueInv
<1>1. CatalogueInit => CatalogueInv
  BY CatalogueInitially
<1>2. CatalogueInv /\ [CatalogueNext]_catalogueVars => CatalogueInv'
  BY CatalogueStep
<1> QED
  BY <1>1, <1>2, PTL DEF CatalogueSpec

\* A pending request is an insert, an update or a delete.
LEMMA Typed ==
    ASSUME CatalogueInv
    PROVE  CatalogueTypeOK
<1>1. ASSUME NEW p \in Proc, ~Free(p) PROVE request[p].op \in {"insert", "update", "delete"}
  <2>1. request[p].table \in Table
    BY <1>1 DEF CatalogueInv, RequestsOK
  <2>2. CASE request[p].table \in {"coverages", "rows"}
    <3>1. PICK r : r = request[p]
      OBVIOUS
    <3>2. NewRowRequest(r) \/ OldRowRequest(r) \/ ReorderRequest(r) \/ UnusedRequest(r)
      BY <2>2, <3>1 DEF CatalogueInv, CoveragesInv, Pending, RowRequest
    <3>3. ReorderRequest(r) => r.op = "update"
      BY ReorderUpdates
    <3> QED
      BY <3>1, <3>2, <3>3 DEF NewRowRequest, OldRowRequest, UnusedRequest
  <2>3. CASE request[p].table \in {"coverage_categories", "items"}
    <3>1. PICK r : r = request[p]
      OBVIOUS
    <3>2. CategoryRequest(r) \/ NewItemRequest(r) \/ MoveRequest(r) \/ ArrangeRequest(r)
      BY <2>3, <3>1 DEF CatalogueInv, CategoriesInv, Pending, PlaceRequest
    <3>3. MoveRequest(r) => r.op = "update"
      <4>1. \A c, k, fresh : Moves(r, c, k, fresh) => r.op = "update"
        BY DEF Moves
      <4> QED
        BY <4>1 DEF MoveRequest
    <3>4. ArrangeRequest(r) => r.op = "update"
      <4>1. \A L, S, order, fresh : Arranges(r, L, S, order, fresh) => r.op = "update"
        BY DEF Arranges
      <4> QED
        BY <4>1 DEF ArrangeRequest
    <3> QED
      BY <3>1, <3>2, <3>3, <3>4 DEF CategoryRequest, NewItemRequest
  <2>4. CASE request[p].table \in {"terms", "values"}
    BY <2>4 DEF CatalogueInv, TextsInv, Pending, TermsRequest, ValuesRequest
  <2>5. CASE request[p].table \in CountryTables
    BY <2>5 DEF CatalogueInv, CountriesInv, Pending, NewCountryRequest, CountryRequest,
       ListRequest, CountryTables, Lists
  <2>6. CASE request[p].table \in TemplateTables
    <3>1. PICK r : r = request[p]
      OBVIOUS
    <3>2. \/ NewTemplateRequest(r) \/ TemplateRequest(r)
          \/ NewVersionRequest(r) \/ OldVersionRequest(r)
      BY <2>6, <3>1 DEF CatalogueInv, TemplatesInv, Pending, TemplateTables
    <3> QED
      BY <3>1, <3>2 DEF NewTemplateRequest, TemplateRequest, NewVersionRequest, OldVersionRequest
  <2>7. CASE request[p].table \in {"config_items", "files"}
    <3>1. PICK r : r = request[p]
      OBVIOUS
    <3>2. DefinitionRequest(r) \/ FileRequest(r)
      BY <2>7, <3>1
         DEF CatalogueInv, ItemsInv, FilesKept, Pending, DefinitionRequest, FileRequest
    <3> QED
      BY <3>1, <3>2 DEF DefinitionRequest, FileRequest, NewItemOf, ItemRequest, OldItemRequest,
         UploadRequest, OldFileRequest
  <2> QED
    BY <2>1, <2>2, <2>3, <2>4, <2>5, <2>6, <2>7 DEF Table, CountryTables, TemplateTables
<1> QED
  BY <1>1 DEF CatalogueInv, RequestsOK, CatalogueTypeOK, RequestsTypeOK, CoveragesInv,
     CategoriesInv, TextsInv, CountriesInv, TemplatesInv, ItemsInv

(***************************************************************************)
(* What refers to a row or to a file of the back office refers to one that *)
(* is there, whatever requests overlap: CatalogueConsistent.               *)
(***************************************************************************)
THEOREM ReferencesAreThere == CatalogueSpec => []CatalogueConsistent
<1>1. CatalogueInv => CatalogueConsistent
  BY Typed DEF CatalogueConsistent, CatalogueInv, CoveragesInv, TemplatesInv, ItemsInv, FilesKept
<1> QED
  BY <1>1, CatalogueHolds, PTL

(***************************************************************************)
(* A contract is printed from the version that the preview shows.          *)
(***************************************************************************)
THEOREM PreviewIsPrinted == CatalogueSpec => []ContractPrintsThePreview
<1>1. CatalogueInv => ContractPrintsThePreview
  BY PrintsThePreview DEF CatalogueInv
<1> QED
  BY <1>1, CatalogueHolds, PTL

(***************************************************************************)
(* What no unique key enforces holds until one request overtakes another:  *)
(* a coverage once in a version, one place for each category, one code for *)
(* each country.  Places of coverages and tokens are shared only by such a *)
(* write, or by one that its handler does not check: a reorder with one of *)
(* the two or with the same place for both, a move, an update that moves   *)
(* the category without the token or empties it.                           *)
(***************************************************************************)
THEOREM UniqueUntilOvertaken == CatalogueSpec => KeysStayUnique
<1>1. CatalogueInv => CoverageOnce /\ CategoryPlacesDiffer /\ CodesDiffer
  BY DEF CatalogueInv, CoveragesInv, CategoriesInv, CountriesInv
<1>2. CatalogueInv /\ [CatalogueNext]_catalogueVars => ClashHasACause /\ OrderTies /\ PlaceTies
  BY CatalogueStep DEF Kept, Ties
<1>3. ClashHasACause =>
         [~(SameToken' \subseteq SameToken) =>
            \E p \in Proc : /\ Pending(p, "config_items") /\ request'[p] = Idle
                            /\ \/ ~request[p].fresh
                               \/ /\ request[p].op = "update"
                                  /\ \/ Written(request[p].write.sent, "token") = {}
                                     \/ Empty \in Written(request[p].write.sent, "category")
         ]_<<itemVars, request>>
  BY DEF ClashHasACause
<1>4. CatalogueSpec => TokenClashHasACause
  BY <1>2, <1>3, CatalogueHolds, PTL DEF CatalogueSpec, TokenClashHasACause
<1>5. OrderTies =>
         [\A pair \in SameOrder' \ SameOrder :
            \E p \in Proc : /\ Pending(p, "rows") /\ request'[p] = Idle
                            /\ \/ ~request[p].fresh
                               \/ /\ request[p].op = "update"
                                  /\ Cardinality({pair[1], pair[2]}
                                                   \cap DOMAIN request[p].write) = 1
         ]_<<coverageVars, request>>
  BY DEF OrderTies, TiesRows
<1>6. CatalogueSpec => OrderTieHasACause
  BY <1>2, <1>5, CatalogueHolds, PTL DEF CatalogueSpec, OrderTieHasACause
<1>7. PlaceTies =>
         [\A pair \in SamePlace' \ SamePlace :
            \E p \in Proc : /\ Pending(p, "items") /\ request'[p] = Idle
                            /\ \/ ~request[p].fresh
                               \/ /\ request[p].op = "update"
                                  /\ {pair[1], pair[2]} \cap DOMAIN request[p].write # {}
                                  /\ ~Parts(request[p], pair[1], pair[2])
         ]_<<categoryVars, request>>
  BY DEF PlaceTies, TiesPlaces
<1>8. CatalogueSpec => PlaceTieHasACause
  BY <1>2, <1>7, CatalogueHolds, PTL DEF CatalogueSpec, PlaceTieHasACause
<1> QED
  BY <1>1, <1>4, <1>6, <1>8, CatalogueHolds, PTL DEF KeysStayUnique

(***************************************************************************)
(* The record that an upload commits points to a path on the disk.         *)
(***************************************************************************)
THEOREM UploadsAreServed == CatalogueSpec => UploadIsServed
<1>1. CatalogueInv /\ [CatalogueNext]_catalogueVars => Served
  BY CatalogueStep DEF Kept, Ties
<1>2. Served =>
         [\A f \in FileId : files'[f] # files[f] /\ files'[f] # NoFile => files'[f] \in disk'
         ]_<<itemVars, request>>
  BY DEF Served
<1> QED
  BY <1>1, <1>2, CatalogueHolds, PTL DEF CatalogueSpec, UploadIsServed

(***************************************************************************)
(* A write leaves alone what its request was not about: OthersAreKept.     *)
(***************************************************************************)
THEOREM OtherWritesSurvive == CatalogueSpec => OthersAreKept
<1>1. CatalogueInv /\ [CatalogueNext]_catalogueVars => Kept
  BY CatalogueStep
<1>2. Kept =>
         [\A c \in Country : sold[c] = "priced" /\ sold'[c] # "priced" =>
            \E p \in Proc : /\ Pending(p, "plan_version_countries")
                            /\ request[p].op \in {"update", "delete"}
                            /\ request'[p] = Idle]_<<sold, request>>
  BY DEF Kept, PriceKeeps
<1>3. Kept =>
         [\A p \in Proc :
            /\ Pending(p, "terms") /\ request'[p] = Idle /\ request[p].fresh =>
                 \A l \in Locale \ request[p].id : terms'[l] = terms[l]
            /\ Pending(p, "values") /\ request'[p] = Idle =>
                 \A f \in Field \ request[p].id : values'[f] = values[f]]_<<request, textVars>>
  BY DEF Kept, TextsKeep
<1>4. Kept =>
         [\A t \in Stored : templates[t].active # NoVersion /\ templates'[t].active = NoVersion =>
            \E p \in Proc : /\ Pending(p, "templates") /\ request'[p] = Idle
                            /\ ~request[p].fresh \/ request[p].write.named = templates[t].active
         ]_<<templateVars, request>>
  BY DEF Kept, TemplatesKeep, NamedIsDeactivated
<1>5. Kept =>
         [\A t \in Stored \ Live : templates'[t] # templates[t] =>
            \E p \in Proc : Pending(p, "templates") /\ ~request[p].fresh
                            /\ request'[p] = Idle]_<<templateVars, request>>
  BY DEF Kept, TemplatesKeep, TemplatesRest
<1>7. CatalogueSpec => PriceKept
  BY <1>1, <1>2, CatalogueHolds, PTL DEF CatalogueSpec, PriceKept
<1>8. CatalogueSpec => OtherTextsKept
  BY <1>1, <1>3, CatalogueHolds, PTL DEF CatalogueSpec, OtherTextsKept
<1>9. CatalogueSpec => OnlyNamedVersionIsDeactivated
  BY <1>1, <1>4, CatalogueHolds, PTL DEF CatalogueSpec, OnlyNamedVersionIsDeactivated
<1>10. CatalogueSpec => DeletedTemplateRests
  BY <1>1, <1>5, CatalogueHolds, PTL DEF CatalogueSpec, DeletedTemplateRests
<1> QED
  BY <1>7, <1>8, <1>9, <1>10 DEF OthersAreKept
=============================================================================
