---------------------------- MODULE PlanCoverages ----------------------------
(***************************************************************************)
(* The catalogue of coverages and the coverages of one plan version, with  *)
(* their order on the page: coverages_controller.py.                       *)
(***************************************************************************)
EXTENDS Integers, FiniteSets, Requests

CONSTANTS
    Coverage,   \* rows that the table coverages may hold
    MaxRows,    \* bound: rows ever inserted in plan_version_coverages
    MaxList     \* bound: ids in the list that a reorder is sent

ASSUME RowBoundAssumption == MaxRows \in Nat /\ MaxList \in Nat

RowId == 1 .. MaxRows
NoRow == [order |-> 0]

VARIABLES
    catalogue,   \* status of each coverage, or "absent"
    rows,        \* plan_version_coverages by id, or NoRow
    lastRow      \* the id inserted last

coverageVars == <<catalogue, rows, lastRow>>

-----------------------------------------------------------------------------
Attached    == {r \in RowId : rows[r] # NoRow}
Holding(c)  == {r \in Attached : rows[r].coverage = c}
LastOrder   == IF Attached = {} THEN 0
               ELSE CHOOSE n \in {rows[r].order : r \in Attached} :
                      \A r \in Attached : rows[r].order <= n

StoreCoverage(c) ==
    /\ catalogue[c] = "absent"
    /\ catalogue' = [catalogue EXCEPT ![c] = "active"]
    /\ UNCHANGED <<rows, lastRow, request, raced>>

ArchiveCoverage(c) ==
    /\ catalogue[c] # "absent"
    /\ catalogue' = [catalogue EXCEPT ![c] = "archived"]
    /\ UNCHANGED <<rows, lastRow, request, raced>>

RestoreCoverage(c) ==
    /\ catalogue[c] # "absent"
    /\ catalogue' = [catalogue EXCEPT ![c] = "active"]
    /\ UNCHANGED <<rows, lastRow, request, raced>>

DestroyCoverage(p, c) ==
    /\ Free(p)
    /\ catalogue[c] # "absent"
    /\ Holding(c) = {}
    /\ Go(p, Delete("coverages", c))
    /\ UNCHANGED <<catalogue, rows, lastRow, raced>>

\* A row that names the coverage by now makes the DELETE fail: the session had
\* loaded none to take with it.
CommitCatalogueMutant(p) ==
    /\ Pending(p, "coverages")
    /\ catalogue' = [catalogue EXCEPT ![request[p].id] = "absent"]
    /\ Commit(p, "coverages")
    /\ UNCHANGED <<rows, lastRow>>

CommitCatalogue(p) ==
    /\ Pending(p, "coverages")
    /\ LET c == request[p].id
       IN  catalogue' = IF Holding(c) = {} THEN [catalogue EXCEPT ![c] = "absent"]
                                           ELSE catalogue
    /\ Commit(p, "coverages")
    /\ UNCHANGED <<rows, lastRow>>

-----------------------------------------------------------------------------
\* The coverage may be archived, or not exist, which the foreign key refuses.
StoreRow(p, c) ==
    /\ Free(p)
    /\ Holding(c) = {}
    /\ Go(p, Insert("rows", [coverage |-> c, order |-> LastOrder + 1]))
    /\ UNCHANGED <<catalogue, rows, lastRow, raced>>

DestroyRow(p, r) ==
    /\ Free(p)
    /\ r \in Attached
    /\ Go(p, Delete("rows", r))
    /\ UNCHANGED <<catalogue, rows, lastRow, raced>>

\* What a list of ids says: the place of each row of the version that is in it,
\* the last one if it is there twice.  Nobody asks whether all rows are, or what
\* the other ids are.
Orders == UNION {{order \in [listed -> 1 .. MaxList] :
                    \A r, s \in listed : r # s => order[r] # order[s]}
                 : listed \in SUBSET Attached}

\* The rows that keep their place are not written.
Reorder(p, order) ==
    /\ Free(p)
    /\ LET moved == {r \in DOMAIN order : rows[r].order # order[r]}
       IN  /\ moved # {}
           /\ Go(p, Update("rows", moved, order))
    /\ UNCHANGED <<catalogue, rows, lastRow, raced>>

\* An UPDATE of a row that is gone fails, and with it the whole request.
CommitRows(p) ==
    /\ Pending(p, "rows")
    /\ LET t == request[p] IN
       \/ /\ t.op = "insert" /\ lastRow < MaxRows
          /\ lastRow' = lastRow + 1
          /\ rows' = IF catalogue[t.row.coverage] = "absent" THEN rows
                     ELSE [rows EXCEPT ![lastRow + 1] = t.row]
       \/ /\ t.op = "delete"
          /\ rows' = [rows EXCEPT ![t.id] = NoRow]
          /\ UNCHANGED lastRow
       \/ /\ t.op = "update"
          /\ rows' = [r \in RowId |->
               IF t.id \subseteq Attached /\ r \in t.id
               THEN [rows[r] EXCEPT !.order = t.write[r]] ELSE rows[r]]
          /\ UNCHANGED lastRow
    /\ Commit(p, "rows")
    /\ UNCHANGED catalogue

-----------------------------------------------------------------------------
CoveragesInit ==
    /\ catalogue = [c \in Coverage |-> "absent"]
    /\ rows = [r \in RowId |-> NoRow]
    /\ lastRow = 0

CoveragesNext(p) ==
    \/ \E c \in Coverage : StoreCoverage(c) \/ ArchiveCoverage(c) \/ RestoreCoverage(c)
    \/ \E c \in Coverage : DestroyCoverage(p, c) \/ StoreRow(p, c)
    \/ \E r \in RowId : DestroyRow(p, r)
    \/ \E order \in Orders : Reorder(p, order)
    \/ CommitCatalogue(p)
    \/ CommitRows(p)

-----------------------------------------------------------------------------
(***************************************************************************)
(* Properties.                                                             *)
(***************************************************************************)
CoveragesTypeOK ==
    /\ catalogue \in [Coverage -> {"absent", "active", "archived"}]
    /\ rows \in [RowId -> [coverage : Coverage, order : Nat \ {0}] \cup {NoRow}]
    /\ lastRow \in 0 .. MaxRows

(***************************************************************************)
(* A version has a coverage once unless requests raced: the table has no   *)
(* unique key.                                                             *)
(***************************************************************************)
CoverageOnce ==
    "rows" \notin raced =>
        \A r, s \in Attached : r # s => rows[r].coverage # rows[s].coverage

(***************************************************************************)
(* Two coverages of a version come to share a place only by a request that *)
(* was overtaken, or by a pv_reorder whose list has one of them and not    *)
(* the other: new rows, deletions and complete lists leave no tie.         *)
(***************************************************************************)
SameOrder == {pair \in Attached \X Attached :
                 pair[1] # pair[2] /\ rows[pair[1]].order = rows[pair[2]].order}

OrderTieHasACause ==
    [][\A pair \in SameOrder' \ SameOrder :
         \E p \in Proc : /\ Pending(p, "rows") /\ request'[p] = Idle
                         /\ \/ ~request[p].fresh
                            \/ /\ request[p].op = "update"
                               /\ Cardinality({pair[1], pair[2]}
                                                \cap DOMAIN request[p].write) = 1
      ]_<<coverageVars, request>>

(***************************************************************************)
(* A coverage that a version has is in the catalogue, even when the delete *)
(* looked for uses before the coverage was attached.                       *)
(***************************************************************************)
AttachedIsInCatalogue == \A r \in Attached : catalogue[rows[r].coverage] # "absent"
=============================================================================
