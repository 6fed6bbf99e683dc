------------------------- MODULE CoverageCategories -------------------------
(***************************************************************************)
(* The places in the catalogue of coverages: the order of the categories,  *)
(* and the order of the coverages in each of them: coverages_controller    *)
(* .py.  PlanCoverages has the status and the uses of a coverage.          *)
(***************************************************************************)
EXTENDS Integers, FiniteSets, Requests

CONSTANTS
    MaxItems,       \* bound: rows ever inserted in coverages
    MaxCategories,  \* bound: rows ever inserted in coverage_categories
    SentOrder       \* the places that a reorder is sent, any integers

ASSUME CategoryBoundAssumption ==
    MaxItems \in Nat /\ MaxCategories \in Nat /\ SentOrder \subseteq Int

CatalogueItem == 1 .. MaxItems
CategoryId    == 1 .. MaxCategories
NoCategory == [order |-> 0]
Nowhere    == [category |-> 0]
Gone       == [category |-> -1]

VARIABLES
    categories,     \* coverage_categories by id, or NoCategory
    lastCategory,   \* the id inserted last
    places          \* coverages: category and sort_order; Nowhere before, Gone after

categoryVars == <<categories, lastCategory, places>>

-----------------------------------------------------------------------------
Categories == {k \in CategoryId : categories[k] # NoCategory}
Placed     == {c \in CatalogueItem : places[c] \notin {Nowhere, Gone}}
InCategory(k)      == {c \in Placed : places[c].category = k}

\* coalesce(max(sort_order), 0) + 1.
After(orders) == IF orders = {} THEN 1
                 ELSE 1 + CHOOSE n \in orders : \A m \in orders : m <= n

\* The maximum is over all categories, the archived ones included.
StoreCategory(p) ==
    /\ Free(p)
    /\ Go(p, Insert("coverage_categories",
            [status |-> "active", order |-> After({categories[k].order : k \in Categories})]))
    /\ UNCHANGED <<raced, categoryVars>>

CommitCategory(p) ==
    /\ Pending(p, "coverage_categories")
    /\ lastCategory < MaxCategories
    /\ lastCategory' = lastCategory + 1
    /\ categories' = [categories EXCEPT ![lastCategory + 1] = request[p].row]
    /\ Commit(p, "coverage_categories")
    /\ UNCHANGED places

ArchiveCategory(k) ==
    /\ k \in Categories
    /\ categories' = [categories EXCEPT ![k].status = "archived"]
    /\ UNCHANGED <<request, raced, lastCategory, places>>

RestoreCategory(k) ==
    /\ k \in Categories
    /\ categories' = [categories EXCEPT ![k].status = "active"]
    /\ UNCHANGED <<request, raced, lastCategory, places>>

-----------------------------------------------------------------------------
\* A new coverage goes behind all those of its category, which may be archived.
StoreCatalogueItem(p, k) ==
    /\ Free(p)
    /\ k \in Categories
    /\ Go(p, Insert("items", [category |-> k,
                              order |-> After({places[c].order : c \in InCategory(k)})]))
    /\ UNCHANGED <<raced, categoryVars>>

\* update_coverage with a category: the coverage takes its sort_order along.
MoveCatalogueItem(p, c, k) ==
    /\ Free(p)
    /\ c \in Placed /\ k \in Categories \ {places[c].category}
    /\ Go(p, Update("items", {c}, [d \in {c} |-> {<<"category", k>>}]))
    /\ UNCHANGED <<raced, categoryVars>>

\* A place for each coverage of the category that the body names; others are
\* passed over.
Arrangements(k) == UNION {[listed -> SentOrder] : listed \in SUBSET InCategory(k)}

\* The coverages that keep their place are not written.
ReorderCatalogue(p, order) ==
    /\ Free(p)
    /\ LET shifted == {c \in DOMAIN order : places[c].order # order[c]}
       IN  /\ shifted # {}
           /\ Go(p, Update("items", shifted,
                           [c \in DOMAIN order |-> {<<"order", order[c]>>}]))
    /\ UNCHANGED <<raced, categoryVars>>

\* destroy_coverage, of one that no plan version has.
DestroyCatalogueItem(c) ==
    /\ c \in Placed
    /\ places' = [places EXCEPT ![c] = Gone]
    /\ UNCHANGED <<request, raced, categories, lastCategory>>

\* An UPDATE of a row that is gone fails, and with it the whole request.
CommitPlaces(p) ==
    /\ Pending(p, "items")
    /\ LET t == request[p] IN
       \/ /\ t.op = "insert"
          /\ \E c \in CatalogueItem :
               /\ places[c] = Nowhere /\ \A d \in 1 .. (c - 1) : places[d] # Nowhere
               /\ places' = [places EXCEPT ![c] = t.row]
       \/ /\ t.op = "update" /\ t.id \subseteq Placed
          /\ places' = [c \in CatalogueItem |->
               IF c \in t.id THEN Merge(t.write[c], places[c]) ELSE places[c]]
       \/ /\ t.op = "update" /\ ~(t.id \subseteq Placed)
          /\ UNCHANGED places
    /\ Commit(p, "items")
    /\ UNCHANGED <<categories, lastCategory>>

-----------------------------------------------------------------------------
CategoriesInit ==
    /\ categories = [k \in CategoryId |-> NoCategory]
    /\ lastCategory = 0
    /\ places = [c \in CatalogueItem |-> Nowhere]

CategoriesNext(p) ==
    \/ StoreCategory(p) \/ CommitCategory(p)
    \/ \E k \in CategoryId : ArchiveCategory(k) \/ RestoreCategory(k)

PlacesNext(p) ==
    \/ \E k \in CategoryId : StoreCatalogueItem(p, k)
    \/ \E c \in CatalogueItem, k \in CategoryId : MoveCatalogueItem(p, c, k)
    \/ \E k \in CategoryId : \E order \in Arrangements(k) : ReorderCatalogue(p, order)
    \/ \E c \in CatalogueItem : DestroyCatalogueItem(c)
    \/ CommitPlaces(p)

-----------------------------------------------------------------------------
(***************************************************************************)
(* Properties.                                                             *)
(***************************************************************************)
CategoriesTypeOK ==
    /\ \A k \in Categories : categories[k] \in
         [status : {"active", "archived"}, order : 1 .. MaxCategories]
    /\ lastCategory \in 0 .. MaxCategories
    /\ \A c \in Placed : places[c].category \in Categories /\ places[c].order \in Int

(***************************************************************************)
(* No two categories have the same place, archived ones included, unless   *)
(* two were stored at once.                                                *)
(***************************************************************************)
CategoryPlacesDiffer ==
    "coverage_categories" \notin raced =>
        \A k, l \in Categories : k # l => categories[k].order # categories[l].order

(***************************************************************************)
(* Two coverages of a category come to share a place only by a request     *)
(* that was overtaken, by a move of one of them, or by a reorder that      *)
(* names one of them only or gives both the same place: new ones and       *)
(* removals leave no tie behind.                                           *)
(***************************************************************************)
SamePlace == {pair \in Placed \X Placed :
                 pair[1] # pair[2] /\ places[pair[1]] = places[pair[2]]}

\* What the request writes leaves the two apart.
Parts(t, c, d) == {c, d} \subseteq DOMAIN t.write /\ t.write[c] # t.write[d]

PlaceTieHasACause ==
    [][\A pair \in SamePlace' \ SamePlace :
         \E p \in Proc : /\ Pending(p, "items") /\ request'[p] = Idle
                         /\ \/ ~request[p].fresh
                            \/ /\ request[p].op = "update"
                               /\ {pair[1], pair[2]} \cap DOMAIN request[p].write # {}
                               /\ ~Parts(request[p], pair[1], pair[2])
      ]_<<categoryVars, request>>
=============================================================================
