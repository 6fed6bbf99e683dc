---------------------------- MODULE PlanVersions ----------------------------
(***************************************************************************)
(* The versions of one product: plan_versions_controller.py, and the       *)
(* uploads that look for the active one.                                   *)
(*                                                                         *)
(* Activating a version is a transaction that reads it, flushes its        *)
(* UPDATE if it read that it was not active, and puts the others that are  *)
(* active to inactive in one more UPDATE.  Requests run at READ COMMITTED, *)
(* the default of the PostgreSQL that common/config.py connects to: a      *)
(* statement goes through the rows that were committed when it began, and  *)
(* waits for those that another transaction has written.  Waiters queue.   *)
(***************************************************************************)
EXTENDS Integers, FiniteSets

CONSTANTS
    Proc,         \* requests in flight at once
    AgeRange,     \* age ranges of surcharges
    MaxVersions,  \* bound: rows ever inserted in plan_versions
    MaxDetails    \* bound: surcharges and coverages in place when one is added

ASSUME VersionBoundAssumption == MaxVersions \in Nat /\ MaxDetails \in Nat

VersionId == 1 .. MaxVersions
\* "inactive" stands for "archived" too: the code only ever asks for "active".
Status    == {"inactive", "active"}

VARIABLES
    versions,     \* status by id, as committed, or "absent"
    lastVersion,  \* the id inserted last
    surcharges,   \* plan_version_age_surcharges: the ranges of each version
    covered,      \* versions with rows in plan_version_coverages
    recorded,     \* versions with rows in capitados_monthly_records
    txn,          \* what each request is doing
    history       \* what the properties excuse, once it has happened

vars == <<versions, lastVersion, surcharges, covered, recorded, txn, history>>

-----------------------------------------------------------------------------
Txn == [step : {"idle"}]
       \cup [step : {"read", "upload"}, version : VersionId]
       \cup [step : {"flushed"}, version : VersionId, rows : SUBSET VersionId]
       \cup [step : {"archiving"}, version : VersionId, rows : SUBSET VersionId,
             others : SUBSET VersionId]

Idle     == [step |-> "idle"]
At(p, s) == txn[p].step = s
Go(p, t) == txn' = [txn EXCEPT ![p] = t]

Stored == {v \in VersionId : versions[v] # "absent"}
Active == {v \in VersionId : versions[v] = "active"}

\* Rows written by transactions that have not committed.
Held(p) == IF txn[p].step \in {"flushed", "archiving"} THEN txn[p].rows ELSE {}
Writable(p, v) == \A q \in Proc \ {p} : v \notin Held(q)

\* overlapped: an activation looked for the others while another one had been
\* flushed and was not committed.  doubled: two versions have been active.
Mark == {"overlapped", "doubled"}
Notice(happens, mark) == history' = IF happens THEN history \cup mark ELSE history

-----------------------------------------------------------------------------
(***************************************************************************)
(* Writes of a single row or of rows that nobody else writes.              *)
(***************************************************************************)
StoreVersion ==
    /\ lastVersion < MaxVersions
    /\ lastVersion' = lastVersion + 1
    /\ versions' = [versions EXCEPT ![lastVersion + 1] = "inactive"]
    /\ UNCHANGED <<surcharges, covered, recorded, txn, history>>

\* The fields that the settings list names and the surcharges are copied; the
\* countries, the coverages and the files of the terms are not.
CloneVersion(v) ==
    /\ v \in Stored
    /\ lastVersion < MaxVersions
    /\ lastVersion' = lastVersion + 1
    /\ versions' = [versions EXCEPT ![lastVersion + 1] = "inactive"]
    /\ surcharges' = [surcharges EXCEPT ![lastVersion + 1] = surcharges[v]]
    /\ UNCHANGED <<covered, recorded, txn, history>>

\* An update that takes the version out of use.  Whatever else an update writes
\* leaves the status alone.
LeaveActive(p, v) ==
    /\ At(p, "idle")
    /\ v \in Active /\ Writable(p, v)
    /\ versions' = [versions EXCEPT ![v] = "inactive"]
    /\ UNCHANGED <<lastVersion, surcharges, covered, recorded, txn, history>>

DestroyVersionMutant(p, v) ==
    /\ At(p, "idle")
    /\ v \in Stored /\ Writable(p, v)
    /\ v \notin covered
    /\ versions' = [versions EXCEPT ![v] = "absent"]
    /\ surcharges' = [surcharges EXCEPT ![v] = {}]
    /\ UNCHANGED <<lastVersion, covered, recorded, txn, history>>

\* is_deletable is always true.  What stops the DELETE is the foreign key of
\* the records, and the coverages, whose plan_version_id the ORM sets to NULL,
\* which the column refuses; the surcharges go with the version.
DestroyVersion(p, v) ==
    /\ At(p, "idle")
    /\ v \in Stored /\ Writable(p, v)
    /\ v \notin covered \cup recorded
    /\ versions' = [versions EXCEPT ![v] = "absent"]
    /\ surcharges' = [surcharges EXCEPT ![v] = {}]
    /\ UNCHANGED <<lastVersion, covered, recorded, txn, history>>

Details == {d \in VersionId \X AgeRange : d[2] \in surcharges[d[1]]}
Room    == Cardinality(Details) + Cardinality(covered) < MaxDetails

StoreSurcharge(v, range) ==
    /\ v \in Stored
    /\ Room
    /\ surcharges' = [surcharges EXCEPT ![v] = @ \cup {range}]
    /\ UNCHANGED <<versions, lastVersion, covered, recorded, txn, history>>

UpdateSurcharge(v, old, new) ==
    /\ old \in surcharges[v]
    /\ surcharges' = [surcharges EXCEPT ![v] = (@ \ {old}) \cup {new}]
    /\ UNCHANGED <<versions, lastVersion, covered, recorded, txn, history>>

DestroySurcharge(v, range) ==
    /\ range \in surcharges[v]
    /\ surcharges' = [surcharges EXCEPT ![v] = @ \ {range}]
    /\ UNCHANGED <<versions, lastVersion, covered, recorded, txn, history>>

\* Coverages come and go (PlanCoverages has the details).
Cover(v) ==
    /\ v \in Stored
    /\ \/ Room /\ covered' = covered \cup {v}
       \/ covered' = covered \ {v}
    /\ UNCHANGED <<versions, lastVersion, surcharges, recorded, txn, history>>

-----------------------------------------------------------------------------
(***************************************************************************)
(* Activation: read, flush, find the others, archive them one by one,      *)
(* commit.                                                                 *)
(***************************************************************************)

\* original_status is what the request read here.  One that reads an active
\* version writes no status.
ReadVersion(p, v) ==
    /\ At(p, "idle")
    /\ v \in Stored \ Active
    /\ Go(p, [step |-> "read", version |-> v])
    /\ UNCHANGED <<versions, lastVersion, surcharges, covered, recorded, history>>

\* The UPDATE waits for the row and is made whatever became of it meanwhile,
\* except that a version that is gone raises StaleDataError.
FlushActivation(p) ==
    /\ At(p, "read")
    /\ LET v == txn[p].version
       IN  /\ Writable(p, v)
           /\ Go(p, IF v \in Stored
                    THEN [step |-> "flushed", version |-> v, rows |-> {v}]
                    ELSE Idle)
    /\ UNCHANGED <<versions, lastVersion, surcharges, covered, recorded, history>>

FindOthersAllMutant(p) ==
    /\ At(p, "flushed")
    /\ LET v == txn[p].version
       IN  Go(p, [step |-> "archiving", version |-> v, rows |-> {v},
                  others |-> Stored \ {v}])
    /\ Notice(\E q \in Proc \ {p} : Held(q) # {}, {"overlapped"})
    /\ UNCHANGED <<versions, lastVersion, surcharges, covered, recorded>>

FindOthersNoneMutant(p) ==
    /\ At(p, "flushed")
    /\ LET v == txn[p].version
       IN  Go(p, [step |-> "archiving", version |-> v, rows |-> {v}, others |-> {}])
    /\ Notice(\E q \in Proc \ {p} : Held(q) # {}, {"overlapped"})
    /\ UNCHANGED <<versions, lastVersion, surcharges, covered, recorded>>

\* The second UPDATE begins: what is committed now is what it goes through.
FindOthers(p) ==
    /\ At(p, "flushed")
    /\ LET v == txn[p].version
       IN  Go(p, [step |-> "archiving", version |-> v, rows |-> {v},
                  others |-> Active \ {v}])
    /\ Notice(\E q \in Proc \ {p} : Held(q) # {}, {"overlapped"})
    /\ UNCHANGED <<versions, lastVersion, surcharges, covered, recorded>>

\* A row that somebody else was writing is looked at again after the wait, and
\* passed over when it is no longer active or no longer there.
ArchiveOther(p, w) ==
    /\ At(p, "archiving")
    /\ w \in txn[p].others
    /\ Writable(p, w)
    /\ Go(p, [txn[p] EXCEPT !.others = @ \ {w}, !.rows = @ \cup ({w} \cap Active)])
    /\ UNCHANGED <<versions, lastVersion, surcharges, covered, recorded, history>>

CommitActivation(p) ==
    /\ At(p, "archiving")
    /\ txn[p].others = {}
    /\ versions' = [w \in VersionId |->
         IF w = txn[p].version THEN "active"
         ELSE IF w \in txn[p].rows THEN "inactive" ELSE versions[w]]
    /\ Notice(\E v, w \in VersionId : v # w /\ versions'[v] = "active"
                                          /\ versions'[w] = "active", {"doubled"})
    /\ Go(p, Idle)
    /\ UNCHANGED <<lastVersion, surcharges, covered, recorded>>

(***************************************************************************)
(* Requests that wait for one another's rows.  After deadlock_timeout the  *)
(* database aborts one of them.                                            *)
(***************************************************************************)
WaitsFor(p, q) ==
    /\ At(p, "archiving")
    /\ p # q
    /\ txn[p].others \cap Held(q) # {}

Deadlocked(S) ==
    /\ S # {}
    /\ \A p \in S : \E q \in S : WaitsFor(p, q)

\* As if the statement were tried again with nothing rolled back.
DetectDeadlockMutant(p) ==
    /\ \E S \in SUBSET Proc : p \in S /\ Deadlocked(S)
    /\ Go(p, txn[p])
    /\ UNCHANGED <<versions, lastVersion, surcharges, covered, recorded, history>>

DetectDeadlock(p) ==
    /\ \E S \in SUBSET Proc : p \in S /\ Deadlocked(S)
    /\ Go(p, Idle)
    /\ UNCHANGED <<versions, lastVersion, surcharges, covered, recorded, history>>

\* The database refuses a statement, or the process is restarted.
Abort(p) ==
    /\ ~At(p, "idle")
    /\ Go(p, Idle)
    /\ UNCHANGED <<versions, lastVersion, surcharges, covered, recorded, history>>

-----------------------------------------------------------------------------
(***************************************************************************)
(* An upload of capitated persons reads the active version once for the    *)
(* sheet.  With none the sheet is an error of the batch; with two the      *)
(* query raises and the batch has failed.  Neither writes records.         *)
(***************************************************************************)
BeginUpload(p, v) ==
    /\ At(p, "idle")
    /\ Active = {v}
    /\ Go(p, [step |-> "upload", version |-> v])
    /\ UNCHANGED <<versions, lastVersion, surcharges, covered, recorded, history>>

\* The version may be inactive by now; if it is gone the INSERT fails.
EndUpload(p) ==
    /\ At(p, "upload")
    /\ recorded' = recorded \cup ({txn[p].version} \cap Stored)
    /\ Go(p, Idle)
    /\ UNCHANGED <<versions, lastVersion, surcharges, covered, history>>

-----------------------------------------------------------------------------
Init ==
    /\ versions = [v \in VersionId |-> "absent"]
    /\ lastVersion = 0
    /\ surcharges = [v \in VersionId |-> {}]
    /\ covered = {}
    /\ recorded = {}
    /\ txn = [p \in Proc |-> Idle]
    /\ history = {}

Finish(p) ==
    \/ FlushActivation(p)
    \/ FindOthers(p)
    \/ \E w \in VersionId : ArchiveOther(p, w)
    \/ CommitActivation(p)
    \/ EndUpload(p)

Next ==
    \/ StoreVersion
    \/ \E v \in VersionId : CloneVersion(v) \/ Cover(v)
    \/ \E v \in VersionId, r \in AgeRange : StoreSurcharge(v, r) \/ DestroySurcharge(v, r)
    \/ \E v \in VersionId, r \in AgeRange, s \in AgeRange : UpdateSurcharge(v, r, s)
    \/ \E p \in Proc, v \in VersionId :
         \/ LeaveActive(p, v)
         \/ DestroyVersion(p, v)
         \/ ReadVersion(p, v)
         \/ BeginUpload(p, v)
    \/ \E p \in Proc : Finish(p) \/ DetectDeadlock(p) \/ Abort(p)

Spec == Init /\ [][Next]_vars

(***************************************************************************)
(* A request that has begun goes on: the event loop runs it, and the       *)
(* database gives a lock to the one that waits longest, so a step that is  *)
(* possible again and again is taken.  Its deadlock detector runs in a     *)
(* transaction that goes on waiting.  Nobody has to begin a request.       *)
(***************************************************************************)
Fairness == \A p \in Proc : SF_vars(Finish(p)) /\ WF_vars(DetectDeadlock(p))

FairSpec == Spec /\ Fairness

-----------------------------------------------------------------------------
(***************************************************************************)
(* Properties.                                                             *)
(***************************************************************************)
TypeOK ==
    /\ versions \in [VersionId -> Status \cup {"absent"}]
    /\ lastVersion \in 0 .. MaxVersions
    /\ surcharges \in [VersionId -> SUBSET AgeRange]
    /\ covered \subseteq VersionId
    /\ recorded \subseteq VersionId
    /\ history \subseteq Mark
    /\ txn \in [Proc -> Txn]

(***************************************************************************)
(* A product has at most one active version, which the uploads rely on,    *)
(* unless an activation began its second statement while another one, not  *)
(* committed, had run its first: neither sees the other.  Versions read    *)
(* long before, and rows that changed while an UPDATE waited for them, do  *)
(* not suffice.                                                            *)
(***************************************************************************)
OneActiveVersion == "overlapped" \notin history => Cardinality(Active) <= 1

(***************************************************************************)
(* Activations wait for one another's rows in a circle only after two      *)
(* versions of the product have been active at once: while one is, the     *)
(* second UPDATE of at most one of them has something to wait for.         *)
(***************************************************************************)
DeadlockNeedsTwoActive ==
    "doubled" \notin history => \A S \in SUBSET Proc : ~Deadlocked(S)

(***************************************************************************)
(* No surcharge, coverage or monthly record is left without its version:   *)
(* neither a delete that runs into an upload, nor an upload whose version  *)
(* was deleted under it.                                                   *)
(***************************************************************************)
NoOrphans ==
    \A v \in VersionId \ Stored :
        surcharges[v] = {} /\ v \notin covered /\ v \notin recorded

(***************************************************************************)
(* Every request that begins ends, activations of versions that had become *)
(* active meanwhile included: the two of a circle do not both stay.        *)
(***************************************************************************)
RequestsEnd == \A p \in Proc : ~At(p, "idle") ~> At(p, "idle")

\* The tables of a plan are typed and point to versions that exist.
RowsConsistent == TypeOK /\ NoOrphans
=============================================================================
