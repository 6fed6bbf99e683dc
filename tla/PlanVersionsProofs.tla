------------------------- MODULE PlanVersionsProofs -------------------------
(***************************************************************************)
(* A product has at most one active version unless two activations         *)
(* overlapped, activations wait in a circle only after two versions were   *)
(* active, and no row points to a version that is gone.  The argument is   *)
(* about the row locks: while no activation looked for the others with     *)
(* another one pending, the only one in its second statement holds, or     *)
(* will come to, every active version; and while no two were active, one   *)
(* that waits holds nothing that another could have found active.          *)
(***************************************************************************)
EXTENDS PlanVersions, FiniteSetTheorems, TLAPS

\* A version is written by one transaction at a time, and is there meanwhile.
LocksExclude ==
    /\ \A p, q \in Proc : p # q => Held(p) \cap Held(q) = {}
    /\ \A p \in Proc :
         /\ Held(p) \subseteq Stored
         /\ At(p, "flushed") => Held(p) = {txn[p].version}
         /\ At(p, "archiving") => txn[p].version \in Held(p)

\* An activation that looks for the others does it alone, and what is active it
\* holds or goes through.
ArchiverHoldsActive ==
    "overlapped" \notin history =>
        /\ \A v, w \in Active : v = w
        /\ \A p \in Proc : At(p, "archiving") => Active \subseteq Held(p) \cup txn[p].others
        /\ \A p, q \in Proc : At(p, "archiving") /\ At(q, "archiving") => p = q

\* One that still waits found one active version, which was not its own, holds
\* its own only, and nobody can have made that active meanwhile.
WaiterIsInactive ==
    \A p \in Proc :
        At(p, "archiving") =>
            /\ \A v, w \in txn[p].others : v = w
            /\ txn[p].others # {} => /\ Held(p) = {txn[p].version}
                                     /\ txn[p].version \notin Active

NoCircles ==
    "doubled" \notin history =>
        /\ \A v, w \in Active : v = w
        /\ WaiterIsInactive
        /\ \A S \in SUBSET Proc : ~Deadlocked(S)

Inductive == RowsConsistent /\ LocksExclude /\ ArchiverHoldsActive /\ NoCircles

LEMMA InitInductive == Init => Inductive
<1> SUFFICES ASSUME Init PROVE Inductive
  OBVIOUS
<1>1. Idle \in Txn /\ \A p \in Proc : txn[p] = Idle
  BY DEF Init, Idle, Txn
<1>2. TypeOK
  <2>1. lastVersion \in 0 .. MaxVersions
    BY VersionBoundAssumption DEF Init
  <2>2. txn \in [Proc -> Txn]
    BY <1>1 DEF Init
  <2> QED
    BY <2>1, <2>2 DEF Init, TypeOK
<1>3. Stored = {} /\ Active = {} /\ NoOrphans
  BY DEF Init, Stored, Active, NoOrphans
<1>4. \A p \in Proc : Held(p) = {} /\ ~At(p, "flushed") /\ ~At(p, "archiving")
  BY <1>1 DEF Held, At, Idle
<1>5. \A S \in SUBSET Proc : ~Deadlocked(S)
  BY <1>4 DEF Deadlocked, WaitsFor
<1> QED
  BY <1>2, <1>3, <1>4, <1>5 DEF Inductive, RowsConsistent, LocksExclude,
                                ArchiverHoldsActive, NoCircles, WaiterIsInactive

-----------------------------------------------------------------------------
(***************************************************************************)
(* What several actions have in common.                                    *)
(***************************************************************************)

\* A circle needs a wait that was not there before.
LEMMA OldCircles ==
    ASSUME \A S \in SUBSET Proc : ~Deadlocked(S),
           \A p, q \in Proc : WaitsFor(p, q)' => WaitsFor(p, q)
    PROVE  \A S \in SUBSET Proc : ~Deadlocked(S)'
  BY DEF Deadlocked

\* A step that moves no request and only takes versions out of use, and none
\* that is held out of the table, keeps what is said of locks.
LEMMA LocksKeep ==
    ASSUME Inductive, UNCHANGED <<txn, history>>, Active' \subseteq Active,
           \A p \in Proc : Held(p) \subseteq Stored'
    PROVE  LocksExclude' /\ ArchiverHoldsActive' /\ NoCircles'
<1>1. \A p \in Proc : Held(p)' = Held(p) /\ \A q \in Proc : WaitsFor(p, q)' = WaitsFor(p, q)
  BY DEF Held, WaitsFor, At
<1>2. NoCircles'
  BY <1>1, OldCircles DEF Inductive, NoCircles, WaiterIsInactive, At
<1> QED
  BY <1>1, <1>2 DEF Inductive, LocksExclude, ArchiverHoldsActive, At

\* So does a request that goes to where it holds nothing.
LEMMA ReleaseKeeps ==
    ASSUME Inductive, NEW p \in Proc, NEW t \in Txn, t.step \in {"idle", "read", "upload"},
           txn' = [txn EXCEPT ![p] = t], UNCHANGED <<versions, history>>
    PROVE  LocksExclude' /\ ArchiverHoldsActive' /\ NoCircles' /\ txn' \in [Proc -> Txn]
<1>1. /\ Held(p)' = {} /\ ~At(p, "archiving")' /\ ~At(p, "flushed")'
      /\ \A q \in Proc \ {p} : txn'[q] = txn[q] /\ Held(q)' = Held(q)
      /\ txn' \in [Proc -> Txn]
  BY DEF Inductive, RowsConsistent, TypeOK, Held, At
<1>2. Stored' = Stored /\ Active' = Active
  BY DEF Stored, Active
<1>3. LocksExclude'
  BY <1>1, <1>2 DEF Inductive, LocksExclude, At
<1>4. ArchiverHoldsActive'
  BY <1>1, <1>2 DEF Inductive, ArchiverHoldsActive, At
<1>5. NoCircles'
  <2>1. \A q, r \in Proc : WaitsFor(q, r)' => WaitsFor(q, r)
    BY <1>1 DEF WaitsFor, At
  <2> QED
    BY <1>1, <1>2, <2>1, OldCircles DEF Inductive, NoCircles, WaiterIsInactive, At
<1> QED
  BY <1>1, <1>3, <1>4, <1>5

(***************************************************************************)
(* Rows that hang from a version.                                          *)
(***************************************************************************)
LEMMA DetailsInductive ==
    ASSUME Inductive, NEW v \in VersionId, NEW r \in AgeRange, NEW s \in AgeRange,
           \/ StoreSurcharge(v, r) \/ DestroySurcharge(v, r) \/ UpdateSurcharge(v, r, s)
    PROVE  Inductive'
<1>1. UNCHANGED <<versions, lastVersion, covered, recorded, txn, history>>
  BY DEF StoreSurcharge, DestroySurcharge, UpdateSurcharge
<1>2. TypeOK'
  BY <1>1 DEF Inductive, RowsConsistent, TypeOK, StoreSurcharge, DestroySurcharge,
              UpdateSurcharge, Stored
<1>3. NoOrphans'
  BY <1>1 DEF Inductive, RowsConsistent, NoOrphans, TypeOK, Stored,
              StoreSurcharge, DestroySurcharge, UpdateSurcharge
<1>4. LocksExclude' /\ ArchiverHoldsActive' /\ NoCircles'
  <2>1. Active' = Active /\ Stored' = Stored
    BY <1>1 DEF Active, Stored
  <2> QED
    BY <1>1, <2>1, LocksKeep DEF Inductive, LocksExclude
<1> QED
  BY <1>2, <1>3, <1>4 DEF Inductive, RowsConsistent

LEMMA CoverInductive ==
    ASSUME Inductive, NEW v \in VersionId, Cover(v)
    PROVE  Inductive'
<1>1. /\ UNCHANGED <<versions, lastVersion, surcharges, recorded, txn, history>>
      /\ covered' \subseteq covered \cup Stored
  BY DEF Cover
<1>2. Active' = Active /\ Stored' = Stored
  BY <1>1 DEF Active, Stored
<1>3. RowsConsistent'
  BY <1>1, <1>2 DEF Inductive, RowsConsistent, TypeOK, NoOrphans, Stored
<1> QED
  BY <1>1, <1>2, <1>3, LocksKeep DEF Inductive, LocksExclude

(***************************************************************************)
(* New versions, and writes of one version.                                *)
(***************************************************************************)
LEMMA CreationInductive ==
    ASSUME Inductive, StoreVersion \/ \E v \in VersionId : CloneVersion(v)
    PROVE  Inductive'
<1> DEFINE new == lastVersion + 1
<1>1. /\ lastVersion' = new
      /\ versions' = [versions EXCEPT ![new] = "inactive"]
      /\ UNCHANGED <<covered, recorded, txn, history>>
      /\ lastVersion < MaxVersions
  BY DEF StoreVersion, CloneVersion
<1>2. new \in VersionId
  BY <1>1, VersionBoundAssumption DEF Inductive, RowsConsistent, TypeOK, VersionId
<1>3. /\ surcharges' \in [VersionId -> SUBSET AgeRange]
      /\ \A v \in VersionId \ {new} : surcharges'[v] = surcharges[v]
  BY <1>2 DEF StoreVersion, CloneVersion, Stored, Inductive, RowsConsistent, TypeOK
<1>4. TypeOK'
  <2>1. lastVersion' \in 0 .. MaxVersions
    BY <1>1, <1>2, VersionBoundAssumption DEF VersionId
  <2> QED
    BY <1>1, <1>2, <1>3, <2>1 DEF Inductive, RowsConsistent, TypeOK, Status
<1>5. Stored' = Stored \cup {new} /\ Active' \subseteq Active
  BY <1>1, <1>2 DEF Stored, Active, Inductive, RowsConsistent, TypeOK
<1>6. NoOrphans'
  BY <1>1, <1>3, <1>5 DEF NoOrphans, Inductive, RowsConsistent
<1>7. LocksExclude' /\ ArchiverHoldsActive' /\ NoCircles'
  BY <1>1, <1>5, LocksKeep DEF Inductive, LocksExclude
<1> QED
  BY <1>4, <1>6, <1>7 DEF Inductive, RowsConsistent

LEMMA LeaveActiveInductive ==
    ASSUME Inductive, NEW p \in Proc, NEW v \in VersionId, LeaveActive(p, v)
    PROVE  Inductive'
<1>1. /\ versions' = [versions EXCEPT ![v] = "inactive"]
      /\ UNCHANGED <<lastVersion, surcharges, covered, recorded, txn, history>>
      /\ v \in Active
  BY DEF LeaveActive
<1>2. TypeOK'
  BY <1>1 DEF Inductive, RowsConsistent, TypeOK, Status
<1>3. Stored' = Stored /\ Active' \subseteq Active
  BY <1>1 DEF Stored, Active, Inductive, RowsConsistent, TypeOK, Status
<1>4. NoOrphans'
  BY <1>1, <1>3 DEF NoOrphans, Inductive, RowsConsistent
<1>5. LocksExclude' /\ ArchiverHoldsActive' /\ NoCircles'
  BY <1>1, <1>3, LocksKeep DEF Inductive, LocksExclude
<1> QED
  BY <1>2, <1>4, <1>5 DEF Inductive, RowsConsistent

LEMMA DestroyVersionInductive ==
    ASSUME Inductive, NEW p \in Proc, NEW v \in VersionId, DestroyVersion(p, v)
    PROVE  Inductive'
<1>1. /\ versions' = [versions EXCEPT ![v] = "absent"]
      /\ surcharges' = [surcharges EXCEPT ![v] = {}]
      /\ UNCHANGED <<lastVersion, covered, recorded, txn, history>>
      /\ v \notin covered \cup recorded
  BY DEF DestroyVersion
<1>2. TypeOK'
  BY <1>1 DEF Inductive, RowsConsistent, TypeOK
<1>3. Stored' = Stored \ {v} /\ Active' \subseteq Active
  BY <1>1 DEF Stored, Active, Inductive, RowsConsistent, TypeOK
<1>4. NoOrphans'
  BY <1>1, <1>3 DEF NoOrphans, Inductive, RowsConsistent, TypeOK
<1>5. \A q \in Proc : v \notin Held(q)
  BY DEF DestroyVersion, Writable, Held, At
<1>6. LocksExclude' /\ ArchiverHoldsActive' /\ NoCircles'
  BY <1>1, <1>3, <1>5, LocksKeep DEF Inductive, LocksExclude
<1> QED
  BY <1>2, <1>4, <1>6 DEF Inductive, RowsConsistent

(***************************************************************************)
(* Uploads, requests that read, and requests that die.                     *)
(***************************************************************************)
LEMMA ReleaseInductive ==
    ASSUME Inductive, NEW p \in Proc,
           \/ Abort(p) \/ DetectDeadlock(p) \/ EndUpload(p)
           \/ \E v \in VersionId : BeginUpload(p, v) \/ ReadVersion(p, v)
    PROVE  Inductive'
<1>1. PICK t \in Txn : t.step \in {"idle", "read", "upload"} /\ txn' = [txn EXCEPT ![p] = t]
  <2>1. Idle \in Txn /\ Idle.step = "idle"
    BY DEF Txn, Idle
  <2>2. \A v \in VersionId : /\ [step |-> "upload", version |-> v] \in Txn
                            /\ [step |-> "read", version |-> v] \in Txn
    BY DEF Txn
  <2> QED
    BY <2>1, <2>2 DEF Abort, DetectDeadlock, EndUpload, BeginUpload, ReadVersion, Go
<1>2. UNCHANGED <<versions, lastVersion, surcharges, covered, history>>
  BY DEF Abort, DetectDeadlock, EndUpload, BeginUpload, ReadVersion
<1>3. recorded \subseteq recorded' /\ recorded' \subseteq recorded \cup Stored
  BY DEF Abort, DetectDeadlock, EndUpload, BeginUpload, ReadVersion
<1>4. LocksExclude' /\ ArchiverHoldsActive' /\ NoCircles' /\ txn' \in [Proc -> Txn]
  BY <1>1, <1>2, ReleaseKeeps
<1>5. TypeOK' /\ NoOrphans'
  BY <1>2, <1>3, <1>4 DEF Inductive, RowsConsistent, TypeOK, NoOrphans, Stored
<1> QED
  BY <1>4, <1>5 DEF Inductive, RowsConsistent

(***************************************************************************)
(* Activation.                                                             *)
(***************************************************************************)
LEMMA FlushInductive ==
    ASSUME Inductive, NEW p \in Proc, FlushActivation(p)
    PROVE  Inductive'
<1> DEFINE v == txn[p].version
           t == [step |-> "flushed", version |-> v, rows |-> {v}]
<1>1. /\ At(p, "read") /\ Writable(p, v)
      /\ txn' = [txn EXCEPT ![p] = IF v \in Stored THEN t ELSE Idle]
      /\ UNCHANGED <<versions, lastVersion, surcharges, covered, recorded, history>>
  BY DEF FlushActivation, Go
<1>2. CASE v \notin Stored
  <2>1. Idle \in Txn /\ Idle.step = "idle" /\ txn' = [txn EXCEPT ![p] = Idle]
    BY <1>1, <1>2 DEF Txn, Idle
  <2>2. LocksExclude' /\ ArchiverHoldsActive' /\ NoCircles' /\ txn' \in [Proc -> Txn]
    BY <1>1, <2>1, ReleaseKeeps
  <2> QED
    BY <1>1, <2>2 DEF Inductive, RowsConsistent, TypeOK, NoOrphans, Stored
<1>3. CASE v \in Stored
  <2>1. v \in VersionId /\ t \in Txn /\ txn' = [txn EXCEPT ![p] = t]
    BY <1>1, <1>3 DEF Stored, Txn
  <2>2. TypeOK' /\ NoOrphans'
    BY <1>1, <2>1 DEF Inductive, RowsConsistent, TypeOK, NoOrphans, Stored
  <2>3. /\ Held(p)' = {v} /\ At(p, "flushed")' /\ ~At(p, "archiving")'
        /\ txn'[p].version = v
        /\ \A q \in Proc \ {p} : txn'[q] = txn[q] /\ Held(q)' = Held(q)
    BY <2>1 DEF Inductive, RowsConsistent, TypeOK, Held, At
  <2>4. Stored' = Stored /\ Active' = Active
    BY <1>1 DEF Stored, Active
  <2>5. LocksExclude'
    BY <1>1, <1>3, <2>3, <2>4 DEF Inductive, LocksExclude, Writable, At
  <2>6. ArchiverHoldsActive'
    BY <1>1, <2>3, <2>4 DEF Inductive, ArchiverHoldsActive, At
  <2>7. NoCircles'
    <3> SUFFICES ASSUME "doubled" \notin history PROVE NoCircles'
      BY <1>1 DEF NoCircles
    <3>1. WaiterIsInactive'
      BY <2>3, <2>4 DEF Inductive, NoCircles, WaiterIsInactive, At
    <3>2. ASSUME NEW S \in SUBSET Proc, Deadlocked(S)' PROVE FALSE
      <4>1. p \notin S
        BY <2>3, <3>2 DEF Deadlocked, WaitsFor, At
      <4>2. \A q, r \in S : WaitsFor(q, r)' => WaitsFor(q, r)
        BY <2>3, <4>1 DEF WaitsFor, At
      <4>3. Deadlocked(S)
        BY <3>2, <4>2 DEF Deadlocked
      <4> QED
        BY <4>3 DEF Inductive, NoCircles
    <3> QED
      BY <2>4, <3>1, <3>2 DEF Inductive, NoCircles
  <2> QED
    BY <2>2, <2>5, <2>6, <2>7 DEF Inductive, RowsConsistent
<1> QED
  BY <1>2, <1>3

LEMMA FindInductive ==
    ASSUME Inductive, NEW p \in Proc, FindOthers(p)
    PROVE  Inductive'
<1> DEFINE v == txn[p].version
           t == [step |-> "archiving", version |-> v, rows |-> {v}, others |-> Active \ {v}]
<1>1. /\ At(p, "flushed")
      /\ txn' = [txn EXCEPT ![p] = t]
      /\ history' = IF \E q \in Proc \ {p} : Held(q) # {}
                    THEN history \cup {"overlapped"} ELSE history
      /\ UNCHANGED <<versions, lastVersion, surcharges, covered, recorded>>
  BY DEF FindOthers, Go, Notice
<1>2. Held(p) = {v} /\ v \in Stored
  BY <1>1 DEF Inductive, LocksExclude
<1>3. t \in Txn /\ history' \subseteq Mark
  BY <1>1, <1>2 DEF Txn, Stored, Active, Mark, Inductive, RowsConsistent, TypeOK
<1>4. TypeOK' /\ NoOrphans'
  BY <1>1, <1>3 DEF Inductive, RowsConsistent, TypeOK, NoOrphans, Stored
<1>5. /\ Held(p)' = {v} /\ ~At(p, "flushed")' /\ txn'[p] = t
      /\ \A q \in Proc \ {p} : txn'[q] = txn[q]
      /\ \A q \in Proc : Held(q)' = Held(q)
  BY <1>1, <1>2 DEF Inductive, RowsConsistent, TypeOK, Held, At
<1>6. Stored' = Stored /\ Active' = Active
  BY <1>1 DEF Stored, Active
<1>7. LocksExclude'
  BY <1>2, <1>5, <1>6 DEF Inductive, LocksExclude, At
<1>8. ArchiverHoldsActive'
  <2> SUFFICES ASSUME "overlapped" \notin history' PROVE ArchiverHoldsActive'
    BY DEF ArchiverHoldsActive
  <2>1. "overlapped" \notin history /\ \A q \in Proc \ {p} : Held(q) = {}
    BY <1>1
  <2>2. \A q \in Proc \ {p} : ~At(q, "archiving")
    BY <2>1 DEF Inductive, LocksExclude
  <2> QED
    BY <1>5, <1>6, <2>1, <2>2 DEF Inductive, ArchiverHoldsActive, At
<1>9. NoCircles'
  <2> SUFFICES ASSUME "doubled" \notin history' PROVE NoCircles'
    BY DEF NoCircles
  <2>1. /\ \A x, y \in Active : x = y
        /\ WaiterIsInactive
        /\ \A S \in SUBSET Proc : ~Deadlocked(S)
    BY <1>1 DEF Inductive, NoCircles
  <2>2. WaiterIsInactive'
    BY <1>5, <1>6, <2>1 DEF WaiterIsInactive, At
  <2>3. ASSUME NEW S \in SUBSET Proc, Deadlocked(S)' PROVE FALSE
    <3>1. \A q, r \in Proc : q # p /\ WaitsFor(q, r)' => WaitsFor(q, r)
      BY <1>5 DEF WaitsFor, At
    <3>2. p \in S
      <4>1. p \notin S => Deadlocked(S)
        BY <2>3, <3>1 DEF Deadlocked
      <4> QED
        BY <2>1, <4>1
    <3>3. PICK q \in S : WaitsFor(p, q)'
      BY <2>3, <3>2 DEF Deadlocked
    <3>4. PICK a \in Active : q # p /\ a \in Held(q)
      BY <1>5, <3>3 DEF WaitsFor
    <3>5. PICK r \in S : WaitsFor(q, r)
      BY <2>3, <3>1, <3>4 DEF Deadlocked
    <3>6. At(q, "archiving") /\ txn[q].others # {}
      BY <3>5 DEF WaitsFor
    <3> QED
      BY <2>1, <3>4, <3>6 DEF WaiterIsInactive
  <2> QED
    BY <1>6, <2>1, <2>2, <2>3 DEF NoCircles
<1> QED
  BY <1>4, <1>7, <1>8, <1>9 DEF Inductive, RowsConsistent

LEMMA ArchiveInductive ==
    ASSUME Inductive, NEW p \in Proc, NEW w \in VersionId, ArchiveOther(p, w)
    PROVE  Inductive'
<1> DEFINE t == [txn[p] EXCEPT !.others = @ \ {w}, !.rows = @ \cup ({w} \cap Active)]
<1>1. /\ At(p, "archiving") /\ w \in txn[p].others /\ Writable(p, w)
      /\ txn' = [txn EXCEPT ![p] = t]
      /\ UNCHANGED <<versions, lastVersion, surcharges, covered, recorded, history>>
  BY DEF ArchiveOther, Go
<1>2. txn[p] \in [step : {"archiving"}, version : VersionId, rows : SUBSET VersionId,
                   others : SUBSET VersionId]
  BY <1>1 DEF Inductive, RowsConsistent, TypeOK, Txn, At
<1>3. /\ t \in [step : {"archiving"}, version : VersionId, rows : SUBSET VersionId,
                others : SUBSET VersionId]
      /\ t.version = txn[p].version
      /\ t.others = txn[p].others \ {w} /\ t.rows = txn[p].rows \cup ({w} \cap Active)
  BY <1>2
<1>4. TypeOK' /\ NoOrphans'
  <2>1. t \in Txn
    BY <1>3 DEF Txn
  <2> QED
    BY <1>1, <2>1 DEF Inductive, RowsConsistent, TypeOK, NoOrphans, Stored
<1>5. /\ Held(p) = txn[p].rows /\ Held(p)' = Held(p) \cup ({w} \cap Active)
      /\ txn'[p] = t /\ At(p, "archiving")' /\ ~At(p, "flushed")'
      /\ \A q \in Proc \ {p} : txn'[q] = txn[q] /\ Held(q)' = Held(q)
  BY <1>1, <1>2, <1>3 DEF Inductive, RowsConsistent, TypeOK, Held, At
<1>6. Stored' = Stored /\ Active' = Active /\ Active \subseteq Stored
  BY <1>1 DEF Stored, Active
<1>7. LocksExclude'
  <2>1. \A q \in Proc \ {p} : w \notin Held(q)
    BY <1>1 DEF Writable
  <2> QED
    BY <1>1, <1>3, <1>5, <1>6, <2>1 DEF Inductive, LocksExclude, At
<1>8. ArchiverHoldsActive'
  BY <1>1, <1>3, <1>5, <1>6 DEF Inductive, ArchiverHoldsActive, At
<1>9. NoCircles'
  <2> SUFFICES ASSUME "doubled" \notin history PROVE NoCircles'
    BY <1>1 DEF NoCircles
  <2>1. t.others = {}
    BY <1>1, <1>3 DEF Inductive, NoCircles, WaiterIsInactive
  <2>2. WaiterIsInactive'
    BY <1>5, <1>6, <2>1 DEF Inductive, NoCircles, WaiterIsInactive, At
  <2>3. ASSUME NEW S \in SUBSET Proc, Deadlocked(S)' PROVE FALSE
    <3>1. p \notin S
      BY <1>5, <2>1, <2>3 DEF Deadlocked, WaitsFor
    <3>2. \A q, r \in S : WaitsFor(q, r)' => WaitsFor(q, r)
      BY <1>5, <3>1 DEF WaitsFor, At
    <3>3. Deadlocked(S)
      BY <2>3, <3>2 DEF Deadlocked
    <3> QED
      BY <3>3 DEF Inductive, NoCircles
  <2> QED
    BY <1>6, <2>2, <2>3 DEF Inductive, NoCircles
<1> QED
  BY <1>4, <1>7, <1>8, <1>9 DEF Inductive, RowsConsistent

LEMMA CommitInductive ==
    ASSUME Inductive, NEW p \in Proc, CommitActivation(p)
    PROVE  Inductive'
<1> DEFINE v == txn[p].version
<1>1. /\ At(p, "archiving") /\ txn[p].others = {}
      /\ versions' = [w \in VersionId |-> IF w = v THEN "active"
                        ELSE IF w \in txn[p].rows THEN "inactive" ELSE versions[w]]
      /\ history' = IF \E x, y \in VersionId : x # y /\ versions'[x] = "active"
                                                /\ versions'[y] = "active"
                    THEN history \cup {"doubled"} ELSE history
      /\ txn' = [txn EXCEPT ![p] = Idle]
      /\ UNCHANGED <<lastVersion, surcharges, covered, recorded>>
  BY DEF CommitActivation, Go, Notice
<1>2. v \in Held(p) /\ Held(p) = txn[p].rows /\ Held(p) \subseteq Stored
  BY <1>1 DEF Inductive, LocksExclude, Held, At
<1>3. TypeOK'
  BY <1>1 DEF Inductive, RowsConsistent, TypeOK, Status, Txn, Idle, Mark
<1>4. Stored' = Stored /\ Active' = (Active \ Held(p)) \cup {v}
  BY <1>1, <1>2 DEF Stored, Active, Inductive, RowsConsistent, TypeOK
<1>5. NoOrphans'
  BY <1>1, <1>4 DEF NoOrphans, Inductive, RowsConsistent
<1>6. /\ Held(p)' = {} /\ ~At(p, "archiving")' /\ ~At(p, "flushed")'
      /\ \A q \in Proc \ {p} : txn'[q] = txn[q] /\ Held(q)' = Held(q)
  BY <1>1 DEF Inductive, RowsConsistent, TypeOK, Held, At, Idle
<1>7. LocksExclude'
  BY <1>4, <1>6 DEF Inductive, LocksExclude, At
<1>8. ArchiverHoldsActive'
  <2> SUFFICES ASSUME "overlapped" \notin history PROVE ArchiverHoldsActive'
    BY <1>1 DEF ArchiverHoldsActive
  <2>1. Active' = {v}
    BY <1>1, <1>4 DEF Inductive, ArchiverHoldsActive
  <2>2. \A q \in Proc \ {p} : ~At(q, "archiving")
    BY <1>1 DEF Inductive, ArchiverHoldsActive
  <2> QED
    BY <1>6, <2>1, <2>2 DEF ArchiverHoldsActive, At
<1>9. NoCircles'
  <2> SUFFICES ASSUME "doubled" \notin history' PROVE NoCircles'
    BY DEF NoCircles
  <2>1. "doubled" \notin history
    BY <1>1
  <2>2. \A x, y \in Active' : x = y
    BY <1>1 DEF Active
  <2>3. WaiterIsInactive'
    <3> SUFFICES ASSUME NEW q \in Proc \ {p}, At(q, "archiving")
                 PROVE  /\ \A x, y \in txn[q].others : x = y
                        /\ txn[q].others # {} => /\ Held(q) = {txn[q].version}
                                                 /\ txn[q].version \notin Active'
      BY <1>6 DEF WaiterIsInactive, At
    <3>1. txn[q].version \in Held(q) /\ v \notin Held(q)
      BY <1>2 DEF Inductive, LocksExclude
    <3> QED
      BY <1>4, <2>1, <3>1 DEF Inductive, NoCircles, WaiterIsInactive
  <2>4. \A q, r \in Proc : WaitsFor(q, r)' => WaitsFor(q, r)
    BY <1>6 DEF WaitsFor, At
  <2> QED
    BY <2>1, <2>2, <2>3, <2>4, OldCircles DEF Inductive, NoCircles
<1> QED
  BY <1>3, <1>5, <1>7, <1>8, <1>9 DEF Inductive, RowsConsistent

-----------------------------------------------------------------------------
LEMMA StepInductive == Inductive /\ [Next]_vars => Inductive'
<1> SUFFICES ASSUME Inductive, [Next]_vars PROVE Inductive'
  OBVIOUS
<1>1. CASE UNCHANGED vars
  <2>1. UNCHANGED <<versions, lastVersion, surcharges, covered, recorded, txn, history>>
    BY <1>1 DEF vars
  <2>2. RowsConsistent' /\ Stored' = Stored /\ Active' = Active
    BY <2>1 DEF Inductive, RowsConsistent, TypeOK, NoOrphans, Stored, Active
  <2> QED
    BY <2>1, <2>2, LocksKeep DEF Inductive, LocksExclude
<1>2. CASE StoreVersion \/ \E v \in VersionId : CloneVersion(v)
  BY <1>2, CreationInductive
<1>3. ASSUME NEW v \in VersionId, Cover(v) PROVE Inductive'
  BY <1>3, CoverInductive
<1>4. ASSUME NEW v \in VersionId, NEW r \in AgeRange, NEW s \in AgeRange,
             StoreSurcharge(v, r) \/ DestroySurcharge(v, r) \/ UpdateSurcharge(v, r, s)
      PROVE  Inductive'
  BY <1>4, DetailsInductive
<1>5. ASSUME NEW p \in Proc, NEW v \in VersionId,
             \/ LeaveActive(p, v) \/ DestroyVersion(p, v)
             \/ ReadVersion(p, v) \/ BeginUpload(p, v)
      PROVE  Inductive'
  BY <1>5, LeaveActiveInductive, DestroyVersionInductive, ReleaseInductive
<1>6. ASSUME NEW p \in Proc, Finish(p) \/ DetectDeadlock(p) \/ Abort(p) PROVE Inductive'
  BY <1>6, FlushInductive, FindInductive, ArchiveInductive, CommitInductive,
     ReleaseInductive DEF Finish
<1> QED
  BY <1>1, <1>2, <1>3, <1>4, <1>5, <1>6 DEF Next

LEMMA Invariance == Spec => []Inductive
  BY InitInductive, StepInductive, PTL DEF Spec

(***************************************************************************)
(* The tables of a plan are typed and no surcharge, coverage or monthly    *)
(* record is left without its version, however deletes and uploads         *)
(* overlap: uploads and deletes of plan_versions_controller.py.            *)
(***************************************************************************)
THEOREM NoRowIsOrphaned == Spec => []RowsConsistent
<1>1. Inductive => RowsConsistent
  BY DEF Inductive
<1> QED
  BY <1>1, Invariance, PTL

(***************************************************************************)
(* A product has at most one active version as long as no activation of    *)
(* plan_versions_controller.py begins its second statement while another   *)
(* one is between its first statement and its commit.                      *)
(***************************************************************************)
THEOREM AtMostOneActive == Spec => []OneActiveVersion
<1>1. Inductive => OneActiveVersion
  <2> SUFFICES ASSUME Inductive, "overlapped" \notin history PROVE Cardinality(Active) <= 1
    BY DEF OneActiveVersion
  <2>1. \A v, w \in Active : v = w
    BY DEF Inductive, ArchiverHoldsActive
  <2>2. CASE Active = {}
    BY <2>2, FS_EmptySet
  <2>3. CASE Active # {}
    <3>1. PICK v \in Active : Active = {v}
      BY <2>1, <2>3
    <3>2. Cardinality(Active) = 1
      BY <3>1, FS_Singleton
    <3> QED
      BY <3>2
  <2> QED
    BY <2>2, <2>3
<1> QED
  BY <1>1, Invariance, PTL

(***************************************************************************)
(* However many activations of plan_versions_controller.py run at once,    *)
(* and whatever they had read, some of them wait for one another's rows in *)
(* a circle only after two versions of the product were active.            *)
(***************************************************************************)
THEOREM CirclesNeedTwoActive == Spec => []DeadlockNeedsTwoActive
<1>1. Inductive => DeadlockNeedsTwoActive
  BY DEF Inductive, NoCircles, DeadlockNeedsTwoActive
<1> QED
  BY <1>1, Invariance, PTL
=============================================================================
