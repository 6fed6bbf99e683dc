------------------------ MODULE CapitatedBatchProofs ------------------------
(***************************************************************************)
(* Theorems about CapitatedBatch, for every set of documents, every plan,  *)
(* every calendar and every number of uploads and rows: its types, the     *)
(* invariant of the ledger, that it implements CoverageLedger, and what    *)
(* the batch log, the invoices and the offered contracts say.              *)
(***************************************************************************)
EXTENDS CapitatedBatch, FiniteSetTheorems, WellFoundedInduction, TLAPS

LEMMA BoundTypes ==
    /\ LastMonth \in Nat \ {0}
    /\ MaxBatches \in Nat
    /\ MaxRows \in Nat
    /\ MaxBatches * MaxRows \in Nat
  BY CalendarAssumption, BoundsAssumption

\* ActiveIn(b) is counted by a rollback: it is finite.
LEMMA ActiveInFinite ==
    ASSUME NEW b \in BatchId
    PROVE  Cardinality(ActiveIn(b)) \in Nat
<1>1. IsFiniteSet(Month)
  BY FS_Interval, BoundTypes DEF Month
<1>2. IsFiniteSet(Doc \X Month)
  BY <1>1, FS_Product, DocAssumption
<1>3. ActiveIn(b) \subseteq Doc \X Month
  BY DEF ActiveIn
<1>4. IsFiniteSet(ActiveIn(b))
  BY <1>2, <1>3, FS_Subset
<1> QED
  BY <1>4, FS_CardinalityType

LEMMA DraftType == ASSUME NEW m \in Month PROVE Draft(m) \in BatchRow
<1>1. m \in 0 .. LastMonth
  BY BoundTypes DEF Month
<1>2. NoCount \in [Result -> Nat]
  BY DEF NoCount
<1> QED
  BY <1>1, <1>2 DEF Draft, BatchRow

LEMMA RenewedType ==
    ASSUME NEW row \in ContractRow, NEW m \in Month
    PROVE  [row EXCEPT !.status = "active", !.until = m] \in ContractRow
<1>1. m \in 0 .. LastMonth
  BY BoundTypes DEF Month
<1> DEFINE active == [row EXCEPT !.status = "active"]
<1>2. active \in ContractRow
  BY DEF ContractRow
<1>3. [active EXCEPT !.until = m] \in ContractRow
  <2> HIDE DEF active
  <2> QED
    BY <1>1, <1>2 DEF ContractRow
<1>4. [row EXCEPT !.status = "active", !.until = m] = [active EXCEPT !.until = m]
  OBVIOUS
<1> QED
  BY <1>3, <1>4

LEMMA RevertedType ==
    ASSUME NEW row \in RecordRow
    PROVE  [row EXCEPT !.status = "rolled_back"] \in RecordRow
  BY DEF RecordRow

LEMMA InitType == Init => TypeOK
  BY BoundTypes DEF Init, TypeOK, InsuredRow, ContractRow, RecordRow, BatchRow,
     NoInsured, NoContract, NoRecord, NoBatch, NoCount, Tables, Upload, Idle,
     NoPlan, Plan, Invoice, NoInvoice, Month, Result

LEMMA TallyType ==
    ASSUME TypeOK, NEW r \in Result, Tally(r)
    PROVE  upload' \in Upload
<1>1. upload \in Upload
  BY DEF TypeOK
<1> DEFINE count == [upload.count EXCEPT ![r] = @ + 1]
<1>2. upload' = [upload EXCEPT !.rows = upload.rows + 1, !.count = count]
  BY <1>1 DEF Tally, Upload
<1>3. count \in [Result -> Nat] /\ upload.rows + 1 \in Nat
  BY <1>1 DEF Upload
<1> QED
  BY <1>1, <1>2, <1>3 DEF Upload

\* The person's row after Enrol.
LEMMA EnrolType ==
    ASSUME TypeOK, NEW d \in Doc, NEW i \in Identity, Enrol(d, i)
    PROVE  insured' \in [Doc -> InsuredRow]
  BY DEF TypeOK, Enrol, InsuredRow

LEMMA ContractType ==
    ASSUME TypeOK, NEW d \in Doc, upload.month \in Month
    PROVE  Contract(d) \in ContractRow
  BY BoundTypes DEF Contract, ContractRow, Month

\* The outcome of a row that reached its contract.
LEMMA RecordMonthType ==
    ASSUME TypeOK, NEW d \in Doc, NEW c \in ContractId, NEW age \in Age,
           RecordMonth(d, c, age), upload.month \in Month
    PROVE  upload' \in Upload /\ records' \in [Doc -> [Month -> RecordRow]]
<1>1. CASE Clash(age)
  BY <1>1, TallyType DEF RecordMonth, TypeOK, Result
<1>2. CASE ~Clash(age)
  <2>1. upload' \in Upload
    BY <1>2, TallyType DEF RecordMonth, Result
  <2> DEFINE row == [status |-> "active", contract |-> c,
                     batch |-> upload.batch]
  <2>2. row \in RecordRow
    BY DEF TypeOK, Upload, RecordRow
  <2>3. records' = [records EXCEPT ![d] = [records[d] EXCEPT ![upload.month] = row]]
    BY <1>2 DEF RecordMonth, TypeOK
  <2> QED
    BY <2>1, <2>2, <2>3 DEF TypeOK
<1> QED
  BY <1>1, <1>2

LEMMA RefreshType ==
    ASSUME NEW table \in [ContractId -> ContractRow]
    PROVE  Refresh(table) \in [ContractId -> ContractRow]
  BY DEF Refresh, ContractRow

LEMMA AbortType ==
    ASSUME TypeOK, Abort
    PROVE  /\ insured' \in [Doc -> InsuredRow]
           /\ contracts' \in [ContractId -> ContractRow]
           /\ records' \in [Doc -> [Month -> RecordRow]]
           /\ batches' \in [BatchId -> BatchRow]
           /\ db' \in Tables
  BY DEF TypeOK, Abort, Tables

LEMMA IdleType == Idle \in Upload
  BY BoundTypes DEF Idle, Upload, NoPlan, Plan, NoCount

-----------------------------------------------------------------------------
(***************************************************************************)
(* Type correctness, together with RequestOK: while a request runs, it     *)
(* works on a month of the calendar and on the newest batch.               *)
(***************************************************************************)
Typed == TypeOK /\ RequestOK

LEMMA InitTyped == Init => Typed
  BY InitType DEF Typed, RequestOK, Init, Idle

LEMMA BeginUploadTyped ==
    ASSUME Typed, NEW m \in Month, NEW plan \in PlanVersion,
           BeginUpload(m, plan)
    PROVE  Typed'
<1>1. lastBatch + 1 \in BatchId
  BY BoundTypes DEF BeginUpload, Typed, TypeOK, BatchId
<1>2. Draft(m) \in BatchRow
  BY DraftType
<1>3. upload' = [phase |-> "rows", batch |-> lastBatch + 1, month |-> m,
                 plan |-> plan, rows |-> 0, count |-> NoCount]
  BY DEF BeginUpload, Idle
<1>4. upload' \in Upload
  BY <1>1, <1>3, BoundTypes, PlanAssumption DEF Upload, NoCount, Month
<1>5. TypeOK'
  BY <1>1, <1>2, <1>4, BoundTypes DEF BeginUpload, Typed, TypeOK, BatchId
<1>6. RequestOK'
  BY <1>1, <1>3 DEF BeginUpload, RequestOK
<1> QED
  BY <1>5, <1>6 DEF Typed

LEMMA FailTyped == ASSUME Typed, upload.phase = "rows", Fail PROVE Typed'
<1>1. upload.batch \in BatchId
  BY DEF Typed, RequestOK
<1>2. batches' \in [BatchId -> BatchRow]
  BY <1>1, ZenonT(60) DEF Fail, Typed, TypeOK, BatchRow
<1>3. db' \in Tables
  BY <1>2 DEF Fail, Commit, Typed, TypeOK, Tables
<1>4. upload' \in Upload /\ upload'.phase = "idle"
  BY IdleType DEF Fail, Idle
<1> QED
  BY <1>2, <1>3, <1>4 DEF Fail, Typed, TypeOK, RequestOK

\* Reading a row keeps the request's month and batch.
LEMMA TallyRequest ==
    ASSUME Typed, NEW r \in Result, Tally(r), UNCHANGED lastBatch,
           upload.phase = "rows"
    PROVE  RequestOK' /\ upload'.phase = "rows"
  BY DEF Tally, Typed, TypeOK, Upload, RequestOK

LEMMA EnrolledRowTyped ==
    ASSUME Typed, NEW d \in Doc, NEW i \in Identity, EnrolledRow(d, i),
           NEW r \in Result, Tally(r),
           contracts' \in [ContractId -> ContractRow],
           records' \in [Doc -> [Month -> RecordRow]]
    PROVE  Typed'
<1>1. insured' \in [Doc -> InsuredRow]
  BY EnrolType DEF Typed, EnrolledRow
<1>2. upload' \in Upload
  BY TallyType DEF Typed
<1>3. RequestOK'
  BY TallyRequest DEF EnrolledRow, ReadsRow
<1> QED
  BY <1>1, <1>2, <1>3 DEF Typed, TypeOK, EnrolledRow

LEMMA CoveredRowTyped ==
    ASSUME Typed, NEW d \in Doc, NEW i \in Identity, NEW age \in Age,
           NEW c \in ContractId, CoveredRow(d, i, age),
           RecordMonth(d, c, age),
           contracts' \in [ContractId -> ContractRow]
    PROVE  Typed'
<1>1. upload.phase = "rows" /\ upload.month \in Month
  BY DEF CoveredRow, EnrolledRow, ReadsRow, Typed, RequestOK
<1>2. records' \in [Doc -> [Month -> RecordRow]]
  BY <1>1, RecordMonthType DEF Typed
<1>3. PICK r \in Result : Tally(r)
  BY DEF RecordMonth, Result
<1> QED
  BY <1>2, <1>3, EnrolledRowTyped DEF CoveredRow

LEMMA AbortTyped ==
    ASSUME Typed, Abort, upload' = Idle, UNCHANGED <<today, lastBatch, invoices>>
    PROVE  Typed'
  BY AbortType, IdleType DEF Typed, TypeOK, RequestOK, Idle

LEMMA RowStepTyped == ASSUME Typed, RowStep PROVE Typed'
<1>1. CASE InvalidRow
  BY <1>1, TallyType, TallyRequest
     DEF InvalidRow, ReadsRow, Result, Typed, TypeOK
<1>2. CASE GarbledRow
  BY <1>2, FailTyped DEF GarbledRow, ReadsRow
<1>3. ASSUME NEW d \in Doc, NEW i \in Identity, IncongruentRow(d, i)
      PROVE  Typed'
  BY <1>3, TallyType, TallyRequest
     DEF IncongruentRow, ReadsRow, Result, Typed, TypeOK
<1>4. ASSUME NEW d \in Doc, NEW i \in Identity, DuplicatedRow(d, i)
      PROVE  Typed'
  BY <1>4, EnrolledRowTyped DEF DuplicatedRow, Result, Typed, TypeOK
<1>5. ASSUME NEW d \in Doc, NEW i \in Identity, RetroactiveRow(d, i)
      PROVE  Typed'
  BY <1>5, EnrolledRowTyped DEF RetroactiveRow, Result, Typed, TypeOK
<1>6. ASSUME NEW d \in Doc, NEW i \in Identity, NEW age \in Age,
             TooOldRow(d, i, age)
      PROVE  Typed'
  BY <1>6, EnrolledRowTyped DEF TooOldRow, Result, Typed, TypeOK
<1>7. ASSUME NEW d \in Doc, NEW i \in Identity, NEW age \in Age,
             KeyConflict(d, i, age)
      PROVE  Typed'
  BY <1>7, AbortTyped DEF KeyConflict
<1>8. ASSUME NEW d \in Doc, NEW i \in Identity, NEW age \in Age,
             NEW c \in ContractId, FirstRow(d, i, age, c)
      PROVE  Typed'
  <2>1. Contract(d) \in ContractRow
    BY <1>8, ContractType
       DEF FirstRow, CoveredRow, EnrolledRow, ReadsRow, Typed, RequestOK
  <2>2. contracts' \in [ContractId -> ContractRow]
    BY <1>8, <2>1 DEF FirstRow, Typed, TypeOK
  <2> QED
    BY <1>8, <2>2, CoveredRowTyped DEF FirstRow
<1>9. ASSUME NEW d \in Doc, NEW i \in Identity, NEW age \in Age,
             NEW c \in ContractId, RenewRow(d, i, age, c)
      PROVE  Typed'
  <2>1. upload.month \in Month
    BY <1>9 DEF RenewRow, CoveredRow, EnrolledRow, ReadsRow, Typed, RequestOK
  <2>2. [contracts[c] EXCEPT !.status = "active", !.until = upload.month]
          \in ContractRow
    BY <2>1, RenewedType DEF Typed, TypeOK
  <2>3. contracts' = [contracts EXCEPT ![c] =
                        [contracts[c] EXCEPT !.status = "active",
                                             !.until = upload.month]]
    BY <1>9 DEF RenewRow, Typed, TypeOK, ContractRow
  <2>4. contracts' \in [ContractId -> ContractRow]
    BY <2>2, <2>3 DEF Typed, TypeOK
  <2> QED
    BY <1>9, <2>4, CoveredRowTyped DEF RenewRow
<1>10. ASSUME NEW d \in Doc, NEW i \in Identity, NEW age \in Age,
              NEW c \in ContractId, NEW old \in ContractId,
              BreakRow(d, i, age, c, old)
       PROVE  Typed'
  <2>1. Contract(d) \in ContractRow
    BY <1>10, ContractType
       DEF BreakRow, CoveredRow, EnrolledRow, ReadsRow, Typed, RequestOK
  <2>2. contracts' \in [ContractId -> ContractRow]
    BY <1>10, <2>1 DEF BreakRow, Typed, TypeOK, ContractRow
  <2> QED
    BY <1>10, <2>2, CoveredRowTyped DEF BreakRow
<1> QED
  BY <1>1, <1>2, <1>3, <1>4, <1>5, <1>6, <1>7, <1>8, <1>9, <1>10 DEF RowStep

LEMMA NextTyped == Typed /\ [Next]_vars => Typed'
<1> SUFFICES ASSUME Typed, [Next]_vars
             PROVE  Typed'
  OBVIOUS
<1>1. ASSUME NEW m \in Month, NEW plan \in PlanVersion, BeginUpload(m, plan)
      PROVE  Typed'
  BY <1>1, BeginUploadTyped
<1>2. CASE RejectFile
  BY <1>2, FailTyped DEF RejectFile
<1>3. CASE RowStep
  BY <1>3, RowStepTyped
<1>4. CASE FinishRows
  <2>1. upload.batch \in BatchId
    BY <1>4 DEF FinishRows, Typed, RequestOK
  <2>2. batches' \in [BatchId -> BatchRow]
    <3>1. upload.count \in [Result -> Nat] /\ upload.rows \in Nat
      BY DEF Typed, TypeOK, Upload
    <3> DEFINE status == IF upload.count["applied"] > 0 THEN "processed"
                                                       ELSE "processed_zero"
    <3> DEFINE row == [batches[upload.batch] EXCEPT
                         !.status = status, !.rows = upload.rows,
                         !.count = upload.count]
    <3>2. batches[upload.batch] \in BatchRow
      BY <2>1 DEF Typed, TypeOK
    <3>3. status \in {"processed", "processed_zero"}
      OBVIOUS
    <3> HIDE DEF status
    <3>4. row \in BatchRow
      BY <3>1, <3>2, <3>3 DEF BatchRow
    <3>5. batches' = [batches EXCEPT ![upload.batch] = row]
      BY <1>4 DEF FinishRows, status
    <3> QED
      BY <3>4, <3>5 DEF Typed, TypeOK
  <2>3. upload' \in Upload
    BY <1>4 DEF FinishRows, Typed, TypeOK, Upload
  <2>4. RequestOK'
    BY <1>4 DEF FinishRows, Typed, TypeOK, RequestOK, Upload
  <2> QED
    BY <1>4, <2>2, <2>3, <2>4 DEF FinishRows, Typed, TypeOK
<1>5. ASSUME NEW stage \in {"none", "draft", "sent"}, Bill(stage)
      PROVE  Typed'
  <2>1. upload.batch \in BatchId /\ upload.count["applied"] \in Nat
    BY <1>5 DEF Bill, Typed, TypeOK, RequestOK, Upload, Result
  <2>2. invoices' \in [BatchId -> Invoice]
    BY <1>5, <2>1 DEF Bill, Typed, TypeOK, Invoice, NoInvoice
  <2>3. upload' \in Upload
    BY <1>5 DEF Bill, Typed, TypeOK, Upload
  <2>4. RequestOK'
    BY <1>5 DEF Bill, Typed, TypeOK, RequestOK, Upload
  <2> QED
    BY <1>5, <2>2, <2>3, <2>4 DEF Bill, Typed, TypeOK
<1>6. CASE EndUpload
  <2>1. contracts' \in [ContractId -> ContractRow]
    BY <1>6, RefreshType DEF EndUpload, Typed, TypeOK
  <2>2. db' \in Tables
    BY <1>6, <2>1 DEF EndUpload, Commit, Typed, TypeOK, Tables
  <2> QED
    BY <1>6, <2>1, <2>2, IdleType
       DEF EndUpload, Typed, TypeOK, RequestOK, Idle
<1>7. CASE Crash
  BY <1>7, AbortTyped DEF Crash
<1>8. ASSUME NEW b \in BatchId, RollbackBatch(b)
      PROVE  Typed'
  <2>1. records' \in [Doc -> [Month -> RecordRow]]
    <3>1. ASSUME NEW d \in Doc, NEW m \in Month
          PROVE  /\ records[d][m] \in RecordRow
                 /\ [records[d][m] EXCEPT !.status = "rolled_back"] \in RecordRow
      BY RevertedType DEF Typed, TypeOK
    <3> QED
      BY <1>8, <3>1 DEF RollbackBatch
  <2>2. batches' \in [BatchId -> BatchRow]
    BY <1>8, ActiveInFinite DEF RollbackBatch, Typed, TypeOK, BatchRow
  <2>3. db' \in Tables
    BY <1>8, <2>1, <2>2 DEF RollbackBatch, Commit, Typed, TypeOK, Tables
  <2> QED
    BY <1>8, <2>1, <2>2, <2>3 DEF RollbackBatch, Typed, TypeOK, RequestOK
<1>9. ASSUME NEW d \in Doc, NEW m \in Month, RollbackRecord(d, m)
      PROVE  Typed'
  <2>1. records' \in [Doc -> [Month -> RecordRow]]
    <3> DEFINE row == [records[d][m] EXCEPT !.status = "rolled_back"]
    <3>1. row \in RecordRow
      BY RevertedType DEF Typed, TypeOK
    <3>2. records' = [records EXCEPT ![d] = [records[d] EXCEPT ![m] = row]]
      BY <1>9 DEF RollbackRecord, Typed, TypeOK
    <3> QED
      BY <3>1, <3>2 DEF Typed, TypeOK
  <2>2. db' \in Tables
    BY <1>9, <2>1 DEF RollbackRecord, Commit, Typed, TypeOK, Tables
  <2> QED
    BY <1>9, <2>1, <2>2 DEF RollbackRecord, Typed, TypeOK, RequestOK
<1>10. CASE NextMonth
  BY <1>10, BoundTypes DEF NextMonth, Typed, TypeOK, RequestOK, Month
<1>11. CASE UNCHANGED vars
  BY <1>11 DEF vars, Typed, TypeOK, RequestOK
<1> QED
  BY <1>1, <1>2, <1>3, <1>4, <1>5, <1>6, <1>7, <1>8, <1>9, <1>10, <1>11
     DEF Next

\* The tables, the request and Stripe's invoices keep their types (the columns
\* of the four capitados_* tables), whatever is uploaded and reverted.
THEOREM TypeCorrect == Spec => []TypeOK
<1>1. Spec => []Typed
  BY InitTyped, NextTyped, PTL DEF Spec
<1>2. Typed => TypeOK
  BY DEF Typed
<1> QED
  BY <1>1, <1>2, PTL

-----------------------------------------------------------------------------
(***************************************************************************)
(* LedgerInvariant is inductive; contiguity of the contracts' months and   *)
(* the loading order of the coverage follow from it.                       *)
(***************************************************************************)
\* A non-empty set of months has a last one.
LEMMA LastOfMonths ==
    ASSUME NEW S \in SUBSET Month, S # {}
    PROVE  \E l \in S : \A n \in S : n <= l
<1> DEFINE R == OpToRel(<, Nat)
<1> DEFINE T == {LastMonth - m : m \in S}
<1>1. IsWellFoundedOn(R, Nat)
  BY NatLessThanWellFounded
<1>2. T \subseteq Nat /\ T # {}
  <2>1. \A m \in S : LastMonth - m \in Nat
    BY BoundTypes DEF Month
  <2>2. PICK m \in S : TRUE
    OBVIOUS
  <2>3. LastMonth - m \in T
    OBVIOUS
  <2> QED
    BY <2>1, <2>3
<1>3. \E x \in T : \A y \in T : ~(<<y, x>> \in R)
  <2> HIDE DEF R, T
  <2> QED
    BY <1>1, <1>2, WFMin
<1>4. PICK l \in S : \A n \in S : ~(<<LastMonth - n, LastMonth - l>> \in R)
  BY <1>3
<1>5. \A n \in S : LastMonth - n \in Nat
  BY <1>2
<1>6. \A n \in S : ~(LastMonth - n < LastMonth - l)
  BY <1>4, <1>5 DEF OpToRel
<1> QED
  BY <1>6, BoundTypes DEF Month

\* A document with a month in force has a last one.
LEMMA LastActive ==
    ASSUME NEW d \in Doc, NEW m \in Month, Active(d, m)
    PROVE  \E l \in Month : IsLast(d, l)
<1> DEFINE S == {n \in Month : Active(d, n)}
<1>1. PICK l \in S : \A n \in S : n <= l
  <2>1. S \in SUBSET Month /\ S # {}
    OBVIOUS
  <2> QED
    BY <2>1, LastOfMonths
<1> QED
  BY <1>1 DEF IsLast

-----------------------------------------------------------------------------
(***************************************************************************)
(* How each kind of write keeps LedgerOK.                                  *)
(***************************************************************************)

\* Later batches do not disturb it.
LEMMA LaterBatch ==
    ASSUME NEW con, NEW rec \in [Doc -> [Month -> RecordRow]],
           NEW last \in Nat, NEW later \in Nat, last <= later,
           LedgerOK(con, rec, last)
    PROVE  LedgerOK(con, rec, later)
  BY DEF LedgerOK, IdsInOrder, RecordRow, BatchId

\* A new contract, or another status of an old one.
LEMMA OtherContracts ==
    ASSUME NEW con \in [ContractId -> ContractRow],
           NEW new \in [ContractId -> ContractRow],
           NEW rec \in [Doc -> [Month -> RecordRow]], NEW last,
           LedgerOK(con, rec, last),
           \A c, k \in ContractId :
               k < c /\ new[c].status # "absent" => new[k].status # "absent",
           \A c \in ContractId : con[c].status # "absent" =>
               /\ new[c].status # "absent"
               /\ new[c].doc = con[c].doc
               /\ new[c].entry = con[c].entry
               /\ new[c].until = con[c].until
    PROVE  LedgerOK(new, rec, last)
<1>1. IdsInOrder(new, rec, last)
  BY DEF LedgerOK, IdsInOrder
<1>2. ASSUME NEW d \in Doc, NEW m \in Month, rec[d][m].status # "absent"
      PROVE  /\ rec[d][m].contract \in ContractId
             /\ con[rec[d][m].contract].status # "absent"
  BY <1>2 DEF LedgerOK, IdsInOrder
<1>3. MonthsContiguous(new, rec)
  BY <1>2 DEF LedgerOK, MonthsContiguous
<1> QED
  BY <1>1, <1>3 DEF LedgerOK

\* A contract extended by the month after its document's last month in force.
LEMMA ExtendedContract ==
    ASSUME NEW con \in [ContractId -> ContractRow],
           NEW new \in [ContractId -> ContractRow],
           NEW rec \in [Doc -> [Month -> RecordRow]], NEW last,
           LedgerOK(con, rec, last),
           NEW d \in Doc, NEW l \in Month, rec[d][l].status = "active",
           \A n \in Month : rec[d][n].status = "active" => n <= l,
           \A c \in ContractId : IF c = rec[d][l].contract
               THEN /\ new[c].status = "active"
                    /\ new[c].doc = con[c].doc
                    /\ new[c].entry = con[c].entry
                    /\ new[c].until = l + 1
               ELSE new[c] = con[c]
    PROVE  LedgerOK(new, rec, last)
<1> DEFINE c == rec[d][l].contract
<1>1. c \in ContractId /\ con[c].status # "absent" /\ con[c].doc = d
  BY DEF LedgerOK, IdsInOrder, MonthsContiguous
<1>2. IdsInOrder(new, rec, last)
  BY <1>1 DEF LedgerOK, IdsInOrder
<1>3. ASSUME NEW e \in Doc, NEW m \in Month, rec[e][m].status # "absent"
      PROVE  LET k == rec[e][m].contract
             IN  /\ new[k].doc = e
                 /\ new[k].entry <= m
                 /\ rec[e][m].status = "active" => m <= new[k].until
                 /\ \A n \in Month :
                        new[k].entry <= n /\ (n <= m \/ n < new[k].until)
                        => rec[e][n].contract = k
  <2> DEFINE k == rec[e][m].contract
  <2>1. k \in ContractId
    BY <1>3 DEF LedgerOK, IdsInOrder
  <2>2. /\ con[k].doc = e
        /\ con[k].entry <= m
        /\ rec[e][m].status = "active" => m <= con[k].until
        /\ \A n \in Month :
               con[k].entry <= n /\ (n <= m \/ n < con[k].until)
               => rec[e][n].contract = k
    BY <1>3 DEF LedgerOK, MonthsContiguous
  <2>3. CASE k # c
    BY <2>1, <2>2, <2>3
  <2>4. CASE k = c
    <3>1. e = d
      BY <1>1, <2>2, <2>4
    <3>2. new[k].doc = e /\ new[k].entry = con[k].entry /\ new[k].until = l + 1
      BY <1>1, <2>2, <2>4
    <3>3. rec[e][m].status = "active" => m <= l + 1
      BY <3>1 DEF Month
    <3>4. ASSUME NEW n \in Month, con[k].entry <= n, n <= m \/ n < l + 1
          PROVE  rec[e][n].contract = k
      <4>1. CASE n <= m
        BY <2>2, <3>4, <4>1
      <4>2. CASE n < l + 1
        <5>1. n <= l
          BY <4>2 DEF Month
        <5> QED
          BY <1>1, <2>4, <3>1, <3>4, <5>1 DEF LedgerOK, MonthsContiguous
      <4> QED
        BY <3>4, <4>1, <4>2
    <3> QED
      BY <2>2, <3>2, <3>3, <3>4
  <2> QED
    BY <2>3, <2>4
<1>4. MonthsContiguous(new, rec)
  BY <1>3 DEF MonthsContiguous
<1> QED
  BY <1>2, <1>4 DEF LedgerOK, LoadedInOrder

\* A record for the last month of its contract, after every month in force.
LEMMA NewRecord ==
    ASSUME NEW con \in [ContractId -> ContractRow],
           NEW rec \in [Doc -> [Month -> RecordRow]],
           NEW new \in [Doc -> [Month -> RecordRow]], NEW last \in BatchId,
           LedgerOK(con, rec, last),
           NEW d \in Doc, NEW m \in Month, NEW c \in ContractId,
           con[c].status # "absent", con[c].doc = d,
           con[c].entry <= m, con[c].until = m,
           rec[d][m].status = "absent",
           \A n \in Month :
               con[c].entry <= n /\ n < m => rec[d][n].contract = c,
           \A n \in Month : rec[d][n].status = "active" =>
               n < m /\ rec[d][n].batch < last /\ rec[d][n].contract <= c,
           new[d][m] = [status |-> "active", contract |-> c, batch |-> last],
           \A e \in Doc, n \in Month : e # d \/ n # m => new[e][n] = rec[e][n]
    PROVE  LedgerOK(con, new, last)
<1>1. IdsInOrder(con, new, last)
  BY DEF LedgerOK, IdsInOrder, BatchId
<1>2. ASSUME NEW e \in Doc, NEW i \in Month, new[e][i].status # "absent"
      PROVE  LET k == new[e][i].contract
             IN  /\ con[k].doc = e
                 /\ con[k].entry <= i
                 /\ new[e][i].status = "active" => i <= con[k].until
                 /\ \A n \in Month :
                        con[k].entry <= n /\ (n <= i \/ n < con[k].until)
                        => new[e][n].contract = k
  <2>1. CASE e = d /\ i = m
    <3>1. new[e][i].contract = c /\ con[c].entry \in Int
      BY <2>1 DEF ContractRow
    <3>2. \A n \in Month : n <= m <=> n < m \/ n = m
      BY DEF Month
    <3>3. \A n \in Month : n # m => new[d][n] = rec[d][n]
      OBVIOUS
    <3>4. \A n \in Month :
              con[c].entry <= n /\ (n <= m \/ n < m) => new[d][n].contract = c
      BY <2>1, <3>1, <3>2, <3>3
    <3> QED
      BY <2>1, <3>1, <3>4 DEF Month
  <2>2. CASE e # d \/ i # m
    <3> DEFINE k == rec[e][i].contract
    <3>1. new[e][i] = rec[e][i]
      BY <2>2
    <3>2. k \in ContractId
      BY <1>2, <3>1 DEF LedgerOK, IdsInOrder
    <3>3. /\ con[k].doc = e
          /\ con[k].entry <= i
          /\ rec[e][i].status = "active" => i <= con[k].until
          /\ \A n \in Month :
                 con[k].entry <= n /\ (n <= i \/ n < con[k].until)
                 => rec[e][n].contract = k
      BY <1>2, <3>1 DEF LedgerOK, MonthsContiguous
    <3>4. rec[d][m].contract = 0
      BY DEF LedgerOK, IdsInOrder, NoRecord
    <3>5. k # 0
      BY <3>2, BoundTypes DEF ContractId
    <3>6. ASSUME NEW n \in Month, rec[e][n].contract = k
          PROVE  new[e][n].contract = k
      BY <3>4, <3>5, <3>6
    <3> QED
      BY <3>1, <3>3, <3>6
  <2> QED
    BY <2>1, <2>2
<1>3. MonthsContiguous(con, new)
  BY <1>2 DEF MonthsContiguous
<1>4. LoadedInOrder(new)
  <2> SUFFICES ASSUME NEW e \in Doc, NEW i \in Month, NEW n \in Month,
                      new[e][i].status = "active", new[e][n].status = "active",
                      i < n
               PROVE  new[e][i].batch < new[e][n].batch
                      /\ new[e][i].contract <= new[e][n].contract
    BY DEF LoadedInOrder
  <2>1. CASE e = d /\ n = m
    BY <2>1 DEF Month
  <2>2. CASE e = d /\ i = m
    BY <2>2 DEF Month
  <2>3. CASE e # d \/ (n # m /\ i # m)
    BY <2>3 DEF LedgerOK, LoadedInOrder
  <2> QED
    BY <2>1, <2>2, <2>3
<1> QED
  BY <1>1, <1>3, <1>4 DEF LedgerOK

\* Reverting a record changes its status only.
LEMMA RevertedColumns ==
    ASSUME NEW row \in RecordRow
    PROVE  LET new == [row EXCEPT !.status = "rolled_back"]
           IN  /\ new.status = "rolled_back"
               /\ new.contract = row.contract
               /\ new.batch = row.batch
  BY DEF RecordRow

\* Records reverted in place.
Reverts(rec, new) ==
    \A d \in Doc, m \in Month :
        \/ new[d][m] = rec[d][m]
        \/ /\ rec[d][m].status = "active"
           /\ new[d][m].status = "rolled_back"
           /\ new[d][m].contract = rec[d][m].contract
           /\ new[d][m].batch = rec[d][m].batch

LEMMA RevertedRecords ==
    ASSUME NEW con \in [ContractId -> ContractRow],
           NEW rec \in [Doc -> [Month -> RecordRow]],
           NEW new \in [Doc -> [Month -> RecordRow]], NEW last,
           LedgerOK(con, rec, last), Reverts(rec, new)
    PROVE  LedgerOK(con, new, last)
<1>1. ASSUME NEW d \in Doc, NEW m \in Month
      PROVE  /\ new[d][m].contract = rec[d][m].contract
             /\ new[d][m].batch = rec[d][m].batch
             /\ new[d][m].status = "absent" <=> rec[d][m].status = "absent"
             /\ new[d][m].status = "absent" => new[d][m] = rec[d][m]
             /\ new[d][m].status = "active" => rec[d][m].status = "active"
  BY DEF Reverts
<1>2. IdsInOrder(con, new, last)
  BY <1>1 DEF LedgerOK, IdsInOrder
<1>3. MonthsContiguous(con, new)
  BY <1>1 DEF LedgerOK, MonthsContiguous
<1>4. LoadedInOrder(new)
  BY <1>1 DEF LedgerOK, LoadedInOrder
<1> QED
  BY <1>2, <1>3, <1>4 DEF LedgerOK

-----------------------------------------------------------------------------
(***************************************************************************)
(* The steps.  Contiguous is LedgerInvariant together with the types.      *)
(***************************************************************************)
Contiguous == Typed /\ LedgerInvariant

\* What LedgerInvariant says while rows are read.
LEMMA RowFacts ==
    ASSUME Contiguous, upload.phase = "rows"
    PROVE  /\ LedgerOK(contracts, records, lastBatch)
           /\ LedgerOK(db.contracts, db.records, lastBatch)
           /\ contracts \in [ContractId -> ContractRow]
           /\ records \in [Doc -> [Month -> RecordRow]]
           /\ upload.month \in Month
           /\ lastBatch \in BatchId
           /\ upload.batch = lastBatch
           /\ \A d \in Doc, m \in Month :
                  /\ records[d][m].batch = lastBatch => m = upload.month
                  /\ db.records[d][m].batch < lastBatch
  BY DEF Contiguous, Typed, TypeOK, LedgerInvariant, RequestOK

\* A step that leaves the request running and the committed tables alone.
LEMMA RowKeeps ==
    ASSUME Contiguous, upload.phase = "rows", Typed',
           upload'.batch = upload.batch, upload'.month = upload.month,
           UNCHANGED <<db, lastBatch>>,
           LedgerOK(contracts', records', lastBatch),
           \A d \in Doc, m \in Month :
               records'[d][m].batch = lastBatch => m = upload.month
    PROVE  LedgerInvariant'
<1>1. LedgerOK(contracts', records', lastBatch')
  OBVIOUS
<1>2. LedgerOK(db'.contracts, db'.records, lastBatch')
  BY RowFacts
<1>3. RequestOK'
  BY DEF Typed
<1>4. \A d \in Doc, m \in Month :
          /\ records'[d][m].batch = upload'.batch => m = upload'.month
          /\ db'.records[d][m].batch < upload'.batch
  BY RowFacts
<1> QED
  BY <1>1, <1>2, <1>3, <1>4 DEF LedgerInvariant

\* Reading a row keeps the batch and the month of the request.
LEMMA TallyKeeps ==
    ASSUME Typed, NEW r \in Result, Tally(r)
    PROVE  upload'.batch = upload.batch /\ upload'.month = upload.month
  BY DEF Tally, Typed, TypeOK, Upload

\* Rows that are refused after the person was enrolled, or before.
LEMMA RefusedRow ==
    ASSUME Contiguous, upload.phase = "rows", Typed', NEW r \in Result, Tally(r),
           UNCHANGED <<contracts, records, db, lastBatch>>
    PROVE  LedgerInvariant'
  BY TallyKeeps, RowFacts, RowKeeps DEF Contiguous

\* A commit of tables that satisfy LedgerOK, which ends the request.
LEMMA CommitKeeps ==
    ASSUME Typed', Commit, upload'.phase = "idle",
           LedgerOK(contracts', records', lastBatch')
    PROVE  LedgerInvariant'
<1>1. db'.contracts = contracts' /\ db'.records = records'
  BY DEF Commit
<1> QED
  BY <1>1 DEF LedgerInvariant, Typed

\* An abort, which ends the request.
LEMMA AbortKeeps ==
    ASSUME Contiguous, Typed', Abort, upload'.phase = "idle", UNCHANGED lastBatch
    PROVE  LedgerInvariant'
<1>1. LedgerOK(db.contracts, db.records, lastBatch)
  BY DEF Contiguous, LedgerInvariant
<1>2. contracts' = db.contracts /\ records' = db.records /\ db' = db
  BY DEF Abort
<1> QED
  BY <1>1, <1>2 DEF LedgerInvariant, Typed

LEMMA InitLedger == Init => LedgerInvariant
<1> SUFFICES ASSUME Init
             PROVE  LedgerInvariant
  OBVIOUS
<1>1. LedgerOK(contracts, records, lastBatch)
  BY DEF Init, LedgerOK, IdsInOrder, MonthsContiguous, LoadedInOrder,
     NoContract, NoRecord
<1>2. db.contracts = contracts /\ db.records = records
  BY DEF Init
<1> QED
  BY <1>1, <1>2 DEF LedgerInvariant, RequestOK, Init, Idle

(***************************************************************************)
(* A row that reaches its contract c: if the contracts it leaves satisfy   *)
(* LedgerOK with the old records, and c ends in the month of the batch,    *)
(* after every month in force, then the record keeps LedgerOK too.         *)
(***************************************************************************)
LEMMA RecordMonthKeeps ==
    ASSUME Contiguous, Typed', UNCHANGED <<db, lastBatch>>,
           NEW d \in Doc, NEW i \in Identity, NEW age \in Age,
           NEW c \in ContractId,
           CoveredRow(d, i, age), RecordMonth(d, c, age),
           LedgerOK(contracts', records, lastBatch),
           contracts'[c].status # "absent", contracts'[c].doc = d,
           contracts'[c].entry <= upload.month,
           contracts'[c].until = upload.month,
           \A n \in Month : contracts'[c].entry <= n /\ n < upload.month
                            => records[d][n].contract = c,
           \A n \in Month : Active(d, n) =>
                            n < upload.month /\ records[d][n].contract <= c
    PROVE  LedgerInvariant'
<1>1. upload.phase = "rows"
  BY DEF CoveredRow, EnrolledRow, ReadsRow
<1>2. upload'.batch = upload.batch /\ upload'.month = upload.month
  BY TallyKeeps DEF RecordMonth, Result, Contiguous
<1>3. CASE Clash(age)
  BY <1>1, <1>2, <1>3, RowFacts, RowKeeps DEF RecordMonth
<1>4. CASE ~Clash(age)
  <2> DEFINE row == [status |-> "active", contract |-> c,
                     batch |-> upload.batch]
  <2>1. /\ records' \in [Doc -> [Month -> RecordRow]]
        /\ contracts' \in [ContractId -> ContractRow]
    BY DEF Typed, TypeOK
  <2>2. records' = [records EXCEPT ![d] = [records[d] EXCEPT ![upload.month] = row]]
    BY <1>4 DEF RecordMonth, Contiguous, Typed, TypeOK
  <2>3. /\ records'[d][upload.month] = row
        /\ \A e \in Doc, n \in Month :
               e # d \/ n # upload.month => records'[e][n] = records[e][n]
    BY <1>1, <2>2, RowFacts
  <2>4. records[d][upload.month].status = "absent"
    BY <1>1, <1>4, RowFacts DEF CoveredRow, Active, RecordKeyTaken, RecordRow
  <2>5. \A n \in Month : Active(d, n) => records[d][n].batch < lastBatch
    <3> SUFFICES ASSUME NEW n \in Month, Active(d, n)
                 PROVE  records[d][n].batch < lastBatch
      OBVIOUS
    <3>1. records[d][n].batch <= lastBatch
      BY <1>1, RowFacts DEF Active, LedgerOK, IdsInOrder
    <3>2. records[d][n].batch # lastBatch
      BY <1>1, RowFacts DEF Month
    <3>3. records[d][n].batch \in Int /\ lastBatch \in Int
      BY <1>1, RowFacts DEF RecordRow, BatchId
    <3> QED
      BY <3>1, <3>2, <3>3
  <2>6. LedgerOK(contracts', records', lastBatch)
    <3>1. records'[d][upload.month]
            = [status |-> "active", contract |-> c, batch |-> lastBatch]
      BY <1>1, <2>3, RowFacts
    <3>2. \A n \in Month : records[d][n].status = "active" =>
              /\ n < upload.month
              /\ records[d][n].batch < lastBatch
              /\ records[d][n].contract <= c
      BY <2>5 DEF Active
    <3>3. /\ records \in [Doc -> [Month -> RecordRow]]
          /\ lastBatch \in BatchId
          /\ upload.month \in Month
      BY <1>1, RowFacts
    <3> HIDE DEF row
    <3> QED
      BY <2>1, <2>3, <2>4, <3>1, <3>2, <3>3, NewRecord, ZenonT(60)
  <2>7. \A e \in Doc, n \in Month :
            records'[e][n].batch = lastBatch => n = upload.month
    BY <1>1, <2>3, RowFacts
  <2> QED
    BY <1>1, <1>2, <2>6, <2>7, RowKeeps
<1> QED
  BY <1>3, <1>4

\* No record refers to the next contract id, and every used id is smaller.
LEMMA NextIsFresh ==
    ASSUME Contiguous, upload.phase = "rows", NEW c \in ContractId, IsNext(c)
    PROVE  /\ \A k \in ContractId : contracts[k].status # "absent" <=> k < c
           /\ \A d \in Doc, m \in Month :
                  records[d][m].status # "absent" => records[d][m].contract < c
<1>1. \A k \in ContractId : k < c => contracts[k].status # "absent"
  BY BoundTypes DEF IsNext, ContractId
<1>2. ASSUME NEW k \in ContractId, contracts[k].status # "absent"
      PROVE  k < c
  <2>1. k # c /\ ~(c < k)
    BY <1>2, RowFacts DEF IsNext, LedgerOK, IdsInOrder
  <2> QED
    BY <2>1, BoundTypes DEF ContractId
<1>3. \A k \in ContractId : contracts[k].status # "absent" <=> k < c
  BY <1>1, <1>2
<1> QED
  BY <1>3, RowFacts DEF LedgerOK, IdsInOrder

(***************************************************************************)
(* FirstRow and BreakRow: a new contract is opened for the month of the    *)
(* batch, and the status of another one may change.                        *)
(***************************************************************************)
LEMMA OpenedContract ==
    ASSUME Contiguous, Typed', UNCHANGED <<db, lastBatch>>,
           NEW d \in Doc, NEW i \in Identity, NEW age \in Age,
           NEW c \in ContractId,
           CoveredRow(d, i, age), RecordMonth(d, c, age), IsNext(c),
           contracts'[c] = Contract(d),
           \A k \in ContractId : k # c =>
               /\ contracts'[k].status = "absent" <=> contracts[k].status = "absent"
               /\ contracts'[k].doc = contracts[k].doc
               /\ contracts'[k].entry = contracts[k].entry
               /\ contracts'[k].until = contracts[k].until,
           \A n \in Month : Active(d, n) => n < upload.month
    PROVE  LedgerInvariant'
<1>1. upload.phase = "rows"
  BY DEF CoveredRow, EnrolledRow, ReadsRow
<1>2. /\ contracts'[c].status # "absent"
      /\ contracts'[c].doc = d
      /\ contracts'[c].entry = upload.month
      /\ contracts'[c].until = upload.month
  BY DEF Contract
<1>3. contracts' \in [ContractId -> ContractRow]
  BY DEF Typed, TypeOK
<1>4. \A k, j \in ContractId :
          j < k /\ contracts'[k].status # "absent" => contracts'[j].status # "absent"
  <2> SUFFICES ASSUME NEW k \in ContractId, NEW j \in ContractId, j < k,
                      contracts'[k].status # "absent"
               PROVE  contracts'[j].status # "absent"
    OBVIOUS
  <2>1. k = c \/ k < c
    BY <1>1, NextIsFresh
  <2>2. j < c
    BY <2>1, BoundTypes DEF ContractId
  <2>3. j # c
    BY <2>2, BoundTypes DEF ContractId
  <2> QED
    BY <1>1, <2>2, <2>3, NextIsFresh
<1>5. \A k \in ContractId : contracts[k].status # "absent" =>
          /\ contracts'[k].status # "absent"
          /\ contracts'[k].doc = contracts[k].doc
          /\ contracts'[k].entry = contracts[k].entry
          /\ contracts'[k].until = contracts[k].until
  BY DEF IsNext
<1>6. LedgerOK(contracts', records, lastBatch)
  BY <1>1, <1>3, <1>4, <1>5, RowFacts, OtherContracts
<1>7. \A n \in Month : Active(d, n) =>
          n < upload.month /\ records[d][n].contract <= c
  BY <1>1, NextIsFresh, RowFacts DEF Active, RecordRow, ContractId
<1>8. /\ contracts'[c].entry <= upload.month
      /\ \A n \in Month : contracts'[c].entry <= n /\ n < upload.month
                           => records[d][n].contract = c
  BY <1>1, <1>2, RowFacts DEF Month
<1> QED
  BY <1>2, <1>6, <1>7, <1>8, RecordMonthKeeps

LEMMA FirstRowKeeps ==
    ASSUME Contiguous, Typed', NEW d \in Doc, NEW i \in Identity, NEW age \in Age,
           NEW c \in ContractId, FirstRow(d, i, age, c)
    PROVE  LedgerInvariant'
<1>1. upload.phase = "rows"
  BY DEF FirstRow, CoveredRow, EnrolledRow, ReadsRow
<1>2. contracts'[c] = Contract(d)
  BY <1>1, RowFacts DEF FirstRow
<1>3. \A k \in ContractId : k # c => contracts'[k] = contracts[k]
  BY <1>1, RowFacts DEF FirstRow
<1>4. ASSUME NEW n \in Month, Active(d, n)
      PROVE  n < upload.month
  <2>1. PICK l \in Month : IsLast(d, l)
    BY <1>4, LastActive
  <2>2. upload.month = l + 1
    BY <2>1 DEF FirstRow, Starts
  <2> QED
    BY <1>4, <2>1, <2>2 DEF IsLast, Month
<1> QED
  BY <1>2, <1>3, <1>4, OpenedContract
     DEF FirstRow, CoveredRow, EnrolledRow

LEMMA BreakRowKeeps ==
    ASSUME Contiguous, Typed', NEW d \in Doc, NEW i \in Identity, NEW age \in Age,
           NEW c \in ContractId, NEW old \in ContractId,
           BreakRow(d, i, age, c, old)
    PROVE  LedgerInvariant'
<1>1. upload.phase = "rows"
  BY DEF BreakRow, CoveredRow, EnrolledRow, ReadsRow
<1>2. PICK l \in Month : /\ IsLast(d, l)
                         /\ upload.month > l + 1
                         /\ old = records[d][l].contract
  BY DEF BreakRow, Breaks
<1>3. old # c
  <2>1. old < c
    BY <1>1, <1>2, NextIsFresh DEF BreakRow, IsLast, Active
  <2> QED
    BY <2>1, BoundTypes DEF ContractId
<1>4. contracts'[c] = Contract(d)
  BY <1>1, <1>3, RowFacts DEF BreakRow
<1>5. \A k \in ContractId : k # c =>
          /\ contracts'[k].status = "absent" <=> contracts[k].status = "absent"
          /\ contracts'[k].doc = contracts[k].doc
          /\ contracts'[k].entry = contracts[k].entry
          /\ contracts'[k].until = contracts[k].until
  <2>1. \A k \in ContractId : k # c /\ k # old => contracts'[k] = contracts[k]
    BY <1>1, RowFacts DEF BreakRow
  <2>2. contracts'[old] = IF contracts[old].status = "active"
                          THEN [contracts[old] EXCEPT !.status = "expired",
                                                      !.broken = TRUE]
                          ELSE contracts[old]
    BY <1>1, <1>3, RowFacts DEF BreakRow
  <2>3. contracts[old] \in ContractRow
    BY <1>1, RowFacts
  <2>4. CASE contracts[old].status = "active"
    <3> DEFINE ended == [contracts[old] EXCEPT !.status = "expired"]
    <3>1. /\ ended \in ContractRow
          /\ ended.status = "expired"
          /\ ended.doc = contracts[old].doc
          /\ ended.entry = contracts[old].entry
          /\ ended.until = contracts[old].until
      BY <2>3 DEF ContractRow
    <3>2. contracts'[old] = [ended EXCEPT !.broken = TRUE]
      BY <2>2, <2>4
    <3>3. /\ contracts'[old].status = "expired"
          /\ contracts'[old].doc = contracts[old].doc
          /\ contracts'[old].entry = contracts[old].entry
          /\ contracts'[old].until = contracts[old].until
      <4> HIDE DEF ended
      <4> QED
        BY <3>1, <3>2 DEF ContractRow
    <3> QED
      BY <2>1, <2>4, <3>3
  <2>5. CASE contracts[old].status # "active"
    BY <2>1, <2>2, <2>5
  <2> QED
    BY <2>4, <2>5
<1>6. \A n \in Month : Active(d, n) => n < upload.month
  BY <1>1, <1>2, RowFacts DEF IsLast, Month
<1> QED
  BY <1>4, <1>5, <1>6, OpenedContract
     DEF BreakRow, CoveredRow, EnrolledRow

LEMMA RenewRowKeeps ==
    ASSUME Contiguous, Typed', NEW d \in Doc, NEW i \in Identity, NEW age \in Age,
           NEW c \in ContractId, RenewRow(d, i, age, c)
    PROVE  LedgerInvariant'
<1>1. upload.phase = "rows"
  BY DEF RenewRow, CoveredRow, EnrolledRow, ReadsRow
<1>2. PICK l \in Month : /\ IsLast(d, l)
                         /\ upload.month = l + 1
                         /\ c = records[d][l].contract
  BY DEF RenewRow, Continues
<1>3. contracts' \in [ContractId -> ContractRow]
  BY DEF Typed, TypeOK
<1>4. \A k \in ContractId : IF k = c
          THEN /\ contracts'[k].status = "active"
               /\ contracts'[k].doc = contracts[k].doc
               /\ contracts'[k].entry = contracts[k].entry
               /\ contracts'[k].until = l + 1
          ELSE contracts'[k] = contracts[k]
  <2>1. contracts' = [contracts EXCEPT ![c] =
                        [contracts[c] EXCEPT !.status = "active",
                                             !.until = upload.month]]
    BY <1>1, RowFacts DEF RenewRow, ContractRow
  <2>2. contracts[c] \in ContractRow
    BY <1>1, RowFacts
  <2> QED
    BY <1>1, <1>2, <2>1, <2>2, RowFacts DEF ContractRow
<1>5. /\ records[d][l].status = "active"
      /\ \A n \in Month : records[d][n].status = "active" => n <= l
  BY <1>2 DEF IsLast, Active
<1>6. LedgerOK(contracts', records, lastBatch)
  <2>1. \A k \in ContractId : IF k = records[d][l].contract
            THEN /\ contracts'[k].status = "active"
                 /\ contracts'[k].doc = contracts[k].doc
                 /\ contracts'[k].entry = contracts[k].entry
                 /\ contracts'[k].until = l + 1
            ELSE contracts'[k] = contracts[k]
    BY <1>2, <1>4
  <2>2. /\ LedgerOK(contracts, records, lastBatch)
        /\ contracts \in [ContractId -> ContractRow]
        /\ records \in [Doc -> [Month -> RecordRow]]
    BY <1>1, RowFacts
  <2> QED
    BY <1>3, <1>5, <2>1, <2>2, ExtendedContract, ZenonT(60)
<1>7. /\ contracts[c].doc = d
      /\ contracts[c].entry <= l
      /\ \A n \in Month :
             contracts[c].entry <= n /\ n <= l => records[d][n].contract = c
  <2>1. MonthsContiguous(contracts, records)
    BY <1>1, RowFacts DEF LedgerOK
  <2>2. records[d][l].status # "absent"
    BY <1>5
  <2> QED
    BY <1>2, <2>1, <2>2 DEF MonthsContiguous
<1>8. /\ contracts'[c].entry <= upload.month
      /\ contracts'[c].until = upload.month
      /\ \A n \in Month : contracts'[c].entry <= n /\ n < upload.month
                           => records[d][n].contract = c
  <2>1. contracts[c].entry \in Int
    BY <1>1, RowFacts DEF ContractRow
  <2> QED
    BY <1>2, <1>4, <1>7, <2>1 DEF Month
<1>9. ASSUME NEW n \in Month, Active(d, n)
      PROVE  n < upload.month /\ records[d][n].contract <= c
  <2>1. n <= l
    BY <1>5, <1>9 DEF Active
  <2>2. n = l \/ n < l
    BY <2>1 DEF Month
  <2>3. CASE n = l
    BY <1>2, <2>3, BoundTypes DEF ContractId, Month
  <2>4. CASE n < l
    <3>1. records[d][n].contract <= records[d][l].contract
      BY <1>1, <1>5, <1>9, <2>4, RowFacts DEF LedgerOK, LoadedInOrder, Active
    <3> QED
      BY <1>2, <2>4, <3>1 DEF Month
  <2> QED
    BY <2>2, <2>3, <2>4
<1>10. UNCHANGED <<db, lastBatch>>
  BY DEF RenewRow, CoveredRow, EnrolledRow
<1> QED
  BY <1>4, <1>6, <1>7, <1>8, <1>9, <1>10, RecordMonthKeeps DEF RenewRow

\* A failed upload commits the tables as they are.
LEMMA FailKeeps ==
    ASSUME Contiguous, Typed', Fail
    PROVE  LedgerInvariant'
<1>1. LedgerOK(contracts', records', lastBatch')
  BY DEF Contiguous, LedgerInvariant, Fail
<1> QED
  BY <1>1, CommitKeeps DEF Fail, Idle

LEMMA RowStepKeeps ==
    ASSUME Contiguous, Typed', RowStep
    PROVE  LedgerInvariant'
<1>1. CASE InvalidRow
  BY <1>1, RefusedRow DEF InvalidRow, ReadsRow, Result
<1>2. CASE GarbledRow
  BY <1>2, FailKeeps DEF GarbledRow
<1>3. ASSUME NEW d \in Doc, NEW i \in Identity, IncongruentRow(d, i)
      PROVE  LedgerInvariant'
  BY <1>3, RefusedRow DEF IncongruentRow, ReadsRow, Result
<1>4. ASSUME NEW d \in Doc, NEW i \in Identity, DuplicatedRow(d, i)
      PROVE  LedgerInvariant'
  BY <1>4, RefusedRow DEF DuplicatedRow, EnrolledRow, ReadsRow, Result
<1>5. ASSUME NEW d \in Doc, NEW i \in Identity, RetroactiveRow(d, i)
      PROVE  LedgerInvariant'
  BY <1>5, RefusedRow DEF RetroactiveRow, EnrolledRow, ReadsRow, Result
<1>6. ASSUME NEW d \in Doc, NEW i \in Identity, NEW age \in Age,
             TooOldRow(d, i, age)
      PROVE  LedgerInvariant'
  BY <1>6, RefusedRow DEF TooOldRow, EnrolledRow, ReadsRow, Result
<1>7. ASSUME NEW d \in Doc, NEW i \in Identity, NEW age \in Age,
             KeyConflict(d, i, age)
      PROVE  LedgerInvariant'
  BY <1>7, AbortKeeps DEF KeyConflict, Idle
<1>8. ASSUME NEW d \in Doc, NEW i \in Identity, NEW age \in Age,
             NEW c \in ContractId, FirstRow(d, i, age, c)
      PROVE  LedgerInvariant'
  BY <1>8, FirstRowKeeps
<1>9. ASSUME NEW d \in Doc, NEW i \in Identity, NEW age \in Age,
             NEW c \in ContractId, RenewRow(d, i, age, c)
      PROVE  LedgerInvariant'
  BY <1>9, RenewRowKeeps
<1>10. ASSUME NEW d \in Doc, NEW i \in Identity, NEW age \in Age,
              NEW c \in ContractId, NEW old \in ContractId,
              BreakRow(d, i, age, c, old)
       PROVE  LedgerInvariant'
  BY <1>10, BreakRowKeeps
<1> QED
  BY <1>1, <1>2, <1>3, <1>4, <1>5, <1>6, <1>7, <1>8, <1>9, <1>10 DEF RowStep

LEMMA RollbackRecordKeeps ==
    ASSUME Contiguous, Typed', NEW e \in Doc, NEW n \in Month,
           RollbackRecord(e, n)
    PROVE  LedgerInvariant'
<1>1. /\ LedgerOK(contracts, records, lastBatch)
      /\ contracts \in [ContractId -> ContractRow]
      /\ records \in [Doc -> [Month -> RecordRow]]
      /\ records' \in [Doc -> [Month -> RecordRow]]
  BY DEF Contiguous, Typed, TypeOK, LedgerInvariant
<1>2. Reverts(records, records')
  <2> DEFINE row == [records[e][n] EXCEPT !.status = "rolled_back"]
  <2>1. records' = [records EXCEPT ![e] = [records[e] EXCEPT ![n] = row]]
    BY <1>1 DEF RollbackRecord, RecordRow
  <2>2. /\ row.status = "rolled_back"
        /\ row.contract = records[e][n].contract
        /\ row.batch = records[e][n].batch
    BY <1>1, RevertedColumns
  <2> HIDE DEF row
  <2> QED
    BY <1>1, <2>1, <2>2 DEF RollbackRecord, Active, Reverts
<1>3. LedgerOK(contracts, records', lastBatch)
  BY <1>1, <1>2, RevertedRecords
<1> QED
  BY <1>3, CommitKeeps DEF RollbackRecord

LEMMA NextKeeps == Contiguous /\ [Next]_vars => Contiguous'
<1> SUFFICES ASSUME Contiguous, [Next]_vars
             PROVE  Contiguous'
  OBVIOUS
<1>1. Typed'
  BY NextTyped DEF Contiguous
<1> SUFFICES LedgerInvariant'
  BY <1>1 DEF Contiguous
<1>2. /\ LedgerOK(contracts, records, lastBatch)
      /\ LedgerOK(db.contracts, db.records, lastBatch)
      /\ contracts \in [ContractId -> ContractRow]
      /\ records \in [Doc -> [Month -> RecordRow]]
      /\ db.records \in [Doc -> [Month -> RecordRow]]
      /\ contracts' \in [ContractId -> ContractRow]
      /\ records' \in [Doc -> [Month -> RecordRow]]
      /\ lastBatch \in Nat
  BY <1>1, BoundTypes
     DEF Contiguous, Typed, TypeOK, LedgerInvariant, Tables
<1>3. ASSUME NEW m \in Month, NEW plan \in PlanVersion, BeginUpload(m, plan)
      PROVE  LedgerInvariant'
  <2>1. /\ LedgerOK(contracts, records, lastBatch + 1)
        /\ LedgerOK(db.contracts, db.records, lastBatch + 1)
    BY <1>2, LaterBatch
  <2>2. \A d \in Doc, n \in Month :
            records[d][n].batch < lastBatch + 1
            /\ db.records[d][n].batch < lastBatch + 1
    <3> SUFFICES ASSUME NEW rec \in [Doc -> [Month -> RecordRow]], NEW con,
                        LedgerOK(con, rec, lastBatch),
                        NEW d \in Doc, NEW n \in Month
                 PROVE  rec[d][n].batch < lastBatch + 1
      BY <1>2
    <3>1. rec[d][n].batch <= lastBatch
      BY <1>2 DEF LedgerOK, IdsInOrder, NoRecord
    <3>2. rec[d][n].batch \in Int
      BY DEF RecordRow, BatchId
    <3> QED
      BY <1>2, <3>1, <3>2
  <2>3. upload'.batch = lastBatch + 1 /\ upload'.month = m
    BY <1>3 DEF BeginUpload, Idle
  <2>4. \A d \in Doc, n \in Month : records[d][n].batch # lastBatch + 1
    BY <1>2, <2>2 DEF RecordRow, BatchId
  <2> QED
    BY <1>1, <1>3, <2>1, <2>2, <2>3, <2>4
       DEF BeginUpload, LedgerInvariant, Typed
<1>4. CASE RejectFile
  BY <1>1, <1>4, FailKeeps DEF RejectFile
<1>5. CASE RowStep
  BY <1>1, <1>5, RowStepKeeps
<1>6. CASE FinishRows
  <2>1. upload'.batch = upload.batch /\ upload'.month = upload.month
    BY <1>6 DEF FinishRows, Contiguous, Typed, TypeOK, Upload
  <2> QED
    BY <1>1, <1>6, <2>1 DEF FinishRows, Contiguous, LedgerInvariant, Typed
<1>7. ASSUME NEW stage \in {"none", "draft", "sent"}, Bill(stage)
      PROVE  LedgerInvariant'
  <2>1. upload'.batch = upload.batch /\ upload'.month = upload.month
    BY <1>7 DEF Bill, Contiguous, Typed, TypeOK, Upload
  <2> QED
    BY <1>1, <1>7, <2>1 DEF Bill, Contiguous, LedgerInvariant, Typed
<1>8. CASE EndUpload
  <2>1. \A c \in ContractId :
            /\ contracts'[c].status = "absent" <=> contracts[c].status = "absent"
            /\ contracts'[c].doc = contracts[c].doc
            /\ contracts'[c].entry = contracts[c].entry
            /\ contracts'[c].until = contracts[c].until
    BY <1>2, <1>8 DEF EndUpload, Refresh, ContractRow
  <2>2. LedgerOK(contracts', records, lastBatch)
    <3>1. \A c, k \in ContractId :
              k < c /\ contracts'[c].status # "absent"
              => contracts'[k].status # "absent"
      BY <1>2, <2>1 DEF LedgerOK, IdsInOrder
    <3> QED
      BY <1>2, <2>1, <3>1, OtherContracts
  <2> QED
    BY <1>1, <1>8, <2>2, CommitKeeps DEF EndUpload, Idle
<1>9. CASE Crash
  BY <1>1, <1>9, AbortKeeps DEF Crash, Idle
<1>10. ASSUME NEW b \in BatchId, RollbackBatch(b)
       PROVE  LedgerInvariant'
  <2>1. \A d \in Doc, m \in Month :
            \/ records'[d][m] = records[d][m]
            \/ /\ records[d][m].status = "active"
               /\ records'[d][m] = [records[d][m] EXCEPT !.status = "rolled_back"]
    BY <1>10 DEF RollbackBatch, ActiveIn, Active
  <2>2. Reverts(records, records')
    <3> SUFFICES ASSUME NEW d \in Doc, NEW m \in Month,
                        records'[d][m] # records[d][m]
                 PROVE  /\ records[d][m].status = "active"
                        /\ records'[d][m].status = "rolled_back"
                        /\ records'[d][m].contract = records[d][m].contract
                        /\ records'[d][m].batch = records[d][m].batch
      BY DEF Reverts
    <3>1. records[d][m] \in RecordRow
      BY <1>2
    <3> QED
      BY <2>1, <3>1, RevertedColumns
  <2>3. LedgerOK(contracts, records', lastBatch)
    BY <1>2, <2>2, RevertedRecords
  <2> QED
    BY <1>1, <1>10, <2>3, CommitKeeps DEF RollbackBatch
<1>11. ASSUME NEW d \in Doc, NEW m \in Month, RollbackRecord(d, m)
       PROVE  LedgerInvariant'
  BY <1>1, <1>11, RollbackRecordKeeps
<1>12. CASE NextMonth
  BY <1>1, <1>12 DEF NextMonth, Contiguous, LedgerInvariant, Typed
<1>13. CASE UNCHANGED vars
  BY <1>1, <1>13 DEF vars, Contiguous, LedgerInvariant, Typed
<1> QED
  BY <1>1, <1>3, <1>4, <1>5, <1>6, <1>7, <1>8, <1>9, <1>10, <1>11, <1>12, <1>13
     DEF Next

-----------------------------------------------------------------------------
\* The inductive invariant holds of every behaviour.
THEOREM LedgerInvariantHolds == Spec => []LedgerInvariant
<1>1. Init => Contiguous
  BY InitTyped, InitLedger DEF Contiguous
<1>2. Spec => []Contiguous
  BY <1>1, NextKeeps, PTL DEF Spec
<1>3. Contiguous => LedgerInvariant
  BY DEF Contiguous
<1> QED
  BY <1>2, <1>3, PTL

\* However uploads, renewals, breaks, failures and rollbacks follow each other,
\* the monthly records of a contract have no hole from its entry month up to the
\* month before valid_until (_create_new_contract, the renewal branch and the
\* break branch of _process_spreadsheet_rows agree on the months they own).
THEOREM MonthsAreContiguous == Spec => []ContractMonthsContiguous
<1>1. LedgerInvariant => ContractMonthsContiguous
  BY DEF LedgerInvariant, LedgerOK, ContractMonthsContiguous
<1> QED
  BY <1>1, LedgerInvariantHolds, PTL

\* The months in force of a document were loaded in calendar order, each by a
\* newer batch and under the same contract or a newer one: the retroactivity
\* check of _process_spreadsheet_rows lets nothing slip in between.
THEOREM CoverageIsLoadedInOrder == Spec => []CoverageLoadedInOrder
<1>1. LedgerInvariant => CoverageLoadedInOrder
  BY DEF LedgerInvariant, LedgerOK, CoverageLoadedInOrder
<1> QED
  BY <1>1, LedgerInvariantHolds, PTL

-----------------------------------------------------------------------------
(***************************************************************************)
(* CapitatedBatch implements CoverageLedger: whatever a request does row   *)
(* by row, its commit is one step of the ledger, and so is a rollback.     *)
(* What has to be known of a running upload is how far its tables are from *)
(* the committed ones: by records in force, for the month of the batch and *)
(* after everything the document is covered for.                           *)
(***************************************************************************)
\* What the running request has added to the committed records.
UncommittedCover ==
    /\ upload.phase = "idle" => records = db.records
    /\ \A d \in Doc, m \in Month :
         records[d][m] # db.records[d][m] =>
             /\ m = upload.month
             /\ records[d][m].status = "active"
             /\ db.records[d][m].status = "absent"
             /\ \A n \in Month : db.records[d][n].status = "active" => n < m

\* The records of a batch are all for one month.
OneMonthPerBatch(rec) ==
    \A d, e \in Doc, m, n \in Month :
        rec[d][m].batch = rec[e][n].batch => m = n \/ rec[d][m].batch = 0

Coverage == /\ UncommittedCover
            /\ OneMonthPerBatch(records) /\ OneMonthPerBatch(db.records)

Inductive == Contiguous /\ Coverage

-----------------------------------------------------------------------------
(***************************************************************************)
(* How each kind of write keeps Coverage.                                  *)
(***************************************************************************)
LEMMA Types ==
    ASSUME Contiguous
    PROVE  /\ records \in [Doc -> [Month -> RecordRow]]
           /\ db.records \in [Doc -> [Month -> RecordRow]]
           /\ upload.phase # "idle" => upload.month \in Month
           /\ upload \in Upload
  BY DEF Contiguous, Typed, TypeOK, Tables, RequestOK

\* A request that goes on without a write to the records.
LEMMA GoesOn ==
    ASSUME Inductive, UNCHANGED <<records, db>>,
           upload'.phase # "idle", upload'.month = upload.month
    PROVE  Coverage'
  BY DEF Inductive, Coverage, UncommittedCover, OneMonthPerBatch

LEMMA Commits ==
    ASSUME Inductive, Commit, upload'.phase = "idle", OneMonthPerBatch(records')
    PROVE  Coverage'
<1>1. db'.records = records'
  BY DEF Commit
<1> QED
  BY <1>1 DEF Coverage, UncommittedCover

LEMMA Aborts ==
    ASSUME Inductive, Abort, upload'.phase = "idle"
    PROVE  Coverage'
<1>1. db' = db /\ records' = db.records
  BY DEF Abort
<1> QED
  BY <1>1 DEF Inductive, Coverage, UncommittedCover

\* A change of the status of records.
LEMMA SameBatches ==
    ASSUME NEW rec, NEW new, OneMonthPerBatch(rec),
           \A d \in Doc, m \in Month : new[d][m].batch = rec[d][m].batch
    PROVE  OneMonthPerBatch(new)
  BY DEF OneMonthPerBatch

\* The row that covers d is after everything in force.
LEMMA CoversLater ==
    ASSUME Inductive, NEW d \in Doc, NEW m \in Month, Active(d, m), upload.month \in Month,
           Starts(d) \/ \E c \in ContractId : Continues(d, c) \/ Breaks(d, c)
    PROVE  m < upload.month
<1>1. PICK l \in Month : IsLast(d, l)
  BY LastActive
<1>2. m <= l
  BY <1>1 DEF IsLast
<1>3. CASE Starts(d)
  BY <1>1, <1>2, <1>3 DEF Starts, Month
<1>4. ASSUME NEW c \in ContractId, Continues(d, c) \/ Breaks(d, c)
      PROVE  m < upload.month
  <2>1. PICK k \in Month : IsLast(d, k) /\ upload.month > k
    BY <1>4 DEF Continues, Breaks, Month
  <2>2. m <= k
    BY <2>1 DEF IsLast
  <2> QED
    BY <2>1, <2>2 DEF Month
<1> QED
  BY <1>3, <1>4

LEMMA Covers ==
    ASSUME Inductive, NEW d \in Doc, NEW i \in Identity, NEW age \in Age,
           NEW c \in ContractId, CoveredRow(d, i, age), RecordMonth(d, c, age),
           Starts(d) \/ \E k \in ContractId : Continues(d, k) \/ Breaks(d, k)
    PROVE  Coverage' /\ UNCHANGED db
<1> DEFINE k == upload.month
           row == [status |-> "active", contract |-> c, batch |-> upload.batch]
<1>1. upload.phase = "rows" /\ UNCHANGED db
  BY DEF CoveredRow, EnrolledRow, ReadsRow
<1>2. upload'.phase = "rows" /\ upload'.month = k /\ upload'.batch = upload.batch
  BY <1>1, Types DEF Inductive, RecordMonth, Tally, Upload
<1>3. CASE Clash(age)
  BY <1>1, <1>2, <1>3, GoesOn DEF RecordMonth
<1>4. CASE ~Clash(age)
  <2>1. k \in Month /\ records \in [Doc -> [Month -> RecordRow]]
    BY <1>1, Types DEF Inductive
  <2>2. records' = [records EXCEPT ![d] = [records[d] EXCEPT ![k] = row]]
    BY <1>4 DEF RecordMonth
  <2>3. /\ records'[d][k] = row
        /\ \A e \in Doc, m \in Month : e # d \/ m # k => records'[e][m] = records[e][m]
    BY <2>1, <2>2
  <2>4. records[d][k].status = "absent"
    BY <1>4, <2>1 DEF CoveredRow, Active, RecordKeyTaken, RecordRow
  <2>5. db.records[d][k] = records[d][k]
    BY <2>1, <2>4 DEF Inductive, Coverage, UncommittedCover
  <2>6. \A n \in Month : db.records[d][n].status = "active" => n < k
    <3> SUFFICES ASSUME NEW n \in Month, db.records[d][n].status = "active"
                 PROVE  n < k
      OBVIOUS
    <3>1. records[d][n] = db.records[d][n]
      BY <2>4, <2>5 DEF Inductive, Coverage, UncommittedCover
    <3>2. Active(d, n)
      BY <3>1 DEF Active
    <3> QED
      BY <2>1, <3>2, CoversLater
  <2>7. UncommittedCover'
    BY <1>1, <1>2, <2>3, <2>4, <2>5, <2>6 DEF Inductive, Coverage, UncommittedCover
  <2>8. OneMonthPerBatch(records')
    <3>1. row.batch = lastBatch
          /\ \A e \in Doc, m \in Month : records[e][m].batch = lastBatch => m = k
      BY <1>1, RowFacts DEF Inductive
    <3>2. \A e \in Doc, m \in Month : records'[e][m].batch = lastBatch => m = k
      BY <2>3, <3>1
    <3>3. \A e \in Doc, m \in Month :
             records'[e][m].batch # lastBatch => records'[e][m] = records[e][m]
      BY <2>3, <3>1
    <3> HIDE DEF row
    <3>4. ASSUME NEW e \in Doc, NEW f \in Doc, NEW m \in Month, NEW n \in Month,
                 records'[e][m].batch = records'[f][n].batch
          PROVE  m = n \/ records'[e][m].batch = 0
      <4>1. CASE records'[e][m].batch = lastBatch
        BY <3>2, <3>4, <4>1
      <4>2. CASE records'[e][m].batch # lastBatch
        BY <3>3, <3>4, <4>2 DEF Inductive, Coverage, OneMonthPerBatch
      <4> QED
        BY <4>1, <4>2
    <3> QED
      BY <3>4 DEF OneMonthPerBatch
  <2> QED
    BY <1>1, <2>7, <2>8 DEF Inductive, Coverage
<1> QED
  BY <1>1, <1>3, <1>4

-----------------------------------------------------------------------------
(***************************************************************************)
(* The steps of the ledger.                                                *)
(***************************************************************************)
\* The slots that the committed records stand for.
Slots == [d \in Doc |-> [m \in Month |-> SlotStatus(db.records[d][m].status)]]

LedgerStep == Ledger!Next \/ UNCHANGED Slots

LEMMA SlotsStay ==
    ASSUME UNCHANGED db
    PROVE  LedgerStep
  BY DEF Slots, LedgerStep

\* A commit that puts the documents of S to the status new in month k.
StatusesMove(S, k, new) ==
    \A d \in Doc, m \in Month :
        SlotStatus(db'.records[d][m].status) =
            IF d \in S /\ m = k THEN new ELSE SlotStatus(db.records[d][m].status)

SlotsMove(S, k, new) ==
    Slots' = [d \in Doc |-> IF d \in S THEN [Slots[d] EXCEPT ![k] = new] ELSE Slots[d]]

LEMMA SlotsChange ==
    ASSUME NEW S, NEW k, NEW new, StatusesMove(S, k, new)
    PROVE  SlotsMove(S, k, new)
<1>1. \A d \in Doc : Slots'[d] = IF d \in S THEN [Slots[d] EXCEPT ![k] = new] ELSE Slots[d]
  <2> TAKE d \in Doc
  <2>1. Slots'[d] = [m \in Month |-> SlotStatus(db'.records[d][m].status)]
    BY DEF Slots
  <2>2. Slots[d] = [m \in Month |-> SlotStatus(db.records[d][m].status)]
    BY DEF Slots
  <2> QED
    BY <2>1, <2>2 DEF StatusesMove
<1>2. Slots' = [d \in Doc |-> Slots'[d]]
  BY DEF Slots
<1> QED
  BY <1>1, <1>2 DEF SlotsMove

LEMMA CommitCovers ==
    ASSUME Inductive, Commit, UNCHANGED records, upload.phase # "idle"
    PROVE  LedgerStep
<1> DEFINE k == upload.month
           S == {d \in Doc : records[d][k] # db.records[d][k]}
<1>1. k \in Month /\ db'.records = records
  BY Types DEF Inductive, Commit
<1>2. \A d \in S : /\ records[d][k].status = "active"
                   /\ db.records[d][k].status = "absent"
                   /\ \A n \in Month : db.records[d][n].status = "active" => n < k
  BY <1>1 DEF Inductive, Coverage, UncommittedCover
<1>3. \A d \in Doc, m \in Month : ~(d \in S /\ m = k) => records[d][m] = db.records[d][m]
  BY <1>1 DEF Inductive, Coverage, UncommittedCover
<1> HIDE DEF S
<1>4. S \in SUBSET Doc
  BY DEF S
<1>5. StatusesMove(S, k, "covered")
  BY <1>1, <1>2, <1>3 DEF StatusesMove, SlotStatus
<1>6. SlotsMove(S, k, "covered")
  BY <1>5, SlotsChange
<1>7. \A d \in Doc, m \in Month : Slots[d][m] = SlotStatus(db.records[d][m].status)
  BY DEF Slots
<1>8. \A d \in S : Slots[d][k] = "free"
  BY <1>1, <1>2, <1>4, <1>7 DEF SlotStatus
<1>9. \A d \in S, n \in Month : Slots[d][n] = "covered" => n < k
  <2> SUFFICES ASSUME NEW d \in S, NEW n \in Month, Slots[d][n] = "covered" PROVE n < k
    OBVIOUS
  <2>1. SlotStatus(db.records[d][n].status) = "covered"
    BY <1>4, <1>7
  <2>2. db.records[d][n].status = "active"
    BY <2>1 DEF SlotStatus
  <2> QED
    BY <1>2, <2>2
<1>10. Ledger!Cover(S, k)
  BY <1>6, <1>8, <1>9 DEF SlotsMove, Ledger!Cover, Ledger!Month, Month, Slots
<1> QED
  BY <1>1, <1>4, <1>10 DEF LedgerStep, Ledger!Next, Ledger!Month, Month

LEMMA CommitReverts ==
    ASSUME Inductive, NEW S \in SUBSET Doc, NEW k \in Month, upload.phase = "idle",
           \A d \in S : records[d][k].status = "active",
           \A d \in Doc, m \in Month :
               db'.records[d][m].status =
                   IF d \in S /\ m = k THEN "rolled_back" ELSE records[d][m].status
    PROVE  LedgerStep
<1>1. records = db.records
  BY DEF Inductive, Coverage, UncommittedCover
<1>2. StatusesMove(S, k, "reverted")
  BY <1>1 DEF StatusesMove, SlotStatus
<1>3. SlotsMove(S, k, "reverted")
  BY <1>2, SlotsChange
<1>4. \A d \in S : Slots[d][k] = "covered"
  BY <1>1 DEF Slots, SlotStatus
<1>5. Ledger!Revert(S, k)
  BY <1>3, <1>4 DEF SlotsMove, Ledger!Revert, Ledger!Month, Month, Slots
<1> QED
  BY <1>5 DEF LedgerStep, Ledger!Next, Ledger!Month, Month

-----------------------------------------------------------------------------
(***************************************************************************)
(* The actions.                                                            *)
(***************************************************************************)
LEMMA FailRefines ==
    ASSUME Inductive, Fail, upload.phase = "rows"
    PROVE  Coverage' /\ LedgerStep
<1>1. Commit /\ UNCHANGED records /\ upload'.phase = "idle"
  BY DEF Fail, Idle
<1>2. OneMonthPerBatch(records')
  BY <1>1 DEF Inductive, Coverage
<1> QED
  BY <1>1, <1>2, Commits, CommitCovers

\* Rows that write no record.
LEMMA TallyRefines ==
    ASSUME Inductive, upload.phase = "rows", NEW r \in Result, Tally(r),
           UNCHANGED <<records, db>>
    PROVE  Coverage' /\ LedgerStep
<1>1. upload'.phase = "rows" /\ upload'.month = upload.month
  BY Types DEF Inductive, Tally, Upload
<1> QED
  BY <1>1, GoesOn, SlotsStay

LEMMA RowStepRefines ==
    ASSUME Inductive, RowStep
    PROVE  Coverage' /\ LedgerStep
<1>1. CASE InvalidRow
  BY <1>1, TallyRefines DEF InvalidRow, ReadsRow, Result
<1>2. CASE GarbledRow
  BY <1>2, FailRefines DEF GarbledRow, ReadsRow
<1>3. ASSUME NEW d \in Doc, NEW i \in Identity, NEW age \in Age, TooOldRow(d, i, age)
      PROVE  Coverage' /\ LedgerStep
  BY <1>3, TallyRefines DEF TooOldRow, CoveredRow, EnrolledRow, ReadsRow, Result
<1>4. ASSUME NEW d \in Doc, NEW i \in Identity, IncongruentRow(d, i)
      PROVE  Coverage' /\ LedgerStep
  BY <1>4, TallyRefines DEF IncongruentRow, ReadsRow, Result
<1>5. ASSUME NEW d \in Doc, NEW i \in Identity, DuplicatedRow(d, i) \/ RetroactiveRow(d, i)
      PROVE  Coverage' /\ LedgerStep
  BY <1>5, TallyRefines DEF DuplicatedRow, RetroactiveRow, EnrolledRow, ReadsRow, Result
<1>6. ASSUME NEW d \in Doc, NEW i \in Identity, NEW age \in Age, KeyConflict(d, i, age)
      PROVE  Coverage' /\ LedgerStep
  <2>1. Abort /\ UNCHANGED db /\ upload'.phase = "idle"
    BY <1>6 DEF KeyConflict, Abort, Idle
  <2> QED
    BY <2>1, Aborts, SlotsStay
<1>7. ASSUME NEW d \in Doc, NEW i \in Identity, NEW age \in Age, NEW c \in ContractId,
             CoveredRow(d, i, age), RecordMonth(d, c, age),
             Starts(d) \/ \E k \in ContractId : Continues(d, k) \/ Breaks(d, k)
      PROVE  Coverage' /\ LedgerStep
  BY <1>7, Covers, SlotsStay
<1>8. ASSUME NEW d \in Doc, NEW i \in Identity, NEW age \in Age, NEW c \in ContractId,
             FirstRow(d, i, age, c) \/ RenewRow(d, i, age, c)
      PROVE  Coverage' /\ LedgerStep
  BY <1>7, <1>8 DEF FirstRow, RenewRow
<1>9. ASSUME NEW d \in Doc, NEW i \in Identity, NEW age \in Age, NEW c \in ContractId,
             NEW old \in ContractId, BreakRow(d, i, age, c, old)
      PROVE  Coverage' /\ LedgerStep
  BY <1>7, <1>9 DEF BreakRow
<1> QED
  BY <1>1, <1>2, <1>3, <1>4, <1>5, <1>6, <1>8, <1>9 DEF RowStep

LEMMA RollbackBatchRefines ==
    ASSUME Inductive, NEW b \in BatchId, RollbackBatch(b)
    PROVE  Coverage' /\ LedgerStep
<1> DEFINE In(d, m) == records[d][m].batch = b /\ records[d][m].status = "active"
<1>1. upload.phase = "idle" /\ Commit /\ UNCHANGED upload
  BY DEF RollbackBatch
<1>2. \A d \in Doc, m \in Month :
         records'[d][m] = IF In(d, m) THEN [records[d][m] EXCEPT !.status = "rolled_back"]
                          ELSE records[d][m]
  BY DEF RollbackBatch, ActiveIn, Active
<1>3. \A d \in Doc, m \in Month : records[d][m] \in RecordRow
  BY Types DEF Inductive
<1>4. ASSUME NEW d \in Doc, NEW m \in Month
      PROVE  /\ records'[d][m].batch = records[d][m].batch
             /\ records'[d][m].status = IF In(d, m) THEN "rolled_back" ELSE records[d][m].status
  <2>1. CASE In(d, m)
    <3>1. records'[d][m] = [records[d][m] EXCEPT !.status = "rolled_back"]
      BY <1>2, <2>1
    <3> QED
      BY <1>3, <2>1, <3>1 DEF RecordRow
  <2>2. CASE ~In(d, m)
    BY <1>2, <2>2
  <2> QED
    BY <2>1, <2>2
<1>5. OneMonthPerBatch(records')
  BY <1>4, SameBatches DEF Inductive, Coverage
<1>6. Coverage'
  BY <1>1, <1>5, Commits
<1>7. db'.records = records'
  BY <1>1 DEF Commit
<1>8. CASE \E e \in Doc, k \in Month : In(e, k)
  <2>1. PICK e \in Doc, k \in Month : In(e, k)
    BY <1>8
  <2>2. \A d \in Doc, m \in Month : In(d, m) => m = k
    BY <2>1 DEF Inductive, Coverage, OneMonthPerBatch, BatchId
  <2> DEFINE S == {d \in Doc : In(d, k)}
  <2>3. S \in SUBSET Doc /\ \A d \in S : records[d][k].status = "active"
    OBVIOUS
  <2>4. \A d \in Doc, m \in Month :
           db'.records[d][m].status =
               IF d \in S /\ m = k THEN "rolled_back" ELSE records[d][m].status
    BY <1>4, <1>7, <2>2
  <2> HIDE DEF S
  <2>5. LedgerStep
    BY <1>1, <2>3, <2>4, CommitReverts
  <2> QED
    BY <1>6, <2>5
<1>9. CASE ~\E e \in Doc, k \in Month : In(e, k)
  <2>1. \A d \in Doc, m \in Month : db'.records[d][m] = db.records[d][m]
    BY <1>1, <1>2, <1>7, <1>9 DEF Inductive, Coverage, UncommittedCover
  <2>2. Slots' = Slots
    BY <2>1 DEF Slots
  <2> QED
    BY <1>6, <2>2 DEF LedgerStep
<1> QED
  BY <1>8, <1>9

LEMMA RollbackRecordRefines ==
    ASSUME Inductive, NEW e \in Doc, NEW k \in Month, RollbackRecord(e, k)
    PROVE  Coverage' /\ LedgerStep
<1>1. /\ upload.phase = "idle" /\ Commit /\ UNCHANGED upload
      /\ records[e][k].status = "active"
      /\ records' = [records EXCEPT ![e] = [records[e] EXCEPT ![k] =
                       [records[e][k] EXCEPT !.status = "rolled_back"]]]
  BY DEF RollbackRecord, Active
<1>2. records \in [Doc -> [Month -> RecordRow]]
  BY Types DEF Inductive
<1>3. /\ records'[e][k] = [records[e][k] EXCEPT !.status = "rolled_back"]
      /\ \A d \in Doc, m \in Month : ~(d = e /\ m = k) => records'[d][m] = records[d][m]
  BY <1>1, <1>2
<1>4. \A d \in Doc, m \in Month :
         /\ records'[d][m].batch = records[d][m].batch
         /\ records'[d][m].status = IF d \in {e} /\ m = k THEN "rolled_back"
                                    ELSE records[d][m].status
  BY <1>2, <1>3 DEF RecordRow
<1>5. Coverage'
  <2>1. OneMonthPerBatch(records')
    BY <1>4, SameBatches DEF Inductive, Coverage
  <2> QED
    BY <1>1, <2>1, Commits
<1>6. db'.records = records'
  BY <1>1 DEF Commit
<1>7. LedgerStep
  <2> DEFINE S == {e}
  <2>1. S \in SUBSET Doc /\ \A d \in S : records[d][k].status = "active"
    BY <1>1
  <2>2. \A d \in Doc, m \in Month :
           db'.records[d][m].status =
               IF d \in S /\ m = k THEN "rolled_back" ELSE records[d][m].status
    BY <1>4, <1>6
  <2> HIDE DEF S
  <2> QED
    BY <1>1, <2>1, <2>2, CommitReverts
<1> QED
  BY <1>5, <1>7

LEMMA NextRefines == Inductive /\ [Next]_vars => Inductive' /\ LedgerStep
<1> SUFFICES ASSUME Inductive, [Next]_vars PROVE Inductive' /\ LedgerStep
  OBVIOUS
<1>1. Contiguous'
  BY NextKeeps DEF Inductive
<1> SUFFICES Coverage' /\ LedgerStep
  BY <1>1 DEF Inductive
<1>2. ASSUME NEW m \in Month, NEW plan \in PlanVersion, BeginUpload(m, plan)
      PROVE  Coverage' /\ LedgerStep
  <2>1. records = db.records /\ UNCHANGED <<records, db>> /\ upload'.phase # "idle"
    BY <1>2 DEF BeginUpload, Idle, Inductive, Coverage, UncommittedCover
  <2>2. Coverage'
    BY <2>1 DEF Inductive, Coverage, UncommittedCover
  <2> QED
    BY <2>1, <2>2, SlotsStay
<1>3. CASE RejectFile
  BY <1>3, FailRefines DEF RejectFile
<1>4. CASE RowStep
  BY <1>4, RowStepRefines
<1>5. ASSUME FinishRows \/ \E stage \in {"none", "draft", "sent"} : Bill(stage)
      PROVE  Coverage' /\ LedgerStep
  <2>1. /\ UNCHANGED <<records, db>> /\ upload'.phase # "idle"
        /\ upload'.month = upload.month
    BY <1>5, Types DEF Inductive, FinishRows, Bill, Upload
  <2> QED
    BY <2>1, GoesOn, SlotsStay
<1>6. CASE EndUpload
  <2>1. Commit /\ UNCHANGED records /\ upload'.phase = "idle" /\ upload.phase # "idle"
    BY <1>6 DEF EndUpload, Idle
  <2>2. OneMonthPerBatch(records')
    BY <2>1 DEF Inductive, Coverage
  <2> QED
    BY <2>1, <2>2, Commits, CommitCovers
<1>7. CASE Crash
  <2>1. Abort /\ UNCHANGED db /\ upload'.phase = "idle"
    BY <1>7 DEF Crash, Abort, Idle
  <2> QED
    BY <2>1, Aborts, SlotsStay
<1>8. ASSUME NEW b \in BatchId, RollbackBatch(b) PROVE Coverage' /\ LedgerStep
  BY <1>8, RollbackBatchRefines
<1>9. ASSUME NEW d \in Doc, NEW m \in Month, RollbackRecord(d, m)
      PROVE  Coverage' /\ LedgerStep
  BY <1>9, RollbackRecordRefines
<1>10. ASSUME NextMonth \/ UNCHANGED vars PROVE Coverage' /\ LedgerStep
  <2>1. UNCHANGED <<records, db, upload>>
    BY <1>10 DEF NextMonth, vars
  <2>2. Coverage'
    BY <2>1 DEF Inductive, Coverage, UncommittedCover
  <2> QED
    BY <2>1, <2>2, SlotsStay
<1> QED
  BY <1>2, <1>3, <1>4, <1>5, <1>6, <1>7, <1>8, <1>9, <1>10 DEF Next

LEMMA InitRefines == Init => Inductive /\ Ledger!Init
<1> SUFFICES ASSUME Init PROVE Inductive /\ Ledger!Init
  OBVIOUS
<1>1. Contiguous
  BY InitTyped, InitLedger DEF Contiguous
<1>2. /\ records = db.records
      /\ \A d \in Doc, m \in Month : records[d][m].batch = 0 /\ records[d][m].status = "absent"
  BY DEF Init, NoRecord
<1>3. Coverage
  BY <1>2 DEF Coverage, UncommittedCover, OneMonthPerBatch
<1>4. \A d \in Doc, m \in Month : SlotStatus(db.records[d][m].status) = "free"
  BY <1>2 DEF SlotStatus
<1>5. Ledger!Init
  BY <1>4 DEF Ledger!Init, Ledger!Month, Month
<1> QED
  BY <1>1, <1>3, <1>5 DEF Inductive

(***************************************************************************)
(* The uploads and rollbacks of capitated_batch_processor.py and           *)
(* capitated_batch_controller.py implement the ledger: every commit covers *)
(* free months after all that is covered, or reverts covered ones, at      *)
(* once, and nothing else changes what is covered.                         *)
(***************************************************************************)
THEOREM ImplementsLedger == Spec => LedgerSpec
<1>1. Inductive /\ [Next]_vars => Inductive' /\ [Ledger!Next]_Slots
  BY NextRefines DEF LedgerStep
<1> QED
  BY <1>1, InitRefines, PTL DEF Spec, LedgerSpec, Ledger!Spec, Slots
-----------------------------------------------------------------------------
(***************************************************************************)
(* What is kept about the batch log, Stripe's invoices and the contracts   *)
(* that others are told of.  Each part is stated of the tables of the      *)
(* session and of the committed ones, which an abort puts back; InFlight   *)
(* says what the batch of the running request will be when it is           *)
(* committed.                                                              *)
(***************************************************************************)
\* The contracts of which ExpiredContractIsOver speaks.
Expiry(con) ==
    \A c \in ContractId :
        con[c].status = "expired" => con[c].until < today \/ con[c].broken

\* Every contract has a monthly record to print.
Printed(con, rec) ==
    \A c \in ContractId :
        con[c].status # "absent" =>
            \E d \in Doc, m \in Month : rec[d][m].contract = c

PlansArePlain == \A plan \in PlanVersion : ~TiersOverlap(plan)

Loaded(rec, b)  == {k \in Doc \X Month : rec[k[1]][k[2]].batch = b}
InForceOf(rec, b) == {k \in Loaded(rec, b) : rec[k[1]][k[2]].status = "active"}
Adds(rows, count) == rows = count["applied"] + count["rejected"]
                            + count["duplicated"] + count["incongruence"]

\* What BatchLogAgrees says of one batch.
LogOK(rec, bat, b) ==
    bat[b].status \in {"processed", "processed_zero", "rolled_back"} =>
        /\ Adds(bat[b].rows, bat[b].count)
        /\ bat[b].count["applied"] = Cardinality(Loaded(rec, b))
        /\ (bat[b].count["applied"] > 0) <=> (bat[b].status # "processed_zero")
        /\ \A k \in Loaded(rec, b) : k[2] = bat[b].month
        /\ bat[b].status = "rolled_back" =>
             /\ InForceOf(rec, b) = {}
             /\ bat[b].reverted <= bat[b].count["applied"]

\* What is to come of the batch in flight.
InFlight ==
    /\ Adds(upload.rows, upload.count)
    /\ upload.count["applied"] = Cardinality(Loaded(records, upload.batch))
    /\ batches[upload.batch].month = upload.month
    /\ db.batches[upload.batch].status = "absent"
    /\ upload.phase = "rows" => batches[upload.batch].status = "draft"
    /\ upload.phase # "rows" =>
         /\ batches[upload.batch].count = upload.count
         /\ batches[upload.batch].status \in {"processed", "processed_zero"}
    /\ upload.phase \in {"rows", "billing"} =>
         invoices[upload.batch].stage = "none"
    /\ upload.phase = "billing" => upload.count["applied"] > 0
    /\ invoices[upload.batch].stage # "none" =>
         /\ invoices[upload.batch].applied = upload.count["applied"]
         /\ upload.count["applied"] > 0
    /\ upload.plan \in PlanVersion

LogInvariant ==
    /\ upload.phase = "idle" => upload.batch = 0
    /\ upload.phase # "idle" => InFlight
    /\ \A b \in BatchId :
         /\ LogOK(records, batches, b)
         /\ LogOK(db.records, db.batches, b)
         /\ b # upload.batch => db.batches[b] = batches[b]
         /\ b > lastBatch => /\ db.batches[b].status = "absent"
                             /\ invoices[b].stage = "none"
    /\ InvoicedBatchIsCommitted

ContractsInvariant ==
    /\ Expiry(contracts) /\ Expiry(db.contracts)
    /\ PlansArePlain => Printed(contracts, records)
                        /\ Printed(db.contracts, db.records)
Kept  == LogInvariant /\ ContractsInvariant
Whole == Contiguous /\ Kept

LEMMA WholeTypes ==
    ASSUME Whole
    PROVE  /\ today \in Month
           /\ contracts \in [ContractId -> ContractRow]
           /\ records \in [Doc -> [Month -> RecordRow]]
           /\ batches \in [BatchId -> BatchRow]
           /\ db.contracts \in [ContractId -> ContractRow]
           /\ db.records \in [Doc -> [Month -> RecordRow]]
           /\ db.batches \in [BatchId -> BatchRow]
           /\ lastBatch \in Nat
           /\ upload \in Upload
           /\ upload.count \in [Result -> Nat]
           /\ upload.rows \in Nat
           /\ invoices \in [BatchId -> Invoice]
           /\ upload.phase # "idle" => /\ upload.month \in Month
                                       /\ upload.batch = lastBatch
                                       /\ upload.batch \in BatchId
           /\ LedgerOK(contracts, records, lastBatch)
           /\ LedgerOK(db.contracts, db.records, lastBatch)
  BY BoundTypes DEF Whole, Contiguous, LedgerInvariant, Typed, TypeOK, RequestOK,
     Tables, Upload

\* The records of a batch can be counted.
LEMMA LoadedFinite ==
    ASSUME NEW rec, NEW b
    PROVE  IsFiniteSet(Loaded(rec, b)) /\ Cardinality(Loaded(rec, b)) \in Nat
<1>1. IsFiniteSet(Month)
  BY FS_Interval, BoundTypes DEF Month
<1>2. IsFiniteSet(Doc \X Month)
  BY <1>1, FS_Product, DocAssumption
<1>3. Loaded(rec, b) \subseteq Doc \X Month
  BY DEF Loaded
<1>4. IsFiniteSet(Loaded(rec, b))
  BY <1>2, <1>3, FS_Subset
<1> QED
  BY <1>4, FS_CardinalityType

\* Nothing was loaded by a batch that is still to come.
LEMMA NothingLoaded ==
    ASSUME NEW rec \in [Doc -> [Month -> RecordRow]], NEW con, NEW last \in Nat,
           LedgerOK(con, rec, last), NEW b \in Nat \ {0}, b > last
    PROVE  Loaded(rec, b) = {} /\ Cardinality(Loaded(rec, b)) = 0
<1>1. ASSUME NEW d \in Doc, NEW m \in Month
      PROVE  rec[d][m].batch # b
  <2>1. rec[d][m].batch <= last
    BY DEF LedgerOK, IdsInOrder, NoRecord
  <2> QED
    BY <2>1
<1>2. Loaded(rec, b) = {}
  BY <1>1 DEF Loaded
<1> QED
  BY <1>2, FS_EmptySet

\* A batch whose row and whose records stay what they were, but for records
\* that are reverted.
LEMMA SameLog ==
    ASSUME NEW rec, NEW new, NEW bat, NEW nbat, NEW b,
           LogOK(rec, bat, b), nbat[b] = bat[b],
           \A d \in Doc, m \in Month :
               /\ new[d][m].batch = b <=> rec[d][m].batch = b
               /\ new[d][m].batch = b /\ new[d][m].status = "active"
                  => rec[d][m].status = "active"
    PROVE  LogOK(new, nbat, b)
<1>1. Loaded(new, b) = Loaded(rec, b)
  BY DEF Loaded
<1>2. InForceOf(new, b) \subseteq InForceOf(rec, b)
  BY <1>1 DEF InForceOf, Loaded
<1> QED
  BY <1>1, <1>2 DEF LogOK

\* Of the invoices nothing changes, and every batch keeps its committed row: it
\* was invoiced before, and is not the one the request worked on.
LEMMA InvoicesStay ==
    ASSUME Whole, UNCHANGED invoices,
           \A b \in BatchId : b # upload.batch =>
               /\ db'.batches[b].status = db.batches[b].status
               /\ db'.batches[b].count = db.batches[b].count,
           \A b \in BatchId :
               b = upload.batch /\ invoices[b].stage # "none" =>
                   \/ b = upload'.batch
                   \/ Crashes /\ db'.batches[b].status = "absent"
                   \/ /\ db'.batches[b].status \in {"processed", "rolled_back"}
                      /\ db'.batches[b].count["applied"] = invoices[b].applied
    PROVE  InvoicedBatchIsCommitted'
<1>1. InvoicedBatchIsCommitted
  BY DEF Whole, Kept, LogInvariant
<1> SUFFICES ASSUME NEW b \in BatchId, invoices[b].stage # "none"
             PROVE  \/ b = upload'.batch
                    \/ Crashes /\ db'.batches[b].status = "absent"
                    \/ /\ db'.batches[b].status \in {"processed", "rolled_back"}
                       /\ db'.batches[b].count["applied"] = invoices[b].applied
  BY DEF InvoicedBatchIsCommitted
<1>2. CASE b = upload.batch
  BY <1>2
<1>3. CASE b # upload.batch
  BY <1>1, <1>3 DEF InvoicedBatchIsCommitted
<1> QED
  BY <1>2, <1>3

LEMMA BeginsKeeps ==
    ASSUME Whole, NEW m \in Month, NEW plan \in PlanVersion, BeginUpload(m, plan)
    PROVE  Kept'
<1> DEFINE b == lastBatch + 1
<1>1. /\ upload.phase = "idle" /\ upload.batch = 0
      /\ b \in BatchId /\ lastBatch' = b
      /\ batches' = [batches EXCEPT ![b] = Draft(m)]
      /\ UNCHANGED today /\ UNCHANGED contracts /\ UNCHANGED records
      /\ UNCHANGED db /\ UNCHANGED invoices
  BY WholeTypes, BoundTypes DEF BeginUpload, Whole, Kept, LogInvariant, BatchId
<1>2. upload' = [phase |-> "rows", batch |-> b, month |-> m, plan |-> plan,
                 rows |-> 0, count |-> NoCount]
  BY DEF BeginUpload, Idle
<1>3. ContractsInvariant'
  BY <1>1 DEF Whole, Kept, ContractsInvariant, Expiry, Printed
<1>4. \A k \in BatchId : /\ db.batches[k] = batches[k]
                         /\ LogOK(records, batches, k)
                         /\ LogOK(db.records, db.batches, k)
                         /\ k > lastBatch => /\ db.batches[k].status = "absent"
                                             /\ invoices[k].stage = "none"
  BY <1>1 DEF Whole, Kept, LogInvariant, BatchId
<1>5. Cardinality(Loaded(records, b)) = 0
  <2>1. b \in Nat \ {0} /\ b > lastBatch
    BY WholeTypes
  <2> QED
    BY <2>1, WholeTypes, NothingLoaded
<1>6. InFlight'
  <2>1. Adds(0, NoCount) /\ NoCount["applied"] = 0
    BY DEF Adds, NoCount, Result
  <2>2. batches'[b].month = m /\ batches'[b].status = "draft"
    BY <1>1, WholeTypes DEF Draft
  <2>3. db.batches[b].status = "absent" /\ invoices[b].stage = "none"
    BY <1>1, <1>4, WholeTypes DEF BatchId
  <2> QED
    BY <1>1, <1>2, <1>5, <2>1, <2>2, <2>3 DEF InFlight
<1>7. ASSUME NEW k \in BatchId
      PROVE  /\ LogOK(records', batches', k)
             /\ LogOK(db'.records, db'.batches, k)
             /\ k # upload'.batch => db'.batches[k] = batches'[k]
             /\ k > lastBatch' => /\ db'.batches[k].status = "absent"
                                  /\ invoices'[k].stage = "none"
  <2>1. CASE k = b
    BY <1>1, <1>2, <1>4, <2>1, WholeTypes DEF LogOK, Draft, BatchId
  <2>2. CASE k # b
    <3>1. batches'[k] = batches[k]
      BY <1>1, <2>2, WholeTypes
    <3>2. LogOK(records', batches', k)
      BY <1>1, <1>4, <3>1 DEF LogOK
    <3> QED
      BY <1>1, <1>4, <3>1, <3>2, WholeTypes DEF BatchId
  <2> QED
    BY <2>1, <2>2
<1>8. InvoicedBatchIsCommitted'
  <2>1. \A k \in BatchId : k # upload.batch
    BY <1>1 DEF BatchId
  <2> QED
    BY <1>1, <2>1, InvoicesStay
<1>9. LogInvariant'
  <2>1. upload'.phase = "rows"
    BY <1>2
  <2>2. \A k \in BatchId :
             /\ LogOK(records', batches', k)
             /\ LogOK(db'.records, db'.batches, k)
             /\ k # upload'.batch => db'.batches[k] = batches'[k]
             /\ k > lastBatch' => /\ db'.batches[k].status = "absent"
                                  /\ invoices'[k].stage = "none"
    BY <1>7
  <2> QED
    BY <1>6, <1>8, <2>1, <2>2 DEF LogInvariant
<1> QED
  BY <1>3, <1>9 DEF Kept

\* The request ends and its tables are the committed ones again.
LEMMA AbortsKeep ==
    ASSUME Whole, Abort, upload' = Idle, UNCHANGED today, UNCHANGED lastBatch,
           UNCHANGED invoices, upload.phase = "rows" \/ Crashes,
           upload.phase # "idle"
    PROVE  Kept'
<1>1. /\ db' = db /\ contracts' = db.contracts /\ records' = db.records
      /\ batches' = db.batches /\ upload'.phase = "idle" /\ upload'.batch = 0
  BY DEF Abort, Idle
<1>2. ContractsInvariant'
  BY <1>1 DEF Whole, Kept, ContractsInvariant, Expiry, Printed
<1>3. InFlight
  BY DEF Whole, Kept, LogInvariant
<1>4. InvoicedBatchIsCommitted'
  BY <1>1, <1>3, InvoicesStay DEF InFlight
<1>5. \A k \in BatchId :
             /\ LogOK(records', batches', k)
             /\ LogOK(db'.records, db'.batches, k)
             /\ db'.batches[k] = batches'[k]
             /\ k > lastBatch' => /\ db'.batches[k].status = "absent"
                                  /\ invoices'[k].stage = "none"
  BY <1>1 DEF Whole, Kept, LogInvariant
<1>6. LogInvariant'
  BY <1>1, <1>4, <1>5 DEF LogInvariant
<1> QED
  BY <1>2, <1>6 DEF Kept

\* A commit that leaves every batch but b as it is, and those to come absent.
LEMMA CommitsKeep ==
    ASSUME Whole, Commit, upload' = Idle, UNCHANGED lastBatch, UNCHANGED invoices,
           Expiry(contracts)',
           PlansArePlain => Printed(contracts', records'),
           \A b \in BatchId :
               /\ LogOK(records', batches', b)
               /\ b # upload.batch =>
                    /\ batches'[b].status = batches[b].status \/
                       (batches[b].status = "processed" /\
                        batches'[b].status = "rolled_back")
                    /\ batches'[b].count = batches[b].count,
           invoices[upload.batch].stage # "none" /\ upload.phase # "idle" =>
               /\ batches'[upload.batch].status = "processed"
               /\ batches'[upload.batch].count["applied"]
                    = invoices[upload.batch].applied
    PROVE  Kept'
<1>1. /\ db'.contracts = contracts' /\ db'.records = records'
      /\ db'.batches = batches' /\ upload'.phase = "idle" /\ upload'.batch = 0
  BY DEF Commit, Idle
<1>2. ContractsInvariant'
  BY <1>1 DEF ContractsInvariant, Expiry, Printed
<1>3. InvoicedBatchIsCommitted'
  <2> SUFFICES ASSUME NEW b \in BatchId, invoices[b].stage # "none"
               PROVE  \/ Crashes /\ batches'[b].status = "absent"
                      \/ /\ batches'[b].status \in {"processed", "rolled_back"}
                         /\ batches'[b].count["applied"] = invoices[b].applied
    BY <1>1 DEF InvoicedBatchIsCommitted
  <2>1. CASE b = upload.batch
    <3>1. upload.phase # "idle"
      BY <2>1 DEF Whole, Kept, LogInvariant, BatchId
    <3> QED
      BY <2>1, <3>1
  <2>2. CASE b # upload.batch
    <3>1. /\ db.batches[b] = batches[b]
          /\ \/ Crashes /\ db.batches[b].status = "absent"
             \/ /\ db.batches[b].status \in {"processed", "rolled_back"}
                /\ db.batches[b].count["applied"] = invoices[b].applied
      BY <2>2 DEF Whole, Kept, LogInvariant, InvoicedBatchIsCommitted
    <3> QED
      BY <2>2, <3>1
  <2> QED
    BY <2>1, <2>2
<1>4. ASSUME NEW b \in BatchId
      PROVE  /\ LogOK(records', batches', b)
             /\ LogOK(db'.records, db'.batches, b)
             /\ db'.batches[b] = batches'[b]
             /\ b > lastBatch' => /\ db'.batches[b].status = "absent"
                                  /\ invoices'[b].stage = "none"
  <2>1. b > lastBatch => b # upload.batch
    BY WholeTypes DEF Whole, Kept, LogInvariant, BatchId
  <2>2. b > lastBatch => /\ db.batches[b].status = "absent"
                         /\ invoices[b].stage = "none"
                         /\ db.batches[b] = batches[b]
    BY <2>1 DEF Whole, Kept, LogInvariant
  <2>3. LogOK(records', batches', b)
    OBVIOUS
  <2> QED
    BY <1>1, <2>1, <2>2, <2>3
<1>5. LogInvariant'
  BY <1>1, <1>3, <1>4 DEF LogInvariant
<1> QED
  BY <1>2, <1>5 DEF Kept

LEMMA FailKeepsLog ==
    ASSUME Whole, upload.phase = "rows", Fail
    PROVE  Kept'
<1>1. /\ batches' = [batches EXCEPT ![upload.batch].status = "failed"]
      /\ Commit /\ upload' = Idle
      /\ UNCHANGED today /\ UNCHANGED contracts /\ UNCHANGED records
      /\ UNCHANGED lastBatch /\ UNCHANGED invoices
  BY DEF Fail
<1>2. invoices[upload.batch].stage = "none" /\ upload.batch \in BatchId
  BY WholeTypes DEF Whole, Kept, LogInvariant, InFlight
<1>3. ASSUME NEW b \in BatchId
      PROVE  /\ LogOK(records', batches', b)
             /\ b # upload.batch => batches'[b] = batches[b]
  <2>1. LogOK(records, batches, b)
    BY DEF Whole, Kept, LogInvariant
  <2>2. CASE b = upload.batch
    <3>1. batches'[b].status = "failed"
      BY <1>1, <1>2, <2>2, WholeTypes DEF BatchRow
    <3> QED
      BY <2>2, <3>1 DEF LogOK
  <2>3. CASE b # upload.batch
    <3>1. batches'[b] = batches[b]
      BY <1>1, <2>3, WholeTypes
    <3> QED
      BY <1>1, <2>1, <3>1, <2>3 DEF LogOK
  <2> QED
    BY <2>2, <2>3
<1>4. /\ Expiry(contracts)'
      /\ PlansArePlain => Printed(contracts', records')
  BY <1>1 DEF Whole, Kept, ContractsInvariant, Expiry
<1> QED
  BY <1>1, <1>2, <1>3, <1>4, CommitsKeep

\* A row that is counted, but not as applied.
LEMMA RefusedKeeps ==
    ASSUME Whole, upload.phase = "rows", NEW r \in Result \ {"applied"}, Tally(r),
           UNCHANGED records, UNCHANGED batches, UNCHANGED lastBatch,
           UNCHANGED db, UNCHANGED invoices
    PROVE  LogInvariant'
<1>1. InFlight
  BY DEF Whole, Kept, LogInvariant
<1>2. /\ upload'.phase = "rows" /\ upload'.batch = upload.batch
      /\ upload'.month = upload.month /\ upload'.plan = upload.plan
      /\ upload'.rows = upload.rows + 1
      /\ upload'.count = [upload.count EXCEPT ![r] = @ + 1]
  BY WholeTypes DEF Tally, Upload
<1>3. /\ Adds(upload'.rows, upload'.count)
      /\ upload'.count["applied"] = upload.count["applied"]
  <2>1. \A s \in Result : upload.count[s] \in Nat
    BY WholeTypes
  <2> QED
    BY <1>1, <1>2, <2>1, WholeTypes DEF InFlight, Adds, Result
<1>4. InFlight'
  BY <1>1, <1>2, <1>3 DEF InFlight
<1>5. InvoicedBatchIsCommitted'
  BY <1>2, InvoicesStay
<1>6. \A b \in BatchId :
        /\ LogOK(records, batches, b)
        /\ LogOK(db.records, db.batches, b)
        /\ b # upload.batch => db.batches[b] = batches[b]
        /\ b > lastBatch => /\ db.batches[b].status = "absent"
                            /\ invoices[b].stage = "none"
  BY DEF Whole, Kept, LogInvariant
<1> QED
  BY <1>2, <1>4, <1>5, <1>6 DEF LogInvariant

\* What a covered row leaves: the contract c is in force, the others are in use
\* as before, and a contract that was closed was closed by a break.
Opened(c) ==
    \A k \in ContractId :
        /\ k # c => contracts'[k].status = "absent" <=> contracts[k].status = "absent"
        /\ \/ contracts'[k] = contracts[k]
           \/ contracts'[k].status = "active"
           \/ contracts'[k].broken

LEMMA AppliedKeepsLog ==
    ASSUME Whole, upload.phase = "rows", NEW d \in Doc, NEW c,
           Tally("applied"), records[d][upload.month] = NoRecord,
           records' = [records EXCEPT ![d][upload.month] =
                         [status |-> "active", contract |-> c,
                          batch |-> upload.batch]],
           UNCHANGED batches, UNCHANGED lastBatch,
           UNCHANGED db, UNCHANGED invoices
    PROVE  LogInvariant'
<1> DEFINE k == <<d, upload.month>>
<1>1. InFlight
  BY DEF Whole, Kept, LogInvariant
<1>2. /\ upload'.phase = "rows" /\ upload'.batch = upload.batch
      /\ upload'.month = upload.month /\ upload'.plan = upload.plan
      /\ upload'.rows = upload.rows + 1
      /\ upload'.count = [upload.count EXCEPT !["applied"] = @ + 1]
  BY WholeTypes DEF Tally, Upload
<1>3. /\ Adds(upload'.rows, upload'.count)
      /\ upload'.count["applied"] = upload.count["applied"] + 1
  <2>1. \A s \in Result : upload.count[s] \in Nat
    BY WholeTypes
  <2> QED
    BY <1>1, <1>2, <2>1, WholeTypes DEF InFlight, Adds, Result
<1>4. \A e \in Doc, m \in Month :
          IF e = d /\ m = upload.month
          THEN /\ records'[e][m].batch = upload.batch
               /\ records[e][m].batch = 0
          ELSE records'[e][m] = records[e][m]
  BY WholeTypes DEF NoRecord
<1>5. Cardinality(Loaded(records', upload.batch))
        = Cardinality(Loaded(records, upload.batch)) + 1
  <2>1. k \in Doc \X Month /\ k \notin Loaded(records, upload.batch)
    BY <1>4, WholeTypes DEF Loaded, BatchId
  <2>2. Loaded(records', upload.batch) = Loaded(records, upload.batch) \cup {k}
    BY <1>4, <2>1 DEF Loaded
  <2> QED
    BY <2>1, <2>2, LoadedFinite, FS_AddElement
<1>6. InFlight'
  BY <1>1, <1>2, <1>3, <1>5 DEF InFlight
<1>7. InvoicedBatchIsCommitted'
  BY <1>2, InvoicesStay
<1>8. \A b \in BatchId :
        /\ LogOK(db.records, db.batches, b)
        /\ b # upload.batch => db.batches[b] = batches[b]
        /\ b > lastBatch => /\ db.batches[b].status = "absent"
                            /\ invoices[b].stage = "none"
  BY DEF Whole, Kept, LogInvariant
<1>9. ASSUME NEW b \in BatchId
      PROVE  LogOK(records', batches, b)
  <2>1. CASE b = upload.batch
    <3>1. batches[b].status = "draft"
      BY <1>1, <2>1 DEF InFlight
    <3> QED
      BY <3>1 DEF LogOK
  <2>2. CASE b # upload.batch
    <3>1. \A e \in Doc, m \in Month :
              /\ records'[e][m].batch = b <=> records[e][m].batch = b
              /\ records'[e][m].batch = b /\ records'[e][m].status = "active"
                 => records[e][m].status = "active"
      BY <1>4, <2>2 DEF BatchId
    <3>2. LogOK(records, batches, b)
      BY DEF Whole, Kept, LogInvariant
    <3>3. LogOK(records', batches, b)
      <4> HIDE DEF k
      <4> DEFINE new == records'
      <4>1. \A e \in Doc, m \in Month :
              /\ new[e][m].batch = b <=> records[e][m].batch = b
              /\ new[e][m].batch = b /\ new[e][m].status = "active"
                 => records[e][m].status = "active"
        BY <3>1
      <4> HIDE DEF new
      <4>2. LogOK(new, batches, b)
        BY <3>2, <4>1, SameLog
      <4> QED
        BY <4>2 DEF new
    <3> QED
      BY <3>3
  <2> QED
    BY <2>1, <2>2
<1> QED
  BY <1>2, <1>6, <1>7, <1>8, <1>9 DEF LogInvariant

LEMMA CoveredKeeps ==
    ASSUME Whole, NEW d \in Doc, NEW i \in Identity, NEW age \in Age,
           NEW c \in ContractId,
           CoveredRow(d, i, age), RecordMonth(d, c, age), Opened(c)
    PROVE  Kept'
<1>1. /\ upload.phase = "rows" /\ UNCHANGED today /\ UNCHANGED batches
      /\ UNCHANGED lastBatch /\ UNCHANGED db /\ UNCHANGED invoices
  BY DEF CoveredRow, EnrolledRow, ReadsRow
<1>2. upload.month \in Month /\ upload.plan \in PlanVersion
  BY <1>1, WholeTypes DEF Whole, Kept, LogInvariant, InFlight
<1>3. Expiry(contracts)' /\ Expiry(db.contracts)'
  <2>1. Expiry(contracts) /\ Expiry(db.contracts)
    BY DEF Whole, Kept, ContractsInvariant
  <2>2. Expiry(contracts)'
    BY <1>1, <2>1 DEF Expiry, Opened
  <2>3. Expiry(db.contracts)'
    BY <1>1, <2>1 DEF Expiry
  <2> QED
    BY <2>2, <2>3
<1>4. CASE Clash(age)
  <2>1. Tally("incongruence") /\ UNCHANGED records
    BY <1>4 DEF RecordMonth
  <2>2. LogInvariant'
    BY <1>1, <2>1, RefusedKeeps DEF Result
  <2>3. ~PlansArePlain
    BY <1>2, <1>4 DEF PlansArePlain, TiersOverlap, Clash
  <2> QED
    BY <1>3, <2>2, <2>3 DEF Kept, ContractsInvariant, Expiry
<1>5. CASE ~Clash(age)
  <2>1. /\ Tally("applied")
        /\ records' = [records EXCEPT ![d][upload.month] =
                         [status |-> "active", contract |-> c,
                          batch |-> upload.batch]]
    BY <1>5 DEF RecordMonth
  <2>2. records[d][upload.month] = NoRecord
    <3>1. records[d][upload.month].status \notin {"active", "rolled_back"}
      BY <1>5 DEF CoveredRow, Active, RecordKeyTaken
    <3>2. records[d][upload.month] \in RecordRow
      BY <1>2, WholeTypes
    <3>3. records[d][upload.month].status = "absent"
      BY <3>1, <3>2 DEF RecordRow
    <3> QED
      BY <1>2, <3>3, WholeTypes DEF LedgerOK, IdsInOrder
  <2>3. LogInvariant'
    BY <1>1, <2>1, <2>2, AppliedKeepsLog
  <2>4. ASSUME PlansArePlain
        PROVE  Printed(contracts', records')
    <3> SUFFICES ASSUME NEW k \in ContractId, contracts'[k].status # "absent"
                 PROVE  \E e \in Doc, m \in Month : records'[e][m].contract = k
      BY DEF Printed
    <3>1. CASE k = c
      <4>1. records'[d][upload.month].contract = k
        BY <1>2, <2>1, <3>1, WholeTypes
      <4> QED
        BY <1>2, <4>1
    <3>2. CASE k # c
      <4>1. PICK e \in Doc, m \in Month : records[e][m].contract = k
        BY <2>4, <3>2 DEF Whole, Kept, ContractsInvariant, Printed, Opened
      <4>2. ~(e = d /\ m = upload.month)
        BY <2>2, <4>1 DEF NoRecord, ContractId
      <4>3. records'[e][m] = records[e][m]
        BY <1>2, <2>1, <4>2, WholeTypes
      <4> QED
        BY <4>1, <4>3
    <3> QED
      BY <3>1, <3>2
  <2>5. PlansArePlain => Printed(db.contracts, db.records)
    BY DEF Whole, Kept, ContractsInvariant
  <2>6. ContractsInvariant'
    BY <1>1, <1>3, <2>4, <2>5 DEF ContractsInvariant, Expiry, Printed
  <2> QED
    BY <2>3, <2>6 DEF Kept
<1> QED
  BY <1>4, <1>5

\* A row that changes neither contracts nor records.
LEMMA RejectedKeeps ==
    ASSUME Whole, upload.phase = "rows", NEW r \in Result \ {"applied"}, Tally(r),
           UNCHANGED today, UNCHANGED contracts,
           UNCHANGED records, UNCHANGED batches, UNCHANGED lastBatch,
           UNCHANGED db, UNCHANGED invoices
    PROVE  Kept'
<1>1. ContractsInvariant'
  BY DEF Whole, Kept, ContractsInvariant, Expiry
<1> QED
  BY <1>1, RefusedKeeps DEF Kept

LEMMA RowStepKeepsLog == ASSUME Whole, RowStep PROVE Kept'
<1>1. CASE InvalidRow
  BY <1>1, RejectedKeeps DEF InvalidRow, ReadsRow, Result
<1>2. CASE GarbledRow
  BY <1>2, FailKeepsLog DEF GarbledRow, ReadsRow
<1>3. ASSUME NEW d \in Doc, NEW i \in Identity,
             \/ IncongruentRow(d, i) \/ DuplicatedRow(d, i) \/ RetroactiveRow(d, i)
             \/ \E age \in Age : TooOldRow(d, i, age)
      PROVE  Kept'
  BY <1>3, RejectedKeeps
     DEF IncongruentRow, DuplicatedRow, RetroactiveRow, TooOldRow, EnrolledRow,
         ReadsRow, Result
<1>4. ASSUME NEW d \in Doc, NEW i \in Identity, NEW age \in Age,
             KeyConflict(d, i, age)
      PROVE  Kept'
  BY <1>4, AbortsKeep DEF KeyConflict, ReadsRow
<1>5. ASSUME NEW d \in Doc, NEW i \in Identity, NEW age \in Age,
             NEW c \in ContractId, FirstRow(d, i, age, c)
      PROVE  Kept'
  <2>1. Opened(c)
    BY <1>5, WholeTypes DEF FirstRow, Opened, Contract
  <2> QED
    BY <1>5, <2>1, CoveredKeeps DEF FirstRow
<1>6. ASSUME NEW d \in Doc, NEW i \in Identity, NEW age \in Age,
             NEW c \in ContractId, RenewRow(d, i, age, c)
      PROVE  Kept'
  <2>1. ASSUME NEW k \in ContractId
        PROVE  /\ k # c => contracts'[k] = contracts[k]
               /\ contracts'[c].status = "active"
    BY <1>6, WholeTypes DEF RenewRow, ContractRow
  <2>2. Opened(c)
    BY <2>1 DEF Opened
  <2> QED
    BY <1>6, <2>2, CoveredKeeps DEF RenewRow
<1>7. ASSUME NEW d \in Doc, NEW i \in Identity, NEW age \in Age,
             NEW c \in ContractId, NEW old \in ContractId,
             BreakRow(d, i, age, c, old)
      PROVE  Kept'
  <2>1. old # c
    <3>1. PICK l \in Month : IsLast(d, l) /\ old = records[d][l].contract
      BY <1>7 DEF BreakRow, Breaks
    <3>2. old < c
      BY <1>7, <3>1, NextIsFresh
         DEF BreakRow, CoveredRow, EnrolledRow, ReadsRow, IsLast, Active, Whole
    <3> QED
      BY <3>2 DEF ContractId
  <2>2. contracts'[c].status = "active"
    BY <1>7, <2>1, WholeTypes DEF BreakRow, Contract
  <2>3. \A k \in ContractId : k # c /\ k # old => contracts'[k] = contracts[k]
    BY <1>7, WholeTypes DEF BreakRow
  <2>4. contracts'[old] = IF contracts[old].status = "active"
                          THEN [contracts[old] EXCEPT !.status = "expired",
                                                      !.broken = TRUE]
                          ELSE contracts[old]
    BY <1>7, <2>1, WholeTypes DEF BreakRow
  <2>5. \/ contracts'[old] = contracts[old]
        \/ /\ contracts[old].status = "active"
           /\ contracts'[old].status = "expired"
           /\ contracts'[old].broken
    <3>1. ASSUME NEW row \in ContractRow
          PROVE  LET new == [row EXCEPT !.status = "expired", !.broken = TRUE]
                 IN  new.status = "expired" /\ new.broken
      BY DEF ContractRow
    <3>2. contracts[old] \in ContractRow
      BY WholeTypes
    <3> QED
      BY <2>4, <3>1, <3>2
  <2>6. Opened(c)
    BY <2>2, <2>3, <2>5 DEF Opened
  <2> QED
    BY <1>7, <2>6, CoveredKeeps DEF BreakRow
<1> QED
  BY <1>1, <1>2, <1>3, <1>4, <1>5, <1>6, <1>7 DEF RowStep

LEMMA FinishRowsKeeps == ASSUME Whole, FinishRows PROVE Kept'
<1> DEFINE b == upload.batch
<1> DEFINE status == IF upload.count["applied"] > 0 THEN "processed"
                                                   ELSE "processed_zero"
<1>1. /\ upload.phase = "rows" /\ b \in BatchId /\ InFlight
      /\ UNCHANGED today /\ UNCHANGED contracts /\ UNCHANGED records
      /\ UNCHANGED lastBatch /\ UNCHANGED db /\ UNCHANGED invoices
  BY WholeTypes DEF FinishRows, Whole, Kept, LogInvariant
<1>2. /\ upload'.phase = IF upload.count["applied"] > 0 THEN "billing" ELSE "commit"
      /\ upload'.batch = b /\ upload'.month = upload.month
      /\ upload'.plan = upload.plan /\ upload'.rows = upload.rows
      /\ upload'.count = upload.count
  BY WholeTypes DEF FinishRows, Upload
<1>3. /\ batches'[b].status = status
      /\ batches'[b].rows = upload.rows
      /\ batches'[b].count = upload.count
      /\ batches'[b].month = batches[b].month
      /\ \A k \in BatchId : k # b => batches'[k] = batches[k]
  <2>1. batches' = [batches EXCEPT ![b] =
                      [batches[b] EXCEPT !.status = status, !.rows = upload.rows,
                                         !.count = upload.count]]
    BY DEF FinishRows
  <2>2. batches[b] \in BatchRow
    BY <1>1, WholeTypes
  <2> HIDE DEF status, b
  <2> QED
    BY <1>1, <2>1, <2>2, WholeTypes DEF BatchRow
<1>4. ContractsInvariant'
  BY <1>1 DEF Whole, Kept, ContractsInvariant, Expiry
<1>5. /\ Adds(upload.rows, upload.count)
      /\ upload.count["applied"] = Cardinality(Loaded(records, b))
      /\ batches[b].month = upload.month
      /\ db.batches[b].status = "absent"
      /\ invoices[b].stage = "none"
      /\ upload.plan \in PlanVersion
      /\ upload.count["applied"] \in Nat
  BY <1>1, WholeTypes DEF InFlight, Result
<1>6. InFlight'
  BY <1>1, <1>2, <1>3, <1>5 DEF InFlight
<1>7. ASSUME NEW k \in BatchId
      PROVE  /\ LogOK(records, batches', k)
             /\ LogOK(db.records, db.batches, k)
             /\ k # b => db.batches[k] = batches'[k]
             /\ k > lastBatch => /\ db.batches[k].status = "absent"
                                 /\ invoices[k].stage = "none"
  <2>1. /\ LogOK(records, batches, k)
        /\ LogOK(db.records, db.batches, k)
        /\ k # b => db.batches[k] = batches[k]
        /\ k > lastBatch => /\ db.batches[k].status = "absent"
                            /\ invoices[k].stage = "none"
    BY DEF Whole, Kept, LogInvariant
  <2>2. CASE k # b
    <3>1. LogOK(records, batches', k)
      BY <1>3, <2>1, <2>2 DEF LogOK
    <3> QED
      BY <1>3, <2>1, <2>2, <3>1
  <2>3. CASE k = b
    <3>1. \A s \in Loaded(records, b) : s[2] = upload.month
      BY <1>1 DEF Loaded, Whole, Contiguous, LedgerInvariant
    <3>2. LogOK(records, batches', b)
      BY <1>3, <1>5, <3>1 DEF LogOK
    <3> QED
      BY <2>1, <2>3, <3>2
  <2> QED
    BY <2>2, <2>3
<1>8. InvoicedBatchIsCommitted'
  BY <1>1, <1>2, InvoicesStay
<1>9. LogInvariant'
  BY <1>1, <1>2, <1>6, <1>7, <1>8 DEF LogInvariant
<1> QED
  BY <1>4, <1>9 DEF Kept

LEMMA BillKeeps ==
    ASSUME Whole, NEW stage \in {"none", "draft", "sent"}, Bill(stage)
    PROVE  Kept'
<1> DEFINE b == upload.batch
<1>1. /\ upload.phase = "billing" /\ b \in BatchId /\ InFlight
      /\ UNCHANGED today /\ UNCHANGED contracts /\ UNCHANGED records
      /\ UNCHANGED lastBatch /\ UNCHANGED db /\ UNCHANGED batches
  BY WholeTypes DEF Bill, Whole, Kept, LogInvariant
<1>2. /\ upload'.phase = "commit"
      /\ upload'.batch = b /\ upload'.month = upload.month
      /\ upload'.plan = upload.plan /\ upload'.rows = upload.rows
      /\ upload'.count = upload.count
  BY WholeTypes DEF Bill, Upload
<1>3. /\ invoices'[b].stage # "none" =>
           invoices'[b].applied = upload.count["applied"]
      /\ \A k \in BatchId : k # b => invoices'[k] = invoices[k]
  BY <1>1, WholeTypes DEF Bill, NoInvoice
<1>4. ContractsInvariant'
  BY <1>1 DEF Whole, Kept, ContractsInvariant, Expiry
<1>5. InFlight'
  BY <1>1, <1>2, <1>3 DEF InFlight
<1>6. InvoicedBatchIsCommitted'
  <2>1. InvoicedBatchIsCommitted
    BY DEF Whole, Kept, LogInvariant
  <2> QED
    BY <1>1, <1>2, <1>3, <2>1 DEF InvoicedBatchIsCommitted
<1>7. ASSUME NEW k \in BatchId
      PROVE  /\ LogOK(records, batches, k)
             /\ LogOK(db.records, db.batches, k)
             /\ k # b => db.batches[k] = batches[k]
             /\ k > lastBatch => /\ db.batches[k].status = "absent"
                                 /\ invoices'[k].stage = "none"
  <2>1. /\ LogOK(records, batches, k)
        /\ LogOK(db.records, db.batches, k)
        /\ k # b => db.batches[k] = batches[k]
        /\ k > lastBatch => /\ db.batches[k].status = "absent"
                            /\ invoices[k].stage = "none"
    BY DEF Whole, Kept, LogInvariant
  <2>2. k > lastBatch => k # b
    BY <1>1, WholeTypes DEF BatchId
  <2> QED
    BY <1>3, <2>1, <2>2
<1>8. UNCHANGED lastBatch
  BY DEF Bill
<1>9. LogInvariant'
  BY <1>1, <1>2, <1>5, <1>6, <1>7, <1>8 DEF LogInvariant
<1> QED
  BY <1>4, <1>9 DEF Kept

LEMMA EndUploadKeeps == ASSUME Whole, EndUpload PROVE Kept'
<1>1. /\ upload.phase = "commit" /\ Commit /\ upload' = Idle
      /\ contracts' = Refresh(contracts)
      /\ UNCHANGED today /\ UNCHANGED records /\ UNCHANGED batches
      /\ UNCHANGED lastBatch /\ UNCHANGED invoices
  BY DEF EndUpload
<1>2. ASSUME NEW c \in ContractId
      PROVE  /\ contracts'[c].status = "expired" => contracts'[c].until < today
             /\ contracts'[c].status = "absent" <=> contracts[c].status = "absent"
  <2>1. contracts[c] \in ContractRow /\ today \in Nat
    BY WholeTypes DEF Month
  <2>2. CASE contracts[c].status \in {"active", "expired"}
    <3> DEFINE new == IF contracts[c].until >= today THEN "active" ELSE "expired"
    <3>1. contracts'[c] = [contracts[c] EXCEPT !.status = new]
      BY <1>1, <2>2 DEF Refresh
    <3>2. contracts'[c].status = new /\ contracts'[c].until = contracts[c].until
      <4> HIDE DEF new
      <4> QED
        BY <2>1, <3>1 DEF ContractRow
    <3> QED
      BY <2>1, <2>2, <3>2 DEF ContractRow
  <2>3. CASE contracts[c].status \notin {"active", "expired"}
    BY <1>1, <2>3 DEF Refresh
  <2> QED
    BY <2>2, <2>3
<1>3. Expiry(contracts)'
  BY <1>1, <1>2 DEF Expiry
<1>4. PlansArePlain => Printed(contracts', records')
  BY <1>1, <1>2 DEF Whole, Kept, ContractsInvariant, Printed
<1>5. \A b \in BatchId : LogOK(records', batches', b)
  BY <1>1 DEF Whole, Kept, LogInvariant
<1>6. InFlight /\ upload.batch \in BatchId
  BY <1>1, WholeTypes DEF Whole, Kept, LogInvariant
<1>7. invoices[upload.batch].stage # "none" =>
        /\ batches[upload.batch].status = "processed"
        /\ batches[upload.batch].count["applied"] = invoices[upload.batch].applied
  <2>1. LogOK(records, batches, upload.batch)
    BY <1>6 DEF Whole, Kept, LogInvariant
  <2> QED
    BY <1>1, <1>6, <2>1 DEF InFlight, LogOK
<1> QED
  BY <1>1, <1>3, <1>4, <1>5, <1>7, CommitsKeep

\* A rollback: the contracts, and the records each of them has, stay.
LEMMA RollbackKeeps ==
    ASSUME Whole, upload.phase = "idle", Commit, UNCHANGED upload, UNCHANGED today,
           UNCHANGED contracts, UNCHANGED lastBatch, UNCHANGED invoices,
           Reverts(records, records'),
           \A b \in BatchId : /\ batches'[b].count = batches[b].count
                              /\ \/ batches'[b].status = batches[b].status
                                 \/ /\ batches[b].status = "processed"
                                    /\ batches'[b].status = "rolled_back"
                              /\ LogOK(records', batches', b)
    PROVE  Kept'
<1>1. upload' = upload /\ upload.batch = 0
  BY DEF Whole, Kept, LogInvariant
<1>2. db'.contracts = contracts' /\ db'.records = records' /\ db'.batches = batches'
  BY DEF Commit
<1>3. Expiry(contracts)'
  BY DEF Whole, Kept, ContractsInvariant, Expiry
<1>4. PlansArePlain => Printed(contracts', records')
  BY DEF Whole, Kept, ContractsInvariant, Printed, Reverts
<1>5. ContractsInvariant'
  BY <1>2, <1>3, <1>4 DEF ContractsInvariant, Expiry
<1>6. ASSUME NEW b \in BatchId
      PROVE  /\ db.batches[b] = batches[b]
             /\ b > lastBatch => /\ db.batches[b].status = "absent"
                                 /\ invoices[b].stage = "none"
  BY <1>1 DEF Whole, Kept, LogInvariant, BatchId
<1>7. InvoicedBatchIsCommitted'
  <2>1. InvoicedBatchIsCommitted /\ \A b \in BatchId : b # 0
    BY DEF Whole, Kept, LogInvariant, BatchId
  <2> QED
    BY <1>1, <1>2, <1>6, <2>1 DEF InvoicedBatchIsCommitted
<1>8. LogInvariant'
  BY <1>1, <1>2, <1>6, <1>7 DEF LogInvariant
<1> QED
  BY <1>5, <1>8 DEF Kept

LEMMA RollbackBatchKeeps ==
    ASSUME Whole, NEW b \in BatchId, RollbackBatch(b)
    PROVE  Kept'
<1>1. /\ upload.phase = "idle" /\ batches[b].status = "processed" /\ Commit
      /\ UNCHANGED upload /\ UNCHANGED today /\ UNCHANGED contracts
      /\ UNCHANGED lastBatch /\ UNCHANGED invoices
  BY DEF RollbackBatch
<1>2. ASSUME NEW d \in Doc, NEW m \in Month
      PROVE  IF records[d][m].batch = b /\ records[d][m].status = "active"
             THEN /\ records'[d][m].status = "rolled_back"
                  /\ records'[d][m].contract = records[d][m].contract
                  /\ records'[d][m].batch = records[d][m].batch
             ELSE records'[d][m] = records[d][m]
  <2>1. records[d][m] \in RecordRow
    BY WholeTypes
  <2>2. records'[d][m] = IF <<d, m>> \in ActiveIn(b)
                         THEN [records[d][m] EXCEPT !.status = "rolled_back"]
                         ELSE records[d][m]
    BY DEF RollbackBatch
  <2>3. <<d, m>> \in ActiveIn(b)
          <=> records[d][m].batch = b /\ records[d][m].status = "active"
    BY DEF ActiveIn, Active
  <2> QED
    BY <2>1, <2>2, <2>3, RevertedColumns
<1>3. Reverts(records, records')
  BY <1>2 DEF Reverts
<1>4. /\ batches'[b].status = "rolled_back"
      /\ batches'[b].reverted = Cardinality(ActiveIn(b))
      /\ batches'[b].count = batches[b].count
      /\ batches'[b].rows = batches[b].rows
      /\ batches'[b].month = batches[b].month
      /\ \A k \in BatchId : k # b => batches'[k] = batches[k]
  <2>1. batches[b] \in BatchRow
    BY WholeTypes
  <2> DEFINE n == Cardinality(ActiveIn(b))
  <2>2. batches' = [batches EXCEPT ![b] =
                      [batches[b] EXCEPT !.status = "rolled_back", !.reverted = n]]
    BY DEF RollbackBatch
  <2> HIDE DEF n
  <2>3. /\ batches'[b].status = "rolled_back" /\ batches'[b].reverted = n
        /\ batches'[b].count = batches[b].count
        /\ batches'[b].rows = batches[b].rows
        /\ batches'[b].month = batches[b].month
        /\ \A k \in BatchId : k # b => batches'[k] = batches[k]
    BY <2>1, <2>2, WholeTypes DEF BatchRow
  <2> QED
    BY <2>3 DEF n
<1>5. ASSUME NEW k \in BatchId, k # b
      PROVE  LogOK(records', batches', k)
  <2>1. LogOK(records, batches, k) /\ batches'[k] = batches[k]
    BY <1>4, <1>5 DEF Whole, Kept, LogInvariant
  <2>2. \A d \in Doc, m \in Month :
            /\ records'[d][m].batch = k <=> records[d][m].batch = k
            /\ records'[d][m].batch = k /\ records'[d][m].status = "active"
               => records[d][m].status = "active"
    BY <1>3 DEF Reverts
  <2> QED
    BY <2>1, <2>2, SameLog
<1>6. LogOK(records', batches', b)
  <2>1. LogOK(records, batches, b)
    BY DEF Whole, Kept, LogInvariant
  <2>2. Loaded(records', b) = Loaded(records, b)
    BY <1>3 DEF Reverts, Loaded
  <2>3. InForceOf(records', b) = {}
    <3> SUFFICES ASSUME NEW d \in Doc, NEW m \in Month,
                        records'[d][m].batch = b,
                        records'[d][m].status = "active"
                 PROVE  FALSE
      BY DEF InForceOf, Loaded
    <3> QED
      BY <1>2
  <2>4. Cardinality(ActiveIn(b)) <= Cardinality(Loaded(records, b))
    <3>1. ActiveIn(b) \subseteq Loaded(records, b)
      BY DEF ActiveIn, Loaded
    <3> QED
      BY <3>1, LoadedFinite, FS_Subset
  <2> QED
    BY <1>1, <1>4, <2>1, <2>2, <2>3, <2>4 DEF LogOK
<1> QED
  BY <1>1, <1>3, <1>4, <1>5, <1>6, RollbackKeeps

LEMMA RollbackRecordKeepsLog ==
    ASSUME Whole, NEW d \in Doc, NEW m \in Month, RollbackRecord(d, m)
    PROVE  Kept'
<1>1. /\ upload.phase = "idle" /\ Commit /\ records[d][m].status = "active"
      /\ UNCHANGED upload /\ UNCHANGED today /\ UNCHANGED contracts
      /\ UNCHANGED lastBatch /\ UNCHANGED invoices /\ UNCHANGED batches
      /\ records' = [records EXCEPT ![d][m].status = "rolled_back"]
  BY DEF RollbackRecord, Active
<1>2. Reverts(records, records')
  <2>1. \A e \in Doc, n \in Month :
            records'[e][n] = IF e = d /\ n = m
                             THEN [records[d][m] EXCEPT !.status = "rolled_back"]
                             ELSE records[e][n]
    BY <1>1, WholeTypes
  <2>2. records[d][m] \in RecordRow
    BY WholeTypes
  <2> QED
    BY <1>1, <2>1, <2>2, RevertedColumns DEF Reverts
<1>3. ASSUME NEW k \in BatchId
      PROVE  LogOK(records', batches', k)
  <2>1. LogOK(records, batches, k) /\ batches'[k] = batches[k]
    BY <1>1 DEF Whole, Kept, LogInvariant
  <2>2. \A e \in Doc, n \in Month :
            /\ records'[e][n].batch = k <=> records[e][n].batch = k
            /\ records'[e][n].batch = k /\ records'[e][n].status = "active"
               => records[e][n].status = "active"
    BY <1>2 DEF Reverts
  <2> QED
    BY <2>1, <2>2, SameLog
<1> QED
  BY <1>1, <1>2, <1>3, RollbackKeeps

\* Time passes, or nothing happens.
LEMMA ClockKeeps ==
    ASSUME Whole, today' >= today, today' \in Month, UNCHANGED contracts,
           UNCHANGED records, UNCHANGED batches, UNCHANGED lastBatch,
           UNCHANGED db, UNCHANGED upload, UNCHANGED invoices
    PROVE  Kept'
<1>1. LogInvariant'
  BY DEF Whole, Kept, LogInvariant, InFlight, InvoicedBatchIsCommitted
<1>2. ASSUME NEW con \in [ContractId -> ContractRow], NEW c \in ContractId
      PROVE  con[c].until < today => con[c].until < today'
  BY WholeTypes DEF ContractRow, Month
<1>3. Expiry(contracts)'
  BY <1>2, WholeTypes DEF Whole, Kept, ContractsInvariant, Expiry
<1>4. Expiry(db.contracts)'
  BY <1>2, WholeTypes DEF Whole, Kept, ContractsInvariant, Expiry
<1>5. ContractsInvariant'
  BY <1>3, <1>4 DEF Whole, Kept, ContractsInvariant, Printed
<1> QED
  BY <1>1, <1>5 DEF Kept

LEMMA NextKeepsWhole == Whole /\ [Next]_vars => Whole'
<1> SUFFICES ASSUME Whole, [Next]_vars PROVE Whole'
  OBVIOUS
<1>1. Contiguous'
  BY NextKeeps DEF Whole
<1> SUFFICES Kept'
  BY <1>1 DEF Whole
<1>2. ASSUME NEW m \in Month, NEW plan \in PlanVersion, BeginUpload(m, plan)
      PROVE  Kept'
  BY <1>2, BeginsKeeps
<1>3. CASE RejectFile
  BY <1>3, FailKeepsLog DEF RejectFile
<1>4. CASE RowStep
  BY <1>4, RowStepKeepsLog
<1>5. CASE FinishRows
  BY <1>5, FinishRowsKeeps
<1>6. ASSUME NEW stage \in {"none", "draft", "sent"}, Bill(stage) PROVE Kept'
  BY <1>6, BillKeeps
<1>7. CASE EndUpload
  BY <1>7, EndUploadKeeps
<1>8. CASE Crash
  BY <1>8, AbortsKeep DEF Crash
<1>9. ASSUME NEW b \in BatchId, RollbackBatch(b) PROVE Kept'
  BY <1>9, RollbackBatchKeeps
<1>10. ASSUME NEW d \in Doc, NEW m \in Month, RollbackRecord(d, m) PROVE Kept'
  BY <1>10, RollbackRecordKeepsLog
<1>11. ASSUME NextMonth \/ UNCHANGED vars PROVE Kept'
  <2>1. today' >= today /\ today' \in Month
    BY <1>1, <1>11, WholeTypes
       DEF NextMonth, vars, Contiguous, Typed, TypeOK, Month
  <2> QED
    BY <1>11, <2>1, ClockKeeps DEF NextMonth, vars
<1> QED
  BY <1>2, <1>3, <1>4, <1>5, <1>6, <1>7, <1>8, <1>9, <1>10, <1>11 DEF Next

LEMMA InitWhole == Init => Whole
<1> SUFFICES ASSUME Init PROVE Whole
  OBVIOUS
<1>1. Contiguous
  BY InitTyped, InitLedger DEF Contiguous
<1>2. /\ \A c \in ContractId : contracts[c].status = "absent"
      /\ db.contracts = contracts
      /\ \A b \in BatchId : /\ batches[b].status = "absent"
                            /\ invoices[b].stage = "none"
      /\ db.batches = batches
      /\ upload.phase = "idle" /\ upload.batch = 0
  BY DEF Init, NoContract, NoBatch, NoInvoice, Idle
<1>3. ContractsInvariant
  BY <1>2 DEF ContractsInvariant, Expiry, Printed
<1>4. LogInvariant
  BY <1>2 DEF LogInvariant, LogOK, InvoicedBatchIsCommitted
<1> QED
  BY <1>1, <1>3, <1>4 DEF Whole, Kept

LEMMA WholeHolds == Spec => []Whole
  BY InitWhole, NextKeepsWhole, PTL DEF Spec

\* _refresh_contracts_status runs at the end of successful uploads only, and
\* rows close and reopen contracts in between; still a contract shown expired
\* is over, or a break ended it.
THEOREM ExpiredIsOver == Spec => []ExpiredContractIsOver
<1>1. Whole => ExpiredContractIsOver
  BY DEF Whole, Kept, ContractsInvariant, Expiry, ExpiredContractIsOver
<1> QED
  BY <1>1, WholeHolds, PTL

\* The counters that process_excel and the rollback endpoint write agree with
\* the monthly records of the batch, whatever else was uploaded, failed,
\* aborted or reverted, for any number of documents, rows and batches.
THEOREM LogAgreesWithRecords == Spec => []BatchLogAgrees
<1>1. ASSUME Whole, NEW b \in BatchId
      PROVE  /\ LogOK(records, batches, b)
             /\ Loaded(records, b) = RecordsOf(b)
             /\ InForceOf(records, b) = ActiveIn(b)
  BY <1>1 DEF Whole, Kept, LogInvariant, Loaded, RecordsOf, InForceOf, ActiveIn,
     Active
<1>2. Whole => BatchTotalsMatchRecords
  BY <1>1 DEF LogOK, Adds, BatchTotalsMatchRecords
<1>3. Whole => RevertedBatchCoversNothing
  BY <1>1 DEF LogOK, RevertedBatchCoversNothing
<1>4. Whole => BatchLogAgrees
  BY <1>2, <1>3 DEF BatchLogAgrees
<1> QED
  BY <1>4, WholeHolds, PTL

\* generate_invoice_for_batch runs before db.commit(): what it billed is what
\* the commit stores, unless the request dies between the two.
THEOREM InvoicesMatchBatches == Spec => []InvoicedBatchIsCommitted
<1>1. Whole => InvoicedBatchIsCommitted
  BY DEF Whole, Kept, LogInvariant
<1> QED
  BY <1>1, WholeHolds, PTL

\* search_client offers a contract with the address of its PDF, and
\* show_pdf_by_uuid finds a monthly record to print, when no plan version has
\* surcharge tiers that overlap.
THEOREM OfferedContractsPrint == Spec => []OfferedContractHasItsPdf
<1>1. Whole => OfferedContractHasItsPdf
  BY DEF Whole, Kept, ContractsInvariant, Printed, PlansArePlain,
     OfferedContractHasItsPdf, Offered, Served
<1> QED
  BY <1>1, WholeHolds, PTL
=============================================================================
