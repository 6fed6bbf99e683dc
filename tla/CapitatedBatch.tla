--------------------------- MODULE CapitatedBatch ---------------------------
(***************************************************************************)
(* The monthly Excel uploads of module D for one company: the processor    *)
(* of common/services/capitated/capitated_batch_processor.py driven by the *)
(* endpoints of capitated_batch_controller.py.                             *)
(*                                                                         *)
(* One request works on the tables at a time (ConcurrentUploads lifts      *)
(* that).  The variables insured, contracts, records and batches are the   *)
(* four tables as the session of the running request sees them, db is what *)
(* is committed.  A request that ends well makes db equal to the tables; a *)
(* request that dies puts the tables back to db.                           *)
(***************************************************************************)
EXTENDS Integers, FiniteSets

CONSTANTS
    Doc,          \* (product, document number) pairs that files may name
    Identity,     \* (name, sex) pairs that files may carry for a document
    Age,          \* ages that files may report
    PlanVersion,  \* plan versions that may be active when a file arrives
    None,         \* the value of a column that is NULL or of an absent row
    LastMonth,    \* bound: the calendar is 1..LastMonth
    MaxBatches,   \* bound: uploads started
    MaxRows,      \* bound: rows read from one file
    Billable,     \* whether the company has a Stripe customer and a price
    Crashes       \* whether a request may be killed half-way

\* A limit of 0 stands for a NULL or zero column, which the code skips.
Plan == [entry : Nat, renewal : Nat,
         tiers : SUBSET [rule : Nat, from : Nat, to : Nat]]

ASSUME CalendarAssumption == LastMonth \in Nat \ {0}
ASSUME BoundsAssumption   == MaxBatches \in Nat /\ MaxRows \in Nat
ASSUME PlanAssumption     == PlanVersion \subseteq Plan
ASSUME AgeAssumption      == Age \subseteq Nat
ASSUME DocAssumption      == IsFiniteSet(Doc)

Month      == 1 .. LastMonth
BatchId    == 1 .. MaxBatches
ContractId == 1 .. (MaxBatches * MaxRows)
Result     == {"applied", "rejected", "duplicated", "incongruence"}

VARIABLES
    today,       \* the month the server's clock is in
    insured,     \* capitados_product_insureds, by document
    contracts,   \* capitados_contracts, by id
    records,     \* capitados_monthly_records, by document and month
    batches,     \* capitados_batch_logs, by id
    lastBatch,   \* AUTO_INCREMENT of capitados_batch_logs; never rolled back
    db,          \* the committed contents of the four tables
    upload,      \* the upload being processed
    invoices     \* what Stripe holds, by batch id in the invoice's metadata

vars   == <<today, insured, contracts, records, batches, lastBatch, db, upload,
            invoices>>

-----------------------------------------------------------------------------
(***************************************************************************)
(* Rows.  A unique key of the table is the domain of its function, so at   *)
(* most one row per key is structural; inserting a taken key is an         *)
(* IntegrityError (KeyConflict).                                           *)
(***************************************************************************)
InsuredRow  == [status : {"absent", "active", "rolled_back"},
                identity : Identity \cup {None}]
ContractRow == [status : {"absent", "active", "expired", "rolled_back"},
                doc : Doc \cup {None}, entry : 0 .. LastMonth,
                until : 0 .. LastMonth,   \* valid_until: the end of that month
                broken : BOOLEAN]         \* terminated_at set by a break
RecordRow   == [status : {"absent", "active", "rolled_back"},
                contract : {0} \cup ContractId, batch : {0} \cup BatchId]
BatchRow    == [status : {"absent", "draft", "processed", "processed_zero",
                          "failed", "rolled_back"},
                month : 0 .. LastMonth, rows : Nat, count : [Result -> Nat],
                reverted : Nat]

NoCount    == [r \in Result |-> 0]
NoInsured  == [status |-> "absent", identity |-> None]
NoContract == [status |-> "absent", doc |-> None, entry |-> 0, until |-> 0,
               broken |-> FALSE]
NoRecord   == [status |-> "absent", contract |-> 0, batch |-> 0]
NoBatch    == [status |-> "absent", month |-> 0, rows |-> 0, count |-> NoCount,
               reverted |-> 0]

Tables == [insured : [Doc -> InsuredRow],
           contracts : [ContractId -> ContractRow],
           records : [Doc -> [Month -> RecordRow]],
           batches : [BatchId -> BatchRow]]

NoPlan == [entry |-> 0, renewal |-> 0, tiers |-> {}]
Idle   == [phase |-> "idle", batch |-> 0, month |-> 0, plan |-> NoPlan,
           rows |-> 0, count |-> NoCount]
Upload == [phase : {"idle", "rows", "billing", "commit"},
           batch : {0} \cup BatchId, month : 0 .. LastMonth, plan : Plan,
           rows : Nat, count : [Result -> Nat]]

Invoice   == [stage : {"none", "draft", "sent"}, applied : Nat]
NoInvoice == [stage |-> "none", applied |-> 0]

Init ==
    /\ today \in Month
    /\ insured = [d \in Doc |-> NoInsured]
    /\ contracts = [c \in ContractId |-> NoContract]
    /\ records = [d \in Doc |-> [m \in Month |-> NoRecord]]
    /\ batches = [b \in BatchId |-> NoBatch]
    /\ lastBatch = 0
    /\ db = [insured |-> insured, contracts |-> contracts,
             records |-> records, batches |-> batches]
    /\ upload = Idle
    /\ invoices = [b \in BatchId |-> NoInvoice]

-----------------------------------------------------------------------------
\* db.commit() and the rollback of get_db().
Commit == db' = [insured |-> insured', contracts |-> contracts',
                 records |-> records', batches |-> batches']
AbortContractsMutant ==
    /\ insured' = db.insured
    /\ records' = db.records
    /\ batches' = db.batches
    /\ UNCHANGED <<contracts, db>>

Abort  == /\ insured' = db.insured
          /\ contracts' = db.contracts
          /\ records' = db.records
          /\ batches' = db.batches
          /\ UNCHANGED db

Draft(m) == [status |-> "draft", month |-> m, rows |-> 0, count |-> NoCount,
             reverted |-> 0]

(***************************************************************************)
(* process_excel up to the first row: the draft batch is flushed and the   *)
(* sheets resolve to the plan version that is active now.                  *)
(***************************************************************************)
BeginUpload(m, plan) ==
    /\ upload.phase = "idle"
    /\ lastBatch < MaxBatches
    /\ lastBatch' = lastBatch + 1
    /\ batches' = [batches EXCEPT ![lastBatch + 1] = Draft(m)]
    /\ upload' = [Idle EXCEPT !.phase = "rows", !.batch = lastBatch + 1,
                              !.month = m, !.plan = plan]
    /\ UNCHANGED <<today, insured, contracts, records, db, invoices>>

\* The upload ends FAILED with its counters at zero, and the caller commits.
\* Neither path below reaches _refresh_contracts_status.
Fail ==
    /\ batches' = [batches EXCEPT ![upload.batch].status = "failed"]
    /\ upload' = Idle
    /\ UNCHANGED <<today, insured, contracts, records, lastBatch, invoices>>
    /\ Commit

\* openpyxl cannot read the workbook, or _build_sheet_metas reports plan_errors.
RejectFile == upload.phase = "rows" /\ upload.rows = 0 /\ Fail

-----------------------------------------------------------------------------
(***************************************************************************)
(* One row of a sheet.                                                     *)
(***************************************************************************)
ReadsRow == upload.phase = "rows" /\ upload.rows < MaxRows

(***************************************************************************)
(* An age such as "--5", or a superscript digit, passes the isdigit test   *)
(* and makes float() raise.  The handler of process_excel catches it and   *)
(* nothing undoes the rows already flushed.                                *)
(***************************************************************************)
GarbledRow == ReadsRow /\ Fail

Tally(result) ==
    upload' = [upload EXCEPT !.rows = @ + 1, !.count[result] = @ + 1]

\* _find_person: no active row, or one with the same name and sex.
Admits(d, i) == insured[d].status = "active" => insured[d].identity = i
Enrol(d, i)  ==
    insured' = [insured EXCEPT ![d] = [status |-> "active", identity |-> i]]

Active(d, m) == records[d][m].status = "active"

\* _find_last_active_record: m is the last month with an active record.
IsLast(d, m) == Active(d, m) /\ \A n \in Month : Active(d, n) => n <= m

\* _find_contract_for_record
InForce(c) == contracts[c].status \in {"active", "expired"}

Retroactive(d)  == \E l \in Month : IsLast(d, l) /\ upload.month < l
Breaks(d, c)    == \E l \in Month : /\ IsLast(d, l)
                                    /\ upload.month > l + 1
                                    /\ c = records[d][l].contract

ContinuesMutant(d, c) == \E l \in Month : /\ IsLast(d, l)
                                          /\ upload.month > l
                                          /\ c = records[d][l].contract
                                          /\ InForce(c)
Continues(d, c) == \E l \in Month : /\ IsLast(d, l)
                                    /\ upload.month = l + 1
                                    /\ c = records[d][l].contract
                                    /\ InForce(c)
StartsMutant(d) == \A l \in Month : IsLast(d, l) => upload.month < l

\* No active record at all, or the next month of a contract out of force.
Starts(d) == \A l \in Month : IsLast(d, l) =>
                 /\ upload.month = l + 1
                 /\ ~InForce(records[d][l].contract)

Exceeds(age, limit) == limit # 0 /\ age > limit
TooOld(d, age) ==
    \/ /\ \E c \in ContractId : Continues(d, c)
       /\ Exceeds(age, upload.plan.renewal)
    \/ /\ Starts(d) \/ \E c \in ContractId : Breaks(d, c)
       /\ Exceeds(age, upload.plan.entry)

\* The age falls in two or more surcharge tiers.
Clash(age) ==
    \E s, t \in upload.plan.tiers :
        s # t /\ age \in s.from .. s.to /\ age \in t.from .. t.to

\* A rolled back row still holds its unique key.
InsuredKeyTaken(d) == insured[d].status = "rolled_back"

RecordKeyTakenMutant(d) == FALSE
RecordKeyTaken(d)  == records[d][upload.month].status = "rolled_back"

\* A row refused before any table is touched (empty ID or name, sex, age,
\* country).
InvalidRow ==
    /\ ReadsRow
    /\ Tally("rejected")
    /\ UNCHANGED <<today, insured, contracts, records, batches, lastBatch, db,
                   invoices>>

IncongruentRow(d, i) ==
    /\ ReadsRow
    /\ ~Admits(d, i)
    /\ Tally("incongruence")
    /\ UNCHANGED <<today, insured, contracts, records, batches, lastBatch, db,
                   invoices>>

\* The person is inserted or updated before the row is judged any further.
EnrolledRow(d, i) ==
    /\ ReadsRow
    /\ Admits(d, i)
    /\ ~InsuredKeyTaken(d)
    /\ Enrol(d, i)
    /\ UNCHANGED <<today, batches, lastBatch, db, invoices>>

DuplicatedRowMutant(d, i) ==
    /\ EnrolledRow(d, i)
    /\ Active(d, upload.month)
    /\ Tally("applied")
    /\ UNCHANGED <<contracts, records>>

DuplicatedRow(d, i) ==
    /\ EnrolledRow(d, i)
    /\ Active(d, upload.month)
    /\ Tally("duplicated")
    /\ UNCHANGED <<contracts, records>>

RetroactiveRow(d, i) ==
    /\ EnrolledRow(d, i)
    /\ ~Active(d, upload.month)
    /\ Retroactive(d)
    /\ Tally("rejected")
    /\ UNCHANGED <<contracts, records>>

TooOldRow(d, i, age) ==
    /\ EnrolledRow(d, i)
    /\ ~Active(d, upload.month)
    /\ TooOld(d, age)
    /\ Tally("rejected")
    /\ UNCHANGED <<contracts, records>>

\* The row gets as far as its contract, and its record can be inserted.
CoveredRow(d, i, age) ==
    /\ EnrolledRow(d, i)
    /\ ~Active(d, upload.month)
    /\ ~TooOld(d, age)
    /\ Clash(age) \/ ~RecordKeyTaken(d)

(***************************************************************************)
(* After the contract: overlapping tiers make the row an incongruence,     *)
(* otherwise the monthly record is inserted.  The contract stays as it is  *)
(* in both cases.                                                          *)
(***************************************************************************)
RecordMonth(d, c, age) ==
    IF Clash(age)
    THEN Tally("incongruence") /\ UNCHANGED records
    ELSE /\ Tally("applied")
         /\ records' = [records EXCEPT ![d][upload.month] =
                          [status |-> "active", contract |-> c,
                           batch |-> upload.batch]]

\* _create_new_contract; AUTO_INCREMENT gives the least unused id.
IsNext(c)   == /\ contracts[c].status = "absent"
               /\ \A k \in 1 .. (c - 1) : contracts[k].status # "absent"

ContractMutant(d) == [status |-> "active", doc |-> d, entry |-> upload.month,
                      until |-> upload.month + 1, broken |-> FALSE]
Contract(d) == [status |-> "active", doc |-> d, entry |-> upload.month,
                until |-> upload.month, broken |-> FALSE]

FirstRow(d, i, age, c) ==
    /\ CoveredRow(d, i, age)
    /\ Starts(d)
    /\ IsNext(c)
    /\ contracts' = [contracts EXCEPT ![c] = Contract(d)]
    /\ RecordMonth(d, c, age)

BreakRow(d, i, age, c, old) ==
    /\ CoveredRow(d, i, age)
    /\ Breaks(d, old)
    /\ IsNext(c)
    /\ contracts' =
         [contracts EXCEPT
            ![c] = Contract(d),
            ![old] = IF @.status = "active"
                     THEN [@ EXCEPT !.status = "expired", !.broken = TRUE]
                     ELSE @]
    /\ RecordMonth(d, c, age)

RenewRow(d, i, age, c) ==
    /\ CoveredRow(d, i, age)
    /\ Continues(d, c)
    /\ contracts' = [contracts EXCEPT ![c].status = "active",
                                      ![c].until = upload.month]
    /\ RecordMonth(d, c, age)

(***************************************************************************)
(* The INSERT of a person or of a monthly record hits a unique key.  The   *)
(* failed flush rolls the whole transaction back, the handler's own flush  *)
(* of the failed batch finds nothing to write, and db.commit() raises      *)
(* PendingRollbackError: the answer is a 500 and no batch is stored.       *)
(***************************************************************************)
KeyConflict(d, i, age) ==
    /\ ReadsRow
    /\ Admits(d, i)
    /\ \/ InsuredKeyTaken(d)
       \/ /\ RecordKeyTaken(d)
          /\ ~Retroactive(d)
          /\ ~TooOld(d, age)
          /\ ~Clash(age)
    /\ Abort
    /\ upload' = Idle
    /\ UNCHANGED <<today, lastBatch, invoices>>

RowStep ==
    \/ InvalidRow
    \/ GarbledRow
    \/ \E d \in Doc, i \in Identity :
         \/ IncongruentRow(d, i)
         \/ DuplicatedRow(d, i)
         \/ RetroactiveRow(d, i)
         \/ \E age \in Age :
              \/ TooOldRow(d, i, age)
              \/ KeyConflict(d, i, age)
              \/ \E c \in ContractId :
                   \/ FirstRow(d, i, age, c)
                   \/ RenewRow(d, i, age, c)
                   \/ \E old \in ContractId : BreakRow(d, i, age, c, old)

-----------------------------------------------------------------------------
\* The last row is read: the batch gets its status and its counters.
FinishRows ==
    /\ upload.phase = "rows"
    /\ batches' = [batches EXCEPT ![upload.batch] =
                     [@ EXCEPT !.status = IF upload.count["applied"] > 0
                                          THEN "processed"
                                          ELSE "processed_zero",
                               !.rows = upload.rows,
                               !.count = upload.count]]
    /\ upload' = [upload EXCEPT !.phase = IF upload.count["applied"] > 0
                                          THEN "billing" ELSE "commit"]
    /\ UNCHANGED <<today, insured, contracts, records, lastBatch, db, invoices>>

(***************************************************************************)
(* generate_invoice_for_batch: nothing to bill (no Stripe customer, no     *)
(* price, Stripe refuses the invoice), a draft left behind by an error in  *)
(* one of the two later calls, or a finalised invoice.  Errors are         *)
(* swallowed.                                                              *)
(***************************************************************************)
BillMutant(stage) ==
    /\ upload.phase = "billing"
    /\ stage # "none" => Billable
    /\ invoices' = [invoices EXCEPT ![upload.batch] =
                      IF stage = "none" THEN NoInvoice
                      ELSE [stage |-> stage, applied |-> upload.rows]]
    /\ upload' = [upload EXCEPT !.phase = "commit"]
    /\ UNCHANGED <<today, insured, contracts, records, batches, lastBatch, db>>

Bill(stage) ==
    /\ upload.phase = "billing"
    /\ stage # "none" => Billable
    /\ invoices' = [invoices EXCEPT ![upload.batch] =
                      IF stage = "none" THEN NoInvoice
                      ELSE [stage |-> stage,
                            applied |-> upload.count["applied"]]]
    /\ upload' = [upload EXCEPT !.phase = "commit"]
    /\ UNCHANGED <<today, insured, contracts, records, batches, lastBatch, db>>

\* _refresh_contracts_status: one bulk UPDATE by valid_until against today.
RefreshMutant(table) ==
    [c \in ContractId |->
       IF table[c].status \in {"active", "expired"}
       THEN [table[c] EXCEPT !.status =
               IF table[c].until > today THEN "active" ELSE "expired"]
       ELSE table[c]]

Refresh(table) ==
    [c \in ContractId |->
       IF table[c].status \in {"active", "expired"}
       THEN [table[c] EXCEPT !.status =
               IF table[c].until >= today THEN "active" ELSE "expired"]
       ELSE table[c]]

EndUpload ==
    /\ upload.phase = "commit"
    /\ contracts' = Refresh(contracts)
    /\ upload' = Idle
    /\ UNCHANGED <<today, insured, records, batches, lastBatch, invoices>>
    /\ Commit

\* The process, or its database connection, dies before the commit.
Crash ==
    /\ Crashes
    /\ upload.phase # "idle"
    /\ Abort
    /\ upload' = Idle
    /\ UNCHANGED <<today, lastBatch, invoices>>

-----------------------------------------------------------------------------
(***************************************************************************)
(* The two rollback endpoints.  They touch the records and the batch only. *)
(***************************************************************************)
ActiveIn(b) == {k \in Doc \X Month : /\ records[k[1]][k[2]].batch = b
                                     /\ Active(k[1], k[2])}

RollbackBatch(b) ==
    /\ upload.phase = "idle"
    /\ batches[b].status = "processed"
    /\ records' = [d \in Doc |-> [m \in Month |->
                     IF <<d, m>> \in ActiveIn(b)
                     THEN [records[d][m] EXCEPT !.status = "rolled_back"]
                     ELSE records[d][m]]]
    /\ batches' = [batches EXCEPT ![b] =
                     [@ EXCEPT !.status = "rolled_back",
                               !.reverted = Cardinality(ActiveIn(b))]]
    /\ UNCHANGED <<today, insured, contracts, lastBatch, upload, invoices>>
    /\ Commit

RollbackRecord(d, m) ==
    /\ upload.phase = "idle"
    /\ Active(d, m)
    /\ records' = [records EXCEPT ![d][m].status = "rolled_back"]
    /\ UNCHANGED <<today, insured, contracts, batches, lastBatch, upload,
                   invoices>>
    /\ Commit

\* The clock reaches the next month.
NextMonth ==
    /\ today < LastMonth
    /\ today' = today + 1
    /\ UNCHANGED <<insured, contracts, records, batches, lastBatch, db, upload,
                   invoices>>

Next ==
    \/ \E m \in Month, plan \in PlanVersion : BeginUpload(m, plan)
    \/ RejectFile
    \/ RowStep
    \/ FinishRows
    \/ \E stage \in {"none", "draft", "sent"} : Bill(stage)
    \/ EndUpload
    \/ Crash
    \/ \E b \in BatchId : RollbackBatch(b)
    \/ \E d \in Doc, m \in Month : RollbackRecord(d, m)
    \/ NextMonth

Spec == Init /\ [][Next]_vars

-----------------------------------------------------------------------------
(***************************************************************************)
(* What others are told of the contracts that are committed.               *)
(***************************************************************************)
\* search_client and the search of the chat: active contracts, each with the
\* address of its PDF.
Offered(c) == db.contracts[c].status = "active"

\* show_pdf_by_uuid prints the last monthly record, reverted or not, and answers
\* 404 when there is none.
Served(c) ==
    /\ db.contracts[c].status \in {"active", "expired"}
    /\ \E d \in Doc, m \in Month : db.records[d][m].contract = c

-----------------------------------------------------------------------------
(***************************************************************************)
(* Properties.  Those about tables are stated of the tables the running    *)
(* session sees; db is one of their earlier values.                        *)
(***************************************************************************)
TypeOK ==
    /\ today \in Month
    /\ insured \in [Doc -> InsuredRow]
    /\ contracts \in [ContractId -> ContractRow]
    /\ records \in [Doc -> [Month -> RecordRow]]
    /\ batches \in [BatchId -> BatchRow]
    /\ lastBatch \in 0 .. MaxBatches
    /\ db \in Tables
    /\ upload \in Upload
    /\ invoices \in [BatchId -> Invoice]

(***************************************************************************)
(* A contract's months have no hole: its records, reverted ones included,  *)
(* run from its entry month without a gap up to valid_until or beyond, at  *)
(* most the last month of valid_until has no record yet (a surcharge clash *)
(* extended it), no record precedes the entry, and no month in force lies  *)
(* after valid_until.  Continuity, break and renewal must agree on this.   *)
(***************************************************************************)
MonthsContiguous(con, rec) ==
    \A d \in Doc, m \in Month :
        LET c == rec[d][m].contract
        IN  rec[d][m].status # "absent" =>
              /\ con[c].doc = d
              /\ con[c].entry <= m
              /\ rec[d][m].status = "active" => m <= con[c].until
              /\ \A n \in Month :
                     con[c].entry <= n /\ (n <= m \/ n < con[c].until)
                     => rec[d][n].contract = c

ContractMonthsContiguous == MonthsContiguous(contracts, records)

(***************************************************************************)
(* RETROACTIVE_NOT_ALLOWED: whatever was uploaded and reverted before, the *)
(* months in force of a document were loaded in calendar order, by         *)
(* different batches, and under contracts opened in that order.            *)
(***************************************************************************)
LoadedInOrder(rec) ==
    \A d \in Doc, m, n \in Month :
        /\ rec[d][m].status = "active"
        /\ rec[d][n].status = "active"
        /\ m < n
        => /\ rec[d][m].batch < rec[d][n].batch
           /\ rec[d][m].contract <= rec[d][n].contract

CoverageLoadedInOrder == LoadedInOrder(records)

(***************************************************************************)
(* The inductive invariant of the two properties above.  They are kept     *)
(* because rows are written under ids that are new (ids are given out in   *)
(* order, and the batch in flight is the newest), for the month of the     *)
(* batch only, and because what an abort restores satisfies them as well.  *)
(***************************************************************************)
RequestOK ==
    upload.phase # "idle" =>
        /\ upload.month \in Month
        /\ lastBatch \in BatchId
        /\ upload.batch = lastBatch

IdsInOrder(con, rec, last) ==
    /\ \A c, k \in ContractId :
           k < c /\ con[c].status # "absent" => con[k].status # "absent"
    /\ \A d \in Doc, m \in Month :
           IF rec[d][m].status = "absent"
           THEN rec[d][m] = NoRecord
           ELSE /\ rec[d][m].contract \in ContractId
                /\ con[rec[d][m].contract].status # "absent"
                /\ rec[d][m].batch <= last

LedgerOK(con, rec, last) ==
    /\ IdsInOrder(con, rec, last)
    /\ MonthsContiguous(con, rec)
    /\ LoadedInOrder(rec)

LedgerInvariant ==
    /\ RequestOK
    /\ LedgerOK(contracts, records, lastBatch)
    /\ LedgerOK(db.contracts, db.records, lastBatch)
    /\ upload.phase # "idle" =>
         \A d \in Doc, m \in Month :
             /\ records[d][m].batch = upload.batch => m = upload.month
             /\ db.records[d][m].batch < upload.batch

(***************************************************************************)
(* A contract is only shown expired when its period is over or a break     *)
(* ended it, although the status is refreshed by successful uploads only   *)
(* and failed ones leave what they did.                                    *)
(***************************************************************************)
ExpiredContractIsOver ==
    \A c \in ContractId :
        contracts[c].status = "expired" =>
            contracts[c].until < today \/ contracts[c].broken

RecordsOf(b) == {k \in Doc \X Month : records[k[1]][k[2]].batch = b}

(***************************************************************************)
(* The counters of a batch that was processed, or processed and reverted,  *)
(* account for every row read, and total_applied is the number of monthly  *)
(* records it loaded, all of them for the batch's month.                   *)
(***************************************************************************)
BatchTotalsMatchRecords ==
    \A b \in BatchId :
        batches[b].status \in {"processed", "processed_zero", "rolled_back"} =>
            LET count == batches[b].count
            IN  /\ batches[b].rows = count["applied"] + count["rejected"]
                                     + count["duplicated"]
                                     + count["incongruence"]
                /\ count["applied"] = Cardinality(RecordsOf(b))
                /\ (count["applied"] > 0) <=> (batches[b].status # "processed_zero")
                /\ \A k \in RecordsOf(b) : k[2] = batches[b].month

\* A reverted batch keeps no month in force, even though its documents may be
\* loaded again afterwards and its records may be reverted one by one.
RevertedBatchCoversNothing ==
    \A b \in BatchId :
        batches[b].status = "rolled_back" =>
            /\ ActiveIn(b) = {}
            /\ batches[b].reverted <= batches[b].count["applied"]

\* The batch log tells what the monthly records are, before and after a rollback.
BatchLogAgrees == BatchTotalsMatchRecords /\ RevertedBatchCoversNothing

(***************************************************************************)
(* Stripe is told before the commit.  A batch that was invoiced is         *)
(* committed with the total that was billed, unless it is still in flight  *)
(* or its request died between the two.  Failed and empty batches are      *)
(* never billed.                                                           *)
(***************************************************************************)
InvoicedBatchIsCommitted ==
    \A b \in BatchId :
        invoices[b].stage # "none" =>
            \/ b = upload.batch
            \/ Crashes /\ db.batches[b].status = "absent"
            \/ /\ db.batches[b].status \in {"processed", "rolled_back"}
               /\ db.batches[b].count["applied"] = invoices[b].applied

(***************************************************************************)
(* Each upload and each rollback changes the committed coverage at once,   *)
(* for one month, after every month the document is covered in, and a      *)
(* reverted month is never covered again.                                  *)
(***************************************************************************)
SlotStatus(status) == CASE status = "active"      -> "covered"
                        [] status = "rolled_back" -> "reverted"
                        [] OTHER                  -> "free"

Ledger == INSTANCE CoverageLedger WITH
    slot <- [d \in Doc |->
               [m \in Month |-> SlotStatus(db.records[d][m].status)]]

LedgerSpec == Ledger!Spec

(***************************************************************************)
(* A contract that the chatbot offers has its PDF, whatever was uploaded,  *)
(* failed or reverted before, as long as no plan version has tiers that    *)
(* overlap: a clash leaves a contract without a monthly record, which is   *)
(* offered with an address that answers 404.                               *)
(***************************************************************************)
TiersOverlap(plan) ==
    \E s, t \in plan.tiers, age \in Age :
        s # t /\ age \in s.from .. s.to /\ age \in t.from .. t.to

OfferedContractHasItsPdf ==
    (\A plan \in PlanVersion : ~TiersOverlap(plan)) =>
        \A c \in ContractId : Offered(c) => Served(c)
=============================================================================
