-------------------------- MODULE ConcurrentUploads --------------------------
(***************************************************************************)
(* Uploads of one company that overlap, for one person who is enrolled     *)
(* already: capitated_batch_processor.py statement by statement.  The      *)
(* sessions read what is committed (PostgreSQL's default, which            *)
(* common/config.py connects to), hold the row locks of what they flushed, *)
(* and nothing but those locks and the unique key of the monthly records   *)
(* keeps them apart.  CapitatedBatch has everything that one upload does.  *)
(***************************************************************************)
EXTENDS Integers

CONSTANTS
    Proc,           \* uploads in progress at once
    LastMonth,      \* bound: months that files are for
    MaxContracts    \* bound: ids ever given to contracts

ASSUME BoundsAssumption == LastMonth \in Nat /\ MaxContracts \in Nat

Month      == 1 .. LastMonth
ContractId == 1 .. MaxContracts

VARIABLES
    today,          \* the month the server's clock is in; it does not move
    contracts,      \* the person's capitados_contracts, by id
    lastContract,   \* AUTO_INCREMENT; never rolled back
    records,        \* the person's capitados_monthly_records, by month
    upload,         \* what each upload has read and flushed
    raced           \* whether an upload committed on a history that had changed

vars == <<today, contracts, lastContract, records, upload, raced>>

NoContract == [status |-> "absent", entry |-> 0, until |-> 0]
NoRecord   == [status |-> "absent", contract |-> 0]

(***************************************************************************)
(* last is the last month in force that the session saw; old a contract it *)
(* has flushed changes to, whose row it has locked; contract the one the   *)
(* record is for; recorded says that the record is flushed.                *)
(***************************************************************************)
Idle == [step |-> "idle"]

Change == ({"status"} \X {"active", "expired"}) \cup ({"until"} \X Month)
Upload ==
    [step : {"look", "last", "contract", "break", "continue", "open", "record", "refresh"},
     month : Month, last : Month \cup {0}, old : ContractId \cup {0},
     changes : SUBSET Change, contract : ContractId \cup {0},
     recorded : BOOLEAN, fresh : BOOLEAN]

Begun(m) == [step |-> "look", month |-> m, last |-> 0, old |-> 0, changes |-> {},
             contract |-> 0, recorded |-> FALSE, fresh |-> TRUE]

-----------------------------------------------------------------------------
At(p, step)       == upload[p].step = step
Set(p, u)         == upload' = [upload EXCEPT ![p] = u]
InForce(m)        == records[m].status = "active"
IsLast(m)         == InForce(m) /\ \A n \in Month : InForce(n) => n <= m
Locked(c, p)      == \E q \in Proc \ {p} : upload[q].step # "idle" /\ upload[q].old = c
Existing(c)       == contracts[c] # NoContract

\* process_excel up to the row.
BeginUpload(p, m) ==
    /\ At(p, "idle")
    /\ Set(p, Begun(m))
    /\ UNCHANGED <<today, contracts, lastContract, records, raced>>

\* _find_active_monthly_record; a duplicate leaves nothing but the refresh.
Look(p) ==
    /\ At(p, "look")
    /\ Set(p, [upload[p] EXCEPT !.step = IF InForce(upload[p].month) THEN "refresh" ELSE "last"])
    /\ UNCHANGED <<today, contracts, lastContract, records, raced>>

Retroactive(month, last) == month < last

\* _find_last_active_record and the retroactivity check.
FindLast(p) ==
    /\ At(p, "last")
    /\ LET month == upload[p].month
       IN  \/ /\ \E l \in Month :
                   /\ IsLast(l)
                   /\ Set(p, [upload[p] EXCEPT
                        !.last = l,
                        !.contract = records[l].contract,
                        !.step = IF Retroactive(month, l) THEN "refresh" ELSE "contract"])
           \/ /\ \A l \in Month : ~InForce(l)
              /\ Set(p, [upload[p] EXCEPT !.step = "open"])
    /\ UNCHANGED <<today, contracts, lastContract, records, raced>>

BreaksMutant(month, last) == month > last
Breaks(month, last) == month > last + 1

(***************************************************************************)
(* _find_contract_for_record and the UPDATE that follows: a break expires  *)
(* the contract if it is active, continuity makes it active until the new  *)
(* month.  The statement has the columns that differ from the row just     *)
(* read, none when none does, and waits for whoever has the row locked.    *)
(***************************************************************************)
Write(p, c, changes, step) ==
    /\ changes # {} => ~Locked(c, p)
    /\ Set(p, [upload[p] EXCEPT !.step = step, !.changes = changes,
                                !.old = IF changes = {} THEN 0 ELSE c])

FindContract(p) ==
    /\ At(p, "contract")
    /\ LET u == upload[p]
           status == contracts[u.contract].status
           until  == contracts[u.contract].until
       IN  IF Breaks(u.month, u.last)
           THEN Set(p, [u EXCEPT !.step = "break",
                                 !.changes = {<<"status", "expired">>} \ {<<"status", x>> :
                                               x \in {status} \ {"active"}}])
           ELSE Set(p, [u EXCEPT !.step = "continue",
                                 !.changes = {<<"status", "active">>, <<"until", u.month>>}
                                             \ {<<"status", status>>, <<"until", until>>}])
    /\ UNCHANGED <<today, contracts, lastContract, records, raced>>

ExpireContract(p) ==
    /\ At(p, "break")
    /\ Write(p, upload[p].contract, upload[p].changes, "open")
    /\ UNCHANGED <<today, contracts, lastContract, records, raced>>

ExtendContract(p) ==
    /\ At(p, "continue")
    /\ Write(p, upload[p].contract, upload[p].changes, "record")
    /\ UNCHANGED <<today, contracts, lastContract, records, raced>>

\* _create_new_contract
OpenContract(p) ==
    /\ At(p, "open")
    /\ lastContract < MaxContracts
    /\ lastContract' = lastContract + 1
    /\ Set(p, [upload[p] EXCEPT !.step = "record", !.contract = lastContract + 1])
    /\ UNCHANGED <<today, contracts, records, raced>>

KeyTakenMutant(m) == InForce(m)
KeyTaken(m) == records[m] # NoRecord

\* The unique key makes the INSERT wait for another session's and then, if that
\* one committed, fail; the request fails with it and nothing of it remains.
InsertRecord(p) ==
    /\ At(p, "record")
    /\ \A q \in Proc \ {p} : ~At(q, "idle") /\ upload[q].month = upload[p].month =>
                                 ~upload[q].recorded
    /\ Set(p, IF KeyTaken(upload[p].month) THEN Idle
              ELSE [upload[p] EXCEPT !.step = "refresh", !.recorded = TRUE])
    /\ UNCHANGED <<today, contracts, lastContract, records, raced>>

\* A write to the person's history: the others go on with what they read.
Overtake(p) ==
    upload' = [q \in Proc |-> IF q = p THEN Idle
                              ELSE IF At(q, "idle") THEN Idle
                              ELSE [upload[q] EXCEPT !.fresh = FALSE]]

Contract(m) == [status |-> "active", entry |-> m, until |-> m]

Flushed(p) ==
    LET u == upload[p]
        Column(c, name, value) ==
            IF c = u.old /\ \E x \in u.changes : x[1] = name
            THEN (CHOOSE x \in u.changes : x[1] = name)[2] ELSE value
    IN  [c \in ContractId |->
           IF u.recorded /\ c = u.contract /\ ~Existing(c) THEN Contract(u.month)
           ELSE [status |-> Column(c, "status", contracts[c].status),
                 entry  |-> contracts[c].entry,
                 until  |-> Column(c, "until", contracts[c].until)]]

Refresh(table) ==
    [c \in ContractId |->
       IF table[c] = NoContract THEN NoContract
       ELSE [table[c] EXCEPT !.status = IF table[c].until >= today THEN "active" ELSE "expired"]]

\* _refresh_contracts_status, which waits for every locked row, and the commit.
EndUpload(p) ==
    /\ At(p, "refresh")
    /\ \A c \in ContractId : ~Locked(c, p)
    /\ contracts' = Refresh(Flushed(p))
    /\ IF upload[p].recorded
       THEN /\ records' = [records EXCEPT ![upload[p].month] =
                             [status |-> "active", contract |-> upload[p].contract]]
            /\ raced' = (raced \/ ~upload[p].fresh)
            /\ Overtake(p)
       ELSE Set(p, Idle) /\ UNCHANGED <<records, raced>>
    /\ UNCHANGED <<today, lastContract>>

\* The request dies, or the database breaks a circle of locks at its expense.
Abort(p) ==
    /\ ~At(p, "idle")
    /\ Set(p, Idle)
    /\ UNCHANGED <<today, contracts, lastContract, records, raced>>

\* The two rollback endpoints.  A record never leaves this state.
RollbackRecord(m) ==
    /\ InForce(m)
    /\ records' = [records EXCEPT ![m].status = "rolled_back"]
    /\ upload' = [q \in Proc |-> IF At(q, "idle") THEN Idle
                                 ELSE [upload[q] EXCEPT !.fresh = FALSE]]
    /\ UNCHANGED <<today, contracts, lastContract, raced>>

-----------------------------------------------------------------------------
Init ==
    /\ today \in Month
    /\ contracts = [c \in ContractId |-> NoContract]
    /\ lastContract = 0
    /\ records = [m \in Month |-> NoRecord]
    /\ upload = [p \in Proc |-> Idle]
    /\ raced = FALSE

Step(p) ==
    \/ Look(p) \/ FindLast(p) \/ FindContract(p)
    \/ ExpireContract(p) \/ ExtendContract(p) \/ OpenContract(p)
    \/ InsertRecord(p) \/ EndUpload(p)

Next ==
    \/ \E p \in Proc : \/ \E m \in Month : BeginUpload(p, m)
                       \/ Step(p)
                       \/ Abort(p)
    \/ \E m \in Month : RollbackRecord(m)

Spec == Init /\ [][Next]_vars

-----------------------------------------------------------------------------
(***************************************************************************)
(* Properties.                                                             *)
(***************************************************************************)
TypeOK ==
    /\ today \in Month
    /\ contracts \in [ContractId -> {NoContract} \cup
         [status : {"active", "expired"}, entry : Month, until : Month]]
    /\ lastContract \in 0 .. MaxContracts
    /\ records \in [Month -> {NoRecord} \cup
         [status : {"active", "rolled_back"}, contract : ContractId]]
    /\ upload \in [Proc -> {Idle} \cup Upload]
    /\ raced \in BOOLEAN

(***************************************************************************)
(* However uploads and rollbacks overlap, a contract has a record for      *)
(* every month from its entry to its end and for no other: a session that  *)
(* decided on an old history is stopped by the key of the records.         *)
(***************************************************************************)
MonthsStayContiguous ==
    \A c \in ContractId, m \in Month :
        (records[m].contract = c) <=>
            (Existing(c) /\ contracts[c].entry <= m /\ m <= contracts[c].until)

\* The tables are typed and every contract owns the months it claims.
ContractsMatchRecords == TypeOK /\ MonthsStayContiguous

(***************************************************************************)
(* Two months in a row are under one contract unless an upload was decided *)
(* on a history that another one, or a rollback, had changed by then: no   *)
(* order of uploads one after another starts the waiting times anew.       *)
(***************************************************************************)
ContinuousCoverIsOneContract ==
    ~raced => \A m \in 1 .. (LastMonth - 1) :
        InForce(m) /\ InForce(m + 1) => records[m].contract = records[m + 1].contract
=============================================================================
