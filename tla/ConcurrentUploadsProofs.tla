----------------------- MODULE ConcurrentUploadsProofs -----------------------
(***************************************************************************)
(* Uploads of one company that overlap leave every contract with the       *)
(* months it claims, and those that decided on a current history leave     *)
(* continuous cover under one contract.  The argument is about what an     *)
(* upload knows at each step: a record, once written, keeps its contract,  *)
(* so the month that an upload extends from stays under the contract it    *)
(* found, and the unique key tells it whether the next month is still      *)
(* free.                                                                   *)
(***************************************************************************)
EXTENDS ConcurrentUploads, TLAPS

-----------------------------------------------------------------------------
(***************************************************************************)
(* The invariant: of an upload u, contracts cs, records rs and the last id *)
(* n ever given to a contract.                                             *)
(***************************************************************************)
Expiry       == {<<"status", "expired">>}
Extension(m) == {<<"status", "active">>, <<"until", m>>}

Has(cs, c) == cs[c] # NoContract

\* The month an upload looked back to, and all that were in force then.
Latest(u, rs) ==
    u.fresh =>
        /\ u.last < u.month
        /\ \A m \in Month : rs[m].status = "active" => m <= u.last

Restarts(u, rs) ==
    u.fresh => \A m \in Month : rs[m].status = "active" => m + 1 < u.month

Reads(u, rs) ==
    /\ u.contract \in ContractId /\ u.last \in Month
    /\ u.last <= u.month
    /\ rs[u.last].contract = u.contract

Extends(u, rs) ==
    /\ Reads(u, rs) /\ Latest(u, rs)
    /\ ~Breaks(u.month, u.last)
    /\ u.changes \subseteq Extension(u.month)
    /\ <<"until", u.month>> \in u.changes \/ rs[u.month] # NoRecord

Opens(u, cs, rs) ==
    /\ u.contract \in ContractId /\ ~Has(cs, u.contract)
    /\ u.changes \subseteq Expiry
    /\ Restarts(u, rs)

Decided(u, cs, rs) ==
    \/ Opens(u, cs, rs)
    \/ Extends(u, rs) /\ (u.changes # {} => u.old = u.contract)

UploadOK(u, cs, rs, n) ==
    u = Idle \/
    /\ u.contract <= n
    /\ u.old # 0 => Has(cs, u.old)
    /\ u.step \in {"look", "last"} => u.contract = 0
    /\ u.step \in {"look", "last", "contract"} => u.changes = {}
    /\ u.step \in {"look", "last", "contract", "break", "continue"} => u.old = 0
    /\ u.step = "last" /\ u.fresh => rs[u.month].status # "active"
    /\ u.step = "contract" => Reads(u, rs) /\ Latest(u, rs)
    /\ u.step = "break" => Reads(u, rs) /\ u.changes \subseteq Expiry /\ Restarts(u, rs)
    /\ u.step = "continue" => Extends(u, rs)
    /\ u.step = "open" =>
         /\ u.contract # 0 => Has(cs, u.contract)
         /\ u.changes \subseteq Expiry
         /\ Restarts(u, rs)
    /\ u.step = "record" => Decided(u, cs, rs)
    /\ u.recorded => /\ u.step = "refresh"
                     /\ rs[u.month] = NoRecord
                     /\ Decided(u, cs, rs)
    /\ u.step = "refresh" /\ ~u.recorded => u.old = 0

\* Two uploads do not open one contract nor hold one key of the records.
Apart(u, v, cs) ==
    u # Idle /\ v # Idle =>
        /\ u.contract = v.contract => u.contract = 0 \/ Has(cs, u.contract)
        /\ u.recorded /\ v.recorded => u.month # v.month

Matched(cs, rs) ==
    \A c \in ContractId, m \in Month :
        (rs[m].contract = c) <=> (Has(cs, c) /\ cs[c].entry <= m /\ m <= cs[c].until)

OneContract(rs) ==
    \A m \in 1 .. (LastMonth - 1) :
        rs[m].status = "active" /\ rs[m + 1].status = "active"
            => rs[m].contract = rs[m + 1].contract

Inductive ==
    /\ TypeOK
    /\ Matched(contracts, records)
    /\ ~raced => OneContract(records)
    /\ \A c \in ContractId : Has(contracts, c) => c <= lastContract
    /\ \A p \in Proc : UploadOK(upload[p], contracts, records, lastContract)
    /\ \A p, q \in Proc : p # q => Apart(upload[p], upload[q], contracts)

-----------------------------------------------------------------------------
LEMMA InitInductive == Init => Inductive
<1> SUFFICES ASSUME Init PROVE Inductive
  OBVIOUS
<1>1. \A p \in Proc : upload[p] = Idle
  BY DEF Init
<1>2. TypeOK
  <2>1. lastContract \in 0 .. MaxContracts
    BY BoundsAssumption DEF Init
  <2>2. contracts \in [ContractId -> {NoContract} \cup
          [status : {"active", "expired"}, entry : Month, until : Month]]
    BY DEF Init
  <2> QED
    BY <2>1, <2>2 DEF Init, TypeOK
<1>3. Matched(contracts, records)
  BY BoundsAssumption DEF Init, Matched, Has, NoContract, NoRecord, ContractId, Month
<1>4. OneContract(records)
  BY BoundsAssumption DEF Init, OneContract, NoRecord, Month
<1>5. \A c \in ContractId : ~Has(contracts, c)
  BY DEF Init, Has
<1> QED
  BY <1>1, <1>2, <1>3, <1>4, <1>5 DEF Inductive, UploadOK, Apart

(***************************************************************************)
(* A step of one upload that writes no table.                              *)
(***************************************************************************)
LEMMA Advance ==
    ASSUME Inductive, NEW p \in Proc, NEW u \in {Idle} \cup Upload,
           Set(p, u), UNCHANGED <<today, contracts, lastContract, records, raced>>,
           UploadOK(u, contracts, records, lastContract),
           \A q \in Proc \ {p} : Apart(u, upload[q], contracts)
    PROVE  Inductive'
<1>1. /\ upload' \in [Proc -> {Idle} \cup Upload]
      /\ upload'[p] = u
      /\ \A q \in Proc \ {p} : upload'[q] = upload[q]
  BY DEF Set, Inductive, TypeOK
<1>2. TypeOK'
  BY <1>1 DEF Inductive, TypeOK
<1>3. \A q, r \in Proc : q # r => Apart(upload'[q], upload'[r], contracts')
  BY <1>1 DEF Inductive, Apart
<1>4. \A q \in Proc : UploadOK(upload'[q], contracts', records', lastContract')
  BY <1>1 DEF Inductive
<1> QED
  BY <1>2, <1>3, <1>4 DEF Inductive

\* What an upload in progress is.
LEMMA Busy ==
    ASSUME Inductive, NEW p \in Proc, ~At(p, "idle")
    PROVE  /\ upload[p] \in Upload /\ upload[p] # Idle
           /\ UploadOK(upload[p], contracts, records, lastContract)
           /\ \A q \in Proc \ {p} : Apart(upload[p], upload[q], contracts)
  BY DEF Inductive, TypeOK, At, Idle

LEMMA Dying ==
    ASSUME Inductive, NEW p \in Proc, Set(p, Idle),
           UNCHANGED <<today, contracts, lastContract, records, raced>>
    PROVE  Inductive'
<1>1. UploadOK(Idle, contracts, records, lastContract)
  BY DEF UploadOK
<1>2. \A q \in Proc \ {p} : Apart(Idle, upload[q], contracts)
  BY DEF Apart
<1> QED
  BY <1>1, <1>2, Advance

-----------------------------------------------------------------------------
LEMMA BeginInductive ==
    ASSUME Inductive, NEW p \in Proc, NEW m \in Month, BeginUpload(p, m)
    PROVE  Inductive'
<1> DEFINE u == Begun(m)
<1>1. u \in Upload /\ u # Idle
  BY DEF Begun, Upload, Idle
<1>2. UploadOK(u, contracts, records, lastContract)
  BY BoundsAssumption DEF UploadOK, Begun, Inductive, TypeOK
<1>3. \A q \in Proc \ {p} : Apart(u, upload[q], contracts)
  BY DEF Apart, Begun
<1> QED
  BY <1>1, <1>2, <1>3, Advance DEF BeginUpload

LEMMA LookInductive ==
    ASSUME Inductive, NEW p \in Proc, Look(p)
    PROVE  Inductive'
<1> DEFINE u == [upload[p] EXCEPT !.step = IF InForce(upload[p].month) THEN "refresh" ELSE "last"]
<1>1. upload[p] \in Upload /\ upload[p] # Idle /\ upload[p].step = "look"
  BY Busy DEF Look, At
<1>2. u \in Upload /\ u # Idle
  BY <1>1 DEF Upload, Idle
<1>3. UploadOK(u, contracts, records, lastContract)
  BY <1>1, Busy DEF UploadOK, Upload, InForce, At
<1>4. \A q \in Proc \ {p} : Apart(u, upload[q], contracts)
  BY <1>1, Busy DEF Apart, Upload, At
<1> QED
  BY <1>2, <1>3, <1>4, Advance DEF Look

LEMMA FindLastInductive ==
    ASSUME Inductive, NEW p \in Proc, FindLast(p)
    PROVE  Inductive'
<1>1. upload[p] \in Upload /\ upload[p] # Idle /\ upload[p].step = "last"
  BY Busy DEF FindLast, At
<1>2. /\ upload[p].contract = 0 /\ upload[p].changes = {} /\ upload[p].old = 0
      /\ ~upload[p].recorded
      /\ upload[p].fresh => records[upload[p].month].status # "active"
  BY <1>1, Busy DEF UploadOK, At
<1>3. ASSUME NEW l \in Month, IsLast(l),
             Set(p, [upload[p] EXCEPT !.last = l, !.contract = records[l].contract,
                       !.step = IF Retroactive(upload[p].month, l) THEN "refresh" ELSE "contract"])
      PROVE  Inductive'
  <2> DEFINE u == [upload[p] EXCEPT !.last = l, !.contract = records[l].contract,
                     !.step = IF Retroactive(upload[p].month, l) THEN "refresh" ELSE "contract"]
  <2>1. records[l].contract \in ContractId /\ records[l].status = "active"
    BY <1>3 DEF IsLast, InForce, Inductive, TypeOK, NoRecord
  <2>2. u \in Upload /\ u # Idle
    BY <1>1, <2>1 DEF Upload, Idle
  <2>3. Has(contracts, u.contract) /\ u.contract <= lastContract
    BY <1>1, <2>1 DEF Inductive, Matched, Upload
  <2>4. u.step = "contract" => Reads(u, records) /\ Latest(u, records)
    BY <1>1, <1>2, <1>3, <2>1 DEF Reads, Latest, Upload, IsLast, InForce, Retroactive, Month
  <2>5. UploadOK(u, contracts, records, lastContract)
    BY <1>1, <1>2, <2>3, <2>4 DEF UploadOK, Upload
  <2>6. \A q \in Proc \ {p} : Apart(u, upload[q], contracts)
    BY <1>1, <1>2, <2>3 DEF Apart, Upload
  <2> QED
    BY <1>3, <2>2, <2>5, <2>6, Advance DEF FindLast
<1>4. ASSUME \A l \in Month : ~InForce(l), Set(p, [upload[p] EXCEPT !.step = "open"])
      PROVE  Inductive'
  <2> DEFINE u == [upload[p] EXCEPT !.step = "open"]
  <2>1. u \in Upload /\ u # Idle
    BY <1>1 DEF Upload, Idle
  <2>2. Restarts(u, records)
    BY <1>4 DEF Restarts, InForce
  <2>3. UploadOK(u, contracts, records, lastContract)
    BY <1>1, <1>2, <2>2, Busy DEF UploadOK, Upload, At
  <2>4. \A q \in Proc \ {p} : Apart(u, upload[q], contracts)
    BY <1>1, <1>2 DEF Apart, Upload
  <2> QED
    BY <1>4, <2>1, <2>3, <2>4, Advance DEF FindLast
<1> QED
  BY <1>3, <1>4 DEF FindLast

LEMMA FindContractInductive ==
    ASSUME Inductive, NEW p \in Proc, FindContract(p)
    PROVE  Inductive'
<1> DEFINE w == upload[p]
           status == contracts[w.contract].status
           until  == contracts[w.contract].until
<1>1. w \in Upload /\ w # Idle /\ w.step = "contract"
  BY Busy DEF FindContract, At
<1>2. /\ w.contract <= lastContract /\ w.changes = {} /\ w.old = 0 /\ ~w.recorded
      /\ Reads(w, records) /\ Latest(w, records)
  BY <1>1, Busy DEF UploadOK, At
<1>3. Has(contracts, w.contract) /\ contracts[w.contract].until \in Month
  BY <1>1, <1>2 DEF Reads, Inductive, Matched, Has, TypeOK
<1>4. ASSUME Breaks(w.month, w.last),
             Set(p, [w EXCEPT !.step = "break",
                       !.changes = {<<"status", "expired">>} \ {<<"status", x>> :
                                     x \in {status} \ {"active"}}])
      PROVE  Inductive'
  <2> DEFINE changes == {<<"status", "expired">>} \ {<<"status", x>> : x \in {status} \ {"active"}}
             u == [w EXCEPT !.step = "break", !.changes = changes]
  <2>1. changes \subseteq Expiry /\ changes \in SUBSET Change
    BY DEF Expiry, Change
  <2> HIDE DEF changes
  <2>2. u \in Upload /\ u # Idle
    BY <1>1, <2>1 DEF Upload, Idle
  <2>3. Restarts(u, records)
    BY <1>1, <1>2, <1>4 DEF Restarts, Latest, Breaks, Upload, Month
  <2>4. Reads(u, records) /\ u.changes \subseteq Expiry
    BY <1>1, <1>2, <2>1 DEF Reads, Upload
  <2>5. UploadOK(u, contracts, records, lastContract)
    BY <1>1, <1>2, <2>3, <2>4 DEF UploadOK, Upload
  <2>6. \A q \in Proc \ {p} : Apart(u, upload[q], contracts)
    BY <1>1, <1>2, <1>3 DEF Apart, Upload
  <2> QED
    BY <1>4, <2>2, <2>5, <2>6, Advance DEF FindContract, changes
<1>5. ASSUME ~Breaks(w.month, w.last),
             Set(p, [w EXCEPT !.step = "continue",
                       !.changes = {<<"status", "active">>, <<"until", w.month>>}
                                   \ {<<"status", status>>, <<"until", until>>}])
      PROVE  Inductive'
  <2> DEFINE changes == {<<"status", "active">>, <<"until", w.month>>}
                          \ {<<"status", status>>, <<"until", until>>}
             u == [w EXCEPT !.step = "continue", !.changes = changes]
  <2>1. changes \subseteq Extension(w.month) /\ changes \in SUBSET Change
    BY <1>1 DEF Extension, Change, Upload
  <2>2. <<"until", w.month>> \in changes \/ until = w.month
    OBVIOUS
  <2> HIDE DEF changes
  <2>3. u \in Upload /\ u # Idle
    BY <1>1, <2>1 DEF Upload, Idle
  <2>4. until = w.month => records[w.month] # NoRecord
    <3> SUFFICES ASSUME until = w.month PROVE records[w.month] # NoRecord
      OBVIOUS
    <3>1. contracts[w.contract].entry <= w.last /\ w.last <= w.month
      BY <1>2 DEF Reads, Inductive, Matched
    <3>2. contracts[w.contract].entry \in Int /\ w.last \in Int /\ w.month \in Month
      BY <1>1, <1>2, <1>3 DEF Reads, Has, Inductive, TypeOK, Upload, Month
    <3>3. contracts[w.contract].entry <= w.month
      BY <3>1, <3>2 DEF Month
    <3>4. records[w.month].contract = w.contract
      BY <1>2, <1>3, <3>2, <3>3 DEF Reads, Inductive, Matched, Month
    <3> QED
      BY <1>2, <3>4 DEF Reads, NoRecord, ContractId
  <2>5. Extends(u, records)
    BY <1>1, <1>2, <1>5, <2>1, <2>2, <2>4 DEF Extends, Reads, Latest, Upload
  <2>6. UploadOK(u, contracts, records, lastContract)
    BY <1>1, <1>2, <2>5 DEF UploadOK, Upload
  <2>7. \A q \in Proc \ {p} : Apart(u, upload[q], contracts)
    BY <1>1, <1>2, <1>3 DEF Apart, Upload
  <2> QED
    BY <1>5, <2>3, <2>6, <2>7, Advance DEF FindContract, changes
<1> QED
  BY <1>4, <1>5 DEF FindContract

(***************************************************************************)
(* The UPDATE of the contract.                                             *)
(***************************************************************************)
LEMMA WriteInductive ==
    ASSUME Inductive, NEW p \in Proc, ExpireContract(p) \/ ExtendContract(p)
    PROVE  Inductive'
<1> DEFINE w == upload[p]
           step == IF w.step = "break" THEN "open" ELSE "record"
           old == IF w.changes = {} THEN 0 ELSE w.contract
           u == [w EXCEPT !.step = step, !.changes = w.changes, !.old = old]
<1>1. w \in Upload /\ w # Idle /\ w.step \in {"break", "continue"}
  BY Busy DEF ExpireContract, ExtendContract, At
<1>2. /\ w.contract <= lastContract /\ w.old = 0 /\ ~w.recorded /\ Reads(w, records)
      /\ w.step = "break" => w.changes \subseteq Expiry /\ Restarts(w, records)
      /\ w.step = "continue" => Extends(w, records)
  BY <1>1, Busy DEF UploadOK, Extends, At
<1>3. Has(contracts, w.contract)
  BY <1>2 DEF Reads, Inductive, Matched
<1>4. /\ Set(p, u)
      /\ UNCHANGED <<today, contracts, lastContract, records, raced>>
  BY DEF ExpireContract, ExtendContract, Write, At
<1>5. u \in Upload /\ u # Idle
  BY <1>1, <1>2 DEF Upload, Idle
<1>6. CASE w.step = "break"
  <2>1. Restarts(u, records)
    BY <1>1, <1>2, <1>6 DEF Restarts, Upload
  <2>2. UploadOK(u, contracts, records, lastContract)
    BY <1>1, <1>2, <1>3, <1>6, <2>1 DEF UploadOK, Upload
  <2>3. \A q \in Proc \ {p} : Apart(u, upload[q], contracts)
    BY <1>1, <1>2, <1>3 DEF Apart, Upload
  <2> QED
    BY <1>4, <1>5, <2>2, <2>3, Advance
<1>7. CASE w.step = "continue"
  <2>1. Extends(u, records)
    BY <1>1, <1>2, <1>7 DEF Extends, Reads, Latest, Upload
  <2>2. UploadOK(u, contracts, records, lastContract)
    BY <1>1, <1>2, <1>3, <1>7, <2>1 DEF UploadOK, Decided, Upload
  <2>3. \A q \in Proc \ {p} : Apart(u, upload[q], contracts)
    BY <1>1, <1>2, <1>3 DEF Apart, Upload
  <2> QED
    BY <1>4, <1>5, <2>2, <2>3, Advance
<1> QED
  BY <1>1, <1>6, <1>7

LEMMA OpenInductive ==
    ASSUME Inductive, NEW p \in Proc, OpenContract(p)
    PROVE  Inductive'
<1> DEFINE w == upload[p]
           c == lastContract + 1
           u == [w EXCEPT !.step = "record", !.contract = c]
<1>1. w \in Upload /\ w # Idle /\ w.step = "open"
  BY Busy DEF OpenContract, At
<1>2. /\ w.old # 0 => Has(contracts, w.old)
      /\ ~w.recorded /\ w.changes \subseteq Expiry /\ Restarts(w, records)
  BY <1>1, Busy DEF UploadOK, At
<1>3. /\ lastContract < MaxContracts /\ lastContract' = c
      /\ upload' = [upload EXCEPT ![p] = u]
      /\ UNCHANGED <<today, contracts, records, raced>>
  BY DEF OpenContract, Set
<1>4. lastContract \in Nat /\ c \in ContractId /\ c \in 0 .. MaxContracts
  BY <1>3, BoundsAssumption DEF Inductive, TypeOK, ContractId
<1>5. ~Has(contracts, c)
  BY <1>4 DEF Inductive, ContractId
<1>6. u \in Upload /\ u # Idle
  BY <1>1, <1>4 DEF Upload, Idle
<1>7. Restarts(u, records)
  BY <1>1, <1>2 DEF Restarts, Upload
<1>8. UploadOK(u, contracts, records, c)
  BY <1>1, <1>2, <1>4, <1>5, <1>7 DEF UploadOK, Decided, Opens, Upload
<1>9. /\ upload' \in [Proc -> {Idle} \cup Upload]
      /\ upload'[p] = u
      /\ \A q \in Proc \ {p} : upload'[q] = upload[q]
  BY <1>3, <1>6 DEF Inductive, TypeOK
<1>10. TypeOK'
  BY <1>3, <1>4, <1>9 DEF Inductive, TypeOK
<1>11. \A q \in Proc \ {p} :
         upload[q] # Idle => upload[q] \in Upload /\ upload[q].contract <= lastContract
  <2> TAKE q \in Proc \ {p}
  <2>1. upload[q] \in {Idle} \cup Upload
    BY DEF Inductive, TypeOK
  <2>2. UploadOK(upload[q], contracts, records, lastContract)
    BY DEF Inductive
  <2> QED
    BY <2>1, <2>2 DEF UploadOK
<1>12. \A q \in Proc \ {p} : UploadOK(upload[q], contracts, records, c)
  <2> SUFFICES ASSUME NEW q \in Proc \ {p}, upload[q] # Idle
               PROVE  UploadOK(upload[q], contracts, records, c)
    BY DEF UploadOK
  <2>1. UploadOK(upload[q], contracts, records, lastContract)
    BY DEF Inductive
  <2>2. upload[q].contract <= c
    BY <1>4, <1>11 DEF Upload, ContractId
  <2> QED
    BY <2>1, <2>2 DEF UploadOK
<1>13. \A q \in Proc \ {p} : Apart(u, upload[q], contracts) /\ Apart(upload[q], u, contracts)
  <2> TAKE q \in Proc \ {p}
  <2>1. u.contract = c /\ ~u.recorded
    BY <1>1, <1>2 DEF Upload
  <2>2. upload[q] # Idle => upload[q].contract # c
    BY <1>4, <1>11 DEF Upload, ContractId
  <2> QED
    BY <2>1, <2>2 DEF Apart
<1>14. \A q, r \in Proc : q # r => Apart(upload'[q], upload'[r], contracts')
  BY <1>3, <1>9, <1>13 DEF Inductive
<1>15. \A q \in Proc : UploadOK(upload'[q], contracts', records', lastContract')
  BY <1>3, <1>8, <1>9, <1>12
<1>16. \A k \in ContractId : Has(contracts', k) => k <= lastContract'
  BY <1>3, <1>4 DEF Inductive, ContractId
<1> QED
  BY <1>3, <1>10, <1>14, <1>15, <1>16 DEF Inductive

LEMMA InsertInductive ==
    ASSUME Inductive, NEW p \in Proc, InsertRecord(p)
    PROVE  Inductive'
<1> DEFINE w == upload[p]
           u == [w EXCEPT !.step = "refresh", !.recorded = TRUE]
<1>1. w \in Upload /\ w # Idle /\ w.step = "record"
  BY Busy DEF InsertRecord, At
<1>2. CASE KeyTaken(w.month)
  BY <1>2, Dying DEF InsertRecord
<1>3. CASE ~KeyTaken(w.month)
  <2>1. u \in Upload /\ u # Idle
    BY <1>1 DEF Upload, Idle
  <2>2. records[w.month] = NoRecord
    BY <1>3 DEF KeyTaken
  <2>3. Decided(w, contracts, records)
    BY <1>1, Busy DEF UploadOK, At
  <2>4. Decided(u, contracts, records)
    BY <1>1, <2>3 DEF Decided, Opens, Extends, Reads, Latest, Restarts, Upload
  <2>5. UploadOK(u, contracts, records, lastContract)
    BY <1>1, <2>2, <2>4, Busy DEF UploadOK, Upload, At
  <2>6. \A q \in Proc \ {p} : upload[q] # Idle /\ upload[q].month = w.month => ~upload[q].recorded
    BY DEF InsertRecord, At, Inductive, TypeOK, Upload
  <2>7. \A q \in Proc \ {p} : Apart(u, upload[q], contracts)
    BY <1>1, <2>6, Busy DEF Apart, Upload, At
  <2> QED
    BY <1>3, <2>1, <2>5, <2>7, Advance DEF InsertRecord
<1> QED
  BY <1>2, <1>3

(***************************************************************************)
(* What a commit makes of the contracts.                                   *)
(***************************************************************************)
LEMMA CommittedContracts ==
    ASSUME Inductive, NEW p \in Proc, EndUpload(p)
    PROVE  LET u == upload[p] IN
           /\ contracts' \in [ContractId -> {NoContract} \cup
                [status : {"active", "expired"}, entry : Month, until : Month]]
           /\ \A c \in ContractId :
                /\ Has(contracts', c) <=> Has(contracts, c) \/ (u.recorded /\ c = u.contract)
                /\ Has(contracts, c) => contracts'[c].entry = contracts[c].entry
                /\ Has(contracts, c) /\ ~(u.recorded /\ c = u.contract)
                      => contracts'[c].until = contracts[c].until
                /\ u.recorded /\ c = u.contract =>
                      /\ contracts'[c].until = u.month
                      /\ ~Has(contracts, c) => contracts'[c].entry = u.month
<1> DEFINE u == upload[p]
           Row == [status : {"active", "expired"}, entry : Month, until : Month]
           f == Flushed(p)
<1>1. u \in Upload /\ u # Idle /\ u.step = "refresh"
  BY Busy DEF EndUpload, At
<1>2. /\ u.old # 0 => Has(contracts, u.old)
      /\ u.recorded => records[u.month] = NoRecord /\ Decided(u, contracts, records)
      /\ ~u.recorded => u.old = 0
  BY <1>1, Busy DEF UploadOK, At
<1>3. \A c \in ContractId : contracts[c] = NoContract \/ contracts[c] \in Row
  BY DEF Inductive, TypeOK
<1>4. (CHOOSE x \in u.changes : x[1] = "status")[2] \in {"active", "expired"}
      \/ ~\E x \in u.changes : x[1] = "status"
  <2> SUFFICES ASSUME \E x \in u.changes : x[1] = "status"
               PROVE  (CHOOSE x \in u.changes : x[1] = "status")[2] \in {"active", "expired"}
    OBVIOUS
  <2>1. \A x \in u.changes : x[1] = "status" => x[2] \in {"active", "expired"}
    BY <1>1 DEF Upload, Change
  <2> DEFINE y == CHOOSE x \in u.changes : x[1] = "status"
  <2>2. y \in u.changes /\ y[1] = "status"
    OBVIOUS
  <2> HIDE DEF y
  <2>3. y[2] \in {"active", "expired"}
    BY <2>1, <2>2
  <2> QED
    BY <2>3 DEF y
<1>5. ASSUME u.recorded, ~Opens(u, contracts, records)
      PROVE  /\ Has(contracts, u.contract) /\ u.old = u.contract
             /\ \E x \in u.changes : x[1] = "until"
             /\ (CHOOSE x \in u.changes : x[1] = "until")[2] = u.month
  <2>1. Extends(u, records) /\ (u.changes # {} => u.old = u.contract)
    BY <1>2, <1>5 DEF Decided
  <2>2. <<"until", u.month>> \in u.changes
    BY <1>2, <1>5, <2>1 DEF Extends
  <2>3. Has(contracts, u.contract)
    BY <2>1 DEF Extends, Reads, Inductive, Matched
  <2>4. <<"until", u.month>>[1] = "until"
    OBVIOUS
  <2>5. \A x \in u.changes : x[1] = "until" => x[2] = u.month
    BY <2>1 DEF Extends, Extension
  <2> DEFINE y == CHOOSE x \in u.changes : x[1] = "until"
  <2>6. \E x \in u.changes : x[1] = "until"
    BY <2>2, <2>4
  <2>7. y \in u.changes /\ y[1] = "until"
    BY <2>6
  <2> HIDE DEF y
  <2>8. y[2] = u.month
    BY <2>5, <2>7
  <2> QED
    BY <2>1, <2>2, <2>3, <2>6, <2>8 DEF y
<1>6. ASSUME u.recorded, Opens(u, contracts, records)
      PROVE  ~\E x \in u.changes : x[1] = "until"
  BY <1>6 DEF Opens, Expiry
<1>7. ASSUME NEW c \in ContractId
      PROVE  f[c] = IF u.recorded /\ c = u.contract /\ ~Existing(c) THEN Contract(u.month)
                    ELSE [status |-> IF c = u.old /\ \E x \in u.changes : x[1] = "status"
                                     THEN (CHOOSE x \in u.changes : x[1] = "status")[2]
                                     ELSE contracts[c].status,
                          entry  |-> contracts[c].entry,
                          until  |-> IF c = u.old /\ \E x \in u.changes : x[1] = "until"
                                     THEN (CHOOSE x \in u.changes : x[1] = "until")[2]
                                     ELSE contracts[c].until]
  BY DEF Flushed
<1> HIDE DEF f
<1>8. \A c \in ContractId : contracts'[c] =
         IF f[c] = NoContract THEN NoContract
         ELSE [f[c] EXCEPT !.status = IF f[c].until >= today THEN "active" ELSE "expired"]
  BY DEF EndUpload, Refresh, f
<1>9. ASSUME NEW c \in ContractId, ~Has(contracts, c), ~(u.recorded /\ c = u.contract)
      PROVE  f[c] = NoContract
  <2>1. c # u.old
    BY <1>2, <1>9 DEF ContractId
  <2> QED
    BY <1>7, <1>9, <2>1 DEF Has, NoContract
<1>10. ASSUME NEW c \in ContractId, ~Has(contracts, c), u.recorded, c = u.contract
       PROVE  f[c] = Contract(u.month)
  BY <1>7, <1>10 DEF Has, Existing
<1>11. ASSUME NEW c \in ContractId, Has(contracts, c)
       PROVE  /\ f[c] \in Row /\ f[c].entry = contracts[c].entry
              /\ f[c].until = IF u.recorded /\ c = u.contract THEN u.month ELSE contracts[c].until
  <2>1. contracts[c] \in Row
    BY <1>3, <1>11 DEF Has
  <2>2. f[c] = [status |-> IF c = u.old /\ \E x \in u.changes : x[1] = "status"
                           THEN (CHOOSE x \in u.changes : x[1] = "status")[2]
                           ELSE contracts[c].status,
                entry  |-> contracts[c].entry,
                until  |-> IF c = u.old /\ \E x \in u.changes : x[1] = "until"
                           THEN (CHOOSE x \in u.changes : x[1] = "until")[2]
                           ELSE contracts[c].until]
    BY <1>7, <1>11 DEF Has, Existing
  <2>3. f[c].status \in {"active", "expired"} /\ f[c].entry = contracts[c].entry
    BY <1>4, <2>1, <2>2
  <2>4. f[c].until = IF u.recorded /\ c = u.contract THEN u.month ELSE contracts[c].until
    <3>1. CASE ~u.recorded
      BY <1>2, <2>2, <3>1 DEF ContractId
    <3>2. CASE u.recorded /\ Opens(u, contracts, records)
      BY <1>6, <1>11, <2>2, <3>2 DEF Opens
    <3>3. CASE u.recorded /\ ~Opens(u, contracts, records)
      BY <1>5, <2>2, <3>3
    <3> QED
      BY <3>1, <3>2, <3>3
  <2>5. f[c].until \in Month
    BY <1>1, <2>1, <2>4 DEF Upload
  <2> QED
    BY <2>1, <2>2, <2>3, <2>4, <2>5
<1>12. ASSUME NEW c \in ContractId, f[c] \in Row
       PROVE  /\ contracts'[c] \in Row /\ Has(contracts', c)
              /\ contracts'[c].entry = f[c].entry /\ contracts'[c].until = f[c].until
  <2> DEFINE status == IF f[c].until >= today THEN "active" ELSE "expired"
  <2>1. f[c] # NoContract
    BY <1>12 DEF NoContract
  <2>2. contracts'[c] = [f[c] EXCEPT !.status = status] /\ status \in {"active", "expired"}
    BY <1>8, <2>1
  <2> HIDE DEF status
  <2>3. /\ contracts'[c] \in Row
        /\ contracts'[c].entry = f[c].entry /\ contracts'[c].until = f[c].until
    BY <1>12, <2>2
  <2>4. contracts'[c] # NoContract
    BY <2>3 DEF NoContract
  <2> QED
    BY <2>3, <2>4 DEF Has
<1>13. Contract(u.month) \in Row /\ Contract(u.month).entry = u.month
       /\ Contract(u.month).until = u.month
  BY <1>1 DEF Contract, Upload
<1>14. DOMAIN contracts' = ContractId /\ contracts' = [c \in ContractId |-> contracts'[c]]
  <2>1. contracts' = Refresh(f)
    BY DEF EndUpload, f
  <2> QED
    BY <2>1 DEF Refresh
<1>15. \A c \in ContractId : contracts'[c] \in {NoContract} \cup Row
  <2> TAKE c \in ContractId
  <2>1. CASE f[c] \in Row
    BY <1>12, <2>1
  <2>2. CASE f[c] = NoContract
    BY <1>8, <2>2
  <2> QED
    BY <1>9, <1>10, <1>11, <1>13, <2>1, <2>2
<1>16. contracts' \in [ContractId -> {NoContract} \cup Row]
  BY <1>14, <1>15
<1>17. \A c \in ContractId :
          /\ Has(contracts', c) <=> Has(contracts, c) \/ (u.recorded /\ c = u.contract)
          /\ Has(contracts, c) => contracts'[c].entry = contracts[c].entry
          /\ Has(contracts, c) /\ ~(u.recorded /\ c = u.contract)
                => contracts'[c].until = contracts[c].until
          /\ u.recorded /\ c = u.contract =>
                /\ contracts'[c].until = u.month
                /\ ~Has(contracts, c) => contracts'[c].entry = u.month
  <2> TAKE c \in ContractId
  <2>1. CASE Has(contracts, c)
    BY <1>11, <1>12, <2>1
  <2>2. CASE ~Has(contracts, c) /\ u.recorded /\ c = u.contract
    BY <1>10, <1>12, <1>13, <2>2
  <2>3. CASE ~Has(contracts, c) /\ ~(u.recorded /\ c = u.contract)
    BY <1>8, <1>9, <2>3 DEF Has
  <2> QED
    BY <2>1, <2>2, <2>3
<1> QED
  BY <1>16, <1>17

(***************************************************************************)
(* The months of a contract after a commit with a record.                  *)
(***************************************************************************)
LEMMA CommittedMonths ==
    ASSUME Inductive, NEW p \in Proc, EndUpload(p), upload[p].recorded
    PROVE  /\ Matched(contracts', records')
           /\ upload[p].fresh /\ OneContract(records) => OneContract(records')
<1> DEFINE u == upload[p]
           d == u.contract
           n == u.month
<1>1. u \in Upload /\ u # Idle /\ u.step = "refresh"
  BY Busy DEF EndUpload, At
<1>2. records[n] = NoRecord /\ Decided(u, contracts, records)
  BY <1>1, Busy DEF UploadOK, At
<1>3. n \in Month /\ d \in ContractId
  BY <1>1, <1>2 DEF Upload, Decided, Opens, Extends, Reads
<1>4. records' = [records EXCEPT ![n] = [status |-> "active", contract |-> d]]
  BY DEF EndUpload
<1>5. /\ records'[n].contract = d /\ records'[n].status = "active"
      /\ \A m \in Month \ {n} : records'[m] = records[m]
  BY <1>3, <1>4 DEF Inductive, TypeOK
<1>6. \A c \in ContractId : records[n].contract # c
  BY <1>2 DEF NoRecord, ContractId
<1>7. \A c \in ContractId :
         Has(contracts, c) => contracts[c].entry \in Month /\ contracts[c].until \in Month
  BY DEF Inductive, TypeOK, Has
<1>8. ASSUME ~Opens(u, contracts, records)
      PROVE  /\ Extends(u, records) /\ Has(contracts, d)
             /\ u.last \in Month /\ n = u.last + 1
             /\ contracts[d].entry <= u.last /\ contracts[d].until = u.last
  <2>1. Extends(u, records) /\ Reads(u, records)
    BY <1>2, <1>8 DEF Decided, Extends
  <2>2. Has(contracts, d) /\ contracts[d].entry <= u.last /\ u.last <= contracts[d].until
    BY <2>1 DEF Reads, Inductive, Matched
  <2>3. u.last \in Month /\ u.last <= n /\ records[u.last].contract = d
    BY <2>1 DEF Reads
  <2>4. u.last # n
    BY <1>3, <1>6, <2>3
  <2>5. n <= u.last + 1
    BY <1>1, <2>1, <2>3 DEF Extends, Breaks, Upload, Month
  <2>6. n = u.last + 1
    BY <1>3, <2>3, <2>4, <2>5 DEF Month
  <2>7. ~(contracts[d].entry <= n /\ n <= contracts[d].until)
    BY <1>3, <1>6, <2>2 DEF Inductive, Matched
  <2>8. contracts[d].until = u.last
    BY <1>3, <1>7, <2>2, <2>3, <2>6, <2>7 DEF Month
  <2> QED
    BY <2>1, <2>2, <2>3, <2>6, <2>8
<1>9. ASSUME NEW c \in ContractId, NEW m \in Month
      PROVE  (records'[m].contract = c) <=>
                (Has(contracts', c) /\ contracts'[c].entry <= m /\ m <= contracts'[c].until)
  <2>1. (records[m].contract = c) <=>
           (Has(contracts, c) /\ contracts[c].entry <= m /\ m <= contracts[c].until)
    BY DEF Inductive, Matched
  <2>2. CASE c # d
    <3>1. /\ Has(contracts', c) <=> Has(contracts, c)
          /\ Has(contracts, c) => /\ contracts'[c].entry = contracts[c].entry
                                  /\ contracts'[c].until = contracts[c].until
      BY <2>2, CommittedContracts
    <3>2. (records'[m].contract = c) <=> (records[m].contract = c)
      BY <1>5, <1>6, <2>2
    <3> QED
      BY <2>1, <3>1, <3>2
  <2>3. CASE c = d /\ Opens(u, contracts, records)
    <3>1. ~Has(contracts, c) /\ records[m].contract # c
      BY <2>1, <2>3 DEF Opens
    <3>2. Has(contracts', c) /\ contracts'[c].entry = n /\ contracts'[c].until = n
      BY <2>3, <3>1, CommittedContracts
    <3>3. (records'[m].contract = c) <=> m = n
      BY <1>5, <2>3, <3>1
    <3> QED
      BY <1>3, <3>2, <3>3 DEF Month
  <2>4. CASE c = d /\ ~Opens(u, contracts, records)
    <3>1. /\ Has(contracts', c) /\ contracts'[c].entry = contracts[c].entry
          /\ contracts'[c].until = n
      BY <1>8, <2>4, CommittedContracts
    <3>2. (records'[m].contract = c) <=> m = n \/ (contracts[c].entry <= m /\ m <= u.last)
      BY <1>5, <1>8, <2>1, <2>4
    <3>3. contracts[c].entry \in Int /\ contracts[c].entry <= u.last /\ n = u.last + 1
      BY <1>7, <1>8, <2>4 DEF Month
    <3> QED
      BY <1>3, <1>8, <2>4, <3>1, <3>2, <3>3 DEF Month
  <2> QED
    BY <2>2, <2>3, <2>4
<1>10. ASSUME u.fresh, OneContract(records), NEW m \in 1 .. (LastMonth - 1),
              records'[m].status = "active", records'[m + 1].status = "active"
       PROVE  records'[m].contract = records'[m + 1].contract
  <2>1. m \in Month /\ m + 1 \in Month
    BY BoundsAssumption DEF Month
  <2>2. CASE m # n /\ m + 1 # n
    BY <1>5, <1>10, <2>1, <2>2 DEF OneContract
  <2>3. CASE m = n
    <3>1. records[n + 1].status = "active"
      BY <1>3, <1>5, <1>10, <2>1, <2>3 DEF Month
    <3>2. CASE Opens(u, contracts, records)
      BY <1>3, <1>10, <2>1, <2>3, <3>1, <3>2 DEF Opens, Restarts, Month
    <3>3. CASE ~Opens(u, contracts, records)
      BY <1>3, <1>8, <1>10, <2>1, <2>3, <3>1, <3>3 DEF Extends, Latest, Month
    <3> QED
      BY <3>2, <3>3
  <2>4. CASE m + 1 = n
    <3>1. records[m].status = "active" /\ records'[m] = records[m]
      BY <1>5, <1>10, <2>1, <2>4 DEF Month
    <3>2. CASE Opens(u, contracts, records)
      BY <1>3, <1>10, <2>1, <2>4, <3>1, <3>2 DEF Opens, Restarts, Month
    <3>3. CASE ~Opens(u, contracts, records)
      <4>1. m = u.last
        BY <1>8, <2>1, <2>4, <3>3 DEF Month
      <4> QED
        BY <1>5, <1>8, <2>4, <3>1, <3>3, <4>1 DEF Extends, Reads
    <3> QED
      BY <3>2, <3>3
  <2> QED
    BY <2>2, <2>3, <2>4
<1> QED
  BY <1>9, <1>10 DEF Matched, OneContract

(***************************************************************************)
(* The others after a commit or a rollback: what they found stays, but is  *)
(* no longer fresh.                                                        *)
(***************************************************************************)
Aged(v) == [v EXCEPT !.fresh = FALSE]

LEMMA OvertakenStays ==
    ASSUME NEW v \in Upload, v # Idle, NEW cs, NEW cs2, NEW rs, NEW rs2, NEW n,
           UploadOK(v, cs, rs, n),
           \A c \in ContractId : Has(cs, c) => Has(cs2, c),
           v.contract \in ContractId /\ ~Has(cs, v.contract) => ~Has(cs2, v.contract),
           \A m \in Month : rs[m] # NoRecord =>
               rs2[m] # NoRecord /\ rs2[m].contract = rs[m].contract,
           v.recorded => rs2[v.month] = NoRecord
    PROVE  /\ Aged(v) \in Upload /\ Aged(v) # Idle
           /\ UploadOK(Aged(v), cs2, rs2, n)
<1> DEFINE u == Aged(v)
<1>1. /\ u \in Upload /\ u # Idle
      /\ u.step = v.step /\ u.month = v.month /\ u.last = v.last /\ u.old = v.old
      /\ u.changes = v.changes /\ u.contract = v.contract /\ u.recorded = v.recorded
      /\ ~u.fresh
  BY DEF Aged, Upload, Idle
<1>2. v.month \in Month /\ v.old \in ContractId \cup {0}
  BY DEF Upload
<1> HIDE DEF u
<1>3. Latest(u, rs2) /\ Restarts(u, rs2)
  BY <1>1 DEF Latest, Restarts
<1>4. Reads(v, rs) => Reads(u, rs2)
  BY <1>1 DEF Reads, NoRecord, ContractId
<1>5. Extends(v, rs) => Extends(u, rs2)
  BY <1>1, <1>2, <1>3, <1>4 DEF Extends
<1>6. Opens(v, cs, rs) => Opens(u, cs2, rs2)
  BY <1>1, <1>3 DEF Opens
<1>7. Decided(v, cs, rs) => Decided(u, cs2, rs2)
  BY <1>1, <1>5, <1>6 DEF Decided
<1>8. UploadOK(u, cs2, rs2, n)
  <2>1. v.old # 0 => Has(cs2, v.old)
    BY <1>2 DEF UploadOK
  <2>2. v.step = "open" => /\ v.contract # 0 => Has(cs2, v.contract)
                           /\ v.changes \subseteq Expiry
    <3>1. v.contract \in ContractId \cup {0}
      BY DEF Upload
    <3> QED
      BY <3>1 DEF UploadOK
  <2> QED
    BY <1>1, <1>3, <1>4, <1>5, <1>7, <2>1, <2>2 DEF UploadOK
<1> QED
  BY <1>1, <1>8 DEF u

LEMMA SameContractsStay ==
    ASSUME NEW v \in {Idle} \cup Upload, NEW cs, NEW cs2, NEW rs, NEW n,
           UploadOK(v, cs, rs, n),
           \A c \in ContractId : Has(cs, c) <=> Has(cs2, c)
    PROVE  UploadOK(v, cs2, rs, n)
<1> SUFFICES ASSUME v \in Upload, v # Idle PROVE UploadOK(v, cs2, rs, n)
  BY DEF UploadOK
<1>1. v.contract \in ContractId \cup {0} /\ v.old \in ContractId \cup {0}
  BY DEF Upload
<1>2. Decided(v, cs, rs) => Decided(v, cs2, rs)
  BY DEF Decided, Opens
<1> QED
  BY <1>1, <1>2 DEF UploadOK

LEMMA ApartGrows ==
    ASSUME NEW u \in {Idle} \cup Upload, NEW v \in {Idle} \cup Upload,
           NEW cs, NEW cs2, Apart(u, v, cs),
           \A c \in ContractId : Has(cs, c) => Has(cs2, c)
    PROVE  Apart(u, v, cs2)
  BY DEF Apart, Upload

LEMMA AgedApart ==
    ASSUME NEW u \in Upload, NEW v \in Upload, u # Idle, v # Idle, NEW cs, Apart(u, v, cs)
    PROVE  Apart(Aged(u), Aged(v), cs)
<1>1. Aged(u).contract = u.contract /\ Aged(u).recorded = u.recorded /\ Aged(u).month = u.month
  BY DEF Aged, Upload
<1>2. Aged(v).contract = v.contract /\ Aged(v).recorded = v.recorded /\ Aged(v).month = v.month
  BY DEF Aged, Upload
<1> QED
  BY <1>1, <1>2 DEF Apart

\* A step that ages the uploads in progress, except those in E, which it ends.
LEMMA Overtaking ==
    ASSUME Inductive, NEW E \in SUBSET Proc,
           upload' = [q \in Proc |-> IF q \in E \/ upload[q] = Idle THEN Idle ELSE Aged(upload[q])],
           UNCHANGED <<today, lastContract>>,
           \A c \in ContractId : Has(contracts, c) => Has(contracts', c),
           \A m \in Month : records[m] # NoRecord =>
               records'[m] # NoRecord /\ records'[m].contract = records[m].contract,
           \A q \in Proc \ E : upload[q] # Idle =>
               /\ upload[q].contract \in ContractId /\ ~Has(contracts, upload[q].contract)
                    => ~Has(contracts', upload[q].contract)
               /\ upload[q].recorded => records'[upload[q].month] = NoRecord
    PROVE  /\ upload' \in [Proc -> {Idle} \cup Upload]
           /\ \A q \in Proc : UploadOK(upload'[q], contracts', records', lastContract')
           /\ \A q, r \in Proc : q # r => Apart(upload'[q], upload'[r], contracts')
<1>1. \A q \in Proc : upload[q] \in {Idle} \cup Upload
  BY DEF Inductive, TypeOK
<1>2. ASSUME NEW q \in Proc, upload'[q] # Idle
      PROVE  /\ q \notin E /\ upload[q] \in Upload /\ upload[q] # Idle
             /\ upload'[q] = Aged(upload[q])
  BY <1>1, <1>2
<1>3. ASSUME NEW q \in Proc, upload'[q] # Idle
      PROVE  upload'[q] \in Upload /\ UploadOK(upload'[q], contracts', records', lastContract)
  <2>1. UploadOK(upload[q], contracts, records, lastContract)
    BY DEF Inductive
  <2>2. upload[q] \in Upload /\ upload[q] # Idle /\ upload'[q] = Aged(upload[q])
    BY <1>2, <1>3
  <2>3. /\ upload[q].contract \in ContractId /\ ~Has(contracts, upload[q].contract)
             => ~Has(contracts', upload[q].contract)
        /\ upload[q].recorded => records'[upload[q].month] = NoRecord
    BY <1>2, <1>3
  <2>4. /\ Aged(upload[q]) \in Upload
        /\ UploadOK(Aged(upload[q]), contracts', records', lastContract)
    BY <2>1, <2>2, <2>3, OvertakenStays
  <2> QED
    BY <2>2, <2>4
<1>4. \A q \in Proc : UploadOK(upload'[q], contracts', records', lastContract')
  BY <1>3 DEF UploadOK
<1>5. upload' \in [Proc -> {Idle} \cup Upload]
  BY <1>1, <1>3
<1>6. ASSUME NEW q \in Proc, NEW r \in Proc, q # r, upload'[q] # Idle, upload'[r] # Idle
      PROVE  Apart(upload'[q], upload'[r], contracts')
  <2>1. Apart(upload[q], upload[r], contracts)
    BY <1>6 DEF Inductive
  <2>2. Apart(Aged(upload[q]), Aged(upload[r]), contracts)
    BY <1>2, <1>6, <2>1, AgedApart
  <2>3. Apart(upload'[q], upload'[r], contracts)
    BY <1>2, <1>6, <2>2
  <2> QED
    BY <1>5, <1>6, <2>3, ApartGrows
<1>7. \A q, r \in Proc : q # r => Apart(upload'[q], upload'[r], contracts')
  BY <1>6 DEF Apart
<1> QED
  BY <1>4, <1>5, <1>7

LEMMA EndInductive ==
    ASSUME Inductive, NEW p \in Proc, EndUpload(p)
    PROVE  Inductive'
<1> DEFINE u == upload[p]
           d == u.contract
           n == u.month
<1>1. u \in Upload /\ u # Idle /\ u.step = "refresh"
  BY Busy DEF EndUpload, At
<1>2. UNCHANGED <<today, lastContract>>
  BY DEF EndUpload
<1>3. u.contract <= lastContract
  BY <1>1, Busy DEF UploadOK, At
<1>4. \A c \in ContractId : Has(contracts', c) => c <= lastContract'
  BY <1>2, <1>3, CommittedContracts DEF Inductive
<1>5. CASE ~u.recorded
  <2>1. UNCHANGED <<records, raced>> /\ upload' = [upload EXCEPT ![p] = Idle]
    BY <1>5 DEF EndUpload, Set
  <2>2. \A c \in ContractId : Has(contracts, c) <=> Has(contracts', c)
    BY <1>5, CommittedContracts
  <2>3. TypeOK'
    BY <1>2, <2>1, CommittedContracts DEF Inductive, TypeOK
  <2>4. Matched(contracts', records')
    BY <1>5, <2>1, <2>2, CommittedContracts DEF Inductive, Matched
  <2>5. /\ upload'[p] = Idle
        /\ \A q \in Proc \ {p} : upload'[q] = upload[q]
        /\ \A q \in Proc : upload'[q] \in {Idle} \cup Upload
    BY <2>1 DEF Inductive, TypeOK
  <2>6. \A q \in Proc : UploadOK(upload'[q], contracts, records, lastContract)
    BY <2>5 DEF Inductive, UploadOK
  <2>7. \A q \in Proc : UploadOK(upload'[q], contracts', records', lastContract')
    BY <1>2, <2>1, <2>2, <2>5, <2>6, SameContractsStay
  <2>8. \A q, r \in Proc : q # r => Apart(upload'[q], upload'[r], contracts)
    BY <2>5 DEF Inductive, Apart
  <2>9. \A q, r \in Proc : q # r => Apart(upload'[q], upload'[r], contracts')
    BY <2>2, <2>5, <2>8, ApartGrows
  <2>10. ~raced' => OneContract(records')
    BY <2>1 DEF Inductive
  <2> QED
    BY <1>4, <2>3, <2>4, <2>7, <2>9, <2>10 DEF Inductive
<1>6. CASE u.recorded
  <2>1. /\ records' = [records EXCEPT ![n] = [status |-> "active", contract |-> d]]
        /\ raced' = (raced \/ ~u.fresh)
        /\ upload' = [q \in Proc |-> IF q \in {p} \/ upload[q] = Idle THEN Idle
                                     ELSE Aged(upload[q])]
    <3>1. \A q \in Proc : At(q, "idle") <=> upload[q] = Idle
      BY DEF At, Inductive, TypeOK, Idle, Upload
    <3> QED
      BY <1>6, <3>1 DEF EndUpload, Overtake, Aged
  <2>2. records[n] = NoRecord /\ Decided(u, contracts, records)
    BY <1>1, <1>6, Busy DEF UploadOK, At
  <2>3. n \in Month /\ d \in ContractId
    BY <1>1, <2>2 DEF Upload, Decided, Opens, Extends, Reads
  <2>4. /\ records' \in [Month -> {NoRecord} \cup
              [status : {"active", "rolled_back"}, contract : ContractId]]
        /\ \A m \in Month \ {n} : records'[m] = records[m]
    BY <2>1, <2>3 DEF Inductive, TypeOK
  <2>5. \A m \in Month : records[m] # NoRecord =>
           records'[m] # NoRecord /\ records'[m].contract = records[m].contract
    BY <2>2, <2>4
  <2>6. ASSUME NEW q \in Proc \ {p}, upload[q] # Idle
        PROVE  /\ upload[q].contract \in ContractId /\ ~Has(contracts, upload[q].contract)
                    => ~Has(contracts', upload[q].contract)
               /\ upload[q].recorded => records'[upload[q].month] = NoRecord
    <3>1. Apart(u, upload[q], contracts) /\ upload[q] \in Upload
      BY <2>6 DEF Inductive, TypeOK
    <3>2. UploadOK(upload[q], contracts, records, lastContract)
      BY DEF Inductive
    <3>3. upload[q].contract \in ContractId /\ ~Has(contracts, upload[q].contract)
            => upload[q].contract # d
      BY <1>1, <2>6, <3>1 DEF Apart, ContractId
    <3>4. upload[q].recorded => upload[q].month # n /\ records[upload[q].month] = NoRecord
      BY <1>1, <1>6, <2>6, <3>1, <3>2 DEF Apart, UploadOK
    <3>5. upload[q].month \in Month
      BY <3>1 DEF Upload
    <3> QED
      BY <2>4, <3>3, <3>4, <3>5, CommittedContracts
  <2>7. \A c \in ContractId : Has(contracts, c) => Has(contracts', c)
    BY CommittedContracts
  <2>8. /\ upload' \in [Proc -> {Idle} \cup Upload]
        /\ \A q \in Proc : UploadOK(upload'[q], contracts', records', lastContract')
        /\ \A q, r \in Proc : q # r => Apart(upload'[q], upload'[r], contracts')
    <3> DEFINE E == {p}
    <3>1. E \in SUBSET Proc
      OBVIOUS
    <3> QED
      BY <1>2, <2>1, <2>5, <2>6, <2>7, <3>1, Overtaking
  <2>9. raced' \in BOOLEAN
    BY <1>1, <2>1 DEF Inductive, TypeOK, Upload
  <2>10. TypeOK'
    BY <1>2, <2>4, <2>8, <2>9, CommittedContracts DEF Inductive, TypeOK
  <2>11. Matched(contracts', records')
    BY <1>6, CommittedMonths
  <2>12. ~raced' => OneContract(records')
    BY <1>6, <2>1, CommittedMonths DEF Inductive
  <2> QED
    BY <1>4, <2>8, <2>10, <2>11, <2>12 DEF Inductive
<1> QED
  BY <1>1, <1>5, <1>6 DEF Upload

LEMMA RollbackInductive ==
    ASSUME Inductive, NEW m \in Month, RollbackRecord(m)
    PROVE  Inductive'
<1>1. /\ records[m].status = "active"
      /\ records' = [records EXCEPT ![m].status = "rolled_back"]
      /\ UNCHANGED <<today, contracts, lastContract, raced>>
  BY DEF RollbackRecord, InForce
<1>2. upload' = [q \in Proc |-> IF q \in {} \/ upload[q] = Idle THEN Idle ELSE Aged(upload[q])]
  <2>1. \A q \in Proc : At(q, "idle") <=> upload[q] = Idle
    BY DEF At, Inductive, TypeOK, Idle, Upload
  <2> QED
    BY <2>1 DEF RollbackRecord, Aged
<1>3. records[m] \in [status : {"active", "rolled_back"}, contract : ContractId]
  BY <1>1 DEF Inductive, TypeOK, NoRecord
<1>4. /\ records' \in [Month -> {NoRecord} \cup
            [status : {"active", "rolled_back"}, contract : ContractId]]
      /\ records'[m].status = "rolled_back" /\ records'[m].contract = records[m].contract
      /\ \A n \in Month \ {m} : records'[n] = records[n]
  BY <1>1, <1>3 DEF Inductive, TypeOK
<1>5. \A n \in Month : records[n] # NoRecord =>
         records'[n] # NoRecord /\ records'[n].contract = records[n].contract
  BY <1>4 DEF NoRecord
<1>6. ASSUME NEW q \in Proc, upload[q] # Idle, upload[q].recorded
      PROVE  records'[upload[q].month] = NoRecord
  <2>1. UploadOK(upload[q], contracts, records, lastContract) /\ upload[q] \in Upload
    BY <1>6 DEF Inductive, TypeOK
  <2>2. records[upload[q].month] = NoRecord /\ upload[q].month \in Month
    BY <1>6, <2>1 DEF UploadOK, Upload
  <2> QED
    BY <1>1, <1>4, <2>2 DEF NoRecord
<1>7. /\ upload' \in [Proc -> {Idle} \cup Upload]
      /\ \A q \in Proc : UploadOK(upload'[q], contracts', records', lastContract')
      /\ \A q, r \in Proc : q # r => Apart(upload'[q], upload'[r], contracts')
  <2> DEFINE E == {}
  <2>1. E \in SUBSET Proc
    OBVIOUS
  <2> QED
    BY <1>1, <1>2, <1>5, <1>6, <2>1, Overtaking
<1>8. TypeOK'
  BY <1>1, <1>4, <1>7 DEF Inductive, TypeOK
<1>9. Matched(contracts', records')
  <2>1. \A n \in Month : records'[n].contract = records[n].contract
    BY <1>4
  <2> QED
    BY <1>1, <2>1 DEF Inductive, Matched
<1>10. ~raced' => OneContract(records')
  <2>1. \A n \in Month : /\ records'[n].contract = records[n].contract
                         /\ records'[n].status = "active" => records[n].status = "active"
    BY <1>4
  <2>2. \A n \in 1 .. (LastMonth - 1) : n \in Month /\ n + 1 \in Month
    BY BoundsAssumption DEF Month
  <2> QED
    BY <1>1, <2>1, <2>2 DEF Inductive, OneContract
<1> QED
  BY <1>1, <1>7, <1>8, <1>9, <1>10 DEF Inductive

-----------------------------------------------------------------------------
LEMMA StepInductive == Inductive /\ [Next]_vars => Inductive'
<1> SUFFICES ASSUME Inductive, [Next]_vars PROVE Inductive'
  OBVIOUS
<1>1. CASE UNCHANGED vars
  BY <1>1 DEF vars, Inductive, TypeOK
<1>2. ASSUME NEW p \in Proc, NEW m \in Month, BeginUpload(p, m) PROVE Inductive'
  BY <1>2, BeginInductive
<1>3. ASSUME NEW p \in Proc, Step(p) PROVE Inductive'
  BY <1>3, LookInductive, FindLastInductive, FindContractInductive, WriteInductive,
     OpenInductive, InsertInductive, EndInductive DEF Step
<1>4. ASSUME NEW p \in Proc, Abort(p) PROVE Inductive'
  BY <1>4, Dying DEF Abort
<1>5. ASSUME NEW m \in Month, RollbackRecord(m) PROVE Inductive'
  BY <1>5, RollbackInductive
<1> QED
  BY <1>1, <1>2, <1>3, <1>4, <1>5 DEF Next

LEMMA Invariance == Spec => []Inductive
  BY InitInductive, StepInductive, PTL DEF Spec

(***************************************************************************)
(* However many uploads and rollbacks overlap, every contract has a record *)
(* for each month from its entry to its end and for no other: the unique   *)
(* key of capitados_monthly_records is enough, no row lock is needed.      *)
(***************************************************************************)
THEOREM ContractsOwnTheirMonths == Spec => []ContractsMatchRecords
<1>1. Inductive => ContractsMatchRecords
  BY DEF Inductive, ContractsMatchRecords, MonthsStayContiguous, Matched, Has, Existing
<1> QED
  BY <1>1, Invariance, PTL

(***************************************************************************)
(* Two months in a row are under one contract unless an upload committed   *)
(* what it had decided on a history that changed before its commit.        *)
(***************************************************************************)
THEOREM ContinuousCoverKeepsItsContract == Spec => []ContinuousCoverIsOneContract
<1>1. Inductive => ContinuousCoverIsOneContract
  BY DEF Inductive, ContinuousCoverIsOneContract, OneContract, InForce
<1> QED
  BY <1>1, Invariance, PTL
=============================================================================
