------------------------- MODULE IntegrationsProofs -------------------------
(***************************************************************************)
(* Proofs about Integrations.  One invariant for each part: of addresses,  *)
(* of subscriptions and of companies.  The one of subscriptions says that  *)
(* two requests on one subscription have been noted, that the rows about   *)
(* it keep one number, and that every deal is named by the log, in the     *)
(* hand of the request that made it, or strayed.                           *)
(***************************************************************************)
EXTENDS Integrations, TLAPS

-----------------------------------------------------------------------------
(***************************************************************************)
(* Addresses.                                                              *)
(***************************************************************************)
Waits == {Resting} \cup [on : {"update"}, since : Edition]
         \cup [on : {"lookup"}, ip : Ip, since : Edition]

AddressesInv ==
    /\ IpTypeOK
    /\ visit \in [Visit -> Waits]
    /\ {file, reader} \subseteq installed \cup {NoFile}
    /\ ReaderIsInstalled
    /\ CachedAnswerHasASource

-----------------------------------------------------------------------------
(***************************************************************************)
(* Subscriptions.                                                          *)
(***************************************************************************)
Record == Refused .. MaxRecords
RowsOf(kinds, S) == [kind : kinds, of : S, record : Record, number : 1 .. MaxRows]
Status == {"none", "incomplete", "active"}

\* Where a request is with its subscription.
Looking == [step : {"look", "create"}, sub : Sub, seen : Status \ {"none"},
            todo : SUBSET Sub, draft : SUBSET RowsOf({"contact"}, Sub)]
Logging == [step : {"log"}, sub : Sub, seen : Status \ {"none"},
            todo : SUBSET Sub, draft : SUBSET RowsOf({"contact"}, Sub),
            contact : Record, held : BOOLEAN]
Dealing == [step : {"deal", "commit"}, sub : Sub, seen : Status \ {"none"},
            todo : SUBSET Sub, draft : SUBSET RowsOf({"contact"}, Sub),
            deal : NoRow .. MaxRecords, held : BOOLEAN, taken : BOOLEAN]

Typed ==
    /\ status \in [Sub \cup Company -> Status]
    /\ contacts \in [Email -> 0 .. MaxRecords] /\ accounts \in [Company -> 0 .. 1]
    /\ deals \in Seq([sub : Sub, stage : Stages]) /\ Len(deals) <= MaxRecords
    /\ log \subseteq RowsOf({"contact", "deal"}, Sub)
    /\ configured \in BOOLEAN
    /\ sync \in [Proc -> {Asleep} \cup Looking \cup Logging \cup Dealing]

\* Two requests at work on a subscription, or on two of one owner, have been
\* noted, and nobody works on one that is not there.
Apart ==
    \A p, q \in Proc : p # q =>
        \A s \in Touches(p), t \in Touches(q) :
            /\ s = t => s \in overlapped
            /\ EmailOf[s] = EmailOf[t] => EmailOf[s] \in overlapped

Begun ==
    /\ \A row \in log : status[row.of] # "none"
    /\ \A p \in Proc : sync[p] # Asleep => \A s \in Touches(p) \cup sync[p].todo : status[s] # "none"

Distinct(rows) == \A r1, r2 \in rows : Same(r1, r2) => r1 = r2

\* Rows keep their numbers apart, and those about one subscription are one row
\* unless requests overlapped.
RowsApart ==
    /\ Distinct(log)
    /\ \A p \in Proc : Distinct(sync[p].draft)
    /\ \A s \in Sub : Alone(s) =>
         \A kind \in {"contact", "deal"} : \A r1, r2 \in Ever(kind, s) : r1.number = r2.number

ContactsInv ==
    /\ ContactOnce
    /\ \A p \in Proc : sync[p].step = "create" =>
         EmailOf[sync[p].sub] \in overlapped \cup unseen \/ contacts[EmailOf[sync[p].sub]] = 0

DealRows(s) == About(log, "deal", s)
DealsOf(s) == {d \in DOMAIN deals : deals[d].sub = s}
Intact(s) == Alone(s) /\ s \notin strayed

\* What a request knows of the deal of its subscription.
DealKnown(p) ==
    sync[p].step \in {"deal", "commit"} =>
        LET s == sync[p].sub IN
        /\ sync[p].deal > 0 => sync[p].deal \in DealsOf(s)
        /\ sync[p].step = "deal" =>
             configured /\ ~sync[p].taken /\ (sync[p].held <=> sync[p].deal \notin {NoRow, DryRun})
        /\ sync[p].step = "commit" => sync[p].deal # NoRow
        /\ sync[p].held /\ Alone(s) => \E row \in DealRows(s) : row.record = sync[p].deal
        /\ ~sync[p].held /\ configured /\ Alone(s) => \A row \in DealRows(s) : row.record <= 0

\* One that is about to create a deal finds none.
DealFree(p) ==
    sync[p].step = "deal" /\ ~sync[p].held /\ Intact(sync[p].sub) => DealsOf(sync[p].sub) = {}

\* A deal is named by the log or in hand.
Named(d) ==
    LET s == deals[d].sub IN
    \/ \E row \in DealRows(s) : row.record = d
    \/ \E p \in Proc : s \in InHand(p) /\ sync[p].deal = d

\* What a synchronisation has sent stays at its stage, and the first one of a
\* subscription finds no deal.
StageKept(p) ==
    /\ sync[p].step = "commit" /\ sync[p].taken =>
         /\ sync[p].deal > 0
         /\ Alone(sync[p].sub) => deals[sync[p].deal].stage = StageOf(sync[p].seen)
    /\ sync[p].step \in AtWork /\ sync[p].seen = "incomplete" /\ Alone(sync[p].sub) =>
         /\ DealRows(sync[p].sub) = {}
         /\ sync[p].step \in {"deal", "commit"} => ~sync[p].held

DealsInv ==
    /\ DealOnce
    /\ \A row \in log : row.kind = "deal" /\ row.record > 0 => row.record \in DealsOf(row.of)
    /\ \A p \in Proc : DealKnown(p) /\ DealFree(p) /\ StageKept(p)
    /\ \A d \in DOMAIN deals : Intact(deals[d].sub) => Named(d)

SubscriptionsInv ==
    Typed /\ Apart /\ Begun /\ RowsApart /\ ContactsInv /\ DealsInv

-----------------------------------------------------------------------------
(***************************************************************************)
(* Companies.                                                              *)
(***************************************************************************)
Accounting == [step : {"account"}, sub : Company, draft : {{}}, contact : Record]

CompaniesInv ==
    /\ status \in [Sub \cup Company -> Status]
    /\ contacts \in [Email -> {0}] /\ accounts \in [Company -> 0 .. 1]
    /\ deals = <<>>
    /\ log \subseteq RowsOf({"account"}, Company)
    /\ configured \in BOOLEAN
    /\ sync \in [Proc -> {Asleep} \cup Accounting]
    /\ overlapped = {} /\ unseen = {} /\ strayed = {}
    /\ \A c \in Company : status[c] = "none" =>
         /\ accounts[c] = 0
         /\ \A row \in log : row.of # c
         /\ \A p \in Proc : sync[p] # Asleep => sync[p].sub # c
    /\ \A row \in log, p \in Proc : sync[p] # Asleep => sync[p].sub # row.of
    /\ \A p, q \in Proc : p # q /\ sync[p] # Asleep /\ sync[q] # Asleep => sync[p].sub # sync[q].sub
    /\ \A r1, r2 \in log : r1.of = r2.of => r1 = r2

IntegrationsInv ==
    /\ part \in {"subscriptions", "companies", "addresses"}
    /\ AddressesInv
    /\ IF part = "companies" THEN CompaniesInv ELSE SubscriptionsInv

-----------------------------------------------------------------------------
(***************************************************************************)
(* Addresses.                                                              *)
(***************************************************************************)
\* Published databases are numbered from 1, and each answers for every address.
LEMMA EditionsAnswer ==
    /\ 1 \in Edition /\ NoFile \notin Edition /\ Edition \subseteq Nat
    /\ \A db \in Edition, ip \in Ip : Answer(db, ip) \in Country \cup {Unknown}
<1>1. Lists \in Seq([Ip -> Country \cup {Unlisted}]) /\ Lists # <<>>
  BY ListsAssumption
<1>2. Edition = 1 .. Len(Lists) /\ Len(Lists) \in Nat /\ Len(Lists) # 0
  BY <1>1 DEF Edition
<1>3. \A db \in Edition : Lists[db] \in [Ip -> Country \cup {Unlisted}]
  BY <1>1, <1>2
<1> QED
  BY <1>2, <1>3 DEF Answer, NoFile

\* At the start nothing is installed, open or cached.
LEMMA AddressesStart == IpInit => AddressesInv
<1> SUFFICES ASSUME IpInit PROVE AddressesInv
  OBVIOUS
<1>1. IpTypeOK
  BY EditionsAnswer DEF IpInit, IpTypeOK, Resting
<1>2. visit \in [Visit -> Waits]
  BY DEF IpInit, Waits
<1> QED
  BY <1>1, <1>2 DEF IpInit, AddressesInv, ReaderIsInstalled, CachedAnswerHasASource

\* The requests, when one of them is put to wait or to rest.
LEMMA WaitsTyped ==
    ASSUME AddressesInv, NEW v \in Visit, NEW w \in Waits, visit' = [visit EXCEPT ![v] = w]
    PROVE  /\ visit' \in [Visit -> Waits]
           /\ \A u \in Visit : visit'[u].on \in {"nothing", "lookup", "update"}
<1>1. visit' \in [Visit -> Waits]
  BY DEF AddressesInv
<1>2. \A x \in Waits : x.on \in {"nothing", "lookup", "update"}
  BY DEF Waits, Resting
<1> QED
  BY <1>1, <1>2

\* A request that waits for the download waits for an address or for nothing else.
LEMMA Waiting ==
    ASSUME AddressesInv, NEW v \in Visit, visit[v] # Resting
    PROVE  visit[v].on = "lookup" => visit[v].ip \in Ip
  BY DEF AddressesInv, Waits, Resting

\* Reading through a reader of an installed database, or a new one over the
\* installed file.
LEMMA ReadKeeps ==
    ASSUME AddressesInv, NEW v \in Visit, NEW ip \in Ip,
           NEW opened, NEW db, NEW opens, Read(v, ip, opened, db, opens),
           opened \in installed' \cup {NoFile},
           db \in installed', installed' \subseteq Edition, installed \subseteq installed'
    PROVE  /\ reader' \in {NoFile, opened, db} /\ reader' \in installed' \cup {NoFile}
           /\ reader' = opened \/ opened = NoFile
           /\ cache' \in [Ip -> Country \cup {Unknown, Absent}]
           /\ failed' \subseteq Ip
           /\ CachedAnswerHasASource'
           /\ visit' = [visit EXCEPT ![v] = Resting]
<1> DEFINE from == IF opened # NoFile THEN opened ELSE db
<1>1. from \in installed' /\ from \in Edition
  OBVIOUS
<1>2. Answer(from, ip) \in Country \cup {Unknown}
  BY <1>1, EditionsAnswer
<1>3. \/ /\ reader' = from /\ cache' = [cache EXCEPT ![ip] = Answer(from, ip)] /\ failed' = failed
      \/ /\ reader' = NoFile /\ opened = NoFile
         /\ cache' = [cache EXCEPT ![ip] = Unknown] /\ failed' = failed \cup {ip}
  BY DEF Read
<1>4. visit' = [visit EXCEPT ![v] = Resting]
  BY DEF Read
<1>5. cache \in [Ip -> Country \cup {Unknown, Absent}] /\ failed \subseteq Ip
  BY DEF AddressesInv, IpTypeOK
<1>6. CachedAnswerHasASource'
  <2> SUFFICES ASSUME NEW i \in Ip
               PROVE  \/ cache'[i] = Absent
                      \/ \E d \in installed' : cache'[i] = Answer(d, i)
                      \/ cache'[i] = Unknown /\ i \in failed'
    BY DEF CachedAnswerHasASource, Answer
  <2>1. CASE i = ip
    BY <2>1, <1>1, <1>3, <1>5
  <2>2. CASE i # ip
    <3>1. cache'[i] = cache[i] /\ failed \subseteq failed'
      BY <2>2, <1>3, <1>5
    <3> QED
      BY <3>1 DEF AddressesInv, CachedAnswerHasASource
  <2> QED
    BY <2>1, <2>2
<1> HIDE DEF from
<1>7. reader' \in {NoFile, from} /\ (opened # NoFile => reader' = from)
  BY <1>3
<1>8. cache' \in [Ip -> Country \cup {Unknown, Absent}] /\ failed' \subseteq Ip
  BY <1>2, <1>3, <1>5
<1> QED
  BY <1>1, <1>4, <1>6, <1>7, <1>8 DEF from

\* An exception leaves the reader and notes the address.
LEMMA GivesUpKeeps ==
    ASSUME AddressesInv, NEW v \in Visit, visit[v] # Resting, GivesUp(v),
           installed \subseteq installed'
    PROVE  /\ reader' = reader
           /\ cache' \in [Ip -> Country \cup {Unknown, Absent}]
           /\ failed' \subseteq Ip
           /\ CachedAnswerHasASource'
           /\ visit' = [visit EXCEPT ![v] = Resting]
<1>1. reader' = reader /\ visit' = [visit EXCEPT ![v] = Resting]
  BY DEF GivesUp
<1>2. cache \in [Ip -> Country \cup {Unknown, Absent}] /\ failed \subseteq Ip
  BY DEF AddressesInv, IpTypeOK
<1>3. \/ cache' = cache /\ failed' = failed
      \/ \E i \in Ip : cache' = [cache EXCEPT ![i] = Unknown] /\ failed' = failed \cup {i}
  BY Waiting DEF GivesUp
<1>4. cache' \in [Ip -> Country \cup {Unknown, Absent}] /\ failed' \subseteq Ip
  BY <1>2, <1>3
<1>5. CachedAnswerHasASource'
  <2> SUFFICES ASSUME NEW i \in Ip
               PROVE  \/ cache'[i] = Absent
                      \/ \E d \in installed' : cache'[i] = Answer(d, i)
                      \/ cache'[i] = Unknown /\ i \in failed'
    BY DEF CachedAnswerHasASource, Answer
  <2>1. \/ cache'[i] = cache[i]
        \/ cache'[i] = Unknown /\ i \in failed'
    BY <1>2, <1>3
  <2>2. failed \subseteq failed'
    BY <1>3
  <2> QED
    BY <2>1, <2>2 DEF AddressesInv, CachedAnswerHasASource
<1> QED
  BY <1>1, <1>4, <1>5

\* Every step of IpCountryService and its manager keeps the reader and the
\* cache to what has been installed.
LEMMA AddressesStep ==
    ASSUME AddressesInv, IpNext
    PROVE  AddressesInv'
<1> USE DEF NoFile
<1>0. Resting \in Waits /\ NoFile \notin Edition
  BY EditionsAnswer DEF Waits
<1>1. ASSUME NEW v \in Visit, NEW ip \in Ip, Lookup(v, ip) PROVE AddressesInv'
  <2>1. /\ UNCHANGED published /\ UNCHANGED file /\ UNCHANGED expired /\ UNCHANGED broken
        /\ UNCHANGED library /\ UNCHANGED installed /\ UNCHANGED halfway
    BY <1>1 DEF Lookup
  <2>2. CASE Current /\ Read(v, ip, reader, file, library /\ ~broken)
    <3>1. file \in installed /\ reader \in installed \cup {NoFile} /\ installed \subseteq Edition
      BY <2>2 DEF Current, AddressesInv, IpTypeOK
    <3>2. /\ reader' \in {NoFile, reader, file} /\ reader' \in installed' \cup {NoFile}
          /\ reader' = reader \/ reader = NoFile
          /\ cache' \in [Ip -> Country \cup {Unknown, Absent}]
          /\ failed' \subseteq Ip
          /\ CachedAnswerHasASource'
          /\ visit' = [visit EXCEPT ![v] = Resting]
      BY <2>1, <2>2, <3>1, ReadKeeps
    <3>3. /\ visit' \in [Visit -> Waits]
          /\ \A u \in Visit : visit'[u].on \in {"nothing", "lookup", "update"}
      BY <1>0, <3>2, WaitsTyped
    <3> QED
      BY <2>1, <3>1, <3>2, <3>3 DEF AddressesInv, IpTypeOK, ReaderIsInstalled
  <2>3. CASE visit' = [visit EXCEPT ![v] = [on |-> "lookup", ip |-> ip, since |-> published]]
             /\ UNCHANGED reader /\ UNCHANGED cache /\ UNCHANGED failed
    <3>1. [on |-> "lookup", ip |-> ip, since |-> published] \in Waits
      BY DEF Waits, AddressesInv, IpTypeOK
    <3>2. /\ visit' \in [Visit -> Waits]
          /\ \A u \in Visit : visit'[u].on \in {"nothing", "lookup", "update"}
      BY <3>1, <2>3, WaitsTyped
    <3> QED
      BY <2>1, <2>3, <3>2 DEF AddressesInv, IpTypeOK, ReaderIsInstalled, CachedAnswerHasASource, Answer
  <2> QED
    BY <1>1, <2>2, <2>3 DEF Lookup
<1>2. ASSUME NEW v \in Visit, ForceUpdate(v) PROVE AddressesInv'
  <2>1. [on |-> "update", since |-> published] \in Waits
    BY DEF Waits, AddressesInv, IpTypeOK
  <2>2. /\ visit' \in [Visit -> Waits]
        /\ \A u \in Visit : visit'[u].on \in {"nothing", "lookup", "update"}
    BY <1>2, <2>1, WaitsTyped DEF ForceUpdate
  <2> QED
    BY <1>2, <2>2 DEF ForceUpdate, AddressesInv, IpTypeOK, ReaderIsInstalled,
       CachedAnswerHasASource, Answer
<1>3. ASSUME NEW v \in Visit, visit[v] # Resting, GivesUp(v),
             \/ \E db \in Edition : Install(v, db) /\ halfway' = TRUE
             \/ /\ file' = NoFile /\ halfway' = TRUE /\ UNCHANGED published /\ UNCHANGED expired
                /\ UNCHANGED broken /\ UNCHANGED library /\ UNCHANGED installed
             \/ /\ UNCHANGED published /\ UNCHANGED file /\ UNCHANGED expired /\ UNCHANGED broken
                /\ UNCHANGED library /\ UNCHANGED installed /\ UNCHANGED halfway
      PROVE  AddressesInv'
  <2>1. /\ installed \subseteq installed' /\ installed' \subseteq Edition
        /\ file' \in installed' \cup {NoFile} /\ published' = published /\ library' = library
        /\ expired' \in BOOLEAN /\ broken' \in BOOLEAN
        /\ halfway' \/ (file' = file /\ halfway' = halfway)
    BY <1>3 DEF Install, AddressesInv, IpTypeOK
  <2>2. /\ reader' = reader
        /\ cache' \in [Ip -> Country \cup {Unknown, Absent}]
        /\ failed' \subseteq Ip
        /\ CachedAnswerHasASource'
        /\ visit' = [visit EXCEPT ![v] = Resting]
    BY <1>3, <2>1, GivesUpKeeps
  <2>3. /\ visit' \in [Visit -> Waits]
        /\ \A u \in Visit : visit'[u].on \in {"nothing", "lookup", "update"}
    BY <1>0, <2>2, WaitsTyped
  <2>4. IpTypeOK'
    BY <2>1, <2>2, <2>3 DEF AddressesInv, IpTypeOK
  <2>5. ReaderIsInstalled'
    BY <2>1, <2>2 DEF AddressesInv, ReaderIsInstalled
  <2> QED
    BY <2>1, <2>2, <2>3, <2>4, <2>5 DEF AddressesInv
<1>4. ASSUME NEW v \in Visit, NEW db \in Edition, Downloaded(v, db) PROVE AddressesInv'
  <2>1. /\ file' = db /\ expired' = FALSE /\ broken' \in BOOLEAN
        /\ installed' = installed \cup {db}
        /\ UNCHANGED published /\ UNCHANGED library /\ halfway' = FALSE
        /\ db \in installed' /\ installed' \subseteq Edition
    BY <1>4 DEF Downloaded, Install, AddressesInv, IpTypeOK
  <2>2. /\ reader' \in {NoFile, db}
        /\ cache' \in [Ip -> Country \cup {Unknown, Absent}]
        /\ failed' \subseteq Ip
        /\ CachedAnswerHasASource'
        /\ visit' = [visit EXCEPT ![v] = Resting]
    <3>1. CASE visit[v].on = "lookup"
      <4>1. Read(v, visit[v].ip, NoFile, db, library /\ ~broken') /\ visit[v].ip \in Ip
        BY <1>4, <3>1, Waiting DEF Downloaded
      <4>2. NoFile \in installed' \cup {NoFile} /\ installed \subseteq installed'
        BY <2>1
      <4> HIDE DEF NoFile
      <4> QED
        BY <2>1, <4>1, <4>2, ReadKeeps
    <3>2. CASE visit[v].on # "lookup"
      BY <1>4, <2>1, <3>2 DEF Downloaded, AddressesInv, IpTypeOK, CachedAnswerHasASource, Answer
    <3> QED
      BY <3>1, <3>2
  <2>3. /\ visit' \in [Visit -> Waits]
        /\ \A u \in Visit : visit'[u].on \in {"nothing", "lookup", "update"}
    BY <1>0, <2>2, WaitsTyped
  <2>4. IpTypeOK'
    BY <2>1, <2>2, <2>3 DEF AddressesInv, IpTypeOK
  <2>5. ReaderIsInstalled'
    BY <2>1, <2>2 DEF ReaderIsInstalled
  <2> QED
    BY <2>1, <2>2, <2>3, <2>4, <2>5 DEF AddressesInv
<1>5. CASE Expire
  BY <1>5 DEF Expire, AddressesInv, IpTypeOK, ReaderIsInstalled, CachedAnswerHasASource, Answer
<1>6. CASE Publish
  BY <1>6 DEF Publish, AddressesInv, IpTypeOK, ReaderIsInstalled, CachedAnswerHasASource, Answer
<1>7. CASE Reboot
  <2>1. /\ file' \in {file, NoFile} /\ library' \in BOOLEAN /\ reader' = NoFile
        /\ cache' = [ip \in Ip |-> Absent] /\ visit' = [v \in Visit |-> Resting]
        /\ failed' = {} /\ halfway' = FALSE
        /\ UNCHANGED published /\ UNCHANGED expired /\ UNCHANGED broken /\ UNCHANGED installed
    BY <1>7 DEF Reboot
  <2>2. visit' \in [Visit -> Waits] /\ \A v \in Visit : visit'[v].on = "nothing"
    BY <2>1 DEF Waits, Resting
  <2> QED
    BY <2>1, <2>2 DEF AddressesInv, IpTypeOK, ReaderIsInstalled, CachedAnswerHasASource
<1>8. ASSUME NEW v \in Visit, DownloadFails(v) \/ StopsHalfway(v) PROVE AddressesInv'
  BY <1>3, <1>8 DEF DownloadFails, StopsHalfway
<1> QED
  BY <1>1, <1>2, <1>4, <1>5, <1>6, <1>7, <1>8 DEF IpNext

\* A known country gives way to None only in the lookups that wait for it.
LEMMA KnownStep ==
    ASSUME AddressesInv, IpNext, NEW ip \in Ip, cache[ip] \in Country, cache'[ip] = Unknown
    PROVE  \E v \in Visit : visit[v].on = "lookup" /\ visit[v].ip = ip
<1>0. cache \in [Ip -> Country \cup {Unknown, Absent}] /\ cache'[ip] # cache[ip] /\ cache[ip] # Absent
  BY CountryAssumption DEF AddressesInv, IpTypeOK
<1>1. ASSUME NEW v \in Visit, NEW i \in Ip, Lookup(v, i) PROVE FALSE
  <2>1. cache[i] = Absent /\ i # ip
    BY <1>1, <1>0 DEF Lookup
  <2>2. \/ cache' = cache
        \/ \E x : cache' = [cache EXCEPT ![i] = x]
    BY <1>1 DEF Lookup, Read
  <2> QED
    BY <1>0, <2>1, <2>2
<1>2. ASSUME NEW v \in Visit,
             DownloadFails(v) \/ StopsHalfway(v) \/ \E db \in Edition : Downloaded(v, db)
      PROVE  visit[v].on = "lookup" /\ visit[v].ip = ip
  <2>1. visit[v].on = "lookup"
    BY <1>2, <1>0 DEF DownloadFails, StopsHalfway, Downloaded, GivesUp
  <2>2. \E x : cache' = [cache EXCEPT ![visit[v].ip] = x]
    BY <1>2, <2>1 DEF DownloadFails, StopsHalfway, Downloaded, GivesUp, Read
  <2> QED
    BY <1>0, <2>1, <2>2
<1>3. ~(Expire \/ Publish \/ (\E v \in Visit : ForceUpdate(v)))
  BY <1>0 DEF Expire, Publish, ForceUpdate
<1>4. ~Reboot
  <2>1. ASSUME Reboot PROVE cache'[ip] = Absent
    BY <2>1 DEF Reboot
  <2> QED
    BY <2>1 DEF Absent, Unknown
<1> QED
  BY <1>1, <1>2, <1>3, <1>4 DEF IpNext

-----------------------------------------------------------------------------
(***************************************************************************)
(* Companies.                                                              *)
(***************************************************************************)
LEMMA CompaniesStart == CrmInit => CompaniesInv
<1> SUFFICES ASSUME CrmInit PROVE CompaniesInv
  OBVIOUS
<1>1. \A p \in Proc : sync[p] = Asleep
  BY DEF CrmInit
<1>2. sync \in [Proc -> {Asleep} \cup Accounting]
  BY DEF CrmInit
<1> QED
  BY <1>1, <1>2 DEF CrmInit, CompaniesInv, Status

\* The row that a company gets.
LEMMA AccountLogged ==
    ASSUME CompaniesInv, NEW p \in Proc, LogAccount(p)
    PROVE  LET c == sync[p].sub IN
           \E row \in RowsOf({"account"}, Company) : row.of = c /\ log' = log \cup {row}
<1> DEFINE c == sync[p].sub
<1>1. sync[p] \in Accounting /\ c \in Company /\ sync[p] # Asleep
  BY DEF LogAccount, CompaniesInv, Accounting, Asleep
<1>2. sync[p].draft = {} /\ sync[p].contact \in Record
  BY <1>1 DEF Accounting
<1>3. \A row \in log : row.of # c
  BY <1>1 DEF CompaniesInv
<1>4. Logged(p, "account", c) = {}
  BY <1>2, <1>3 DEF Logged, About, Over
<1>5. \A q \in Proc : sync[q].draft = {}
  BY DEF CompaniesInv, Accounting, Asleep
<1>6. Numbers("account", c) = {}
  BY <1>3, <1>5 DEF Numbers, Ever, About
<1>7. 1 .. MaxRows # {}
  BY <1>4, <1>6 DEF LogAccount, CanLog
<1>8. NewRow("account", c, sync[p].contact) \in RowsOf({"account"}, Company)
      /\ NewRow("account", c, sync[p].contact).of = c
  <2>1. PICK n \in 1 .. MaxRows : n = CHOOSE m \in 1 .. MaxRows : m \notin Numbers("account", c)
    BY <1>6, <1>7
  <2>2. PICK x \in Record : x = sync[p].contact
    BY <1>2
  <2>3. PICK d \in Company : d = c
    BY <1>1
  <2>4. NewRow("account", c, sync[p].contact) =
          [kind |-> "account", of |-> d, record |-> x, number |-> n]
    BY <2>1, <2>2, <2>3 DEF NewRow
  <2> HIDE DEF c
  <2>5. [kind |-> "account", of |-> d, record |-> x, number |-> n] \in RowsOf({"account"}, Company)
    BY DEF RowsOf
  <2> QED
    BY <2>3, <2>4, <2>5
<1>9. PICK row \in RowsOf({"account"}, Company) :
        row = NewRow("account", c, sync[p].contact) /\ row.of = c
  BY <1>8
<1>10. AfterLog(p, "account", c, sync[p].contact, FALSE) = {row}
  BY <1>2, <1>4, <1>9 DEF AfterLog
<1>11. log' = Over({row})
  BY <1>10 DEF LogAccount
<1>12. Over({row}) = {row} \cup log
  BY <1>3, <1>9 DEF Over, Same
<1> QED
  BY <1>9, <1>11, <1>12

\* A company is synchronised once: no other request logs for it.
LEMMA CompaniesStep ==
    ASSUME CompaniesInv, CompaniesNext
    PROVE  CompaniesInv'
<1>1. ASSUME NEW p \in Proc, NEW c \in Company, SyncCompany(p, c) PROVE CompaniesInv'
  <2>1. /\ sync[p] = Asleep /\ status[c] = "none"
        /\ status' = [status EXCEPT ![c] = "active"]
        /\ UNCHANGED contacts /\ UNCHANGED deals /\ UNCHANGED log /\ UNCHANGED configured
        /\ UNCHANGED overlapped /\ UNCHANGED unseen /\ UNCHANGED strayed
    BY <1>1 DEF SyncCompany
  <2>2. accounts' \in {accounts, [accounts EXCEPT ![c] = @ + 1]}
    BY <1>1 DEF SyncCompany
  <2>3. \/ sync' = sync
        \/ \E w \in Accounting : w.sub = c /\ sync' = [sync EXCEPT ![p] = w]
    <3>1. \A x \in {One, Refused, DryRun} :
            [step |-> "account", sub |-> c, draft |-> {}, contact |-> x] \in Accounting
      BY MaxRecordsAssumption DEF Accounting, Record, One, Refused, DryRun
    <3>2. \/ sync' = sync
          \/ \E x \in {One, Refused, DryRun} :
               sync' = [sync EXCEPT ![p] =
                          [step |-> "account", sub |-> c, draft |-> {}, contact |-> x]]
      BY <1>1 DEF SyncCompany
    <3> QED
      BY <3>1, <3>2
  <2>4. \A d \in Company : d # c => status'[d] = status[d] /\ accounts'[d] = accounts[d]
    BY <2>1, <2>2 DEF CompaniesInv
  <2>5. accounts' \in [Company -> 0 .. 1] /\ status' \in [Sub \cup Company -> Status] /\ status'[c] # "none"
    <3>1. accounts[c] = 0
      BY <2>1 DEF CompaniesInv
    <3> QED
      BY <2>1, <2>2, <3>1 DEF CompaniesInv, Status
  <2>6. sync' \in [Proc -> {Asleep} \cup Accounting]
    BY <2>3 DEF CompaniesInv
  <2>7. \A q \in Proc : sync'[q] = sync[q] \/ (q = p /\ sync'[q].sub = c)
    BY <2>3 DEF CompaniesInv
  <2>8. \A row \in log : row.of # c
    BY <2>1 DEF CompaniesInv
  <2>9. \A q \in Proc : sync[q] # Asleep => sync[q].sub # c
    BY <2>1 DEF CompaniesInv
  <2>10. \A d \in Company : status'[d] = "none" =>
           /\ accounts'[d] = 0
           /\ \A row \in log : row.of # d
           /\ \A q \in Proc : sync'[q] # Asleep => sync'[q].sub # d
    BY <2>4, <2>5, <2>7 DEF CompaniesInv
  <2>11. \A row \in log, q \in Proc : sync'[q] # Asleep => sync'[q].sub # row.of
    BY <2>7, <2>8 DEF CompaniesInv
  <2>12. \A q, r \in Proc : q # r /\ sync'[q] # Asleep /\ sync'[r] # Asleep => sync'[q].sub # sync'[r].sub
    BY <2>7, <2>9 DEF CompaniesInv
  <2> QED
    BY <2>1, <2>5, <2>6, <2>10, <2>11, <2>12 DEF CompaniesInv
<1>2. ASSUME NEW p \in Proc, LogAccount(p) PROVE CompaniesInv'
  <2>1. PICK row \in RowsOf({"account"}, Company) : row.of = sync[p].sub /\ log' = log \cup {row}
    BY <1>2, AccountLogged
  <2>2. /\ sync[p] # Asleep /\ sync' = [sync EXCEPT ![p] = Asleep]
        /\ UNCHANGED status /\ UNCHANGED contacts /\ UNCHANGED deals /\ UNCHANGED accounts
        /\ UNCHANGED configured /\ UNCHANGED overlapped /\ UNCHANGED unseen /\ UNCHANGED strayed
    BY <1>2 DEF LogAccount, Asleep
  <2>3. sync' \in [Proc -> {Asleep} \cup Accounting] /\ log' \subseteq RowsOf({"account"}, Company)
    BY <2>1, <2>2 DEF CompaniesInv
  <2>4. \A q \in Proc : sync'[q] # Asleep => q # p /\ sync'[q] = sync[q]
    BY <2>2 DEF CompaniesInv
  <2>5. row.of \in Company /\ status[row.of] # "none" /\ \A r \in log : r.of # row.of
    BY <2>1, <2>2 DEF CompaniesInv, RowsOf
  <2>6. \A d \in Company : status[d] = "none" => \A r \in log' : r.of # d
    BY <2>1, <2>5 DEF CompaniesInv
  <2>7. \A d \in Company : status[d] = "none" =>
           \A q \in Proc : sync'[q] # Asleep => sync'[q].sub # d
    BY <2>4 DEF CompaniesInv
  <2>8. \A r \in log', q \in Proc : sync'[q] # Asleep => sync'[q].sub # r.of
    BY <2>1, <2>2, <2>4 DEF CompaniesInv
  <2>9. \A q, r \in Proc : q # r /\ sync'[q] # Asleep /\ sync'[r] # Asleep => sync'[q].sub # sync'[r].sub
    BY <2>4 DEF CompaniesInv
  <2>10. \A r1, r2 \in log' : r1.of = r2.of => r1 = r2
    BY <2>1, <2>5 DEF CompaniesInv
  <2> QED
    BY <2>2, <2>3, <2>6, <2>7, <2>8, <2>9, <2>10 DEF CompaniesInv
<1>3. CASE Restart
  <2>1. /\ sync' = [p \in Proc |-> Asleep] /\ configured' \in BOOLEAN
        /\ UNCHANGED status /\ UNCHANGED contacts /\ UNCHANGED deals /\ UNCHANGED accounts
        /\ UNCHANGED log /\ UNCHANGED overlapped /\ UNCHANGED unseen
    BY <1>3 DEF Restart
  <2>2. \A p \in Proc : InHand(p) = {}
    <3>1. \A p \in Proc : sync[p].step # "commit"
      <4>1. Asleep.step # "commit" /\ \A w \in Accounting : w.step # "commit"
        BY DEF Accounting, Asleep
      <4> QED
        BY <4>1 DEF CompaniesInv
    <3> QED
      BY <3>1 DEF InHand
  <2>3. strayed' = {}
    BY <1>3, <2>2 DEF Restart, CompaniesInv
  <2>4. sync' \in [Proc -> {Asleep} \cup Accounting] /\ \A p \in Proc : sync'[p] = Asleep
    BY <2>1
  <2> QED
    BY <2>1, <2>3, <2>4 DEF CompaniesInv
<1> QED
  BY <1>1, <1>2, <1>3 DEF CompaniesNext

\* What the invariant says of the properties of Crm.
LEMMA CompaniesAreOnce ==
    ASSUME CompaniesInv
    PROVE  CrmTypeOK /\ LogOnce /\ ContactOnce /\ DealOnce
<1>1. \A row \in log : /\ row.kind = "account" /\ row.number \in 1 .. MaxRows
                       /\ row.record \in Refused .. MaxRecords /\ row.of \in Company
  BY DEF CompaniesInv, RowsOf, Record
<1>2. \A p \in Proc : sync[p].step = "idle" => sync[p] = Asleep
  BY DEF CompaniesInv, Accounting
<1>3. contacts \in [Email -> 0 .. MaxRecords]
  BY MaxRecordsAssumption DEF CompaniesInv
<1>4. CrmTypeOK
  BY <1>1, <1>2, <1>3 DEF CompaniesInv, CrmTypeOK, Status
<1> QED
  BY <1>4 DEF CompaniesInv, LogOnce, ContactOnce, DealOnce

-----------------------------------------------------------------------------
(***************************************************************************)
(* Subscriptions: going from one to another.                               *)
(***************************************************************************)
States == {Asleep} \cup Looking \cup Logging \cup Dealing

\* What each step of a synchronisation has at hand.
LEMMA StatesTyped ==
    ASSUME NEW w \in States
    PROVE  /\ w.step \in {"idle"} \cup AtWork
           /\ w.step = "idle" <=> w = Asleep
           /\ w.step \in {"look", "create"} => w \in Looking
           /\ w.step = "log" => w \in Logging
           /\ w.step \in {"deal", "commit"} => w \in Dealing
           /\ w.draft \in SUBSET RowsOf({"contact"}, Sub)
           /\ w.step # "idle" =>
                w.sub \in Sub /\ w.seen \in Status \ {"none"} /\ w.todo \in SUBSET Sub
<1>1. CASE w = Asleep
  BY <1>1 DEF Asleep, AtWork
<1>2. CASE w \in Looking
  BY <1>2 DEF Asleep, AtWork, Looking
<1>3. CASE w \in Logging
  BY <1>3 DEF Asleep, AtWork, Logging
<1>4. CASE w \in Dealing
  BY <1>4 DEF Asleep, AtWork, Dealing
<1> QED
  BY <1>1, <1>2, <1>3, <1>4 DEF States

\* The same of the requests.
LEMMA SyncTyped ==
    ASSUME Typed
    PROVE  /\ sync \in [Proc -> States]
           /\ \A p \in Proc :
                /\ sync[p].step \in {"idle"} \cup AtWork
                /\ sync[p].step = "idle" <=> sync[p] = Asleep
                /\ sync[p].draft \in SUBSET RowsOf({"contact"}, Sub)
                /\ sync[p].step # "idle" => /\ sync[p].sub \in Sub
                                            /\ sync[p].seen \in Status \ {"none"}
                                            /\ sync[p].todo \in SUBSET Sub
<1>1. sync \in [Proc -> States]
  BY DEF Typed, States
<1> QED
  BY <1>1, StatesTyped

\* What a state of a request touches.
TouchedBy(w) == {s \in Sub : w.step # "idle" /\ w.sub = s} \cup {d.of : d \in w.draft}

\* Touches, of a state instead of a request.
LEMMA TouchesAre ==
    /\ Typed => \A p \in Proc : Touches(p) = TouchedBy(sync[p]) /\ Touches(p) \in SUBSET Sub
    /\ Typed' => \A p \in Proc : Touches(p)' = TouchedBy(sync'[p]) /\ Touches(p)' \in SUBSET Sub
<1>1. ASSUME NEW w \in States
      PROVE  /\ {w.sub : x \in {w.step} \cap AtWork} \cup {d.of : d \in w.draft} = TouchedBy(w)
             /\ TouchedBy(w) \in SUBSET Sub
  <2>1. /\ w.step = "idle" \/ (w.step \in AtWork /\ w.sub \in Sub)
        /\ "idle" \notin AtWork
        /\ \A d \in w.draft : d.of \in Sub
    BY StatesTyped DEF AtWork, RowsOf
  <2>2. {w.sub : x \in {w.step} \cap AtWork} = {s \in Sub : w.step # "idle" /\ w.sub = s}
    <3>1. CASE w.step = "idle"
      BY <2>1, <3>1
    <3>2. CASE w.step # "idle"
      BY <2>1, <3>2
    <3> QED
      BY <3>1, <3>2
  <2> QED
    BY <2>1, <2>2 DEF TouchedBy
<1>2. Typed => \A p \in Proc : sync[p] \in States
  BY SyncTyped
<1>3. Typed' => \A p \in Proc : sync'[p] \in States
  BY DEF Typed, States
<1> QED
  BY <1>1, <1>2, <1>3 DEF Touches

\* A step of p that adds to what it touches what the overlaps account for.
LEMMA ApartStays ==
    ASSUME Typed, Apart, Typed', NEW p \in Proc, NEW w, sync' = [sync EXCEPT ![p] = w],
           overlapped \subseteq overlapped',
           \A s \in TouchedBy(w) :
              \/ s \in Touches(p)
              \/ \A q \in Proc \ {p} : \A t \in Touches(q) :
                    /\ s = t => s \in overlapped'
                    /\ EmailOf[s] = EmailOf[t] => EmailOf[s] \in overlapped'
    PROVE  Apart'
<1> SUFFICES ASSUME NEW q \in Proc, NEW r \in Proc, q # r,
                    NEW s \in Touches(q)', NEW t \in Touches(r)'
             PROVE  /\ s = t => s \in overlapped'
                    /\ EmailOf[s] = EmailOf[t] => EmailOf[s] \in overlapped'
  BY DEF Apart
<1>1. \A u \in Proc : u # p => Touches(u)' = Touches(u)
  <2>1. \A u \in Proc : u # p => sync'[u] = sync[u]
    BY DEF Typed
  <2> QED
    BY <2>1, TouchesAre
<1>2. Touches(p)' = TouchedBy(w)
  <2>1. sync'[p] = w
    BY DEF Typed
  <2> QED
    BY <2>1, TouchesAre
<1>3. CASE q # p /\ r # p
  BY <1>1, <1>3 DEF Apart
<1>4. CASE q = p
  BY <1>1, <1>2, <1>4 DEF Apart
<1>5. CASE r = p
  BY <1>1, <1>2, <1>5 DEF Apart
<1> QED
  BY <1>3, <1>4, <1>5

\* p has done with its subscription, or had none: it turns to another one, or rests.
Leaves(p, w) ==
    /\ w \in {Asleep} \cup Looking /\ w.step \in {"idle", "look"}
    /\ sync' = [sync EXCEPT ![p] = w]
    /\ overlapped \subseteq overlapped'
    /\ w.draft \subseteq sync[p].draft
    /\ \A s \in TouchedBy(w) :
         \/ s \in Touches(p)
         \/ \A q \in Proc \ {p} : \A t \in Touches(q) :
               /\ s = t => s \in overlapped'
               /\ EmailOf[s] = EmailOf[t] => EmailOf[s] \in overlapped'

\* Turning to a subscription notes the requests that are at it.
LEMMA Turned ==
    ASSUME Typed, NEW p \in Proc, NEW s \in Sub, NEW seen \in Status \ {"none"},
           NEW todo \in SUBSET Sub, NEW draft \in SUBSET sync[p].draft,
           Turn(p, s, seen, todo, draft)
    PROVE  LET w == [step |-> "look", sub |-> s, seen |-> seen, todo |-> todo, draft |-> draft]
           IN  Leaves(p, w)
<1> DEFINE w == [step |-> "look", sub |-> s, seen |-> seen, todo |-> todo, draft |-> draft]
           others == UNION {Touches(q) : q \in Proc \ {p}}
<1>1. w \in Looking
  BY SyncTyped DEF Looking
<1>2. /\ sync' = [sync EXCEPT ![p] = w]
      /\ overlapped' = overlapped \cup ({s} \cap others)
                        \cup {EmailOf[t] : t \in {t \in others : EmailOf[t] = EmailOf[s]}}
  BY DEF Turn
<1>3. \A q \in Proc \ {p} : \A t \in Touches(q) :
               /\ s = t => s \in overlapped'
               /\ EmailOf[s] = EmailOf[t] => EmailOf[s] \in overlapped'
  <2> SUFFICES ASSUME NEW q \in Proc \ {p}, NEW t \in Touches(q)
               PROVE  /\ s = t => s \in overlapped'
                      /\ EmailOf[s] = EmailOf[t] => EmailOf[s] \in overlapped'
    OBVIOUS
  <2>1. t \in others
    OBVIOUS
  <2> HIDE DEF others
  <2>2. EmailOf[s] = EmailOf[t] => EmailOf[t] \in {EmailOf[u] : u \in {u \in others : EmailOf[u] = EmailOf[s]}}
    BY <2>1
  <2> QED
    BY <1>2, <2>1, <2>2
<1>4. TouchedBy(w) \subseteq {s} \cup Touches(p)
  BY TouchesAre DEF TouchedBy
<1>5. \A x \in TouchedBy(w) :
         \/ x \in Touches(p)
         \/ \A q \in Proc \ {p} : \A t \in Touches(q) :
               /\ x = t => x \in overlapped'
               /\ EmailOf[x] = EmailOf[t] => EmailOf[x] \in overlapped'
  BY <1>3, <1>4
<1>6. overlapped \subseteq overlapped' /\ w.draft \subseteq sync[p].draft /\ w.step \in {"idle", "look"}
  BY <1>2
<1> HIDE DEF w
<1>7. Leaves(p, w)
  BY <1>1, <1>2, <1>5, <1>6 DEF Leaves
<1> QED
  BY <1>7 DEF w

\* NextOne takes the next active subscription, or ends the request.
LEMMA NextOneLeaves ==
    ASSUME Typed, NEW p \in Proc, sync[p].step # "idle", NEW draft \in SUBSET sync[p].draft,
           NextOne(p, draft)
    PROVE  \E w \in {Asleep} \cup Looking :
              /\ Leaves(p, w)
              /\ w.step = "look" => w.seen = "active" /\ w.sub \in sync[p].todo /\ w.todo \subseteq sync[p].todo
<1>0. sync[p].todo \in SUBSET Sub /\ "active" \in Status \ {"none"}
  BY SyncTyped DEF Status
<1>1. ASSUME NEW s \in sync[p].todo, Turn(p, s, "active", sync[p].todo \ {s}, draft)
      PROVE  \E w \in {Asleep} \cup Looking :
              /\ Leaves(p, w)
              /\ w.step = "look" => w.seen = "active" /\ w.sub \in sync[p].todo /\ w.todo \subseteq sync[p].todo
  <2>1. PICK w : w = [step |-> "look", sub |-> s, seen |-> "active", todo |-> sync[p].todo \ {s}, draft |-> draft]
    OBVIOUS
  <2>2. Leaves(p, w)
    <3>1. s \in Sub /\ sync[p].todo \ {s} \in SUBSET Sub
      BY <1>0
    <3> QED
      BY <1>0, <1>1, <2>1, <3>1, Turned
  <2>3. w.seen = "active" /\ w.sub = s /\ w.todo = sync[p].todo \ {s}
    BY <2>1
  <2>4. w \in {Asleep} \cup Looking
    BY <2>2 DEF Leaves
  <2> QED
    BY <2>2, <2>3, <2>4
<1>2. ASSUME sync' = [sync EXCEPT ![p] = Asleep], UNCHANGED overlapped
      PROVE  Leaves(p, Asleep) /\ Asleep.step = "idle"
  <2>1. TouchedBy(Asleep) = {}
    BY DEF TouchedBy, Asleep
  <2> QED
    BY <1>2, <2>1 DEF Leaves, Asleep
<1>3. Leaves(p, Asleep) /\ Asleep.step = "idle" => \E w \in {Asleep} \cup Looking :
              /\ Leaves(p, w)
              /\ w.step = "look" => w.seen = "active" /\ w.sub \in sync[p].todo /\ w.todo \subseteq sync[p].todo
  OBVIOUS
<1> QED
  BY <1>1, <1>2, <1>3 DEF NextOne

-----------------------------------------------------------------------------
(***************************************************************************)
(* The log.                                                                *)
(***************************************************************************)
\* The row that _log_sync leaves in a session, in the place of the one it found.
Leftover(p, kind, x, record, held, row) ==
    /\ row \in RowsOf({kind}, Sub) /\ row.of = x
    /\ AfterLog(p, kind, x, record, held) = (sync[p].draft \ Logged(p, kind, x)) \cup {row}
    /\ \/ /\ Logged(p, kind, x) = {}
          /\ row.record = record /\ row.number \notin Numbers(kind, x)
       \/ \E old \in Logged(p, kind, x) :
            /\ Logged(p, kind, x) = {old}
            /\ row.number = old.number
            /\ row.record = IF held THEN old.record ELSE record

\* _log_sync leaves one row in the session.
LEMMA LoggedRow ==
    ASSUME Typed, NEW p \in Proc, NEW kind \in {"contact", "deal"}, NEW x \in Sub,
           NEW record \in Record, NEW held \in BOOLEAN, CanLog(p, kind, x)
    PROVE  \E row \in RowsOf({"contact", "deal"}, Sub) : Leftover(p, kind, x, record, held, row)
<1>1. CASE Logged(p, kind, x) = {}
  <2>1. Numbers(kind, x) # 1 .. MaxRows /\ Numbers(kind, x) \subseteq 1 .. MaxRows
    <3>1. \A r \in Ever(kind, x) : r.number \in 1 .. MaxRows
      <4>1. \A r \in log : r.number \in 1 .. MaxRows
        BY DEF Typed, RowsOf
      <4>2. \A q \in Proc : \A r \in sync[q].draft : r.number \in 1 .. MaxRows
        BY SyncTyped DEF RowsOf
      <4> QED
        BY <4>1, <4>2 DEF Ever, About
    <3> QED
      BY <1>1, <3>1 DEF CanLog, Numbers
  <2>2. \E n \in 1 .. MaxRows : n \notin Numbers(kind, x)
    BY <2>1
  <2>3. PICK n \in 1 .. MaxRows :
          n = (CHOOSE m \in 1 .. MaxRows : m \notin Numbers(kind, x)) /\ n \notin Numbers(kind, x)
    BY <2>2
  <2>4. PICK row : row = [kind |-> kind, of |-> x, record |-> record, number |-> n]
    OBVIOUS
  <2>5. NewRow(kind, x, record) = row
    BY <2>3, <2>4 DEF NewRow
  <2>6. AfterLog(p, kind, x, record, held) = sync[p].draft \cup {row}
    BY <1>1, <2>5 DEF AfterLog
  <2>7. row \in RowsOf({kind}, Sub) /\ row \in RowsOf({"contact", "deal"}, Sub)
    BY <2>4 DEF RowsOf
  <2> QED
    BY <1>1, <2>3, <2>4, <2>6, <2>7 DEF Leftover
<1>2. CASE Logged(p, kind, x) # {}
  <2>1. PICK old : old \in Logged(p, kind, x) /\ Logged(p, kind, x) = {old}
    BY <1>2 DEF CanLog, Readable
  <2>2. old \in RowsOf({kind}, Sub) /\ old.of = x
    <3>1. old \in RowsOf({"contact", "deal"}, Sub) /\ old.kind = kind /\ old.of = x
      BY <2>1, SyncTyped DEF Logged, About, Over, Typed, RowsOf
    <3> QED
      BY <3>1 DEF RowsOf
  <2>3. PICK row : row = [old EXCEPT !.record = IF held THEN @ ELSE record]
    OBVIOUS
  <2>4. {[r EXCEPT !.record = IF held THEN @ ELSE record] : r \in {old}} = {row}
    BY <2>3
  <2>5. AfterLog(p, kind, x, record, held) = (sync[p].draft \ Logged(p, kind, x)) \cup {row}
    BY <1>2, <2>1, <2>4 DEF AfterLog
  <2>6. /\ row \in RowsOf({kind}, Sub) /\ row \in RowsOf({"contact", "deal"}, Sub)
        /\ row.of = x /\ row.number = old.number /\ row.record = IF held THEN old.record ELSE record
    BY <2>2, <2>3 DEF RowsOf
  <2> QED
    BY <2>1, <2>5, <2>6 DEF Leftover
<1> QED
  BY <1>1, <1>2

\* A request that finds no row of a subscription that is its own alone finds
\* that there is none.
LEMMA NoRowAnywhere ==
    ASSUME Typed, Apart, NEW p \in Proc, NEW kind, sync[p].step # "idle", Alone(sync[p].sub),
           Logged(p, kind, sync[p].sub) = {}
    PROVE  Ever(kind, sync[p].sub) = {}
<1> DEFINE s == sync[p].sub
<1>1. \A d \in sync[p].draft : ~(d.kind = kind /\ d.of = s)
  BY DEF Logged, About, Over
<1>2. \A r \in log : ~(r.kind = kind /\ r.of = s)
  BY <1>1 DEF Logged, About, Over, Same
<1>3. ASSUME NEW q \in Proc, q # p, NEW d \in sync[q].draft PROVE d.of # s
  <2>1. d.of \in Touches(q) /\ s \in Touches(p)
    BY TouchesAre, SyncTyped DEF TouchedBy, RowsOf
  <2> QED
    BY <1>3, <2>1 DEF Apart, Alone
<1> QED
  BY <1>1, <1>2, <1>3 DEF Ever, About

\* Rows of a subscription on which no requests overlap keep one number.
LEMMA OneNumber ==
    ASSUME Typed, Apart, RowsApart, NEW p \in Proc, sync[p].step # "idle",
           NEW kind \in {"contact", "deal"}, NEW record, NEW held, NEW row,
           Leftover(p, kind, sync[p].sub, record, held, row),
           overlapped \subseteq overlapped',
           \A k \in {"contact", "deal"}, x \in Sub : \A r \in Ever(k, x)' :
              r \in Ever(k, x) \/ (r = row /\ k = kind /\ x = sync[p].sub)
    PROVE  \A s \in Sub : Alone(s)' =>
             \A k \in {"contact", "deal"} : \A r1, r2 \in Ever(k, s)' : r1.number = r2.number
<1> SUFFICES ASSUME NEW s \in Sub, Alone(s)', NEW k \in {"contact", "deal"},
                    NEW r1 \in Ever(k, s)', NEW r2 \in Ever(k, s)'
             PROVE  r1.number = r2.number
  OBVIOUS
<1>1. Alone(s)
  BY DEF Alone
<1>2. \A a, b \in Ever(k, s) : a.number = b.number
  BY <1>1 DEF RowsApart
<1>3. CASE k = kind /\ s = sync[p].sub
  <2>1. CASE Logged(p, kind, s) = {}
    <3>1. Ever(k, s) = {}
      BY <1>1, <1>3, <2>1, NoRowAnywhere
    <3> QED
      BY <3>1
  <2>2. CASE Logged(p, kind, s) # {}
    <3>1. PICK old \in Logged(p, kind, s) : row.number = old.number
      BY <1>3, <2>2 DEF Leftover
    <3>2. old \in Ever(k, s)
      BY <1>3, <3>1 DEF Logged, About, Over, Ever
    <3> QED
      BY <1>2, <3>1, <3>2
  <2> QED
    BY <2>1, <2>2
<1>4. CASE ~(k = kind /\ s = sync[p].sub)
  BY <1>2, <1>4
<1> QED
  BY <1>3, <1>4

\* Such rows of a session, and the log with them, keep their numbers apart.
LEMMA LeftoverApart ==
    ASSUME RowsApart, NEW p \in Proc, NEW kind, NEW x, NEW record, NEW held, NEW row,
           Leftover(p, kind, x, record, held, row)
    PROVE  LET D == AfterLog(p, kind, x, record, held) IN Distinct(D) /\ Distinct(Over(D))
<1> DEFINE D == AfterLog(p, kind, x, record, held)
<1>1. D = (sync[p].draft \ Logged(p, kind, x)) \cup {row} /\ row.kind = kind /\ row.of = x
  BY DEF Leftover, RowsOf
<1>2. \A d \in sync[p].draft \ Logged(p, kind, x) : ~Same(d, row) /\ ~Same(row, d)
  BY <1>1 DEF Logged, About, Over, Same
<1> HIDE DEF D
<1>3. Distinct(sync[p].draft)
  BY DEF RowsApart
<1>4. Distinct(D)
  <2> SUFFICES ASSUME NEW a \in D, NEW b \in D, Same(a, b) PROVE a = b
    BY DEF Distinct
  <2> QED
    BY <1>1, <1>2, <1>3 DEF Distinct
<1>5. Distinct(Over(D))
  <2> SUFFICES ASSUME NEW a \in Over(D), NEW b \in Over(D), Same(a, b) PROVE a = b
    BY DEF Distinct
  <2>1. \A c \in Over(D) : c \in D \/ (c \in log /\ \A d \in D : ~Same(d, c))
    BY DEF Over
  <2>2. Same(b, a)
    BY DEF Same
  <2>3. \/ a \in D /\ b \in D
        \/ a \in log /\ b \in log
    BY <2>1, <2>2
  <2> QED
    BY <1>4, <2>3 DEF Distinct, RowsApart
<1> QED
  BY <1>4, <1>5 DEF D

\* Sessions hold rows of contacts only until their commit: what they see of
\* deals is the log.
LEMMA DealsAreInTheLog ==
    ASSUME Typed, NEW p \in Proc, NEW x
    PROVE  Logged(p, "deal", x) = DealRows(x)
<1>1. \A d \in sync[p].draft : d.kind = "contact"
  BY SyncTyped DEF RowsOf
<1> QED
  BY <1>1 DEF Logged, DealRows, About, Over, Same

-----------------------------------------------------------------------------
(***************************************************************************)
(* What a step of one request leaves as it was.                            *)
(***************************************************************************)
Own(p) == {s \in Sub : sync[p].step # "idle" /\ sync[p].sub = s}

\* The deals at Zoho are numbered, and each is for a subscription.
LEMMA DealsTyped ==
    ASSUME Typed
    PROVE  /\ DOMAIN deals = 1 .. Len(deals) /\ Len(deals) \in 0 .. MaxRecords
           /\ \A d \in DOMAIN deals : deals[d].sub \in Sub /\ deals[d].stage \in Stages
<1>1. deals \in Seq([sub : Sub, stage : Stages]) /\ Len(deals) <= MaxRecords
  BY DEF Typed
<1>2. DOMAIN deals = 1 .. Len(deals) /\ Len(deals) \in Nat
  BY <1>1
<1>3. \A d \in DOMAIN deals : deals[d] \in [sub : Sub, stage : Stages]
  <2> DEFINE Deal == [sub : Sub, stage : Stages]
  <2>1. deals \in Seq(Deal)
    BY <1>1
  <2> HIDE DEF Deal
  <2>2. \A d \in 1 .. Len(deals) : deals[d] \in Deal
    BY <2>1
  <2> QED
    BY <1>2, <2>2 DEF Deal
<1> QED
  BY <1>1, <1>2, <1>3, MaxRecordsAssumption

\* Rows and requests are about subscriptions that have been made.
LEMMA BegunStays ==
    ASSUME Typed, Typed', Begun, NEW p \in Proc, NEW w, sync' = [sync EXCEPT ![p] = w],
           \A s \in Sub : status[s] # "none" => status'[s] # "none",
           \A row \in log' : row.of \in Touches(p) \/ \E r \in log : r.of = row.of,
           w # Asleep => \A s \in TouchedBy(w) \cup w.todo : status'[s] # "none"
    PROVE  Begun'
<1>1. \A q \in Proc : sync'[q] = IF q = p THEN w ELSE sync[q]
  BY DEF Typed
<1>2. \A row \in log : row.of \in Sub
  BY DEF Typed, RowsOf
<1>3. \A s \in Touches(p) : status[s] # "none" /\ s \in Sub
  <2>1. sync[p] = Asleep => Touches(p) = {}
    BY TouchesAre DEF TouchedBy, Asleep
  <2> QED
    BY <2>1, TouchesAre DEF Begun
<1>4. \A row \in log' : status'[row.of] # "none"
  BY <1>2, <1>3 DEF Begun
<1>5. ASSUME NEW q \in Proc, sync'[q] # Asleep, NEW s \in Touches(q)' \cup sync'[q].todo
      PROVE  status'[s] # "none"
  <2>1. CASE q = p
    <3>1. Touches(q)' = TouchedBy(w) /\ sync'[q] = w
      BY <1>1, <2>1, TouchesAre
    <3> QED
      BY <1>5, <3>1
  <2>2. CASE q # p
    <3>1. Touches(q)' = Touches(q) /\ sync'[q] = sync[q]
      BY <1>1, <2>2, TouchesAre
    <3>2. Touches(q) \cup sync[q].todo \subseteq Sub
      BY <1>5, <3>1, TouchesAre, SyncTyped
    <3> QED
      BY <1>5, <3>1, <3>2 DEF Begun
  <2> QED
    BY <2>1, <2>2
<1> QED
  BY <1>4, <1>5 DEF Begun

\* No new row.
LEMMA RowsStay ==
    ASSUME Typed, RowsApart, log' = log, \A q \in Proc : sync'[q].draft \subseteq sync[q].draft,
           overlapped \subseteq overlapped'
    PROVE  RowsApart'
<1>1. \A q \in Proc : Distinct(sync'[q].draft)
  BY DEF RowsApart, Distinct
<1>2. \A k, x : Ever(k, x)' \subseteq Ever(k, x)
  BY DEF Ever, About
<1>3. \A s \in Sub : Alone(s)' => Alone(s)
  BY DEF Alone
<1>4. Distinct(log)' /\ \A q \in Proc : Distinct(sync[q].draft)'
  BY <1>1 DEF RowsApart, Distinct, Same
<1>5. \A s \in Sub : Alone(s)' =>
         \A kind \in {"contact", "deal"} : \A r1, r2 \in Ever(kind, s)' : r1.number = r2.number
  BY <1>2, <1>3 DEF RowsApart
<1> QED
  BY <1>4, <1>5 DEF RowsApart

\* No contact is made, and whoever is about to make one was so before.
LEMMA ContactsStay ==
    ASSUME ContactsInv, contacts' = contacts, overlapped \subseteq overlapped', unseen \subseteq unseen',
           \A q \in Proc : sync'[q].step = "create" => sync'[q] = sync[q]
    PROVE  ContactsInv'
  BY DEF ContactsInv, ContactOnce

\* What others know of their deals, when p changes only the rows and the deal
\* of its own subscription.
LEMMA OthersKeep ==
    ASSUME Typed, Apart, DealsInv, NEW p \in Proc, NEW w, sync' = [sync EXCEPT ![p] = w],
           configured' = configured, overlapped \subseteq overlapped', strayed \subseteq strayed',
           \A d \in DOMAIN deals : /\ d \in DOMAIN deals' /\ deals'[d].sub = deals[d].sub
                                   /\ deals[d].sub \notin Own(p) => deals'[d] = deals[d],
           \A d \in DOMAIN deals' : deals'[d].sub \notin Own(p) => d \in DOMAIN deals,
           \A s \in Sub \ Own(p) : DealRows(s)' = DealRows(s),
           NEW q \in Proc, q # p
    PROVE  DealKnown(q)' /\ DealFree(q)' /\ StageKept(q)'
<1>1. PICK r \in States : r = sync[q] /\ r = sync'[q]
  BY SyncTyped
<1>2. CASE r.step = "idle"
  BY <1>1, <1>2 DEF DealKnown, DealFree, StageKept, AtWork
<1>3. CASE r.step # "idle"
  <2>1. PICK s \in Sub : s = r.sub
    BY <1>1, <1>3, SyncTyped
  <2>2. CASE s \in Own(p)
    <3>1. s \in Touches(p) /\ s \in Touches(q)
      BY <1>1, <1>3, <2>1, <2>2, TouchesAre DEF Own, TouchedBy
    <3>2. ~Alone(s) /\ ~Alone(s)' /\ ~Intact(s)'
      BY <3>1 DEF Apart, Alone, Intact
    <3>3. DealsOf(s) \subseteq DealsOf(s)'
      BY DEF DealsOf
    <3>4. DealKnown(q) /\ StageKept(q)
      BY DEF DealsInv
    <3>5. DealKnown(q)'
      BY <1>1, <2>1, <3>2, <3>3, <3>4 DEF DealKnown
    <3>6. StageKept(q)'
      BY <1>1, <2>1, <3>2, <3>4 DEF StageKept
    <3>7. DealFree(q)'
      BY <1>1, <2>1, <3>2 DEF DealFree
    <3> QED
      BY <3>5, <3>6, <3>7
  <2>3. CASE s \notin Own(p)
    <3>1. DealsOf(s)' = DealsOf(s) /\ \A d \in DealsOf(s) : deals'[d] = deals[d]
      BY <2>3 DEF DealsOf
    <3>2. DealRows(s)' = DealRows(s)
      BY <2>3
    <3>3. (Alone(s)' => Alone(s)) /\ (Intact(s)' => Intact(s))
      BY DEF Alone, Intact
    <3>4. DealKnown(q) /\ StageKept(q) /\ DealFree(q)
      BY DEF DealsInv
    <3>5. DealKnown(q)'
      BY <1>1, <2>1, <3>1, <3>2, <3>3, <3>4 DEF DealKnown
    <3>6. DealFree(q)'
      BY <1>1, <2>1, <3>1, <3>3, <3>4 DEF DealFree
    <3>7. StageKept(q)'
      <4>1. r.step = "commit" /\ r.taken => r.deal \in DealsOf(s)
        BY <1>1, <2>1, <3>4 DEF DealKnown, StageKept
      <4> QED
        BY <1>1, <2>1, <3>1, <3>2, <3>3, <3>4, <4>1 DEF StageKept
    <3> QED
      BY <3>5, <3>6, <3>7
  <2> QED
    BY <2>2, <2>3
<1> QED
  BY <1>2, <1>3

\* The whole of DealsInv, from what p does to its own subscription.
LEMMA DealsCarry ==
    ASSUME Typed, Typed', Apart, DealsInv, NEW p \in Proc, NEW w, sync' = [sync EXCEPT ![p] = w],
           configured' = configured, overlapped \subseteq overlapped', strayed \subseteq strayed',
           \A d \in DOMAIN deals : /\ d \in DOMAIN deals' /\ deals'[d].sub = deals[d].sub
                                   /\ deals[d].sub \notin Own(p) => deals'[d] = deals[d],
           \A d \in DOMAIN deals' : deals'[d].sub \notin Own(p) => d \in DOMAIN deals,
           \A s \in Sub \ Own(p) : DealRows(s)' = DealRows(s),
           \A row \in log' : row.kind = "deal" /\ row.record > 0 => row.record \in DealsOf(row.of)',
           DealKnown(p)' /\ DealFree(p)' /\ StageKept(p)',
           \A d \in DOMAIN deals' : deals'[d].sub \in Own(p) /\ Intact(deals[d].sub)' => Named(d)',
           \A d1, d2 \in DOMAIN deals' :
              deals'[d1].sub = deals'[d2].sub /\ deals'[d1].sub \in Own(p) /\ Intact(deals[d1].sub)'
                => d1 = d2
    PROVE  DealsInv'
<1>1. \A q \in Proc : DealKnown(q)' /\ DealFree(q)' /\ StageKept(q)'
  BY OthersKeep
<1>2. \A s : (Intact(s)' => Intact(s)) /\ (Intact(s)' <=> Alone(s)' /\ s \notin strayed')
  BY DEF Intact, Alone
<1>3. DealOnce'
  <2> SUFFICES ASSUME NEW d1 \in DOMAIN deals', NEW d2 \in DOMAIN deals',
                      deals'[d1].sub = deals'[d2].sub, Intact(deals[d1].sub)'
               PROVE  d1 = d2
    BY <1>2 DEF DealOnce
  <2>1. CASE deals'[d1].sub \in Own(p)
    BY <2>1
  <2>2. CASE deals'[d1].sub \notin Own(p)
    <3>1. /\ d1 \in DOMAIN deals /\ d2 \in DOMAIN deals
          /\ deals[d1].sub = deals[d2].sub /\ deals[d1].sub = deals'[d1].sub
      BY <2>2
    <3>2. PICK s : s = deals[d1].sub /\ s = deals'[d1].sub
      BY <3>1
    <3>3. Intact(s)' /\ Intact(s)
      BY <1>2, <3>2 DEF Intact, Alone
    <3> QED
      BY <3>1, <3>2, <3>3 DEF DealsInv, DealOnce, Intact
  <2> QED
    BY <2>1, <2>2
<1>4. ASSUME NEW d \in DOMAIN deals', Intact(deals[d].sub)' PROVE Named(d)'
  <2>1. CASE deals'[d].sub \in Own(p)
    BY <1>4, <2>1
  <2>2. CASE deals'[d].sub \notin Own(p)
    <3>1. d \in DOMAIN deals /\ deals'[d].sub = deals[d].sub
      BY <2>2
    <3>2. PICK s \in Sub : s = deals[d].sub /\ s = deals'[d].sub
      BY <3>1, DealsTyped
    <3>3. Intact(s)' /\ Intact(s)
      BY <1>2, <1>4, <3>2 DEF Intact, Alone
    <3>4. Named(d)
      BY <3>1, <3>2, <3>3 DEF DealsInv
    <3>5. s \notin InHand(p)
      <4>1. s \in InHand(p) => s \in Own(p)
        BY DEF InHand, Own
      <4> QED
        BY <4>1, <2>2, <3>2
    <3>6. \A q \in Proc : q # p => sync'[q] = sync[q]
      BY DEF Typed
    <3>7. \A q \in Proc : s \in InHand(q) => s \in InHand(q)' /\ sync'[q] = sync[q]
      BY <3>5, <3>6 DEF InHand
    <3>8. DealRows(s)' = DealRows(s)
      BY <2>2, <3>2
    <3> QED
      BY <3>2, <3>4, <3>7, <3>8 DEF Named
  <2> QED
    BY <2>1, <2>2
<1> QED
  BY <1>1, <1>3, <1>4 DEF DealsInv

\* The special case in which no deal and no row changes, and p ends up before
\* the deal of a subscription or at rest.
LEMMA DealsUntouched ==
    ASSUME Typed, Typed', Apart, DealsInv, NEW p \in Proc, NEW w, sync' = [sync EXCEPT ![p] = w],
           configured' = configured, overlapped \subseteq overlapped', strayed \subseteq strayed',
           deals' = deals, log' = log, InHand(p) \subseteq strayed',
           w.step \notin {"deal", "commit"},
           w.step # "idle" /\ w.seen = "incomplete" /\ Alone(w.sub)' => DealRows(w.sub) = {}
    PROVE  DealsInv'
<1>1. sync'[p] = w
  BY DEF Typed
<1>2. \A s : DealRows(s)' = DealRows(s) /\ DealsOf(s)' = DealsOf(s)
  BY DEF DealRows, About, DealsOf
<1>3. DealKnown(p)' /\ DealFree(p)' /\ StageKept(p)'
  BY <1>1, <1>2 DEF DealKnown, DealFree, StageKept, AtWork
<1>4. \A row \in log' : row.kind = "deal" /\ row.record > 0 => row.record \in DealsOf(row.of)'
  BY <1>2 DEF DealsInv
<1>5. \A s : Intact(s)' => Intact(s)
  BY DEF Intact, Alone
<1>6. ASSUME NEW d \in DOMAIN deals, Intact(deals[d].sub)' PROVE Named(d)'
  <2>1. PICK s : s = deals[d].sub
    OBVIOUS
  <2>2. Intact(s)' /\ Intact(s) /\ Named(d) /\ s \notin InHand(p)
    BY <1>5, <1>6, <2>1 DEF DealsInv, Intact
  <2>3. \A q \in Proc : q # p => sync'[q] = sync[q]
    BY DEF Typed
  <2>4. \A q \in Proc : s \in InHand(q) => s \in InHand(q)' /\ sync'[q] = sync[q]
    BY <2>2, <2>3 DEF InHand
  <2> QED
    BY <1>2, <2>1, <2>2, <2>4 DEF Named
<1>7. \A d1, d2 \in DOMAIN deals' :
         deals'[d1].sub = deals'[d2].sub /\ deals'[d1].sub \in Own(p) /\ Intact(deals[d1].sub)'
            => d1 = d2
  <2> SUFFICES ASSUME NEW d1 \in DOMAIN deals, NEW d2 \in DOMAIN deals,
                      deals[d1].sub = deals[d2].sub, Intact(deals[d1].sub)'
               PROVE  d1 = d2
    OBVIOUS
  <2>1. PICK s : s = deals[d1].sub
    OBVIOUS
  <2>2. Intact(s)' /\ Intact(s)
    BY <1>5, <2>1 DEF Intact
  <2> QED
    BY <2>1, <2>2 DEF DealsInv, DealOnce, Intact
<1> QED
  BY <1>2, <1>3, <1>4, <1>6, <1>7, DealsCarry

-----------------------------------------------------------------------------
(***************************************************************************)
(* The steps up to the contact.                                            *)
(***************************************************************************)
LEMMA SyncBecomes ==
    ASSUME Typed, NEW p \in Proc, NEW w \in States, sync' = [sync EXCEPT ![p] = w]
    PROVE  /\ sync' \in [Proc -> States] /\ sync'[p] = w
           /\ \A q \in Proc : q # p => sync'[q] = sync[q]
  BY SyncTyped

\* Leaving a subscription adds no row and goes only to subscriptions that are
\* there.
LEMMA LeavesKeeps ==
    ASSUME Typed, Typed', Apart, Begun, RowsApart, NEW p \in Proc, NEW w, Leaves(p, w),
           log' = log, \A s \in Sub : status[s] # "none" => status'[s] # "none",
           w.step # "idle" => status'[w.sub] # "none" /\ \A s \in w.todo : status'[s] # "none"
    PROVE  Apart' /\ Begun' /\ RowsApart'
<1>1. /\ w \in States /\ sync' = [sync EXCEPT ![p] = w] /\ overlapped \subseteq overlapped'
      /\ w.draft \subseteq sync[p].draft
      /\ \A s \in TouchedBy(w) :
           \/ s \in Touches(p)
           \/ \A q \in Proc \ {p} : \A t \in Touches(q) :
                 /\ s = t => s \in overlapped'
                 /\ EmailOf[s] = EmailOf[t] => EmailOf[s] \in overlapped'
  BY DEF Leaves, States
<1>2. Apart'
  BY <1>1, ApartStays
<1>3. RowsApart'
  BY <1>1, SyncBecomes, RowsStay
<1>4. Begun'
  <2>1. \A s \in TouchedBy(w) : (w.step # "idle" /\ s = w.sub) \/ s \in Touches(p)
    BY <1>1, TouchesAre DEF TouchedBy
  <2>2. \A s \in Touches(p) : s \in Sub /\ status[s] # "none"
    <3>1. sync[p] = Asleep => Touches(p) = {}
      BY TouchesAre DEF TouchedBy, Asleep
    <3> QED
      BY <3>1, TouchesAre DEF Begun
  <2>3. w # Asleep => w.step # "idle"
    BY <1>1, StatesTyped
  <2>4. w # Asleep => \A s \in TouchedBy(w) \cup w.todo : status'[s] # "none"
    BY <2>1, <2>2, <2>3
  <2>5. \A row \in log' : row.of \in Touches(p) \/ \E r \in log : r.of = row.of
    OBVIOUS
  <2> QED
    BY <1>1, <2>4, <2>5, BegunStays
<1> QED
  BY <1>2, <1>3, <1>4

\* A step within a subscription that flushes nothing.
LEMMA StaysKeeps ==
    ASSUME Typed, Typed', Apart, Begun, RowsApart, NEW p \in Proc, NEW w \in States,
           sync' = [sync EXCEPT ![p] = w], sync[p].step # "idle", w.step # "idle",
           w.sub = sync[p].sub, w.todo = sync[p].todo, w.draft = sync[p].draft,
           log' = log, status' = status, overlapped' = overlapped
    PROVE  Apart' /\ Begun' /\ RowsApart'
<1>1. TouchedBy(w) = Touches(p)
  BY TouchesAre DEF TouchedBy
<1>2. Apart'
  BY <1>1, ApartStays
<1>3. RowsApart'
  BY SyncBecomes, RowsStay
<1>4. Begun'
  <2>1. sync[p] # Asleep
    BY SyncTyped
  <2>2. \A s \in TouchedBy(w) \cup w.todo : status'[s] # "none"
    BY <1>1, <2>1 DEF Begun
  <2> QED
    BY <2>2, BegunStays
<1> QED
  BY <1>2, <1>3, <1>4

\* A step that leaves the records at Zoho and the log as they are.
LEMMA LeavesQuietly ==
    ASSUME SubscriptionsInv, NEW p \in Proc, NEW w, Leaves(p, w),
           contacts' = contacts, deals' = deals, accounts' = accounts, log' = log,
           configured' = configured, unseen' = unseen,
           strayed \subseteq strayed', InHand(p) \subseteq strayed',
           status' \in [Sub \cup Company -> Status],
           \A s \in Sub : status[s] # "none" => status'[s] # "none",
           w.step # "idle" => status'[w.sub] # "none" /\ \A s \in w.todo : status'[s] # "none",
           w.step # "idle" /\ w.seen = "incomplete" /\ Alone(w.sub)' => DealRows(w.sub) = {}
    PROVE  SubscriptionsInv'
<1>1. /\ Typed /\ Apart /\ Begun /\ RowsApart /\ ContactsInv /\ DealsInv
      /\ w \in States /\ w.step \in {"idle", "look"} /\ sync' = [sync EXCEPT ![p] = w]
      /\ overlapped \subseteq overlapped'
  BY DEF SubscriptionsInv, Leaves, States
<1>2. /\ sync' \in [Proc -> States] /\ sync'[p] = w
      /\ \A q \in Proc : q # p => sync'[q] = sync[q]
  BY <1>1, SyncBecomes
<1>3. Typed'
  BY <1>1, <1>2 DEF Typed, States
<1>4. Apart' /\ Begun' /\ RowsApart'
  BY <1>1, <1>3, LeavesKeeps
<1>5. ContactsInv'
  BY <1>1, <1>2, ContactsStay
<1>6. DealsInv'
  BY <1>1, <1>3, DealsUntouched
<1> QED
  BY <1>3, <1>4, <1>5, <1>6 DEF SubscriptionsInv

\* A new subscription has no row in the log.
LEMMA SubscribeStep ==
    ASSUME SubscriptionsInv, NEW p \in Proc, NEW s \in Sub, Subscribe(p, s)
    PROVE  SubscriptionsInv'
<1>1. PICK w : w = [step |-> "look", sub |-> s, seen |-> "incomplete", todo |-> {}, draft |-> {}]
  OBVIOUS
<1>2. Typed /\ Begun
  BY DEF SubscriptionsInv
<1>3. Leaves(p, w)
  <2>1. "incomplete" \in Status \ {"none"} /\ {} \in SUBSET Sub /\ {} \in SUBSET sync[p].draft
    BY DEF Status
  <2> QED
    BY <1>1, <1>2, <2>1, Turned DEF Subscribe
<1>4. /\ w.step = "look" /\ w.sub = s /\ w.todo = {}
      /\ sync[p] = Asleep /\ status[s] = "none" /\ status' = [status EXCEPT ![s] = "incomplete"]
      /\ UNCHANGED contacts /\ UNCHANGED deals /\ UNCHANGED accounts /\ UNCHANGED log
      /\ UNCHANGED configured /\ UNCHANGED unseen /\ UNCHANGED strayed
  BY <1>1 DEF Subscribe
<1>5. status' \in [Sub \cup Company -> Status] /\ status'[s] # "none"
      /\ \A t \in Sub : status[t] # "none" => status'[t] # "none"
  BY <1>2, <1>4 DEF Typed, Status
<1>6. DealRows(s) = {}
  BY <1>2, <1>4 DEF Begun, DealRows, About
<1>7. InHand(p) = {}
  BY <1>4 DEF InHand, Asleep
<1> QED
  BY <1>3, <1>4, <1>5, <1>6, <1>7, LeavesQuietly

\* sync_now starts with the active subscriptions.
LEMMA SyncNowStep ==
    ASSUME SubscriptionsInv, NEW p \in Proc, SyncNow(p)
    PROVE  SubscriptionsInv'
<1>1. PICK s \in Sub : /\ status[s] = "active"
                       /\ Turn(p, s, "active", {t \in Sub \ {s} : status[t] = "active"}, {})
  BY DEF SyncNow
<1>2. PICK w : w = [step |-> "look", sub |-> s, seen |-> "active",
                    todo |-> {t \in Sub \ {s} : status[t] = "active"}, draft |-> {}]
  OBVIOUS
<1>3. Typed
  BY DEF SubscriptionsInv
<1>4. Leaves(p, w)
  <2>1. /\ "active" \in Status \ {"none"} /\ {t \in Sub \ {s} : status[t] = "active"} \in SUBSET Sub
        /\ {} \in SUBSET sync[p].draft
    BY DEF Status
  <2> QED
    BY <1>1, <1>2, <1>3, <2>1, Turned
<1>5. /\ w.step = "look" /\ w.sub = s /\ w.seen = "active" /\ \A t \in w.todo : status[t] = "active"
  BY <1>2
<1>6. /\ sync[p] = Asleep /\ UNCHANGED status
      /\ UNCHANGED contacts /\ UNCHANGED deals /\ UNCHANGED accounts /\ UNCHANGED log
      /\ UNCHANGED configured /\ UNCHANGED unseen /\ UNCHANGED strayed
  BY DEF SyncNow
<1>7. InHand(p) = {}
  BY <1>6 DEF InHand, Asleep
<1>8. status' \in [Sub \cup Company -> Status]
  BY <1>3, <1>6 DEF Typed
<1> QED
  BY <1>1, <1>4, <1>5, <1>6, <1>7, <1>8, LeavesQuietly

\* What follows the last word on a subscription.
LEMMA GoesOnStep ==
    ASSUME SubscriptionsInv, NEW p \in Proc, sync[p].step # "idle", NextOne(p, sync[p].draft),
           contacts' = contacts, deals' = deals, accounts' = accounts, log' = log,
           configured' = configured, unseen' = unseen, status' = status,
           strayed \subseteq strayed', InHand(p) \subseteq strayed'
    PROVE  SubscriptionsInv'
<1>1. Typed /\ Begun
  BY DEF SubscriptionsInv
<1>2. PICK w \in {Asleep} \cup Looking :
        /\ Leaves(p, w)
        /\ w.step = "look" => w.seen = "active" /\ w.sub \in sync[p].todo /\ w.todo \subseteq sync[p].todo
  BY <1>1, NextOneLeaves
<1>3. sync[p] # Asleep
  BY <1>1, SyncTyped
<1>4. w.step \in {"idle", "look"}
  BY <1>2 DEF Leaves
<1>5. w.step # "idle" => /\ status'[w.sub] # "none" /\ \A s \in w.todo : status'[s] # "none"
                         /\ w.seen # "incomplete"
  BY <1>1, <1>2, <1>3, <1>4 DEF Begun
<1>6. status' \in [Sub \cup Company -> Status]
  BY <1>1 DEF Typed
<1> QED
  BY <1>2, <1>5, <1>6, LeavesQuietly

\* An exception is counted and the next subscription taken.
LEMMA FailsStep ==
    ASSUME SubscriptionsInv, NEW p \in Proc, Fails(p)
    PROVE  SubscriptionsInv'
<1>1. sync[p].step # "idle"
  BY DEF Fails
<1> QED
  BY <1>1, GoesOnStep DEF Fails

\* A payment changes a status that was read before.
LEMMA PaidStep ==
    ASSUME SubscriptionsInv, NEW s \in Sub, Paid(s)
    PROVE  SubscriptionsInv'
<1>1. /\ status' = [status EXCEPT ![s] = "active"]
      /\ UNCHANGED contacts /\ UNCHANGED deals /\ UNCHANGED accounts /\ UNCHANGED log
      /\ UNCHANGED configured /\ UNCHANGED sync /\ UNCHANGED overlapped /\ UNCHANGED unseen
      /\ UNCHANGED strayed
  BY DEF Paid
<1>2. Typed'
  BY <1>1 DEF SubscriptionsInv, Typed, Status
<1>3. \A t : status[t] # "none" => status'[t] # "none"
  BY <1>1 DEF SubscriptionsInv, Typed
<1>4. \A p \in Proc : Touches(p)' = Touches(p)
  BY <1>1 DEF Touches
<1>5. Begun' /\ Apart'
  BY <1>1, <1>3, <1>4 DEF SubscriptionsInv, Begun, Apart
<1>6. RowsApart'
  BY <1>1, RowsStay DEF SubscriptionsInv
<1>7. ContactsInv'
  BY <1>1, ContactsStay DEF SubscriptionsInv
<1>8. DealsInv'
  <2>1. /\ \A t : DealRows(t)' = DealRows(t) /\ DealsOf(t)' = DealsOf(t)
        /\ \A t : (Alone(t)' <=> Alone(t)) /\ (Intact(t)' <=> Intact(t))
        /\ \A p \in Proc : InHand(p)' = InHand(p)
    BY <1>1 DEF DealRows, About, DealsOf, Intact, Alone, InHand
  <2>2. \A p \in Proc : DealKnown(p)' /\ DealFree(p)' /\ StageKept(p)'
    BY <1>1, <2>1 DEF SubscriptionsInv, DealsInv, DealKnown, DealFree, StageKept
  <2>3. DealOnce'
    BY <1>1, <2>1 DEF SubscriptionsInv, DealsInv, DealOnce
  <2>4. \A d \in DOMAIN deals : Intact(deals[d].sub)' => Named(d)'
    BY <1>1, <2>1 DEF SubscriptionsInv, DealsInv, Named, Intact
  <2>5. \A row \in log' : row.kind = "deal" /\ row.record > 0 => row.record \in DealsOf(row.of)'
    BY <1>1, <2>1 DEF SubscriptionsInv, DealsInv
  <2> QED
    BY <1>1, <2>2, <2>3, <2>4, <2>5 DEF DealsInv
<1> QED
  BY <1>2, <1>5, <1>6, <1>7, <1>8 DEF SubscriptionsInv

\* A restart forgets the requests: what they had in hand has strayed.
LEMMA RestartStep ==
    ASSUME SubscriptionsInv, Restart
    PROVE  SubscriptionsInv'
<1>1. /\ sync' = [p \in Proc |-> Asleep] /\ configured' \in BOOLEAN
      /\ strayed' = strayed \cup UNION {InHand(p) : p \in Proc}
      /\ UNCHANGED status /\ UNCHANGED contacts /\ UNCHANGED deals /\ UNCHANGED accounts
      /\ UNCHANGED log /\ UNCHANGED overlapped /\ UNCHANGED unseen
  BY DEF Restart
<1>2. \A p \in Proc : sync'[p] = Asleep
  BY <1>1
<1>3. Typed'
  BY <1>1 DEF SubscriptionsInv, Typed
<1>4. \A p \in Proc : Touches(p)' = {}
  BY <1>2, <1>3, TouchesAre DEF TouchedBy, Asleep
<1>5. Begun' /\ Apart'
  BY <1>1, <1>2, <1>4 DEF SubscriptionsInv, Begun, Apart
<1>6. \A p \in Proc : sync'[p].draft = {} /\ sync'[p].step = "idle"
  BY <1>2 DEF Asleep
<1>7. RowsApart'
  BY <1>1, <1>6, RowsStay DEF SubscriptionsInv
<1>8. ContactsInv'
  BY <1>1, <1>6, ContactsStay DEF SubscriptionsInv
<1>9. \A s : DealRows(s)' = DealRows(s) /\ DealsOf(s)' = DealsOf(s) /\ (Intact(s)' => Intact(s))
  BY <1>1 DEF DealRows, About, DealsOf, Intact, Alone
<1>10. \A p \in Proc : DealKnown(p)' /\ DealFree(p)' /\ StageKept(p)'
  BY <1>6 DEF DealKnown, DealFree, StageKept, AtWork
<1>11. ASSUME NEW d \in DOMAIN deals, Intact(deals[d].sub)' PROVE Named(d)'
  <2>1. PICK s : s = deals[d].sub
    OBVIOUS
  <2>2. Intact(s)' /\ s = deals'[d].sub
    BY <1>1, <1>11, <2>1 DEF Intact
  <2>3. Intact(s) /\ \A p \in Proc : s \notin InHand(p)
    BY <1>1, <1>9, <2>2 DEF Intact
  <2>4. Named(d)
    BY <2>1, <2>3 DEF SubscriptionsInv, DealsInv
  <2> QED
    BY <1>9, <2>1, <2>2, <2>3, <2>4 DEF Named
<1>12. DealOnce'
  BY <1>1 DEF SubscriptionsInv, DealsInv, DealOnce, Alone
<1>13. DealsInv'
  BY <1>1, <1>9, <1>10, <1>11, <1>12 DEF SubscriptionsInv, DealsInv
<1> QED
  BY <1>3, <1>5, <1>7, <1>8, <1>13 DEF SubscriptionsInv

\* A step before the deal, within a subscription.
LEMMA StaysQuietly ==
    ASSUME SubscriptionsInv, NEW p \in Proc, NEW w \in States, sync' = [sync EXCEPT ![p] = w],
           sync[p].step \in {"look", "create"}, w.step \in {"look", "create", "log"},
           w.sub = sync[p].sub, w.seen = sync[p].seen, w.todo = sync[p].todo, w.draft = sync[p].draft,
           status' = status, deals' = deals, accounts' = accounts, log' = log,
           configured' = configured, overlapped' = overlapped, strayed' = strayed,
           contacts' \in [Email -> 0 .. MaxRecords], ContactsInv'
    PROVE  SubscriptionsInv'
<1>1. Typed /\ Apart /\ Begun /\ RowsApart /\ DealsInv
  BY DEF SubscriptionsInv
<1>2. Typed'
  <2>1. sync' \in [Proc -> States]
    BY <1>1, SyncBecomes
  <2> QED
    BY <1>1, <2>1 DEF Typed, States
<1>3. Apart' /\ Begun' /\ RowsApart'
  BY <1>1, <1>2, StaysKeeps
<1>4. InHand(p) = {}
  BY DEF InHand
<1>5. w.seen = "incomplete" /\ Alone(w.sub)' => DealRows(w.sub) = {}
  <2>1. StageKept(p)
    BY <1>1 DEF DealsInv
  <2> QED
    BY <2>1 DEF StageKept, AtWork, Alone
<1>6. DealsInv'
  BY <1>1, <1>2, <1>4, <1>5, DealsUntouched
<1> QED
  BY <1>2, <1>3, <1>6 DEF SubscriptionsInv

\* The contact is found, or made, and is to be logged.
LEMMA FoundIs ==
    ASSUME Typed, NEW p \in Proc, sync[p].step \in {"look", "create"},
           NEW contact \in Record, NEW held \in BOOLEAN, Found(p, contact, held)
    PROVE  \E w \in Logging :
              /\ sync' = [sync EXCEPT ![p] = w]
              /\ w.sub = sync[p].sub /\ w.seen = sync[p].seen /\ w.todo = sync[p].todo
              /\ w.draft = sync[p].draft
<1>1. PICK r \in Looking : r = sync[p]
  BY SyncTyped, StatesTyped
<1>2. PICK w : w = [step |-> "log", sub |-> r.sub, seen |-> r.seen, todo |-> r.todo,
                    draft |-> r.draft, contact |-> contact, held |-> held]
  OBVIOUS
<1>3. sync' = [sync EXCEPT ![p] = w]
  BY <1>1, <1>2 DEF Found
<1>4. w \in Logging
  BY <1>2 DEF Looking, Logging
<1> QED
  BY <1>1, <1>2, <1>3, <1>4

\* What a search in the log returns.
LEMMA FindTyped ==
    ASSUME Typed, NEW p \in Proc, NEW kind, NEW x
    PROVE  Find(p, kind, x) \in Record \cup {NoRow}
<1>1. \A row \in Logged(p, kind, x) : row.record \in Record
  <2>1. \A row \in log : row.record \in Record
    BY DEF Typed, RowsOf
  <2>2. \A row \in sync[p].draft : row.record \in Record
    BY SyncTyped DEF RowsOf
  <2> QED
    BY <2>1, <2>2 DEF Logged, About, Over
<1> QED
  BY <1>1 DEF Find

\* The contact is looked up in the log and then by e-mail.
LEMMA LookUpStep ==
    ASSUME SubscriptionsInv, NEW p \in Proc, LookUp(p)
    PROVE  SubscriptionsInv'
<1>0. Typed /\ Apart /\ ContactsInv
  BY DEF SubscriptionsInv
<1>1. /\ sync[p].step = "look"
      /\ UNCHANGED status /\ UNCHANGED contacts /\ UNCHANGED deals /\ UNCHANGED accounts
      /\ UNCHANGED log /\ UNCHANGED configured /\ UNCHANGED overlapped /\ UNCHANGED strayed
  BY DEF LookUp
<1>2. contacts' \in [Email -> 0 .. MaxRecords]
  BY <1>0, <1>1 DEF Typed
<1>3. CASE UNCHANGED unseen /\ \E contact \in Record, held \in BOOLEAN : Found(p, contact, held)
  <2>1. PICK contact \in Record, held \in BOOLEAN : Found(p, contact, held)
    BY <1>3
  <2>2. PICK w \in Logging :
              /\ sync' = [sync EXCEPT ![p] = w]
              /\ w.sub = sync[p].sub /\ w.seen = sync[p].seen /\ w.todo = sync[p].todo
              /\ w.draft = sync[p].draft
    BY <1>0, <1>1, <2>1, FoundIs
  <2>3. w \in States /\ w.step = "log"
    BY DEF States, Logging
  <2>4. ContactsInv'
    BY <1>0, <1>1, <1>3, <2>2, <2>3, SyncBecomes, ContactsStay
  <2> QED
    BY <1>1, <1>2, <2>2, <2>3, <2>4, StaysQuietly
<1>4. CASE /\ sync' = [sync EXCEPT ![p].step = "create"]
           /\ unseen' = unseen \cup {e \in {EmailOf[sync[p].sub]} : contacts[e] > 0}
  <2>1. PICK r \in Looking : r = sync[p]
    BY <1>0, <1>1, SyncTyped, StatesTyped
  <2>2. PICK w : w = [r EXCEPT !.step = "create"]
    OBVIOUS
  <2>3. /\ w \in Looking /\ w.step = "create" /\ w.sub = r.sub /\ w.seen = r.seen
        /\ w.todo = r.todo /\ w.draft = r.draft /\ w \in States /\ r.sub \in Sub
    BY <2>2 DEF Looking, States
  <2>4. sync' = [sync EXCEPT ![p] = w]
    BY <1>4, <2>1, <2>2
  <2>5. PICK e \in Email : e = EmailOf[r.sub]
    BY <2>3, EmailAssumption
  <2>6. contacts[e] \in Nat /\ (contacts[e] > 0 => e \in unseen')
    BY <1>0, <1>4, <2>1, <2>5 DEF Typed
  <2>7. ContactsInv'
    <3>1. \A q \in Proc : q # p => sync'[q] = sync[q]
      BY <1>0, <2>3, <2>4, SyncBecomes
    <3>2. sync'[p] = w
      BY <1>0, <2>3, <2>4, SyncBecomes
    <3>3. ContactOnce'
      BY <1>0, <1>1, <1>4 DEF ContactsInv, ContactOnce
    <3>4. ASSUME NEW q \in Proc, sync'[q].step = "create"
          PROVE  EmailOf[sync'[q].sub] \in overlapped' \cup unseen' \/ contacts'[EmailOf[sync'[q].sub]] = 0
      <4>1. CASE q = p
        BY <1>1, <2>3, <2>5, <2>6, <3>2, <4>1
      <4>2. CASE q # p
        BY <1>0, <1>1, <1>4, <3>1, <3>4, <4>2 DEF ContactsInv
      <4> QED
        BY <4>1, <4>2
    <3> QED
      BY <3>3, <3>4 DEF ContactsInv
  <2> QED
    BY <1>1, <1>2, <2>1, <2>3, <2>4, <2>7, StaysQuietly
<1>5. {DryRun, One} \subseteq Record /\ \A x \in Record \cup {NoRow} : x # NoRow => x \in Record
  BY MaxRecordsAssumption DEF Record, DryRun, One, Refused, NoRow
<1> QED
  BY <1>0, <1>3, <1>4, <1>5, FindTyped DEF LookUp

\* The contact is made where the search found none.
LEMMA CreateContactStep ==
    ASSUME SubscriptionsInv, NEW p \in Proc, CreateContact(p)
    PROVE  SubscriptionsInv'
<1>0. Typed /\ Apart /\ Begun /\ RowsApart /\ ContactsInv /\ DealsInv
  BY DEF SubscriptionsInv
<1>1. /\ sync[p].step = "create"
      /\ UNCHANGED status /\ UNCHANGED deals /\ UNCHANGED accounts /\ UNCHANGED unseen
      /\ UNCHANGED log /\ UNCHANGED configured /\ UNCHANGED strayed
  BY DEF CreateContact
<1>2. PICK s \in Sub : s = sync[p].sub
  BY <1>0, <1>1, SyncTyped
<1>3. PICK e \in Email : e = EmailOf[s]
  BY <1>2, EmailAssumption
\* others who would create a contact for the owner overlap with p
<1>4. ASSUME NEW w \in States, sync' = [sync EXCEPT ![p] = w], w.step # "create",
             overlapped \subseteq overlapped',
             contacts' = contacts \/ contacts' = [contacts EXCEPT ![e] = @ + 1]
      PROVE  ContactsInv'
  <2>1. sync'[p] = w /\ \A q \in Proc : q # p => sync'[q] = sync[q]
    BY <1>0, <1>4, SyncBecomes
  <2>2. \A f \in Email : f # e => contacts'[f] = contacts[f]
    BY <1>0, <1>4 DEF Typed
  <2>3. e \notin overlapped \cup unseen => contacts[e] = 0
    BY <1>0, <1>1, <1>2, <1>3 DEF ContactsInv
  <2>4. e \notin overlapped' \cup unseen' => contacts'[e] <= 1
    BY <1>0, <1>1, <1>4, <2>3 DEF Typed
  <2>5. ContactOnce'
    BY <1>0, <1>1, <1>4, <2>2, <2>4 DEF ContactsInv, ContactOnce
  <2>6. ASSUME NEW q \in Proc, sync'[q].step = "create"
        PROVE  EmailOf[sync'[q].sub] \in overlapped' \cup unseen' \/ contacts'[EmailOf[sync'[q].sub]] = 0
    <3>1. q # p /\ sync'[q] = sync[q]
      BY <1>4, <2>1, <2>6
    <3>2. PICK t \in Sub : t = sync[q].sub
      BY <1>0, <2>6, <3>1, SyncTyped
    <3>3. EmailOf[t] \in Email
      BY EmailAssumption
    <3>4. CASE EmailOf[t] = e
      <4>1. t \in Touches(q) /\ s \in Touches(p)
        BY <1>0, <1>1, <1>2, <2>6, <3>1, <3>2, TouchesAre DEF TouchedBy
      <4>2. e \in overlapped
        BY <1>0, <1>3, <3>1, <3>4, <4>1 DEF Apart
      <4> QED
        BY <1>4, <3>1, <3>2, <3>4, <4>2
    <3>5. CASE EmailOf[t] # e
      <4>1. contacts'[EmailOf[t]] = contacts[EmailOf[t]]
        BY <2>2, <3>3, <3>5
      <4>2. EmailOf[t] \in overlapped \cup unseen \/ contacts[EmailOf[t]] = 0
        BY <1>0, <2>6, <3>1, <3>2 DEF ContactsInv
      <4> QED
        BY <1>1, <1>4, <3>1, <3>2, <4>1, <4>2
    <3> QED
      BY <3>4, <3>5
  <2> QED
    BY <2>5, <2>6 DEF ContactsInv
<1>5. ASSUME contacts' = contacts \/ (contacts[e] < MaxRecords /\ contacts' = [contacts EXCEPT ![e] = @ + 1])
      PROVE  contacts' \in [Email -> 0 .. MaxRecords]
  BY <1>0, <1>5, MaxRecordsAssumption DEF Typed
<1>6. ASSUME NEW contact \in Record, Found(p, contact, FALSE), UNCHANGED overlapped,
             contacts' = contacts \/ (contacts[e] < MaxRecords /\ contacts' = [contacts EXCEPT ![e] = @ + 1])
      PROVE  SubscriptionsInv'
  <2>1. PICK w \in Logging :
              /\ sync' = [sync EXCEPT ![p] = w]
              /\ w.sub = sync[p].sub /\ w.seen = sync[p].seen /\ w.todo = sync[p].todo
              /\ w.draft = sync[p].draft
    BY <1>0, <1>1, <1>6, FoundIs
  <2>2. w \in States /\ w.step = "log"
    BY DEF States, Logging
  <2>3. ContactsInv'
    BY <1>4, <1>6, <2>1, <2>2
  <2> QED
    BY <1>1, <1>5, <1>6, <2>1, <2>2, <2>3, StaysQuietly
<1>7. ASSUME NextOne(p, sync[p].draft),
             contacts[e] < MaxRecords /\ contacts' = [contacts EXCEPT ![e] = @ + 1]
      PROVE  SubscriptionsInv'
  <2>1. PICK w \in {Asleep} \cup Looking :
          /\ Leaves(p, w)
          /\ w.step = "look" => w.seen = "active" /\ w.sub \in sync[p].todo /\ w.todo \subseteq sync[p].todo
    BY <1>0, <1>1, <1>7, NextOneLeaves
  <2>2. /\ w \in States /\ w.step \in {"idle", "look"} /\ sync' = [sync EXCEPT ![p] = w]
        /\ overlapped \subseteq overlapped'
    BY <2>1 DEF Leaves, States
  <2>3. Typed'
    <3>1. sync' \in [Proc -> States]
      BY <1>0, <2>2, SyncBecomes
    <3> QED
      BY <1>0, <1>1, <1>5, <1>7, <3>1 DEF Typed, States
  <2>4. w.step # "idle" => /\ status'[w.sub] # "none" /\ \A t \in w.todo : status'[t] # "none"
                           /\ w.seen # "incomplete"
    <3>1. sync[p] # Asleep
      BY <1>0, <1>1, SyncTyped
    <3> QED
      BY <1>0, <1>1, <2>1, <2>2, <3>1 DEF Begun
  <2>5. Apart' /\ Begun' /\ RowsApart'
    BY <1>0, <1>1, <2>1, <2>3, <2>4, LeavesKeeps
  <2>6. ContactsInv'
    BY <1>4, <1>7, <2>2
  <2>7. InHand(p) = {}
    BY <1>1 DEF InHand
  <2>8. DealsInv'
    BY <1>0, <1>1, <2>2, <2>3, <2>4, <2>7, DealsUntouched
  <2> QED
    BY <2>3, <2>5, <2>6, <2>8 DEF SubscriptionsInv
<1>8. One \in Record /\ Refused \in Record
  BY MaxRecordsAssumption DEF Record, One, Refused
<1> QED
  BY <1>2, <1>3, <1>6, <1>7, <1>8 DEF CreateContact

-----------------------------------------------------------------------------
(***************************************************************************)
(* The deal.                                                               *)
(***************************************************************************)
LEMMA NamedKept ==
    ASSUME Typed, NEW p \in Proc, NEW w \in States, sync' = [sync EXCEPT ![p] = w], log' = log,
           NEW d, Named(d), deals'[d].sub = deals[d].sub, deals[d].sub \notin InHand(p)
    PROVE  Named(d)'
<1>1. PICK s : s = deals[d].sub /\ s = deals'[d].sub
  OBVIOUS
<1>2. \A q \in Proc : q # p => sync'[q] = sync[q]
  BY SyncBecomes
<1>3. \A q \in Proc : s \in InHand(q) => s \in InHand(q)' /\ sync'[q] = sync[q]
  BY <1>1, <1>2 DEF InHand
<1>4. DealRows(s)' = DealRows(s)
  BY DEF DealRows, About
<1> QED
  BY <1>1, <1>3, <1>4 DEF Named

\* What the log names for a subscription that a request finds readable.
LEMMA FindDeal ==
    ASSUME Typed, DealsInv, NEW p \in Proc, NEW s \in Sub, Readable(p, "deal", s)
    PROVE  LET known == Find(p, "deal", s) IN
           /\ known \in Record \cup {NoRow}
           /\ \/ known = NoRow /\ DealRows(s) = {}
              \/ \E row : DealRows(s) = {row} /\ row.record = known
           /\ known > 0 => known \in DealsOf(s)
<1>1. Logged(p, "deal", s) = DealRows(s)
  BY DealsAreInTheLog
<1>2. \A r1, r2 \in DealRows(s) : r1 = r2
  BY <1>1 DEF Readable
<1>3. CASE DealRows(s) = {}
  BY <1>1, <1>3 DEF Find, NoRow
<1>4. CASE DealRows(s) # {}
  <2>1. PICK row : DealRows(s) = {row}
    BY <1>2, <1>4
  <2>2. (CHOOSE r \in DealRows(s) : TRUE) = row
    BY <2>1
  <2>3. Find(p, "deal", s) = row.record
    BY <1>1, <1>4, <2>2 DEF Find
  <2>4. row.record \in Record /\ (row.record > 0 => row.record \in DealsOf(s))
    BY <2>1 DEF Typed, RowsOf, DealsInv, DealRows, About
  <2> QED
    BY <2>1, <2>3, <2>4
<1> QED
  BY <1>3, <1>4

\* Nobody else has in hand the deal of a subscription that p works on alone.
LEMMA InOneHand ==
    ASSUME Typed, Apart, NEW p \in Proc, sync[p].step # "idle", Alone(sync[p].sub),
           NEW q \in Proc, sync[p].sub \in InHand(q)
    PROVE  q = p
<1>1. sync[p].sub \in Touches(p)
  BY TouchesAre, SyncTyped DEF TouchedBy
<1>2. sync[p].sub \in Touches(q)
  BY TouchesAre, SyncTyped DEF TouchedBy, InHand
<1> QED
  BY <1>1, <1>2 DEF Apart, Alone

\* The parts that a step of the deal does not disturb.
LEMMA RestKeeps ==
    ASSUME SubscriptionsInv, NEW p \in Proc, NEW w \in States, sync' = [sync EXCEPT ![p] = w],
           sync[p].step = "deal", w.step # "create",
           \/ /\ w.step = "commit" /\ w.sub = sync[p].sub /\ w.todo = sync[p].todo
              /\ w.draft = sync[p].draft /\ overlapped' = overlapped
           \/ /\ Leaves(p, w)
              /\ w.step = "look" => w.seen = "active" /\ w.sub \in sync[p].todo /\ w.todo \subseteq sync[p].todo,
           status' = status, contacts' = contacts, accounts' = accounts, log' = log,
           configured' = configured, unseen' = unseen,
           deals' \in Seq([sub : Sub, stage : Stages]), Len(deals') <= MaxRecords
    PROVE  /\ Typed' /\ Apart' /\ Begun' /\ RowsApart' /\ ContactsInv'
           /\ sync'[p] = w /\ overlapped \subseteq overlapped'
           /\ w.step \in {"idle", "look", "commit"}
<1>1. Typed /\ Apart /\ Begun /\ RowsApart /\ ContactsInv
  BY DEF SubscriptionsInv
<1>2. /\ sync' \in [Proc -> States] /\ sync'[p] = w
      /\ \A q \in Proc : q # p => sync'[q] = sync[q]
  BY <1>1, SyncBecomes
<1>3. Typed'
  BY <1>1, <1>2 DEF Typed, States
<1>4. overlapped \subseteq overlapped' /\ w.step \in {"idle", "look", "commit"}
  BY DEF Leaves
<1>5. ContactsInv'
  BY <1>1, <1>2, <1>4, ContactsStay
<1>6. CASE w.step = "commit"
  BY <1>1, <1>2, <1>3, <1>4, <1>5, <1>6, StaysKeeps DEF Leaves
<1>7. CASE w.step # "commit"
  <2>1. w.step # "idle" => /\ status'[w.sub] # "none" /\ \A s \in w.todo : status'[s] # "none"
    <3>1. sync[p] # Asleep
      BY <1>1, SyncTyped
    <3> QED
      BY <1>1, <1>4, <1>7, <3>1 DEF Begun
  <2> QED
    BY <1>1, <1>2, <1>3, <1>4, <1>5, <1>7, <2>1, LeavesKeeps
<1> QED
  BY <1>6, <1>7

\* p goes on without having the deal in hand.
LEMMA LeavesDealless ==
    ASSUME NEW p \in Proc, NEW w, sync'[p] = w, w.step \in {"idle", "look"}, w.step = "look" => w.seen = "active"
    PROVE  DealKnown(p)' /\ DealFree(p)' /\ StageKept(p)'
  BY DEF DealKnown, DealFree, StageKept, AtWork

\* The deal that the log names takes the stage of the status that was read.
LEMMA UpdateDealStep ==
    ASSUME SubscriptionsInv, NEW p \in Proc, UpdateDeal(p)
    PROVE  SubscriptionsInv'
<1>0. Typed /\ Apart /\ DealsInv
  BY DEF SubscriptionsInv
<1>1. /\ sync[p].step = "deal" /\ sync[p].held
      /\ UNCHANGED status /\ UNCHANGED contacts /\ UNCHANGED accounts /\ UNCHANGED log
      /\ UNCHANGED configured /\ UNCHANGED unseen /\ UNCHANGED strayed
  BY DEF UpdateDeal
<1>2. PICK r \in Dealing : r = sync[p]
  BY <1>0, <1>1, SyncTyped, StatesTyped
<1>3. PICK s \in Sub : s = r.sub
  BY DEF Dealing
<1>4. DealKnown(p) /\ StageKept(p)
  BY <1>0 DEF DealsInv
<1>5. r.deal # Refused => r.deal \in DealsOf(s)
  <2>1. r.deal \in NoRow .. MaxRecords /\ r.deal \notin {NoRow, DryRun}
    BY <1>1, <1>2, <1>4 DEF DealKnown, Dealing
  <2>2. r.deal # Refused => r.deal > 0
    BY <2>1, MaxRecordsAssumption DEF NoRow, DryRun, Refused
  <2> QED
    BY <1>1, <1>2, <1>3, <1>4, <2>2 DEF DealKnown
<1>6. InHand(p) = {}
  BY <1>1 DEF InHand
<1>7. ASSUME NEW w \in States, sync' = [sync EXCEPT ![p] = w],
             \/ /\ w \in Dealing /\ w.step = "commit" /\ w.sub = r.sub /\ w.seen = r.seen /\ w.todo = r.todo
                /\ w.draft = r.draft /\ w.deal = r.deal /\ w.held /\ overlapped' = overlapped
                /\ w.taken => r.deal # Refused /\ deals' = [deals EXCEPT ![r.deal].stage = StageOf(r.seen)]
             \/ /\ Leaves(p, w)
                /\ w.step = "look" => w.seen = "active" /\ w.sub \in sync[p].todo /\ w.todo \subseteq sync[p].todo,
             \/ deals' = deals
             \/ r.deal # Refused /\ deals' = [deals EXCEPT ![r.deal].stage = StageOf(r.seen)]
      PROVE  SubscriptionsInv'
  <2>0. ASSUME r.deal # Refused, deals' = [deals EXCEPT ![r.deal].stage = StageOf(r.seen)]
        PROVE  r.deal \in DealsOf(s) /\ deals'[r.deal].stage = StageOf(r.seen)
    <3>1. r.deal \in DOMAIN deals /\ r.deal \in DealsOf(s)
      BY <1>5, <2>0 DEF DealsOf
    <3>2. deals[r.deal] \in [sub : Sub, stage : Stages]
      <4> DEFINE Deal == [sub : Sub, stage : Stages]
      <4>1. deals \in Seq(Deal)
        BY <1>0 DEF Typed
      <4> HIDE DEF Deal
      <4>2. deals[r.deal] \in Deal
        BY <3>1, <4>1
      <4> QED
        BY <4>2 DEF Deal
    <3>3. deals'[r.deal] = [deals[r.deal] EXCEPT !.stage = StageOf(r.seen)]
      BY <2>0, <3>1
    <3> QED
      BY <3>1, <3>2, <3>3
  <2>1. /\ deals' \in Seq([sub : Sub, stage : Stages]) /\ Len(deals') <= MaxRecords
        /\ DOMAIN deals' = DOMAIN deals
        /\ \A d \in DOMAIN deals : /\ deals'[d].sub = deals[d].sub
                                   /\ deals[d].sub # s => deals'[d] = deals[d]
    <3>1. CASE deals' = deals
      BY <1>0, <3>1 DEF Typed
    <3>2. CASE r.deal # Refused /\ deals' = [deals EXCEPT ![r.deal].stage = StageOf(r.seen)]
      <4>1. StageOf(r.seen) \in Stages
        BY DEF StageOf, Stages
      <4>2. PICK st \in Stages : st = StageOf(r.seen)
        BY <4>1
      <4>3. r.deal \in DOMAIN deals /\ deals[r.deal].sub = s
        BY <1>5, <3>2 DEF DealsOf
      <4> DEFINE Deal == [sub : Sub, stage : Stages]
                 new == [deals[r.deal] EXCEPT !.stage = st]
      <4>4. deals \in Seq(Deal) /\ Len(deals) <= MaxRecords
        BY <1>0 DEF Typed
      <4>5. deals[r.deal] \in Deal
        <5> HIDE DEF Deal
        <5> QED
          BY <4>3, <4>4
      <4>6. new \in Deal /\ new.sub = s /\ new.stage = st
        BY <4>3, <4>5
      <4>7. deals' = [deals EXCEPT ![r.deal] = new]
        BY <3>2, <4>2, <4>3
      <4> HIDE DEF Deal, new
      <4>8. deals' \in Seq(Deal) /\ Len(deals') = Len(deals) /\ DOMAIN deals' = DOMAIN deals
        BY <4>3, <4>4, <4>6, <4>7
      <4>9. \A d \in DOMAIN deals : deals'[d] = IF d = r.deal THEN new ELSE deals[d]
        BY <4>7
      <4>10. deals' \in Seq([sub : Sub, stage : Stages])
        BY <4>8 DEF Deal
      <4> QED
        BY <1>5, <3>2, <4>2, <4>3, <4>4, <4>6, <4>8, <4>9, <4>10
    <3> QED
      BY <1>7, <3>1, <3>2
  <2>2. /\ Typed' /\ Apart' /\ Begun' /\ RowsApart' /\ ContactsInv'
        /\ sync'[p] = w /\ overlapped \subseteq overlapped'
        /\ w.step \in {"idle", "look", "commit"}
    <3>1. w.step # "create"
      BY <1>7 DEF Leaves
    <3> QED
      BY <1>1, <1>2, <1>7, <2>1, <3>1, RestKeeps
  <2>3. Own(p) = {s}
    BY <1>1, <1>2, <1>3 DEF Own
  <2>4. \A x : DealRows(x)' = DealRows(x) /\ DealsOf(x)' = DealsOf(x)
    <3>1. \A x : DealRows(x)' = DealRows(x)
      BY <1>1 DEF DealRows, About
    <3>2. \A x : DealsOf(x)' = DealsOf(x)
      BY <2>1 DEF DealsOf
    <3> QED
      BY <3>1, <3>2
  <2>5. \A x : (Alone(x)' => Alone(x)) /\ (Intact(x)' => Intact(x))
    BY <1>1, <2>2 DEF Alone, Intact
  <2>6. DealKnown(p)' /\ DealFree(p)' /\ StageKept(p)'
    <3>1. CASE w.step = "commit"
      <4>1. /\ w \in Dealing /\ w.sub = s /\ w.seen = r.seen /\ w.deal = r.deal /\ w.held = TRUE
            /\ w.taken => r.deal # Refused /\ deals' = [deals EXCEPT ![r.deal].stage = StageOf(r.seen)]
        BY <1>3, <1>7, <3>1 DEF Leaves, Dealing
      <4>2. DealKnown(p)'
        BY <1>1, <1>2, <1>3, <1>4, <2>2, <2>4, <2>5, <3>1, <4>1 DEF DealKnown
      <4>3. w.taken => w.deal \in DealsOf(s) /\ w.deal > 0 /\ deals'[w.deal].stage = StageOf(w.seen)
        <5>1. w.taken => r.deal \in DealsOf(s) /\ deals'[r.deal].stage = StageOf(r.seen)
          BY <1>5, <2>0, <4>1
        <5>2. \A d \in DealsOf(s) : d > 0
          BY <1>0, DealsTyped DEF DealsOf
        <5> QED
          BY <4>1, <5>1, <5>2
      <4>4. w.seen = "incomplete" => ~Alone(s)'
        <5>1. w.seen = "incomplete" => ~Alone(s)
          BY <1>1, <1>2, <1>3, <1>4, <4>1 DEF StageKept, AtWork
        <5> QED
          BY <2>5, <5>1
      <4>5. StageKept(p)'
        BY <2>2, <4>1, <4>3, <4>4 DEF StageKept
      <4>6. DealFree(p)'
        BY <2>2, <3>1 DEF DealFree
      <4> QED
        BY <4>2, <4>5, <4>6
    <3>2. CASE w.step # "commit"
      BY <1>7, <2>2, <3>2, LeavesDealless
    <3> QED
      BY <3>1, <3>2
  <2>7. ASSUME NEW d \in DOMAIN deals, Intact(deals[d].sub)' PROVE Named(d)'
    <3>1. PICK x : x = deals[d].sub /\ x = deals'[d].sub
      BY <2>1
    <3>2. Intact(x)
      BY <2>5, <2>7, <3>1 DEF Intact, Alone
    <3>3. Named(d)
      BY <1>0, <3>1, <3>2 DEF DealsInv
    <3> QED
      BY <1>0, <1>1, <1>6, <1>7, <3>1, <3>3, NamedKept
  <2>8. ASSUME NEW d1 \in DOMAIN deals, NEW d2 \in DOMAIN deals,
               deals'[d1].sub = deals'[d2].sub, Intact(deals[d1].sub)'
        PROVE  d1 = d2
    <3>1. PICK x : x = deals[d1].sub /\ x = deals'[d1].sub /\ x = deals[d2].sub
      BY <2>1, <2>8
    <3>2. Intact(x)
      BY <2>5, <2>8, <3>1 DEF Intact, Alone
    <3> QED
      BY <1>0, <3>1, <3>2 DEF DealsInv, DealOnce, Intact
  <2>9. \A row \in log' : row.kind = "deal" /\ row.record > 0 => row.record \in DealsOf(row.of)'
    BY <1>0, <1>1, <2>4 DEF DealsInv
  <2>10. DealsInv'
    <3>1. \A d \in DOMAIN deals : /\ d \in DOMAIN deals' /\ deals'[d].sub = deals[d].sub
                                  /\ deals[d].sub \notin Own(p) => deals'[d] = deals[d]
      BY <2>1, <2>3
    <3>2. \A d \in DOMAIN deals' : deals'[d].sub \notin Own(p) => d \in DOMAIN deals
      BY <2>1
    <3>3. \A d \in DOMAIN deals' : deals'[d].sub \in Own(p) /\ Intact(deals[d].sub)' => Named(d)'
      BY <2>1, <2>7
    <3>4. \A d1, d2 \in DOMAIN deals' :
            deals'[d1].sub = deals'[d2].sub /\ deals'[d1].sub \in Own(p) /\ Intact(deals[d1].sub)'
              => d1 = d2
      BY <2>1, <2>8
    <3> QED
      BY <1>0, <1>1, <1>7, <2>2, <2>4, <2>6, <2>9, <3>1, <3>2, <3>3, <3>4, DealsCarry
  <2> QED
    BY <2>2, <2>10 DEF SubscriptionsInv
<1>8. ASSUME NEW taken \in BOOLEAN, sync' = [sync EXCEPT ![p] = [r EXCEPT !.step = "commit", !.taken = taken]],
             UNCHANGED overlapped,
             \/ r.deal # Refused /\ deals' = [deals EXCEPT ![r.deal].stage = StageOf(r.seen)]
             \/ deals' = deals /\ ~taken
      PROVE  SubscriptionsInv'
  <2>1. PICK w : w = [r EXCEPT !.step = "commit", !.taken = taken]
    OBVIOUS
  <2>2. /\ w \in Dealing /\ w \in States /\ w.step = "commit" /\ w.sub = r.sub /\ w.seen = r.seen
        /\ w.todo = r.todo /\ w.draft = r.draft /\ w.deal = r.deal /\ w.held = r.held /\ w.taken = taken
    BY <2>1 DEF Dealing, States
  <2> QED
    BY <1>1, <1>2, <1>7, <1>8, <2>1, <2>2
<1>9. CASE NextOne(p, sync[p].draft) /\
           (deals' = deals \/ (r.deal # Refused /\ deals' = [deals EXCEPT ![r.deal].stage = StageOf(r.seen)]))
  <2>1. PICK w \in {Asleep} \cup Looking :
          /\ Leaves(p, w)
          /\ w.step = "look" => w.seen = "active" /\ w.sub \in sync[p].todo /\ w.todo \subseteq sync[p].todo
    BY <1>0, <1>1, <1>9, NextOneLeaves
  <2>2. w \in States /\ sync' = [sync EXCEPT ![p] = w]
    BY <2>1 DEF Leaves, States
  <2> QED
    BY <1>7, <1>9, <2>1, <2>2
<1>10. r.taken = FALSE
  BY <1>1, <1>2, <1>4 DEF DealKnown, Dealing
<1>11. \/ /\ r.deal # Refused /\ deals' = [deals EXCEPT ![r.deal].stage = StageOf(r.seen)]
          /\ \/ /\ sync' = [sync EXCEPT ![p] = [r EXCEPT !.step = "commit", !.taken = TRUE]]
                /\ UNCHANGED overlapped
             \/ NextOne(p, sync[p].draft)
       \/ /\ sync' = [sync EXCEPT ![p] = [r EXCEPT !.step = "commit", !.taken = r.taken]]
          /\ UNCHANGED deals /\ UNCHANGED overlapped
  <2>1. [sync EXCEPT ![p].step = "commit", ![p].taken = TRUE]
          = [sync EXCEPT ![p] = [r EXCEPT !.step = "commit", !.taken = TRUE]]
    BY <1>0, <1>2 DEF Typed
  <2>2. [r EXCEPT !.step = "commit", !.taken = r.taken] = [r EXCEPT !.step = "commit"]
    BY DEF Dealing
  <2>3. [sync EXCEPT ![p].step = "commit"] = [sync EXCEPT ![p] = [r EXCEPT !.step = "commit", !.taken = r.taken]]
    BY <1>0, <1>2, <2>2 DEF Typed
  <2> QED
    BY <1>2, <2>1, <2>3 DEF UpdateDeal
<1> QED
  BY <1>8, <1>9, <1>10, <1>11

\* A deal is made where the log names none: it is then in hand, or strayed.
LEMMA CreateDealStep ==
    ASSUME SubscriptionsInv, NEW p \in Proc, CreateDeal(p)
    PROVE  SubscriptionsInv'
<1>0. Typed /\ Apart /\ DealsInv
  BY DEF SubscriptionsInv
<1>1. /\ sync[p].step = "deal" /\ ~sync[p].held
      /\ UNCHANGED status /\ UNCHANGED contacts /\ UNCHANGED accounts /\ UNCHANGED log
      /\ UNCHANGED configured /\ UNCHANGED unseen
  BY DEF CreateDeal
<1>2. PICK r \in Dealing : r = sync[p]
  BY <1>0, <1>1, SyncTyped, StatesTyped
<1>3. PICK s \in Sub : s = r.sub
  BY DEF Dealing
<1>4. DealKnown(p) /\ StageKept(p) /\ DealFree(p)
  BY <1>0 DEF DealsInv
<1>5. PICK n : n = Len(deals) + 1
  OBVIOUS
<1>6. n \in Nat \ {0} /\ DOMAIN deals = 1 .. n - 1 /\ Len(deals) = n - 1
  BY <1>0, <1>5, DealsTyped
<1>7. Own(p) = {s} /\ InHand(p) = {}
  BY <1>1, <1>2, <1>3 DEF Own, InHand
<1>8. Intact(s) => DealsOf(s) = {}
  BY <1>1, <1>2, <1>3, <1>4 DEF DealFree
<1>9. PICK new \in [sub : Sub, stage : Stages] : new = [sub |-> s, stage |-> StageOf(r.seen)]
  BY <1>3 DEF StageOf, Stages
\* the deals, when one is made
<1>10. ASSUME n <= MaxRecords, deals' = Append(deals, new)
       PROVE  /\ deals' \in Seq([sub : Sub, stage : Stages]) /\ Len(deals') <= MaxRecords
              /\ DOMAIN deals' = 1 .. n /\ deals'[n] = new
              /\ \A d \in DOMAIN deals : deals'[d] = deals[d]
  <2> DEFINE Deal == [sub : Sub, stage : Stages]
  <2>1. deals \in Seq(Deal) /\ new \in Deal
    BY <1>0, <1>9 DEF Typed
  <2> HIDE DEF Deal
  <2>2. /\ deals' \in Seq(Deal) /\ Len(deals') = Len(deals) + 1 /\ DOMAIN deals' = 1 .. Len(deals) + 1
        /\ deals'[Len(deals) + 1] = new /\ \A d \in 1 .. Len(deals) : deals'[d] = deals[d]
    BY <1>10, <2>1
  <2>3. deals' \in Seq([sub : Sub, stage : Stages])
    BY <2>2 DEF Deal
  <2> QED
    BY <1>5, <1>6, <1>10, <2>2, <2>3
<1>11. ASSUME NEW w \in States, sync' = [sync EXCEPT ![p] = w], strayed \subseteq strayed',
              \/ n <= MaxRecords /\ deals' = Append(deals, new)
              \/ deals' = deals,
              \/ /\ w \in Dealing /\ w.step = "commit" /\ w.sub = r.sub /\ w.seen = r.seen /\ w.todo = r.todo
                 /\ w.draft = r.draft /\ w.held = FALSE /\ overlapped' = overlapped
                 /\ \/ w.taken /\ w.deal = n /\ n <= MaxRecords /\ deals' = Append(deals, new)
                    \/ ~w.taken /\ w.deal = Refused /\ deals' = deals
              \/ /\ Leaves(p, w) /\ s \in strayed'
                 /\ w.step = "look" => w.seen = "active" /\ w.sub \in sync[p].todo /\ w.todo \subseteq sync[p].todo
       PROVE  SubscriptionsInv'
  <2>1. /\ deals' \in Seq([sub : Sub, stage : Stages]) /\ Len(deals') <= MaxRecords
        /\ \A d \in DOMAIN deals : d \in DOMAIN deals' /\ deals'[d] = deals[d]
        /\ \A d \in DOMAIN deals' : d \in DOMAIN deals \/ (d = n /\ deals'[d].sub = s)
    <3>1. CASE deals' = deals
      BY <1>0, <3>1 DEF Typed
    <3>2. CASE n <= MaxRecords /\ deals' = Append(deals, new)
      BY <1>6, <1>9, <1>10, <3>2
    <3> QED
      BY <1>11, <3>1, <3>2
  <2>2. /\ Typed' /\ Apart' /\ Begun' /\ RowsApart' /\ ContactsInv'
        /\ sync'[p] = w /\ overlapped \subseteq overlapped'
        /\ w.step \in {"idle", "look", "commit"}
    <3>1. w.step # "create"
      BY <1>11 DEF Leaves
    <3> QED
      BY <1>1, <1>2, <1>11, <2>1, <3>1, RestKeeps
  <2>3. \A x : DealRows(x)' = DealRows(x) /\ DealsOf(x) \subseteq DealsOf(x)'
    <3>1. \A x : DealRows(x)' = DealRows(x)
      BY <1>1 DEF DealRows, About
    <3>2. \A x : DealsOf(x) \subseteq DealsOf(x)'
      BY <2>1 DEF DealsOf
    <3> QED
      BY <3>1, <3>2
  <2>4. \A x : (Alone(x)' => Alone(x)) /\ (Intact(x)' => Intact(x) /\ x \notin strayed')
    BY <1>11, <2>2 DEF Alone, Intact
  <2>5. /\ DealKnown(p)' /\ DealFree(p)' /\ StageKept(p)'
        /\ \A d \in DOMAIN deals' : deals'[d].sub = s /\ Intact(s)' => d = n /\ Named(d)'
    <3>1. CASE w.step = "commit"
      <4>1. /\ w \in Dealing /\ w.sub = s /\ w.seen = r.seen /\ w.held = FALSE
            /\ \/ w.taken /\ w.deal = n /\ n <= MaxRecords /\ deals' = Append(deals, new)
               \/ ~w.taken /\ w.deal = Refused /\ deals' = deals
        BY <1>3, <1>11, <3>1 DEF Leaves
      <4>2. w.deal = n /\ deals' = Append(deals, new) =>
              /\ n > 0 /\ n \in DealsOf(s)' /\ deals'[n].stage = StageOf(r.seen) /\ n \in DOMAIN deals'
              /\ deals'[n].sub = s
        <5> SUFFICES ASSUME w.deal = n, deals' = Append(deals, new)
                     PROVE  /\ n > 0 /\ n \in DealsOf(s)' /\ deals'[n].stage = StageOf(r.seen)
                            /\ n \in DOMAIN deals' /\ deals'[n].sub = s
          OBVIOUS
        <5>1. n <= MaxRecords
          BY <1>6, <4>1 DEF Refused
        <5>2. DOMAIN deals' = 1 .. n /\ deals'[n] = new
          BY <1>10, <5>1
        <5> QED
          BY <1>6, <1>9, <5>2 DEF DealsOf
      <4>3. DealKnown(p)'
        <5>1. w.deal # NoRow /\ (w.deal > 0 => w.deal \in DealsOf(s)')
          BY <1>6, <4>1, <4>2 DEF Refused, NoRow
        <5>2. configured' /\ Alone(s)' => \A row \in DealRows(s)' : row.record <= 0
          BY <1>1, <1>2, <1>3, <1>4, <2>3, <2>4 DEF DealKnown
        <5> QED
          BY <2>2, <3>1, <4>1, <5>1, <5>2 DEF DealKnown
      <4>4. StageKept(p)'
        <5>1. w.seen = "incomplete" /\ Alone(s)' => DealRows(s)' = {}
          BY <1>1, <1>2, <1>3, <1>4, <2>3, <2>4, <4>1 DEF StageKept, AtWork
        <5>2. w.taken => w.deal > 0 /\ deals'[w.deal].stage = StageOf(w.seen)
          BY <4>1, <4>2
        <5> QED
          BY <2>2, <4>1, <5>1, <5>2 DEF StageKept
      <4>5. DealFree(p)'
        BY <2>2, <3>1 DEF DealFree
      <4>6. ASSUME NEW d \in DOMAIN deals', deals'[d].sub = s, Intact(s)' PROVE d = n /\ Named(d)'
        <5>1. d \notin DOMAIN deals
          BY <1>8, <2>1, <2>4, <4>6 DEF DealsOf
        <5>2. d = n /\ deals' # deals
          BY <2>1, <5>1
        <5>3. w.taken /\ w.deal = n /\ n > 0
          BY <4>1, <4>2, <5>2
        <5>4. s \in InHand(p)'
          BY <2>2, <3>1, <4>1, <5>3 DEF InHand
        <5> QED
          BY <2>2, <4>6, <5>2, <5>3, <5>4 DEF Named
      <4> QED
        BY <4>3, <4>4, <4>5, <4>6
    <3>2. CASE w.step # "commit"
      <4>1. s \in strayed' /\ (w.step = "look" => w.seen = "active")
        BY <1>11, <3>2
      <4>2. ~Intact(s)'
        BY <2>4, <4>1
      <4>3. DealKnown(p)' /\ DealFree(p)' /\ StageKept(p)'
        BY <2>2, <3>2, <4>1, LeavesDealless
      <4> QED
        BY <4>2, <4>3
    <3> QED
      BY <3>1, <3>2
  <2>6. \A row \in log' : row.kind = "deal" /\ row.record > 0 => row.record \in DealsOf(row.of)'
    BY <1>0, <1>1, <2>3 DEF DealsInv
  <2>7. \A d \in DOMAIN deals' : deals'[d].sub = s => (Intact(deals[d].sub)' <=> Intact(s)')
    BY DEF Intact, Alone
  <2>8. DealsInv'
    <3>1. \A d \in DOMAIN deals : /\ d \in DOMAIN deals' /\ deals'[d].sub = deals[d].sub
                                  /\ deals[d].sub \notin Own(p) => deals'[d] = deals[d]
      BY <2>1
    <3>2. \A d \in DOMAIN deals' : deals'[d].sub \notin Own(p) => d \in DOMAIN deals
      BY <1>7, <2>1
    <3>3. \A d \in DOMAIN deals' : deals'[d].sub \in Own(p) /\ Intact(deals[d].sub)' => Named(d)'
      BY <1>7, <2>5, <2>7
    <3>4. \A d1, d2 \in DOMAIN deals' :
            deals'[d1].sub = deals'[d2].sub /\ deals'[d1].sub \in Own(p) /\ Intact(deals[d1].sub)'
              => d1 = d2
      BY <1>7, <2>5, <2>7
    <3> QED
      BY <1>0, <1>1, <1>11, <2>2, <2>3, <2>5, <2>6, <3>1, <3>2, <3>3, <3>4, DealsCarry
  <2> QED
    BY <2>2, <2>8 DEF SubscriptionsInv
<1>12. ASSUME NEW taken \in BOOLEAN, NEW deal \in NoRow .. MaxRecords,
              sync' = [sync EXCEPT ![p] = [r EXCEPT !.step = "commit", !.taken = taken, !.deal = deal]],
              UNCHANGED overlapped, UNCHANGED strayed,
              \/ taken /\ deal = n /\ n <= MaxRecords /\ deals' = Append(deals, new)
              \/ ~taken /\ deal = Refused /\ deals' = deals
       PROVE  SubscriptionsInv'
  <2>1. PICK w : w = [r EXCEPT !.step = "commit", !.taken = taken, !.deal = deal]
    OBVIOUS
  <2>2. r.held = FALSE
    BY <1>1, <1>2 DEF Dealing
  <2>3. /\ w \in Dealing /\ w \in States /\ w.step = "commit" /\ w.sub = r.sub /\ w.seen = r.seen
        /\ w.todo = r.todo /\ w.draft = r.draft /\ w.deal = deal /\ w.held = FALSE /\ w.taken = taken
    BY <2>1, <2>2 DEF Dealing, States
  <2> QED
    BY <1>11, <1>12, <2>1, <2>3
<1>13. ASSUME NextOne(p, sync[p].draft), strayed' = strayed \cup {s},
              n <= MaxRecords /\ deals' = Append(deals, new)
       PROVE  SubscriptionsInv'
  <2>1. PICK w \in {Asleep} \cup Looking :
          /\ Leaves(p, w)
          /\ w.step = "look" => w.seen = "active" /\ w.sub \in sync[p].todo /\ w.todo \subseteq sync[p].todo
    BY <1>0, <1>1, <1>13, NextOneLeaves
  <2>2. w \in States /\ sync' = [sync EXCEPT ![p] = w]
    BY <2>1 DEF Leaves, States
  <2> QED
    BY <1>11, <1>13, <2>1, <2>2
<1>14. r.taken = FALSE /\ r.deal \in NoRow .. MaxRecords
  BY <1>1, <1>2, <1>4 DEF DealKnown, Dealing
<1>15. \/ /\ n <= MaxRecords /\ deals' = Append(deals, new)
          /\ \/ /\ sync' = [sync EXCEPT ![p] = [r EXCEPT !.step = "commit", !.taken = TRUE, !.deal = n]]
                /\ UNCHANGED overlapped /\ UNCHANGED strayed
             \/ NextOne(p, sync[p].draft) /\ strayed' = strayed \cup {s}
       \/ /\ sync' = [sync EXCEPT ![p] = [r EXCEPT !.step = "commit", !.taken = FALSE, !.deal = Refused]]
          /\ UNCHANGED deals /\ UNCHANGED overlapped /\ UNCHANGED strayed
  <2>1. [sync EXCEPT ![p].step = "commit", ![p].taken = TRUE, ![p].deal = n]
          = [sync EXCEPT ![p] = [r EXCEPT !.step = "commit", !.taken = TRUE, !.deal = n]]
    BY <1>0, <1>2 DEF Typed
  <2>2. [r EXCEPT !.step = "commit", !.taken = FALSE, !.deal = Refused] = [r EXCEPT !.step = "commit", !.deal = Refused]
    BY <1>14 DEF Dealing
  <2>3. [sync EXCEPT ![p].step = "commit", ![p].deal = Refused]
          = [sync EXCEPT ![p] = [r EXCEPT !.step = "commit", !.taken = FALSE, !.deal = Refused]]
    BY <1>0, <1>2, <2>2 DEF Typed
  <2>4. Len(deals) < MaxRecords => n <= MaxRecords
    BY <1>6, MaxRecordsAssumption
  <2>5. \/ /\ Len(deals) < MaxRecords
           /\ deals' = Append(deals, new)
           /\ \/ /\ sync' = [sync EXCEPT ![p].step = "commit", ![p].taken = TRUE, ![p].deal = n]
                 /\ UNCHANGED <<overlapped, strayed>>
              \/ /\ NextOne(p, sync[p].draft)
                 /\ strayed' = strayed \cup {s}
        \/ /\ sync' = [sync EXCEPT ![p].step = "commit", ![p].deal = Refused]
           /\ UNCHANGED <<deals, overlapped, strayed>>
    BY <1>2, <1>3, <1>5, <1>9 DEF CreateDeal
  <2> QED
    BY <2>1, <2>3, <2>4, <2>5
<1>16. Refused \in NoRow .. MaxRecords /\ (n <= MaxRecords => n \in NoRow .. MaxRecords)
  BY <1>6, MaxRecordsAssumption DEF Refused, NoRow
<1> QED
  BY <1>12, <1>13, <1>15, <1>16

-----------------------------------------------------------------------------
(***************************************************************************)
(* The log of the contact and of the deal.                                 *)
(***************************************************************************)
LEMMA LogContactStep ==
    ASSUME SubscriptionsInv, NEW p \in Proc, LogContact(p)
    PROVE  SubscriptionsInv'
<1>0. Typed /\ Apart /\ Begun /\ RowsApart /\ ContactsInv /\ DealsInv
  BY DEF SubscriptionsInv
<1>1. /\ sync[p].step = "log"
      /\ UNCHANGED status /\ UNCHANGED contacts /\ UNCHANGED deals /\ UNCHANGED accounts
      /\ UNCHANGED log /\ UNCHANGED configured /\ UNCHANGED overlapped /\ UNCHANGED unseen
      /\ UNCHANGED strayed
  BY DEF LogContact
<1>2. PICK r \in Logging : r = sync[p]
  BY <1>0, <1>1, SyncTyped, StatesTyped
<1>3. PICK s \in Sub : s = r.sub
  BY DEF Logging
<1>4. PICK known : known = Find(p, "deal", s)
  OBVIOUS
<1>5. CanLog(p, "contact", s) /\ (configured => Readable(p, "deal", s))
  BY <1>2, <1>3 DEF LogContact
<1>6. PICK row \in RowsOf({"contact", "deal"}, Sub) : Leftover(p, "contact", s, r.contact, r.held, row)
  BY <1>0, <1>5, LoggedRow DEF Logging
<1>7. PICK D : D = AfterLog(p, "contact", s, r.contact, r.held)
  OBVIOUS
<1>8. /\ D = (r.draft \ Logged(p, "contact", s)) \cup {row} /\ row.of = s
      /\ row \in RowsOf({"contact"}, Sub) /\ D \in SUBSET RowsOf({"contact"}, Sub)
  BY <1>2, <1>6, <1>7 DEF Leftover, Logging
<1>9. PICK deal \in NoRow .. MaxRecords : deal = IF configured THEN known ELSE DryRun
  <2>1. configured => known \in Record \cup {NoRow}
    BY <1>0, <1>4, <1>5, FindDeal
  <2> QED
    BY <2>1, MaxRecordsAssumption DEF Record, NoRow, Refused, DryRun
<1>10. PICK held \in BOOLEAN : held = (configured /\ known \notin {NoRow, DryRun})
  OBVIOUS
<1>11. PICK step \in {"deal", "commit"} : step = IF configured THEN "deal" ELSE "commit"
  OBVIOUS
<1>12. PICK w : w = [step |-> step, sub |-> s, seen |-> r.seen, todo |-> r.todo, draft |-> D,
                     deal |-> deal, held |-> held, taken |-> FALSE]
  OBVIOUS
<1>13. /\ w \in Dealing /\ w \in States /\ w.step = step /\ w.sub = s /\ w.seen = r.seen
       /\ w.todo = r.todo /\ w.draft = D /\ w.deal = deal /\ w.held = held /\ w.taken = FALSE
  BY <1>8, <1>12 DEF Dealing, Logging, States
<1>14. sync' = [sync EXCEPT ![p] = w]
  BY <1>2, <1>3, <1>4, <1>7, <1>9, <1>10, <1>11, <1>12 DEF LogContact
<1>15. /\ sync' \in [Proc -> States] /\ sync'[p] = w
       /\ \A q \in Proc : q # p => sync'[q] = sync[q]
  BY <1>0, <1>13, <1>14, SyncBecomes
<1>16. Typed'
  BY <1>0, <1>1, <1>15 DEF Typed, States
<1>17. TouchedBy(w) \subseteq Touches(p) /\ s \in Touches(p)
  BY <1>0, <1>1, <1>2, <1>3, <1>8, <1>13, TouchesAre DEF TouchedBy
<1>18. Apart'
  BY <1>0, <1>1, <1>14, <1>16, <1>17, ApartStays
<1>19. Begun'
  <2>1. sync[p] # Asleep
    BY <1>0, <1>1, SyncTyped
  <2>2. \A x \in TouchedBy(w) \cup w.todo : status'[x] # "none"
    BY <1>0, <1>1, <1>2, <1>13, <1>17, <2>1 DEF Begun
  <2> QED
    BY <1>0, <1>1, <1>14, <1>16, <2>2, BegunStays
<1>20. RowsApart'
  <2>1. Distinct(D)
    BY <1>0, <1>6, <1>7, LeftoverApart
  <2>2. \A q \in Proc : sync'[q].draft = IF q = p THEN D ELSE sync[q].draft
    BY <1>13, <1>15
  <2>3. \A k, x : \A t \in Ever(k, x)' : t \in Ever(k, x) \/ (t = row /\ k = "contact" /\ x = s)
    <3> SUFFICES ASSUME NEW k, NEW x, NEW t \in Ever(k, x)', t # row PROVE t \in Ever(k, x)
      BY <1>8 DEF Ever, About, RowsOf
    <3>1. t.kind = k /\ t.of = x /\ (t \in log \/ \E q \in Proc : t \in sync'[q].draft)
      BY <1>1 DEF Ever, About
    <3>2. t \in log \/ \E q \in Proc : t \in sync[q].draft
      BY <1>2, <1>8, <2>2, <3>1
    <3> QED
      BY <3>1, <3>2 DEF Ever, About
  <2>4. \A x \in Sub : Alone(x)' =>
           \A k \in {"contact", "deal"} : \A r1, r2 \in Ever(k, x)' : r1.number = r2.number
    <3>1. overlapped \subseteq overlapped' /\ sync[p].step # "idle" /\ s = sync[p].sub
      BY <1>1, <1>2, <1>3
    <3>2. \A k \in {"contact", "deal"}, x \in Sub : \A t \in Ever(k, x)' :
             t \in Ever(k, x) \/ (t = row /\ k = "contact" /\ x = sync[p].sub)
      BY <2>3, <3>1
    <3>3. Leftover(p, "contact", sync[p].sub, r.contact, r.held, row)
      BY <1>6, <3>1
    <3> QED
      BY <1>0, <3>1, <3>2, <3>3, OneNumber
  <2>5. Distinct(log)' /\ \A q \in Proc : Distinct(sync[q].draft)'
    BY <1>0, <1>1, <2>1, <2>2 DEF RowsApart, Distinct, Same
  <2> QED
    BY <2>4, <2>5 DEF RowsApart
<1>21. ContactsInv'
  BY <1>0, <1>1, <1>11, <1>13, <1>15, ContactsStay
<1>22. \A x : DealRows(x)' = DealRows(x) /\ DealsOf(x)' = DealsOf(x)
              /\ (Alone(x)' <=> Alone(x)) /\ (Intact(x)' <=> Intact(x))
  BY <1>1 DEF DealRows, About, DealsOf, Alone, Intact
<1>23. configured => /\ \/ known = NoRow /\ DealRows(s) = {}
                        \/ \E t : DealRows(s) = {t} /\ t.record = known
                     /\ known > 0 => known \in DealsOf(s)
                     /\ known \in Record \cup {NoRow}
  BY <1>0, <1>4, <1>5, FindDeal
<1>24. DealKnown(p)'
  <2>1. CASE configured
    <3>1. deal = known /\ step = "deal" /\ (held <=> known \notin {NoRow, DryRun})
      BY <1>9, <1>10, <1>11, <2>1
    <3>2. held => \E t \in DealRows(s) : t.record = deal
      BY <1>23, <2>1, <3>1
    <3>3. ~held => \A t \in DealRows(s) : t.record <= 0
      BY <1>23, <2>1, <3>1 DEF NoRow, DryRun
    <3> QED
      BY <1>1, <1>13, <1>15, <1>22, <1>23, <2>1, <3>1, <3>2, <3>3 DEF DealKnown
  <2>2. CASE ~configured
    <3>0. DryRun = 0 /\ NoRow # 0 /\ ~(0 > 0)
      BY DEF DryRun, NoRow
    <3>1. deal = 0 /\ step = "commit" /\ ~held
      BY <1>9, <1>10, <1>11, <2>2, <3>0
    <3> QED
      BY <1>1, <1>13, <1>15, <2>2, <3>0, <3>1 DEF DealKnown
  <2> QED
    BY <2>1, <2>2
<1>25. InHand(p) = {}
  BY <1>1 DEF InHand
<1>26. DealFree(p)'
  <2> SUFFICES ASSUME step = "deal", ~held, Intact(s), NEW d \in DealsOf(s) PROVE FALSE
    BY <1>13, <1>15, <1>22 DEF DealFree
  <2>1. d \in DOMAIN deals /\ deals[d].sub = s /\ d > 0
    BY <1>0, DealsTyped DEF DealsOf
  <2>2. Named(d) /\ Alone(s)
    BY <1>0, <2>1 DEF DealsInv, Intact
  <2>3. \A q \in Proc : s \notin InHand(q)
    BY <1>0, <1>1, <1>2, <1>3, <1>25, <2>2, InOneHand
  <2>4. PICK t \in DealRows(s) : t.record = d
    BY <2>1, <2>2, <2>3 DEF Named
  <2>5. configured
    BY <1>11
  <2>6. known = d
    BY <1>23, <2>4, <2>5
  <2>7. d \in Nat \ {0}
    BY <1>0, <2>1, DealsTyped
  <2>8. d \notin {NoRow, DryRun}
    BY <2>7 DEF NoRow, DryRun
  <2> QED
    BY <1>10, <2>5, <2>6, <2>8
<1>27. StageKept(p)'
  <2>1. StageKept(p)
    BY <1>0 DEF DealsInv
  <2>2. r.seen = "incomplete" /\ Alone(s) => DealRows(s) = {}
    BY <1>1, <1>2, <1>3, <2>1 DEF StageKept, AtWork
  <2>3. DealRows(s) = {} => ~held
    BY <1>10, <1>23
  <2> QED
    BY <1>13, <1>15, <1>22, <2>2, <2>3 DEF StageKept
<1>28. DealsInv'
  <2>1. \A d \in DOMAIN deals : Intact(deals[d].sub)' => Named(d)'
    <3> SUFFICES ASSUME NEW d \in DOMAIN deals, Intact(deals[d].sub)' PROVE Named(d)'
      OBVIOUS
    <3>1. PICK x : x = deals[d].sub
      OBVIOUS
    <3>2. Intact(x)
      BY <1>1, <3>1 DEF Intact, Alone
    <3>3. Named(d)
      BY <1>0, <3>1, <3>2 DEF DealsInv
    <3> QED
      BY <1>0, <1>1, <1>13, <1>14, <1>25, <3>3, NamedKept
  <2>2. \A d1, d2 \in DOMAIN deals :
          deals[d1].sub = deals[d2].sub /\ Intact(deals[d1].sub)' => d1 = d2
    <3> SUFFICES ASSUME NEW d1 \in DOMAIN deals, NEW d2 \in DOMAIN deals,
                        deals[d1].sub = deals[d2].sub, Intact(deals[d1].sub)'
                 PROVE  d1 = d2
      OBVIOUS
    <3>1. PICK x : x = deals[d1].sub
      OBVIOUS
    <3>2. Intact(x)
      BY <1>1, <3>1 DEF Intact, Alone
    <3> QED
      BY <1>0, <3>1, <3>2 DEF DealsInv, DealOnce, Intact
  <2>3. \A t \in log' : t.kind = "deal" /\ t.record > 0 => t.record \in DealsOf(t.of)'
    BY <1>0, <1>1, <1>22 DEF DealsInv
  <2>4. \A x \in Sub \ Own(p) : DealRows(x)' = DealRows(x)
    BY <1>22
  <2>5. \A d \in DOMAIN deals : /\ d \in DOMAIN deals' /\ deals'[d].sub = deals[d].sub
                                /\ deals[d].sub \notin Own(p) => deals'[d] = deals[d]
    BY <1>1
  <2>6. \A d \in DOMAIN deals' : deals'[d].sub \notin Own(p) => d \in DOMAIN deals
    BY <1>1
  <2>7. \A d \in DOMAIN deals' : deals'[d].sub \in Own(p) /\ Intact(deals[d].sub)' => Named(d)'
    BY <1>1, <2>1
  <2>8. \A d1, d2 \in DOMAIN deals' :
          deals'[d1].sub = deals'[d2].sub /\ deals'[d1].sub \in Own(p) /\ Intact(deals[d1].sub)' => d1 = d2
    BY <1>1, <2>2
  <2> QED
    BY <1>0, <1>1, <1>14, <1>16, <1>24, <1>26, <1>27, <2>3, <2>4, <2>5, <2>6, <2>7, <2>8, DealsCarry
<1> QED
  BY <1>16, <1>18, <1>19, <1>20, <1>21, <1>28 DEF SubscriptionsInv

\* What the commit leaves of the log: one row of the deal, and of the rest
\* nothing that it had not.
LEMMA Committed ==
    ASSUME Typed, NEW p \in Proc, NEW s, NEW record, NEW held, NEW row,
           Leftover(p, "deal", s, record, held, row),
           log' = Over(AfterLog(p, "deal", s, record, held))
    PROVE  /\ DealRows(s)' = {row}
           /\ \A x : x # s => DealRows(x)' = DealRows(x)
           /\ \A r \in log' : r = row \/ r \in sync[p].draft \/ r \in log
<1>1. PICK D : D = AfterLog(p, "deal", s, record, held)
  OBVIOUS
<1>2. D = (sync[p].draft \ Logged(p, "deal", s)) \cup {row} /\ row.kind = "deal" /\ row.of = s
  BY <1>1 DEF Leftover, RowsOf
<1>3. \A d \in sync[p].draft : d.kind = "contact"
  BY SyncTyped DEF RowsOf
<1>4. \A r : r \in log' <=> r \in D \/ (r \in log /\ \A d \in D : ~Same(d, r))
  BY <1>1 DEF Over
<1>5. \A r \in DealRows(s) : Same(row, r)
  <2>1. \/ DealRows(s) = {}
        \/ \E old : DealRows(s) = {old} /\ row.number = old.number
    BY DealsAreInTheLog DEF Leftover
  <2> QED
    BY <1>2, <2>1 DEF DealRows, About, Same
<1>6. DealRows(s)' = {row}
  <2>1. ASSUME NEW r \in DealRows(s)' PROVE r = row
    <3>1. r \in log' /\ r.kind = "deal" /\ r.of = s
      BY <2>1 DEF DealRows, About
    <3>2. CASE r \in D
      BY <1>2, <1>3, <3>1, <3>2
    <3>3. CASE r \in log /\ \A d \in D : ~Same(d, r)
      <4>1. r \in DealRows(s)
        BY <3>1, <3>3 DEF DealRows, About
      <4> QED
        BY <1>2, <1>5, <3>3, <4>1
    <3> QED
      BY <1>4, <3>1, <3>2, <3>3
  <2>2. row \in DealRows(s)'
    BY <1>2, <1>4 DEF DealRows, About
  <2> QED
    BY <2>1, <2>2
<1>7. ASSUME NEW x, x # s PROVE DealRows(x)' = DealRows(x)
  <2>1. ASSUME NEW r, r.kind = "deal", r.of = x PROVE r \in log' <=> r \in log
    <3>1. r \notin D
      BY <1>2, <1>3, <1>7, <2>1
    <3>2. \A d \in D : ~Same(d, r)
      BY <1>2, <1>3, <1>7, <2>1 DEF Same
    <3> QED
      BY <1>4, <3>1, <3>2
  <2> QED
    BY <2>1 DEF DealRows, About
<1>8. \A r \in log' : r = row \/ r \in sync[p].draft \/ r \in log
  BY <1>2, <1>4
<1> QED
  BY <1>6, <1>7, <1>8

\* The commit names the deal in hand in the log, which keeps one row of it.
LEMMA LogDealStep ==
    ASSUME SubscriptionsInv, NEW p \in Proc, LogDeal(p)
    PROVE  SubscriptionsInv'
<1>0. Typed /\ Apart /\ Begun /\ RowsApart /\ ContactsInv /\ DealsInv
  BY DEF SubscriptionsInv
<1>1. /\ sync[p].step = "commit"
      /\ UNCHANGED status /\ UNCHANGED contacts /\ UNCHANGED deals /\ UNCHANGED accounts
      /\ UNCHANGED configured /\ UNCHANGED unseen
  BY DEF LogDeal
<1>2. PICK r \in Dealing : r = sync[p]
  BY <1>0, <1>1, SyncTyped, StatesTyped
<1>3. PICK s \in Sub : s = r.sub
  BY DEF Dealing
<1>4. DealKnown(p)
  BY <1>0 DEF DealsInv
<1>5. r.deal \in Record /\ (r.deal > 0 => r.deal \in DealsOf(s))
  <2>1. r.deal \in NoRow .. MaxRecords /\ r.deal # NoRow
    BY <1>1, <1>2, <1>4 DEF DealKnown, Dealing
  <2>2. r.deal \in Record
    BY <2>1, MaxRecordsAssumption DEF NoRow, Record, Refused
  <2> QED
    BY <1>1, <1>2, <1>3, <1>4, <2>2 DEF DealKnown
<1>6. CanLog(p, "deal", s) /\ log' = Over(AfterLog(p, "deal", s, r.deal, r.held))
      /\ strayed' = strayed \cup {t \in {s} : ~configured /\ Find(p, "deal", s) > 0}
      /\ NextOne(p, {})
  BY <1>2, <1>3 DEF LogDeal
<1>7. PICK row \in RowsOf({"contact", "deal"}, Sub) : Leftover(p, "deal", s, r.deal, r.held, row)
  BY <1>0, <1>5, <1>6, LoggedRow DEF Dealing
<1>8. row.kind = "deal" /\ row.of = s
  BY <1>7 DEF Leftover, RowsOf
<1>9. /\ DealRows(s)' = {row}
      /\ \A x : x # s => DealRows(x)' = DealRows(x)
      /\ \A t \in log' : t = row \/ t \in sync[p].draft \/ t \in log
  BY <1>0, <1>6, <1>7, Committed
<1>10. Distinct(log')
  BY <1>0, <1>6, <1>7, LeftoverApart
<1>11. PICK w \in {Asleep} \cup Looking :
         /\ Leaves(p, w)
         /\ w.step = "look" => w.seen = "active" /\ w.sub \in sync[p].todo /\ w.todo \subseteq sync[p].todo
  BY <1>0, <1>1, <1>6, NextOneLeaves
<1>12. /\ w \in States /\ w.step \in {"idle", "look"} /\ sync' = [sync EXCEPT ![p] = w]
       /\ overlapped \subseteq overlapped' /\ w.draft \subseteq sync[p].draft
       /\ strayed \subseteq strayed'
  BY <1>6, <1>11 DEF Leaves, States
<1>13. /\ sync' \in [Proc -> States] /\ sync'[p] = w
       /\ \A q \in Proc : q # p => sync'[q] = sync[q]
  BY <1>0, <1>12, SyncBecomes
<1>14. Typed'
  <2>1. log' \subseteq RowsOf({"contact", "deal"}, Sub)
    <3>1. sync[p].draft \subseteq RowsOf({"contact", "deal"}, Sub)
      BY <1>0, SyncTyped DEF RowsOf
    <3> QED
      BY <1>0, <1>9, <3>1 DEF Typed
  <2> QED
    BY <1>0, <1>1, <1>13, <2>1 DEF Typed, States
<1>15. Apart'
  <2>1. \A t \in TouchedBy(w) :
          \/ t \in Touches(p)
          \/ \A q \in Proc \ {p} : \A u \in Touches(q) :
                /\ t = u => t \in overlapped'
                /\ EmailOf[t] = EmailOf[u] => EmailOf[t] \in overlapped'
    BY <1>11 DEF Leaves
  <2> QED
    BY <1>0, <1>12, <1>14, <2>1, ApartStays
<1>16. Begun'
  <2>1. s \in Touches(p) /\ \A t \in sync[p].draft : t.of \in Touches(p)
    BY <1>0, <1>1, <1>2, <1>3, TouchesAre DEF TouchedBy
  <2>2. \A t \in log' : t.of \in Touches(p) \/ \E u \in log : u.of = t.of
    BY <1>8, <1>9, <2>1
  <2>3. \A t \in Touches(p) \cup sync[p].todo : status[t] # "none"
    <3>1. sync[p] # Asleep
      BY <1>0, <1>1, SyncTyped
    <3> QED
      BY <1>0, <3>1 DEF Begun
  <2>4. w # Asleep => \A t \in TouchedBy(w) \cup w.todo : status'[t] # "none"
    <3>1. w # Asleep => w.step = "look"
      BY <1>12, StatesTyped
    <3>2. \A t \in TouchedBy(w) : t \in Touches(p) \/ (w.step # "idle" /\ t = w.sub)
      BY <1>12, <2>1 DEF TouchedBy
    <3> QED
      BY <1>1, <1>11, <2>3, <3>1, <3>2
  <2> QED
    BY <1>0, <1>1, <1>12, <1>14, <2>2, <2>4, BegunStays
<1>17. RowsApart'
  <2>1. \A q \in Proc : sync'[q].draft \subseteq sync[q].draft
    BY <1>12, <1>13
  <2>2. \A k, x : \A t \in Ever(k, x)' : t \in Ever(k, x) \/ (t = row /\ k = "deal" /\ x = s)
    <3> SUFFICES ASSUME NEW k, NEW x, NEW t \in Ever(k, x)', t # row PROVE t \in Ever(k, x)
      BY <1>8 DEF Ever, About
    <3>1. t.kind = k /\ t.of = x /\ (t \in log' \/ \E q \in Proc : t \in sync'[q].draft)
      BY DEF Ever, About
    <3>2. t \in log \/ \E q \in Proc : t \in sync[q].draft
      BY <1>9, <2>1, <3>1
    <3> QED
      BY <3>1, <3>2 DEF Ever, About
  <2>3. \A x \in Sub : Alone(x)' =>
           \A k \in {"contact", "deal"} : \A r1, r2 \in Ever(k, x)' : r1.number = r2.number
    <3>1. overlapped \subseteq overlapped' /\ sync[p].step # "idle" /\ s = sync[p].sub
      BY <1>1, <1>2, <1>3, <1>12
    <3>2. \A k \in {"contact", "deal"}, x \in Sub : \A t \in Ever(k, x)' :
             t \in Ever(k, x) \/ (t = row /\ k = "deal" /\ x = sync[p].sub)
      BY <2>2, <3>1
    <3>3. Leftover(p, "deal", sync[p].sub, r.deal, r.held, row)
      BY <1>7, <3>1
    <3> QED
      BY <1>0, <3>1, <3>2, <3>3, OneNumber
  <2>4. \A q \in Proc : Distinct(sync'[q].draft)
    BY <1>0, <2>1 DEF RowsApart, Distinct
  <2>5. Distinct(log)' /\ \A q \in Proc : Distinct(sync[q].draft)'
    BY <1>10, <2>4 DEF Distinct, Same
  <2> QED
    BY <2>3, <2>5 DEF RowsApart
<1>18. ContactsInv'
  BY <1>0, <1>1, <1>12, <1>13, ContactsStay
<1>19. \A x : DealsOf(x)' = DealsOf(x)
  BY <1>1 DEF DealsOf
<1>20. \A x : (Alone(x)' => Alone(x)) /\ (Intact(x)' => Intact(x) /\ x \notin strayed')
  BY <1>12 DEF Alone, Intact
<1>21. \/ DealRows(s) = {} /\ row.record = r.deal
       \/ \E old : DealRows(s) = {old} /\ row.record = IF r.held THEN old.record ELSE r.deal
  BY <1>0, <1>7, DealsAreInTheLog DEF Leftover
<1>22. \A t \in log' : t.kind = "deal" /\ t.record > 0 => t.record \in DealsOf(t.of)'
  <2>1. row.record > 0 => row.record \in DealsOf(s)
    <3>1. \A old \in DealRows(s) : old.record > 0 => old.record \in DealsOf(s)
      BY <1>0 DEF DealsInv, DealRows, About
    <3> QED
      BY <1>5, <1>21, <3>1
  <2>2. \A t \in sync[p].draft : t.kind = "contact"
    BY <1>0, SyncTyped DEF RowsOf
  <2> QED
    BY <1>0, <1>8, <1>9, <1>19, <2>1, <2>2 DEF DealsInv
<1>23. DealKnown(p)' /\ DealFree(p)' /\ StageKept(p)'
  BY <1>11, <1>12, <1>13, LeavesDealless
<1>24. ASSUME NEW d \in DOMAIN deals, deals[d].sub = s, Intact(s)' PROVE Named(d)'
  <2>1. Named(d) /\ Alone(s) /\ s \notin strayed' /\ d > 0
    BY <1>0, <1>20, <1>24, DealsTyped DEF DealsInv, Intact
  <2>2. row.record = d
    <3>1. CASE \E t \in DealRows(s) : t.record = d
      <4>1. PICK old : DealRows(s) = {old} /\ old.record = d
                        /\ row.record = IF r.held THEN old.record ELSE r.deal
        BY <1>21, <3>1
      <4>2. r.held = TRUE
        <5>1. ASSUME ~r.held PROVE FALSE
          <6>1. ~configured
            <7>1. configured => old.record <= 0
              BY <1>1, <1>2, <1>3, <1>4, <2>1, <4>1, <5>1 DEF DealKnown
            <7>2. d \in Nat
              BY <1>0, DealsTyped
            <7> QED
              BY <2>1, <4>1, <7>1, <7>2
          <6>2. Find(p, "deal", s) = d
            <7>1. Logged(p, "deal", s) = {old}
              BY <1>0, <4>1, DealsAreInTheLog
            <7> QED
              BY <4>1, <7>1 DEF Find
          <6> QED
            BY <1>6, <2>1, <6>1, <6>2
        <5> QED
          BY <5>1 DEF Dealing
      <4> QED
        BY <4>1, <4>2
    <3>2. CASE \E q \in Proc : s \in InHand(q) /\ sync[q].deal = d
      <4>1. s \in InHand(p) /\ r.deal = d
        BY <1>0, <1>1, <1>2, <1>3, <2>1, <3>2, InOneHand
      <4>2. r.held = FALSE
        BY <1>2, <4>1 DEF InHand, Dealing
      <4> QED
        BY <1>21, <4>1, <4>2
    <3> QED
      BY <1>24, <2>1, <3>1, <3>2 DEF Named
  <2>3. deals'[d].sub = s
    BY <1>1, <1>24
  <2>4. row \in log'
    BY <1>9 DEF DealRows, About
  <2> QED
    BY <1>8, <2>2, <2>3, <2>4 DEF Named, DealRows, About
<1>25. DealsInv'
  <2>1. Own(p) = {s}
    BY <1>1, <1>2, <1>3 DEF Own
  <2>2. \A d \in DOMAIN deals : deals[d].sub = s => (Intact(deals[d].sub)' <=> Intact(s)')
    BY <1>1 DEF Intact, Alone
  <2>3. \A x \in Sub \ Own(p) : DealRows(x)' = DealRows(x)
    BY <1>9, <2>1
  <2>4. \A d \in DOMAIN deals : /\ d \in DOMAIN deals' /\ deals'[d].sub = deals[d].sub
                                /\ deals[d].sub \notin Own(p) => deals'[d] = deals[d]
    BY <1>1
  <2>5. \A d \in DOMAIN deals' : deals'[d].sub \notin Own(p) => d \in DOMAIN deals
    BY <1>1
  <2>6. \A d \in DOMAIN deals' : deals'[d].sub \in Own(p) /\ Intact(deals[d].sub)' => Named(d)'
    BY <1>1, <1>24, <2>1, <2>2
  <2>7. ASSUME NEW d1 \in DOMAIN deals', NEW d2 \in DOMAIN deals',
               deals'[d1].sub = deals'[d2].sub, deals'[d1].sub \in Own(p), Intact(deals[d1].sub)'
        PROVE  d1 = d2
    <3>1. d1 \in DOMAIN deals /\ d2 \in DOMAIN deals /\ deals[d1].sub = s /\ deals[d2].sub = s
      BY <1>1, <2>1, <2>7
    <3>2. Intact(s)
      BY <1>20, <2>2, <2>7, <3>1
    <3> QED
      BY <1>0, <3>1, <3>2 DEF DealsInv, DealOnce, Intact
  <2> QED
    BY <1>0, <1>1, <1>12, <1>14, <1>22, <1>23, <2>3, <2>4, <2>5, <2>6, <2>7, DealsCarry
<1> QED
  BY <1>14, <1>15, <1>16, <1>17, <1>18, <1>25 DEF SubscriptionsInv

\* At the start there is nothing at Zoho or in the log.
LEMMA SubscriptionsStart == CrmInit => SubscriptionsInv
<1> SUFFICES ASSUME CrmInit PROVE SubscriptionsInv
  OBVIOUS
<1>1. /\ \A x \in Sub \cup Company : status[x] = "none"
      /\ \A e \in Email : contacts[e] = 0
      /\ deals = <<>> /\ log = {} /\ configured \in BOOLEAN
      /\ \A p \in Proc : sync[p] = Asleep /\ sync[p].step = "idle" /\ sync[p].draft = {}
      /\ DOMAIN deals = {}
  BY DEF CrmInit, Asleep
<1>2. Typed
  <2>1. status \in [Sub \cup Company -> Status]
    BY DEF CrmInit, Status
  <2>2. contacts \in [Email -> 0 .. MaxRecords] /\ accounts \in [Company -> 0 .. 1]
    BY MaxRecordsAssumption DEF CrmInit
  <2>3. deals \in Seq([sub : Sub, stage : Stages]) /\ Len(deals) <= MaxRecords
    BY MaxRecordsAssumption DEF CrmInit
  <2>4. sync \in [Proc -> {Asleep} \cup Looking \cup Logging \cup Dealing]
    BY DEF CrmInit
  <2> QED
    BY <1>1, <2>1, <2>2, <2>3, <2>4 DEF Typed
<1>3. Apart
  BY <1>1 DEF Apart, Touches, AtWork
<1>4. Begun
  BY <1>1 DEF Begun
<1>5. RowsApart
  <2>1. \A kind, s : Ever(kind, s) = {}
    BY <1>1 DEF Ever, About
  <2> QED
    BY <1>1, <2>1 DEF RowsApart, Distinct
<1>6. ContactsInv
  BY <1>1 DEF ContactsInv, ContactOnce
<1>7. DealsInv
  <2>1. \A p \in Proc : DealKnown(p) /\ DealFree(p) /\ StageKept(p)
    BY <1>1 DEF DealKnown, DealFree, StageKept, AtWork
  <2> QED
    BY <1>1, <2>1 DEF DealsInv, DealOnce
<1> QED
  BY <1>2, <1>3, <1>4, <1>5, <1>6, <1>7 DEF SubscriptionsInv

\* Every step of the synchronisation of subscriptions.
LEMMA SubscriptionsStep ==
    ASSUME SubscriptionsInv, SubscriptionsNext
    PROVE  SubscriptionsInv'
BY SubscribeStep, SyncNowStep, LookUpStep, CreateContactStep, LogContactStep, UpdateDealStep,
   CreateDealStep, LogDealStep, FailsStep, PaidStep, RestartStep
   DEF SubscriptionsNext

\* What the invariant says of the properties of Crm.
LEMMA SubscriptionsAreOnce ==
    ASSUME SubscriptionsInv
    PROVE  CrmTypeOK /\ LogOnce /\ ContactOnce /\ DealOnce
<1>1. Typed /\ RowsApart /\ ContactsInv /\ DealsInv
  BY DEF SubscriptionsInv
<1>2. CrmTypeOK
  <2>1. \A row \in log : /\ row.kind # "account" /\ row.number \in 1 .. MaxRows
                         /\ row.record \in Refused .. MaxRecords /\ row.of \in Sub
    BY <1>1 DEF Typed, RowsOf, Record
  <2>2. \A p \in Proc : sync[p].step = "idle" => sync[p] = Asleep
    BY <1>1, SyncTyped
  <2> QED
    BY <1>1, <2>1, <2>2 DEF Typed, CrmTypeOK, Status
<1>3. LogOnce
  <2> SUFFICES ASSUME NEW r1 \in log, NEW r2 \in log, r1.kind = r2.kind, r1.of = r2.of,
                      r1.of \in Sub => Alone(r1.of)
               PROVE  r1 = r2
    BY DEF LogOnce
  <2>1. r1.of \in Sub /\ r1.kind \in {"contact", "deal"}
    BY <1>1 DEF Typed, RowsOf
  <2>2. r1 \in Ever(r1.kind, r1.of) /\ r2 \in Ever(r1.kind, r1.of)
    BY DEF Ever, About
  <2>3. r1.number = r2.number
    BY <1>1, <2>1, <2>2 DEF RowsApart
  <2> QED
    BY <1>1, <2>3 DEF RowsApart, Distinct, Same
<1> QED
  BY <1>1, <1>2, <1>3 DEF ContactsInv, DealsInv

-----------------------------------------------------------------------------
(***************************************************************************)
(* The parts together.                                                     *)
(***************************************************************************)
LEMMA CrmRests ==
    ASSUME UNCHANGED crmVars
    PROVE  (SubscriptionsInv' <=> SubscriptionsInv) /\ (CompaniesInv' <=> CompaniesInv)
<1>1. /\ status' = status /\ contacts' = contacts /\ deals' = deals /\ accounts' = accounts
      /\ log' = log /\ configured' = configured /\ sync' = sync /\ overlapped' = overlapped
      /\ unseen' = unseen /\ strayed' = strayed
  BY DEF crmVars
<1>2. Typed' <=> Typed
  BY <1>1 DEF Typed
<1>3. Apart' <=> Apart
  BY <1>1 DEF Apart, Touches
<1>4. Begun' <=> Begun
  BY <1>1 DEF Begun, Touches
<1>5. RowsApart' <=> RowsApart
  BY <1>1 DEF RowsApart, Distinct, Same, Alone, Ever, About
<1>6. ContactsInv' <=> ContactsInv
  BY <1>1 DEF ContactsInv, ContactOnce
<1>7. DealsInv' <=> DealsInv
  BY <1>1 DEF DealsInv, DealOnce, DealKnown, DealFree, StageKept, Named, Intact, Alone, DealRows, About,
              DealsOf, InHand
<1>8. CompaniesInv' <=> CompaniesInv
  BY <1>1 DEF CompaniesInv
<1> QED
  BY <1>2, <1>3, <1>4, <1>5, <1>6, <1>7, <1>8 DEF SubscriptionsInv

\* What is about Zoho leaves addresses alone.
LEMMA AddressesRest ==
    ASSUME UNCHANGED ipVars
    PROVE  AddressesInv' <=> AddressesInv
BY DEF ipVars, AddressesInv, IpTypeOK, ReaderIsInstalled, CachedAnswerHasASource

\* The invariant holds at the start of each part.
LEMMA IntegrationsStart == IntegrationsInit => IntegrationsInv
BY SubscriptionsStart, CompaniesStart, AddressesStart DEF IntegrationsInit, IntegrationsInv

\* Every step of the part that a behaviour is about keeps the invariant.
LEMMA IntegrationsStep == IntegrationsInv /\ [IntegrationsNext]_integrationVars => IntegrationsInv'
<1> SUFFICES ASSUME IntegrationsInv, [IntegrationsNext]_integrationVars PROVE IntegrationsInv'
  OBVIOUS
<1>1. part' = part /\ AddressesInv /\ part \in {"subscriptions", "companies", "addresses"}
      /\ (IF part = "companies" THEN CompaniesInv ELSE SubscriptionsInv)
  BY DEF IntegrationsNext, integrationVars, IntegrationsInv
<1>2. \/ part = "subscriptions" /\ SubscriptionsNext /\ UNCHANGED ipVars
      \/ part = "companies" /\ CompaniesNext /\ UNCHANGED ipVars
      \/ part = "addresses" /\ IpNext /\ UNCHANGED crmVars
      \/ UNCHANGED crmVars /\ UNCHANGED ipVars
  BY DEF IntegrationsNext, integrationVars
<1>3. AddressesInv'
  BY <1>1, <1>2, AddressesStep, AddressesRest
<1>4. IF part = "companies" THEN CompaniesInv' ELSE SubscriptionsInv'
  BY <1>1, <1>2, SubscriptionsStep, CompaniesStep, CrmRests
<1> QED
  BY <1>1, <1>3, <1>4 DEF IntegrationsInv

(***************************************************************************)
(* The invariant of the part that a behaviour is about holds throughout.   *)
(***************************************************************************)
THEOREM IntegrationsHolds == IntegrationsSpec => []IntegrationsInv
BY IntegrationsStart, IntegrationsStep, PTL DEF IntegrationsSpec

(***************************************************************************)
(* One contact, one deal and one log row of each for a subscription        *)
(* (RecordsOnce): however many requests, subscriptions and owners there    *)
(* are, a second one has a named cause: two requests of ZohoCrmService at  *)
(* once, a search that did not return the contact, or a deal that the log  *)
(* never came to name.                                                     *)
(***************************************************************************)
THEOREM RecordsAreOnce == IntegrationsSpec => []RecordsOnce
<1>1. IntegrationsInv => RecordsOnce
  BY SubscriptionsAreOnce, CompaniesAreOnce
     DEF IntegrationsInv, RecordsOnce, IntegrationsTypeOK, AddressesInv
<1> QED
  BY <1>1, IntegrationsHolds, PTL

(***************************************************************************)
(* The reader that the requests share reads the installed database, and    *)
(* what is cached of an address is the answer of an installed one or the   *)
(* None of a failed lookup (AnswersHaveASource), for every number of       *)
(* requests and sequence of published databases.                           *)
(***************************************************************************)
THEOREM AnswersAreSound == IntegrationsSpec => []AnswersHaveASource
<1>1. IntegrationsInv => AnswersHaveASource
  BY DEF IntegrationsInv, AddressesInv, AnswersHaveASource
<1> QED
  BY <1>1, IntegrationsHolds, PTL

(***************************************************************************)
(* A country in the cache gives way to None only to a lookup of the same   *)
(* address that was waiting (KnownStaysKnown): an update that fails in     *)
(* GeoIpDatabaseManager does not take the answers of others away.          *)
(***************************************************************************)
THEOREM CountriesStay == IntegrationsSpec => KnownStaysKnown
<1> DEFINE Keeps == \A ip \in Ip :
              cache[ip] \in Country /\ cache'[ip] = Unknown =>
                 \E v \in Visit : visit[v].on = "lookup" /\ visit[v].ip = ip
<1>1. IntegrationsInv /\ [IntegrationsNext]_integrationVars => [Keeps]_ipVars
  <2> SUFFICES ASSUME IntegrationsInv, [IntegrationsNext]_integrationVars, ~UNCHANGED ipVars
               PROVE  Keeps
    OBVIOUS
  <2>1. IpNext /\ AddressesInv
    BY DEF IntegrationsNext, integrationVars, IntegrationsInv
  <2> QED
    BY <2>1, KnownStep
<1> QED
  BY <1>1, IntegrationsHolds, PTL DEF IntegrationsSpec, KnownStaysKnown

-----------------------------------------------------------------------------
(***************************************************************************)
(* The deal follows the subscription.                                      *)
(***************************************************************************)
\* The row that the commit leaves names the deal that Zoho accepted.
LEMMA DealIsCurrent ==
    ASSUME SubscriptionsInv, NEW p \in Proc, LogDeal(p), sync[p].taken, Alone(sync[p].sub)
    PROVE  \E row \in log' :
              /\ row.kind = "deal" /\ row.of = sync[p].sub /\ row.record > 0
              /\ deals'[row.record].sub = sync[p].sub
              /\ deals'[row.record].stage = StageOf(sync[p].seen)
<1>0. Typed /\ DealsInv
  BY DEF SubscriptionsInv
<1>1. sync[p].step = "commit" /\ deals' = deals
  BY DEF LogDeal
<1>2. PICK r \in Dealing : r = sync[p]
  BY <1>0, <1>1, SyncTyped, StatesTyped
<1>3. PICK s \in Sub : s = r.sub
  BY DEF Dealing
<1>4. DealKnown(p) /\ StageKept(p)
  BY <1>0 DEF DealsInv
<1>5. r.deal > 0 /\ deals[r.deal].stage = StageOf(r.seen)
  BY <1>1, <1>2, <1>4 DEF StageKept
<1>6. r.deal \in DealsOf(s) /\ (r.held => \E t \in DealRows(s) : t.record = r.deal)
  BY <1>1, <1>2, <1>3, <1>4, <1>5 DEF DealKnown
<1>7. r.deal \in Record
  <2>1. r.deal \in NoRow .. MaxRecords
    BY DEF Dealing
  <2> QED
    BY <1>5, <2>1, MaxRecordsAssumption DEF NoRow, Record, Refused
<1>8. CanLog(p, "deal", s) /\ log' = Over(AfterLog(p, "deal", s, r.deal, r.held))
  BY <1>2, <1>3 DEF LogDeal
<1>9. PICK row \in RowsOf({"contact", "deal"}, Sub) : Leftover(p, "deal", s, r.deal, r.held, row)
  BY <1>0, <1>7, <1>8, LoggedRow DEF Dealing
<1>10. row \in log' /\ row.kind = "deal" /\ row.of = s
  <2>1. DealRows(s)' = {row}
    BY <1>0, <1>8, <1>9, Committed
  <2> QED
    BY <2>1 DEF DealRows, About
<1>11. row.record = r.deal
  <2>1. \/ DealRows(s) = {} /\ row.record = r.deal
        \/ \E old : DealRows(s) = {old} /\ row.record = IF r.held THEN old.record ELSE r.deal
    BY <1>0, <1>9, DealsAreInTheLog DEF Leftover
  <2> QED
    BY <1>6, <2>1
<1> QED
  BY <1>1, <1>2, <1>3, <1>5, <1>6, <1>10, <1>11 DEF DealsOf

\* A deal has a number above 0.
LEMMA DealsCounted ==
    ASSUME Typed
    PROVE  Len(deals) \in Nat /\ \A d \in DOMAIN deals : d \in 1 .. Len(deals) /\ d > 0
<1>1. DOMAIN deals = 1 .. Len(deals) /\ Len(deals) \in 0 .. MaxRecords
  BY DealsTyped
<1> QED
  BY <1>1, MaxRecordsAssumption

\* A deal is what it was when another one is made.
LEMMA DealsAre ==
    ASSUME Typed, NEW d \in DOMAIN deals
    PROVE  /\ deals[d] \in [sub : Sub, stage : Stages]
           /\ \A new \in [sub : Sub, stage : Stages] : Append(deals, new)[d] = deals[d]
<1> DEFINE Deal == [sub : Sub, stage : Stages]
<1>1. deals \in Seq(Deal) /\ d \in 1 .. Len(deals)
  BY DealsCounted DEF Typed
<1> HIDE DEF Deal
<1>2. deals[d] \in Deal /\ \A new \in Deal : Append(deals, new)[d] = deals[d]
  BY <1>1
<1> QED
  BY <1>2 DEF Deal

\* Only the first synchronisation of a subscription, overtaken by another, takes
\* a won deal back.
LEMMA WonStays ==
    ASSUME SubscriptionsInv, SubscriptionsNext, NEW d \in DOMAIN deals,
           deals[d].stage = "Closed Won", deals'[d].stage # "Closed Won"
    PROVE  ~Alone(deals[d].sub)
<1>0. Typed /\ DealsInv /\ deals' # deals
  BY DEF SubscriptionsInv
<1>n. Len(deals) \in Nat /\ d \in 1 .. Len(deals) /\ d > 0
  BY <1>0, DealsCounted
<1>1. PICK p \in Proc : UpdateDeal(p) \/ CreateDeal(p)
  BY <1>0 DEF SubscriptionsNext, Subscribe, SyncNow, LookUp, CreateContact, LogContact, LogDeal, Fails,
              Paid, Restart
<1>2. PICK r \in Dealing : r = sync[p] /\ r.step = "deal"
  BY <1>0, <1>1, SyncTyped, StatesTyped DEF UpdateDeal, CreateDeal
<1>3. DealKnown(p) /\ StageKept(p)
  BY <1>0 DEF DealsInv
<1>4. CASE CreateDeal(p)
  <2>1. /\ r.sub \in Sub /\ StageOf(r.seen) \in Stages
        /\ deals' = Append(deals, [sub |-> r.sub, stage |-> StageOf(r.seen)])
    BY <1>0, <1>2, <1>4 DEF CreateDeal, Dealing, StageOf, Stages
  <2> QED
    BY <1>0, <2>1, DealsAre
<1>5. CASE UpdateDeal(p)
  <2>1. r.held /\ r.deal # Refused /\ deals' = [deals EXCEPT ![r.deal].stage = StageOf(r.seen)]
    BY <1>0, <1>2, <1>5 DEF UpdateDeal
  <2>2. d = r.deal /\ deals'[d] = [deals[d] EXCEPT !.stage = StageOf(r.seen)]
    BY <2>1
  <2>3. deals[d] \in [sub : Sub, stage : Stages]
    BY <1>0, DealsAre
  <2>4. StageOf(r.seen) # "Closed Won"
    BY <2>2, <2>3
  <2>5. r.seen = "incomplete"
    BY <2>4 DEF Dealing, Status, StageOf
  <2>6. ~Alone(r.sub)
    BY <1>2, <1>3, <2>1, <2>5 DEF StageKept, AtWork
  <2>7. deals[d].sub = r.sub
    BY <1>2, <1>3, <1>n, <2>2 DEF DealKnown, DealsOf
  <2> QED
    BY <2>6, <2>7
<1> QED
  BY <1>1, <1>4, <1>5

(***************************************************************************)
(* The commit of a synchronisation that Zoho accepted names a deal of the  *)
(* subscription at the stage of the status it read, and no deal that is    *)
(* won goes back while requests do not overlap (DealsFollow): the first    *)
(* synchronisation of a subscription never holds a deal of it.             *)
(***************************************************************************)
THEOREM DealsFollowTheirSubscriptions == IntegrationsSpec => DealsFollow
<1> DEFINE Follows == \A p \in Proc :
              LogDeal(p) /\ sync[p].taken /\ Alone(sync[p].sub) =>
                 \E row \in log' :
                     /\ row.kind = "deal" /\ row.of = sync[p].sub /\ row.record > 0
                     /\ deals'[row.record].sub = sync[p].sub
                     /\ deals'[row.record].stage = StageOf(sync[p].seen)
           Won == \A d \in DOMAIN deals :
              deals[d].stage = "Closed Won" /\ deals'[d].stage # "Closed Won" => ~Alone(deals[d].sub)
<1>1. IntegrationsInv /\ [IntegrationsNext]_integrationVars => [Follows]_crmVars /\ [Won]_crmVars
  <2> SUFFICES ASSUME IntegrationsInv, [IntegrationsNext]_integrationVars, ~UNCHANGED crmVars
               PROVE  Follows /\ Won
    OBVIOUS
  <2>1. \/ SubscriptionsInv /\ SubscriptionsNext
        \/ CompaniesInv /\ CompaniesNext
    BY DEF IntegrationsNext, integrationVars, IntegrationsInv
  <2>2. CASE SubscriptionsInv /\ SubscriptionsNext
    BY <2>2, DealIsCurrent, WonStays
  <2>3. CASE CompaniesInv /\ CompaniesNext
    <3>1. \A p \in Proc : sync[p].step # "commit"
      <4>1. Asleep.step # "commit" /\ \A w \in Accounting : w.step # "commit"
        BY DEF Accounting, Asleep
      <4> QED
        BY <2>3, <4>1 DEF CompaniesInv
    <3>2. deals = <<>>
      BY <2>3 DEF CompaniesInv
    <3> QED
      BY <3>1, <3>2 DEF LogDeal
  <2> QED
    BY <2>1, <2>2, <2>3
<1> QED
  BY <1>1, IntegrationsHolds, PTL
     DEF IntegrationsSpec, DealsFollow, SyncedDealIsCurrent, WonDealStaysWon
=============================================================================
