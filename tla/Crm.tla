-------------------------------- MODULE Crm --------------------------------
(***************************************************************************)
(* The synchronisation with Zoho CRM: ZohoCrmService over ZohoCrmClient,   *)
(* from the three places that reach it.  A new subscription and a new      *)
(* company are synchronised once, after their commit; sync_now walks the   *)
(* subscriptions it loaded as active.  zoho_sync_log remembers the record  *)
(* at Zoho of each local row and has no unique key.  The session reads     *)
(* committed data and what it has flushed itself.  update_deal_stage is    *)
(* never reached (the webhook's audit call fails before it) and            *)
(* create_lead_from_checkout has no caller: both are left out.             *)
(***************************************************************************)
EXTENDS Integers, Sequences

CONSTANTS
    Proc,         \* requests in flight at once
    Sub,          \* subscriptions
    Company,      \* companies
    Email,        \* e-mails of their owners
    EmailOf,      \* the owner's e-mail of each subscription
    MaxRecords,   \* bound: contacts with one e-mail and deals at Zoho
    MaxRows       \* bound: log rows of one kind for one local row

ASSUME EmailAssumption == EmailOf \in [Sub -> Email]
ASSUME MaxRecordsAssumption == MaxRecords \in Nat \ {0} /\ MaxRows \in Nat

VARIABLES
    status,       \* of subscriptions and companies, "none" before the row
    contacts,     \* Contacts at Zoho: how many with each e-mail
    deals,        \* Deals at Zoho: subscription they are for, and stage
    accounts,     \* Accounts at Zoho: how many for each company
    log,          \* zoho_sync_log, the committed rows
    configured,   \* whether this process has Zoho's credentials
    sync,         \* what each request is doing
    overlapped,   \* subscriptions and e-mails that two requests worked on at once
    unseen,       \* e-mails whose contact a search did not return
    strayed       \* subscriptions with a deal that the log does not name

crmVars == <<status, contacts, deals, accounts, log, configured, sync,
             overlapped, unseen, strayed>>

DryRun  == 0    \* the record "DRY-RUN"
Refused == -1   \* the record "ERROR"
NoRow   == -2   \* no row in the log
One     == 1    \* one of the contacts, or accounts, made: which, no one asks

Stages == {"Closed Won", "Closed Lost", "Negotiation/Review", "Qualification"}
StageOf(st) ==
    CASE st = "active"    -> "Closed Won"
      [] st = "cancelled" -> "Closed Lost"
      [] st = "past_due"  -> "Negotiation/Review"
      [] OTHER            -> "Qualification"

Asleep == [step |-> "idle", draft |-> {}]

-----------------------------------------------------------------------------
(***************************************************************************)
(* The log, as the session of p sees it.  Rows of one kind for one local   *)
(* row are told apart by their number.                                     *)
(***************************************************************************)
Same(r1, r2) == r1.kind = r2.kind /\ r1.of = r2.of /\ r1.number = r2.number
Over(draft)  == draft \cup {row \in log : \A d \in draft : ~Same(d, row)}
About(rows, kind, x) == {row \in rows : row.kind = kind /\ row.of = x}
Logged(p, kind, x)   == About(Over(sync[p].draft), kind, x)
Ever(kind, x)        == About(log \cup UNION {sync[q].draft : q \in Proc}, kind, x)

\* _find_existing_sync: scalar_one_or_none raises when there are two rows.
Find(p, kind, x) ==
    LET rows == Logged(p, kind, x)
    IN  IF rows = {} THEN NoRow ELSE (CHOOSE row \in rows : TRUE).record
Readable(p, kind, x) == \A r1, r2 \in Logged(p, kind, x) : r1 = r2

Numbers(kind, x) == {row.number : row \in Ever(kind, x)}
NewRow(kind, x, record) ==
    [kind |-> kind, of |-> x, record |-> record,
     number |-> CHOOSE n \in 1 .. MaxRows : n \notin Numbers(kind, x)]

\* _log_sync: what the session has flushed afterwards.  The record of a row
\* that it had loaded is what it loaded, so it is not among the changed
\* columns: held says so.
AfterLog(p, kind, x, record, held) ==
    LET rows == Logged(p, kind, x)
    IN  IF rows = {} THEN sync[p].draft \cup {NewRow(kind, x, record)}
        ELSE (sync[p].draft \ rows)
               \cup {[row EXCEPT !.record = IF held THEN @ ELSE record] : row \in rows}

\* Another transaction that flushed the row holds its lock.
Unlocked(p, row) == \A q \in Proc \ {p} : \A d \in sync[q].draft : ~Same(d, row)

CanLog(p, kind, x) ==
    /\ Readable(p, kind, x)
    /\ \A row \in Logged(p, kind, x) : Unlocked(p, row)
    /\ Logged(p, kind, x) = {} => Numbers(kind, x) # 1 .. MaxRows

-----------------------------------------------------------------------------
(***************************************************************************)
(* Going from subscription to subscription.                                *)
(***************************************************************************)
AtWork == {"look", "create", "log", "deal", "commit"}
Touches(q) == {sync[q].sub : x \in {sync[q].step} \cap AtWork} \cup {d.of : d \in sync[q].draft}

\* p turns to s, with what is left to do and the rows already flushed.
Turn(p, s, seen, todo, draft) ==
    LET others == UNION {Touches(q) : q \in Proc \ {p}} IN
    /\ sync' = [sync EXCEPT ![p] =
         [step |-> "look", sub |-> s, seen |-> seen, todo |-> todo, draft |-> draft]]
    /\ overlapped' = overlapped \cup ({s} \cap others)
                        \cup {EmailOf[t] : t \in {t \in others : EmailOf[t] = EmailOf[s]}}

\* After the last one the session closes, and what is not committed is lost.
NextOne(p, draft) ==
    \/ \E s \in sync[p].todo : Turn(p, s, "active", sync[p].todo \ {s}, draft)
    \/ /\ sync[p].todo = {}
       /\ sync' = [sync EXCEPT ![p] = Asleep]
       /\ UNCHANGED overlapped

Subscribe(p, s) ==
    /\ sync[p] = Asleep
    /\ status[s] = "none"
    /\ status' = [status EXCEPT ![s] = "incomplete"]
    /\ Turn(p, s, "incomplete", {}, {})
    /\ UNCHANGED <<contacts, deals, accounts, log, configured, unseen, strayed>>

SyncNow(p) ==
    /\ sync[p] = Asleep
    /\ \E s \in Sub :
         /\ status[s] = "active"
         /\ Turn(p, s, "active", {t \in Sub \ {s} : status[t] = "active"}, {})
    /\ UNCHANGED <<status, contacts, deals, accounts, log, configured,
                   unseen, strayed>>

\* A payment arrives meanwhile.  Every other status is passed over by sync_now
\* as "incomplete" is.
Paid(s) ==
    /\ status[s] = "incomplete"
    /\ status' = [status EXCEPT ![s] = "active"]
    /\ UNCHANGED <<contacts, deals, accounts, log, configured, sync,
                   overlapped, unseen, strayed>>

-----------------------------------------------------------------------------
(***************************************************************************)
(* The contact.  Zoho refuses a request with an answer, which the client   *)
(* returns like any other, or the call raises: an answer that does not     *)
(* come, a token that cannot be refreshed.  The update of a contact leaves *)
(* no trace here.                                                          *)
(***************************************************************************)
Found(p, contact, held) ==
    sync' = [sync EXCEPT ![p] =
        [step |-> "log", sub |-> @.sub, seen |-> @.seen, todo |-> @.todo, draft |-> @.draft,
         contact |-> contact, held |-> held]]

\* A search that fails has no "data" in its body, and finds nothing.
LookUp(p) ==
    LET s == sync[p].sub
        known == Find(p, "contact", s)
    IN  /\ sync[p].step = "look"
        /\ \/ /\ ~configured
              /\ Found(p, DryRun, FALSE)
              /\ UNCHANGED unseen
           \/ /\ configured /\ Readable(p, "contact", s)
              /\ known \notin {NoRow, DryRun}
              /\ Found(p, known, TRUE)
              /\ UNCHANGED unseen
           \/ /\ configured /\ Readable(p, "contact", s)
              /\ known \in {NoRow, DryRun}
              /\ \/ contacts[EmailOf[s]] > 0 /\ Found(p, One, FALSE) /\ UNCHANGED unseen
                 \/ /\ sync' = [sync EXCEPT ![p].step = "create"]
                    /\ unseen' = unseen \cup {e \in {EmailOf[s]} : contacts[e] > 0}
        /\ UNCHANGED <<status, contacts, deals, accounts, log, configured,
                       overlapped, strayed>>

CreateContact(p) ==
    LET e == EmailOf[sync[p].sub] IN
    /\ sync[p].step = "create"
    /\ \/ /\ contacts[e] < MaxRecords
          /\ contacts' = [contacts EXCEPT ![e] = @ + 1]
          /\ \/ Found(p, One, FALSE) /\ UNCHANGED overlapped
             \/ NextOne(p, sync[p].draft)          \* the answer is lost
       \/ /\ Found(p, Refused, FALSE)
          /\ UNCHANGED <<contacts, overlapped>>
    /\ UNCHANGED <<status, deals, accounts, log, configured, unseen, strayed>>

-----------------------------------------------------------------------------
(***************************************************************************)
(* The deal.                                                               *)
(***************************************************************************)
LogContactMutant(p) ==
    LET s == sync[p].sub
    IN  /\ sync[p].step = "log"
        /\ CanLog(p, "contact", s)
        /\ sync' = [sync EXCEPT ![p] =
             [step |-> "deal", sub |-> s, seen |-> @.seen, todo |-> @.todo,
              draft |-> AfterLog(p, "contact", s, @.contact, @.held),
              deal |-> NoRow, held |-> FALSE, taken |-> FALSE]]
        /\ UNCHANGED <<status, contacts, deals, accounts, log, configured,
                       overlapped, unseen, strayed>>

LogContact(p) ==
    LET s == sync[p].sub
        known == Find(p, "deal", s)
    IN  /\ sync[p].step = "log"
        /\ CanLog(p, "contact", s)
        /\ configured => Readable(p, "deal", s)
        /\ sync' = [sync EXCEPT ![p] =
             [step |-> IF configured THEN "deal" ELSE "commit",
              sub |-> s, seen |-> @.seen, todo |-> @.todo,
              draft |-> AfterLog(p, "contact", s, @.contact, @.held),
              deal |-> IF configured THEN known ELSE DryRun,
              held |-> configured /\ known \notin {NoRow, DryRun}, taken |-> FALSE]]
        /\ UNCHANGED <<status, contacts, deals, accounts, log, configured,
                       overlapped, unseen, strayed>>

UpdateDealMutant(p) ==
    /\ sync[p].step = "deal" /\ sync[p].held /\ sync[p].deal # Refused
    /\ deals' = [deals EXCEPT ![sync[p].deal].stage = StageOf("pending")]
    /\ sync' = [sync EXCEPT ![p].step = "commit", ![p].taken = TRUE]
    /\ UNCHANGED <<status, contacts, accounts, log, configured, overlapped,
                   unseen, strayed>>

UpdateDeal(p) ==
    /\ sync[p].step = "deal" /\ sync[p].held
    /\ \/ /\ sync[p].deal # Refused
          /\ deals' = [deals EXCEPT ![sync[p].deal].stage = StageOf(sync[p].seen)]
          /\ \/ /\ sync' = [sync EXCEPT ![p].step = "commit", ![p].taken = TRUE]
                /\ UNCHANGED overlapped
             \/ NextOne(p, sync[p].draft)       \* the answer is lost
       \/ /\ sync' = [sync EXCEPT ![p].step = "commit"]
          /\ UNCHANGED <<deals, overlapped>>
    /\ UNCHANGED <<status, contacts, accounts, log, configured, unseen, strayed>>

CreateDeal(p) ==
    LET s == sync[p].sub IN
    /\ sync[p].step = "deal" /\ ~sync[p].held
    /\ \/ /\ Len(deals) < MaxRecords
          /\ deals' = Append(deals, [sub |-> s, stage |-> StageOf(sync[p].seen)])
          /\ \/ /\ sync' = [sync EXCEPT ![p].step = "commit", ![p].taken = TRUE,
                                        ![p].deal = Len(deals) + 1]
                /\ UNCHANGED <<overlapped, strayed>>
             \/ /\ NextOne(p, sync[p].draft)       \* the answer is lost
                /\ strayed' = strayed \cup {s}
       \/ /\ sync' = [sync EXCEPT ![p].step = "commit", ![p].deal = Refused]
          /\ UNCHANGED <<deals, overlapped, strayed>>
    /\ UNCHANGED <<status, contacts, accounts, log, configured, unseen>>

\* The commit takes along what earlier subscriptions left flushed.
LogDeal(p) ==
    LET s == sync[p].sub IN
    /\ sync[p].step = "commit"
    /\ CanLog(p, "deal", s)
    /\ log' = Over(AfterLog(p, "deal", s, sync[p].deal, sync[p].held))
    /\ strayed' = strayed \cup {t \in {s} : ~configured /\ Find(p, "deal", s) > 0}
    /\ NextOne(p, {})
    /\ UNCHANGED <<status, contacts, deals, accounts, configured, unseen>>

-----------------------------------------------------------------------------
(***************************************************************************)
(* A company, once, after its insert.                                      *)
(***************************************************************************)
SyncCompany(p, c) ==
    /\ sync[p] = Asleep
    /\ status[c] = "none"
    /\ status' = [status EXCEPT ![c] = "active"]
    /\ \/ /\ configured
          /\ accounts' = [accounts EXCEPT ![c] = @ + 1]
          /\ sync' \in {sync, [sync EXCEPT ![p] = [step |-> "account", sub |-> c,
                                  draft |-> {}, contact |-> One]]}
       \/ /\ sync' = [sync EXCEPT ![p] = [step |-> "account", sub |-> c, draft |-> {},
                        contact |-> IF configured THEN Refused ELSE DryRun]]
          /\ UNCHANGED accounts
    /\ UNCHANGED <<contacts, deals, log, configured, overlapped, unseen, strayed>>

LogAccount(p) ==
    /\ sync[p].step = "account"
    /\ CanLog(p, "account", sync[p].sub)
    /\ log' = Over(AfterLog(p, "account", sync[p].sub, sync[p].contact, FALSE))
    /\ sync' = [sync EXCEPT ![p] = Asleep]
    /\ UNCHANGED <<status, contacts, deals, accounts, configured, overlapped, unseen,
                   strayed>>
-----------------------------------------------------------------------------
\* Deals that the log has never named, and no longer will.
InHand(p) == {s \in Sub : /\ sync[p].step = "commit" /\ sync[p].sub = s
                          /\ ~sync[p].held /\ sync[p].deal > 0}

\* An exception: of Zoho's client, or of a log with two rows.  It is caught and
\* counted, what was flushed stays in the session.
Fails(p) ==
    /\ \/ configured /\ sync[p].step \in {"look", "create", "deal"}
       \/ sync[p].step = "look" /\ ~Readable(p, "contact", sync[p].sub)
       \/ sync[p].step = "log" /\ ~(/\ Readable(p, "contact", sync[p].sub)
                                    /\ Readable(p, "deal", sync[p].sub))
       \/ sync[p].step = "commit" /\ ~Readable(p, "deal", sync[p].sub)
    /\ NextOne(p, sync[p].draft)
    /\ strayed' = strayed \cup InHand(p)
    /\ UNCHANGED <<status, contacts, deals, accounts, log, configured, unseen>>

\* The service restarts, perhaps with other settings.
Restart ==
    /\ sync' = [p \in Proc |-> Asleep]
    /\ configured' \in BOOLEAN
    /\ strayed' = strayed \cup UNION {InHand(p) : p \in Proc}
    /\ UNCHANGED <<status, contacts, deals, accounts, log, overlapped, unseen>>

CrmInit ==
    /\ status = [x \in Sub \cup Company |-> "none"]
    /\ contacts = [e \in Email |-> 0] /\ accounts = [c \in Company |-> 0]
    /\ deals = <<>>
    /\ log = {}
    /\ configured \in BOOLEAN
    /\ sync = [p \in Proc |-> Asleep]
    /\ overlapped = {} /\ unseen = {} /\ strayed = {}

SubscriptionsNext ==
    \/ \E p \in Proc :
         \/ \E s \in Sub : Subscribe(p, s)
         \/ SyncNow(p)
         \/ LookUp(p) \/ CreateContact(p) \/ LogContact(p)
         \/ UpdateDeal(p) \/ CreateDeal(p) \/ LogDeal(p)
         \/ Fails(p)
    \/ \E s \in Sub : Paid(s)
    \/ Restart

CompaniesNext ==
    \/ \E p \in Proc :
         \/ \E c \in Company : SyncCompany(p, c)
         \/ LogAccount(p)
    \/ Restart

-----------------------------------------------------------------------------
(***************************************************************************)
(* Properties.                                                             *)
(***************************************************************************)
CrmTypeOK ==
    /\ status \in [Sub \cup Company -> {"none", "incomplete", "active"}]
    /\ contacts \in [Email -> 0 .. MaxRecords] /\ accounts \in [Company -> 0 .. 1]
    /\ deals \in Seq([sub : Sub, stage : Stages])
    /\ \A row \in log : /\ row.number \in 1 .. MaxRows
                        /\ row.record \in Refused .. MaxRecords
                        /\ row.of \in IF row.kind = "account" THEN Company ELSE Sub
    /\ configured \in BOOLEAN
    /\ \A p \in Proc : sync[p].step = "idle" => sync[p] = Asleep

\* No two requests worked on the subscription at once.
Alone(s) == s \notin overlapped

(***************************************************************************)
(* The log keeps one row per kind and local row, unless two requests       *)
(* worked on the subscription at once.  A second row makes every later     *)
(* synchronisation of the subscription fail.                               *)
(***************************************************************************)
LogOnce ==
    \A r1, r2 \in log :
        r1.kind = r2.kind /\ r1.of = r2.of /\ (r1.of \in Sub => Alone(r1.of)) => r1 = r2

(***************************************************************************)
(* The search by e-mail keeps one contact per owner, through restarts,     *)
(* lost answers and dry runs, unless requests for the owner overlap or a   *)
(* search does not return the contact.                                     *)
(***************************************************************************)
ContactOnce ==
    \A e \in Email \ (overlapped \cup unseen) : contacts[e] <= 1

(***************************************************************************)
(* A subscription has one deal at Zoho, unless requests overlap or the log *)
(* never came to name a deal: its answer was lost, the service restarted   *)
(* before the commit, or a dry run wrote over it.                          *)
(***************************************************************************)
DealOnce ==
    \A d1, d2 \in DOMAIN deals :
        deals[d1].sub = deals[d2].sub /\ Alone(deals[d1].sub) /\ deals[d1].sub \notin strayed
            => d1 = d2

(***************************************************************************)
(* A synchronisation that Zoho accepted leaves a log that names a deal of  *)
(* the subscription at the stage of the status it read.                    *)
(***************************************************************************)
SyncedDealIsCurrent ==
    [][\A p \in Proc :
         LogDeal(p) /\ sync[p].taken /\ Alone(sync[p].sub) =>
            \E row \in log' :
                /\ row.kind = "deal" /\ row.of = sync[p].sub /\ row.record > 0
                /\ deals'[row.record].sub = sync[p].sub
                /\ deals'[row.record].stage = StageOf(sync[p].seen)]_crmVars

(***************************************************************************)
(* A deal that is won does not go back to qualification, unless the slow   *)
(* first synchronisation of its subscription is overtaken by sync_now.     *)
(***************************************************************************)
WonDealStaysWon ==
    [][\A d \in DOMAIN deals :
         deals[d].stage = "Closed Won" /\ deals'[d].stage # "Closed Won"
            => ~Alone(deals[d].sub)]_crmVars
=============================================================================
