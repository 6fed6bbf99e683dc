---------------------------- MODULE Subscriptions ----------------------------
(***************************************************************************)
(* The retail subscriptions of module F: the customer's endpoints of       *)
(* subscription_controller.py, the webhooks of stripe_webhook_controller   *)
(* .py, and Stripe, which both talk to.  The call to Zoho that ends the    *)
(* create request touches none of this; module Crm has it.                 *)
(*                                                                         *)
(* A Proc is a request being served, by whichever replica of the service:  *)
(* requests share the database and Stripe and nothing else.  Each action   *)
(* below is a stretch with one statement, one commit or one call whose     *)
(* outcome the others can see, and the next one starts from it.            *)
(*                                                                         *)
(* Stripe knows a customer by e-mail address, which is not the user: one   *)
(* address may belong to two users (it is unique within a realm and among  *)
(* the users not deleted, and restoring one does not check), and an        *)
(* administrator may change a user's address, and change it back.  So a    *)
(* request may find its user with any address the user ever has.           *)
(***************************************************************************)
EXTENDS Integers, FiniteSets

CONSTANTS
    User,          \* customers
    Email,         \* e-mail addresses
    EmailsOf,      \* the addresses each user has at one time or another
    Proc,          \* requests that may be in progress at a time
    None,          \* no referrer, no user, no address
    MaxRows,       \* bound: rows of the table subscriptions
    MaxCustomers,  \* bound: customers at Stripe
    MaxEvents,     \* bound: webhook events Stripe has outstanding
    Failures       \* whether calls to Stripe fail and requests die

ASSUME BoundsAssumption == /\ MaxRows \in Nat /\ MaxCustomers \in Nat
                           /\ MaxEvents \in Nat
ASSUME EmailsAssumption == EmailsOf \in [User -> SUBSET Email]
ASSUME NoneAssumption   == None \notin User \cup Email

RowId      == 1 .. MaxRows
CustomerId == 1 .. MaxCustomers

VARIABLES
    rows,         \* the table subscriptions, by id
    commissions,  \* how many rows referral_commissions has for each of them
    stripe,       \* Stripe's customers, each with its one subscription
    sessions,     \* rows whose Stripe Checkout page is open
    events,       \* webhook events Stripe still wants to deliver
    tried,        \* those among them that were answered with an error
    request       \* what each request is doing

vars == <<rows, commissions, stripe, sessions, events, tried, request>>

Live         == {"active", "past_due"}
RowStatus    == {"pending", "incomplete", "cancelled"} \cup Live
StripeStatus == {"none", "incomplete", "active", "past_due", "unpaid", "canceled"}

\* sub is stripe_subscription_id, by the customer who has it; 0 is NULL.
Row      == [user : User \cup {None}, status : RowStatus \cup {"absent"},
             sub : {0} \cup CustomerId, ref : User \cup {None}]
\* was: what ever happened to the subscription.
Customer == [email : Email \cup {None}, status : StripeStatus,
             was : SUBSET {"paid", "failed"}]
Event    == [type : {"paid", "failed", "updated", "deleted"},
             sub : CustomerId, status : StripeStatus]

NoRow      == [user |-> None, status |-> "absent", sub |-> 0, ref |-> None]
NoCustomer == [email |-> None, status |-> "none", was |-> {}]

(***************************************************************************)
(* A request keeps what it has read.  seen is the status its session       *)
(* loaded and next the one it is to write; count is the number of          *)
(* commissions in the session's snapshot, Fresh when a commit closed it.   *)
(***************************************************************************)
Fresh   == -1
Idle    == [step |-> "idle"]
Request ==
    {Idle}
    \cup [step : {"create", "checkout"}, user : User, ref : User \cup {None}]
    \cup [step : {"created"}, user : User, ref : User \cup {None}, sub : CustomerId]
    \cup [step : {"commission", "session", "insert", "cancelled"}, row : RowId]
    \cup [step : {"link"}, row : RowId, seen : RowStatus]
    \cup [step : {"linked"}, row : RowId, seen : RowStatus, sub : CustomerId]
    \cup [step : {"retrieve"}, row : RowId, seen : RowStatus, sub : CustomerId,
          count : Nat \cup {Fresh}]
    \cup [step : {"save"}, row : RowId, seen : RowStatus, next : RowStatus]
    \cup [step : {"check"}, row : RowId, seen : RowStatus, count : Nat \cup {Fresh}]
    \cup [step : {"cancel"}, row : RowId, sub : {0} \cup CustomerId]
    \cup [step : {"hook"}, row : RowId, seen : RowStatus, next : RowStatus,
          event : Event]

Init ==
    /\ rows = [r \in RowId |-> NoRow]
    /\ commissions = [r \in RowId |-> 0]
    /\ stripe = [c \in CustomerId |-> NoCustomer]
    /\ sessions = {}
    /\ events = {}
    /\ tried = {}
    /\ request = [p \in Proc |-> Idle]

-----------------------------------------------------------------------------
At(p, step) == request[p].step = step
Go(p, to)   == request' = [request EXCEPT ![p] = to]
Answer(p)   == Go(p, Idle)

Exists(r)   == rows[r].status # "absent"
LiveRows(u) == {r \in RowId : rows[r].user = u /\ rows[r].status \in Live}
IsNextRow(r) == ~Exists(r) /\ \A q \in 1 .. (r - 1) : Exists(q)
IsLatest(r, u) == /\ rows[r].user = u
                  /\ \A q \in RowId : rows[q].user = u => q <= r

\* The owner of a referral code is whoever has a row; nobody checks that it
\* is somebody else.
Referrers == {None} \cup {rows[r].user : r \in {q \in RowId : Exists(q)}}

IsNextCustomer(c) == /\ stripe[c].email = None
                     /\ \A k \in 1 .. (c - 1) : stripe[k].email # None
IsNewestMutant(c, e) == /\ stripe[c].email # None
                        /\ \A k \in CustomerId : stripe[k].email # None => k <= c
\* Customer.list(email=..., limit=1): the newest one, whoever it is.
IsNewest(c, e)    == /\ stripe[c].email = e
                     /\ \A k \in CustomerId : stripe[k].email = e => k <= c

\* The ORM writes a column only when it differs from what was loaded.
WriteStatus(r, seen, next) ==
    rows' = IF next = seen THEN rows ELSE [rows EXCEPT ![r].status = next]

-----------------------------------------------------------------------------
(***************************************************************************)
(* POST /customer/subscription/create                                      *)
(***************************************************************************)
CreateCheck(p, u, ref) ==
    /\ At(p, "idle")
    /\ LiveRows(u) = {}
    /\ ref \in Referrers
    /\ Go(p, [step |-> "create", user |-> u, ref |-> ref])
    /\ UNCHANGED <<rows, commissions, stripe, sessions, events, tried>>

\* Customer.create, then Subscription.create; the first may be all there is.
CreateAtStripe(p, c, e, ok) ==
    /\ At(p, "create")
    /\ e \in EmailsOf[request[p].user]
    /\ IsNextCustomer(c)
    /\ Failures \/ ok
    /\ stripe' = [stripe EXCEPT ![c] =
                    [email |-> e, status |-> IF ok THEN "incomplete" ELSE "none",
                     was |-> {}]]
    /\ IF ok THEN Go(p, [step |-> "created", user |-> request[p].user,
                         ref |-> request[p].ref, sub |-> c])
             ELSE Answer(p)
    /\ UNCHANGED <<rows, commissions, sessions, events, tried>>

CreateRow(p, r) ==
    /\ At(p, "created")
    /\ IsNextRow(r)
    /\ rows' = [rows EXCEPT ![r] =
                  [user |-> request[p].user, status |-> "incomplete",
                   sub |-> request[p].sub, ref |-> request[p].ref]]
    /\ IF request[p].ref = None
       THEN Answer(p)
       ELSE Go(p, [step |-> "commission", row |-> r])
    /\ UNCHANGED <<commissions, stripe, sessions, events, tried>>

CreateCommission(p) ==
    /\ At(p, "commission")
    /\ commissions' = [commissions EXCEPT ![request[p].row] = @ + 1]
    /\ Answer(p)
    /\ UNCHANGED <<rows, stripe, sessions, events, tried>>

(***************************************************************************)
(* POST /customer/subscription/checkout                                    *)
(***************************************************************************)
CheckoutCheck(p, u, ref) ==
    /\ At(p, "idle")
    /\ LiveRows(u) = {}
    /\ ref \in Referrers
    /\ Go(p, [step |-> "checkout", user |-> u, ref |-> ref])
    /\ UNCHANGED <<rows, commissions, stripe, sessions, events, tried>>

CheckoutRow(p, r) ==
    /\ At(p, "checkout")
    /\ IsNextRow(r)
    /\ rows' = [rows EXCEPT ![r] =
                  [user |-> request[p].user, status |-> "pending", sub |-> 0,
                   ref |-> request[p].ref]]
    /\ Go(p, [step |-> "session", row |-> r])
    /\ UNCHANGED <<commissions, stripe, sessions, events, tried>>

CheckoutSession(p) ==
    /\ At(p, "session")
    /\ sessions' = sessions \cup {request[p].row}
    /\ Answer(p)
    /\ UNCHANGED <<rows, commissions, stripe, events, tried>>

-----------------------------------------------------------------------------
(***************************************************************************)
(* POST /customer/subscription/sync                                        *)
(***************************************************************************)
SyncRead(p, u, r) ==
    /\ At(p, "idle")
    /\ IsLatest(r, u)
    /\ Go(p, IF rows[r].sub = 0
             THEN [step |-> "link", row |-> r, seen |-> rows[r].status]
             ELSE [step |-> "retrieve", row |-> r, seen |-> rows[r].status,
                   sub |-> rows[r].sub, count |-> commissions[r]])
    /\ UNCHANGED <<rows, commissions, stripe, sessions, events, tried>>

\* Subscription.list leaves cancelled subscriptions out.  With nothing to link
\* the row has no status to synchronise and, not being active, no commission.
SyncLink(p, c, e) ==
    /\ At(p, "link")
    /\ e \in EmailsOf[rows[request[p].row].user]
    /\ IsNewest(c, e)
    /\ stripe[c].status \notin {"none", "canceled"}
    /\ Go(p, [step |-> "linked", row |-> request[p].row, sub |-> c,
              seen |-> request[p].seen])
    /\ UNCHANGED <<rows, commissions, stripe, sessions, events, tried>>

SyncNothing(p) ==
    /\ At(p, "link")
    /\ \E e \in EmailsOf[rows[request[p].row].user] : \A c \in CustomerId :
           IsNewest(c, e) => stripe[c].status \in {"none", "canceled"}
    /\ Answer(p)
    /\ UNCHANGED <<rows, commissions, stripe, sessions, events, tried>>

SyncSaveLink(p) ==
    /\ At(p, "linked")
    /\ rows' = [rows EXCEPT ![request[p].row].sub = request[p].sub]
    /\ Go(p, [step |-> "retrieve", row |-> request[p].row, sub |-> request[p].sub,
              seen |-> request[p].seen, count |-> Fresh])
    /\ UNCHANGED <<commissions, stripe, sessions, events, tried>>

SyncStatusRawMutant(status, seen) == status
SyncStatusEagerMutant(status, seen) ==
    CASE status \in {"active", "incomplete"} -> "active"
      [] status = "past_due"                -> "past_due"
      [] status = "canceled"                -> "cancelled"
      [] OTHER                              -> seen

SyncStatus(status, seen) ==
    CASE status = "active"     -> "active"
      [] status = "past_due"   -> "past_due"
      [] status = "canceled"   -> "cancelled"
      [] status = "incomplete" -> "pending"
      [] OTHER                 -> seen

SyncRetrieve(p) ==
    /\ At(p, "retrieve")
    /\ Go(p, [step |-> "save", row |-> request[p].row, seen |-> request[p].seen,
              next |-> SyncStatus(stripe[request[p].sub].status, request[p].seen)])
    /\ UNCHANGED <<rows, commissions, stripe, sessions, events, tried>>

\* StripeError is passed over; the session goes on with what it loaded.
SyncRetrieveFails(p) ==
    /\ Failures
    /\ At(p, "retrieve")
    /\ Go(p, [step |-> "check", row |-> request[p].row, seen |-> request[p].seen,
              count |-> request[p].count])
    /\ UNCHANGED <<rows, commissions, stripe, sessions, events, tried>>

SyncSave(p) ==
    /\ At(p, "save")
    /\ WriteStatus(request[p].row, request[p].seen, request[p].next)
    /\ Go(p, [step |-> "check", row |-> request[p].row, seen |-> request[p].next,
              count |-> Fresh])
    /\ UNCHANGED <<commissions, stripe, sessions, events, tried>>

SyncCheckMutant(p) ==
    /\ At(p, "check")
    /\ IF request[p].seen = "active" /\ rows[request[p].row].ref # None
       THEN Go(p, [step |-> "insert", row |-> request[p].row])
       ELSE Answer(p)
    /\ UNCHANGED <<rows, commissions, stripe, sessions, events, tried>>

\* Two commissions make the query raise, which answers as well.  The query sees
\* the table as it is (PostgreSQL, which common/config.py connects to) or as it
\* was when the transaction began (MariaDB, which the deployment starts).
SyncCheck(p) ==
    /\ At(p, "check")
    /\ LET r == request[p].row
       IN  \E n \in {commissions[r], request[p].count} \ {Fresh} :
             IF request[p].seen = "active" /\ rows[r].ref # None /\ n = 0
             THEN Go(p, [step |-> "insert", row |-> r])
             ELSE Answer(p)
    /\ UNCHANGED <<rows, commissions, stripe, sessions, events, tried>>

SyncInsert(p) ==
    /\ At(p, "insert")
    /\ commissions' = [commissions EXCEPT ![request[p].row] = @ + 1]
    /\ Answer(p)
    /\ UNCHANGED <<rows, stripe, sessions, events, tried>>

-----------------------------------------------------------------------------
(***************************************************************************)
(* Stripe's side: payments, cancellations, and the events they cause.      *)
(***************************************************************************)
Of(type, c, status) == [type |-> type, sub |-> c, status |-> status]

Emit(new) ==
    /\ events' = events \cup new
    /\ tried' = tried \ new
    /\ Cardinality(events \cup new) <= MaxEvents

Happens(c, status, what) ==
    stripe' = [stripe EXCEPT ![c] = [email |-> stripe[c].email, status |-> status,
                                     was |-> stripe[c].was \cup what]]

Updated(c, status) ==
    IF stripe[c].status = status THEN {} ELSE {Of("updated", c, status)}

Pay(c) ==
    /\ stripe[c].status \in {"incomplete", "active", "past_due", "unpaid"}
    /\ Happens(c, "active", {"paid"})
    /\ Emit({Of("paid", c, "active")} \cup Updated(c, "active"))
    /\ UNCHANGED <<rows, commissions, sessions, request>>

FailPay(c, status) ==
    /\ <<stripe[c].status, status>> \in
         {<<"incomplete", "incomplete">>, <<"active", "past_due">>,
          <<"past_due", "past_due">>, <<"past_due", "unpaid">>}
    /\ Happens(c, status, {"failed"})
    /\ Emit({Of("failed", c, status)} \cup Updated(c, status))
    /\ UNCHANGED <<rows, commissions, sessions, request>>

\* From Stripe's dashboard, its customer portal or its dunning settings.
CancelAtStripe(c) ==
    /\ stripe[c].status \notin {"none", "canceled"}
    /\ Happens(c, "canceled", {})
    /\ Emit({Of("deleted", c, "canceled")})
    /\ UNCHANGED <<rows, commissions, sessions, request>>

\* The customer pays on the Checkout page, which makes a customer of its own.
CompleteCheckout(r, c, e) ==
    /\ r \in sessions
    /\ e \in EmailsOf[rows[r].user]
    /\ IsNextCustomer(c)
    /\ sessions' = sessions \ {r}
    /\ stripe' = [stripe EXCEPT ![c] = [email |-> e, status |-> "active",
                                        was |-> {"paid"}]]
    /\ Emit({Of("paid", c, "active")})
    /\ UNCHANGED <<rows, commissions, request>>

-----------------------------------------------------------------------------
(***************************************************************************)
(* POST /customer/subscription/cancel                                      *)
(***************************************************************************)
CancelRead(p, u, r) ==
    /\ At(p, "idle")
    /\ LiveRows(u) = {r}
    /\ Go(p, [step |-> "cancel", row |-> r, sub |-> rows[r].sub])
    /\ UNCHANGED <<rows, commissions, stripe, sessions, events, tried>>

CancelSubscription(p) ==
    /\ At(p, "cancel")
    /\ \E c \in CustomerId :
         /\ c = request[p].sub
         /\ stripe[c].status \notin {"none", "canceled"}
         /\ Happens(c, "canceled", {})
         /\ Emit({Of("deleted", c, "canceled")})
    /\ Go(p, [step |-> "cancelled", row |-> request[p].row])
    /\ UNCHANGED <<rows, commissions, sessions>>

\* contextlib.suppress(stripe.StripeError): Stripe is unreachable, or says that
\* the subscription is cancelled already.
CancelSuppressed(p) ==
    /\ At(p, "cancel")
    /\ \/ Failures
       \/ request[p].sub = 0
       \/ \E c \in CustomerId : c = request[p].sub /\ stripe[c].status = "canceled"
    /\ Go(p, [step |-> "cancelled", row |-> request[p].row])
    /\ UNCHANGED <<rows, commissions, stripe, sessions, events, tried>>

CancelSave(p) ==
    /\ At(p, "cancelled")
    /\ rows' = [rows EXCEPT ![request[p].row].status = "cancelled"]
    /\ Answer(p)
    /\ UNCHANGED <<commissions, stripe, sessions, events, tried>>

-----------------------------------------------------------------------------
(***************************************************************************)
(* POST /webhooks/stripe                                                   *)
(***************************************************************************)
RowsOf(c) == {r \in RowId : rows[r].sub = c}

HookStatusMutant(e, seen) ==
    CASE e.type = "paid"    -> "active"
      [] e.type = "failed"  -> "past_due"
      [] e.type = "deleted" -> "cancelled"
      [] e.type = "updated" ->
           CASE e.status = "active"               -> "active"
             [] e.status = "past_due"             -> "past_due"
             [] e.status \in {"unpaid", "canceled"} -> "cancelled"
             [] OTHER                             -> seen

HookStatus(e, seen) ==
    CASE e.type = "paid"    -> "active"
      [] e.type = "failed"  -> "past_due"
      [] e.type = "deleted" -> "cancelled"
      [] e.type = "updated" ->
           CASE e.status = "active"               -> "active"
             [] e.status \in {"past_due", "unpaid"} -> "past_due"
             [] e.status = "canceled"             -> "cancelled"
             [] OTHER                             -> seen

Hook(p, e, r) ==
    /\ At(p, "idle")
    /\ RowsOf(e.sub) = {r}
    /\ Go(p, [step |-> "hook", row |-> r, seen |-> rows[r].status,
              next |-> HookStatus(e, rows[r].status), event |-> e])
    /\ UNCHANGED <<rows, commissions, stripe, sessions, events, tried>>

\* The answer is 200 and Stripe forgets the event.
HookUnknown(p, e) ==
    /\ At(p, "idle")
    /\ RowsOf(e.sub) = {}
    /\ events' = events \ {e}
    /\ tried' = tried \ {e}
    /\ UNCHANGED <<rows, commissions, stripe, sessions, request>>

\* scalar_one_or_none raises MultipleResultsFound: the answer is 500.
HookAmbiguous(p, e) ==
    /\ At(p, "idle")
    /\ Cardinality(RowsOf(e.sub)) > 1
    /\ tried' = tried \cup {e}
    /\ UNCHANGED <<rows, commissions, stripe, sessions, events, request>>

(***************************************************************************)
(* The status is committed.  Then, except for "updated", Audit.log is      *)
(* called with the session in the place of the action and raises           *)
(* TypeError: the answer is 500, Stripe will try again, and the stage of   *)
(* the deal is never reached.                                              *)
(***************************************************************************)
HookSave(p) ==
    LET e == request[p].event
    IN  /\ At(p, "hook")
        /\ WriteStatus(request[p].row, request[p].seen, request[p].next)
        /\ IF e.type = "updated"
           THEN events' = events \ {e} /\ tried' = tried \ {e}
           ELSE events' = events /\ tried' = tried \cup ({e} \cap events)
        /\ Answer(p)
        /\ UNCHANGED <<commissions, stripe, sessions>>

\* After days of retries.
GiveUp(e) ==
    /\ e \in tried
    /\ events' = events \ {e}
    /\ tried' = tried \ {e}
    /\ UNCHANGED <<rows, commissions, stripe, sessions, request>>

-----------------------------------------------------------------------------
\* Stripe or the database refuses a call, or the process is restarted.
Abandon(p) ==
    /\ Failures
    /\ ~At(p, "idle")
    /\ Answer(p)
    /\ UNCHANGED <<rows, commissions, stripe, sessions, events, tried>>

Create(p) ==
    \/ \E u \in User, ref \in User \cup {None} : CreateCheck(p, u, ref)
    \/ \E c \in CustomerId, e \in Email, ok \in BOOLEAN : CreateAtStripe(p, c, e, ok)
    \/ \E r \in RowId : CreateRow(p, r)
    \/ CreateCommission(p)

Checkout(p) ==
    \/ \E u \in User, ref \in User \cup {None} : CheckoutCheck(p, u, ref)
    \/ \E r \in RowId : CheckoutRow(p, r)
    \/ CheckoutSession(p)

Sync(p) ==
    \/ \E u \in User, r \in RowId : SyncRead(p, u, r)
    \/ \E c \in CustomerId, e \in Email : SyncLink(p, c, e)
    \/ SyncNothing(p)
    \/ SyncSaveLink(p)
    \/ SyncRetrieve(p)
    \/ SyncRetrieveFails(p)
    \/ SyncSave(p)
    \/ SyncCheck(p)
    \/ SyncInsert(p)

Cancel(p) ==
    \/ \E u \in User, r \in RowId : CancelRead(p, u, r)
    \/ CancelSubscription(p)
    \/ CancelSuppressed(p)
    \/ CancelSave(p)

Webhook(p) ==
    \/ \E e \in events : \/ \E r \in RowId : Hook(p, e, r)
                         \/ HookUnknown(p, e)
                         \/ HookAmbiguous(p, e)
    \/ HookSave(p)

Stripe ==
    \/ \E c \in CustomerId :
         \/ Pay(c)
         \/ \E status \in {"incomplete", "past_due", "unpaid"} : FailPay(c, status)
         \/ CancelAtStripe(c)
         \/ \E r \in RowId, e \in Email : CompleteCheckout(r, c, e)
    \/ \E e \in events : GiveUp(e)

Next ==
    \/ \E p \in Proc : Create(p) \/ Checkout(p) \/ Sync(p) \/ Cancel(p)
                       \/ Webhook(p) \/ Abandon(p)
    \/ Stripe

Spec == Init /\ [][Next]_vars

-----------------------------------------------------------------------------
TypeOK ==
    /\ rows \in [RowId -> Row]
    /\ commissions \in [RowId -> Nat]
    /\ stripe \in [CustomerId -> Customer]
    /\ sessions \subseteq RowId
    /\ events \subseteq Event
    /\ tried \subseteq events
    /\ request \in [Proc -> Request]

(***************************************************************************)
(* Nobody is covered for nothing: a row is active only if some invoice     *)
(* under an address of its user was paid, and past due only if some        *)
(* payment under one failed, however requests, late and repeated events    *)
(* and stale reads interleave.  It is not always the user who paid: with a *)
(* shared address sync may link the other user's subscription.             *)
(***************************************************************************)
Theirs(c, u) == stripe[c].email \in EmailsOf[u]

Ever(u, what) == \E c \in CustomerId : Theirs(c, u) /\ what \in stripe[c].was

Cause(u, status) == /\ status = "active" => Ever(u, "paid")
                    /\ status = "past_due" => Ever(u, "failed")

StatusHasCause == \A r \in RowId : Cause(rows[r].user, rows[r].status)

\* A row is only ever linked to a subscription under an address that its user
\* has had, whoever of those who share the address bought it: a link read for
\* one row is not saved to another, and no sync takes the newest customer of
\* somebody else, while requests of several users are in progress.
LinkedByAddress ==
    \A r \in RowId : rows[r].sub # 0 => Theirs(rows[r].sub, rows[r].user)

\* As long as a user's requests come one after another, that payment or failure
\* is one of the very subscription the row is linked to, dropped calls to Stripe
\* and half-done requests included.
StatusHasLinkedCause ==
    \A r \in RowId :
        LET c == rows[r].sub
        IN  /\ rows[r].status = "active" => c # 0 /\ "paid" \in stripe[c].was
            /\ rows[r].status = "past_due" => c # 0 /\ "failed" \in stripe[c].was

\* A referred subscription earns its referrer one commission: whichever of
\* create and sync pays it, requests that died half-way included.
CommissionOnce == \A r \in RowId : commissions[r] <= 1

(***************************************************************************)
(* A row linked to a subscription that Stripe still charges becomes        *)
(* cancelled by the customer's own cancel request only, whose errors from  *)
(* Stripe are suppressed: no late or repeated webhook and no sync with a   *)
(* stale answer ends the cover of somebody who goes on paying.             *)
(***************************************************************************)
OnlyCancelDropsALiveSubscription ==
    [][\A r \in RowId :
         /\ rows[r].status # "cancelled"
         /\ rows'[r].status = "cancelled"
         /\ rows'[r].sub # 0
         /\ stripe[rows'[r].sub].status # "canceled"
         => \E p \in Proc : At(p, "cancelled") /\ request[p].row = r]_vars

(***************************************************************************)
(* The inductive invariant of StatusHasCause and LinkedByAddress.          *)
(* Everything that will be written into a row later has its cause already: *)
(* what Stripe says now, what its outstanding events say, and what the     *)
(* requests in progress have read of either.                               *)
(***************************************************************************)
RowsOK ==
    /\ \A r \in RowId : IF Exists(r) THEN rows[r].user \in User
                                     ELSE rows[r] = NoRow
    /\ \A r \in sessions : Exists(r)
    /\ \A p \in Proc : \A r \in RowId :
         /\ request[p].step \notin {"idle", "create", "checkout", "created"}
         /\ request[p].row = r
         => Exists(r)

CustomerHasCause(c) ==
    /\ stripe[c].status = "active" => "paid" \in stripe[c].was
    /\ stripe[c].status \in {"past_due", "unpaid"} => "failed" \in stripe[c].was
    /\ stripe[c].email = None => stripe[c].status = "none"

EventHasCause(e) ==
    /\ stripe[e.sub].email # None
    /\ e.type = "paid" => "paid" \in stripe[e.sub].was
    /\ e.type = "failed" => "failed" \in stripe[e.sub].was
    /\ e.type = "updated" =>
         /\ e.status = "active" => "paid" \in stripe[e.sub].was
         /\ e.status \in {"past_due", "unpaid"} => "failed" \in stripe[e.sub].was

RequestHasCause(q) ==
    /\ q.step = "created" => Theirs(q.sub, q.user)
    /\ q.step \in {"linked", "retrieve"} => Theirs(q.sub, rows[q.row].user)
    /\ q.step \in {"link", "linked", "retrieve", "save", "check", "hook"} =>
         Cause(rows[q.row].user, q.seen)
    /\ q.step \in {"save", "hook"} => Cause(rows[q.row].user, q.next)

BillingInvariant ==
    /\ StatusHasCause
    /\ LinkedByAddress
    /\ RowsOK
    /\ \A c \in CustomerId : CustomerHasCause(c)
    /\ \A e \in events : EventHasCause(e)
    /\ \A p \in Proc : RequestHasCause(request[p])

-----------------------------------------------------------------------------
(***************************************************************************)
(* What the repository says of the program, and the program does not do.   *)
(***************************************************************************)

\* Every event was delivered and no request is in progress.
Quiet == events = tried /\ \A p \in Proc : At(p, "idle")

\* stripe_webhook_controller.py:34: "customer.subscription.deleted →
\* subscription status = cancelled".
DeletedIsCancelled ==
    Quiet => \A r \in RowId :
        rows[r].sub # 0 /\ stripe[rows[r].sub].status = "canceled"
        => rows[r].status = "cancelled"
=============================================================================
