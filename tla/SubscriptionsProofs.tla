------------------------- MODULE SubscriptionsProofs -------------------------
(***************************************************************************)
(* Theorems about Subscriptions, for any customers and any requests: its   *)
(* types, that nobody is covered for nothing, and what requests that keep  *)
(* apart may rely on.                                                      *)
(***************************************************************************)
EXTENDS Subscriptions, TLAPS

\* What a request holds at each step: the fields its record has there.
LEMMA Shapes ==
    ASSUME NEW q \in Request
    PROVE  /\ q.step \in {"create", "checkout", "created"} =>
                /\ q.user \in User
                /\ q.ref \in User \cup {None}
           /\ q.step \in {"created", "linked", "retrieve"} => q.sub \in CustomerId
           /\ q.step \notin {"idle", "create", "checkout", "created"} =>
                q.row \in RowId
           /\ q.step \in {"link", "linked", "retrieve", "save", "check", "hook"} =>
                q.seen \in RowStatus
           /\ q.step \in {"save", "hook"} => q.next \in RowStatus
           /\ q.step \in {"retrieve", "check"} => q.count \in Nat \cup {Fresh}
           /\ q.step = "hook" => q.event \in Event
    BY DEF Request, Idle

\* Every record a request is set to by an action has one of those shapes.
LEMMA Requests ==
    /\ Idle \in Request
    /\ \A u \in User, ref \in User \cup {None} :
         /\ [step |-> "create", user |-> u, ref |-> ref] \in Request
         /\ [step |-> "checkout", user |-> u, ref |-> ref] \in Request
         /\ \A c \in CustomerId :
              [step |-> "created", user |-> u, ref |-> ref, sub |-> c] \in Request
    /\ \A s \in {"commission", "session", "insert", "cancelled"},
          r \in RowId :
         [step |-> s, row |-> r] \in Request
    /\ \A r \in RowId, x \in RowStatus :
         /\ [step |-> "link", row |-> r, seen |-> x] \in Request
         /\ \A c \in CustomerId :
              /\ [step |-> "linked", row |-> r, sub |-> c, seen |-> x] \in Request
              /\ \A n \in Nat \cup {Fresh} :
                   [step |-> "retrieve", row |-> r, seen |-> x, sub |-> c,
                    count |-> n] \in Request
         /\ \A y \in RowStatus :
              /\ [step |-> "save", row |-> r, seen |-> x, next |-> y] \in Request
              /\ \A e \in Event :
                   [step |-> "hook", row |-> r, seen |-> x, next |-> y,
                    event |-> e] \in Request
         /\ \A n \in Nat \cup {Fresh} :
              [step |-> "check", row |-> r, seen |-> x, count |-> n] \in Request
    /\ \A r \in RowId, c \in {0} \cup CustomerId :
         [step |-> "cancel", row |-> r, sub |-> c] \in Request
    BY DEF Request, Idle

LEMMA GoTypes ==
    ASSUME request \in [Proc -> Request], NEW p \in Proc, NEW q \in Request,
           Go(p, q)
    PROVE  request' \in [Proc -> Request]
    BY DEF Go

LEMMA AnswerTypes ==
    ASSUME request \in [Proc -> Request], NEW p \in Proc, Answer(p)
    PROVE  request' \in [Proc -> Request]
    BY Requests, GoTypes DEF Answer

LEMMA StatusTypes ==
    /\ \A status \in StripeStatus, seen \in RowStatus :
         SyncStatus(status, seen) \in RowStatus
    /\ \A e \in Event, seen \in RowStatus : HookStatus(e, seen) \in RowStatus
    BY DEF SyncStatus, HookStatus, RowStatus, Live, StripeStatus, Event

LEMMA WriteStatusTypes ==
    ASSUME rows \in [RowId -> Row], NEW r \in RowId, NEW seen \in RowStatus,
           NEW next \in RowStatus, WriteStatus(r, seen, next)
    PROVE  rows' \in [RowId -> Row]
    BY DEF WriteStatus, Row

LEMMA EmitTypes ==
    ASSUME events \subseteq Event, tried \subseteq events,
           NEW new \in SUBSET Event, Emit(new)
    PROVE  events' \subseteq Event /\ tried' \subseteq events'
    BY DEF Emit

LEMMA HappensTypes ==
    ASSUME stripe \in [CustomerId -> Customer], NEW c \in CustomerId,
           NEW status \in StripeStatus, NEW what \in SUBSET {"paid", "failed"},
           Happens(c, status, what)
    PROVE  stripe' \in [CustomerId -> Customer]
    BY DEF Happens, Customer

LEMMA OfTypes ==
    /\ \A type \in {"paid", "failed", "updated", "deleted"}, c \in CustomerId,
          status \in StripeStatus : Of(type, c, status) \in Event
    /\ \A c \in CustomerId, status \in StripeStatus : Updated(c, status) \subseteq Event
    BY DEF Of, Event, Updated

LEMMA CreateTypes ==
    ASSUME TypeOK, NEW p \in Proc, Create(p) PROVE TypeOK'
<1>1. request[p] \in Request
    BY DEF TypeOK
<1>2. ASSUME NEW u \in User, NEW ref \in User \cup {None}, CreateCheck(p, u, ref)
      PROVE  TypeOK'
    BY <1>2, Requests, GoTypes DEF TypeOK, CreateCheck
<1>3. ASSUME NEW c \in CustomerId, NEW a \in Email, NEW ok \in BOOLEAN,
             CreateAtStripe(p, c, a, ok)
      PROVE  TypeOK'
  <2>1. request[p].user \in User /\ request[p].ref \in User \cup {None}
    BY <1>1, <1>3, Shapes DEF CreateAtStripe, At
  <2>2. request' \in [Proc -> Request]
    BY <1>3, <2>1, Requests, GoTypes, AnswerTypes DEF TypeOK, CreateAtStripe
  <2>3. stripe' \in [CustomerId -> Customer]
    BY <1>3, <2>1 DEF TypeOK, CreateAtStripe, Customer, StripeStatus
  <2>4. QED
    BY <1>3, <2>2, <2>3 DEF TypeOK, CreateAtStripe
<1>4. ASSUME NEW r \in RowId, CreateRow(p, r)
      PROVE  TypeOK'
  <2>1. /\ request[p].user \in User
        /\ request[p].ref \in User \cup {None}
        /\ request[p].sub \in CustomerId
    BY <1>1, <1>4, Shapes DEF CreateRow, At
  <2>2. request' \in [Proc -> Request]
    BY <1>4, <2>1, Requests, GoTypes, AnswerTypes DEF TypeOK, CreateRow
  <2>3. rows' \in [RowId -> Row]
    BY <1>4, <2>1 DEF TypeOK, CreateRow, Row, RowStatus
  <2>4. QED
    BY <1>4, <2>2, <2>3 DEF TypeOK, CreateRow
<1>5. ASSUME CreateCommission(p)
      PROVE  TypeOK'
  <2>1. request[p].row \in RowId
    BY <1>1, <1>5, Shapes DEF CreateCommission, At
  <2>2. request' \in [Proc -> Request]
    BY <1>5, AnswerTypes DEF TypeOK, CreateCommission
  <2>3. commissions' \in [RowId -> Nat]
    BY <1>5, <2>1 DEF TypeOK, CreateCommission
  <2>4. QED
    BY <1>5, <2>2, <2>3 DEF TypeOK, CreateCommission
<1>6. QED
    BY <1>2, <1>3, <1>4, <1>5 DEF Create

LEMMA CheckoutTypes ==
    ASSUME TypeOK, NEW p \in Proc, Checkout(p) PROVE TypeOK'
<1>1. request[p] \in Request
    BY DEF TypeOK
<1>2. ASSUME NEW u \in User, NEW ref \in User \cup {None}, CheckoutCheck(p, u, ref)
      PROVE  TypeOK'
    BY <1>2, Requests, GoTypes DEF TypeOK, CheckoutCheck
<1>3. ASSUME NEW r \in RowId, CheckoutRow(p, r)
      PROVE  TypeOK'
  <2>1. request[p].user \in User /\ request[p].ref \in User \cup {None}
    BY <1>1, <1>3, Shapes DEF CheckoutRow, At
  <2>2. request' \in [Proc -> Request]
    BY <1>3, <2>1, Requests, GoTypes DEF TypeOK, CheckoutRow
  <2>3. rows' \in [RowId -> Row]
    BY <1>3, <2>1 DEF TypeOK, CheckoutRow, Row, RowStatus
  <2>4. QED
    BY <1>3, <2>2, <2>3 DEF TypeOK, CheckoutRow
<1>4. ASSUME CheckoutSession(p)
      PROVE  TypeOK'
    BY <1>1, <1>4, Shapes, AnswerTypes DEF TypeOK, CheckoutSession, At
<1>5. QED
    BY <1>2, <1>3, <1>4 DEF Checkout

LEMMA SyncTypes ==
    ASSUME TypeOK, RowsOK, NEW p \in Proc, Sync(p) PROVE TypeOK'
<1>1. request[p] \in Request
    BY DEF TypeOK
<1>2. ASSUME NEW u \in User, NEW r \in RowId, SyncRead(p, u, r)
      PROVE  TypeOK'
  <2>1. rows[r].status \in RowStatus /\ rows[r].sub \in {0} \cup CustomerId
    BY <1>2, NoneAssumption DEF TypeOK, RowsOK, Row, Exists, NoRow, SyncRead, IsLatest
  <2>2. commissions[r] \in Nat
    BY DEF TypeOK
  <2>3. request' \in [Proc -> Request]
    BY <1>2, <2>1, <2>2, Requests, GoTypes DEF TypeOK, SyncRead
  <2>4. QED
    BY <1>2, <2>3 DEF TypeOK, SyncRead
<1>3. ASSUME NEW c \in CustomerId, NEW a \in Email, SyncLink(p, c, a)
      PROVE  TypeOK'
  <2>1. request[p].row \in RowId /\ request[p].seen \in RowStatus
    BY <1>1, <1>3, Shapes DEF SyncLink, At
  <2>2. request' \in [Proc -> Request]
    BY <1>3, <2>1, Requests, GoTypes DEF TypeOK, SyncLink
  <2>3. QED
    BY <1>3, <2>2 DEF TypeOK, SyncLink
<1>4. ASSUME SyncNothing(p)
      PROVE  TypeOK'
    BY <1>4, AnswerTypes DEF TypeOK, SyncNothing
<1>5. ASSUME SyncSaveLink(p)
      PROVE  TypeOK'
  <2>1. /\ request[p].row \in RowId
        /\ request[p].seen \in RowStatus
        /\ request[p].sub \in CustomerId
    BY <1>1, <1>5, Shapes DEF SyncSaveLink, At
  <2>2. request' \in [Proc -> Request]
    BY <1>5, <2>1, Requests, GoTypes DEF TypeOK, SyncSaveLink
  <2>3. rows' \in [RowId -> Row]
    BY <1>5, <2>1, SMTT(60) DEF TypeOK, SyncSaveLink, Row
  <2>4. QED
    BY <1>5, <2>2, <2>3 DEF TypeOK, SyncSaveLink
<1>6. ASSUME SyncRetrieve(p)
      PROVE  TypeOK'
  <2>1. /\ request[p].row \in RowId
        /\ request[p].seen \in RowStatus
        /\ request[p].sub \in CustomerId
    BY <1>1, <1>6, Shapes DEF SyncRetrieve, At
  <2>2. stripe[request[p].sub].status \in StripeStatus
    BY <2>1 DEF TypeOK, Customer
  <2>3. SyncStatus(stripe[request[p].sub].status, request[p].seen) \in RowStatus
    BY <2>1, <2>2, StatusTypes
  <2>4. request' \in [Proc -> Request]
    BY <1>6, <2>1, <2>3, Requests, GoTypes DEF TypeOK, SyncRetrieve
  <2>5. QED
    BY <1>6, <2>4 DEF TypeOK, SyncRetrieve
<1>7. ASSUME SyncRetrieveFails(p)
      PROVE  TypeOK'
  <2>1. /\ request[p].row \in RowId
        /\ request[p].seen \in RowStatus
        /\ request[p].count \in Nat \cup {Fresh}
    BY <1>1, <1>7, Shapes DEF SyncRetrieveFails, At
  <2>2. request' \in [Proc -> Request]
    BY <1>7, <2>1, Requests, GoTypes DEF TypeOK, SyncRetrieveFails
  <2>3. QED
    BY <1>7, <2>2 DEF TypeOK, SyncRetrieveFails
<1>8. ASSUME SyncSave(p)
      PROVE  TypeOK'
  <2>1. /\ request[p].row \in RowId
        /\ request[p].seen \in RowStatus
        /\ request[p].next \in RowStatus
    BY <1>1, <1>8, Shapes DEF SyncSave, At
  <2>2. request' \in [Proc -> Request]
    BY <1>8, <2>1, Requests, GoTypes DEF TypeOK, SyncSave
  <2>3. rows' \in [RowId -> Row]
    BY <1>8, <2>1, WriteStatusTypes DEF TypeOK, SyncSave
  <2>4. QED
    BY <1>8, <2>2, <2>3 DEF TypeOK, SyncSave
<1>9. ASSUME SyncCheck(p)
      PROVE  TypeOK'
  <2>1. request[p].row \in RowId
    BY <1>1, <1>9, Shapes DEF SyncCheck, At
  <2>2. request' \in [Proc -> Request]
    BY <1>9, <2>1, Requests, GoTypes, AnswerTypes DEF TypeOK, SyncCheck
  <2>3. QED
    BY <1>9, <2>2 DEF TypeOK, SyncCheck
<1>10. ASSUME SyncInsert(p)
       PROVE  TypeOK'
  <2>1. request[p].row \in RowId
    BY <1>1, <1>10, Shapes DEF SyncInsert, At
  <2>2. commissions' \in [RowId -> Nat]
    BY <1>10, <2>1 DEF TypeOK, SyncInsert
  <2>3. QED
    BY <1>10, <2>2, AnswerTypes DEF TypeOK, SyncInsert
<1>11. QED
    BY <1>2, <1>3, <1>4, <1>5, <1>6, <1>7, <1>8, <1>9, <1>10 DEF Sync

LEMMA CancelTypes ==
    ASSUME TypeOK, NEW p \in Proc, Cancel(p) PROVE TypeOK'
<1>1. request[p] \in Request
    BY DEF TypeOK
<1>2. ASSUME NEW u \in User, NEW r \in RowId, CancelRead(p, u, r)
      PROVE  TypeOK'
    BY <1>2, Requests, GoTypes DEF TypeOK, CancelRead, Row
<1>3. ASSUME CancelSubscription(p)
      PROVE  TypeOK'
  <2>1. PICK c \in CustomerId : /\ Happens(c, "canceled", {})
                                /\ Emit({Of("deleted", c, "canceled")})
    BY <1>3 DEF CancelSubscription
  <2>2. stripe' \in [CustomerId -> Customer]
    BY <2>1, HappensTypes DEF TypeOK, StripeStatus
  <2>3. Of("deleted", c, "canceled") \in Event
    BY OfTypes DEF StripeStatus
  <2>4. events' \subseteq Event /\ tried' \subseteq events'
    BY <2>1, <2>3, EmitTypes DEF TypeOK
  <2>5. request[p].row \in RowId
    BY <1>1, <1>3, Shapes DEF CancelSubscription, At
  <2>6. request' \in [Proc -> Request]
    BY <1>3, <2>5, Requests, GoTypes DEF TypeOK, CancelSubscription
  <2>7. QED
    BY <1>3, <2>2, <2>4, <2>6 DEF TypeOK, CancelSubscription
<1>4. ASSUME CancelSuppressed(p)
      PROVE  TypeOK'
  <2>1. request[p].row \in RowId
    BY <1>1, <1>4, Shapes DEF CancelSuppressed, At
  <2>2. request' \in [Proc -> Request]
    BY <1>4, <2>1, Requests, GoTypes DEF TypeOK, CancelSuppressed
  <2>3. QED
    BY <1>4, <2>2 DEF TypeOK, CancelSuppressed
<1>5. ASSUME CancelSave(p)
      PROVE  TypeOK'
  <2>1. request[p].row \in RowId
    BY <1>1, <1>5, Shapes DEF CancelSave, At
  <2>2. rows' \in [RowId -> Row]
    BY <1>5, <2>1 DEF TypeOK, CancelSave, Row, RowStatus
  <2>3. QED
    BY <1>5, <2>2, AnswerTypes DEF TypeOK, CancelSave
<1>6. QED
    BY <1>2, <1>3, <1>4, <1>5 DEF Cancel

LEMMA WebhookTypes ==
    ASSUME TypeOK, RowsOK, NEW p \in Proc, Webhook(p) PROVE TypeOK'
<1>1. request[p] \in Request
    BY DEF TypeOK
<1>2. ASSUME NEW e \in events, NEW r \in RowId, Hook(p, e, r)
      PROVE  TypeOK'
  <2>1. e \in Event /\ e.sub \in CustomerId
    BY DEF TypeOK, Event
  <2>2. rows[r].sub = e.sub
    BY <1>2 DEF Hook, RowsOf
  <2>3. rows[r].status \in RowStatus
    BY <2>1, <2>2 DEF TypeOK, RowsOK, Row, Exists, NoRow, CustomerId
  <2>4. HookStatus(e, rows[r].status) \in RowStatus
    BY <2>1, <2>3, StatusTypes
  <2>5. request' \in [Proc -> Request]
    BY <1>2, <2>1, <2>3, <2>4, Requests, GoTypes DEF TypeOK, Hook
  <2>6. QED
    BY <1>2, <2>5 DEF TypeOK, Hook
<1>3. ASSUME NEW e \in events, HookUnknown(p, e) \/ HookAmbiguous(p, e)
      PROVE  TypeOK'
    BY <1>3 DEF TypeOK, HookUnknown, HookAmbiguous
<1>4. ASSUME HookSave(p)
      PROVE  TypeOK'
  <2>1. /\ request[p].row \in RowId
        /\ request[p].seen \in RowStatus
        /\ request[p].next \in RowStatus
    BY <1>1, <1>4, Shapes DEF HookSave, At
  <2>2. rows' \in [RowId -> Row]
    BY <1>4, <2>1, WriteStatusTypes DEF TypeOK, HookSave
  <2>3. request' \in [Proc -> Request]
    BY <1>4, AnswerTypes DEF TypeOK, HookSave
  <2>4. events' \subseteq Event /\ tried' \subseteq events'
    BY <1>4 DEF TypeOK, HookSave
  <2>5. QED
    BY <1>4, <2>2, <2>3, <2>4 DEF TypeOK, HookSave
<1>5. QED
    BY <1>2, <1>3, <1>4 DEF Webhook

LEMMA StripeTypes ==
    ASSUME TypeOK, RowsOK, Stripe PROVE TypeOK'
<1>1. ASSUME NEW c \in CustomerId, Pay(c)
      PROVE  TypeOK'
  <2>1. stripe' \in [CustomerId -> Customer]
    BY <1>1, HappensTypes DEF TypeOK, Pay, StripeStatus
  <2>2. {Of("paid", c, "active")} \cup Updated(c, "active") \subseteq Event
    BY OfTypes DEF StripeStatus
  <2>3. events' \subseteq Event /\ tried' \subseteq events'
    BY <1>1, <2>2, EmitTypes DEF TypeOK, Pay
  <2>4. QED
    BY <1>1, <2>1, <2>3 DEF TypeOK, Pay
<1>2. ASSUME NEW c \in CustomerId, NEW status \in {"incomplete", "past_due", "unpaid"},
             FailPay(c, status)
      PROVE  TypeOK'
  <2>0. status \in StripeStatus
    BY DEF StripeStatus
  <2>1. stripe' \in [CustomerId -> Customer]
    BY <1>2, <2>0, HappensTypes DEF TypeOK, FailPay
  <2>2. {Of("failed", c, status)} \cup Updated(c, status) \subseteq Event
    BY <2>0, OfTypes
  <2>3. events' \subseteq Event /\ tried' \subseteq events'
    BY <1>2, <2>2, EmitTypes DEF TypeOK, FailPay
  <2>4. QED
    BY <1>2, <2>1, <2>3 DEF TypeOK, FailPay
<1>3. ASSUME NEW c \in CustomerId, CancelAtStripe(c)
      PROVE  TypeOK'
  <2>1. stripe' \in [CustomerId -> Customer]
    BY <1>3, HappensTypes DEF TypeOK, CancelAtStripe, StripeStatus
  <2>2. Of("deleted", c, "canceled") \in Event
    BY OfTypes DEF StripeStatus
  <2>3. events' \subseteq Event /\ tried' \subseteq events'
    BY <1>3, <2>2, EmitTypes DEF TypeOK, CancelAtStripe
  <2>4. QED
    BY <1>3, <2>1, <2>3 DEF TypeOK, CancelAtStripe
<1>4. ASSUME NEW c \in CustomerId, NEW r \in RowId, NEW a \in Email,
             CompleteCheckout(r, c, a)
      PROVE  TypeOK'
  <2>1. stripe' \in [CustomerId -> Customer]
    BY <1>4 DEF TypeOK, CompleteCheckout, Customer, Row, StripeStatus
  <2>2. Of("paid", c, "active") \in Event
    BY OfTypes DEF StripeStatus
  <2>3. events' \subseteq Event /\ tried' \subseteq events'
    BY <1>4, <2>2, EmitTypes DEF TypeOK, CompleteCheckout
  <2>4. QED
    BY <1>4, <2>1, <2>3 DEF TypeOK, CompleteCheckout
<1>5. ASSUME NEW e \in events, GiveUp(e)
      PROVE  TypeOK'
    BY <1>5 DEF TypeOK, GiveUp
<1>6. QED
    BY <1>1, <1>2, <1>3, <1>4, <1>5 DEF Stripe

-----------------------------------------------------------------------------
(***************************************************************************)
(* RowsOK: rows come into being once, with a user, and are never removed;  *)
(* a request that holds a row's id holds the id of one that exists.        *)
(***************************************************************************)
NoRowYet == {"idle", "create", "checkout", "created"}

LEMMA RowsKept ==
    ASSUME TypeOK, RowsOK, NEW p \in Proc, NEW q, Go(p, q),
           \A r \in RowId : Exists(r) => Exists(r)',
           \A r \in RowId : IF Exists(r)' THEN rows'[r].user \in User
                                          ELSE rows'[r] = NoRow,
           \A r \in sessions' : r \in sessions \/ Exists(r)',
           \A r \in RowId : q.step \notin NoRowYet /\ q.row = r => Exists(r)'
    PROVE  RowsOK'
<1>1. \A r \in sessions' : Exists(r)'
    BY DEF TypeOK, RowsOK
<1>2. ASSUME NEW s \in Proc, NEW r \in RowId,
             request'[s].step \notin NoRowYet, request'[s].row = r
      PROVE  Exists(r)'
  <2>1. CASE s = p
    BY <1>2, <2>1 DEF Go, TypeOK
  <2>2. CASE s # p
    BY <1>2, <2>2 DEF Go, TypeOK, RowsOK, NoRowYet
  <2>3. QED
    BY <2>1, <2>2
<1>3. QED
    BY <1>1, <1>2 DEF RowsOK, NoRowYet

\* The same when the table does not change.
LEMMA RowsUnchanged ==
    ASSUME TypeOK, RowsOK, NEW p \in Proc, NEW q, Go(p, q), UNCHANGED rows,
           \A r \in sessions' : r \in sessions \/ Exists(r),
           \A r \in RowId : q.step \notin NoRowYet /\ q.row = r => Exists(r)
    PROVE  RowsOK'
<1>1. \A r \in RowId : Exists(r)' <=> Exists(r)
    BY DEF Exists
<1>2. \A r \in RowId : IF Exists(r)' THEN rows'[r].user \in User
                                     ELSE rows'[r] = NoRow
    BY <1>1 DEF RowsOK
<1>3. \A r \in sessions' : r \in sessions \/ Exists(r)'
    BY DEF Exists
<1>4. QED
    BY <1>1, <1>2, <1>3, RowsKept

\* The same when one column of an existing row changes.
LEMMA RowUpdated ==
    ASSUME TypeOK, RowsOK, NEW p \in Proc, NEW q, Go(p, q),
           NEW r \in RowId, Exists(r), UNCHANGED sessions,
           \/ UNCHANGED rows
           \/ \E status \in RowStatus : rows' = [rows EXCEPT ![r].status = status]
           \/ \E c \in CustomerId : rows' = [rows EXCEPT ![r].sub = c],
           q.step \notin NoRowYet => q.row = r
    PROVE  RowsOK'
<1>1. \A s \in RowId : s # r => rows'[s] = rows[s]
    BY DEF TypeOK
<1>2. Exists(r)' /\ rows'[r].user = rows[r].user
    BY DEF Exists, TypeOK, Row, RowStatus, Live
<1>3. \A s \in RowId : Exists(s)' <=> Exists(s)
    BY <1>1, <1>2 DEF Exists
<1>4. \A s \in RowId : IF Exists(s)' THEN rows'[s].user \in User
                                     ELSE rows'[s] = NoRow
    BY <1>1, <1>2, <1>3 DEF RowsOK
<1>5. QED
    BY <1>2, <1>3, <1>4, RowsKept

LEMMA AnswerKeepsRows ==
    ASSUME TypeOK, RowsOK, NEW p \in Proc, Answer(p), UNCHANGED <<rows, sessions>>
    PROVE  RowsOK'
    BY RowsUnchanged DEF Answer, Idle, NoRowYet

\* A row that is inserted is new, and has a user.
LEMMA RowInserted ==
    ASSUME TypeOK, RowsOK, NEW p \in Proc, NEW q, Go(p, q), NEW r \in RowId,
           NEW row \in Row, row.user \in User, row.status # "absent",
           rows' = [rows EXCEPT ![r] = row], UNCHANGED sessions,
           q.step \notin NoRowYet => q.row = r
    PROVE  RowsOK'
<1>1. \A s \in RowId : s # r => rows'[s] = rows[s]
    BY DEF TypeOK
<1>2. rows'[r] = row
    BY DEF TypeOK
<1>3. Exists(r)'
    BY <1>2 DEF Exists
<1>4. \A s \in RowId : Exists(s) => Exists(s)'
    BY <1>1, <1>3 DEF Exists
<1>5. \A s \in RowId : IF Exists(s)' THEN rows'[s].user \in User
                                     ELSE rows'[s] = NoRow
    BY <1>1, <1>2, <1>3 DEF RowsOK, Exists
<1>6. QED
    BY <1>3, <1>4, <1>5, RowsKept

LEMMA HeldRowExists ==
    ASSUME TypeOK, RowsOK, NEW p \in Proc, request[p].step \notin NoRowYet
    PROVE  request[p].row \in RowId /\ Exists(request[p].row)
<1>1. request[p] \in Request
    BY DEF TypeOK
<1>2. request[p].row \in RowId
    BY <1>1, Shapes DEF NoRowYet
<1>3. QED
    BY <1>2 DEF RowsOK, NoRowYet

LEMMA RequestsKeepRows ==
    ASSUME TypeOK, RowsOK, NEW p \in Proc,
           Create(p) \/ Checkout(p) \/ Sync(p) \/ Cancel(p) \/ Webhook(p) \/ Abandon(p)
    PROVE  RowsOK'
<1>0. request[p] \in Request
    BY DEF TypeOK
<1>1. ASSUME Create(p)
      PROVE  RowsOK'
  <2>1. ASSUME NEW u \in User, NEW ref \in User \cup {None}, CreateCheck(p, u, ref)
        PROVE  RowsOK'
    BY <2>1, RowsUnchanged DEF CreateCheck, NoRowYet
  <2>2. ASSUME NEW c \in CustomerId, NEW a \in Email, NEW ok \in BOOLEAN,
             CreateAtStripe(p, c, a, ok)
        PROVE  RowsOK'
    BY <2>2, RowsUnchanged, AnswerKeepsRows DEF CreateAtStripe, NoRowYet
  <2>3. ASSUME NEW r \in RowId, CreateRow(p, r)
        PROVE  RowsOK'
    <3>1. /\ request[p].user \in User
          /\ request[p].ref \in User \cup {None}
          /\ request[p].sub \in CustomerId
      BY <1>0, <2>3, Shapes DEF CreateRow, At
    <3> DEFINE row == [user |-> request[p].user, status |-> "incomplete",
                       sub |-> request[p].sub, ref |-> request[p].ref]
    <3>2. row \in Row /\ row.user \in User /\ row.status # "absent"
      BY <3>1 DEF Row, RowStatus
    <3>3. rows' = [rows EXCEPT ![r] = row]
      BY <2>3 DEF CreateRow
    <3> DEFINE q == IF request[p].ref = None THEN Idle
                                           ELSE [step |-> "commission", row |-> r]
    <3>4. Go(p, q) /\ (q.step \notin NoRowYet => q.row = r) /\ UNCHANGED sessions
      BY <2>3 DEF CreateRow, Answer, Idle, NoRowYet
    <3> HIDE DEF row, q
    <3>5. QED
      BY <3>2, <3>3, <3>4, RowInserted
  <2>4. ASSUME CreateCommission(p)
        PROVE  RowsOK'
    BY <2>4, AnswerKeepsRows DEF CreateCommission
  <2>5. QED
    BY <1>1, <2>1, <2>2, <2>3, <2>4 DEF Create
<1>2. ASSUME Checkout(p)
      PROVE  RowsOK'
  <2>1. ASSUME NEW u \in User, NEW ref \in User \cup {None}, CheckoutCheck(p, u, ref)
        PROVE  RowsOK'
    BY <2>1, RowsUnchanged DEF CheckoutCheck, NoRowYet
  <2>2. ASSUME NEW r \in RowId, CheckoutRow(p, r)
        PROVE  RowsOK'
    <3>1. request[p].user \in User /\ request[p].ref \in User \cup {None}
      BY <1>0, <2>2, Shapes DEF CheckoutRow, At
    <3> DEFINE row == [user |-> request[p].user, status |-> "pending",
                       sub |-> 0, ref |-> request[p].ref]
    <3>2. row \in Row /\ row.user \in User /\ row.status # "absent"
      BY <3>1 DEF Row, RowStatus
    <3>3. rows' = [rows EXCEPT ![r] = row]
      BY <2>2 DEF CheckoutRow
    <3> DEFINE q == [step |-> "session", row |-> r]
    <3>4. Go(p, q) /\ q.row = r /\ UNCHANGED sessions
      BY <2>2 DEF CheckoutRow
    <3> HIDE DEF row, q
    <3>5. QED
      BY <3>2, <3>3, <3>4, RowInserted
  <2>3. ASSUME CheckoutSession(p)
        PROVE  RowsOK'
    <3>1. request[p].row \in RowId /\ Exists(request[p].row)
      BY <2>3, HeldRowExists DEF CheckoutSession, At, NoRowYet
    <3>2. QED
      BY <2>3, <3>1, RowsUnchanged DEF CheckoutSession, Answer, Idle, NoRowYet
  <2>4. QED
    BY <1>2, <2>1, <2>2, <2>3 DEF Checkout
<1>3. ASSUME Sync(p)
      PROVE  RowsOK'
  <2>1. ASSUME NEW u \in User, NEW r \in RowId, SyncRead(p, u, r)
        PROVE  RowsOK'
    <3>1. Exists(r)
      BY <2>1, NoneAssumption DEF SyncRead, IsLatest, RowsOK, NoRow
    <3>2. QED
      BY <2>1, <3>1, RowsUnchanged DEF SyncRead
  <2>2. ASSUME NEW c \in CustomerId, NEW a \in Email, SyncLink(p, c, a)
        PROVE  RowsOK'
    <3>1. request[p].row \in RowId /\ Exists(request[p].row)
      BY <2>2, HeldRowExists DEF SyncLink, At, NoRowYet
    <3>2. QED
      BY <2>2, <3>1, RowsUnchanged DEF SyncLink
  <2>3. ASSUME SyncNothing(p)
        PROVE  RowsOK'
    BY <2>3, AnswerKeepsRows DEF SyncNothing
  <2>4. ASSUME SyncSaveLink(p)
        PROVE  RowsOK'
    <3>1. request[p].row \in RowId /\ Exists(request[p].row)
      BY <2>4, HeldRowExists DEF SyncSaveLink, At, NoRowYet
    <3>2. request[p].sub \in CustomerId
      BY <1>0, <2>4, Shapes DEF SyncSaveLink, At
    <3> DEFINE r == request[p].row
               c == request[p].sub
               q == [step |-> "retrieve", row |-> r, sub |-> c,
                     seen |-> request[p].seen, count |-> Fresh]
    <3>3. Go(p, q) /\ q.row = r /\ UNCHANGED sessions
      BY <2>4 DEF SyncSaveLink
    <3>4. rows' = [rows EXCEPT ![r].sub = c]
      BY <2>4 DEF SyncSaveLink
    <3> HIDE DEF r, c, q
    <3>5. QED
      BY <3>1, <3>2, <3>3, <3>4, RowUpdated DEF r, c
  <2>5. ASSUME SyncRetrieve(p)
        PROVE  RowsOK'
    <3>1. request[p].row \in RowId /\ Exists(request[p].row)
      BY <2>5, HeldRowExists DEF SyncRetrieve, At, NoRowYet
    <3>2. QED
      BY <2>5, <3>1, RowsUnchanged DEF SyncRetrieve
  <2>6. ASSUME SyncRetrieveFails(p)
        PROVE  RowsOK'
    <3>1. request[p].row \in RowId /\ Exists(request[p].row)
      BY <2>6, HeldRowExists DEF SyncRetrieveFails, At, NoRowYet
    <3>2. QED
      BY <2>6, <3>1, RowsUnchanged DEF SyncRetrieveFails
  <2>7. ASSUME SyncSave(p)
        PROVE  RowsOK'
    <3>1. request[p].row \in RowId /\ Exists(request[p].row)
      BY <2>7, HeldRowExists DEF SyncSave, At, NoRowYet
    <3>2. request[p].next \in RowStatus
      BY <1>0, <2>7, Shapes DEF SyncSave, At
    <3> DEFINE r == request[p].row
               next == request[p].next
               q == [step |-> "check", row |-> r, seen |-> next, count |-> Fresh]
    <3>3. Go(p, q) /\ q.row = r /\ UNCHANGED sessions
      BY <2>7 DEF SyncSave
    <3>4. rows' = rows \/ rows' = [rows EXCEPT ![r].status = next]
      BY <2>7 DEF SyncSave, WriteStatus
    <3> HIDE DEF r, next, q
    <3>5. QED
      BY <3>1, <3>2, <3>3, <3>4, RowUpdated DEF r, next
  <2>8. ASSUME SyncCheck(p)
        PROVE  RowsOK'
    <3>1. request[p].row \in RowId /\ Exists(request[p].row)
      BY <2>8, HeldRowExists DEF SyncCheck, At, NoRowYet
    <3>2. Go(p, [step |-> "insert", row |-> request[p].row]) \/ Answer(p)
      BY <2>8 DEF SyncCheck
    <3>3. QED
      BY <2>8, <3>1, <3>2, RowsUnchanged, AnswerKeepsRows DEF SyncCheck
  <2>9. ASSUME SyncInsert(p)
        PROVE  RowsOK'
    BY <2>9, AnswerKeepsRows DEF SyncInsert
  <2>10. QED
    BY <1>3, <2>1, <2>2, <2>3, <2>4, <2>5, <2>6, <2>7, <2>8, <2>9 DEF Sync
<1>4. ASSUME Cancel(p)
      PROVE  RowsOK'
  <2>1. ASSUME NEW u \in User, NEW r \in RowId, CancelRead(p, u, r)
        PROVE  RowsOK'
    <3>1. Exists(r)
      BY <2>1 DEF CancelRead, LiveRows, Live, Exists
    <3>2. QED
      BY <2>1, <3>1, RowsUnchanged DEF CancelRead
  <2>2. ASSUME CancelSubscription(p) \/ CancelSuppressed(p)
        PROVE  RowsOK'
    <3>1. request[p].row \in RowId /\ Exists(request[p].row)
      BY <2>2, HeldRowExists DEF CancelSubscription, CancelSuppressed, At, NoRowYet
    <3>2. QED
      BY <2>2, <3>1, RowsUnchanged DEF CancelSubscription, CancelSuppressed
  <2>3. ASSUME CancelSave(p)
        PROVE  RowsOK'
    <3>1. request[p].row \in RowId /\ Exists(request[p].row)
      BY <2>3, HeldRowExists DEF CancelSave, At, NoRowYet
    <3> DEFINE r == request[p].row
    <3>2. Go(p, Idle) /\ Idle.step \in NoRowYet /\ UNCHANGED sessions
      BY <2>3 DEF CancelSave, Answer, Idle, NoRowYet
    <3>3. rows' = [rows EXCEPT ![r].status = "cancelled"]
      BY <2>3 DEF CancelSave
    <3> HIDE DEF r
    <3>4. QED
      BY <3>1, <3>2, <3>3, RowUpdated DEF r, RowStatus
  <2>4. QED
    BY <1>4, <2>1, <2>2, <2>3 DEF Cancel
<1>5. ASSUME Webhook(p)
      PROVE  RowsOK'
  <2>1. ASSUME NEW e \in events, NEW r \in RowId, Hook(p, e, r)
        PROVE  RowsOK'
    <3>1. rows[r].sub = e.sub /\ e.sub \in CustomerId
      BY <2>1 DEF Hook, RowsOf, TypeOK, Event
    <3>2. Exists(r)
      BY <3>1 DEF RowsOK, NoRow, CustomerId
    <3>3. QED
      BY <2>1, <3>2, RowsUnchanged DEF Hook
  <2>2. ASSUME NEW e \in events, HookUnknown(p, e) \/ HookAmbiguous(p, e)
        PROVE  RowsOK'
    BY <2>2 DEF HookUnknown, HookAmbiguous, RowsOK, Exists
  <2>3. ASSUME HookSave(p)
        PROVE  RowsOK'
    <3>1. request[p].row \in RowId /\ Exists(request[p].row)
      BY <2>3, HeldRowExists DEF HookSave, At, NoRowYet
    <3>2. request[p].next \in RowStatus
      BY <1>0, <2>3, Shapes DEF HookSave, At
    <3>3. QED
      BY <2>3, <3>1, <3>2, RowUpdated
      DEF HookSave, WriteStatus, Answer, Idle, NoRowYet
  <2>4. QED
    BY <1>5, <2>1, <2>2, <2>3 DEF Webhook
<1>6. ASSUME Abandon(p)
      PROVE  RowsOK'
    BY <1>6, AnswerKeepsRows DEF Abandon
<1>7. QED
    BY <1>1, <1>2, <1>3, <1>4, <1>5, <1>6

LEMMA StripeKeepsRows ==
    ASSUME TypeOK, RowsOK, Stripe PROVE RowsOK'
<1>1. UNCHANGED <<rows, request>> /\ sessions' \subseteq sessions
    BY DEF Stripe, Pay, FailPay, CancelAtStripe, CompleteCheckout, GiveUp
<1>2. QED
    BY <1>1 DEF RowsOK, Exists

Typed == TypeOK /\ RowsOK

LEMMA InitTyped == Init => Typed
<1> SUFFICES ASSUME Init PROVE Typed
    OBVIOUS
<1>1. NoRow \in Row /\ NoCustomer \in Customer
    BY DEF NoRow, Row, NoCustomer, Customer, StripeStatus
<1>2. TypeOK
    BY <1>1, Requests DEF Init, TypeOK
<1>3. RowsOK
    BY DEF Init, RowsOK, Exists, NoRow, Idle
<1>4. QED
    BY <1>2, <1>3 DEF Typed

LEMMA NextTyped == Typed /\ [Next]_vars => Typed'
<1> SUFFICES ASSUME Typed, [Next]_vars PROVE Typed'
    OBVIOUS
<1> USE DEF Typed
<1>1. ASSUME NEW p \in Proc,
             Create(p) \/ Checkout(p) \/ Sync(p) \/ Cancel(p) \/ Webhook(p) \/ Abandon(p)
      PROVE  Typed'
  <2>1. CASE Abandon(p)
    BY <1>1, <2>1, RequestsKeepRows, AnswerTypes DEF TypeOK, Abandon
  <2>2. CASE ~Abandon(p)
    BY <1>1, <2>2, RequestsKeepRows, CreateTypes, CheckoutTypes, SyncTypes,
       CancelTypes, WebhookTypes
  <2>3. QED
    BY <2>1, <2>2
<1>2. CASE Stripe
    BY <1>2, StripeTypes, StripeKeepsRows
<1>3. CASE UNCHANGED vars
    BY <1>3 DEF vars, TypeOK, RowsOK, Exists
<1>4. QED
    BY <1>1, <1>2, <1>3 DEF Next

(***************************************************************************)
(* The tables, what Stripe holds, the outstanding events and the requests  *)
(* in progress have their types in every reachable state.                  *)
(***************************************************************************)
THEOREM TypeCorrect == Spec => []TypeOK
<1>1. Typed => TypeOK
    BY DEF Typed
<1>2. QED
    BY <1>1, InitTyped, NextTyped, PTL DEF Spec

-----------------------------------------------------------------------------
(***************************************************************************)
(* Nobody is covered for nothing: the proof of StatusHasCause, and of      *)
(* LinkedByAddress, which it rests on.                                       *)
(***************************************************************************)
\* What happened to a subscription stays so, and so does its customer's address.
Grows == \A c \in CustomerId :
             stripe[c].email # None =>
                 /\ stripe'[c].email = stripe[c].email
                 /\ stripe[c].was \subseteq stripe'[c].was

\* A customer found by an address is somebody, and stays so.
LEMMA TheirsStay ==
    ASSUME NEW u \in User, NEW c \in CustomerId, Theirs(c, u)
    PROVE  /\ stripe[c].email # None
           /\ Grows => Theirs(c, u)' /\ stripe[c].was \subseteq stripe'[c].was
    BY EmailsAssumption, NoneAssumption DEF Theirs, Grows

LEMMA CausesStay ==
    ASSUME Grows
    PROVE  /\ \A u \in User : \A status : Cause(u, status) => Cause(u, status)'
           /\ \A e \in Event : EventHasCause(e) => EventHasCause(e)'
<1>1. \A u \in User : \A what : Ever(u, what) => Ever(u, what)'
    BY TheirsStay DEF Ever
<1>2. \A u \in User : \A status : Cause(u, status) => Cause(u, status)'
    BY <1>1 DEF Cause
<1>3. \A e \in Event : EventHasCause(e) => EventHasCause(e)'
    BY DEF Grows, EventHasCause, Event
<1>4. QED
    BY <1>2, <1>3

(***************************************************************************)
(* What a step has to show of the things it changes: a row, a customer at  *)
(* Stripe, an event or a request.                                          *)
(***************************************************************************)
RowFine(r) == /\ Cause(rows[r].user, rows[r].status)
              /\ rows[r].sub # 0 => Theirs(rows[r].sub, rows[r].user)

LEMMA RowsFine ==
    ASSUME Typed, BillingInvariant, Typed', Grows,
           \A r \in RowId : rows'[r] = rows[r] \/ RowFine(r)'
    PROVE  \A r \in RowId : RowFine(r)'
<1> SUFFICES ASSUME NEW r \in RowId, rows'[r] = rows[r]
             PROVE  RowFine(r)'
    OBVIOUS
<1>1. RowFine(r)
    BY DEF BillingInvariant, StatusHasCause, LinkedByAddress, RowFine
<1>2. CASE Exists(r)
  <2>1. rows[r].user \in User /\ rows[r].sub \in {0} \cup CustomerId
    BY <1>2 DEF Typed, TypeOK, Row, RowsOK
  <2>2. Cause(rows[r].user, rows[r].status)'
    BY <1>1, <2>1, CausesStay DEF RowFine
  <2>3. rows[r].sub # 0 => Theirs(rows[r].sub, rows[r].user)'
    BY <1>1, <2>1, TheirsStay DEF RowFine, Theirs
  <2>4. QED
    BY <2>2, <2>3 DEF RowFine
<1>3. CASE ~Exists(r)
    BY <1>3 DEF Typed, RowsOK, NoRow, RowFine, Cause
<1>4. QED
    BY <1>2, <1>3

LEMMA RequestsFine ==
    ASSUME Typed, BillingInvariant, Typed', Grows,
           \A r \in RowId : Exists(r) => rows'[r].user = rows[r].user,
           \A p \in Proc : request'[p] = request[p] \/ RequestHasCause(request[p])'
    PROVE  \A p \in Proc : RequestHasCause(request[p])'
<1> SUFFICES ASSUME NEW p \in Proc, NEW q, request[p] = q, request'[p] = q
             PROVE  RequestHasCause(q)'
    BY DEF RequestHasCause
<1>1. q \in Request /\ RequestHasCause(q)
    BY DEF Typed, TypeOK, BillingInvariant
<1>2. q.step \notin NoRowYet =>
        /\ q.row \in RowId
        /\ rows[q.row].user \in User
        /\ rows'[q.row].user = rows[q.row].user
    BY HeldRowExists DEF Typed, RowsOK
<1>3. /\ q.step \in {"created", "linked", "retrieve"} => q.sub \in CustomerId
      /\ q.step = "created" => q.user \in User
    BY <1>1, Shapes
<1>4. q.step = "created" => Theirs(q.sub, q.user)'
    BY <1>1, <1>3, TheirsStay DEF RequestHasCause
<1>5. q.step \in {"linked", "retrieve"} => Theirs(q.sub, rows[q.row].user)'
    BY <1>1, <1>2, <1>3, TheirsStay DEF RequestHasCause, NoRowYet, Theirs
<1>6. ASSUME q.step \notin NoRowYet, NEW s, Cause(rows[q.row].user, s)
      PROVE  Cause(rows[q.row].user, s)'
  <2>1. PICK u \in User : u = rows[q.row].user /\ u = rows'[q.row].user
    BY <1>2, <1>6
  <2>2. Cause(u, s)'
    BY <1>6, <2>1, CausesStay
  <2>3. QED
    BY <2>1, <2>2 DEF Cause, Ever, Theirs
<1>7. QED
    BY <1>1, <1>4, <1>5, <1>6 DEF RequestHasCause, NoRowYet

LEMMA InvariantKept ==
    ASSUME Typed, BillingInvariant, Typed', Grows,
           \A r \in RowId : Exists(r) => rows'[r].user = rows[r].user,
           \A r \in RowId : rows'[r] = rows[r] \/ RowFine(r)',
           \A c \in CustomerId : stripe'[c] = stripe[c] \/ CustomerHasCause(c)',
           \A e \in events' : e \in events \/ EventHasCause(e)',
           \A p \in Proc : request'[p] = request[p] \/ RequestHasCause(request[p])'
    PROVE  BillingInvariant'
<1>1. StatusHasCause' /\ LinkedByAddress'
    BY RowsFine DEF StatusHasCause, LinkedByAddress, RowFine
<1>2. \A c \in CustomerId : CustomerHasCause(c)'
    BY DEF BillingInvariant, CustomerHasCause
<1>3. \A e \in events' : EventHasCause(e)'
    BY CausesStay DEF BillingInvariant, Typed, TypeOK
<1>4. \A p \in Proc : RequestHasCause(request[p])'
    BY RequestsFine
<1>5. QED
    BY <1>1, <1>2, <1>3, <1>4 DEF BillingInvariant, Typed

-----------------------------------------------------------------------------
(* The three kinds of steps: reads, writes of one row, and news of Stripe. *)

Inductive == Typed /\ BillingInvariant

LEMMA Reads ==
    ASSUME Inductive, Typed', NEW p \in Proc, NEW q, Go(p, q),
           UNCHANGED <<rows, stripe>>, events' \subseteq events,
           RequestHasCause(q)
    PROVE  BillingInvariant'
<1>1. Grows
    BY DEF Grows
<1>2. RequestHasCause(q)'
    BY DEF RequestHasCause, Cause, Ever, Theirs, Exists
<1>3. \A s \in Proc : request'[s] = request[s] \/ RequestHasCause(request[s])'
    BY <1>2 DEF Go, Inductive, Typed, TypeOK, RequestHasCause
<1>4. QED
    BY <1>1, <1>3, InvariantKept DEF Inductive

LEMMA Writes ==
    ASSUME Inductive, Typed', NEW p \in Proc, NEW r \in RowId,
           \A s \in Proc : s # p => request'[s] = request[s],
           RequestHasCause(request[p])',
           UNCHANGED stripe, events' \subseteq events,
           \A s \in RowId : s # r => rows'[s] = rows[s],
           Exists(r) => rows'[r].user = rows[r].user,
           rows'[r] = rows[r] \/ RowFine(r)'
    PROVE  BillingInvariant'
<1>1. Grows
    BY DEF Grows
<1>2. \A s \in Proc : request'[s] = request[s] \/ RequestHasCause(request[s])'
    OBVIOUS
<1>3. \A s \in RowId : rows'[s] = rows[s] \/ RowFine(s)'
    OBVIOUS
<1>4. \A s \in RowId : Exists(s) => rows'[s].user = rows[s].user
    OBVIOUS
<1>5. QED
    BY <1>1, <1>2, <1>3, <1>4, InvariantKept DEF Inductive

LEMMA News ==
    ASSUME Inductive, Typed', UNCHANGED rows,
           NEW c \in CustomerId, \A k \in CustomerId : k # c => stripe'[k] = stripe[k],
           \/ stripe[c].email = None
           \/ /\ stripe'[c].email = stripe[c].email
              /\ stripe[c].was \subseteq stripe'[c].was,
           CustomerHasCause(c)',
           \A e \in events' : e \in events \/ EventHasCause(e)',
           \A p \in Proc : request'[p] = request[p] \/ RequestHasCause(request[p])'
    PROVE  BillingInvariant'
<1>1. Grows
    BY DEF Grows
<1>2. \A k \in CustomerId : stripe'[k] = stripe[k] \/ CustomerHasCause(k)'
    OBVIOUS
<1>3. QED
    BY <1>1, <1>2, InvariantKept DEF Inductive

LEMMA Answers ==
    ASSUME Inductive, Typed', NEW p \in Proc, Answer(p),
           UNCHANGED <<rows, stripe>>, events' \subseteq events
    PROVE  BillingInvariant'
<1>1. RequestHasCause(Idle)
    BY DEF RequestHasCause, Idle
<1>2. QED
    BY <1>1, Reads DEF Answer

LEMMA Held ==
    ASSUME Inductive, NEW p \in Proc
    PROVE  request[p] \in Request /\ RequestHasCause(request[p])
    BY DEF Inductive, Typed, TypeOK, BillingInvariant

LEMMA CreateKeeps ==
    ASSUME Inductive, Typed', NEW p \in Proc, Create(p)
    PROVE  BillingInvariant'
<1>1. ASSUME NEW u \in User, NEW ref \in User \cup {None}, CreateCheck(p, u, ref)
      PROVE  BillingInvariant'
  <2> DEFINE q == [step |-> "create", user |-> u, ref |-> ref]
  <2>1. RequestHasCause(q)
    BY DEF RequestHasCause
  <2>2. Go(p, q) /\ UNCHANGED <<rows, stripe, events>>
    BY <1>1 DEF CreateCheck
  <2> HIDE DEF q
  <2>3. QED
    BY <2>1, <2>2, Reads
<1>2. ASSUME NEW c \in CustomerId, NEW a \in Email, NEW ok \in BOOLEAN,
             CreateAtStripe(p, c, a, ok)
      PROVE  BillingInvariant'
  <2>1. a \in EmailsOf[request[p].user]
    BY <1>2 DEF CreateAtStripe
  <2> DEFINE x == [email |-> a, status |-> IF ok THEN "incomplete" ELSE "none",
                   was |-> {}]
  <2>2. x.email = a /\ x.status \in {"incomplete", "none"}
    OBVIOUS
  <2>3. stripe' = [stripe EXCEPT ![c] = x] /\ stripe[c].email = None
    BY <1>2 DEF CreateAtStripe, IsNextCustomer
  <2> HIDE DEF x
  <2>4. stripe'[c] = x /\ \A k \in CustomerId : k # c => stripe'[k] = stripe[k]
    BY <2>3 DEF Inductive, Typed, TypeOK
  <2>5. CustomerHasCause(c)'
    BY <2>1, <2>2, <2>4, NoneAssumption DEF CustomerHasCause
  <2>6. RequestHasCause(request[p])'
    <3>1. CASE ok
      <4> DEFINE q == [step |-> "created", user |-> request[p].user,
                       ref |-> request[p].ref, sub |-> c]
      <4>1. request'[p] = q
        BY <1>2, <3>1 DEF CreateAtStripe, Go, Inductive, Typed, TypeOK
      <4>2. q.step = "created" /\ q.sub = c /\ q.user = request[p].user
        OBVIOUS
      <4> HIDE DEF q
      <4>3. QED
        BY <2>1, <2>2, <2>4, <4>1, <4>2 DEF RequestHasCause, Theirs
    <3>2. CASE ~ok
      BY <1>2, <3>2
      DEF CreateAtStripe, Answer, Go, Idle, Inductive, Typed, TypeOK, RequestHasCause
    <3>3. QED
      BY <3>1, <3>2
  <2>7. \A s \in Proc : s # p => request'[s] = request[s]
    BY <1>2 DEF CreateAtStripe, Answer, Go, Inductive, Typed, TypeOK
  <2>8. UNCHANGED <<rows, events>>
    BY <1>2 DEF CreateAtStripe
  <2>9. \A s \in Proc : request'[s] = request[s] \/ RequestHasCause(request[s])'
    BY <2>6, <2>7
  <2>10. \A e \in events' : e \in events \/ EventHasCause(e)'
    BY <2>8
  <2>11. QED
    BY <2>3, <2>4, <2>5, <2>8, <2>9, <2>10, News
<1>3. ASSUME NEW r \in RowId, CreateRow(p, r)
      PROVE  BillingInvariant'
  <2> DEFINE q == IF request[p].ref = None THEN Idle
                                         ELSE [step |-> "commission", row |-> r]
             row == [user |-> request[p].user, status |-> "incomplete",
                     sub |-> request[p].sub, ref |-> request[p].ref]
  <2>1. Theirs(row.sub, row.user) /\ row.status = "incomplete"
    BY <1>3, Held DEF CreateRow, At, RequestHasCause
  <2>2. Go(p, q) /\ UNCHANGED <<stripe, events>> /\ ~Exists(r)
    BY <1>3 DEF CreateRow, IsNextRow, Answer
  <2>3. rows' = [rows EXCEPT ![r] = row]
    BY <1>3 DEF CreateRow
  <2>4. q.step \in {"idle", "commission"}
    BY DEF Idle
  <2> HIDE DEF q, row
  <2>5. rows'[r] = row /\ \A s \in RowId : s # r => rows'[s] = rows[s]
    BY <2>3 DEF Inductive, Typed, TypeOK
  <2>6. RowFine(r)'
    BY <2>1, <2>2, <2>5 DEF RowFine, Cause, Theirs
  <2>7. request'[p] = q /\ \A s \in Proc : s # p => request'[s] = request[s]
    BY <2>2 DEF Go, Inductive, Typed, TypeOK
  <2>8. RequestHasCause(request[p])'
    BY <2>4, <2>7 DEF RequestHasCause
  <2>9. QED
    BY <2>2, <2>5, <2>6, <2>7, <2>8, Writes
<1>4. ASSUME CreateCommission(p)
      PROVE  BillingInvariant'
    BY <1>4, Answers DEF CreateCommission
<1>5. QED
    BY <1>1, <1>2, <1>3, <1>4 DEF Create

LEMMA CheckoutKeeps ==
    ASSUME Inductive, Typed', NEW p \in Proc, Checkout(p)
    PROVE  BillingInvariant'
<1>1. ASSUME NEW u \in User, NEW ref \in User \cup {None}, CheckoutCheck(p, u, ref)
      PROVE  BillingInvariant'
  <2> DEFINE q == [step |-> "checkout", user |-> u, ref |-> ref]
  <2>1. RequestHasCause(q)
    BY DEF RequestHasCause
  <2>2. Go(p, q) /\ UNCHANGED <<rows, stripe, events>>
    BY <1>1 DEF CheckoutCheck
  <2> HIDE DEF q
  <2>3. QED
    BY <2>1, <2>2, Reads
<1>2. ASSUME NEW r \in RowId, CheckoutRow(p, r)
      PROVE  BillingInvariant'
  <2> DEFINE q == [step |-> "session", row |-> r]
             row == [user |-> request[p].user, status |-> "pending", sub |-> 0,
                     ref |-> request[p].ref]
  <2>1. Go(p, q) /\ UNCHANGED <<stripe, events>> /\ ~Exists(r)
    BY <1>2 DEF CheckoutRow, IsNextRow
  <2>2. rows' = [rows EXCEPT ![r] = row]
    BY <1>2 DEF CheckoutRow
  <2>3. q.step = "session" /\ q.row = r /\ row.status = "pending" /\ row.sub = 0
    OBVIOUS
  <2> HIDE DEF q, row
  <2>4. rows'[r] = row /\ \A s \in RowId : s # r => rows'[s] = rows[s]
    BY <2>2 DEF Inductive, Typed, TypeOK
  <2>5. RowFine(r)'
    BY <2>3, <2>4 DEF RowFine, Cause
  <2>6. request'[p] = q /\ \A s \in Proc : s # p => request'[s] = request[s]
    BY <2>1 DEF Go, Inductive, Typed, TypeOK
  <2>7. RequestHasCause(request[p])'
    BY <2>3, <2>6 DEF RequestHasCause
  <2>8. QED
    BY <2>1, <2>4, <2>5, <2>6, <2>7, Writes
<1>3. ASSUME CheckoutSession(p)
      PROVE  BillingInvariant'
    BY <1>3, Answers DEF CheckoutSession
<1>4. QED
    BY <1>1, <1>2, <1>3 DEF Checkout

\* The two places where a status that was read earlier is written.
LEMMA StatusWritten ==
    ASSUME Inductive, Typed', NEW p \in Proc,
           request[p].step \in {"save", "hook"},
           WriteStatus(request[p].row, request[p].seen, request[p].next),
           NEW q, Go(p, q), UNCHANGED stripe, events' \subseteq events,
           \/ request'[p].step = "idle"
           \/ /\ request'[p].step = "check"
              /\ request'[p].row = request[p].row
              /\ request'[p].seen = request[p].next
    PROVE  BillingInvariant'
<1>1. PICK r \in RowId : r = request[p].row /\ Exists(r)
    BY HeldRowExists DEF NoRowYet, Inductive, Typed
<1>2. Cause(rows[r].user, request[p].next)
    BY <1>1, Held DEF RequestHasCause
<1>3. /\ \A s \in RowId : s # r => rows'[s] = rows[s]
      /\ rows'[r].user = rows[r].user
      /\ rows'[r].sub = rows[r].sub
      /\ rows'[r] = rows[r] \/ rows'[r].status = request[p].next
    BY <1>1 DEF WriteStatus, Inductive, Typed, TypeOK, Row
<1>4. rows[r].sub # 0 => Theirs(rows[r].sub, rows[r].user)
    BY DEF Inductive, BillingInvariant, LinkedByAddress
<1>5. rows'[r] = rows[r] \/ RowFine(r)'
    BY <1>2, <1>3, <1>4 DEF RowFine, Cause, Ever, Theirs
<1>6. \A s \in Proc : s # p => request'[s] = request[s]
    BY DEF Go, Inductive, Typed, TypeOK
<1>7. RequestHasCause(request[p])'
    BY <1>1, <1>2, <1>3 DEF RequestHasCause, Cause, Ever, Theirs
<1>8. QED
    BY <1>3, <1>5, <1>6, <1>7, Writes

LEMMA SyncKeeps ==
    ASSUME Inductive, Typed', NEW p \in Proc, Sync(p)
    PROVE  BillingInvariant'
<1>0. request[p] \in Request /\ RequestHasCause(request[p])
    BY Held
<1>1. ASSUME NEW u \in User, NEW r \in RowId, SyncRead(p, u, r)
      PROVE  BillingInvariant'
  <2> DEFINE q == IF rows[r].sub = 0
                  THEN [step |-> "link", row |-> r, seen |-> rows[r].status]
                  ELSE [step |-> "retrieve", row |-> r, seen |-> rows[r].status,
                        sub |-> rows[r].sub, count |-> commissions[r]]
  <2>1. Go(p, q) /\ UNCHANGED <<rows, stripe, events>>
    BY <1>1 DEF SyncRead
  <2>2. Cause(rows[r].user, rows[r].status)
    BY DEF Inductive, BillingInvariant, StatusHasCause
  <2>3. rows[r].sub # 0 => Theirs(rows[r].sub, rows[r].user)
    BY DEF Inductive, BillingInvariant, LinkedByAddress
  <2>4. /\ q.step \in {"link", "retrieve"} /\ q.row = r /\ q.seen = rows[r].status
        /\ q.step = "retrieve" => rows[r].sub # 0 /\ q.sub = rows[r].sub
    OBVIOUS
  <2> HIDE DEF q
  <2>5. RequestHasCause(q)
    BY <2>2, <2>3, <2>4 DEF RequestHasCause
  <2>6. QED
    BY <2>1, <2>5, Reads
<1>2. ASSUME NEW c \in CustomerId, NEW a \in Email, SyncLink(p, c, a)
      PROVE  BillingInvariant'
  <2> DEFINE q == [step |-> "linked", row |-> request[p].row, sub |-> c,
                   seen |-> request[p].seen]
  <2>1. Go(p, q) /\ UNCHANGED <<rows, stripe, events>>
    BY <1>2 DEF SyncLink
  <2>2. /\ Theirs(c, rows[request[p].row].user)
        /\ Cause(rows[request[p].row].user, request[p].seen)
    BY <1>0, <1>2 DEF SyncLink, IsNewest, Theirs, At, RequestHasCause
  <2>3. /\ q.step = "linked" /\ q.row = request[p].row /\ q.sub = c
        /\ q.seen = request[p].seen
    OBVIOUS
  <2> HIDE DEF q
  <2>4. RequestHasCause(q)
    BY <2>2, <2>3 DEF RequestHasCause
  <2>5. QED
    BY <2>1, <2>4, Reads
<1>3. ASSUME SyncNothing(p)
      PROVE  BillingInvariant'
    BY <1>3, Answers DEF SyncNothing
<1>4. ASSUME SyncSaveLink(p)
      PROVE  BillingInvariant'
  <2> DEFINE r == request[p].row
             c == request[p].sub
             q == [step |-> "retrieve", row |-> r, sub |-> c,
                   seen |-> request[p].seen, count |-> Fresh]
  <2>1. r \in RowId /\ Exists(r)
    BY <1>4, HeldRowExists DEF SyncSaveLink, At, NoRowYet, Inductive, Typed
  <2>2. Theirs(c, rows[r].user) /\ Cause(rows[r].user, request[p].seen)
    BY <1>0, <1>4 DEF SyncSaveLink, At, RequestHasCause
  <2>3. Go(p, q) /\ UNCHANGED <<stripe, events>>
    BY <1>4 DEF SyncSaveLink
  <2>4. rows' = [rows EXCEPT ![r].sub = c]
    BY <1>4 DEF SyncSaveLink
  <2>5. q.step = "retrieve" /\ q.row = r /\ q.sub = c /\ q.seen = request[p].seen
    OBVIOUS
  <2>6. Cause(rows[r].user, rows[r].status)
    BY <2>1 DEF Inductive, BillingInvariant, StatusHasCause
  <2> HIDE DEF r, c, q
  <2>7. /\ rows'[r].user = rows[r].user
        /\ rows'[r].status = rows[r].status
        /\ rows'[r].sub = c
        /\ \A s \in RowId : s # r => rows'[s] = rows[s]
    BY <2>1, <2>4 DEF Inductive, Typed, TypeOK, Row
  <2>8. request'[p] = q /\ \A s \in Proc : s # p => request'[s] = request[s]
    BY <2>3 DEF Go, Inductive, Typed, TypeOK
  <2>9. PICK k \in RowId : k = r
    BY <2>1
  <2>10. RowFine(k)'
    BY <2>2, <2>3, <2>6, <2>7, <2>9 DEF RowFine, Cause, Ever, Theirs
  <2>11. RequestHasCause(request[p])'
    BY <2>2, <2>3, <2>5, <2>7, <2>8 DEF RequestHasCause, Cause, Ever, Theirs
  <2>12. QED
    BY <2>3, <2>7, <2>8, <2>9, <2>10, <2>11, Writes
<1>5. ASSUME SyncRetrieve(p)
      PROVE  BillingInvariant'
  <2> DEFINE r == request[p].row
             seen == request[p].seen
             next == SyncStatus(stripe[request[p].sub].status, seen)
             q == [step |-> "save", row |-> r, seen |-> seen, next |-> next]
  <2>1. request[p].sub \in CustomerId
    BY <1>0, <1>5, Shapes DEF SyncRetrieve, At
  <2>2. CustomerHasCause(request[p].sub)
    BY <2>1 DEF Inductive, BillingInvariant
  <2>3. Theirs(request[p].sub, rows[r].user) /\ Cause(rows[r].user, seen)
    BY <1>0, <1>5 DEF SyncRetrieve, At, RequestHasCause
  <2>4. Cause(rows[r].user, next)
    BY <2>1, <2>2, <2>3 DEF SyncStatus, CustomerHasCause, Cause, Ever, Theirs
  <2>5. Go(p, q) /\ UNCHANGED <<rows, stripe, events>>
    BY <1>5 DEF SyncRetrieve
  <2>6. q.step = "save" /\ q.row = r /\ q.seen = seen /\ q.next = next
    OBVIOUS
  <2> HIDE DEF r, seen, next, q
  <2>7. RequestHasCause(q)
    BY <2>3, <2>4, <2>6 DEF RequestHasCause
  <2>8. QED
    BY <2>5, <2>7, Reads
<1>6. ASSUME SyncRetrieveFails(p)
      PROVE  BillingInvariant'
  <2> DEFINE q == [step |-> "check", row |-> request[p].row,
                   seen |-> request[p].seen, count |-> request[p].count]
  <2>1. Cause(rows[request[p].row].user, request[p].seen)
    BY <1>0, <1>6 DEF SyncRetrieveFails, At, RequestHasCause
  <2>2. Go(p, q) /\ UNCHANGED <<rows, stripe, events>>
    BY <1>6 DEF SyncRetrieveFails
  <2>3. q.step = "check" /\ q.row = request[p].row /\ q.seen = request[p].seen
    OBVIOUS
  <2> HIDE DEF q
  <2>4. RequestHasCause(q)
    BY <2>1, <2>3 DEF RequestHasCause
  <2>5. QED
    BY <2>2, <2>4, Reads
<1>7. ASSUME SyncSave(p)
      PROVE  BillingInvariant'
  <2> DEFINE q == [step |-> "check", row |-> request[p].row,
                   seen |-> request[p].next, count |-> Fresh]
  <2>1. request[p].step = "save" /\ Go(p, q) /\ UNCHANGED <<stripe, events>>
    BY <1>7 DEF SyncSave, At
  <2>2. WriteStatus(request[p].row, request[p].seen, request[p].next)
    BY <1>7 DEF SyncSave
  <2>3. /\ q.step = "check" /\ q.row = request[p].row /\ q.seen = request[p].next
    OBVIOUS
  <2> HIDE DEF q
  <2>4. request'[p] = q
    BY <2>1 DEF Go, Inductive, Typed, TypeOK
  <2>5. QED
    BY <2>1, <2>2, <2>3, <2>4, StatusWritten
<1>8. ASSUME SyncCheck(p)
      PROVE  BillingInvariant'
  <2> DEFINE q == [step |-> "insert", row |-> request[p].row]
  <2>1. RequestHasCause(q)
    BY DEF RequestHasCause
  <2>2. Go(p, q) \/ Answer(p)
    BY <1>8 DEF SyncCheck
  <2>3. UNCHANGED <<rows, stripe, events>>
    BY <1>8 DEF SyncCheck
  <2> HIDE DEF q
  <2>4. QED
    BY <2>1, <2>2, <2>3, Reads, Answers
<1>9. ASSUME SyncInsert(p)
      PROVE  BillingInvariant'
    BY <1>9, Answers DEF SyncInsert
<1>10. QED
    BY <1>1, <1>2, <1>3, <1>4, <1>5, <1>6, <1>7, <1>8, <1>9 DEF Sync

\* A subscription that is cancelled keeps what happened to it before.
LEMMA Cancelled ==
    ASSUME Inductive, Typed', UNCHANGED rows, NEW c \in CustomerId,
           stripe[c].status # "none", Happens(c, "canceled", {}),
           Emit({Of("deleted", c, "canceled")}),
           \A s \in Proc : request'[s] = request[s] \/ RequestHasCause(request[s])'
    PROVE  BillingInvariant'
<1>1. stripe[c].email # None
    BY DEF Inductive, BillingInvariant, CustomerHasCause
<1>2. /\ stripe'[c].email = stripe[c].email
      /\ stripe'[c].status = "canceled"
      /\ stripe[c].was \subseteq stripe'[c].was
      /\ \A k \in CustomerId : k # c => stripe'[k] = stripe[k]
    BY DEF Happens, Inductive, Typed, TypeOK
<1>3. CustomerHasCause(c)'
    BY <1>1, <1>2 DEF CustomerHasCause
<1>4. EventHasCause(Of("deleted", c, "canceled"))'
    BY <1>1, <1>2 DEF EventHasCause, Of
<1>5. \A e \in events' : e \in events \/ EventHasCause(e)'
    BY <1>4 DEF Emit
<1>6. QED
    BY <1>2, <1>3, <1>5, News

LEMMA CancelKeeps ==
    ASSUME Inductive, Typed', NEW p \in Proc, Cancel(p)
    PROVE  BillingInvariant'
<1>1. ASSUME NEW u \in User, NEW r \in RowId, CancelRead(p, u, r)
      PROVE  BillingInvariant'
  <2> DEFINE q == [step |-> "cancel", row |-> r, sub |-> rows[r].sub]
  <2>1. RequestHasCause(q)
    BY DEF RequestHasCause
  <2>2. Go(p, q) /\ UNCHANGED <<rows, stripe, events>>
    BY <1>1 DEF CancelRead
  <2> HIDE DEF q
  <2>3. QED
    BY <2>1, <2>2, Reads
<1>2. ASSUME CancelSubscription(p)
      PROVE  BillingInvariant'
  <2>1. PICK c \in CustomerId : /\ stripe[c].status # "none"
                                /\ Happens(c, "canceled", {})
                                /\ Emit({Of("deleted", c, "canceled")})
    BY <1>2 DEF CancelSubscription
  <2>2. /\ request'[p].step = "cancelled"
        /\ \A s \in Proc : s # p => request'[s] = request[s]
    BY <1>2 DEF CancelSubscription, Go, Inductive, Typed, TypeOK
  <2>3. \A s \in Proc : request'[s] = request[s] \/ RequestHasCause(request[s])'
    BY <2>2 DEF RequestHasCause
  <2>4. UNCHANGED rows
    BY <1>2 DEF CancelSubscription
  <2>5. QED
    BY <2>1, <2>3, <2>4, Cancelled
<1>3. ASSUME CancelSuppressed(p)
      PROVE  BillingInvariant'
  <2> DEFINE q == [step |-> "cancelled", row |-> request[p].row]
  <2>1. RequestHasCause(q)
    BY DEF RequestHasCause
  <2>2. Go(p, q) /\ UNCHANGED <<rows, stripe, events>>
    BY <1>3 DEF CancelSuppressed
  <2> HIDE DEF q
  <2>3. QED
    BY <2>1, <2>2, Reads
<1>4. ASSUME CancelSave(p)
      PROVE  BillingInvariant'
  <2>1. PICK r \in RowId : r = request[p].row /\ Exists(r)
    BY <1>4, HeldRowExists DEF CancelSave, At, NoRowYet, Inductive, Typed
  <2>2. /\ rows'[r].user = rows[r].user
        /\ rows'[r].sub = rows[r].sub
        /\ rows'[r].status = "cancelled"
        /\ \A s \in RowId : s # r => rows'[s] = rows[s]
    BY <1>4, <2>1 DEF CancelSave, Inductive, Typed, TypeOK, Row
  <2>3. UNCHANGED <<stripe, events>>
    BY <1>4 DEF CancelSave
  <2>4. RowFine(r)'
    BY <2>2, <2>3 DEF RowFine, Cause, Theirs, Inductive, BillingInvariant, LinkedByAddress
  <2>5. /\ request'[p].step = "idle"
        /\ \A s \in Proc : s # p => request'[s] = request[s]
    BY <1>4 DEF CancelSave, Answer, Go, Idle, Inductive, Typed, TypeOK
  <2>6. RequestHasCause(request[p])'
    BY <2>5 DEF RequestHasCause
  <2>7. QED
    BY <2>2, <2>3, <2>4, <2>5, <2>6, Writes
<1>5. QED
    BY <1>1, <1>2, <1>3, <1>4 DEF Cancel

LEMMA WebhookKeeps ==
    ASSUME Inductive, Typed', NEW p \in Proc, Webhook(p)
    PROVE  BillingInvariant'
<1>1. ASSUME NEW e \in events, NEW r \in RowId, Hook(p, e, r)
      PROVE  BillingInvariant'
  <2> DEFINE seen == rows[r].status
             next == HookStatus(e, seen)
             q == [step |-> "hook", row |-> r, seen |-> seen, next |-> next,
                   event |-> e]
  <2>1. e \in Event /\ e.sub \in CustomerId /\ rows[r].sub = e.sub
    BY <1>1 DEF Inductive, Typed, TypeOK, Event, Hook, RowsOf
  <2>2. Theirs(e.sub, rows[r].user)
    BY <2>1 DEF Inductive, BillingInvariant, LinkedByAddress, CustomerId
  <2>3. EventHasCause(e) /\ Cause(rows[r].user, seen)
    BY DEF Inductive, BillingInvariant, StatusHasCause
  <2>4. Cause(rows[r].user, next)
    BY <2>1, <2>2, <2>3 DEF HookStatus, EventHasCause, Cause, Ever, Theirs, Event
  <2>5. Go(p, q) /\ UNCHANGED <<rows, stripe, events>>
    BY <1>1 DEF Hook
  <2>6. q.step = "hook" /\ q.row = r /\ q.seen = seen /\ q.next = next
    OBVIOUS
  <2> HIDE DEF seen, next, q
  <2>7. RequestHasCause(q)
    BY <2>3, <2>4, <2>6 DEF RequestHasCause
  <2>8. QED
    BY <2>5, <2>7, Reads
<1>2. ASSUME NEW e \in events, HookUnknown(p, e) \/ HookAmbiguous(p, e)
      PROVE  BillingInvariant'
  <2>1. UNCHANGED <<rows, stripe, request>> /\ events' \subseteq events
    BY <1>2 DEF HookUnknown, HookAmbiguous
  <2>2. Grows
    BY <2>1 DEF Grows
  <2>3. QED
    BY <2>1, <2>2, InvariantKept DEF Inductive
<1>3. ASSUME HookSave(p)
      PROVE  BillingInvariant'
  <2>1. /\ request[p].step = "hook"
        /\ WriteStatus(request[p].row, request[p].seen, request[p].next)
        /\ UNCHANGED stripe
        /\ events' \subseteq events
    BY <1>3 DEF HookSave, At
  <2>2. Go(p, Idle)
    BY <1>3 DEF HookSave, Answer
  <2>3. request'[p].step = "idle"
    BY <2>2 DEF Go, Idle, Inductive, Typed, TypeOK
  <2>4. QED
    BY <2>1, <2>2, <2>3, StatusWritten
<1>4. QED
    BY <1>1, <1>2, <1>3 DEF Webhook

LEMMA StripeKeeps ==
    ASSUME Inductive, Typed', Stripe
    PROVE  BillingInvariant'
<1>1. ASSUME NEW c \in CustomerId, Pay(c)
      PROVE  BillingInvariant'
  <2>1. stripe[c].email # None
    BY <1>1 DEF Pay, Inductive, BillingInvariant, CustomerHasCause
  <2>2. /\ stripe'[c].email = stripe[c].email
        /\ stripe'[c].status = "active"
        /\ stripe'[c].was = stripe[c].was \cup {"paid"}
        /\ \A k \in CustomerId : k # c => stripe'[k] = stripe[k]
    BY <1>1 DEF Pay, Happens, Inductive, Typed, TypeOK
  <2>3. CustomerHasCause(c)'
    BY <2>1, <2>2 DEF CustomerHasCause
  <2>4. \A e \in events' : e \in events \/ EventHasCause(e)'
    BY <1>1, <2>1, <2>2 DEF Pay, Emit, Updated, Of, EventHasCause
  <2>5. UNCHANGED <<rows, request>>
    BY <1>1 DEF Pay
  <2>6. QED
    BY <2>2, <2>3, <2>4, <2>5, News
<1>2. ASSUME NEW c \in CustomerId, NEW status \in {"incomplete", "past_due", "unpaid"},
             FailPay(c, status)
      PROVE  BillingInvariant'
  <2>1. stripe[c].email # None
    BY <1>2 DEF FailPay, Inductive, BillingInvariant, CustomerHasCause
  <2>2. /\ stripe'[c].email = stripe[c].email
        /\ stripe'[c].status = status
        /\ stripe'[c].was = stripe[c].was \cup {"failed"}
        /\ \A k \in CustomerId : k # c => stripe'[k] = stripe[k]
    BY <1>2 DEF FailPay, Happens, Inductive, Typed, TypeOK
  <2>3. CustomerHasCause(c)'
    BY <2>1, <2>2 DEF CustomerHasCause
  <2>4. \A e \in events' : e \in events \/ EventHasCause(e)'
    BY <1>2, <2>1, <2>2 DEF FailPay, Emit, Updated, Of, EventHasCause
  <2>5. UNCHANGED <<rows, request>>
    BY <1>2 DEF FailPay
  <2>6. QED
    BY <2>2, <2>3, <2>4, <2>5, News
<1>3. ASSUME NEW c \in CustomerId, CancelAtStripe(c)
      PROVE  BillingInvariant'
    BY <1>3, Cancelled DEF CancelAtStripe
<1>4. ASSUME NEW c \in CustomerId, NEW r \in RowId, NEW a \in Email,
             CompleteCheckout(r, c, a)
      PROVE  BillingInvariant'
  <2>1. Exists(r)
    BY <1>4 DEF CompleteCheckout, Inductive, Typed, RowsOK
  <2>2. a # None
    BY NoneAssumption
  <2>3. /\ stripe[c].email = None
        /\ stripe'[c].email = a
        /\ stripe'[c].status = "active"
        /\ stripe'[c].was = {"paid"}
        /\ \A k \in CustomerId : k # c => stripe'[k] = stripe[k]
    BY <1>4 DEF CompleteCheckout, IsNextCustomer, Inductive, Typed, TypeOK
  <2>4. CustomerHasCause(c)'
    BY <2>2, <2>3 DEF CustomerHasCause
  <2>5. \A e \in events' : e \in events \/ EventHasCause(e)'
    BY <1>4, <2>2, <2>3 DEF CompleteCheckout, Emit, Of, EventHasCause
  <2>6. UNCHANGED <<rows, request>>
    BY <1>4 DEF CompleteCheckout
  <2>7. QED
    BY <2>3, <2>4, <2>5, <2>6, News
<1>5. ASSUME NEW e \in events, GiveUp(e)
      PROVE  BillingInvariant'
  <2>1. UNCHANGED <<rows, stripe, request>> /\ events' \subseteq events
    BY <1>5 DEF GiveUp
  <2>2. Grows
    BY <2>1 DEF Grows
  <2>3. QED
    BY <2>1, <2>2, InvariantKept DEF Inductive
<1>6. QED
    BY <1>1, <1>2, <1>3, <1>4, <1>5 DEF Stripe

-----------------------------------------------------------------------------
LEMMA InitInductive == Init => Inductive
<1> SUFFICES ASSUME Init PROVE Inductive
    OBVIOUS
<1>1. Typed
    BY InitTyped
<1>2. StatusHasCause /\ LinkedByAddress
    BY DEF Init, StatusHasCause, LinkedByAddress, Cause, NoRow
<1>3. \A c \in CustomerId : CustomerHasCause(c)
    BY DEF Init, CustomerHasCause, NoCustomer
<1>4. \A p \in Proc : RequestHasCause(request[p])
    BY DEF Init, RequestHasCause, Idle
<1>5. \A e \in events : EventHasCause(e)
    BY DEF Init
<1>6. QED
    BY <1>1, <1>2, <1>3, <1>4, <1>5 DEF Inductive, BillingInvariant, Typed

LEMMA NextInductive == Inductive /\ [Next]_vars => Inductive'
<1> SUFFICES ASSUME Inductive, [Next]_vars PROVE Inductive'
    OBVIOUS
<1>1. Typed'
    BY NextTyped DEF Inductive
<1>2. ASSUME NEW p \in Proc, Abandon(p)
      PROVE  BillingInvariant'
    BY <1>1, <1>2, Answers DEF Abandon
<1>3. CASE UNCHANGED vars
  <2>1. Grows
    BY <1>3 DEF vars, Grows
  <2>2. QED
    BY <1>1, <1>3, <2>1, InvariantKept DEF Inductive, vars
<1>4. CASE Next
  <2>1. ASSUME Stripe
        PROVE  BillingInvariant'
    BY <1>1, <2>1, StripeKeeps
  <2>2. ASSUME NEW p \in Proc,
               Create(p) \/ Checkout(p) \/ Sync(p) \/ Cancel(p) \/ Webhook(p)
                 \/ Abandon(p)
        PROVE  BillingInvariant'
    <3>1. CASE Create(p)
      BY <1>1, <3>1, CreateKeeps
    <3>2. CASE Checkout(p)
      BY <1>1, <3>2, CheckoutKeeps
    <3>3. CASE Sync(p)
      BY <1>1, <3>3, SyncKeeps
    <3>4. CASE Cancel(p)
      BY <1>1, <3>4, CancelKeeps
    <3>5. CASE Webhook(p)
      BY <1>1, <3>5, WebhookKeeps
    <3>6. CASE Abandon(p)
      BY <1>2, <3>6
    <3>7. QED
      BY <2>2, <3>1, <3>2, <3>3, <3>4, <3>5, <3>6
  <2>3. BillingInvariant'
    BY <1>4, <2>1, <2>2 DEF Next
  <2>4. QED
    BY <1>1, <2>3 DEF Inductive
<1>5. QED
    BY <1>1, <1>3, <1>4 DEF Inductive

(***************************************************************************)
(* Whatever is going to be written into a row has its cause at Stripe: the *)
(* inductive invariant, in every reachable state.                          *)
(***************************************************************************)
THEOREM BillingInvariantHolds == Spec => []BillingInvariant
<1>1. Inductive => BillingInvariant
    BY DEF Inductive
<1>2. QED
    BY <1>1, InitInductive, NextInductive, PTL DEF Spec

(***************************************************************************)
(* A row is active only if an invoice under an address of its user was     *)
(* paid, and past due only if a payment under one failed, with any number  *)
(* of requests at a time, events repeated and delivered in any order, and  *)
(* addresses that are changed, or that several users share.                *)
(***************************************************************************)
THEOREM NobodyIsCoveredForNothing == Spec => []StatusHasCause
<1>1. BillingInvariant => StatusHasCause
    BY DEF BillingInvariant
<1>2. QED
    BY <1>1, BillingInvariantHolds, PTL

\* A row is only ever linked to a Stripe subscription under an address that its
\* user has had, whichever user of that address bought it.
THEOREM LinksAreUnderAnAddress == Spec => []LinkedByAddress
<1>1. BillingInvariant => LinkedByAddress
    BY DEF BillingInvariant
<1>2. QED
    BY <1>1, BillingInvariantHolds, PTL

-----------------------------------------------------------------------------
(***************************************************************************)
(* What holds while no two requests work on one row at a time: a row's     *)
(* status is due to its own subscription, a referrer is paid once, and     *)
(* nobody but the customer drops a cover that Stripe still charges.        *)
(* AloneInvariant is inductive under that condition.                       *)
(***************************************************************************)
\* The payment, or the failure, that a status stands for is one of the
\* subscription the row is linked to.
LinkedCause(r, status) ==
    LET c == rows[r].sub
    IN  /\ status = "active" => c # 0 /\ "paid" \in stripe[c].was
        /\ status = "past_due" => c # 0 /\ "failed" \in stripe[c].was

OverAtStripe(r) == rows[r].sub # 0 => stripe[rows[r].sub].status = "canceled"

EndHasCause(e) ==
    e.type = "deleted" \/ (e.type = "updated" /\ e.status = "canceled") =>
        stripe[e.sub].status = "canceled"

\* What the only request in progress may rely on.
AloneOK(q) ==
    /\ q.step \in {"link", "linked"} => rows[q.row].sub = 0
    /\ q.step = "retrieve" => rows[q.row].sub = q.sub
    /\ q.step \in {"link", "linked", "retrieve", "save", "hook"} =>
         LinkedCause(q.row, q.seen)
    /\ q.step \in {"save", "hook"} =>
         /\ LinkedCause(q.row, q.next)
         /\ q.next = "cancelled" => q.seen = "cancelled" \/ OverAtStripe(q.row)
    /\ q.step \in {"commission", "insert"} => commissions[q.row] = 0
    /\ q.step \in {"retrieve", "check"} => q.count \in {Fresh, commissions[q.row]}

AloneInvariant ==
    /\ StatusHasLinkedCause
    /\ CommissionOnce
    /\ \A r \in RowId : ~Exists(r) => commissions[r] = 0
    /\ \A e \in events : EndHasCause(e)
    /\ \A p \in Proc : AloneOK(request[p])

\* The action property, of a step.
DropsOwned ==
    \A r \in RowId :
        /\ rows[r].status # "cancelled"
        /\ rows'[r].status = "cancelled"
        /\ rows'[r].sub # 0
        /\ stripe[rows'[r].sub].status # "canceled"
        => \E p \in Proc : At(p, "cancelled") /\ request[p].row = r

AloneStep == AloneInvariant' /\ DropsOwned

\* No two requests work on one row; requests that come one after another do not.
RequestsApart ==
    \A p, q \in Proc :
        /\ request[p].step \notin NoRowYet
        /\ request[q].step \notin NoRowYet
        /\ request[p].row = request[q].row
        => p = q

AloneInductive == Inductive /\ AloneInvariant

LEMMA AloneTypes ==
    ASSUME AloneInductive
    PROVE  /\ TypeOK /\ RowsOK
           /\ rows \in [RowId -> Row]
           /\ commissions \in [RowId -> Nat]
           /\ stripe \in [CustomerId -> Customer]
           /\ request \in [Proc -> Request]
           /\ \A r \in RowId : /\ LinkedCause(r, rows[r].status)
                               /\ commissions[r] <= 1
                               /\ ~Exists(r) => commissions[r] = 0 /\ rows[r] = NoRow
                               /\ rows[r].sub \in {0} \cup CustomerId
           /\ \A e \in events : EndHasCause(e) /\ EventHasCause(e) /\ e \in Event
           /\ \A p \in Proc : /\ request[p] \in Request
                              /\ AloneOK(request[p])
                              /\ RequestHasCause(request[p])
           /\ \A c \in CustomerId : CustomerHasCause(c)
    BY DEF AloneInductive, Inductive, Typed, TypeOK, BillingInvariant,
       AloneInvariant, RowsOK, StatusHasLinkedCause, LinkedCause, CommissionOnce, Row

LEMMA AloneHeld ==
    ASSUME AloneInductive, NEW p \in Proc, request[p].step \notin NoRowYet
    PROVE  request[p].row \in RowId /\ Exists(request[p].row)
    BY AloneTypes, HeldRowExists

\* What Stripe did of a subscription stays done, and a cancelled one is over.
Evolves == \A c \in CustomerId :
               stripe[c].email # None =>
                   /\ stripe[c].was \subseteq stripe'[c].was
                   /\ stripe[c].status = "canceled" => stripe'[c].status = "canceled"

\* The subscription of a row is somebody's.
LEMMA LinkedCustomer ==
    ASSUME AloneInductive, NEW r \in RowId, rows[r].sub # 0
    PROVE  rows[r].sub \in CustomerId /\ stripe[rows[r].sub].email # None
<1>1. rows[r].sub \in CustomerId /\ Exists(r)
    BY AloneTypes DEF NoRow
<1>2. Theirs(rows[r].sub, rows[r].user) /\ rows[r].user \in User
    BY <1>1, AloneTypes DEF AloneInductive, Inductive, BillingInvariant,
       LinkedByAddress, RowsOK
<1>3. QED
    BY <1>1, <1>2, TheirsStay

\* Stripe's news do not hurt what is known of a row.
LEMMA KnownOfRow ==
    ASSUME AloneInductive, NEW r \in RowId, Evolves, UNCHANGED rows
    PROVE  /\ \A status : LinkedCause(r, status) => LinkedCause(r, status)'
           /\ OverAtStripe(r) => OverAtStripe(r)'
<1>1. CASE rows[r].sub = 0
    BY <1>1 DEF LinkedCause, OverAtStripe
<1>2. CASE rows[r].sub # 0
  <2>1. PICK c \in CustomerId : c = rows[r].sub /\ stripe[c].email # None
    BY <1>2, LinkedCustomer
  <2>2. /\ stripe[c].was \subseteq stripe'[c].was
        /\ stripe[c].status = "canceled" => stripe'[c].status = "canceled"
    BY <2>1 DEF Evolves
  <2>3. QED
    BY <2>1, <2>2 DEF LinkedCause, OverAtStripe
<1>3. QED
    BY <1>1, <1>2

LEMMA NewsKeepAlone ==
    ASSUME AloneInductive, UNCHANGED rows, UNCHANGED commissions, Evolves,
           \A e \in events' : e \in events \/ EndHasCause(e)',
           \A p \in Proc : request'[p] = request[p] \/ AloneOK(request[p])'
    PROVE  AloneStep
<1>1. DropsOwned
    BY DEF DropsOwned
<1>2. StatusHasLinkedCause'
  <2>1. \A r \in RowId : LinkedCause(r, rows[r].status)'
    BY AloneTypes, KnownOfRow
  <2>2. QED
    BY <2>1 DEF StatusHasLinkedCause, LinkedCause
<1>3. CommissionOnce' /\ \A r \in RowId : ~Exists(r)' => commissions'[r] = 0
    BY AloneTypes DEF CommissionOnce, Exists
<1>4. ASSUME NEW e \in events'
      PROVE  EndHasCause(e)'
  <2>1. CASE e \in events
    <3>1. e.sub \in CustomerId /\ stripe[e.sub].email # None /\ EndHasCause(e)
      BY <2>1, AloneTypes DEF Event, EventHasCause
    <3>2. QED
      BY <3>1 DEF EndHasCause, Evolves
  <2>2. QED
    BY <1>4, <2>1
<1>5. ASSUME NEW p \in Proc
      PROVE  AloneOK(request[p])'
  <2>1. SUFFICES ASSUME NEW q, q = request[p], q = request'[p]
                 PROVE  AloneOK(q)'
    BY DEF AloneOK
  <2>2. AloneOK(q) /\ q \in Request
    BY <2>1, AloneTypes
  <2>3. q.step \notin NoRowYet => q.row \in RowId
    BY <2>1, AloneHeld
  <2>4. CASE q.step \in NoRowYet
    BY <2>4 DEF AloneOK, NoRowYet
  <2>5. CASE q.step \notin NoRowYet
    <3>1. /\ \A status : LinkedCause(q.row, status) => LinkedCause(q.row, status)'
          /\ OverAtStripe(q.row) => OverAtStripe(q.row)'
      BY <2>3, <2>5, KnownOfRow
    <3>2. QED
      BY <2>2, <3>1 DEF AloneOK
  <2>6. QED
    BY <2>4, <2>5
<1>6. QED
    BY <1>1, <1>2, <1>3, <1>4, <1>5 DEF AloneStep, AloneInvariant

\* A request reads, or ends.
LEMMA ReadsKeepAlone ==
    ASSUME AloneInductive, NEW p \in Proc, NEW q, Go(p, q), AloneOK(q),
           UNCHANGED rows, UNCHANGED commissions, UNCHANGED stripe,
           events' \subseteq events
    PROVE  AloneStep
<1>1. Evolves
    BY DEF Evolves
<1>2. request'[p] = q /\ \A s \in Proc : s # p => request'[s] = request[s]
    BY AloneTypes DEF Go
<1>3. AloneOK(q)'
    BY DEF AloneOK, LinkedCause, OverAtStripe
<1>4. \A s \in Proc : request'[s] = request[s] \/ AloneOK(request[s])'
    BY <1>2, <1>3 DEF AloneOK
<1>5. QED
    BY <1>1, <1>4, NewsKeepAlone

LEMMA AnswersKeepAlone ==
    ASSUME AloneInductive, NEW p \in Proc, Answer(p), UNCHANGED rows,
           UNCHANGED commissions, UNCHANGED stripe, events' \subseteq events
    PROVE  AloneStep
<1>1. AloneOK(Idle)
    BY DEF AloneOK, Idle
<1>2. QED
    BY <1>1, ReadsKeepAlone DEF Answer

\* The only request that holds a row writes it, or adds a commission to it.
LEMMA WritesKeepAlone ==
    ASSUME AloneInductive, RequestsApart, NEW p \in Proc, NEW r \in RowId,
           NEW q, Go(p, q),
           ~Exists(r) \/ (request[p].step \notin NoRowYet /\ request[p].row = r),
           AloneOK(q)', UNCHANGED stripe, events' \subseteq events,
           \A s \in RowId : s # r => rows'[s] = rows[s],
           \A s \in RowId : s # r => commissions'[s] = commissions[s],
           Exists(r)', commissions'[r] <= 1,
           LinkedCause(r, rows[r].status)',
           \/ rows[r].status = "cancelled" \/ rows'[r].status # "cancelled"
           \/ rows'[r].sub = 0 \/ stripe[rows'[r].sub].status = "canceled"
           \/ At(p, "cancelled") /\ request[p].row = r
    PROVE  AloneStep
<1>1. DropsOwned
    BY DEF DropsOwned
<1>2. request'[p] = q /\ \A s \in Proc : s # p => request'[s] = request[s]
    BY AloneTypes DEF Go
<1>3. ASSUME NEW s \in Proc
      PROVE  AloneOK(request[s])'
  <2>1. CASE s = p
    BY <1>2, <2>1 DEF AloneOK
  <2>2. CASE s # p
    <3>1. PICK t : t = request[s] /\ t = request'[s]
      BY <1>2, <2>2
    <3>2. AloneOK(t)
      BY <3>1, AloneTypes
    <3>3. t.step \notin NoRowYet =>
            /\ t.row \in RowId /\ t.row # r
            /\ rows'[t.row] = rows[t.row] /\ commissions'[t.row] = commissions[t.row]
      BY <2>2, <3>1, AloneHeld DEF RequestsApart
    <3>4. AloneOK(t)'
      BY <3>2, <3>3 DEF AloneOK, NoRowYet, LinkedCause, OverAtStripe
    <3>5. QED
      BY <3>1, <3>4 DEF AloneOK
  <2>3. QED
    BY <2>1, <2>2
<1>4. StatusHasLinkedCause'
  <2>1. ASSUME NEW s \in RowId
        PROVE  LinkedCause(s, rows[s].status)'
    <3>1. CASE s = r
      BY <3>1
    <3>2. CASE s # r
      BY <3>2, AloneTypes DEF LinkedCause
    <3>3. QED
      BY <3>1, <3>2
  <2>2. QED
    BY <2>1 DEF StatusHasLinkedCause, LinkedCause
<1>5. CommissionOnce' /\ \A s \in RowId : ~Exists(s)' => commissions'[s] = 0
    BY AloneTypes DEF CommissionOnce, Exists
<1>6. \A e \in events' : EndHasCause(e)'
    BY AloneTypes DEF EndHasCause
<1>7. QED
    BY <1>1, <1>3, <1>4, <1>5, <1>6 DEF AloneStep, AloneInvariant

-----------------------------------------------------------------------------
(* The actions. *)

LEMMA CreateAlone ==
    ASSUME AloneInductive, RequestsApart, NEW p \in Proc, Create(p)
    PROVE  AloneStep
<1>1. ASSUME NEW u \in User, NEW ref \in User \cup {None}, CreateCheck(p, u, ref)
      PROVE  AloneStep
    BY <1>1, ReadsKeepAlone DEF CreateCheck, AloneOK
<1>2. ASSUME NEW c \in CustomerId, NEW a \in Email, NEW ok \in BOOLEAN,
             CreateAtStripe(p, c, a, ok)
      PROVE  AloneStep
  <2>1. /\ stripe[c].email = None
        /\ \A k \in CustomerId : k # c => stripe'[k] = stripe[k]
    BY <1>2, AloneTypes DEF CreateAtStripe, IsNextCustomer
  <2>2. Evolves
    BY <2>1 DEF Evolves
  <2>3. PICK q : Go(p, q) /\ q.step \in {"idle", "created"}
    BY <1>2 DEF CreateAtStripe, Answer, Idle
  <2>4. request'[p] = q /\ \A s \in Proc : s # p => request'[s] = request[s]
    BY <2>3, AloneTypes DEF Go
  <2>5. \A s \in Proc : request'[s] = request[s] \/ AloneOK(request[s])'
    BY <2>3, <2>4 DEF AloneOK
  <2>6. UNCHANGED rows /\ UNCHANGED commissions /\ UNCHANGED events
    BY <1>2 DEF CreateAtStripe
  <2>7. \A e \in events' : e \in events \/ EndHasCause(e)'
    BY <2>6
  <2>8. QED
    BY <2>2, <2>5, <2>6, <2>7, NewsKeepAlone
<1>3. ASSUME NEW r \in RowId, CreateRow(p, r)
      PROVE  AloneStep
  <2> DEFINE q == IF request[p].ref = None THEN Idle
                                         ELSE [step |-> "commission", row |-> r]
             row == [user |-> request[p].user, status |-> "incomplete",
                     sub |-> request[p].sub, ref |-> request[p].ref]
  <2>1. Go(p, q) /\ rows' = [rows EXCEPT ![r] = row] /\ ~Exists(r)
    BY <1>3 DEF CreateRow, IsNextRow, Answer
  <2>2. row.status = "incomplete"
    OBVIOUS
  <2>3. q.step = "idle" \/ (q.step = "commission" /\ q.row = r)
    BY DEF Idle
  <2> HIDE DEF q, row
  <2>4. rows'[r] = row /\ \A s \in RowId : s # r => rows'[s] = rows[s]
    BY <2>1, AloneTypes
  <2>5. UNCHANGED commissions /\ UNCHANGED stripe /\ UNCHANGED events
    BY <1>3 DEF CreateRow
  <2>6. commissions[r] = 0 /\ rows[r].sub = 0
    BY <2>1, AloneTypes DEF NoRow
  <2>7. PICK t : t = q
    OBVIOUS
  <2>8. AloneOK(t)'
    BY <2>3, <2>5, <2>6, <2>7 DEF AloneOK
  <2>9. Exists(r)' /\ LinkedCause(r, rows[r].status)' /\ rows'[r].status # "cancelled"
    BY <2>2, <2>4 DEF Exists, LinkedCause
  <2>10. Go(p, t)
    BY <2>1, <2>7
  <2>11. QED
    BY <2>1, <2>4, <2>5, <2>6, <2>8, <2>9, <2>10, WritesKeepAlone
<1>4. ASSUME CreateCommission(p)
      PROVE  AloneStep
  <2>0. request[p].step \notin NoRowYet
    BY <1>4 DEF CreateCommission, At, NoRowYet
  <2>1. PICK r \in RowId : r = request[p].row /\ Exists(r) /\ commissions[r] = 0
    BY <1>4, AloneHeld, AloneTypes DEF CreateCommission, At, NoRowYet, AloneOK
  <2>2. /\ commissions' = [commissions EXCEPT ![r] = @ + 1] /\ Go(p, Idle)
        /\ UNCHANGED rows /\ UNCHANGED stripe /\ UNCHANGED events
    BY <1>4, <2>1 DEF CreateCommission, Answer
  <2>3. AloneOK(Idle)'
    BY DEF AloneOK, Idle
  <2>4. commissions'[r] = 1 /\ \A s \in RowId : s # r => commissions'[s] = commissions[s]
    BY <2>1, <2>2, AloneTypes
  <2>5. Exists(r)' /\ LinkedCause(r, rows[r].status)'
    BY <2>1, <2>2, AloneTypes DEF Exists, LinkedCause
  <2>6. QED
    BY <2>0, <2>1, <2>2, <2>3, <2>4, <2>5, WritesKeepAlone
<1>5. QED
    BY <1>1, <1>2, <1>3, <1>4 DEF Create

LEMMA CheckoutAlone ==
    ASSUME AloneInductive, RequestsApart, NEW p \in Proc, Checkout(p)
    PROVE  AloneStep
<1>1. ASSUME NEW u \in User, NEW ref \in User \cup {None}, CheckoutCheck(p, u, ref)
      PROVE  AloneStep
    BY <1>1, ReadsKeepAlone DEF CheckoutCheck, AloneOK
<1>2. ASSUME NEW r \in RowId, CheckoutRow(p, r)
      PROVE  AloneStep
  <2> DEFINE q == [step |-> "session", row |-> r]
             row == [user |-> request[p].user, status |-> "pending", sub |-> 0,
                     ref |-> request[p].ref]
  <2>1. Go(p, q) /\ rows' = [rows EXCEPT ![r] = row] /\ ~Exists(r)
    BY <1>2 DEF CheckoutRow, IsNextRow
  <2>2. row.status = "pending" /\ q.step = "session"
    OBVIOUS
  <2> HIDE DEF q, row
  <2>3. rows'[r] = row /\ \A s \in RowId : s # r => rows'[s] = rows[s]
    BY <2>1, AloneTypes
  <2>4. UNCHANGED commissions /\ UNCHANGED stripe /\ UNCHANGED events
    BY <1>2 DEF CheckoutRow
  <2>5. commissions[r] = 0 /\ rows[r].sub = 0
    BY <2>1, AloneTypes DEF NoRow
  <2>6. PICK t : t = q
    OBVIOUS
  <2>7. AloneOK(t)' /\ Go(p, t)
    BY <2>1, <2>2, <2>6 DEF AloneOK
  <2>8. Exists(r)' /\ LinkedCause(r, rows[r].status)' /\ rows'[r].status # "cancelled"
    BY <2>2, <2>3 DEF Exists, LinkedCause
  <2>9. QED
    BY <2>1, <2>3, <2>4, <2>5, <2>7, <2>8, WritesKeepAlone
<1>3. ASSUME CheckoutSession(p)
      PROVE  AloneStep
    BY <1>3, AnswersKeepAlone DEF CheckoutSession
<1>4. QED
    BY <1>1, <1>2, <1>3 DEF Checkout

\* save and hook: the status that was decided on is written.
LEMMA StatusAlone ==
    ASSUME AloneInductive, RequestsApart, NEW p \in Proc,
           request[p].step \in {"save", "hook"},
           WriteStatus(request[p].row, request[p].seen, request[p].next),
           NEW q, Go(p, q), q.step = "idle" \/ (q.step = "check" /\ q.count = Fresh),
           UNCHANGED commissions, UNCHANGED stripe, events' \subseteq events
    PROVE  AloneStep
<1>0. request[p].step \notin NoRowYet
    BY DEF NoRowYet
<1>1. PICK r \in RowId : r = request[p].row /\ Exists(r)
    BY <1>0, AloneHeld
<1>2. PICK next \in RowStatus, seen \in RowStatus :
        next = request[p].next /\ seen = request[p].seen
    BY AloneTypes, Shapes
<1>3. /\ LinkedCause(r, next)
      /\ next = "cancelled" => seen = "cancelled" \/ OverAtStripe(r)
    BY <1>1, <1>2, AloneTypes DEF AloneOK
<1>4. rows' = IF next = seen THEN rows ELSE [rows EXCEPT ![r].status = next]
    BY <1>1, <1>2 DEF WriteStatus
<1>5. /\ \A s \in RowId : s # r => rows'[s] = rows[s]
      /\ rows'[r].sub = rows[r].sub
      /\ rows'[r] = rows[r] \/ (next # seen /\ rows'[r].status = next)
  <2>1. rows[r] \in Row
    BY AloneTypes
  <2>2. QED
    BY <1>4, <2>1, AloneTypes DEF Row
<1>6. Exists(r)'
    BY <1>1, <1>2, <1>5 DEF Exists, RowStatus, Live
<1>7. LinkedCause(r, rows[r].status)'
  <2>1. LinkedCause(r, rows[r].status)
    BY AloneTypes
  <2>2. QED
    BY <1>3, <1>5, <2>1 DEF LinkedCause
<1>8. \/ rows[r].status = "cancelled" \/ rows'[r].status # "cancelled"
      \/ rows'[r].sub = 0 \/ stripe[rows'[r].sub].status = "canceled"
    BY <1>3, <1>5 DEF OverAtStripe
<1>9. AloneOK(q)'
    BY DEF AloneOK
<1>10. commissions'[r] <= 1 /\ \A s \in RowId : s # r => commissions'[s] = commissions[s]
    BY AloneTypes
<1>11. QED
    BY <1>0, <1>1, <1>5, <1>6, <1>7, <1>8, <1>9, <1>10, WritesKeepAlone

LEMMA SyncAlone ==
    ASSUME AloneInductive, RequestsApart, NEW p \in Proc, Sync(p)
    PROVE  AloneStep
<1>0. request[p] \in Request /\ AloneOK(request[p])
    BY AloneTypes
<1>1. ASSUME NEW u \in User, NEW r \in RowId, SyncRead(p, u, r)
      PROVE  AloneStep
  <2> DEFINE q == IF rows[r].sub = 0
                  THEN [step |-> "link", row |-> r, seen |-> rows[r].status]
                  ELSE [step |-> "retrieve", row |-> r, seen |-> rows[r].status,
                        sub |-> rows[r].sub, count |-> commissions[r]]
  <2>1. /\ Go(p, q) /\ UNCHANGED rows /\ UNCHANGED commissions
        /\ UNCHANGED stripe /\ UNCHANGED events
    BY <1>1 DEF SyncRead
  <2>2. /\ q.row = r /\ q.seen = rows[r].status
        /\ \/ q.step = "link" /\ rows[r].sub = 0
           \/ /\ q.step = "retrieve" /\ q.sub = rows[r].sub
              /\ q.count = commissions[r]
    OBVIOUS
  <2> HIDE DEF q
  <2>3. LinkedCause(r, rows[r].status)
    BY AloneTypes
  <2>4. AloneOK(q)
    BY <2>2, <2>3 DEF AloneOK
  <2>5. QED
    BY <2>1, <2>4, ReadsKeepAlone
<1>2. ASSUME NEW c \in CustomerId, NEW a \in Email, SyncLink(p, c, a)
      PROVE  AloneStep
  <2> DEFINE q == [step |-> "linked", row |-> request[p].row, sub |-> c,
                   seen |-> request[p].seen]
  <2>1. /\ Go(p, q) /\ UNCHANGED rows /\ UNCHANGED commissions
        /\ UNCHANGED stripe /\ UNCHANGED events
    BY <1>2 DEF SyncLink
  <2>2. /\ rows[request[p].row].sub = 0
        /\ LinkedCause(request[p].row, request[p].seen)
    BY <1>0, <1>2 DEF SyncLink, At, AloneOK
  <2>3. /\ q.step = "linked" /\ q.row = request[p].row /\ q.seen = request[p].seen
    OBVIOUS
  <2> HIDE DEF q
  <2>4. AloneOK(q)
    BY <2>2, <2>3 DEF AloneOK
  <2>5. QED
    BY <2>1, <2>4, ReadsKeepAlone
<1>3. ASSUME SyncNothing(p)
      PROVE  AloneStep
    BY <1>3, AnswersKeepAlone DEF SyncNothing
<1>4. ASSUME SyncSaveLink(p)
      PROVE  AloneStep
  <2>0. request[p].step \notin NoRowYet
    BY <1>4 DEF SyncSaveLink, At, NoRowYet
  <2>1. PICK r \in RowId : r = request[p].row /\ Exists(r)
    BY <2>0, AloneHeld
  <2>2. PICK c, seen : c = request[p].sub /\ seen = request[p].seen
    OBVIOUS
  <2>3. rows[r].sub = 0 /\ LinkedCause(r, seen)
    BY <1>0, <1>4, <2>1, <2>2 DEF SyncSaveLink, At, AloneOK
  <2> DEFINE q == [step |-> "retrieve", row |-> r, sub |-> c, seen |-> seen,
                   count |-> Fresh]
  <2>4. /\ Go(p, q) /\ rows' = [rows EXCEPT ![r].sub = c]
        /\ UNCHANGED commissions /\ UNCHANGED stripe /\ UNCHANGED events
    BY <1>4, <2>1, <2>2 DEF SyncSaveLink
  <2>5. /\ q.step = "retrieve" /\ q.row = r /\ q.sub = c /\ q.seen = seen
        /\ q.count = Fresh
    OBVIOUS
  <2> HIDE DEF q
  <2>6. /\ rows'[r].sub = c /\ rows'[r].status = rows[r].status
        /\ \A s \in RowId : s # r => rows'[s] = rows[s]
    BY <2>4, AloneTypes DEF Row
  <2>7. \A status : LinkedCause(r, status) => LinkedCause(r, status)'
    BY <2>3 DEF LinkedCause
  <2>8. PICK t : t = q
    OBVIOUS
  <2>9. AloneOK(t)' /\ Go(p, t)
    BY <2>3, <2>4, <2>5, <2>6, <2>7, <2>8 DEF AloneOK
  <2>10. LinkedCause(r, rows[r].status)' /\ Exists(r)'
    <3>1. PICK status : status = rows[r].status
      OBVIOUS
    <3>2. LinkedCause(r, status)'
      BY <2>7, <3>1, AloneTypes
    <3>3. QED
      BY <2>1, <2>6, <3>1, <3>2 DEF Exists
  <2>11. commissions'[r] <= 1 /\ \A s \in RowId : s # r => commissions'[s] = commissions[s]
    BY <2>4, AloneTypes
  <2>12. QED
    BY <2>0, <2>1, <2>3, <2>4, <2>6, <2>9, <2>10, <2>11, WritesKeepAlone
<1>5. ASSUME SyncRetrieve(p)
      PROVE  AloneStep
  <2>1. PICK r \in RowId : r = request[p].row /\ Exists(r)
    BY <1>5, AloneHeld DEF SyncRetrieve, At, NoRowYet
  <2>2. PICK c \in CustomerId, seen \in RowStatus :
          c = request[p].sub /\ seen = request[p].seen
    BY <1>0, <1>5, Shapes DEF SyncRetrieve, At
  <2>3. rows[r].sub = c /\ LinkedCause(r, seen)
    BY <1>0, <1>5, <2>1, <2>2 DEF SyncRetrieve, At, AloneOK
  <2> DEFINE next == SyncStatus(stripe[c].status, seen)
             q == [step |-> "save", row |-> r, seen |-> seen, next |-> next]
  <2>4. /\ Go(p, q) /\ UNCHANGED rows /\ UNCHANGED commissions
        /\ UNCHANGED stripe /\ UNCHANGED events
    BY <1>5, <2>1, <2>2 DEF SyncRetrieve
  <2>5. /\ LinkedCause(r, next)
        /\ next = "cancelled" => seen = "cancelled" \/ OverAtStripe(r)
    <3>1. CustomerHasCause(c) /\ c # 0
      BY AloneTypes DEF CustomerId
    <3>2. QED
      BY <2>3, <3>1 DEF SyncStatus, CustomerHasCause, LinkedCause, OverAtStripe
  <2>6. q.step = "save" /\ q.row = r /\ q.seen = seen /\ q.next = next
    OBVIOUS
  <2> HIDE DEF q, next
  <2>7. AloneOK(q)
    BY <2>3, <2>5, <2>6 DEF AloneOK
  <2>8. QED
    BY <2>4, <2>7, ReadsKeepAlone
<1>6. ASSUME SyncRetrieveFails(p)
      PROVE  AloneStep
  <2> DEFINE q == [step |-> "check", row |-> request[p].row, seen |-> request[p].seen,
                   count |-> request[p].count]
  <2>1. /\ Go(p, q) /\ UNCHANGED rows /\ UNCHANGED commissions
        /\ UNCHANGED stripe /\ UNCHANGED events
    BY <1>6 DEF SyncRetrieveFails
  <2>2. AloneOK(q)
    BY <1>0, <1>6 DEF SyncRetrieveFails, At, AloneOK
  <2> HIDE DEF q
  <2>3. QED
    BY <2>1, <2>2, ReadsKeepAlone
<1>7. ASSUME SyncSave(p)
      PROVE  AloneStep
  <2> DEFINE q == [step |-> "check", row |-> request[p].row, seen |-> request[p].next,
                   count |-> Fresh]
  <2>1. /\ Go(p, q) /\ request[p].step = "save"
        /\ WriteStatus(request[p].row, request[p].seen, request[p].next)
        /\ UNCHANGED commissions /\ UNCHANGED stripe /\ UNCHANGED events
    BY <1>7 DEF SyncSave, At
  <2>2. q.step = "check" /\ q.count = Fresh
    OBVIOUS
  <2> HIDE DEF q
  <2>3. PICK t : t = q
    OBVIOUS
  <2>4. QED
    BY <2>1, <2>2, <2>3, StatusAlone
<1>8. ASSUME SyncCheck(p)
      PROVE  AloneStep
  <2>1. PICK n \in {commissions[request[p].row], request[p].count} \ {Fresh} :
             IF request[p].seen = "active" /\ rows[request[p].row].ref # None /\ n = 0
             THEN Go(p, [step |-> "insert", row |-> request[p].row])
             ELSE Answer(p)
    BY <1>8 DEF SyncCheck
  <2>2. UNCHANGED rows /\ UNCHANGED commissions /\ UNCHANGED stripe /\ UNCHANGED events
    BY <1>8 DEF SyncCheck
  <2>3. n = commissions[request[p].row]
    BY <1>0, <1>8, <2>1 DEF SyncCheck, At, AloneOK
  <2>4. CASE Answer(p)
    BY <2>2, <2>4, AnswersKeepAlone
  <2>5. ASSUME n = 0, Go(p, [step |-> "insert", row |-> request[p].row])
        PROVE  AloneStep
    <3> DEFINE q == [step |-> "insert", row |-> request[p].row]
    <3>1. AloneOK(q)
      BY <2>3, <2>5 DEF AloneOK
    <3> HIDE DEF q
    <3>2. QED
      BY <2>2, <2>5, <3>1, ReadsKeepAlone DEF q
  <2>6. QED
    BY <2>1, <2>4, <2>5
<1>9. ASSUME SyncInsert(p)
      PROVE  AloneStep
  <2>0. request[p].step \notin NoRowYet
    BY <1>9 DEF SyncInsert, At, NoRowYet
  <2>1. PICK r \in RowId : r = request[p].row /\ Exists(r) /\ commissions[r] = 0
    BY <1>9, AloneHeld, AloneTypes DEF SyncInsert, At, NoRowYet, AloneOK
  <2>2. /\ commissions' = [commissions EXCEPT ![r] = @ + 1] /\ Go(p, Idle)
        /\ UNCHANGED rows /\ UNCHANGED stripe /\ UNCHANGED events
    BY <1>9, <2>1 DEF SyncInsert, Answer
  <2>3. AloneOK(Idle)'
    BY DEF AloneOK, Idle
  <2>4. commissions'[r] = 1 /\ \A s \in RowId : s # r => commissions'[s] = commissions[s]
    BY <2>1, <2>2, AloneTypes
  <2>5. Exists(r)' /\ LinkedCause(r, rows[r].status)'
    BY <2>1, <2>2, AloneTypes DEF Exists, LinkedCause
  <2>6. QED
    BY <2>0, <2>1, <2>2, <2>3, <2>4, <2>5, WritesKeepAlone
<1>10. QED
    BY <1>1, <1>2, <1>3, <1>4, <1>5, <1>6, <1>7, <1>8, <1>9 DEF Sync

\* A subscription is cancelled at Stripe.
LEMMA CancelledAlone ==
    ASSUME AloneInductive, NEW c \in CustomerId, Happens(c, "canceled", {}),
           Emit({Of("deleted", c, "canceled")}), UNCHANGED rows,
           UNCHANGED commissions,
           \A s \in Proc : request'[s] = request[s] \/ AloneOK(request[s])'
    PROVE  AloneStep
<1>1. /\ stripe'[c].status = "canceled" /\ stripe[c].was \subseteq stripe'[c].was
      /\ \A k \in CustomerId : k # c => stripe'[k] = stripe[k]
    BY AloneTypes DEF Happens
<1>2. Evolves
    BY <1>1 DEF Evolves
<1>3. \A e \in events' : e \in events \/ EndHasCause(e)'
    BY <1>1 DEF Emit, Of, EndHasCause
<1>4. QED
    BY <1>2, <1>3, NewsKeepAlone

LEMMA CancelAlone ==
    ASSUME AloneInductive, RequestsApart, NEW p \in Proc, Cancel(p)
    PROVE  AloneStep
<1>1. ASSUME NEW u \in User, NEW r \in RowId, CancelRead(p, u, r)
      PROVE  AloneStep
  <2> DEFINE q == [step |-> "cancel", row |-> r, sub |-> rows[r].sub]
  <2>1. /\ Go(p, q) /\ UNCHANGED rows /\ UNCHANGED commissions
        /\ UNCHANGED stripe /\ UNCHANGED events
    BY <1>1 DEF CancelRead
  <2>2. AloneOK(q)
    BY DEF AloneOK
  <2> HIDE DEF q
  <2>3. QED
    BY <2>1, <2>2, ReadsKeepAlone
<1>2. ASSUME CancelSubscription(p)
      PROVE  AloneStep
  <2>1. PICK c \in CustomerId : /\ Happens(c, "canceled", {})
                                /\ Emit({Of("deleted", c, "canceled")})
    BY <1>2 DEF CancelSubscription
  <2>2. /\ request'[p].step = "cancelled"
        /\ \A s \in Proc : s # p => request'[s] = request[s]
    BY <1>2, AloneTypes DEF CancelSubscription, Go
  <2>3. \A s \in Proc : request'[s] = request[s] \/ AloneOK(request[s])'
    BY <2>2 DEF AloneOK
  <2>4. UNCHANGED rows /\ UNCHANGED commissions
    BY <1>2 DEF CancelSubscription
  <2>5. QED
    BY <2>1, <2>3, <2>4, CancelledAlone
<1>3. ASSUME CancelSuppressed(p)
      PROVE  AloneStep
  <2> DEFINE q == [step |-> "cancelled", row |-> request[p].row]
  <2>1. /\ Go(p, q) /\ UNCHANGED rows /\ UNCHANGED commissions
        /\ UNCHANGED stripe /\ UNCHANGED events
    BY <1>3 DEF CancelSuppressed
  <2>2. AloneOK(q)
    BY DEF AloneOK
  <2> HIDE DEF q
  <2>3. QED
    BY <2>1, <2>2, ReadsKeepAlone
<1>4. ASSUME CancelSave(p)
      PROVE  AloneStep
  <2>0. request[p].step \notin NoRowYet
    BY <1>4 DEF CancelSave, At, NoRowYet
  <2>1. PICK r \in RowId : r = request[p].row /\ Exists(r)
    BY <2>0, AloneHeld
  <2>2. /\ rows' = [rows EXCEPT ![r].status = "cancelled"] /\ Go(p, Idle)
        /\ At(p, "cancelled")
        /\ UNCHANGED commissions /\ UNCHANGED stripe /\ UNCHANGED events
    BY <1>4, <2>1 DEF CancelSave, Answer
  <2>3. /\ rows'[r].sub = rows[r].sub /\ rows'[r].status = "cancelled"
        /\ \A s \in RowId : s # r => rows'[s] = rows[s]
    BY <2>2, AloneTypes DEF Row
  <2>4. AloneOK(Idle)'
    BY DEF AloneOK, Idle
  <2>5. Exists(r)' /\ LinkedCause(r, rows[r].status)'
    BY <2>3 DEF Exists, LinkedCause
  <2>6. commissions'[r] <= 1 /\ \A s \in RowId : s # r => commissions'[s] = commissions[s]
    BY <2>2, AloneTypes
  <2>7. QED
    BY <2>0, <2>1, <2>2, <2>3, <2>4, <2>5, <2>6, WritesKeepAlone
<1>5. QED
    BY <1>1, <1>2, <1>3, <1>4 DEF Cancel

LEMMA WebhookAlone ==
    ASSUME AloneInductive, RequestsApart, NEW p \in Proc, Webhook(p)
    PROVE  AloneStep
<1>1. ASSUME NEW e \in events, NEW r \in RowId, Hook(p, e, r)
      PROVE  AloneStep
  <2> DEFINE seen == rows[r].status
             next == HookStatus(e, seen)
             q == [step |-> "hook", row |-> r, seen |-> seen, next |-> next,
                   event |-> e]
  <2>1. /\ e \in Event /\ rows[r].sub = e.sub /\ e.sub # 0
        /\ EndHasCause(e) /\ EventHasCause(e)
    BY <1>1, AloneTypes DEF Event, CustomerId, Hook, RowsOf
  <2>2. LinkedCause(r, seen)
    BY AloneTypes
  <2>3. /\ LinkedCause(r, next)
        /\ next = "cancelled" => seen = "cancelled" \/ OverAtStripe(r)
    BY <2>1, <2>2
       DEF HookStatus, EventHasCause, EndHasCause, LinkedCause, OverAtStripe, Event
  <2>4. /\ Go(p, q) /\ UNCHANGED rows /\ UNCHANGED commissions
        /\ UNCHANGED stripe /\ UNCHANGED events
    BY <1>1 DEF Hook
  <2>5. q.step = "hook" /\ q.row = r /\ q.seen = seen /\ q.next = next
    OBVIOUS
  <2> HIDE DEF seen, next, q
  <2>6. AloneOK(q)
    BY <2>2, <2>3, <2>5 DEF AloneOK
  <2>7. QED
    BY <2>4, <2>6, ReadsKeepAlone
<1>2. ASSUME NEW e \in events, HookUnknown(p, e) \/ HookAmbiguous(p, e)
      PROVE  AloneStep
  <2>1. /\ UNCHANGED rows /\ UNCHANGED commissions /\ UNCHANGED stripe
        /\ UNCHANGED request /\ events' \subseteq events
    BY <1>2 DEF HookUnknown, HookAmbiguous
  <2>2. Evolves
    BY <2>1 DEF Evolves
  <2>3. QED
    BY <2>1, <2>2, NewsKeepAlone
<1>3. ASSUME HookSave(p)
      PROVE  AloneStep
  <2>1. /\ request[p].step = "hook" /\ Go(p, Idle)
        /\ WriteStatus(request[p].row, request[p].seen, request[p].next)
        /\ UNCHANGED commissions /\ UNCHANGED stripe /\ events' \subseteq events
    BY <1>3 DEF HookSave, At, Answer
  <2>2. Idle.step = "idle"
    BY DEF Idle
  <2>3. QED
    BY <2>1, <2>2, StatusAlone
<1>4. QED
    BY <1>1, <1>2, <1>3 DEF Webhook

LEMMA StripeAlone ==
    ASSUME AloneInductive, Stripe
    PROVE  AloneStep
<1>1. ASSUME NEW c \in CustomerId, NEW status \in {"incomplete", "past_due", "unpaid"},
             Pay(c) \/ FailPay(c, status)
      PROVE  AloneStep
  <2>1. /\ stripe[c].status # "canceled"
        /\ stripe[c].was \subseteq stripe'[c].was
        /\ \A k \in CustomerId : k # c => stripe'[k] = stripe[k]
    BY <1>1, AloneTypes DEF Pay, FailPay, Happens
  <2>2. Evolves
    BY <2>1 DEF Evolves
  <2>3. \A e \in events' : e \in events \/ EndHasCause(e)'
    BY <1>1 DEF Pay, FailPay, Emit, Updated, Of, EndHasCause
  <2>4. UNCHANGED rows /\ UNCHANGED request /\ UNCHANGED commissions
    BY <1>1 DEF Pay, FailPay
  <2>5. QED
    BY <2>2, <2>3, <2>4, NewsKeepAlone
<1>2. ASSUME NEW c \in CustomerId, CancelAtStripe(c)
      PROVE  AloneStep
    BY <1>2, CancelledAlone DEF CancelAtStripe
<1>3. ASSUME NEW c \in CustomerId, NEW r \in RowId, NEW a \in Email,
             CompleteCheckout(r, c, a)
      PROVE  AloneStep
  <2>1. /\ stripe[c].email = None
        /\ \A k \in CustomerId : k # c => stripe'[k] = stripe[k]
    BY <1>3, AloneTypes DEF CompleteCheckout, IsNextCustomer
  <2>2. Evolves
    BY <2>1 DEF Evolves
  <2>3. \A e \in events' : e \in events \/ EndHasCause(e)'
    BY <1>3 DEF CompleteCheckout, Emit, Of, EndHasCause
  <2>4. UNCHANGED rows /\ UNCHANGED request /\ UNCHANGED commissions
    BY <1>3 DEF CompleteCheckout
  <2>5. QED
    BY <2>2, <2>3, <2>4, NewsKeepAlone
<1>4. ASSUME NEW e \in events, GiveUp(e)
      PROVE  AloneStep
  <2>1. /\ UNCHANGED rows /\ UNCHANGED commissions /\ UNCHANGED stripe
        /\ UNCHANGED request /\ events' \subseteq events
    BY <1>4 DEF GiveUp
  <2>2. Evolves
    BY <2>1 DEF Evolves
  <2>3. QED
    BY <2>1, <2>2, NewsKeepAlone
<1>5. QED
    BY <1>1, <1>2, <1>3, <1>4 DEF Stripe

LEMMA InitAlone == Init => AloneInductive
<1> SUFFICES ASSUME Init PROVE AloneInductive
    OBVIOUS
<1>1. Inductive
    BY InitInductive
<1>2. StatusHasLinkedCause /\ CommissionOnce
    BY DEF Init, StatusHasLinkedCause, CommissionOnce, NoRow
<1>3. \A p \in Proc : AloneOK(request[p])
    BY DEF Init, AloneOK, Idle
<1>4. QED
    BY <1>1, <1>2, <1>3 DEF AloneInductive, AloneInvariant, Init

LEMMA NextAlone ==
    ASSUME RequestsApart, AloneInductive, [Next]_vars
    PROVE  AloneInductive' /\ DropsOwned
<1>1. Inductive'
    BY NextInductive DEF AloneInductive
<1>2. CASE UNCHANGED vars
  <2>1. /\ UNCHANGED rows /\ UNCHANGED commissions /\ UNCHANGED stripe
        /\ UNCHANGED request /\ UNCHANGED events
    BY <1>2 DEF vars
  <2>2. Evolves
    BY <2>1 DEF Evolves
  <2>3. AloneStep
    BY <2>1, <2>2, NewsKeepAlone
  <2>4. QED
    BY <1>1, <2>3 DEF AloneStep, AloneInductive
<1>3. CASE Next
  <2>1. ASSUME NEW p \in Proc, Abandon(p)
        PROVE  AloneStep
    BY <2>1, AnswersKeepAlone DEF Abandon
  <2>2. AloneStep
    BY <1>3, <2>1, CreateAlone, CheckoutAlone, SyncAlone, CancelAlone,
       WebhookAlone, StripeAlone DEF Next
  <2>3. QED
    BY <1>1, <2>2 DEF AloneStep, AloneInductive
<1>4. QED
    BY <1>2, <1>3

LEMMA AloneHolds ==
    Spec /\ []RequestsApart
        => []AloneInductive /\ [][DropsOwned]_vars
<1>1. RequestsApart /\ AloneInductive /\ [Next]_vars
        => AloneInductive' /\ DropsOwned
    BY NextAlone
<1>2. QED
    BY <1>1, InitAlone, PTL DEF Spec

(***************************************************************************)
(* While no two requests work on one row at a time, dropped calls to       *)
(* Stripe and abandoned requests included, a row is active or past due     *)
(* because of a payment or a failure of the very subscription it is linked *)
(* to.                                                                     *)
(***************************************************************************)
THEOREM CoverIsPaidByItsOwnSubscription ==
    Spec /\ []RequestsApart => []StatusHasLinkedCause
<1>1. AloneInductive => StatusHasLinkedCause
    BY DEF AloneInductive, AloneInvariant
<1>2. QED
    BY <1>1, AloneHolds, PTL

\* Create pays the referrer or a later sync does, never both and never twice.
THEOREM ReferrersArePaidOnce ==
    Spec /\ []RequestsApart => []CommissionOnce
<1>1. AloneInductive => CommissionOnce
    BY DEF AloneInductive, AloneInvariant
<1>2. QED
    BY <1>1, AloneHolds, PTL

(***************************************************************************)
(* Webhooks that come late or twice, and syncs, cancel a row when its      *)
(* subscription is over at Stripe; only the customer's own cancel request  *)
(* does so before.                                                         *)
(***************************************************************************)
THEOREM CoverIsDroppedByItsCustomer ==
    Spec /\ []RequestsApart => OnlyCancelDropsALiveSubscription
<1>1. DropsOwned =>
        \A r \in RowId :
         /\ rows[r].status # "cancelled"
         /\ rows'[r].status = "cancelled"
         /\ rows'[r].sub # 0
         /\ stripe[rows'[r].sub].status # "canceled"
         => \E p \in Proc : At(p, "cancelled") /\ request[p].row = r
    BY DEF DropsOwned
<1>2. QED
    BY <1>1, AloneHolds, PTL DEF OnlyCancelDropsALiveSubscription
==============================================================================
