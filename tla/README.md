# A TLA+ model of Yastubo

Yastubo is the back office of a travel-assistance insurer: seven FastAPI
services (A to G) behind one nginx, all importing the ORM, the services and the
middleware of `src/common/`, and all working on one database.  Stripe, Zoho, the
mail server and the provider of an address database are outside.  `src/app/`
only re-exports `src/common/`.

This directory holds TLA+ models of the parts of it whose behaviour depends on
order, on several actors or on failure, the TLC runs that check them on small
instances, and TLAPS proofs of what matters most.  `PROJECT.json` is the index:
components, runs, mutants, the map from definitions to source lines, hazards,
findings and theorems.

## Running

    tlc -workers 2 -config CapitatedHistory.cfg MCCapitatedBatch.tla
    tlc -workers 2 -config PlanVersions.cfg MCPlanVersions.tla
    tlapm CapitatedBatchProofs.tla

A run takes between half a minute and four, a proof module from half a minute to ten.
The theorems about a component are in the module `...Proofs` named after it.

## 1. Inventory

How the parts interact: every request gets a session from `get_db`
(`common/database.py`), which rolls back on an exception and closes at the end;
controllers and services call `db.flush()` and `db.commit()` themselves, some
of them several times in one request, so a request is not in general one
transaction.  There are no explicit locks (`SELECT ... FOR UPDATE` is never
used) and few unique keys, so a check before a write is a race unless a key, a
foreign key or the row lock of an UPDATE decides it.  Nothing runs in the
background: no scheduler refreshes a derived column.  `docker-compose.swarm.yml` runs
two replicas of auth, products and billing, so requests, of one service or of
several, overtake each other at any statement, commit or call to somebody else;
each action of the models is one of these.

`common/config.py:90` connects to PostgreSQL, whose default isolation is READ
COMMITTED, while the deployment files bring up MariaDB.  Where isolation
matters the modules say which they take: `PlanVersions` and `ConcurrentUploads`
take PostgreSQL's, `Subscriptions` allows both.

| Component | State it keeps | Operations | What is hard | What makes it correct |
|---|---|---|---|---|
| Capitated batches (D) | `capitados_batch_logs`, `capitados_product_insureds`, `capitados_contracts`, `capitados_monthly_records`; an invoice at Stripe | upload an Excel file for a month, roll a batch back, roll a record back | rows flushed one by one and failing half-way; months out of order; breaks and renewals; reverted rows that keep their unique key; Stripe told before the commit; two uploads at once | months of a contract have no hole; coverage is loaded in order; counters agree with records; what is invoiced is what is committed |
| Capitated read side (D) | none | listings, details | what it says of a contract must agree with the contract's PDF | a contract that is offered can be printed |
| Companies (D) | companies, their people and commission users | create, update, suspend, archive, activate; attach, detach; commissions | the lists are replaced by the difference to what was read | codes differ; a beneficiary is one of the people; nobody is there twice |
| Business units (D) | a tree of units, its memberships, GSA commissions | create, convert, move; link, create, change and remove members; resolve permissions | two moves at once; a second writer of regalias | the tree has no cycle; permissions follow the path to the root |
| Regalias (D) | beneficiary and origin edges | create, delete | the cycle search and the insert are two steps | nobody earns on itself, nor twice on one branch |
| Subscriptions and referrals (F) | `subscriptions`, `referral_commissions`; customers and subscriptions at Stripe | create, checkout, sync, cancel | the row and the Stripe object are written in different systems; several commits in one request | cover has a cause; a row is linked to a subscription under an address of its user; one commission per referral |
| Stripe webhooks (F) | `subscriptions.status`, Zoho deals | paid, payment failed, updated, deleted | at-least-once and unordered delivery, a handler that fails after its commit | the row follows Stripe |
| Stripe Connect (F) | none: every request is forwarded to Stripe | create and list accounts, onboarding link, transfer | a repeated transfer request pays twice | - |
| Zoho CRM (F) | `zoho_sync_log`; records at Zoho | synchronise a subscription, everything, a company | an upsert log without a unique key; lost answers; restarts; dry runs | one Zoho record per local row, at the stage of its status |
| Users, login, passwords (A) | users, roles, staff profiles, password history, reset links | create, update, delete, restore, lock; change, forget, reset a password | differences to what was read; endpoints that skip each other's checks | e-mails differ among live users; a vendor has commissions; a recent password is not used again |
| ACL (A) | roles, permissions, their pivots | store, update, toggle | check then insert | names differ; a grant stays in its guard |
| Plan versions (B) | versions of a product, their coverages, surcharges, countries, prices, terms | create, clone, activate, delete, edit | two activations at once; a version deleted under its readers | one active version per product; nothing refers to a version that is gone |
| Products, coverages, zones, countries, config (B) | one table each and their pivots | CRUD, attach by zone, reorder | places and prices read before they are written | places differ, prices stay, tokens differ |
| Templates and files (C) | templates, versions, the active one; uploaded files and their rows | create, clone, activate, deactivate, upload, replace, delete | the active version replaced meanwhile; file and row written separately | the active version is the template's own; a record has its file |
| PDF rendering (C) | none | render | preview and contract choose their template differently | the contract prints the preview |
| Audit log (E) | `audit_logs` | append; listings | a second transaction after the one it records | - |
| Chatbot (G) | none but a reset link | look-ups | - | - |
| IP to country | one database file, a reader, a cache | look-up, download, replace | readers during a replacement; failures that are cached | answers come from an installed database |
| Sessions and middleware | one session per request | commit, rollback | errors after a commit | nothing uncommitted survives a request |
| Deployment and scripts | none | start, smoke test, setup | nothing | - |

## 2. Plan

Done, in the order of what matters to the insurer's money and cover:

| Module | About | Proofs | Section |
|---|---|---|---|
| `CoverageLedger`, `CapitatedBatch` | one upload or rollback at a time, all of it, and the ledger it implements | all properties and the refinement | 3 |
| `ConcurrentUploads` | uploads that overlap | both invariants | 4 |
| `Subscriptions` | the endpoints, the webhooks, Stripe | all properties (three of them for requests that keep apart) | 5 |
| `Requests` | how overlapping requests work on a table | - | 6 |
| `BusinessUnits`, `Regalias`, `Members` | tree, royalties, memberships | all properties | 7 |
| `PlanVersions` | activation under row locks; deadlock, liveness | no orphans, one active version, when activations wait in a circle | 8 |
| `Catalogue` = `PlanCoverages` + `CoverageCategories` + `VersionTexts` + `PlanCountries` + `Templates` + `ConfigItems` | the back office of B and C | all properties | 9 |
| `Administration` = `Accounts` + `Passwords` + `Acl` + `Companies` | the administration of A and D | all properties | 10 |
| `Integrations` = `Crm` + `IpCountry` | the clients of Zoho and of the address database | all properties | 11 |

Still worth having: abstract specifications that `ConcurrentUploads` and
`Integrations` implement, as `CapitatedBatch` implements `CoverageLedger`, and what is
partly modelled (see `PROJECT.json`).

## 3. Capitated batches

### Modules

* `CoverageLedger`: what the component promises.  Each document has a slot per
  month, free, then covered, then reverted for ever.  An upload covers a set of
  documents in one month, at once and after everything they are covered in.
* `CapitatedBatch`: the code.  `insured`, `contracts`, `records` and `batches`
  are the four tables as the session of the running request sees them, `db`
  what is committed, `upload` the request, `invoices` what Stripe holds.
* `MCCapitatedBatch`: the instances.
* `CapitatedBatchProofs`: the theorems.

### How actions correspond to the code

| Action | Code |
|---|---|
| `BeginUpload` | `batch_upload` validates, `process_excel` flushes the draft batch, the sheets resolve to the plan version active now |
| `RejectFile` | an unreadable workbook or plan errors: the batch fails and is committed |
| `InvalidRow`, `IncongruentRow`, `DuplicatedRow`, `RetroactiveRow`, `TooOldRow` | the early `continue`s of the row loop, in the code's order; all but the first two insert or update the person first |
| `FirstRow`, `BreakRow`, `RenewRow` | the three ways a row gets its contract: none, a gap after the last active month, the month right after it |
| `RecordMonth` | the part all three share: surcharge tiers, then the monthly record.  A clash of tiers refuses the row *after* its contract was written |
| `GarbledRow` | a value that passes validation and makes the conversion raise: `process_excel` catches, the batch fails, the rows stay flushed and the caller commits them |
| `KeyConflict` | an INSERT hits the unique key of a reverted row: the failed flush rolls back, the handler's flush finds nothing to write, the commit raises, nothing is stored |
| `FinishRows`, `Bill`, `EndUpload` | counters and status; the invoice, which may stop half-way and whose errors are swallowed; `_refresh_contracts_status` and the commit |
| `Crash` | the process dies, or the final commit fails |
| `RollbackBatch`, `RollbackRecord` | the two endpoints, each one transaction |
| `NextMonth` | the calendar |

### Abstractions

Prices, countries, waiting periods, the item log and `errors_by_code` are left
out; the validations that precede any table are one action, `InvalidRow`.  A
file is read against one plan version (the code resolves one per sheet, that is
per product, and `Doc` is a document *of a product*).  `valid_until` is kept
as a month.  A limit that is NULL or 0 is 0, since the code tests its truth.
A unique key is the domain of a function, so a second row with a key cannot be
stored and the insert is `KeyConflict`.  Contract ids are the least unused;
batch ids are never used twice, as AUTO_INCREMENT is not rolled back.  One
request runs at a time; section 4 lifts that.  `insured` never becomes
`rolled_back` through the endpoints; the branch of the code is there all the same.

### Runs

| Run | Instance | Shows |
|---|---|---|
| `capitated_history` | 1 document, 4 months, 3 uploads of 1 row, 3 ages, a plan with limits and overlapping tiers | contiguous months, loading order, expiry, and that the code implements `CoverageLedger` |
| `capitated_files` | 2 documents, 2 identities, 2 uploads of 2 rows, billing, crashes | types, counters (`BatchLogAgrees`), invoices, and that a contract offered to outsiders has its PDF |

Bounds: three uploads are the least in which a document can be covered, broken
and covered again, or covered, reverted and refused; a hole needs three months
and a break with a renewal after it a fourth.  Age 30 is plain, 67 meets both
tiers of the plan (a clash), 69 may renew and not enter.  Two rows are enough
for a row to fail after another was flushed; two documents for a batch to be
reverted in part.  `MaxBatches`, `MaxRows` and `LastMonth` are the only bounds,
all in guards, and the system stops when they are used up (hence
CHECK_DEADLOCK FALSE).  No fairness is assumed: nothing here runs unless
somebody uploads, and the model states no liveness.

`BatchLogAgrees` is two claims, that the totals of a batch are its records' and
that a reverted batch covers nothing.  `OfferedContractHasItsPdf` has an exception
the code makes: a tier clash leaves an active contract with no record at all,
which the chatbot offers with an address that answers 404.  The PDF prints the
last record even if it was reverted.

Where the code departs from its own words: a key conflict leaves no batch
(`capitated_batch_processor.py:549`, against the docstring at line 67); a failed
batch leaves its rows loaded (line 289, against the comment at 153); after a
break `_refresh_contracts_status` makes the old contract active again if its
months reach today (line 1053, against 431-436).  The rollback endpoints leave
a contract active when its last record is reverted: the rule that would end it
(line 959) is in the methods no endpoint calls.

### Proofs

`TypeCorrect` proves `TypeOK` with one step per action.  It needs
`RequestOK`: a request works on the newest batch, so the batch id it writes is
in range.

`LedgerInvariantHolds` proves `LedgerInvariant`, the strengthening of
`ContractMonthsContiguous` and `CoverageLoadedInOrder` (which follow from it,
`MonthsAreContiguous` and `CoverageIsLoadedInOrder`).  Neither is inductive:
that a row's month comes after its contract's records needs the row's batch to
be newer than every record's; that a new contract takes nobody's months needs
ids to be given out in order; and that a crash or a key conflict keeps them
needs the same of `db`.  The invariant therefore speaks of both versions of
the tables.  The lemmas go in the order of the code: the last active month of a
document exists and its contract is its own (`LastOfMonths`, `LastActive`, the
former by well-founded induction stated on a set), a new or an extended
contract keeps every other document's months (`OtherContracts`,
`ExtendedContract`), and a record inserted in the next month keeps the order
(`NewRecord`).  Reverting keeps everything, because records keep their columns
(`RevertedColumns`).

`ImplementsLedger` proves the refinement.  A slot is the status of the *committed*
record, so every step but a commit is a stutter, and the question is what a commit
does.  `UncommittedCover` answers it: the tables of a running upload differ from the
committed ones only in the month of the batch, by records in force where none was,
after every month the document is committed covered in.  The last part comes from the
ledger invariant (`CoversLater`).  `OneMonthPerBatch` does the same for the rollback of
a batch, which must revert documents in one month.  A failed file commits what it had
written, and is a `Cover` too; a crash and a key conflict change no committed record.

`LogAgreesWithRecords`, `InvoicesMatchBatches`, `ExpiredIsOver` and
`OfferedContractsPrint` share one invariant, `Whole`: `Contiguous` (types and ledger)
with `Kept`, which again speaks of the session's tables and of `db`.  `InFlight` says
of the batch of the running upload what its commit will make true: so far the counters
add up to the rows read, `applied` is the number of the records with its id, the
committed tables have never heard of it, and an invoice bears the count the commit
will store.  A crash or a key conflict leaves `db` as it was, and a batch that never
becomes committed is what `InvoicedBatchIsCommitted` excepts.  That `applied` counts
records needs the ledger: a batch inserts into one month, so a row cannot meet a
record of its own batch.  `Expiry` is about the contracts and the calendar alone: an expired contract is past its
end or was ended by a break.  `Printed` says that every contract has a record to print,
in force or reverted; it holds when no tiers of a plan overlap (`PlansArePlain`, the
exception above: a clash leaves a contract without a record).

Assumptions used: those named in the module (bounds are naturals, plans are
plans, ages are naturals, documents are finitely many).  Every property of the two runs
is proved.

## 4. Overlapping uploads

`ConcurrentUploads` takes one person who is enrolled, and the statements of an upload
one by one: look for the month's record, find the last active record, find its
contract, write it or open another, insert the record, refresh the contracts,
commit.  A session reads what is committed (READ COMMITTED), holds the rows it wrote
(`Locked`), and the unique key of the records makes a second insert wait and then
fail.  The statement has the columns that differ from what was read (`changes`), so
an UPDATE that changes nothing locks nothing.  Requests may abort at any point, and
records are rolled back at any moment.

Run `capitated_concurrent`: 2 uploads, 3 months, 4 contracts.  Three months are the
least in which an upload can be overtaken by a later month and by an earlier one.

`ContractsMatchRecords` is *not* weakened by races: whatever overlaps, a contract
owns exactly the months from its entry to its end, because an upload that decided on
an old history meets the key.  What a race does break is continuity:
`ContinuousCoverIsOneContract` (two months in a row are under one contract, else the
waiting periods start anew) holds unless an upload committed on a history that had
changed, by an upload or by a rollback.

**Proofs** (`ConcurrentUploadsProofs`).  `ContractsOwnTheirMonths` and
`ContinuousCoverKeepsItsContract` hold for any number of uploads, months and contracts.
`Inductive` says what an upload knows at each of its steps (`UploadOK`): the record it
extends from keeps its contract for ever, since no code rewrites that column; an upload
that waits for a key has decided where its month goes; and two uploads neither open one
contract nor hold one key (`Apart`).  The row locks of the contracts are not used: the
key of `capitados_monthly_records` alone keeps contracts and records together.  For
continuity the upload must also know that its last month *is* the last (`Latest`), which
is exactly what a race takes away (`fresh`).

## 5. Subscriptions

### Modules

* `Subscriptions`: the four customer endpoints, the webhooks, and as much of
  Stripe as they can tell apart.  `rows` and `commissions` are the tables
  `subscriptions` and `referral_commissions`; `stripe`, `sessions`, `events` and
  `tried` are Stripe's; `request` is what each request in progress is doing and has
  read.  The calls to Zoho are module `Crm`'s (section 11).
* `MCSubscriptions`: the instances.
* `SubscriptionsProofs`: the theorems.

### How steps correspond to the code

Each action is a stretch of code with one database statement, one commit or one
call to Stripe whose outcome others can see, whichever replica serves the request,
and what a request has read travels in its record:

| Actions | Code |
|---|---|
| `CreateCheck`, `CreateAtStripe`, `CreateRow`, `CreateCommission` | `create_subscription`: the check, customer and subscription at Stripe, the row, the referrer's commission, each committed by itself |
| `CheckoutCheck`, `CheckoutRow`, `CheckoutSession` | `create_checkout`: the row is committed before there is a page to pay on |
| `SyncRead` ... `SyncInsert` | `sync_subscription`: read the latest row; link it, if it has no subscription, to that of the newest Stripe customer with the user's e-mail, whoever it is; ask Stripe; save; look for a commission; insert one |
| `CancelRead`, `CancelSubscription` / `CancelSuppressed`, `CancelSave` | `cancel_subscription` |
| `Hook`, `HookUnknown`, `HookAmbiguous`, `HookSave` | `stripe_webhook`: the row found, not found (answered 200), found twice (500), and the commit, after which three of the four handlers raise |
| `Pay`, `FailPay`, `CancelAtStripe`, `CompleteCheckout`, `GiveUp` | Stripe, as the code uses it (external) |
| `Abandon` | an error answer or a restart between two steps |

Three details of the ORM matter and are kept.  A column is written only if it
differs from what the session loaded (`WriteStatus`), so a stale read may
overwrite a newer status *or* leave it.  Objects do not expire on commit, so a
request goes on with what it loaded.  A transaction reads from one snapshot,
taken at its first read: a sync that has not committed in between sees the
commissions as they were when it read the row (`count`; `Fresh` after a commit).

### Abstractions

A Stripe customer has at most one subscription, which is all either path
creates.  Generated referral codes do not collide.  An e-mail address is *not* a
user: it is unique per realm and among the users that are not deleted
(`users_controller.py:323,469`), restoring one does not check (588), an update may
change it (503), and the table has no key on it (`models/user.py:33`).  `EmailsOf`
gives each user the addresses of a lifetime, of which a request may find any, and two
users may share one.
Stripe's `trialing` and `incomplete_expired` do not arise: no trial is ever
requested, and an incomplete subscription is simply never paid.  `was` records what
happened to a subscription; the code does not see it, the properties do.
Events are a set: an event Stripe sends twice is one that stays after it was
handled, or was answered with an error (`tried`).  The refresh of a new row
belongs to the step of its commit.  Periods, amounts and names are
left out.

### Runs

| Run | Instance | Shows |
|---|---|---|
| `billing_failures` | 1 request at a time, 1 user, 2 rows, 2 customers, 2 events, failing calls and dying requests | a row's status has its cause in the very Stripe subscription it is linked to, a commission is paid once, only `cancel` takes down a subscription that Stripe keeps |
| `billing_concurrent` | 2 requests, 2 users of whom one has had the other's address, 2 rows, 2 customers, 2 events | a status has its cause, and a link its subscription, under an address of the row's user, while events overtake one another and the syncs that read before them |
| `deleted_then_revived` | 1 request, 1 row, 3 events | a finding: see below |

Bounds: two rows per user are what it takes to hold two subscriptions or share
one, two customers to link to the wrong one, two events to deliver in the wrong
order (`Pay` of an incomplete subscription and `FailPay` of an active one cause two).
`CONSTRAINT FewEvents` lets two
events be outstanding until both rows and both customers exist and one from
then on: with everything in place, events reorder across each other through being
repeated (a delivered event may stay).  With two requests, `CONSTRAINT Overlapping` lets
two events be outstanding until both rows and both customers exist, as long as one user
alone has done anything (`Alone`); with two users it counts rows, customers and events
together, up to four (`FewRows`): two events with one row and one customer, one with
three of them, none once all exist, so that the row of one user is linked while the
other user pays, fails and is delivered events.  `NobodyRefers` leaves referrals to
`billing_failures`: commissions decide nothing about status or link.  Symmetry permutes
requests only, as users differ by their addresses.  The system stops when rows, customers and events are
used up (CHECK_DEADLOCK FALSE).

`StatusHasLinkedCause` and `CommissionOnce` are true of one
request at a time only.  With two, a sync that read an unlinked row overwrites
the link another one wrote (no property says that a link is final); and two syncs, or a sync during create, both find no
commission and both insert one (the comment "Create referral commission if
newly active" over `subscription_controller.py:359` says otherwise; there is no
unique key): give `BillingFailures.cfg` a second `Proc` and TLC shows it.

Run `deleted_then_revived` shows what a message of the code says and the program
does not do: a subscription whose deletion was processed becomes live again when
an older event is delivered after it.  It needs neither failures nor concurrent
requests.  Also in the model: a second checkout or create passes the check of
`subscription_controller.py:132` while the first row is not linked, and leaves two
live rows; `Audit.log` raises in three of the four handlers
(`stripe_webhook_controller.py:90`), so the deal at Zoho is not updated and Stripe
sends the event again; sync links a row to the subscription of another user with
whom its user shares an address, whose payments then cover both; sync links a second
row to a subscription that has one already, whose webhooks then answer 500 (`HookAmbiguous`); the event of
a Checkout payment that comes before sync is answered 200 and lost (`HookUnknown`);
and a cancellation whose call to Stripe fails is suppressed
(`subscription_controller.py:408`), the customer goes on paying.

No fairness is assumed and no liveness stated: customers need not act, and
nothing in the code polls Stripe.  That a deletion is noticed in the end would
need fair delivery *and* an order of events that Stripe does not promise.

### Proofs

`TypeCorrect` proves `TypeOK` from `Typed`, which adds `RowsOK`: a row that
exists has a user, and a request or an open Checkout page names a row that
exists.  `BillingInvariantHolds` proves that everything which will be written
into a row later has its cause at Stripe *now*: what Stripe says
(`CustomerHasCause`), what outstanding events say (`EventHasCause`), and what
requests have read (`RequestHasCause`).  Causes only accumulate (`Grows`), so a
step has to justify only what it changes (`InvariantKept`), and the order in
which stale reads and late events arrive is of no importance.
`NobodyIsCoveredForNothing` and `LinksAreUnderAnAddress` follow: "an address of the
user" (`Theirs`) is a condition on `EmailsOf`, and every request that creates or links
found its customer under one of them.  They hold for any number of requests, users
and rows, any sharing of addresses, with failures.

Three properties are false of requests that overlap on a row, as the runs show, and are
proved of the others: `CoverIsPaidByItsOwnSubscription`, `ReferrersArePaidOnce` and
`CoverIsDroppedByItsCustomer` state

    Spec /\ []RequestsApart => ...

where `RequestsApart` says that no two requests in progress hold the same row.  Any
number of requests may run, on any rows; with one `Proc`, as in run
`billing_failures`, the condition always holds.  `AloneInvariant` is what a request may
rely on while nobody else holds its row: what it read of the link and of the
commissions is still stored, and what it is about to write has its cause in the very
Stripe subscription of the link (`AloneOK`); events of a subscription still explain
what they will write (`EndHasCause`).  Stripe and the webhooks go on meanwhile.

Assumptions used: the bounds are naturals, every user has a set of addresses, and
`None` is neither a user nor an address.  Only
model-checked: `DeletedIsCancelled`, which the code breaks (`deleted_then_revived`).

## 6. Overlapping requests

Most endpoints of the administration follow one scheme: read rows, check, write,
commit.  `Requests` is that scheme.  A request has at most one pending write to
one table; other requests may commit before it does, and it may die first
(`Drop`).  `request[p]` holds what will be written:

* an insert holds the row as it was computed from what was read;
* an update holds *only the columns that differ from what the session loaded*
  (`Changes`, applied by `Merge`), because that is what SQLAlchemy emits: two
  stale updates of different columns both survive;
* a delete holds the id.

`fresh` tells whether the table has changed since the request read it, and
`raced` collects the tables in which a write landed that was not fresh.  Neither
guards any step.  They are there for the properties: "P unless requests
raced" says that the checks of the code keep P when requests come one after
another, and that *nothing else* than an overtaken write can break it.  That is
the strongest statement a table without unique keys allows, and it is not
empty: an endpoint that skips the check, a check that reads the wrong rows or a
reset that is forgotten breaks it with one request at a time.

Properties of steps say the same of the step itself ("... has a cause"): when a
clash appears, the step that made it appear is an overtaken write or one of the
named endpoints that do not look.

What the database decides at the commit (unique keys, foreign keys, an UPDATE of
a row that is gone) is in the `Commit...` actions; a request that fails there
changes nothing and ends.

Requests of different components share this machinery but no row, so the
composed modules (`Catalogue`, `Administration`, `Integrations`) choose a `part` in
the initial state and keep it; checking every part in one run would otherwise
multiply state spaces that have nothing to do with each other.  To keep a run
about one question, properties of the parts of a composition are conjoined
under one name where they say the same thing about different tables
(`KeysStayUnique`, `OthersAreKept`, `ClashHasACause`, `ReferencesHold`,
`CatalogueConsistent`, ...); the conjuncts are the named properties of the part
modules, each with its own comment.

## 7. Business units and regalias

`BusinessUnits` is the tree: `StoreUnit`, `ChangeType`, `Move`, `CommitUnit`.
`ParentRules` says which types may have a parent, `Closes` is the loop that climbs
from the new parent and stops at a unit it has seen.  `Regalias` extends it with
the royalties: `RegaliasService.create` with its two searches (`Reaches`, stated as
membership in every closed set, which is what a depth-first search computes; and
the redundancy search along the tree), deletion, and the second writer,
`gsa_commissions_store`, which looks for duplicates only.  `Members` extends the tree
with the memberships and the permission resolver, `Levels`, a recursive function
that follows the code's loop along the chain.

| Run | Instance | Shows |
|---|---|---|
| `regalias` | 2 users, 2 units, 2 royalties, 2 requests | `TreeConsistent` (a forest, with types in their places, unless requests raced; counters under a unit even then), `UserCycleFree`, `OneRegaliaPerOrigin`, `NoRedundantUnits` |
| `members` | 5 trees of up to 3 units, two of them with cycles, 1 user, 3 memberships, 2 requests | `MembershipsConsistent`, and that the resolver computes the level that its documentation defines (`ResolverMatchesReference`), on cycles and with doubled memberships too |

Bounds: two edges are the least that close a cycle and two requests the least
that close it unseen; three units are what it takes for a permission to be passed
on by a unit between the holder and the unit asked about, and three memberships
to give each unit of a chain one, or one unit two.

`move` and `gsa_commissions_store` bypass the redundancy search (`bypassed`);
`NoRedundantUnits` speaks of histories without them.  The redundancy search follows
`ancestor_chain` over what the session holds, and a chain that goes further fails the
request with a 500 (`ChainLoads`); the resolver has a loader of its own, which climbs
to the root or until it meets a unit again (`Climb`).

**Proofs** (`BusinessUnitsProofs`).  `UsersNeverEarnInACircle`, `OneRowPerOrigin`,
`TheTreeIsSound`, `NoUnitIsPaidTwice` and `MembershipsAreSound` hold for any number of
users, units, rows and requests.  None of it is inductive: the row a request writes
was judged when the request began.  What carries over is that, as long as no other
write to the table has landed (`fresh`), what the searches found is still true
(`Judged`, `UnitRequest`, `RowJudged`, `MemberRequest`).  Three invariants share the
requests: the rows as users see them (`EdgesInv`), the tree (`TreeInv`), and the rows
upon the tree (`UnitsInv`), which writes to the tree cross: a move may put a paid unit
under another, which is why `bypassed` is part of that property.

Cycle freedom of users is stated as "every non-empty set of users has a member that
earns from nobody in it", so a new edge is dealt with by cutting a set at the closed
set the search computed (`EdgeAdded`), and no induction over paths is needed.  The
units above a unit are the least set closed under "parent" (`Upward`, `Leads`), of
which the loop of `move` is a member-by-member search.

The resolver is two recursive functions, `Climb` and the levels inside `Levels`, and no
induction theorem with an operator parameter is needed for them
(`ResolverKeepsItsPromise`). A recursive function is the CHOOSE of a solution of its
equation, so a solution is shown to exist: for `Climb`, a smallest height without one
cannot exist (`ClimbGrows`); for the levels, the closed form of the documentation,
taken at every height (`Promised`), is one, as a unit's level of `manage_children` is
above none exactly when it, or a unit above it, passes permissions down (`PassesDown`).
The largest height at which another solution differs from that one cannot exist
either, so `Levels` is the closed form at height 0, which is `Greatest`. Nothing is
asked of the tree but its type: cycles and doubled memberships are included.

## 8. Plan versions

`PlanVersions` has the versions of one product with what refers to them:
surcharges (cascade), coverages and monthly records (refusing keys).  An upload
reads the active version once and writes records much later.  An activation goes
through these steps:

| Action | Code |
|---|---|
| `ReadVersion` | `_get_version`, which also settles `original_status`: one that reads an active version archives nobody |
| `FlushActivation` | `db.execute` flushes the UPDATE of the version first; it waits for the row, and is made even if the version has become active meanwhile |
| `FindOthers` | the UPDATE of the others begins.  At READ COMMITTED it goes through the rows that are committed active *now* |
| `ArchiveOther` | one of these rows at a time: wait for whoever holds it, look at it again, and write it if it is still active |
| `CommitActivation` | the commit, and the locks are free |
| `DetectDeadlock` | PostgreSQL aborts one of the transactions that wait in a circle |

A row that becomes active while the second UPDATE waits is not among those it goes
through, and stays active.  `LeaveActive` is an update that takes a version out of
use; any other update leaves the status alone.

| Run | Instance | Shows |
|---|---|---|
| `plan_versions` | 4 versions, 1 age range, 2 requests, fairness | `RowsConsistent` (nothing refers to a version that is gone), `OneActiveVersion`, `DeadlockNeedsTwoActive`, `RequestsEnd` |

Two requests that wait in a circle each hold a version that the other wants, so two are
active while two others are activated: four versions.  `CONSTRAINT FewDetails` follows
surcharges and coverages while there are two versions (a version and its clone), and
monthly records while there are three, as no activation looks at them; the theorems
do without it.

`OneActiveVersion` holds unless an activation found its others while another one was
flushed and not committed (`overlapped`): neither sees the other, and two versions
stay active.  What does not suffice to break it is a status read long before, or a
row that changed while an UPDATE waited.  `DeadlockNeedsTwoActive` says that such a
pair (`doubled`) is also what deadlocks take.  With two active, two activations may
archive them in different orders, each holding what the other waits for; the
versions they activate may be others, or, with more requests, these very two, read
while they were inactive.

**Fairness.** `FairSpec` adds `SF_vars(Finish(p))` and `WF_vars(DetectDeadlock(p))` for each
request.  `Finish` is what a request that has begun does next.  The event loop runs
every coroutine whose await is over, and the database hands a lock to a waiter when
the holder ends; an activation that waits may see its lock freed and taken again, so
weak fairness would not do, and the database's queue is what justifies the strong
one.  The deadlock detector runs in a transaction that has waited for
`deadlock_timeout`, and a circle does not go away by itself, so weak fairness is what
it gives.  Nothing obliges anybody to *begin* a request, and `Abort` is not assumed.
`RequestsEnd` then says that what begins ends; where requests deadlock, one ends with
an error.

**Proofs** (`PlanVersionsProofs`).  `NoRowIsOrphaned`, `AtMostOneActive` and
`CirclesNeedTwoActive` hold for any number of versions and requests.  None is
inductive alone: `LocksExclude` says that two transactions never hold the same row and
that what is held is stored; `ArchiverHoldsActive`, that while nobody has overlapped
at most one version is active, and at most one activation is in its second statement,
which holds that version or is on its way through it; `NoCircles`, that while two versions have never been
active at once, an activation that still waits found one active version and holds only
its own, which is not active (`WaiterIsInactive`), so that what another one waits for is
not in its hands.  Liveness stays with TLC.

With two active versions the next upload's `scalar_one_or_none` raises, the
processor catches it and the batch has failed
(`capitated_batch_processor.py:159`), until somebody deactivates one: this is
why `OneActiveVersion` matters to section 3.  `is_in_use` always answers False and
`is_deletable` True: what stops a delete is the database.

## 9. The catalogue

| Part | Module | Endpoints | Properties |
|---|---|---|---|
| `coverages` | `PlanCoverages` | catalogue status and delete; attach, detach, reorder | `CoverageOnce`, `OrderTieHasACause`, `AttachedIsInCatalogue` |
| `categories`, `places` | `CoverageCategories` | places of categories; of coverages when created, moved, reordered, deleted | `CategoryPlacesDiffer`, `PlaceTieHasACause` |
| `texts` | `VersionTexts` | terms in two languages (one JSON column), values of a coverage (a column each) | `OtherTextsKept` |
| `countries`, `sold`, `repatriation` | `PlanCountries` | countries, zones, the two lists of a version, prices | `CodesDiffer`, `PriceKept` |
| `templates` | `Templates` | templates and versions, activate, deactivate; what preview and contract print | `ActiveVersionIsOwn`, `DeletedTemplateRests`, `OnlyNamedVersionIsDeactivated`, `ContractPrintsThePreview` |
| `definitions`, `files` | `ConfigItems` | configuration items; upload, replace, delete a file, with the disk outside the transaction | `TokenClashHasACause`, `UploadIsServed`, `MissingFileHasACause` |

Run `catalogue`: two requests; two coverages and three attachments (a place freed
between two others) under lists of up to two ids (`MaxList`; a tie takes a list that
leaves one of two out), two categories and two items (a tie needs two) under any of
the places 1 and 2 (`SentOrder`), two countries and one zone, three ISO codes (a swap needs a spare), two templates and three versions
(one active, one named, one new), two items, an empty category and another one, three uploads (a file replaced twice,
so that two replacements of one record overlap).

What the model shows about the code and no property can claim: `replace` and `delete`
unlink before the commit, so a request that dies leaves a record without its file
(`doubtful`); `config_delete_file` deletes the row of `files` while the item still
refers to it, so that the foreign key refuses after the file is gone
(`config_controller.py:478-514`); `config_destroy` leaves file and record behind;
`update_definition` checks the token only when the body has one, so that moving the
category alone may clash, and in `body.category or item.category`, so that an empty
category is checked in the old one (`config_controller.py:303`) and written (313);
`pv_reorder` numbers whatever ids it is sent from 1, so that a partial list leaves ties
with the rows it does not name (`coverages_controller.py:658-667`); `reorder_coverages`
writes any places for any subset (321-327); a moved coverage takes its `sort_order`
along and may tie;
the unique key on slugs covers deleted templates and the check does not, which ends in
a 500; `deactivate` may clear a version activated meanwhile; the PDF of a contract
uses a deleted "principal" template while the preview skips it.  `restore_coverage`
answers 500 after its commit (a lazy load).  The overlap of age tiers is not checked
by anyone, which is why `CapitatedBatch` has clashes.

**Proofs** (`CatalogueProofs`).  `ReferencesAreThere`, `PreviewIsPrinted`,
`UniqueUntilOvertaken`, `UploadsAreServed` and `OtherWritesSurvive` hold for any catalogue,
disk and number of requests.  There is one invariant per part: the types, the property,
and for every pending request the shape of its write and what it may rely on.  While
a request is fresh that is everything it saw; once it was overtaken it is what no
other write can take away: an id that is never used twice, a column it will not
touch, the path it put on the disk.  Ties of places and clashes of tokens have causes
without any race, so these are claims about steps: the write that brings one about was
overtaken, or is one of the named requests that nobody checks.  The parts share no table, so each invariant
survives the steps of the others by one lemma (`Elsewhere`).  `PreviewIsPrinted` needs
that slugs of stored templates differ (`SlugsDiffer`, the unique key), because the two
renderers look the template up differently.  `UploadsAreServed` needs `FilesKept`: the
paths of pending uploads are on the disk, differ from one another and stand in no
record, so what another request unlinks is never one of them.

## 10. The administration

| Part | Module | Endpoints | Properties |
|---|---|---|---|
| `emails`, `roles` | `Accounts` | create, update, delete, restore a user; its roles and commissions | `EmailClashHasACause`, `UnpaidVendorHasACause`, `RolesAreSomebodysChoice` |
| `password` | `Passwords` | change, forget, reset; lock, suspend, revoke | `NoRecentReuse`, `ResetLinkWorksOnce` |
| `acl` | `Acl` | roles, permissions, the toggle | `NamesDiffer`, `GrantsStayInGuard` |
| `register`, `people`, `commissions` | `Companies` | create, update, suspend, archive, activate; attach, detach; commission users | `CodeClashHasACause`, `StrayBeneficiaryHasACause`, `TwiceAttachedHasACause`, `CommissionUserOnce` |

Run `administration`: two requests, two users (e-mails clash in pairs), two roles of which
one is a vendor's, three passwords with a memory of two and three changes (the
password before the memory may return), one reset link, two rows per table of the matrix
and both guards, one company and two codes, three attachments.

Restoring a user does not look at the e-mail; an update whose body has no roles
writes commissions unvalidated; overlapping role updates leave a set that nobody sent,
because each adds and removes what *it* saw; a reset bypasses the password history
and its link carries no date although the mail promises 30 minutes; attaching a user
that is there twice answers 500.  `ensure_password_not_forced` is used by no endpoint.

**Proofs** (`AdministrationProofs`).  `ClashesHaveACause`, `ReferencesAreKept`,
`RolesAreChosen`, `RecentPasswordsStayAway` and `ResetLinksWorkOnce` hold for any number
of users, roles, passwords, companies and requests.  The invariant of a part says what
its tables and the requests that will write them look like, and, of a request that
is fresh, that its checks are still right: the e-mail it will write is nobody else's,
the roles and commissions agree, the beneficiary is one of the people
(`AccountEditJudged`, `PeopleJudged`, ...).  A write is then the merge of a judged edit
into a row nobody changed (`MergeChanges`), or an overtaken one.  For passwords the
history holds what the properties quantify over: which passwords the owner used and how
long ago (`HistoryTold`), in the order of their age (`Ages`).

## 11. The integrations

`Crm` follows `ZohoCRMService` from await to await: look the log up, search by e-mail,
create or update at Zoho, flush the log row, commit.  A session's flushed rows
(`draft`) survive an exception that `sync_now` catches and ride along with the next
commit.  Zoho may perform a call whose answer is lost, a search may miss a contact
(an error body without "data" counts as none, `unseen`), the service may restart,
and it may run dry (`DRY-RUN` records).  `strayed` marks subscriptions for which the
log never came to name a deal.

`IpCountry` has the file, the reader shared by all requests, the cache and the three
places where a replacement can stop.  Nothing in the services calls it yet, no
requirements file names `maxminddb` (`library`), and the cache never expires
although `ip_country_cache_ttl_seconds` is configured.

Run `integrations`: two requests, two subscriptions of one owner (who must share a
contact), two records and two log rows of each kind; two editions of the database,
two addresses of which only the second edition knows the second.  `CONSTRAINT
Followed` stops following a history once two requests worked on one subscription while
the other subscription exists as well.  No property claims anything of the overlapped
subscription after that; the claims about the other one are cut with it, and the
theorems prove the properties without the constraint.

`RecordsOnce`: one log row, one contact and one deal, unless requests overlap or one of
the named causes struck.  `DealsFollow`: what was synchronised is at the stage of the
status that was read, and a won deal is not taken back.  `AnswersHaveASource`,
`KnownStaysKnown`: a request is told what an installed database says or `None` after an
exception, and a known country is forgotten only by a look-up of the same address.
A duplicated log row makes `scalar_one_or_none` raise for good.

**Proofs** (`IntegrationsProofs`).  `RecordsAreOnce`, `DealsFollowTheirSubscriptions`,
`AnswersAreSound` and `CountriesStay` hold for any number of requests, subscriptions,
companies, owners, addresses and published databases; the run's constraint plays no
part in them.  The invariant of subscriptions (`SubscriptionsInv`) has three ideas.
Requests that work on one subscription, or for one owner, at once have been noted in
`overlapped`, so a request on any other may take the log rows for its own (`Apart`,
`RowsApart`: rows flushed or committed about one local row have one number).  A deal is
named by the log, or in the hand of the request between Zoho's answer and the commit,
or its subscription has strayed (`Named`, `InHand`): so a request that finds nothing in
the log may create one.  And a request that read "incomplete" is the first of its
subscription and finds no deal (`StageKept`), which is why only an overlap takes a won
deal back.  `DealsCarry` says which of this a step of one request can disturb: what
is about its own subscription.  For addresses, a request that waits holds nothing but the
address and the newest edition when it began (a slow download may put an older edition
back over a newer one); the reader is the installed file or a replacement stopped halfway.

## 12. Proofs and assumptions

| Module | Theorems |
|---|---|
| `CapitatedBatchProofs` | `TypeCorrect`, `LedgerInvariantHolds`, `MonthsAreContiguous`, `CoverageIsLoadedInOrder`, `ImplementsLedger` (the refinement of `CoverageLedger`), `LogAgreesWithRecords`, `InvoicesMatchBatches`, `ExpiredIsOver`, `OfferedContractsPrint` |
| `ConcurrentUploadsProofs` | `ContractsOwnTheirMonths`, `ContinuousCoverKeepsItsContract` |
| `SubscriptionsProofs` | `TypeCorrect`, `BillingInvariantHolds`, `NobodyIsCoveredForNothing`, `LinksAreUnderAnAddress`; of requests that keep apart: `CoverIsPaidByItsOwnSubscription`, `ReferrersArePaidOnce`, `CoverIsDroppedByItsCustomer` |
| `BusinessUnitsProofs` | `UsersNeverEarnInACircle`, `OneRowPerOrigin`, `TheTreeIsSound`, `NoUnitIsPaidTwice`, `MembershipsAreSound` |
| `PlanVersionsProofs` | `NoRowIsOrphaned`, `AtMostOneActive`, `CirclesNeedTwoActive` |
| `CatalogueProofs` | `ReferencesAreThere`, `PreviewIsPrinted`, `UniqueUntilOvertaken`, `UploadsAreServed`, `OtherWritesSurvive` |
| `AdministrationProofs` | `InductiveHolds`, `RecentPasswordsStayAway`, `ResetLinksWorkOnce`, `ClashesHaveACause`, `ReferencesAreKept`, `RolesAreChosen` |
| `IntegrationsProofs` | `IntegrationsHolds`, `RecordsAreOnce`, `DealsFollowTheirSubscriptions`, `AnswersAreSound`, `CountriesStay` |

The only assumptions are the named ones of the modules, and TLC evaluates them in every
run.  Bounds are naturals (`BoundsAssumption`, `UnitBoundsAssumption`,
`MaxRecordsAssumption`, ...), the calendar has a month, plans are plans and documents
finitely many (`PlanAssumption`, `DocAssumption`); every subscription has an owner
(`EmailAssumption`), every user a set of addresses (`EmailsAssumption`), and trees are trees of units (`TreesAssumption`).  Sets that
columns draw from are not empty where a row must be made (`ShortCodeAssumption`,
`ConfigItemsAssumption`, `TextAssumption`), and the empty category is one (`ConfigItemsAssumption`).  The others keep apart what the code
tells apart by type or by NULL: `None` is no user and no address, a user is not the id of a unit
(`SourceAssumption`: `source_type`), "none" is no template (`TemplateAssumption`), and a
country is neither a missing entry nor a cached `None` (`CountryAssumption`).

What is model-checked only, and why:

* `RequestsEnd`: liveness under fairness.
* `DeletedIsCancelled`: the code breaks it.

## Not modelled

* **Stripe Connect**: `connect_controller.py` forwards each request to Stripe and
  stores nothing. A transfer carries no idempotency key, so a repeated request pays
  twice; no state of the system records the first one, and nothing here can tell.
* **Audit log**: `Audit.log` appends a row that no code reads apart from a listing.
  Where it raises (`stripe_webhook_controller.py:90`) the step that raises is modelled.
* **Sessions**: login, JWT and impersonation issue and read tokens and write no row
  that another request checks.
* **Products**, the statistics of the dashboard (four separate counts), the capitated
  listings, the customer's portal, the detection of intents in the chatbot, and PDF
  rendering: single-row writes without a rule across rows, or reads.
* **`scripts/`, deployment, migrations, `src/app/`**: no state of the running system, or
  re-exports.
* **The rollback methods of the batch processor**
  (`capitated_batch_processor.py:818-1033`): no endpoint calls them.
* Columns no check reads: names, logos, branding, descriptions, percentages, texts.

Two small divergences met on the way, outside any model: the Excel template of
`capitated_batch_controller.py` lists products of type "capitated" while everything
else filters "plan_capitado"; and an upload's `scalar_one_or_none` over active versions
(`capitated_batch_processor.py:675`) turns two active versions into a failed batch
(the exception is caught at line 159).
