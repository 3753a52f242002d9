# CampusConnect: TLA+ specifications and proofs

CampusConnect (`src/backend/app`, FastAPI with async SQLAlchemy over PostgreSQL,
and a React client) carries a student club's event from proposal to archive. A
proposal with a hall and a budget is approved in six steps and becomes a
confirmed event; the event is held and reported; its money is advanced, audited,
settled and paid; and the event is closed under a certificate. Every request rides on
a browser session whose tokens rotate, and every claim on an uploaded bill. This
directory models those parts, checks them with TLC and proves their most important
properties with TLAPS.

## Inventory

Every request runs in one database session and one transaction
(`core/database.py` `get_db`: commit when the handler returns, rollback when it
raises; many handlers also commit themselves), at PostgreSQL's default READ
COMMITTED. The session neither flushes nor expires rows by itself
(`autoflush=False`, `expire_on_commit=False`). The services share state only
through the database rows; they call each other inside one transaction, and they
write an audit row and a notification beside each change.

| Component | State | Operations | What makes it correct |
|---|---|---|---|
| Proposals (`event_service.py`) | `EventRequest`, its snapshots (`EventRequestVersion`), `version_lock` | create_draft, update_draft, submit_proposal, cancel_proposal | what is approved is the snapshot that was submitted; decisions are final |
| Approval workflow (`workflow_service.py`) | `WorkflowInstance` and its steps | instantiate_workflow, approve_step, reject_step, request_revision | steps in order, one live instance, every submission is decided |
| Halls (`venue_service.py`, step 2) | `VenueRequest`, `HallBookingConfirmed` | create, update, delete_venue_request, confirmation, release | no hall is booked twice for overlapping times; every booking is released |
| Budget (`budget_service.py`) | `BudgetProposal`, line items, `finance_status` | header and line item edits, verify_budget | the total is the sum of its lines, the claim is within it |
| Execution (`event_execution_service.py`) | `Event.status`, `PostEventReport`, the booking | start, complete, report, revise, certify, cancel | a certified report before any audit |
| Expense ledger (`expense_service.py`) | `ActualExpense` | create, update, delete, submit, verify, partially verify, query, disallow | only a submitted line is audited; decided lines stay |
| Settlement (`settlement_service.py`) | `CashAdvance`, `ActualIncome`, `FinancialSettlement`, `SettlementPayment`, `SettlementRevision` | advance, income, prepare, submit, audit, pay, reopen | cash paid is the entitlement when SETTLED, never more; approved as prepared |
| Closeout (`closeout_service.py`) | `EventClosure`, `EventClosureRevision` | request, certify, reject, petition, approve reopening, archive | a closed event is resolved, frozen and matches its certificate |
| Documents (`document_service.py`) | `Document` rows and the files behind them | five kinds of upload, delete | a row shows the file that was uploaded for it; a bill is one document of one event |
| Authentication (`auth_service.py`, `core/security.py`) | users, failed-login counters, refresh tokens | login, rotate, revoke | a rotated token is dead beside its successor; an honest browser never looks like a thief |
| API client (`frontend/src/lib/apiClient.ts`, store, router, login page) | access token in memory, refresh in progress, queued requests, the page shown | request, 401, refresh, replay, session check, login, logout | no request forgotten, no loader left spinning, every request ends |
| Rate limiter (`core/rate_limiter.py`) | request times per client | check | at most the limit per window |
| Clubs, notifications | memberships, messages | CRUD | single rows |
| Dashboards, resources, pages, proxy, scripts | none of their own | queries and display | |

Hard behaviours: several actors act on one proposal or event in any order (club,
reviewers, Finance, Dean, administrator), two proposals compete for one hall,
work is sent back and repeated (revision, query, reopening), records change
behind a document computed from them, transactions interleave wherever a handler
reads a row without locking it, files are written before the rows that name them
commit, and the browser refreshes, reloads, signs in and out while answers are under
way or lost. `PROJECT.json` lists the hazards one by
one, with the line where each bites.

## Modules

Four specifications, each composed of one module per service over one module of
state. `EventService` in the first ends where the second begins: with a
scheduled event, its booking and its approved snapshot (`Grant` is the
contribution that snapshot sanctions). The third looks again at the expense lines of
the second, at what they claim instead of at their money. The fourth shares no state
with the others: of a session, they need no more than that the caller has one.

| Module | Models | Remarks |
|---|---|---|
| `ProposalState` | the rows of a proposal, the exclusion constraint on bookings | variables, types, Init, what services ask of a row |
| `WorkflowService` | one action each for approve_step, reject_step, request_revision; `InstantiateWorkflow` | approving includes hall confirmation, budget verification and event creation |
| `EventService` | draft, edit, submit, cancel; cancellation of the confirmed event | submission snapshots, supersedes and instantiates in one step, as the handler does |
| `VenueService`, `BudgetService` | their handlers, one action each | |
| `HallCalendar` | what the bookings promise: take a free slot, keep it, give it back | abstract specification |
| `ReviewBoard` | what the review promises: terms are tabled, signed one member after the other as they were shown, answered or withdrawn | abstract specification |
| `ProposalWorkflow` | all of these composed, properties | `Spec`; `HallSpec` leaves out budgets; `ReviewSpec` adds fairness |
| `ProposalRaces` | the same with sessions that act on rows read before others committed | `ReadProposal`, then `Answer` or `Refuse`; extends `ProposalWorkflow`, without budgets |
| `ProposalProofs`, `ReviewProofs`, `BoardProofs` | theorems about both: types and halls; reviews, events and budgets; the refinement of `ReviewBoard` | |
| `PostEventState` | the rows of one confirmed event, the financial formula | |
| `EventExecution`, `ExpenseLedger`, `SettlementService`, `CloseoutService` | their handlers, one action each | a handler takes what it reads without a lock (the event's status, the settlement row) as a parameter |
| `EventAccount` | what a settlement promises: drawn up once per reopening, paid only to whom something is due, sealed when nothing is, reopened on the record | abstract specification |
| `PostEvent` | all of these composed, properties | `PaymentSpec` adds fairness |
| `PostEventRaces` | the same with sessions that decide on the event and the settlement as they read them | `ReadRows`, then `Answer` or `Refuse`; extends `PostEvent` |
| `PostEventProofs`, `RacePaymentProofs` | theorems about each of the two | |
| `AccountProofs` | the refinement of `EventAccount` by both, and what it gives of the money under overlaps | |
| `InvoiceState` | documents, files, expense lines as claims, the open transaction of each session | |
| `DocumentService` | uploads and deletion: checks and file write, then the row's commit, or a rollback | |
| `InvoiceLedger` | the duplicate-invoice and bill checks of the expense handlers, in two steps as well; the life of the events around them; properties | |
| `InvoiceProofs` | theorems about `InvoiceLedger` | |
| `AuthState` | refresh tokens, the browser's cookie, and per tab the auth store, the page, the requests and the calls to refresh and log out | |
| `AuthService` | issue, rotate, expire, revoke, reuse detection | a rotation reads the row in one step and commits in another |
| `ApiClient` | the interceptors with `refreshQueue`, AppRouter's session check, login page, logout button | |
| `AuthSession` | the two composed, properties | `FairSpec` adds fairness |
| `AuthProofs` | theorems about `AuthSession` | |
| `MCProposalWorkflow`, `MCProposalRaces`, `MCPostEvent`, `MCPostEventRaces`, `MCInvoiceLedger`, `MCAuthSession` | instances for TLC | |

A row that does not exist has status `"NONE"`. An action's guard is the
conjunction of the handler's early returns; its effect is the whole handler, up
to the commit. A handler that raises changes nothing and is no action. Operators
marked `Slip` are plausible mistakes in a handler; nothing refers to them. They
show that each property notices one: put in place of the definition that follows
them, the property fails.

### What is abstracted

- **Who.** Roles, assignees and the rule that nobody approves their own
  submission are fixed by rows these handlers do not change; any step that is
  due may be decided, and any handler called, by somebody entitled to.
- **When.** Lead times, capacity and operating hours restrict which slots may be
  requested: `Slots` is the set that passes. A slot's hall, requested date and
  times are independent of each other, as in the code, because step 2 looks for
  conflicts by the requested date and the database by the times. In `PostEvent`
  the clock is before, inside or after the booked window.
- **Content.** Title, description and guests are one member of `Contents`. A file is
  its content, of which the SHA-256 is the identity; an invoice is its vendor, number
  and date together, as the duplicate check compares them.
- **Events in `InvoiceLedger`** are one phase each: REVISION_REQUIRED is DRAFT there,
  the statuses of a review are one, ARCHIVED is CLOSED, PARTIALLY_VERIFIED is VERIFIED.
  Nothing in documents or claims tells these apart.
- **One account and one browser** in `AuthSession`. An access token is live, stale or
  missing; a login (its call, `/me` and `setAuth`) is one step, as nothing else in the
  tab runs before it ends except what the other actions already allow. Deactivated
  users, the lockout counter, the rate limiter and registration are left out. A 401 is
  answered as the interceptor does; any other error is `RequestFailed`.
- **Money** is a natural number of units. The code's decimals have fixed
  precision and only sums, differences and comparisons are taken of them, apart
  from `max(0, ..)` and `min(.., grant)`, which are kept.
- **Payments** are their totals per direction, the only thing the code reads of
  them.
- **Fingerprint.** The settlement's SHA-256 over its source records is those
  records. The code keeps it in an audit row it later searches for by a UUID
  where the column is `String(100)` (`settlement_service.py`): on SQLite, where
  the tests run, nothing is found and the check is skipped; PostgreSQL refuses to
  compare the two types. `FingerprintFound` says whether the lookup finds it; the run that needs the check has it TRUE, the closing
  run FALSE, and only the theorem about approvals assumes it.
- **Optimistic locks.** `version_lock`, `step_version_lock` and the submission's
  idempotency key only refuse calls. A refused call is no step.
- **Transactions.** Where nothing is said, each handler is one step. For handlers that
  lock first the row they decide on this is what the database gives.
  `submit_proposal`, `cancel_any_event` and the venue handlers read the proposal
  without a lock, the settlement endpoints load the settlement before the service
  locks it, the ledger handlers read the event without a lock; and a later locked
  select of the same session returns the row it already holds (none of them asks for
  `populate_existing`). Their actions take the row as a parameter: `ProposalWorkflow`
  and `PostEvent` pass the current one, `ProposalRaces` and `PostEventRaces` one read
  in an earlier step. Sums over ledgers and payments are queried after the wait and
  are current. A session writes only the columns it changed, so the rest of the row
  is what others left there. Transactions the database aborts because they wait on
  each other, or on a unique key, are `Refuse` or `Rollback`. In `InvoiceLedger` and
  `AuthService` every transaction that checks and then writes is two steps. The
  budget handlers also read something without a lock; for these the properties say
  what holds when requests do not overlap.

## What TLC checks

Deadlock is not checked: an archived or cancelled event, and a proposal that has
been decided, really stop.

| Run | Question | Instance | States |
|---|---|---|---|
| `ProposalHalls` | two clubs after one hall: no double booking, every booking released, a scheduled event holds the slot it is announced in, and the bookings implement `HallCalendar` | 2 proposals; 3 slots: two that overlap under different requested dates and one that begins when another ends; 3 steps; 2 submissions | 925,034 |
| `ProposalReview` | one proposal reviewed, sent back and resubmitted: one live instance, approved on every reviewer's word and on the latest snapshot, decisions final, the budget's total kept, every submission decided, and the whole of it implements `ReviewBoard` | 1 proposal with hall and budget (1 line item), 4 steps, 2 submissions | 418,681 |
| `ProposalRaces` | two sessions that act on rows read earlier: overlapping submissions end as one, no proposal has two live reviews, reviews stay in order, an event was approved by everybody on its snapshot | 1 proposal with a hall, 2 contents, 3 steps, 2 submissions, 2 sessions | 1,407,476 |
| `PostEvent` | the event and its settlement, one request after another: a first settlement is never left waiting for a payment of nothing, Finance approves what was prepared, a closed event is resolved and frozen, an approved settlement is paid in the end | 1 expense, 1 income, 1 advance, amounts to 2, grant 2, 2 reopenings | 218,536 |
| `PostEventRaces` | the money and its records, with a request that decides on the event and the settlement as it read them: SETTLED means cleared, payments stay within what is due, a closed event is paid up and certified for what was settled, both histories are audit trails, and the settlement implements `EventAccount` | the same, and 1 session beside the uninterrupted requests | 2,422,919 |
| `Invoices` | uploads and claims with transactions rolled back anywhere: files keep to their documents, a bill is one document of one event, an invoice is claimed by one event on one bill, a bill in use is never deleted | 2 events, 2 files, 1 invoice, 2 lines, 2 uploads, 1 session | 526,339 |
| `AuthSession` | one tab that loads, signs in and out, refreshes and loses answers: no request waits without a refresh, no loader spins without a check, no token works beside its successor, the cookie never looks stolen, every request ends | 1 tab, 2 requests and the session check, 2 tokens, 1 reload or loss | 103,672 |

What survives overlapping requests is checked under them only, since there too every
request may be handled in one step: `ReviewsInOrder` in `ProposalRaces`, the money and its
records in `PostEventRaces`.

Each of the remaining five runs exhibits a place where the code does not do what a
document, a comment or a message of the repository says, and the code is at fault:

| Run | Shows |
|---|---|
| `ProposalVenue` | after a revision the club asks for another slot and is approved for it; approve_step re-activates the old booking row without changing it (`workflow_service.py:493`), so the event is scheduled in the old slot |
| `ProposalRacesHall` | a cancellation that read the proposal before its last approval passes every check of cancel_proposal, releases the hall and leaves the event scheduled without it (`event_service.py:1154`) |
| `PostEventCashOut` | an advance requested after the settlement was prepared is disbursed on top of the full payout (`settlement_service.py:365`) |
| `PostEventRacesClosing` | a draft expense of a request that read the event before it was certified is inserted after the event is closed, where nobody can decide it (`expense_service.py:345`) |
| `AuthTabs` | two tabs refresh with the cookie they share, both find its token unrevoked, and both get a successor that works (`auth_service.py:259`) |

### Other disagreements

They were met while modelling and have no run of their own.

- A line item edit recomputes the total without the ceiling `income + contribution <=
  total` that the header operations check (`budget_service.py:471`;
  `docs/DAY7_BUSINESS_RULES.md:50`).
- The expense handlers do not look at the settlement, so lines change after it is
  SETTLED (`expense_service.py:165`; `docs/PHASE2_3_DECISION_RESEARCH.md:671`).
- A REOPENED settlement may be submitted without being prepared again; its approval is
  then pending with nothing left to pay, and no payment settles it
  (`settlement_service.py:1426`; `docs/PHASE2_3_SERVICE_IMPLEMENTATION_REPORT.md:173`).
  This is why `FirstSettlementIsPayable` and `PaymentsClear` are about the first round.
- A settlement refused at the audit as stale cannot be prepared again, as that wants it
  missing or REOPENED (`settlement_service.py:1221`; the same report, line 140).
- The advance of a cancelled event cannot be refunded, since a settlement wants a
  COMPLETED event (`event_service.py:1110`).
- `upload_document` stores no hash and any active document of the event serves as a
  bill, so one file attached to two proposals can be the bill of both
  (`docs/PROJECT_STATUS_AUDIT.md:421` promises detection across all events).
  `BillUploadedOnce` is therefore about invoices uploaded as such.

### What overlapping requests break

Without overlaps all properties of `ProposalHalls` and `ProposalReview` hold. Under
`RaceSpec` some of them do not, and TLC finds it with one session and one
submission:

- a late cancellation: `EventHasItsHall` (the run above) and `DecisionsAreFinal`;
- a submission that read the draft before an edit or a cancellation committed:
  `ReviewedIsSnapshot` (the snapshot has the older content) and `DecisionsAreFinal`
  (the cancelled proposal is submitted again);
- either of them beside a submission: `OneLiveInstance`, as the request no longer
  says what its instance does (a proposal CANCELLED by a session that read the draft
  keeps a live review);
- a review that goes on after such a cancellation: `HallReleased`;
- any of these: `ReviewsAreABoard`, first with the snapshot that is older than the
  terms it is tabled for.

`docs/PHASE_2_5_3_DATABASE_CONCURRENCY_DESIGN.md:57` says that submit_proposal locks
the draft; the code reads it with `get_event`. `ApprovedIsReviewed` holds, since
`EventIsReviewed` does whatever the request has become.

What survives is what the database itself enforces or what the locked review
handlers decide on fresh rows: the four properties of `ProposalRaces` and
the two about bookings, all proved for every instance.

Of the post-event properties, those of the money, the certificate and the histories
survive and are proved: `SettledMeansCleared`, `NeverOverpaid`, `RevisionHistory`,
`CertificateMatchesSettlement`, `ReopeningRecordedTwice` and `SettlementIsAnAccount`.
`ClosedIsResolved` does not (the run above); what is left of it is `ClosedIsCleared`:
a closed event may get a draft expense and its settlement a strange status, but nothing
is due to anybody, the settlement's payout is within the grant, and only an advance
disbursed after the preparation can have made the event cost more. Nor does `FirstSettlementIsPayable`: a second approval that had read
UNDER_AUDIT puts a settlement that was paid in between back to pending, with nothing
due (`settlement_service.py:1495`).

Of the invoice properties, `StoredFile` survives any overlap, and is proved for it.
`OneClaim` and `BillUploadedOnce` do not with two sessions: each handler looks for a
duplicate before the other has committed, and no unique index stops the second. Nor does
`BillInForce`: a deletion that read the event in draft commits after another session has
claimed the document's expense, if the request lasts that long.
`docs/PHASE2_2_DECISION_RESEARCH.md:110` asks for "strictly preventing duplicate
concurrent or verified claims" with a partial unique index that migration 0003 does
not create. The `Invoices` run therefore has one session, which still opens, rolls back
and commits its transactions between all other steps.

### Why the bounds are enough

- Two proposals are all a pair of bookings can involve; the three slots cover
  every relation that the two conflict rules tell apart (overlapping with the same
  date: a slot with itself; overlapping with another date; adjacent).
- Three steps are the shortest workflow with a hall step in the middle, a finance
  step and a last step; a fourth, in `ProposalReview`, separates the finance step
  from the last. The remaining default steps have no effect of their own.
- Two submissions are the first that supersede an instance and meet rows left by
  an earlier review. Two reopenings are the first that must number a second
  snapshot and count payments of two earlier rounds.
- Amounts 1 and 2 against a grant of 2 give a payout below, at and above the
  advance, a payment in parts, and a deficit cut off by the grant.
- Two sessions are enough for a decision on an old row to overlap another such
  decision; the uninterrupted requests beside them stand for everybody else.
  Bookings under overlaps are the subject of a proof, so `ProposalRaces` keeps to
  one proposal and one slot.
- One session is enough in `PostEventRaces`, since the uninterrupted requests beside it
  are everybody else. No request is under way from a reopening to the settlement
  prepared again (`NotWhileReading`), a matter of days. Two sessions with two
  reopenings, amounts to 2 and no income (3.75 million states), and with an income and
  amounts of 1 (6.2 million), were checked by hand.
- In `Invoices` two events, two lines and one invoice make every pair of claims; two
  files let a bill differ from another and two uploads collide. Three uploads of one
  file (5.3 million states) were checked by hand.
- In `AuthSession` two requests beside the check are a leader, one that queues before
  the answer and one after; two tokens are a rotation; one loss is the first answer
  that leaves the cookie behind. A third token (1.4 million states) and a second tab
  (3.4 million) were checked by hand. A tab asks for the session once at a time. When
  no token is left to issue, a login or a rotation fails as on a server error.
- `ProposalHalls` treats the two proposals as interchangeable (`Alike`), `Invoices` its
  events, files and lines: no definition mentions a particular one, and neither run
  checks liveness.

### Fairness

- `ReviewSpec`: weak fairness of deciding, per proposal. A due step stays in its
  reviewer's queue until somebody decides it, and rejecting is always possible, so
  this says that reviewers work through their queues. It assumes an eligible
  reviewer: when a role has neither a user nor an administrator the step is
  assigned to the submitter, who may not decide it (`workflow_service.py:322`).
- `PaymentSpec`: weak fairness of recording *some* payment while one is accepted:
  Finance pays what it approved.
- `FairSpec` of `AuthSession`: the server answers a refresh that reached it, and every
  request and every refresh is answered or fails. Browsers end a call that neither
  happens to; the refresh has no timeout of its own in the client
  (`apiClient.ts:84`), so there it is an assumption about the network.

Nothing is assumed of the clubs, of the Dean, of the users or of time.

## What TLAPS proves

For every value of the constants, from the assumptions stated beside them:

| Theorem | Says |
|---|---|
| `ProposalProofs!TypeCorrect` | the rows have their types |
| `HallsNeverDoubleBooked` | no two active bookings overlap, for any number of proposals and any slots |
| `BookingsImplementCalendar` | the booking rows implement `HallCalendar` |
| `HallsNeverDoubleBookedInRaces`, `RacingBookingsImplementCalendar` | the same for any number of sessions, however old the rows they act on |
| `ReviewProofs!SubmissionsNumbered`, `NeverTwoLive`, `EventsAreReviewed` | what holds of submissions, instances and events for any number of sessions |
| `StepsInOrderInRaces` | reviews stay in order for any number of sessions |
| `InstancesAreLive`, `StepsInOrder`, `ApprovalsAreReviewed`, `SnapshotsAreReviewed` | the review of a proposal, for any number of steps, proposals and submissions |
| `HallsAreReleased`, `EventsHaveTheirHalls` | the hall from its confirmation to its release |
| `BudgetsAddUp`, `FinalDecisions` | the stored total, and the end of a decided proposal |
| `BoardProofs!ReviewsRefineBoard` | the review implements `ReviewBoard`, for any number of steps, proposals and submissions |
| `PostEventProofs!TypeCorrect` | the rows have their types |
| `SettledIsCleared`, `PaymentsNeverOvershoot`, `FirstIsPayable` | the settlement's money |
| `ClosedEventsAreResolved`, `CertificatesMatch`, `ClosedEventsAreFrozen` | what closing means |
| `RevisionsAreAnAuditTrail`, `ReopeningsAreRecordedTwice` | what reopening keeps |
| `ApprovalsAreAsPrepared` | approved on the very records it was prepared from, given `FingerprintFound` |
| `RacePaymentProofs!SettledIsClearedInRaces`, `RevisionsAreAnAuditTrailInRaces` | money and history for any number of sessions that act on rows read earlier |
| `AccountProofs!SettlementRefinesAccount`, `SettlementRefinesAccountInRaces` | the settlement implements `EventAccount`, with requests one after another and under any overlap of the endpoints |
| `PaymentsNeverOvershootInRaces`, `ClosedIsClearedInRaces` | no payment passes what is due, and of a closed event nothing is due and its payout is within the grant, under any overlap |
| `CertificatesMatchInRaces`, `ReopeningsAreRecordedTwiceInRaces` | certificates and the two histories, under any overlap |
| `InvoiceProofs!TypeCorrect`, `FilesAreStored` | documents and their files, for any number of overlapping sessions |
| `BillsAreUploadedOnce`, `InvoicesAreClaimedOnce`, `BillsStayInForce` | bills and claims, given `OneAtATime` |
| `AuthProofs!TypeCorrect` | the tokens and the browser's state have their types |
| `QueuesHaveRefreshes`, `LoadersEnd` | what waits in a tab, waits for something |
| `SuccessorsReplace`, `CookiesAreFresh` | tokens and the cookie, for any number of tabs |

**Halls.** `NoDoubleBooking` is inductive with `HallsNamed` (an active booking and
an existing venue request name a real slot), because a booking row that is written
is either the one being confirmed, for which `Exclusive` was checked against all
others, or one being released. `BookingSteps` reduces every action to *nothing, one
release, or one hold*; all four theorems rest on it. The lemmas are about `AnyStep`:
a step of `ProposalWorkflow` or `LateStep`, a handler that acts on *any* row whatever.
`RaceSteps` shows that every step of `ProposalRaces` is one, so nothing about
bookings depends on what a session has read. For the refinement, a hold of a row
that is already active keeps its slot, since an existing row is re-activated as it
is: a stutter. The same line of code thus makes the calendar right and
`ApprovedVenueIsBooked` wrong.

**Reviews.** Two invariants. `FlowInv` needs no relation between a request's status and
its instances, and so survives overlaps: the n-th submission is the n-th instance, only
the last may be live, each was decided in order, and an event is that of a finished one.
It is inductive for any row a session holds whose version and instance agree
(`RowOK`), which `RaceFlowInv` keeps of all rows read. `SerialInv` adds what needs
requests one after another: `ReviewOK` (the last instance is live exactly while the
request is under review), `HallOK`, `SnapOK` (what is under review is the snapshot) and
`MoneyOK`. They are one invariant because an approval needs all of them: the event takes
its slot from the booking, and its snapshot from the request. `BudgetAddsUp` needs no
induction over the sum: every handler that writes a line writes the sum of the new lines
with it, whatever the sum is.

`Asked` says which step a request that is SUBMITTED or IN_REVIEW waits for: the current
one of the instance it names, undecided. It survives overlaps although `OneLiveInstance`
does not, because it says nothing of an instance whose request has become something
else.

**The board.** `ReviewBoard` knows a proposal's standing, its terms, what was tabled, how
many have signed and what was agreed. The mapping reads the standing from the status, the
terms from the rows a snapshot would be taken of now, what was tabled from the snapshots,
the signatures from the last instance and the agreement from the snapshot of the event.
Under `SerialInv` every handler is one step of the board or none: `WriteOnBoard` takes all
edits of the proposal, its hall and its budget at once, since they need a proposal that is
the club's; `OffBoard` takes what is none of the board's business (Finance's mark, the end
of an event); an approval signs what is tabled because `SnapOK` says that the terms are
still those of the last snapshot.

**Money.** `PaymentInv` adds to `SettledMeansCleared` that a pending settlement's
balance has the sign of its type (`Directed`) and, before any reopening, is not
zero (`FirstOpen`). A payment is at most what remains, so it keeps the sign;
reaching zero is what sets SETTLED. A reopened settlement may be pending with a
balance of zero, which is why `FirstOpen` is restricted.

**Closing.** `ClosedInv` needs all its parts at once: reject_income,
reject_advance and disburse_advance do not look at the event's status, and are kept
away from a closed event only because closing required that nothing was left for
them to act on (`Resolved`).

**History.** `HistoryInv` combines the two with the revisions: a snapshot is taken
of a SETTLED settlement, which is cleared, and payments only grow.

**Approvals.** `FingerprintKept`: whatever was compiled stays attached to the
settlement until it is compiled again.

**Money under overlaps.** `SeenOK` is what a row read earlier still says: its figures
are the settlement's, as nothing compiles it meanwhile, and if it was SETTLED then no
payment has been added, because a cleared balance leaves nothing to pay. Hence a late
payment is limited by the right figures, a late approval only settles a balance of zero,
and a late reopening snapshots every payment. `FirstOpen` is not part of it: a late
approval breaks it.

**The account.** `EventAccount` has no statuses but *open* (no settlement yet, or
REOPENED) and *closed*. It limits a payment by what is due, whatever the settlement's
status, so the proof has to show that a payment is recorded only in the direction its
pending status names and only up to the balance (`MoneyInv`); and its reopening records an
account with nothing due. `Account!Cleared` makes that inductive: while the account is
open or the event closed, nothing is due, and a closed event's certificate names the
payout. Only `prepare_settlement` changes a figure, and it locks the event and wants it
open; closing wants the settlement SETTLED; and of a cleared account no payment takes
anything. Under overlaps a late decision may give any status to a settlement that was
reopened, or was closed with its event, in between; but it leaves figures and payments
alone (`StatusInAccount`), so the account is at most drawn up again as it was. What was
read earlier still has the current figures (`SeenOK`), whence the same steps. The
certificate and the closure's history follow from the account: reopening a closed event
wants the settlement SETTLED now, and snapshots it with the payout that was sealed.

`GrantInv` says what is left of the grant when advances and settlements overlap: the payout
is within it, and the advance a settlement counts is the one disbursed, or none. It is
inductive because the ledger has one advance, which is disbursed once and then stays
(`AdvanceKept`), and because only `prepare_settlement` reads it. That the cash paid out
altogether stays within the grant does not follow, and is false (`PostEventCashOut`).

**Bills.** `FileInv` gives every document and every open upload a path of its own; that
documents never outnumber files, which bounds their types, is the pigeonhole principle.
`LedgerInv` says of each open transaction that what it checked still holds (`OpenOK`):
true of one session, as only its own commit adds a document or a claim, while lines that
others decide only take claims away. A deletion was opened while its event was in DRAFT,
and lines are of events that are over, which never come back to DRAFT; so it may commit
after the event has lines and still takes away no bill.

**Sessions.** A refresh under way knows the token it was sent with and, once rotated,
its successor (`CallsKnown`). Every server step makes the token table grow by a token
whose parent it revokes, or only revokes (`TableStep`), which gives `Lineage` whatever
the tabs do. `CookieIsFresh` needs `CookieInv`: the answers under way name tokens that no
other tab holds, and a rotated cookie has its replacement under way.

Only model-checked: the liveness properties (`ReviewsEnd`, `PaymentsClear`,
`RequestsEnd`), which with fairness and ENABLED are beyond the proof system. Every
safety property that a passing run checks is also the statement of a theorem.

## Plan

Done so far, in this order: halls and reviews, the settlement and the closing, the same
with overlapping sessions, tokens and the client, documents and claims, and the proofs of
their safety properties. What is left:

1. **Budget sessions**: two line item edits that each sum the lines they can see, and
   an edit beside a submission.
2. **Event life cycle**: an abstract specification of the event's statuses that
   `ProposalWorkflow`, `PostEvent` and `InvoiceLedger` all implement.
3. **Assignees**: the rule that nobody decides a step of their own proposal, and the
   step without an eligible reviewer that `ReviewsEnd` has to exclude.
4. **Proofs**: what survives of the review board where requests overlap, and a
   specification of a session's tokens that `AuthSession` implements for each tab.

## Not modelled

Clubs, notifications, dashboards, the pages of the client, proxy and scripts:
single-row writes, queries, display and input/output, with no state that another
component's properties depend on. The rate limiter is one call on a list of timestamps
in one process that nothing interrupts; the lockout counter is read by nothing but the
next login. Password hashing, token formats and role
checks are functions of one request. The
petition to reopen an event writes an audit row and nothing else.
