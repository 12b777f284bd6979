# Verification of the asynchronous core

TLA+ models of the parts of this program in which several actors write the same
state: the MySQL job queue, the idempotency guard of order creation and the AI
agent that orders through it, broadcasts, courier booking, WhatsApp messages,
billing with the tenant status cache, and outbound webhooks. TLC checks small
instances; TLAPS proves every safety property of the passing runs for every
value of the constants. Liveness is model-checked only.

Paths below are relative to `backend/src/` unless they say otherwise.

## 1. Inventory

| Component | State it keeps | Operations | Hard behaviour |
|---|---|---|---|
| Job queue (`common/services/job-queue.service.ts`) | table `jobs`; per process: poll flag, slots, running handlers | enqueue, poll (reap, select, claim), runJob, wake | two statements per claim, leases, crashes, retries, serial and dedup keys |
| Cron maintenance (`modules/cron`) | table `jobs`, media files | cleanupOrphans, purgeOldJobs, media expiry | writes the queue's rows beside the poller |
| Order idempotency (`common/services/order-idempotency.service.ts`) | table `pending_order_hashes` | reserve, finalize, release | insert races, lost answers, expiry, fail-open |
| Order creation (`modules/integrations/shopify/shopify.service.ts`, WooCommerce alike) | none of its own; orders at the shop | createOrder | a failure before, at or after the confirmed order |
| AI agent (`modules/integrations/shopify/ai-agent.service.ts`) | in-memory order lock per conversation; one marker, of the last order, in the conversation row | placeCodOrder | lock and marker outlive, or do not outlive, a process, a window and an order of another cart |
| Broadcasts (`modules/broadcasts`) | `broadcasts` row, its jobs | sendNow, schedule, cancel, dispatch, worker | read-then-write requests against a running fan-out |
| Inbound webhooks and status (`modules/inbox/meta-webhook.*`) | contacts, conversations, messages, unread and broadcast counters | receipt, message events, status events | duplicate and reordered deliveries, several writes per event, lanes |
| Inbox (`modules/inbox/inbox.service.ts`) | outbound message rows | sendMedia and its worker | a restart or an outage between Meta's answer and its record; status webhooks from another lane |
| Courier booking (`modules/couriers/shipment.service.ts`, `courier-ops.service.ts`, `courier-status-sync.service.ts`, `shipment-tracking.*`) | shipment row, Shopify order, parcels at the courier | claim, book, bulk book, resolve, unbook, cancel, receive, pull, push, booking pipeline | lost answers of couriers, rows deleted or reused under a job |
| Billing (`modules/billing`, `modules/super-admin`) | invoices, company status, grace, plan requests | generate, enforce, markPaid, reactivate, suspend, activate, grace | suspension against payment |
| Tenant status cache (`common/services/company-status.service.ts`) | in-memory status per tenant | isActive, invalidate | a fill that spans an invalidation |
| Webhook delivery (`modules/webhooks`) | endpoints, in-memory endpoint list, logs | dispatch, update, toggle, delete, worker | endpoint changes against a cached list; retries of what was heard |
| Everything else (auth, contacts, analytics, tickets, ...) | tables | CRUD, rendering, aggregation | little beyond single statements |

Interaction: callers enqueue jobs; the queue calls registered handlers; handlers
call services (broadcast worker -> `BroadcastsService`, AI agent ->
`createOrder` -> `OrderIdempotencyService`, dispatcher -> `CompanyStatusService`),
whose answers may be lost when the process dies; status webhooks write the
counters of broadcasts and the rows of send-media; cron endpoints write the
tables of others. The only state shared across processes is the database;
slots, timers, caches and locks are per process.

What makes each of them right, in a sentence: the queue runs a job at least once
and never twice at a time; the guard lets one identical order through per
window and answers duplicates with it, and a chat does not order again what it
has marked; a broadcast stops when cancelled, unless something was about to write
its status just then, and ends when everyone is accounted for; a lane books a parcel once, a booked row is somebody's work, and a live
parcel can be found; a message is announced once, its status only advances, and a person has one
thread;
a tenant is suspended by the cron only while it owes; a delivery that ended well is
logged, and one that was confirmed is sent again only after a failure. Every hazard, with its line
and the property that covers it or the reason none does, is in `PROJECT.json`.

## 2. Plan

| # | Module | Composes | State |
|---|---|---|---|
| 1 | `TaskQueue` (abstract), `JobQueue` (detailed), `JobQueue_proofs` | JobQueue implements TaskQueue | done |
| 2 | `OrderGuard` (abstract), `OrderIdempotency` (detailed), `OrderIdempotency_proofs` | OrderIdempotency implements OrderGuard | done |
| 3 | `AgentOrder`, `AgentOrder_proofs` | extends OrderIdempotency and implements its specification, and so OrderGuard | done |
| 4 | `Broadcast`, `Broadcast_proofs` | over `TaskQueue` | done |
| 5 | `CourierBooking`, `CourierBooking_proofs` | over `TaskQueue` | done |
| 6 | `MessageFlow`, `MessageFlow_proofs` | over two instances of `TaskQueue` | done |
| 7 | `TenantBilling`, `TenantBilling_proofs` | account and status cache | done |
| 8 | `WebhookDelivery`, `WebhookDelivery_proofs` | extends TenantBilling, over `TaskQueue` | done |
| 9 | plan requests | extends TenantBilling | left |
| 10 | PayFast settlements: apply against delete and manual match | over `TaskQueue` | left |

Each module that uses the queue takes `TaskQueue` by INSTANCE, which JobQueue is
proved to implement, so the detail of claims and leases is checked once.

## 3. Modules

The ghosts named below are history variables: the properties read them and no
step of the code does. A definition directly above another with the same
parameters is a faulty variant of it (see section 4).

### TaskQueue
What the queue promises: a task waits, runs, and is done, dead or deleted; it is
run again after a failure or an interrupted run; it never runs twice at once,
nor beside a task of its serial key; a dedup key stands for one live task.

### JobQueue
Every database round trip is one action. Correspondence:

| Code | Actions |
|---|---|
| `enqueue` 112-164 | `Stamp` (run_at is taken), `Enqueue` (the INSERT; a duplicate key is no step: the code returns 0) |
| `scheduleNextPoll`/`wake` 72-110, `reapOrphans` 201-225 | `ReapingPoll`, `PlainPoll`, `EndPoll` |
| `poll` 227-309 | `Scan` (SELECT and choice), `Claim` (UPDATE and slots), `ClaimFails` |
| `runJob` 311-354 | `Load`, then `Complete`, `Fail`, `Vanish` (row gone), `Strand` (last write failed) |
| broadcast cancel, cron endpoints | `DeletePending`, `CleanupOrphans`, `PurgeOld` |
| processes, time | `Start`, `Crash`, `FallDue`, `LeaseLapses`, `Tick` |

Abstractions: time is the events it causes, of which `Tick` is a millisecond
going by. Of `run_at` the model keeps the `age`, the milliseconds it lies back:
the ORDER BY sees which stamp is the older, `Orders` lets equal ones come in any
order, and an INSERT may come any time after its stamp, so calls that overlap
cross. The ghost `visible` counts the milliseconds since a poll can see the row.
The SELECT passes over rows that another statement has locked (`SKIP LOCKED`),
counted with the failed statements. Payloads, errors and logging are left out;
`priority` is stored but never read by the code and is left out too. Jobs are
numbered in the order they are inserted (AUTO_INCREMENT). Three premises are
constants, because the code states them in comments, or leaves them to its
operators, and does not enforce them: `Overlap = FALSE` (one process at a time),
`LeaseCovers = TRUE` (registerWorker: the lease must exceed the run time) and
`Cleanup = FALSE` (nobody calls the cleanup endpoint; every run allows it).
Section 5 says which theorem needs which premise.

### OrderGuard
What the guard promises for one fingerprint: a slot that is free, granted,
recorded or cooling after a failure, the one owner of the grant, and the recent
orders. A grant is given only while no recorded order is recent; the slot comes
free when the window has ended, or when nobody holds it any more.

### OrderIdempotency
One fingerprint, since rows of different `(company_id, hash)` never meet. A
caller's program counter stands for the statement it runs next: find, delete of
a stale row, insert, re-read after a lost insert, the calls to Shopify,
finalize, and release. Any statement may fail (`MaxFaults` bounds how often),
Shopify may reject, confirm, or confirm without being heard, and any set of
callers may die together (`Crash`). `deposit` is chosen once: the advance is
part of the fingerprint. `open` is the set of recorded orders whose 25 minutes
have not passed. `WindowCovers` says that no call lasts longer than the 25
minutes of its own reservation; the code's HTTP timeouts are seconds.
Against `OrderGuard`: `GuardSlot` is the live row's status (a row that has
expired is free), `Owners` are the callers between their insert and the end of
their call, and the recent orders are `open`. `ImplementsGuard` speaks of orders
that are not paid in advance: for the others `order_late_failure` shows the
confirmed row released.

### AgentOrder
Turns of one conversation about one cart are callers of OrderIdempotency; the
other callers (the agent's modal, other chats with the same fingerprint) run
free. `chain` is the promise chain of `orderChains`: its head holds the lock,
the rest wait. A turn asks for the lock, looks for the marker
(`ai_last_order_signature`, `ai_order_created_at`), calls `createOrder`, leaves
the marker for the order it got, and leaves the lock on every path. The code
stores the cart and a time; `marker` also names the order, which no guard reads.
The conversation has one marker for all its carts: a turn about another cart
(`aside`, `Digress`) waits for the same lock, and its order overwrites the
marker, which is then no longer that of this cart. Its reservation has another
fingerprint and is not followed. `mine` is the ghost set of orders of turns
whose marker nobody has overwritten. A turn never has an advance (`~deposit`):
the agent orders cash on delivery. The death of the process kills all turns with
the lock, and possibly others (`Die`). The marker lapses only after the window
of its order, because it is written after it and both last 25 minutes.

### Broadcast
One broadcast over `TaskQueue` (`Queue!Submit`, `Begin`, `Finish`, `Err`,
`Interrupt`, `Withdraw`). Operator requests and worker slots are processes;
`dispatch()` is shared by the request and by the scheduled job, as in the code.
`Trip` and `SendUnheard` are failures inside the worker's try block,
`HandlerFails` those outside it, `RequestFails` those of a request; together
with restarts they are bounded by `MaxTroubles`. Ghosts: `accepted` counts what
Meta took, `late` what it took after a cancel, `stop` whether a cancel was
written and whether it crossed anyone about to write the status (`Crossing`: a
schedule request, a dispatch or a completion that had checked it before),
`skipped` the jobs consumed unsent or given up before they could count. The
audience is fixed.

### CourierBooking
One order's shipment row. A request or job works on `seen`, its copy of the row,
one statement or external call at a time, as the code does:

| Code | Actions |
|---|---|
| single, manual and bulk booking | `Book`, `ClaimShipment`, `BulkBook`, `CreateMany`, `Reread`, `Handover`, `Close`, `Enqueue` |
| address issues | `Resolve`, `ResolveWrite`, `RevertAddressIssue`, `Drop`, `MarkWrongAddress`, `Flag` |
| unbook, cancelOrderFully, receiving | `Unbook`, `CancelOrder`, `Recall`, `Unfulfil`, `Delete`, `Void`, `Shut`, `Receive`, `ReceiveWrite` |
| courier news | `Pull`, `Push`, `Stamp`, `Enrich` |
| booking job, phases A, B and C | `Claim`, `Read`, `Order`, `Call*`, `Persist`; `Fulfil`, `StoreGid`; `Affirm` |
| its error path | `Catch`, `Revert`, `Trip`, `CatchFails` |
| restart | `Crash` |

A job is named by its lane (`bookLaneKey`: courier and row) and a number. A
deleted row keeps its id, so that a job of it finds nothing; a cancelled one is
claimed again in place. The code shards a courier's lane by row; distinct lanes
run beside each other in the model, which only adds interleavings. The courier's
statuses are collapsed to those some guard tells apart. The status sync fills a
row without a number from the fulfilments of its Shopify order (`OnShopify`:
once the order is not open, any number some job or agent has stored there);
without a new status it writes only that number (`Enrich`). Ghosts: `maker`
(which lane and row booked a parcel), `stray` (booked but never recorded),
`refused` (the courier would not cancel), `blind` and `blank` (numbers, and rows
whose number was, erased by a writer who had read the row before), `dropped`
(rows whose request or job died at the wrong point). They name the ways out that
the code leaves open, so that a property excludes these and nothing else.

### MessageFlow
Webhooks in (the `message` queue) and media out (the `send-media` queue), two
instances of TaskQueue. `Batch` is the set of webhook bodies, each a sequence of
events; Meta delivers each any number of times (`Receive`). A job takes the
events of its body one by one; one that throws or dies starts again at the
first. A message event is guard, contact, conversation, unread count, row,
announcement, each a statement; a status event is look, write, count. Bodies of
one participant share a serial lane, bodies that mix participants have none
(`Unordered` names their events). `SendBulk`, `FindBulkChat`, `OpenBulkChat` and
`RecordBulk` are what a send of the broadcast worker does to the conversation
and the message; that worker is in no lane of the participant, and `raced` is
the ghost set of participants it was opening a conversation for beside somebody
else. A media message can lose any of its statements (`Catch`, `MarkFailed`),
the write that ends its job (`MediaJobFails`), or all that are left in one
outage (`MediaOutage`), after which the job stays in processing until a restart
or the cleanup endpoint (`Cleanup`) puts it back. `cut` is the ghost set of
messages whose handling broke off half-way.

### TenantBilling
One tenant's invoices, suspension and grace, written by concurrent cron calls
and requests (`Generate`, `Enforce`, `MarkPaid` with `Reactivate`, and the
super-admin's `SuspendClient`, `ActivateClient` and `GrantGrace`), each
statement a step; readers ask `isActive`. `age` is what the guards tell of a due
date: not due, past due, past the grace days. Ghosts: `by` who suspended last,
`hasty` a suspension or grace written from a reading that was no longer true,
`late` and `stale` a cache fill that overlapped a write.

### WebhookDelivery
Extends TenantBilling with one endpoint of the tenant. A reader that got yes
from `isActive` looks for the endpoint in the list cache or loads it, caches it,
and enqueues; the owner updates, toggles or deletes the endpoint and invalidates
the list; the worker reads the endpoint, posts, writes the log and ends. A log
entry references its endpoint (`schema.prisma:1680-1693`): once there is one the
endpoint cannot be deleted (`Referenced`), and once it is deleted none can be
written (`Unlogged`). The worker does not ask for the tenant's status again.
`Next` interleaves these with every step of TenantBilling, and a restart drops
both caches with all requests.

### MC modules
`MCJobQueue`, `MCOrderIdempotency`, `MCAgentOrder`, `MCBroadcast`,
`MCCourierBooking`, `MCMessageFlow`, `MCTenantBilling` and `MCWebhookDelivery`
name the model values, give the function-valued constants and the webhook
bodies, and declare the symmetry sets: callers (the turns among themselves, the
others among themselves), requests, couriers and slots that are interchangeable.
Symmetry is used for safety runs only, and no action orders or picks among such
values.

## 4. Runs

| Run | Instance | Shows |
|---|---|---|
| `job_queue` | 3 jobs (1 and 2 share a serial key, 2 and 3 a dedup key, 3 delayed), 2 incarnations of 2 slots, 2 attempts, stamps up to 2 ms back, 1 failed statement or skipped lock (995 thousand states) | type and exclusion invariants, siblings in turn, every orphan in the reaper's reach, attempt accounting, finality, `ImplementsTaskQueue` |
| `job_queue_live` | 2 sibling jobs, one slot per incarnation, leases that handlers may outlive, with fairness (100 thousand states) | every pending job ends, is stranded by the failed statement, or leases are outlived for ever |
| `job_queue_cleanup` | leases that lapse under a handler | violation: the cleanup endpoint resets a running row |
| `order_idempotency` | 2 turns of one chat and 2 other callers, 3 calls, any turns about other carts, 1 failed statement (858 thousand states) | reservations exclude each other, one order per window, recent duplicates, the rows amount to the one guard of `OrderGuard`, lock and marker hold where the reservation fails open |
| `order_late_failure` | 2 callers | violation: an error after finalize frees the slot of a confirmed order |
| `broadcast` | 2 recipients (1 missing), 2 requests, 2 slots, 3 jobs, 2 troubles (2.7 million states) | a cancel that crosses no other write of the status lasts and stops sending, ended jobs are counted, the report is backed; both are exact until something fails |
| `broadcast_completes` | 1 request, no failures, with fairness | violation: counters reach the total, status stays sending |
| `courier_booking` | 2 couriers, 2 requests, 2 slots, 2 rows, 2 jobs a lane, 2 parcels, 3 events (442 thousand states) | a lane books once, booked rows are worked on, live parcels can be found |
| `courier_one_parcel` | 1 request, 1 row | violation: a row awaiting its retry is resolved with another courier, both jobs book |
| `message_flow` | 2 persons, 2 inbound, 1 media and 1 broadcast message, 4 bodies (one mixed), 2 slots, 2 webhooks, 1 trouble, any cleanup calls (1.03 million states) | announced once, counted once and until a failure never missed, one thread but for the race with a broadcast, statuses climb, media leaves only while sending, and again only after a restart or cleanup |
| `tenant` | 2 cycles, 2 requests, 1 reader, 1 delivery job, 3 calls, 1 trouble (745 thousand states) | suspensions are backed, both caches agree, deliveries end logged, or dead if their endpoint is deleted, and are not repeated |
| `billing_manual` | 1 invoice, 1 request | violation: paying lifts a suspension the super-admin imposed |

Each violation is a disagreement between the code and a comment or document of
the repository, quoted in `PROJECT.json` under `findings`. Every property of a
passing run has a mutant there: the faulty variant of a definition, a bug of the
kind this code could have, under which TLC finds the property violated.

Why the bounds are enough. Exclusion in the queue is between two rows or two
slots, so three jobs give a pair with the serial key, a pair with the dedup key
and a bystander; two incarnations are one crash and one restart; two attempts
give a retry and a terminal failure; one failed statement strands one row; an
age of 2 tells an earlier, an equal and a later stamp apart. For orders, the
turns give a holder and a waiter, the others a competitor and one that reclaims;
three calls are an order, its duplicate and a retry. The guard alone was also
run with 3 callers and 4 calls. Broadcast needs one ordinary and one missing recipient;
three jobs let a second dispatch repeat one of two, or a scheduled one fan out;
two troubles are a restart and a lost answer, or two failures of one job, which
are its attempts. CourierBooking: two couriers are two lanes, two rows are a
deletion and a new claim, two requests overlap with each other and with a job,
and three events allow a request, a failure and a restart; the start of an
enrichment is not counted among them. MessageFlow: one inbound and both outbound
messages belong to one person, the other inbound message to a second; a body
with two events of the first, two with one status each and one that mixes both
persons give every pair that shares, or does not share, a lane, and a repeated
body gives the race past the guard. The one outage or restart is what a second
send of the media message takes. TenantBilling: with two cycles one invoice is
overdue while another is paid; it was also run alone with 2 cycles (1.1 million
states) and with 3 requests (377 thousand).

The liveness run has one slot per incarnation to stay small: a sibling still has
to wait out the lease a crash left behind, and a row can be put back, cancelled
and gone (`Vanish`) under a handler that outlived its lease.

Deadlock is checked for the queue and for orders. `CHECK_DEADLOCK FALSE`
appears where the bound on calls, jobs or events lets the system come to rest.

Fairness. JobQueue: a process polls on a timer and reaps every 30 seconds, time
passes, and a handler ends because its HTTP calls have timeouts; nothing obliges
a crash or a failure. Reaping is strongly fair because a poll within 30 seconds
of the last reap skips it: reaping is enabled again and again, not always.
`EveryJobSettles` excludes one way of going on for ever: the cleanup endpoint is
called, again and again, while a handler outlives its lease, so that the same
job is claimed anew each time and its siblings wait. Nothing in the code bounds
that; registerWorker's advice on the lease does. Broadcast: requests, handlers
and the poller keep going.

## 5. Proofs

`JobQueue_proofs`. Types need no premise; all else needs one process
(`~Overlap`) and `Protected`, that is leases that cover their handlers or a
cleanup endpoint that is not called. `LeaseCovers` by itself is needed twice, in
`OneAtATime` and `Implements`: the lease is all that the poll looks at before it
claims a sibling.

1. `TypeCorrect`.
2. `Excluded`: `ExclusionInv` is inductive. `SingleExecution` alone is not: a
   claim does not look at the rows again, so the invariant must say that what
   the SELECT saw stays true until the UPDATE - the rows of a batch are
   unleased pending or deleted ones, no two of a serial key, no leased sibling -
   and that a slot with a job holds its row under its own name and, if leases
   cover, its lease. `NeverTwice`, `RowStaysOwned` and `OneAtATime` follow from
   it. The first two hold however long a handler runs, since the reaper goes by
   the name on the row; only the cleanup endpoint goes by the lease.
3. `OrphansAreSeen`: a row in processing is somebody's run, or bears the name of
   a process that is down, or a statement has failed. It is inductive given
   `ExclusionInv`.
4. `AttemptsNeverLost`: `Account` says that the attempts read before the handler
   are still those of the row (because the run owns the row), and that a dedup
   key is on at most one row, the live one. `DedupIsExclusive` follows too.
5. `SiblingsInTurn`: `FifoInv` says that no row shows to a poll before its
   `run_at` (`ShownWhenDue`), and that while nothing has gone wrong a row in a
   batch or a slot has no sibling waiting that was there in an earlier
   millisecond (`QuietTurns`). A scan keeps it because the earlier sibling would
   have been scanned too, within the limit, and chosen in its place
   (`ChosenInTurn`); afterwards no row is put back, which is where 3 comes in,
   and what comes in later shows later.
6. `OverIsOver`: the action property, from the invariants of 2 and 4.
7. `ImplementsPlain`: under the mapping `AbstractState` every step is a step of
   TaskQueue without serial keys or a stutter; starts of handlers need
   `ExclusionInv`, failures need `Account`. This is what `Broadcast` and
   `WebhookDelivery` assume of their queues, which have no serial keys, so they
   stand on it without the lease. `Implements` adds the serial keys, which
   `CourierBooking` and `MessageFlow` use, and with them the lease.

`OrderIdempotency_proofs` (types need no premise, the rest `WindowCovers`):
`GuardInv` says that ids are never reused, that from insert to outcome the live
row is its caller's, that a row about to be deleted has no live reservation (the
delete is by id, so this is what a stale read has to guarantee), and that the
open window is the row's. `ReservationIsHeld`, `OneOrder` and `DuplicatesRecent`
follow. `Implements` proves `Spec => ImplementsGuard`: the heart of it is
`OwnersHold`, that a caller between insert and outcome is the only one and the
live row is its own, so that its finalize is `Record`, its release `Fail`, and
its death `Abandon`; a delete of a stale row and an expiry change nothing that
the guard still counts as taken.

`AgentOrder_proofs` (no premise, but `WindowCovers` for the last): `AgentCalls`
proves that `AgentSpec` implements the guard's `Spec`, so the theorems above
hold of the composition; `AgentGuarded` states it for `ImplementsGuard` and the
two invariants of the reservation. `ChatInv` is inductive: past the lock there
is one turn, the one at the head of the chain, whatever its cart (`TurnTypeOK`);
an order a turn is about to mark is not yet marked and no marker is there
(`NoMarker`); and what is marked, still open, and not overwritten by an order of
another cart bars the next turn (`Covered`). `ChatOrders` follows without a word
about reservations, which is its point: it holds where `reserve` fails open.

`Broadcast_proofs` (no premise): `BroadcastInv` says that a slot's job is
running and nobody else's (`JobInv`), that after a cancel that crossed nobody
the status stays, nobody is about to write another, and a send needs a slot that
had read the row before it (`CancelInv`), that each ended job not in `skipped`
is in one of the counters (`CountInv`), and that what was sent is accepted less
what slots still have to record (`ReportInv`, sums over slots as cardinalities).
Those are lower bounds; `CalmInv` gives the upper ones until the first trouble:
nothing is accepted that is not counted or about to be, nothing counted twice.
It needs that a skipped job is over (`SkippedOver`) and that the job of a slot
that sends is not a dispatch (`SendKind`).

`CourierBooking_proofs` (no premise): `BookingInv` says that copies are of this
row or an earlier one (`CopyInv`), that two running jobs are of two lanes
(`LaneInv`), that a job about to ask the courier has no recorded parcel of its
lane, that a job past the courier has left its number on the row or it was
erased (`HasNumber`: the row has a number or is in `blank`; `PastInv`,
`PlaceInv`, `KnownInv`), and that whoever stops working on a booked row has seen
that it need not (`WorkInv`). The three properties follow.

`MessageFlow_proofs` (no premise): the row is the one witness of an
announcement, since its id is unique; lanes exclude two handlers of one
participant by `TaskQueue`, so a status read in a lane is still the row's when
it is written. `ThreadInv` says that while a participant's webhooks share a lane
whoever is about to create their contact (`OneContact`) or, unless a broadcast
raced, their conversation (`OneChat`) is alone and creates the first. `SendInv`
says that a media job that may still send has not been sent since the last
restart or cleanup, because a worker has the job it runs, the job has one
attempt, and whatever fails after the sending leaves it running in nobody's
hand. `ReckonInv` says that until something fails a delivered or read status, on
the row or in the hand of a slot about to write, is in its counter or in the
hand of a slot about to count. The action properties follow from the same
invariant.

`TenantBilling_proofs` and `WebhookDelivery_proofs` (no premise): the account's
invariant is proved for the module alone and again carried through the steps of
the composition, which leave it unchanged or are its steps. A tenant suspended
by the cron still owes, or the payment that cleared it is being followed up, or
the suspension rests on a reading that something overtook; a cache holds the
stored value, or was filled by a reader that a write overtook; a delivery that
ended well is logged because the log is written before the job ends, and has its
endpoint because the log keeps the endpoint from being deleted; each attempt of
one that died is in the log, among the troubles, or had no endpoint to log for.

The inductive invariants were checked with TLC before they were proved.

Only model-checked: `EveryJobSettles` (liveness is beyond the prover) and the
violations. Nothing is proved about recursion; no module here declares a
RECURSIVE operator.

## 6. Known limits of the code

These are modelled as they are, and the properties name them as their
exceptions. Where one goes against a comment or a document, that is quoted here
and at the property; the five of `findings` have a run of their own that shows
them.

- Queue: `SELECT ... FOR UPDATE SKIP LOCKED` is "safe for single-process and
  future multi-process" in `ARCHITECTURE.md:142`. For several processes it is
  not: the SELECT is a statement of its own, its locks are gone before the
  UPDATE, which does not look at the status, so two that poll at once both claim
  a row. Every property of the queue but its types is stated for one process
  (premise `~Overlap`). FIFO within a key (`job-queue.service.ts:118-119`) holds
  as far as `ORDER BY run_at` gives it (`SerialFifo`): `run_at` is taken before
  the INSERT is awaited and has milliseconds, so two enqueues that overlap or
  share one may swap; a job that backs off is overtaken, and a restart, a failed
  statement or a skipped lock may cost a job its turn.
- Orders: a lost answer from Shopify followed by a retry after 90 seconds places
  a second order, as the class comment says. A stale row whose delete fails
  answers a reorder as a duplicate (224-228).
- AI agent: the marker's 25 minutes count from the marking, and a duplicate
  answered by `reserve` renews it, so a chat can swallow a reorder up to about
  50 minutes after the order. The marker knows the cart and not the address. The
  comment at 157-159 says that "a retry inside the cross-path window is never
  treated as a legitimate reorder by this one"; the conversation has one marker
  (2299-2307, 2361-2366), so an order of a second cart takes it over, and a
  retry of the first cart is then stopped by the reservation alone, which may
  have failed open. `ChatOrdersOnce` speaks of orders whose marker is kept.
- Broadcasts: the status writes of requests, dispatch and completion are
  unconditional and leave the flow of `ARCHITECTURE.md:275-280`. In particular a
  cancel is overwritten by a dispatch that had read the status before it
  (`broadcasts.service.ts:307-326`), and the whole audience is served;
  `CancelStops` holds of the cancels that cross no such write. A message whose
  bookkeeping fails is sent again.
- Courier: a cancelled row that is claimed again keeps its dead number; a status
  pulled in one run is written over a return received meanwhile; a number the
  status sync takes from Shopify may be that of a parcel already cancelled. A
  row of a `manual` handover in a status the sync polls makes `runSync` throw
  (`courier-status-sync.service.ts:256`), which ends that run for the tenant.
- Messages: a failure between a status and its counter loses the count, because
  the retry finds the status written (`CountedOnce` excepts it).
  `inbox.service.ts:1357-1359` says of media "Never re-sends automatically ...
  so a customer can't receive duplicates". That does not hold where the outcome
  could not be recorded: after a restart between Meta's acceptance and the write
  of `sent`, or an outage that takes that write, the one of `failed` and the
  job's, the row says `sending`, and the job that a restart or the cleanup
  endpoint puts back sends again (`NeverResent` allows one more for each). A
  broadcast and a webhook, or two broadcasts, that open a conversation for one
  contact at once make two (`broadcast.worker.ts:111-127`,
  `meta-webhook.service.ts:431-447`); `OneThread` excepts it; a status in flight
  overwrites the failure the media worker wrote; a message whose handling broke
  off after its row never reaches the bots; a status that arrives before its row
  is lost; a media row stays `sending` if its job cannot be enqueued.
- Caches: "a status change takes effect immediately"
  (`company-status.service.ts:16-17`) fails for a fill that overlaps it: the old
  status then stands for its 30 seconds. `CacheAgrees` excepts that fill.
- Webhooks: "log + consume (do NOT throw)" (`webhook.worker.ts:60`) does not
  hold for an endpoint that was deleted: the insert into the log breaks the
  foreign key (`schema.prisma:1680-1693`), the job throws at each attempt and
  dies without an entry (`EndedIsLogged` says so). For the same reason an
  endpoint with log entries cannot be deleted (`webhooks.service.ts:132-136`). A
  queued delivery goes out although the tenant was suspended since; an answer
  that comes after the timeout counts as none, so the delivery is made again by
  design (`heard` counts only what the worker heard); a failure inside dispatch
  is swallowed and the event lost.
- Billing: `requestPlanChange` tests for a pending request and inserts one in
  two statements, and two resolutions of one request do not exclude each other.

## 7. Not modelled

The components marked `not_modelled` in `PROJECT.json`, each with its reason.
The largest of them by lines are the frontend, the Shopify sync and analytics:
screens, pagination over a third-party API, and aggregation queries, with no
state that two actors race for.

Inside the modelled ones: the text of messages and errors, `computeHash` (equal
fingerprints are the premise), audit events (best effort, never thrown),
analytics columns, progress events and e-mails. Broadcasts: editing and
duplicating a draft. Conversations opened by calls (`calls.service.ts:362`) and
by store orders (`shopify.service.ts:1742`, `3891`), which race those of
webhooks as a broadcast does. Inbound messages: reactions, ad referrals, media
download, read receipts and metering. AI agent: prompts, model calls, the
pending cart and the confirmation before an order, which rest on what a model
extracts. Courier: settlement, payments, reports, imports, reroutes and the
backfill of fulfillment ids. Webhooks: the plan gate
(`webhook-dispatcher.service.ts:82`: a tenant without the feature dispatches
nothing and leaves the list alone), creation of the endpoint (it exists
initially), `testEndpoint` and `retryLog`, which only enqueue, and the deletion
of a company with its logs and endpoints (`super-admin.service.ts:1475`).
Billing: amounts, legacy invoices, plan requests and PayFast settlements, the
two that the plan has left.
