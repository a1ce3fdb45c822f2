# WOROOD HUB: a TLA+ verification project

WOROOD HUB is a company portal: a NestJS API (`src/apps/api`), a worker process
built from the same code, and a React front end (`src/apps/web`), over
PostgreSQL, Redis, Shopify, Zoho Books and Google Sheets. This directory holds
TLA+ models of the parts where steps of several actors meet, the TLC
configurations that check them on small instances, and proofs that TLAPS checks
for every size.

- [1. The system](#1-the-system): components, state, operations, hazards
- [2. The modules and the plan](#2-the-modules-and-the-plan)
- [3. The durable webhook queue](#3-the-durable-webhook-queue)
- [4. Finance requests and payments](#4-finance-requests-and-payments)
- [5. Jobs that run once a day](#5-jobs-that-run-once-a-day)
- [6. Reconciliation and the mirror](#6-reconciliation-and-the-mirror)
- [7. The import of the history](#7-the-import-of-the-history)
- [8. Tickets](#8-tickets)
- [9. Posting payments to Zoho](#9-posting-payments-to-zoho)
- [10. Meeting rooms](#10-meeting-rooms)
- [11. Runs](#11-runs), [12. Known disagreements](#12-known-disagreements),
  [13. Proofs](#13-proofs), [14. What is not modelled](#14-what-is-not-modelled)

Paths below are relative to `src/apps/api/src/` unless they start with `src/`.

## 1. The system

| Component | State it keeps | Operations | What makes it correct | Module |
|---|---|---|---|---|
| Webhook queue (`modules/sales-dashboard/webhooks/`, `worker.ts`) | `sd_webhook_events`: status, attempts, lease, next attempt, payload | receive, claim, apply, complete, fail, renew, sweep, reclaim, shut down, replay, trim | every delivery retired, once, within the budget, whatever crashes | `WebhookQueue`, `WebhookPromise` |
| Webhook processor (`webhook-processor.ts`) | the mirror `sd_orders`, `sd_customers` | guarded upserts by `updated_at`; re-reads; inline processing without a worker | no older version over a newer one | orders in `Reconcile`, the outcome of a payload in `WebhookQueue` |
| Reconciliation (`sync/sync.service.ts`, `sync/reconcile-pages.ts`) | `sd_sync_state`: watermark, resume cursor | page through changed orders, save a cursor, resume, advance | the watermark never passes an order not yet written; every run gets further | `Reconcile`, `MirrorPromise` |
| Backfill (`sync/sync.service.ts`, `sync/backfill.service.ts`, `shopify/bulk-stream.ts`) | a row of `sd_sync_state`: status, operation, lines | claim, start, wait, stream, save progress, resume, check | what is recorded as imported is whole | `Backfill` |
| Job locks, daily jobs (`common/job-lock.ts`, `sync/scheduler.service.ts`) | `core_job_locks`: owner, `expires_at`, `last_ok_at` | tick, look, acquire, renew, release | one holder at a time while renewals keep up; a day recorded once, and truly; no quiet day missed | `DailyJob` |
| Shopify client (`shopify/shopify.service.ts`) | token and its lock in Redis, cost bucket | get token, invalidate, acquire cost, observe | one refresh at a time; no overdraft | not yet |
| Snapshots (`analytics/snapshot.service.ts`) | `sd_analytics_*` | debounce, capture, store hours | one capture in flight; a day is stored when it is whole | not yet |
| Finance requests (`modules/finance/{requests,edits}.service.ts`, `workflow.ts`) | `fin_requests`, `fin_request_approvals`, `fin_request_edits` | submit, update, decide, remove, ask for a change, decide it, withdraw it | the chain of approvals is walked; what is approved is what was agreed | `FinanceRequest` |
| Finance payments (`modules/finance/payments.service.ts`, migration 0033) | `fin_payments`, `payment_state` | record, reverse; two triggers | each payment once, within what is asked; undone at most once | `FinanceRequest`, `PaymentLedger` |
| Zoho queue (`modules/finance/zoho/`) | `fin_zoho_events` | enqueue, claim, look up, post, record, retry, reclaim | every payment posted, and posted once | `ZohoQueue` |
| Sheet queue (`modules/finance/sheets/`) | `fin_sheet_events` | enqueue, claim, write, fail | the sheet ends up showing the last version | not yet |
| Meeting rooms (`modules/meeting-rooms/`) | reservations under an exclusion constraint, attendees | create, update, cancel, respond, search | no two live bookings of one room overlap; what is offered can be booked | `Reservations`, `Slots` |
| Tasks and tickets (`modules/tasks/`) | tickets, dependencies | the life cycle of a ticket, assign, block, unblock, review, complete | a ticket waits only for what is open; the life cycle is kept | `Tickets` |
| Announcements, administration, sessions, mail, reports, front end, deployment | see `PROJECT.json` | | | not modelled, see section 14 |

How they interact. Shopify calls the webhook endpoint, which stores the delivery
and returns; a worker process, started by systemd beside the API, claims rows
and offers them to the processor, which writes the mirror, asks for a snapshot
and hints the browser. Reconciliation writes the same mirror from the API
process, on a timer, under a job lock; the import of the history writes it once.
Finance handlers write their tables in the API process, one database transaction
or one bare statement at a time, and queue a row for Zoho and one for the sheet
after the commit; two workers drain those queues. Everything meets in
PostgreSQL: there is no shared memory between processes, and the only ordering
is that of commits and row locks.

The hard behaviours, each listed in `PROJECT.json` under `hazards` with its line
and the properties that would notice it, are of six kinds: a lease that runs out
under a worker that is only slow; a process that stops between two statements; a
statement that commits and whose reply is lost; a check in one statement and the
write it allows in a later one; a value computed in one snapshot and written in
another; and a retry of what was already done.

## 2. The modules and the plan

In the order they were worth having, the most consequential first.

| Model | Abstract specification | Proofs | What it is instantiated by |
|---|---|---|---|
| `WebhookQueue` | `WebhookPromise` | `WebhookQueueProofs` | `MCWebhookQueue` |
| `FinanceRequest` | `PaymentLedger` | `FinanceRequestProofs` | `MCFinanceRequest` |
| `DailyJob` | | `DailyJobProofs` | `MCDailyJob` |
| `Reconcile` | `MirrorPromise` | `ReconcileProofs` | `MCReconcile` |
| `Backfill` | | `BackfillProofs` | `MCBackfill` |
| `ZohoQueue` | `PostingPromise` | `ZohoQueueProofs` | `MCZohoQueue` |
| `Reservations`, on `Slots` | | `ReservationsProofs` | `MCReservations` |
| `Tickets` | | `TicketsProofs` | `MCTickets` |

What is left, in the order it is worth having: the sheet queue (its hazards are
in section 14); the inline path of the webhook processor; the timing of lease
renewals; the token and the cost bucket of the Shopify client; snapshots.

Bounds are kept where one run takes at most a few minutes: two actors for every
race of two, and as many ticks of a clock as distinguish its cases.

## 3. The durable webhook queue

`WebhookQueue` models what happens to the rows of `sd_webhook_events` while
`WEBHOOK_WORKER_ENABLED` is true.

**State.** `row[e]` is the row of event `e`: `status`, `attempts`, `owner`
(`lease_owner`), `lease` (`lease_expires_at`, counted down to 0), `due`
(`next_attempt_at`: never, later or now) and `payload` (is it still there?).
`mode`, `recovering`, `pc` and `hand` are a worker process: whether it runs,
whether the `reclaimOwn` of its start is still in flight, where `runOnce` is, and
its local variables. `applied` and `announced` record which events were offered
to the mirror and which were announced. `replaying` is the event whose replay
has passed its checks and not yet been written.

**Actions.** `Receive` is the insert in `webhooks.ts` with its `ON CONFLICT DO
NOTHING`. `Start`, `ReclaimOwn`, `ReclaimOwnFails`, `Shutdown`, `Stopped` and
`Crash` are the life of a process; `PoisonCrash` is a payload that kills it.
`Claim`, `Apply`, `ApplyThrows`, `Complete`, `CompleteErrors`, `LoseClaim`,
`Announce` and `Renew` are `runOnce` and its timer, one step for each statement;
`ClaimReplyLost` commits a claim nobody hears of. `SweepExpiredLeases` is the
sweeper's one statement. `ReplayCheck` and `ReplayWrite` are the two halves of
`replayEvent`, and `TrimPayload` is retention. `LeaseTick` and `BecomeDue` are
time.

**Abstractions.** Which due row is claimed first is left open, because the
order is a matter of latency. A statement in flight when the process begins to
shut down is ordered before the `Shutdown` step, as it commits on its own. What
a payload does to the mirror is that it is in `applied`. A worker without a
configured id (`StableId` FALSE, the default of `common/config.ts:112`) comes back
in the same slot under another id: when it goes, the owner of what it had claimed
becomes `Former`, which no later statement matches. The `reclaimOwn` of its
start is in flight beside its loop all the same, and may put back what the loop
has just claimed.

**Fairness** (`FairSpec`), used only for liveness. Time passes. Every awaited
statement of a running worker returns. The sweep and the claim run again and
again in a running worker (`setInterval`, and the loop). `Start` is fair because
`src/deploy/systemd/worood-hub-worker.service:43` has `Restart=on-failure`, and
whoever stops a worker starts one again. Errors, crashes, lost replies,
renewals, replays and deliveries are not fair, and crashes other than by a
payload are bounded by `MaxStops`: a queue whose workers are killed for ever
retires nothing.

**The promise.** `WebhookPromise` knows five phases of an event (absent,
outstanding, processed, stale, dead). An event is accepted once, is retired once
as processed, stale or dead, and only a dead one may be taken up again (`Safe`).
Whatever is outstanding is retired (`Fair`). `KeepsPromise` checks that the queue
implements the first part. The second, and that an event whose payload kills its
worker ends up DEAD, hold under the proviso `ClaimsStand`: that recoveries do not
go on for ever putting back what the process they belong to has just claimed. They
can, because `start()` does not await `reclaimOwn` and a release does not count an
attempt: a poisonous event that is claimed, put back and then kills its worker
comes back at each restart with the count it had. `KeepsPromiseFairly` and
`PoisonIsRetired` state the proviso, and section 12 has what the comment says
without it. With a stable id the second fails even so, since recovery then also
puts back, uncounted, what the last run died of.

## 4. Finance requests and payments

`FinanceRequest` models one request, the changes asked of it after its approval,
and the payments against it. Requests do not interact: every lock is on a row of
one request.

**State.** `request` is the row: `state`, `amount` (0 for NULL), `payment`,
`deleted`, `route`. `trail` has who approved which step. `edit` is
`fin_request_edits`. `recorded` and `reversed` are the committed rows of
`fin_payments`, by idempotency key, and `paid` is what `SELECT sum(amount)` over
them returns; it is kept as it goes, and `LedgerAddsUp`, checked and proved,
says that it is the sum of the rows.
`agreed` is the amount in Finance's last approval (`amount_at_decision`).
`call[s]` is what session `s` has read and not yet written.

**Steps and locks.** PostgreSQL runs at READ COMMITTED, so a statement sees what
was committed before it began. Handlers that check in one statement and write in
another (`submit`, `update`, `remove`, `edits.request`, `withdraw`) take two
steps, and anything may happen in between. `decide` and `record` hold the row
FOR UPDATE from `DecideLock` and `RecordLock` to `Approve`, `Reject` and
`RecordCommit`; every other writer waits (`Locked`). `reverse` takes no lock of
its own, but the foreign key of the row it inserts takes a key-share lock on the
request, which excludes FOR UPDATE in both directions and nothing else: its two
steps are the insert with the trigger's SELECTs (the constraint's own trigger
fires first, by name) and the trigger's UPDATE with the commit. `edits.decide`
takes one step: it locks the change, and reads nothing of the request that it
uses. `Abandon` is a refusal, a rollback, or a process that stops.

**People.** Who holds which role is a constant. In the run, `ann` raises the
request and also holds the permission to manage requests, `bob` manages the
department, and `cat` is Purchases and Finance. Any request may take either
route.

**The promise.** `PaymentLedger` records a payment only for a payable request and
only within what it asks for at that moment, never the same key twice, and undoes
it at most once by exactly its amount. `KeepsLedger` maps a payable request to
one that is approved and not deleted.

**Properties.** `LockedReadsHold`: what a handler read under FOR UPDATE is still
so when it writes. `LedgerAddsUp`: the sum is that of what was recorded and not
undone. `NothingUnpricedIsPayable`: nothing without an amount gets past
Purchases. `AmountIsAgreed`: Finance approves the amount that is in the row when
its decision commits, and an approved request comes to ask for another amount
only when it is overtaken (`Overtaken`): by an update that was checked while the
request was open and lands after the approval, or by a change that names no
amount, and is agreed at the one it was asked under after that one has moved.
`EditsFollowTheChain`: a change is applied only from the step of Finance, and
once decided is touched only by a withdrawal that had found it undecided. What
these leave open is where the code's comments and messages say more than the
code does: `ApprovalIsOfThisAmount`, `NotUpdatedOnceApproved`,
`DecidedChangesStay` and `NotSubmittedTwice` in section 12.

## 5. Jobs that run once a day

`DailyJob` models one of the overnight jobs of `sync/scheduler.service.ts` in
every process that schedules it, down to the statements on its row in
`core_job_locks`.

**State.** `row` is the row: `owner`, `left` (`expires_at`, in intervals of the
renewal timer: the lease lasts `Intervals` of them, 3 in `common/job-lock.ts:109`)
and `ok` (`last_ok_at` is of the current Cairo day). `stage[p]` is where process
`p` is: `take` after the first look, `inside` the lease before the second look,
at `work`, and then about to release as `succeeded`, `skipped` or `failed`.
`missed[p]` counts the intervals since `p` last had its lease extended. `today`
says whether the hour of the job is still open, whether anybody ticked in it,
whether anything failed, and how often the job ended well and was recorded.

**Actions.** `Tick` is the ten-minute tick with its `running` flag and the first
`ranOn`; `Take`, `HeldElsewhere` and `TakeThrows` are `acquire`, whose reply may
be lost after the lease was taken; `LookAgain` is the second `ranOn`; `Finish`
and `Throw` end the job; `Release` and `ReleaseThrows` are the release inside the
`try`, and `ReleaseFailed` the one in its `catch`; `Renew` is the timer, whose
failures are swallowed and therefore no step. `Crash` and `Boot` are processes,
`Pass` an interval, `CloseHour` and `NewDay` the clock. Time passes whoever is
slow: nothing forces a renewal to come before the lease runs out.

**Assumptions.** No run, and no lease that one leaves, lasts into the same hour of
the next day (`Quiet` in `NewDay`): they have more than twenty hours, and a run
that crossed midnight would be recorded for the wrong day. Owners are
distinct: `INSTANCE_ID` is random unless it is set. A process that restarts under
its old name is the same `p`, which is the less favourable case.

**Fairness**, for `LeaseComesFree` only: intervals pass, and a process in the
middle of a call gets its answers and ends its job, one way or another. A tick, a
renewal, a crash and a restart are not fair.

A lease does not give mutual exclusion, and the code does not claim it does. What
it gives is `OneAtATime`: two processes work at once only if one of them went
without a renewal for as long as the lease lasts. What makes the day's record
safe even then is the two looks and the release by owner (`RecordedOnce`,
`RecordIsTrue`), and what makes it safe to leave the job to somebody else is
`QuietDayIsDone`.

## 6. Reconciliation and the mirror

`Reconcile` models the mirror of the shop's orders and everybody who writes it:
webhooks, the re-read that follows one, and `reconcile()`, which the scheduler
starts under a job lock and the operator's button starts under none.

**State.** `shopAt[o]` is `updated_at` in the shop, `row[o]` the one the mirror's
row has, and `lines[o]` the version its line items and refunds are from: a
webhook writes a row and no line items. `sent` is every webhook ever sent; any of
them may come late, out of order, twice or never. `reread` is a re-read between
its request and its write. `sync` is the row 'orders' of `sd_sync_state`
(`watermark`, `resume_cursor`, `resume_since`), and `run[r]` the local variables
of a `reconcile()` under way.

**Actions.** `Change` is the shop, one order at a time or a bulk edit that gives
several the same instant. `ApplyOrder` is `writeOrder`, with the guard of its
`ON CONFLICT`. `Hydrate`, `HydrateWrite` and `HydrateGivesUp` are the re-read.
`Start` takes the plan of `resumePlan`; `Fetch` reads one page, in the shop's
order at that moment; `WriteOrder` is one transaction of `upsertOrders`; the page
that ends decides between the next page, the end, and being cut off; `MarkSync`
writes the outcome. `FetchFails`, `WriteFails` and `Crash` are where it breaks.

**Abstractions and assumptions.** Reading `sd_sync_state` and stamping
`runStartedAt` is one step. The shop's clock is `ClockLag` behind the API's, by
no more than the overlap that exists to absorb it; a larger lag loses changes, as
the comment at `reconcile-pages.ts:183` implies. Two changes share an instant
only in a bulk edit. A failure after the
last order of a page, before the checkpoint, is the same as failing at that
order, which is then written again. An order has at most 100 line items: a read
asks for no more (`sync.service.ts:942`), and of a longer order the rest is
neither written nor pruned, so there `lines` speaks of the first hundred only.
One re-read is in flight at a time. Initially
the history is imported and one run has completed: the first runs, without a
watermark, look back 24 hours and are not part of it. Customers, deletions and
retention are left out.

**Properties.** `NothingSlipsBy`: an order the mirror does not show whole is one
the next run will be given, by the watermark with its overlap and, when there is
one, by the cursor. `KeepsPromise`: `MirrorPromise` knows no pages, cursors,
runs or webhooks, only that rows never go back nor pass the shop, and that the
horizon never passes what is missing. `CatchesUp`: if from some point on nothing
fails, the mirror ends up showing every order whole, however many runs it takes.

**Fairness.** The scheduled run is started again and again and its statements
return; webhooks, re-reads and the manual run are not fair. That is what the
comment of `reconcile` claims: it alone makes the mirror correct.

## 7. The import of the history

`Backfill` models `backfill()` from wherever it is entered: the bootstrap of a
process (`Boots`) and the operator's button (`Buttons`).

**State.** `row` is 'orders_backfill' of `sd_sync_state`, with the age of
`last_run_at` counted up to the one at which a RUNNING import is taken to be
dead. `export` is what Shopify holds, `mirror` which orders have been written,
`caller[p]` where a call is: its operation, `skip` (lines the last attempt
counted), `read` and `flushed`.

**Actions.** `Boot`, `Record`, `Look` and `Mark` are the ways in; `Claim` and
`Refused` the conditional update; `Resume`, `StartExport` and `SaveFirst` the
choice of an export; `Download`, `Read`, `Flush`, `SaveProgress` and `Check` the
stream, its window of open orders, its batches and the count at the end;
`Succeed`, `RecordFailure` and `Report` what is written down; `ReportThrows` is
the runner whose report of a success throws and is followed by one of an error.
`ThrowsEarly` is a throw outside the `try`, which leaves the row RUNNING; `Throws`
one inside.

**What the model shows beside its properties.** The button marks the row RUNNING
before `backfill()` claims it, so the claim it makes itself is refused, and its
runner records an error. Saved progress counts lines read, not lines written.
Nothing that writes the row checks that it still has it, so a slow import and
the one that took it over overwrite each other. The bootstrap takes 95% of the
shop's orders for all of them.

**Properties.** `CheckedIsWhole`: in spite of all that, what passes the
completeness check and was not really cut short has every order in the mirror.
Bodies that end early are exempt only because nothing else tells them apart; a
resumed one may be cut by exactly the lines that are counted twice.
That "one import at a time" is "decided by the database" does not survive the
runner's reports, which end a claim that somebody else has: `ClaimIsItsHolders` in
section 12. That a dead import keeps nobody out for ever is the age limit in the
condition of the claim and nothing else, and is not stated as a property.

**Abstractions.** An export is so many lines, each an order without children;
malformed lines, the retry without customer fields and an empty export are left
out.

## 8. Tickets

`Tickets` models `tk_items` and `tk_links` under sixteen operations of
`modules/tasks/tasks.service.ts`, and raising a ticket. Moving a card on the
board dispatches to the same operations.

**State.** `item[i]` is a ticket's status and assignee; `link[j]` who waits for
`j`, and whether that is still open; `call[c]` what a request has read, and
whether that is still so (`stale`, which only the properties look at); `lost` the
tickets whose unblocking died with its process.

**Steps.** Every handler reads the ticket with what the caller may do to it
(`Load`), decides, and then writes by id: only `assign` compares again. A
database constraint refuses a status that does not go with the assignee (`Put`).
Closing a ticket goes on to whoever waits for it, a statement at a time:
`Parents`, `Release`, `Count`, `Unblock`. Removing a dependency, be there one to
remove or not, goes on to `Count`. `Crash` may come anywhere.

**Abstractions.** Permissions are reduced to the status they ask for, because for
each there is somebody who has it whatever the ticket looks like. Departments,
contributors, comments, dates and the sweep that follows dates, and escalation
are left out.

**Properties.** `BlockedIsAwaited`: a ticket that is BLOCKED has work behind it
that is not finished, or somebody on the way to letting it go on; the exception
is a process that died between closing a ticket and telling who waits, which
nothing repairs. `FollowsTheTable`: the table of transitions, the capabilities
and the handlers are three copies of one life cycle, and they agree, for whoever
acts on what is still so. Transfers and dependencies raised on an ASSIGNED ticket
leave the table, and CANCELLED to PLANNING is in it and never offered.
`AssignedKnowingly`: of two managers who assign at once the second is told.

The system comes to rest when every ticket is closed, and has no fairness:
people act or do not.

## 9. Posting payments to Zoho

`ZohoQueue` models `fin_zoho_events`, the workers that drain it, and Zoho.

**State.** `handled` are the payments whose call is past the attempt to queue
them; `event[p]` the row; `worker[w]` where a worker is with the event in hand;
`books[p]` how many records Zoho holds for a payment and `misread[p]` how often
an answer about its reference hid them, neither of which any part of the code can
see.

**Actions.** `EnqueuePayment` and `NeverQueued` come after the payment's commit:
a process that dies in between has a payment that is never posted. `Claim`,
`FindByReference`, `Post`, `SavePosted`, `SaveFails`, `RecordFailure` and
`Stumbles` are `drainOne` with its `catch`. A POST may take effect and lose its
answer. A lookup that fails with an error is a failed attempt; but an answer of 200
whose body cannot be parsed becomes `{}` (`books-client.ts:181`), and that, like a
record without an id, counts as an absence and is followed by a post (`Misreads`).
A statement on the queue may commit and its reply be lost. Of the claim that
leaves a row PROCESSING that nobody works on (`ClaimReplyLost`); of the update that
records POSTED it sends the worker into the `catch`, where `recordFailure` writes
FAILED or DEAD over it by id (`SaveFails`, `RecordFailure`). `Stop` takes a
worker in the middle of anything, because shutdown does not wait for the event in
hand. `Start` is `reclaimOwn`; `StartWithout` is the start that goes on when that
failed. `Retry` is the operator.

**Assumptions.** A POST that takes effect does so before the worker acts again,
and a record is found as soon as it exists. A worker keeps its id across
restarts; one with a fresh id is `StartWithout`, which releases nothing.
Attempts are counted without a limit, as in the code: a row released by starts
may pass the budget. The module is about the live mode: in the dry mode nothing
is posted and rows are marked POSTED with ids the client makes up. The lease in
the claim's condition excludes nothing: only PROCESSING rows carry one, and the
claim does not take those.

**The promise.** `PostingPromise` knows no attempts, leases, workers or lost
answers: a payment is entered in the books once, and once more at most for every
answer that hid what is there; what is shown as its record is one that is in the
books under the reference of its request, and never changes; it is taken back only
while it is doubted by the one that showed it. `Shown` maps a row to the record it
names when it is POSTED, and to nothing in every other status; `Doubted` are the
POSTED rows a worker still has in hand, because it never heard that its write got
through; what the books hold is the environment's own variable. A record whose
answer was lost is one the promise has entered and not shown yet.

**Properties.** `KeepsPromise`: the queue implements that. `PostedIsRecorded`: a
POSTED event names a record under its request's reference. `QueueDrains`: once no
more payments and revivals come, everything queued is POSTED or in front of a
person for good, provided no worker sits for ever on an event it no longer works
on. That condition is not the code's doing: a row whose claim or failure was not
heard of or written, or whose worker came up while the database was away, stays
PROCESSING until a start that succeeds, although `0034_finance_zoho.sql` and
`zoho-queue.service.ts:287` speak of a lease (`NothingIsStuck`, section 12). So
the property is about retries, lost answers and the budget, and not about leases.
Fairness: time passes, workers take what is due, go on with it, and are
restarted by the supervisor.

## 10. Meeting rooms

`Reservations` models the bookings of one room, and `Slots` the whole arithmetic
of `modules/meeting-rooms/slots.ts`, on which the search, the timeline and the
next free window are built.

**State.** `booking[b]` is a row with its period and its guest's answer, `call[c]`
a request between its steps, `now` the clock at the few instants the run needs.

**Steps.** `create` checks that the room is free and inserts; `update` looks the
booking up, checks, and writes by id; `cancel` and `respond` look up and write.
Only the exclusion constraint (`Excludes`) is part of the write. A booking that
was cancelled in the meantime is moved all the same, and stays cancelled.

**Properties.** `NoDoubleBooking` is the constraint's, and has to survive updates
that say nothing of the status. `SearchAgrees`: in every state reached, the
search, the direct check and the check before a write say the same of every
window, and a stretch is called a changeover exactly where nothing is really in
the way. `NextFreeIsEarliest`: what is suggested is on the grid, can be booked,
and is the earliest there is. `AnswersSurvive`: replacing the list of attendees
keeps the answers of those who stay.

What the model does not promise is as telling: two concurrent bookings may
leave less than the changeover between them, or lie in a blackout entered in
between, because the constraint knows neither.

**Abstractions.** One room, one guest a booking; whether a live booking awaits
approval makes no difference here. Times are integers. Room administration,
capacity, permissions, and what is told to whom are left out.

## 11. Runs

| Run | Question | Instance | Result |
|---|---|---|---|
| `wq_safety` | Do the rows, the budget, the terminal states and the promise survive every interleaving? | 1 event, 2 workers with stable ids, budget 3, leases of 2 ticks, 2 stops, 1 replay | passes, 254,753 states |
| `wq_liveness` | Is everything accepted retired, also what kills its worker? | 2 events, one poison, 1 worker under fresh ids, budget 2, lease 1, 1 stop, 1 replay | passes, 105,068 states |
| `finance_request` | Does the lock protect decisions and payments, is what is approved the amount agreed, is the ledger kept? | 2 calls at once, 2 payments of 1 and 2, 1 change, amounts to 3 | passes, 1,063,531 states |
| `daily_job` | Is the lease respected, the day recorded once and truly, no quiet day missed, no lease held for ever? | 3 processes, leases of 3 intervals, any number of days, crashes and failures | passes, 524,220 states |
| `reconcile` | Does anything slip past the watermark, whoever writes, fails or is cut off, and does the mirror catch up? | 2 orders, 2 runs at once, pages of 1, 1 page a run, 2 instants | passes, about 932,000 states |
| `reconcile_livelock` | The same after an outage longer than a cursor lives | 1 run, cursors live 2 instants | violated: `CatchesUp` |
| `backfill` | Is what passes the check whole? | 1 bootstrap, 1 press of the button, 3 lines, window 2, batches of 1, 2 exports | passes, about 775,000 states |
| `backfill_resume` | The counts "disagree when the body was cut short" (`backfill.service.ts:262`): only then? | 1 bootstrap | violated: `TruncatedWasCut` |
| `tickets` | Does anybody wait for nothing, and do the three copies of the life cycle agree? | 2 tickets, one on the fast track, 2 people, 2 requests at once | passes, about 1,051,000 states |
| `zoho_queue` | Is a payment posted once but for what is misread, is what is POSTED in Zoho, does the queue drain? | 2 payments of one request, 2 workers, 2 attempts, 1 stop, 1 revival, 1 misread answer a payment | passes, 530,223 states |
| `zoho_second_payment` | Is every POSTED payment in the books? | 2 payments of one request | violated: `PostedIsInTheBooks` |
| `reservations` | No double booking, no lost answer, and one answer to "is it free?"? | 2 bookings, 2 requests at once, 5 units of opening time, a changeover, a blackout | passes, 338,850 states |

Why the bounds are enough. A row of the queue is touched by a holder, at most one
other process and the sweeper at a time, and no statement relates two events
other than the sweep, which treats each alone; two workers and one event
therefore contain every race of one event, and the liveness run has a second
event to be held up by the first. Three attempts are the first budget with an
attempt that is neither the first nor the last. Leases of two ticks distinguish
a renewed lease, one about to run out and one that has. In the finance run two
calls at once contain every race of a check and a write; a third actor is there
without a session, because decisions on a change are single steps. Two payments
are the least for which one fits and the other does not, and amounts up to 3 are
their sum. The daily job is counted in nothing but the lease, so its run covers
executions of any length; three processes are one that overran its lease, one
that took it over and one that finds the day done or not.

Two orders in pages of one, one page a run, are the least for which a run is cut
off with work left, an order moves behind the cursor while a page is written, and
a bulk edit spans two pages; two instants let a change fall before and after the
watermark within the overlap. An export of three lines with a window of two and
batches of one flushes once while it reads and twice at its end, and can be
resumed before, inside and after the window; its second export follows one that
expired. Two tickets are a waiting one and its dependency, and two requests every
race of a reading and a write; what three tickets would add, two dependencies of
one, is in the proofs. Two payments that share a reference are the harder pair:
either may meet its own record or the other's, and what holds of a payment alone of
its request is a theorem; with two workers one is restarted while the other
drains. One misread answer a payment is enough for a second record, one lost reply
of the database for a POSTED row to be taken back. Two bookings
beside a blackout make three busy periods, enough for a gap too small for a
meeting, one just large enough, and a changeover that covers both.

The room is booked at two instants, before and after its first meetings may have
begun. Two bounds are cut closest for size, two tickets and one page a run, and
both are parameters of the proofs.

Deadlock is not checked where the system legitimately comes to rest: every event
retired with the stops and replays used up; every request paid, rejected or
removed; every import over; every ticket closed; every payment posted; every
booking made. `Reconcile` and `DailyJob` never rest, and there it is checked.

The three runs that end in a violation check one sentence of the code's own
comments each; `PROJECT.json` quotes it in `findings`.

## 12. Known disagreements

These are properties of the modules that state what a comment says and the code
does not keep to. They belong to no run; each can be reproduced by adding it to
the configuration named, without the line SYMMETRY and in place of the other
properties.

| Property | Add to | The comment | What happens |
|---|---|---|---|
| `PaymentStateIsCurrent` (INVARIANT) | `FinanceRequest.cfg` | `0033:66`: "so it cannot drift from the rows it describes" | a reversal writes what it added up before another commit |
| `NotReducedBelowPaid` (PROPERTY) | `FinanceRequest.cfg` | `edits.service.ts:79`: "Nothing may be reduced below what has already gone out" | the amount is written without looking at the ledger again |
| `ApprovalIsOfThisAmount` (INVARIANT) | `FinanceRequest.cfg` | `0029_finance_core.sql:202`: "so an approval cannot be quietly re-used for a different number later" | an update that was checked while the request was open writes after the approval |
| `NotUpdatedOnceApproved` (PROPERTY) | `FinanceRequest.cfg` | `workflow.ts:129`: a request may be edited "before anybody has approved anything" | an update is allowed as long as the request is open, after its manager or Purchases have approved |
| `DecidedChangesStay` (PROPERTY) | `FinanceRequest.cfg` | `edits.service.ts:249`: "This change has already been decided" | a withdrawal is by id, after a check without a lock |
| `NotSubmittedTwice` (PROPERTY) | `FinanceRequest.cfg` | `requests.service.ts:246`: "This request has already been submitted" | two submissions on one reading; the second may take an approved request back to the start of its chain |
| `DoneAtMostOnce` (INVARIANT) | `DailyJob.cfg` | `job-lock.ts:130`: "at most once per calendar day, across every instance" | a release that fails after the job ended well is taken for a failed job |
| `ClaimIsItsHolders` (PROPERTY) | `Backfill.cfg` | `sync.service.ts:377`: "One import at a time, decided by the database" | the runner of the button reports without owning the row: refused, it marks it ERROR under whoever holds the claim |
| `ReclaimsOnlyAbandoned` (PROPERTY) | `WebhookQueueSafety.cfg` | `webhook-worker.ts:328`: "the lease cannot belong to a live worker" | the loop does not wait for `reclaimOwn` |
| `ReplayHasPayload` (PROPERTY) | `WebhookQueueSafety.cfg` | `sync.service.ts:1246`, the check before a replay | retention runs between the check and the update |
| `PoisonReachesDead` (PROPERTY) | `WebhookQueueLiveness.cfg` | `webhook-worker.ts:293`: "Counting it means such an event reaches DEAD" | `reclaimOwn` puts the event back uncounted after its own loop has claimed it; with a stable id also after a restart |
| `AtMostOnce` (INVARIANT) | `ZohoQueue.cfg` | `books-client.ts:262`: "A failed lookup must not look like "not found", which would licence creating a duplicate" | an answer of 200 that cannot be parsed does |
| `PostedStays` (PROPERTY) | `ZohoQueue.cfg` | `0034_finance_zoho.sql:67`: POSTED is "Zoho has it, and we have its id", FAILED "refused; will be retried" | the write of POSTED commits, its reply is lost, and a failure is written over it |
| `NothingIsStuck` (PROPERTY) | `ZohoQueue.cfg` | `0034_finance_zoho.sql:49`: "the lease expires and the row becomes claimable again, rather than being stuck forever" | only PENDING and FAILED rows are claimed, whatever their lease |
| `NothingMovesFromTerminal` (PROPERTY) | `Tickets.cfg` | `visibility.service.ts:35`: "Nothing moves from here." | two operations on one reading: the second moves what the first closed |

## 13. Proofs

`WebhookQueueProofs` proves for any number of events and workers, any budget and
any lease: `TypeOK`, `BudgetRespected`, `CountIsCurrent`,
`OutstandingIsScheduled`, `DoneMeansApplied`, `AnnouncedByOne`,
`FinishedIsFinal`, `LiveClaimIsRespected`, and that the queue implements the
safety part of `WebhookPromise`. The invariants are not inductive one by one: a
worker that lost its claim may find the event in any state, so what protects an
outcome is the conjunction of four facts (`IInv`). A row's count, owner and
status fit each other (`RowInv`); a worker that still owns its event read the
count the row has (`CountIsCurrent`); what a worker holds fits where it is
(`HandFits`); and whoever is about to announce has the only announcement of an
event that is recorded as processed (`AnnouncedByOne`). Each operation on a row
has a lemma, the steps are grouped by what they touch, and each theorem follows
from `Invariance`. `CountIsCurrent`, `OutstandingIsScheduled`, `DoneMeansApplied`
and `FinishedIsFinal` are proved only; no run repeats them.

`FinanceRequestProofs` proves for any number of calls, payments, changes, people
and amounts: `TypeOK`, `LockedReadsHold`, `ChainIsWalked` (that every step of
the chain had somebody's approval, which no run repeats),
`NothingUnpricedIsPayable`, `AmountIsAgreed`, `EditsFollowTheChain`, and that
the module implements `PaymentLedger`. The argument is the lock's: whoever holds
the request FOR UPDATE has it alone (`LockIsExclusive`), so what it read is
still so (`LockedReadsHold`), so what it checked then is true when it writes
(`LockedReadsAllow`); and no two calls undo one payment (`ReversedOnce`).
`Locking`, the conjunction, is inductive by three lemmas: a call that takes no
lock, one that takes it, and one that ends. `AmountIsAgreed` goes by who writes
the amount: most steps leave it and the approval alone (`AmountUndisturbed`);
Finance approves the row it locked, which is the row (`ApproveAgrees`); a change
that is applied writes what Finance agrees to with it, or is the overtaken one
(`ApplyAgrees`). `LedgerAddsUp` and `NeverPaidLessThanNothing` are proved over
the refinement: a step of the services is one of the ledger (`LedgerStep`), and
the ledger's two steps change the sum by one amount. That needs to know of the
sum, a fold that takes the payments in whatever order CHOOSE has, that the order
does not matter (`AnyOrder`): it is shown for sets of each size in turn.

`DailyJobProofs` proves for any number of processes and any length of the lease:
`TypeOK`, `OneAtATime`, `RecordedOnce`, `RecordIsTrue`, `QuietDayIsDone` and
`LeaseIsRespected`. The invariant has three parts. `KeepsUp`: while the renewals
of a running process keep up it owns the row, and what is left of the lease and
what it missed add up to the lease. `RunIsDue`: a run by the owner of the row is
of a day that is not recorded, which is why a straggler that lost the row can
neither record nor spoil anything. `SomebodyWill`: as long as nothing failed,
either the owner is on its way to doing the job or somebody is about to try, so
`held-elsewhere` is never said of a lease that nobody works under.

`ReconcileProofs` proves for any number of orders and of runs at once, any page,
any number of pages a run, any overlap no smaller than the clock's lag and any
age of a cursor: `TypeOK`, `NothingSlipsBy`, and that the writers implement
`MirrorPromise`. The invariant relates four histories of one order. `Mirrored`:
line items are no newer than the row, the row no newer than the shop, the shop
no later than its clock. `SyncFits`: an order not shown whole lies after the
watermark less the overlap, and after the cursor if there is one. `RunFits`:
what a run under way has neither written nor holds is something it is still
going to be given, or has changed since the run began less the clock's lag, and
then the next run is given it: this is where the lag has to fit in the overlap,
and why only the instant a run began may become the watermark. `Onward` says
what every step has in common, that clocks, shop and mirror only move forward,
so that what was covered stays covered through other writers' steps. That a page
has an end and a first order, and that all that follows the end comes later, are
lemmas on the order of the list (`Least`, `Greatest`, `LaterIsAfter`,
`EndIsThere`), which rest on the library's theorems on finite sets.
`RunsGoOnward` adds that a run is never led in a circle by a list that changes
under it: every page ends after the place it was asked from, and the last
finished place only moves on. So what the run `reconcile_livelock` finds is not
the paging's doing.

`BackfillProofs` proves for any callers, exports and lines, and any window of at
least two batches: `TypeOK` and `CheckedIsWhole`. `CallFits` is the invariant of
one call, and needs nothing of the others, which is why sharing the row does no
harm: a call that skips nothing has written lines 1 to `flushed`; a body that
ended and was not cut was read to its last line; so `Seen` equal to `Lines` leaves
no room for skipped lines, and everything read was written. `Flush` never
takes more than is held, which is what the relation of window and batch is for.
`OnlyFirstAttemptsAreJudgedRightly` bounds the finding of the run
`backfill_resume`: of an attempt that skips nothing the check says the truth, and
a resumed attempt that read its body to the end is refused every time.

`ZohoQueueProofs` proves for any number of payments, requests, workers, attempts,
misread answers, stops and revivals: `TypeOK`, `PostedIsRecorded`, and that the
queue implements `PostingPromise`. What a payment has in Zoho is bounded by who may
still post it: an event in a worker's hands is PROCESSING and that worker's, or
POSTED by a write the worker never heard of (`InHand`); it is in nobody else's
(`HeldByOne`, which no lease has any part in: it rests on the claim asking for
PENDING or FAILED); whoever is about to post knows of all records but those an
answer hid (`PostIsDue`); and whatever was found or written down is there
(`FoundIsThere`, `PostedIsRecorded`). So a payment has no more records than one and
the answers misread (`NoNeedlessRecord`), `Post` is the promise's `Enter`, whatever
becomes of its answer, a committed write its `Show`, a failure written over it its
`Withdraw`, and the worker that puts such an event down otherwise its `Settle`.
`PostedIsUndoneByItsWorker` is what is left of POSTED being final. Two more
theorems say how far the finding of the run `zoho_second_payment` goes. A
payment alone of its request is in the books when it is POSTED
(`LonePaymentsReachTheBooks`), so only instalments are concerned. With one
worker, which is what the deployment starts, no request gets two records unless an
answer is misread (`OneInstalmentIsBooked`): whoever posts found none a moment
before, and nobody else writes, so every later instalment adopts the first one's
record.

`ReservationsProofs` proves for any number of bookings and calls, any room and any
blackout: `TypeOK`, `NoDoubleBooking`, `AnswersSurvive`, `SearchAgrees` and
`NextFreeIsEarliest`. For the first three `CallFits` and `ChecksAreEdits` say what
a call between its steps holds; the constraint does the rest. The other two are
about the arithmetic of `Slots`, three folds over sorted sequences, each with an
invariant of its walk. The merge (`MergeInv`): what was merged so far is apart
and in order, and covers exactly the instants of the periods taken so far, so a
window is clear of the merged periods just when it is clear of all
(`FreeIsClear`). The timeline (`LayInv`): the pieces laid so far cover the chunk
up to the cursor, and a changeover only what no item does (`TimelineIs`). The next
free window (`LookInv`): nothing before the cursor fits, which holds of the
next point of the grid too (`AlignIs`), and what is found fits (`NextFreeIs`).
Room, rows and blackouts enter only by their types.

`TicketsProofs` proves for any number of tickets, people and requests: `TypeOK`,
`BlockedIsAwaited`, `FollowsTheTable` and `AssignedKnowingly`. `HandFits` says
that a request whose ticket was not touched since acts on what it read. `LinkFits`
that a link joins two tickets that were raised; `Settled` and `Waiting`
that an open link to a closed ticket, and a BLOCKED ticket without an open link,
are each somebody's job, unless that job is in `lost`.
`ClosedTicketsAreLeftAlone` says what is left of "Nothing moves from here"
(section 12): whoever writes a closed ticket was overtaken since it read, and it
is never an assignment.

The assumptions are the named ASSUMEs of the modules: positive budgets, leases,
pages and batches; null values that are not values; positive payments; roles held
by people; a clock's lag within the overlap; a window of at least two batches;
fast-track tickets among the tickets; finitely many bookings and blackouts, and
blackouts that end after they start (`mr_blackouts_time_order`). TLC evaluates
them in every run.

Folds need induction, and the library's induction theorems take an operator the
provers cannot instantiate. The proofs use it in the form of a set: a set of
naturals that holds 0 and with every number the next holds them all (`EveryNat`),
which follows from the order of the naturals being well founded, a theorem of
the library without parameters. A fold is then a function on sets of positions
that exists (`FoldExists`, `SumsExist`) and is unique, and the walk's invariant is
the set in question.

Only model-checked: liveness (`KeepsPromiseFairly`, `PoisonIsRetired`,
`LeaseComesFree`, `CatchesUp`, `QueueDrains`), because fairness
and ENABLED are out of the prover's reach. Every invariant and every action
property of a passing run is a theorem.

## 14. What is not modelled

- The sheet queue (`modules/finance/sheets/`), the first thing left in the plan.
  What a model of it would have to show: rows are queued after the commit and
  only by creation and payments, so approvals never reach the sheet by
  themselves; a newer version queued while an older one is being written sets the
  row back to PENDING, and the older write then marks it WRITTEN by id; the drain
  runs on an unguarded interval in every process that has a worker, so an older
  row can be written after a newer one and two processes may pick the same new
  line; and a row left SENDING by a process that died is taken by nobody.
- The inline path of the webhook processor, used when the worker is disabled:
  processing after the reply, without a row to come back to.
- Of the sync service: customers and their spend, deletions, retention other than
  payloads, webhook subscriptions, rebuilds, health, checkouts and store credit.
- The Shopify client (token refresh, cost bucket) and snapshots.
- Of the tickets: dates and the sweep that follows them, departments,
  contributors, comments, attachments, escalation.
- Who may read what, wording, notifications, mail, notes and audit rows: appended
  or rendered, and read by no decision.
- Metrics, dashboards, portlets, cash flow and projections: queries.
- Sessions, administration and announcements: single guarded statements.
- The front end, the seed data, the one-time import, and the deployment scripts
  other than the worker's unit.
