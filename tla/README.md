# TaleLabs: a verification project

TaleLabs turns a flow (a graph of generation nodes) into media.  A *run* of a
flow is admitted and paid with credits, executed by durable tasks that call
paid model providers, and settled afterwards.  What is hard in this code is not
any single computation.  It is that one run is moved by many actors, each of
which may stop between any two of its steps: the API request that admits or
cancels it, the durable parent task, one child task per job, the error handlers
that Trigger.dev calls after a failed attempt, and half a dozen scheduled
reconcilers.  They meet only in PostgreSQL rows.  The modules in this directory
model those actors and rows, TLC checks them on small instances, and TLAPS
proves the central facts for every plan and every number of attempts.

Four parts of the system have the same shape without durable tasks: browsers
that execute a run under a lease, uploads and outputs that share the bytes of an
organization with clean-up and purge tasks, tabs that save one flow with a
compare-and-swap, and subscriptions whose monthly credits are granted by passes
while Stripe renews and customers change them.  They are modelled in the same way.

All paths below are relative to the repository root; `trigger/` stands for
`packages/trigger/src/`, `api/` for `apps/api/src/`, `db/` for
`packages/db/src/`.

## 1. Inventory

| Part | State it keeps | Operations | Hard behaviour |
|---|---|---|---|
| Run admission (`api/domain/runs/admission.service.ts`, `execution-persistence.ts`) | `flowRuns`, `flowRunNodes`, `flowRunNodeItems`, `generationJobs` | commit a plan with its credit and storage hold; replay by idempotency key | one transaction; replays of a lost answer |
| Dispatch outbox (`api/domain/runs/dispatch.service.ts`, `trigger/flow-runs/reconciliation/dispatch.ts`) | `flowRuns.triggerRunId` | call Trigger.dev, record the parent; reconcile | lost call between commit and dispatch; duplicate dispatch |
| Orchestrator (`trigger/flow-runs/orchestration/`) | its position in the plan | run a level, collect it, fail, skip, summarise | crash and second attempt; partial failure of the fail/release/skip sequence |
| Generation job (`trigger/flow-runs/execution/job/`) | `generationJobs.status`, marker, external id, settlement status | claim, submit once, poll, stage, persist, complete; error handler | at-most-once paid call, stale error handlers, zombies |
| Provider results (`trigger/flow-runs/execution/provider-results/`) | `generationProviderResults`, callback wait tokens | submission checkpoint, staging, settlement, callback wait | lost wake-ups, late callbacks |
| Outputs and ingestion (`trigger/flow-runs/execution/outputs/`, `trigger/assets/processing/`) | `assets` | commit one canonical output, ingest it, purge | success before the output is usable; purge against ingestion |
| Cancellation (`api/domain/runs/cancellation.service.ts`, `trigger/flow-runs/persistence/terminal-transitions.ts`) | `flowRuns.status`, acknowledgement | cancel, cancel at Trigger, retire, acknowledge | races with completion; work already paid for |
| State reconcilers (`trigger/flow-runs/reconciliation/`) | none of their own | repair orphaned runs and stale jobs | act on rows read before a remote call |
| Credit book (`db/credit-accounting.ts`, `db/billing-state.ts`) | accounts, balances, grants, reservations, items, allocations, ledger | grant, reserve, settle, reverse, reinstate | racing settlers, replays, projections that must agree |
| Refunds and disputes (`trigger/billing/stripe-reversals.ts`) | payments, disputes, reversals | refund, dispute opened/lost/won | Stripe facts read before the transaction; reversal while credits are held |
| Webhook inbox (`trigger/billing/webhook-processor.ts`) | `stripeWebhookEvents` | claim, process, recover | duplicate and reordered delivery; stale takeover of a live worker |
| Settlement reconciliation (`db/billing-settlement-reconciliation.ts`) | attempts, quarantine | list, settle, record failures | retry budget, quarantine |
| Provider accounting (`trigger/flow-runs/persistence/accounting-queries.ts`) | attempts, costs | claim, look up, persist | attempt budget, late cost |
| Storage accounting (`db/storage-accounting.ts`, `db/asset-upload-accounting.ts`, `db/job-storage-settlement.ts`, `trigger/assets/`) | `organizationStorageUsage`, `assetUploadIntents`, holds of jobs and runs, `assets`, the objects | grant, register, clean up, hold, ingest, release, purge | hold shared by outputs, overlapping clean-up passes, purge against ingestion, quota of a plan that changes |
| Subscriptions (`db/subscription-*.ts`, `trigger/billing/stripe-subscription*.ts`, `api/domain/billing/subscription-change*.ts`) | subscriptions, payments, credit periods, change intents | project, record a payment, grant per period, change now or at the renewal, replay, abandon | grant passes in several transactions, facts read before the transaction that uses them, metadata that outlives a change |
| Browser runtime (`api/domain/runs/browser-runtime/`, dashboard `browser-runtime/`) | leases with a fencing number, jobs | acquire, claim, begin, checkpoint, commit, complete, fail, cancel, release | two browsers, expired leases, reloaded tabs that keep their id, uncertain submissions |
| Upload queue of the console (`apps/dashboard/src/features/uploads/`) | the queue of one tab | prepare, upload, register, cancel | cancellation against registration |
| Flow autosave (`apps/dashboard/src/features/flows/editor/persistence/`, `api/data/flows.data.ts`) | flow revision, nodes, edges; canvas and saved baseline of each tab | edit, save in batches, replay after a conflict, leave, reload | lost answers, edits during a save, a graph read that mixes two revisions |
| Flow planning (`packages/flows/src/`) | none (pure) | validation, ordering, scenarios | pure algorithms over graphs |
| Screens, i18n, UI kit, generated SDK, e-mail, auth, model catalog, cache | - | - | no protocol of their own |

How they interact: admission commits rows and the credit hold together and only
then dispatches the parent; parent and children share nothing but the rows and
Trigger's task results; every terminal transition of a job settles its credits
(in the same transaction for completion and failure, afterwards for
cancellation); reconcilers read rows, ask Trigger or Stripe, then write; Stripe
webhooks move grants that reservations draw from.

What makes each part correct:

- run engine: a job is executed at most once at the provider and its spend stays
  visible; credits are captured exactly for successes; a finished job keeps its
  outcome; inputs exist before they are paid for; runs end, settlements happen,
  cancellations are acknowledged;
- credit book: balance, grants, reservations, items, allocations and ledger tell
  the same story after every transaction; a hold is spent or returned, once;
- refunds and disputes: the same credit is never taken or returned twice; the
  rows end up saying what Stripe says; what is unclear is under review;
- storage: used and held bytes are the sums of assets and holds; no object of a
  live asset is deleted; no step takes the total over the limit of the plan;
- browser runtime: what a browser sends after it lost its lease changes nothing,
  a submission of unknown outcome is never repeated, a run still ends;
- autosave: a tab that shows "saved" shows what the server has, a save changes
  nothing that its user did not touch (the code deletes nothing else, but it does
  write more: section 4), edits reach the server;
- subscriptions: the months of a schedule come in order and once; a month is
  granted inside paid service and below a ceiling that was paid for; what is due
  and paid is granted, and a change that was charged is applied;
- planning: the order respects the edges, and equal graphs give equal plans.

## 2. Plan

Done:

1. `RunEngine` with the abstract `JobPromise`, proofs in `RunEngineProofs`.
2. `CreditAccounting` with the abstract `CreditPurse`, proofs in
   `CreditAccountingProofs`; the allocation loop `CreditAllocation`, proofs in
   `CreditAllocationProofs`; both composed in `CreditReservation`.
3. `StripeReversals`, which composes the credit book with payments, disputes and
   webhook workers, proofs in the second half of `CreditAccountingProofs`.
4. `BrowserRuntime`, shown to implement the same `JobPromise` as the managed
   engine, proofs in `BrowserRuntimeProofs`.
5. `AssetStorage`, proofs in `AssetStorageProofs`.
6. `FlowAutosave`, proofs in `FlowAutosaveProofs`.
7. `SubscriptionCredits`, proofs in `SubscriptionCreditsProofs`.

Open, in the order of their weight:

8. Row locks: statements instead of transactions as steps, for completion,
   settlement, cancellation and reversal: lock order, deadlock, the snapshot of a
   statement that waited.
9. The rest of subscriptions: the checkout, failed payments and cancellations.
10. The budgets of settlement and cost reconciliation with their quarantine; the
   gate of a retry; the callback token against the polling loop.
11. The upload queue of the console; planning algorithms against reference
    definitions.
12. Proofs of the properties of the parts above; every invariant that a run checks
    today is a theorem.

## 3. Modules

| Module | Models | Used by |
|---|---|---|
| `RunEngine` | one managed run: rows, parent task, child tasks, cancellation, reconcilers | `MCRunEngine`, proofs |
| `JobPromise` | what both ways of executing a job promise: announce, spend once, end once, settle accordingly | refinements in `RunEngine` and `BrowserRuntime` |
| `CreditSpans` | arithmetic of quotes laid over grants | `CreditAccounting`, `CreditAllocation` |
| `CreditAllocation` | the allocation loop of `reserveRunCredits`, iteration by iteration | `CreditReservation`, proofs |
| `CreditAccounting` | the credit book of an organization, transaction by transaction | `CreditReservation`, `StripeReversals`, proofs |
| `CreditReservation` | the credit book with the allocation loop inside the admission of a run | `MCCreditAccounting` |
| `CreditPurse` | free and held credits, one hold per job | refinement in `CreditAccounting` |
| `StripeReversals` | Stripe, the webhook inbox, its workers, payments and disputes, over the credit book | `MCStripeReversals`, proofs |
| `BrowserRuntime` | a run that browsers execute: leases and fences, the API requests, the worker of each claim | `MCBrowserRuntime`, proofs |
| `AssetStorage` | upload intents, the hold of a job, ingestion, clean-up passes and purges over one usage row and one object store | `MCAssetStorage`, proofs |
| `FlowAutosave` | the save loops of dashboard tabs and the API that applies their diffs | `MCFlowAutosave`, proofs |
| `SubscriptionCredits` | one subscription: Stripe, its events and invoices, the grant passes, the changes of its offer | `MCSubscriptionCredits`, proofs |

`MC*` modules give the constants their values; `*Proofs` hold the theorems, and `Sums`
the lemmas about sums over finite sets that four of them use.

The tables below give the correspondence of state; PROJECT.json `map` gives
the lines of every action.

### 3.1 RunEngine

A step is one database transaction or one external call.  A task may crash
between any two of its steps; Trigger.dev then starts its next attempt, or, after
the last one, runs the failure hook of the parent.  A stale attempt cannot run in
parallel with a newer one of the same task (Trigger guarantees this), but it runs
in parallel with everything else, with whatever it read before.

| Variable | Code |
|---|---|
| `run` | `flowRuns`: status, whether `triggerRunId` is set, whether the cancellation is acknowledged |
| `job` | `generationJobs`: status, `providerSubmittedAt` (the write-ahead marker), `providerJobId`, `providerSettlementStatus`, whether the result is staged, `creditSettlement` |
| `item` | `flowRunNodeItems.status`; a node has one item here, so the node row, which repeats it, is left out |
| `asset` | the canonical output: none, processing, ready |
| `parent`, `child` | position and local variables of the tasks, with their attempt numbers; `seen` is what the error handler read |
| `sweep` | position of a state-repair pass |
| `accepted` | ghost: how often the provider started to execute a job |

Simplifications: children lost with different failure codes are failed in one
step (the code does it code by code); the two transactions of
`finishSucceededJob` are one; `ParentGone` stands for a terminal Trigger status
and for a missing run; the 15 minutes of the stale sweep may pass at any time;
one state-repair pass runs at a time; a provider accepts or refuses, and its
execution either completes or fails.

### 3.2 CreditAccounting

Every transaction that changes the book locks the account row first, so each is
one step.  The exception is what a settlement reads before it has the lock:
`BeginSettle` is that read, `Settle` the rest of the transaction.

| Variable | Code |
|---|---|
| `account` | `organizationBillingAccounts`: `managedExecutionStatus`, `managedExecutionReason` |
| `issued`, `grant` | `creditGrants` in order of `createdAt`, with the four counters |
| `balance` | `creditBalances` |
| `ledger` | `creditLedgerEntries`; the idempotency key is the event with the grant |
| `reservation`, `item`, `draw` | `creditReservations`, `creditReservationItems`, `creditReservationAllocations` |
| `storage`, `hold` | `organizationStorageUsage` and `generationJobs.storageReservedBytes`, as far as admission and settlement move them |

In `CreditReservation` an admission is not one step but the loop: `BeginReserve` takes
the lock and lists the grants, `LoopNext` is one iteration, `FinishReserve` writes what
the loop has computed.  `ReservesAtOnce` says that this comes to the single step.

Left out: the ceiling of subscription periods, the output visibility that the
grants give a job, replays of an admission or a grant (a step that changes
nothing), jobs without a reservation.

### 3.3 StripeReversals

A worker claims an event, asks Stripe, runs one transaction and then marks the
event: four steps, with a crash possible between any two.  An event that is being
processed may be claimed again at any time (in the code after 15 minutes, which a
slow worker can outlive).  The order of the locks makes refund and dispute
transactions of one payment run one after another.

| Variable | Code |
|---|---|
| `charge`, `case` | at Stripe: how much of the charge is refunded, and its dispute |
| `payment` | `billingPayments`: status and refunded amount (none, a part, all) |
| `dispute` | `billingPaymentDisputes.status`; the favorable outcomes are one, "won" |
| `taken` | `billingDisputeGrantReversals` |
| `inbox` | `stripeWebhookEvents.processingStatus` |
| `worker` | position of `processStripeWebhookEvent` and what it read from Stripe |

Left out: subscriptions with their `past_due` status; a decision of the support,
which no code takes; several partial refunds of different amounts (they are one
"partial"); several disputes of one charge; mismatches of currency or customer,
which only refuse an event.  The grants of a payment are read inside the
transaction that moves them, so the unlocked read and the move are one step here.

### 3.4 BrowserRuntime

A step is one API request: its transaction holds the advisory lock of the run, so
requests of one run come one after another.  A worker (`executeBrowserJob`) may be
overtaken between any two of its requests; when its tab is closed, what it has sent
may still arrive (`Stop` chooses which executions are lost at once).  A session is
one mount of the executor root; the id of its tab survives a reload, which is why
two sessions may pass for the same executor.

| Variable | Code |
|---|---|
| `run` | `flowRuns`: status and `reconciledAt` of a cancellation |
| `lease` | `flowRunBrowserLeases`: whether it is active, executor id, fence |
| `job` | `generationJobs`: status, submission status, marker, external id, fence of the claim, attempts, cancellation, settlement, credits |
| `asset` | the canonical output, as `browserOutputReadiness` sees it |
| `tab`, `session` | the executor ids, and the coordinators with the fence each believes to hold |
| `worker` | position of `executeBrowserJob`, the fence of its claim, the error it caught |
| `accepted` | ghost: how often the provider started to execute a job |

Left out: the status shown to the user, the journal in IndexedDB and the discovery
hints, which only decide when a coordinator looks; debug mode, which calls no
provider; jobs with several outputs; claims of more than one job at a time, which
the coordinator does not make.

`DeleteOutput` is the user who archives or purges an output, before its job is settled or
after; an output no open job can still read is left alone, because nothing looks at it
again.  A claim of a job whose input is gone rolls back (`ClaimFails`).

### 3.5 AssetStorage

A step is one transaction or one call to the object store.  Every task stops between
two of its steps or is tried again.

| Variable | Code |
|---|---|
| `limit`, `usage` | `storageBytes` of the plan; used and reserved bytes of `organizationStorageUsage` |
| `intent` | `assetUploadIntents`: status, whether its clean-up is due, `objectDeletedAt` |
| `grant` | the signed URL at the client: signing, granted, sending, sent, gone |
| `registering` | registrations that have verified the object and not yet inserted the asset |
| `sweep` | position of each pass of the upload clean-up, and whether its claim is still the newest |
| `held`, `runHold` | `storageReservedBytes` of `generationJobs` and of `flowRuns` |
| `job` | planned, running, ended: what the holds depend on |
| `object` | the objects that exist |
| `writer`, `orphans` | position of the finalizer of an output; outputs that a terminal clean-up found without an asset |
| `asset` | `assets`: processing state, purge, `sizeBytes` |
| `ingest`, `purger` | position of the ingestion and of the purge of an asset |

Left out: thumbnails, which have no bytes in the accounts; upload grants of the
first version; staged provider results; page bounds of the passes, which only delay
an item; the task that compares the totals and reports.  One writer per output is
assumed (section 4 says what two could do).

### 3.6 FlowAutosave

A step is what the tab does between two awaits, one transaction, or one statement of
a graph read.

| Variable | Code |
|---|---|
| `server` | `flows.revision` with `flowNodes` and `flowEdges` |
| `tab` | the canvas store (`local`), the refs of `useFlowAutosave` (`base`, `rev`, `dirty`, `timer`, `conflicts`), which nodes of the baseline have the field order of a response (`received`), the shown status, and the save task: where it is, its request, the answer, the graph it is reading |
| `orphan` | a request that still runs though its tab was left or reloaded or lost the answer |
| `edits`, `breaks` | count edits and breaks, for the bounds |
| `touched` | history: what the user of the tab changed, for the properties |

Graphs are nodes with one of a few data values, and edges with fixed ends.  `Canon` is
what the server makes of the data of a node (the answer may differ from what was
sent).  The diff compares nodes as JSON text, so a node of the baseline that came in a
response counts as changed even when it is equal (`Differs`).  Left out: an edge that is reconnected under its old id, the viewport, media
references, an id that another flow uses, the deletion of the flow, and
`reconcileWithServer`, which has no caller.

### 3.7 SubscriptionCredits

A step is one transaction or one call to Stripe.  A grant pass is several of them:
it reads the subscription, counts the months that have a row, reads the payments, and
for each month that is due inserts the row and appends the grant.  Passes of the
hourly task and of invoice events (`Passes`) and the one a change request runs
(`Api`) work at the same time and may die between any two steps.

| Variable | Code |
|---|---|
| `now` | the clock, in ticks; `Month` ticks are a month, `YearMonths` months a year |
| `stripe`, `invoices`, `events` | at Stripe: the subscription with its schedule and metadata, the paid invoices, the subscription events not yet handed out |
| `sub` | `billingSubscriptions`: offer, service period, anchor and revision of the schedule of months, `paidThrough`, the offer of the next renewal |
| `payments` | `billingPayments` of the subscription |
| `periods` | `subscriptionCreditPeriods`: revision, ordinal, target, carried and granted credits |
| `grants` | the subscription's `creditGrants`, under their idempotency key |
| `intents` | `billingSubscriptionChangeIntents` |
| `pass` | position of each pass and what it has read |
| `hook` | position of each worker that projects the subscription, and what it retrieved from Stripe |
| `api` | position of the change request, what it loaded, and the date and increment of the preview |

An immediate change is applied by the request (`ChangeApply`) or by the webhook of
its invoice (`InvoiceApply`), one at the renewal by the request (`ChangeComplete`) or
by the webhook of its schedule (`ScheduleApply`); a repeated request takes up the
intent it finds, `ChangeResume` the one that waits for its schedule.

Left out: the checkout that creates a subscription; invoices that need the customer,
failed payments, cancellations and the cancellation of a scheduled change; the
recognized revenue and the account's projection; the lease of a request, so that a
request may be repeated at any time.  Every invoice is paid at once.  Stripe's events
come in any order, because a worker takes any paid invoice that is not recorded and
reads the subscription when it begins.  The customer may begin with any of `SignUps`.

## 4. What is checked

TLC stops on the first error; the states are those of the last run.  Deadlock is
not an error anywhere: a run that has ended, a finished allocation, and an inbox
that has been processed have nothing left to do.

| Run | Instance | States | Shows |
|---|---|---|---|
| `EngineSolo` | one job, two attempts of each task, fair | 177 k | capture exactly on success, at most one submission, spend tracked, outcomes final, outputs usable, quiet after acknowledgement, `JobPromise` implemented; credits settle, cancellations are acknowledged |
| `EngineChain` | two nodes in a row, one attempt per job, two of the parent, fair | 1.6 M | inputs before payment, honest summaries; every run ends |
| `CreditBook` | grants of 3, 2 and 1 credits (one public), runs with jobs of 2+2 and 1, two settlers, one reversal event, the loop in its iterations | 153 k | balance, grants, ledger, items agree; the loop computes the overlaps of quotes and grants; an admission comes to one step; the book is one purse |
| `ReversalsRace` | two payments with a grant each, one with a partial dispute, a job that needs both grants, two workers, three events | 1.5 M | exact reversals, refunds follow Stripe, unclear payments reviewed, disputed credits unspendable |
| `BrowserTakeover` | two jobs in a row, two sessions on one tab or on two, two fences, two attempts, fair | 488 k | spend tracked, inputs before payment, `JobPromise` implemented; every run ends or is reconciled, unless an input was deleted |
| `StorageQuota` | an upload of 2 bytes, a job with outputs of 1 and 3 that holds 3, limits of 4 and 6, two clean-up passes | 3.6 M | usage adds up until an upload is purged without a recorded size, live assets keep their objects, the quota is kept |
| `FlowAutosave` | two tabs with one edit each, four drafts over two nodes and an edge, one break, batches of two mutations, one replay, fair | 82 k | "saved" shows the server, a save deletes no node of others, edits reach the server |
| `SubscriptionChanges` | monthly offers of 3 and 6 and an annual one of 6, from monthly 3; months of two ticks, three ticks, one change, one crash | 536 k | months in order, rows agree with grants, ceilings and grants are paid for |
| `SubscriptionService` | annual offers of 3 and 6 and a monthly one of 3, from annual 3 or monthly 3; years of two months, one change, fair, no crash | 643 k | across a change of cadence, either way: due months are granted, paid changes are applied unless `Outdated` or `YearOver` |

Why these bounds: a second attempt is the first that can meet a stale marker, a
stale error handler or a finished level.  A third one of the parent does meet
something new (below, "An ended run is not quiet"), which is why every safety property
of the engine is also proved, for any number of attempts; two jobs
in a row are enough for a predecessor, a descendant and a level; three jobs over
two grants make a job span grants, a grant span jobs and a grant end exactly where
a job ends; two settlers and two workers are a race.  Three events of Stripe
cover a partial and a full refund with a dispute, and a dispute with its closing
and one refund.  The event bound (`MaxEvents`) is in the guards of Stripe's
actions.  `ReversalsRace` has no liveness property and takes two things as one: workers that
change places (symmetry), and events that are pending, failed or being processed (the view
`Progressed`), since each of these can be claimed and none is done.

Two sessions are a takeover; the second fence is the last one (`MaxFence`), which
does not expire, and which a claim that rolls back does not give up either, so that the fair
run is one where somebody finally stays.  A third
fence would repeat the second: every check compares with the current one only.  Two
attempts are a retry and its exhaustion.  The sizes are chosen so that the second
output exceeds the hold it shares with the first, the smaller limit cannot take
everything, and the larger can; two passes are what an expired clean-up lease gives.
One edit per tab makes a conflict, a replay and a second conflict, because batches
of two mutations cut an edit into several requests (`MaxBatch`), and one replay
(`MaxReplays`) reaches the point where a save gives up; the break of a tab
(`MaxBreaks`) is a lost answer, a reload or a return to the flow.  Past `MaxRevision` the
API refuses requests.

A month of two ticks is the shortest that can be changed in its middle, and three ticks
reach the second month; one change is enough for a request, a webhook and a pass to
meet, and one crash for a pass that leaves a row without a grant.  `SubscriptionService` begins with
either cadence and reaches the renewal of a year and a change of cadence in both
directions.  `MaxTime`, `MaxChanges`
and `MaxCrashes` are in the guards.  Two guards matter only beyond these bounds, and
`CeilingIsPaid` is false without them.  `ChangeCharge` asks that Stripe refuses to leave
the billing cycle unchanged when the two prices have different intervals, as the API
process may do after a projection has overtaken it
(`domain/billing/subscription-change-immediate.service.ts`, lines 51 to 57): that is an
assumption about Stripe.  `InPaidYear` is the code's own: what a change grants for an annual
invoice needs a share in the revenue of its service (`billing/grant-schedule.ts`, lines 171
to 220), which a month outside of it has not.

The type invariants of all modules with a theorem are proved (section 5); only those
of `AssetStorage` and `SubscriptionCredits` are also listed by a run, because there they
say that no counter becomes negative.

### Disagreements of code and documentation

Three runs check one sentence of the documentation each, and TLC finds it violated;
PROJECT.json `findings` quotes the sentences and the code:

- `EngineSettlement` (`SettlementEnds`): a child dies after the marker and its parent
  closes the job; nobody ever settles the provider status, and a canceled run is never
  acknowledged.
- `DisputeRace` (`DisputeFollowsStripe`, two workers): a worker reads an open dispute;
  another one reads and records its closing; the first then records "open"
  (`trigger/billing/stripe-reversals.ts`, line 374).  The reading outside the transaction
  is the cause, not the order of delivery.  A refund only grows, so
  `RefundFollowsStripe` holds all the same.
- `AutosaveConflict` (`SavesOwnNodes`, two tabs): the diff of a save compares
  `JSON.stringify` of nodes (`flow-graph-fingerprint.ts`, line 7), and a node of a response
  has its fields in another order than one the canvas writes
  (`flow-node-serialization.ts`, lines 7 to 17).  After a load or a conflict every node
  counts as changed: the tab that meets the conflict replays its old copy of nodes its user never
  touched over what the other tab has saved, and brings back nodes the other has deleted.
  What holds is `DeletesOwnNodes`, and, because the extra writes carry what the tab
  shows, `SavedIsServer`.

The models reach more situations that a reader should know of.  Three of them are
exceptions that a property names, because it is false without:

- *An input that is gone.*  The output of a job is archived or purged after its success and
  before the job that reads it is claimed.  `materializeClaimedJob`
  (`browser-job.service.ts`, line 237) throws `same_run_asset_output_missing`
  (`inputs/same-run-outputs.ts`, line 70); the claim rolls back with everything it had
  reconciled, the coordinator gives up its lease and tries again
  (`browser-run-coordinator.ts`, lines 536 to 548), for ever.  `RunEnds` excepts
  `InputDeleted`.  An input from the library that is purged has the same effect and is not
  modelled.
- *A stranded upload.*  An upload is purged before ingestion has recorded its size (it is
  still being ingested, or ingestion failed): the purge gives back nothing
  (`db/storage-accounting.ts`, line 280), and the bytes stay in `usedBytes`, against
  `docs/credits-planning.md`, lines 1593 to 1595 ("the media breakdown must sum to that total").  `UsageAddsUp`
  demands the sum of the assets until an upload is `Stranded`.  It counts a registered upload with its real
  bytes before its size is recorded; `reconcileOrganizationStorageUsage` adds recorded sizes only and
  reports a difference in that time.
- *A paid change that never applies.*  The increment of a change from monthly to annual is
  fixed by the preview; a month granted before it is applied makes every delivery fail
  (`db/subscription-change-application.ts`, line 221; `docs/credits-planning.md`,
  line 1185: "collect immediately, reset the billing/credit schedule, and carry
  overlapping credits"): `Outdated`.  An invoice of such a change with credits to grant
  that is processed after the year it paid for has ended is refused each time too
  (`billing/grant-schedule.ts`, "Grant period is outside the annual paid service"):
  `YearOver`.  `PaidChangesApplied` excepts these two, and TLC gives a trace when either
  is left out.

The following are not kept as runs.  TLC gave a counterexample for each of the first seven,
against the sentence of the documentation that is quoted or named:

- *A review is lifted.*  `restoreExecutionAfterResolution`
  (`trigger/billing/stripe-reversals.ts`, line 103) looks for unresolved disputes and
  partial refunds, but not for refunds of credits that were used; the resolution of one
  payment lifts the review of another.  `docs/credits-planning.md`, lines 1209 to 1212:
  "set managed execution to `blocked_review` and require an explicit support decision".
- *A torn read deletes an edge.*  The API reads the revision, the nodes and the edges of
  a graph with three statements (`api/data/flows.data.ts`, line 342).  A tab that
  reconciles a conflict with nodes of one revision and edges of the next drops the edge
  whose node it has not seen, keeps it in its baseline, and deletes it with its next
  save.  `flow-revision-conflict-reconciliation.ts`, line 24: it "replays only the local
  diff over the refreshed compare-and-swap base".
- *An overlap counted twice.*  A change from monthly to annual is applied between the
  row of a month and its grant; it carries nothing, and the old month is granted as
  well (`db/subscription-change-application.ts`, line 217; `docs/credits-planning.md`,
  line 767: "counts the credits already issued for the overlapping month as carried").
- *Renewals refused.*  An immediate change leaves its intent in the metadata of the
  subscription (`subscription-change-immediate.service.ts`, line 76).  Where Stripe
  copies it into later renewal invoices, the processor takes each of them for the
  invoice of the change (`stripe-subscription-invoices.ts`, line 138) and refuses it
  (`docs/credits-planning.md`, line 1179: "monthly renewal paid: extend `paidThrough`").
- *A lost month.*  A pass that dies between the row of a month and its grant leaves a row
  without credits, and later passes start after it (`db/subscription-grants.ts`, line
  176; `docs/credits-planning.md`, line 1106: "reconcile every monthly grant period now
  due").
- *An ended run is not quiet.*  With three attempts of the parent and two per job, the
  numbers of the code: the second attempt passes the first level, because its job is
  already running (`orchestration/run.ts`, line 155), and starts the next level; the
  third finds that job pending again after a retry and waits for it; it is lost.
  `skipDescendants` (`orchestration/graph-failure.ts`, lines 57 to 79) skips pending jobs
  and pending items, and the descendant's job is running while its item, which is set to
  running later (`execution/job/run.ts`, line 141), is still pending.  So the item is
  skipped and the run ends with a job at work; when its task then dies, no sweep looks at
  it again (`docs/m5-durable-run-engine-execution-plan.md`, lines 475 and 476: "repeats
  until no runnable work remains", then "one guarded terminal aggregation").  The job's
  credits stay correct (`CaptureCorrect`), and the summary stays honest
  (`SummaryCorrect`); no run has a third attempt, whose state space is too large.
- *A stale subscription.*  Two workers read a subscription before and after a renewal and
  commit in the other order (`trigger/billing/stripe-subscriptions.ts`, line 117;
  `docs/credits-planning.md`, line 1371: "safe under duplicate delivery and out-of-order
  events").

- an error handler that read the run before the cancellation schedules a retry,
  which submits after the cancellation (`execution/job/error-handler.ts`, line 108;
  compare `docs/flow-nodes-planning.md`, line 1432);
- a second attempt of the orchestrator passes a level whose jobs still run or have
  failed (`orchestration/run.ts`, line 155); no job is paid before its inputs all
  the same;
- a takeover fails a job whose output is still being ingested, when its execution
  had answered without an external id (`browser-job.service.ts`, line 351;
  `docs/browser-execution-mode-execution-plan.md`, lines 781 to 783, promises
  recovery of stored output); the job is not charged;
- a PUT that ends after the clean-up of its intent leaves an object that no row
  names (`docs/api-design-planning-v2.md`, lines 532 to 538);
- two finalizers of one output, which the model excludes, could delete the object
  the other one commits (`execution/outputs/media-finalizer.ts`, lines 26 to 55);
- the output of a job is usable, but the job is closed by a cancellation or an
  error before its success transaction, and nothing is charged
  (`trigger/flow-runs/execution/job/state/terminal.ts`);
- a worker that was given up sets its item to running in a run that has ended
  (`execution/job/run.ts`, line 141);
- a child that dies after its success is counted as lost, and its descendants are
  skipped (`orchestration/run.ts`, line 182);
- a parent that dies inside `skipDescendants`, between jobs and items, makes the
  summary say canceled for a run that no user canceled;
- a refund is processed again after a job has returned credits to the refunded
  grant: the review is lifted and those credits can be spent
  (`trigger/billing/stripe-reversals.ts`, line 329).

`DisputedIsUnspendable` holds for any number of workers.  It speaks of credits that no
favorable outcome has given back: a worker that records "open" after another one recorded
"won" opens the record again and takes nothing a second time (`DisputeRace`).
`DeletesOwnNodes` holds and its counterpart for edges does not (the torn read above):
a replay drops an edge whose end is missing in the mixture, and the next diff takes
the loss for a deletion; nodes are never dropped.  `CreditsSettle` and `CancellationAcknowledged` hold under the
exceptions their comments name; what `EngineSettlement` finds is such an exception.

### Fairness

`EngineSolo`, `EngineSettlement`, `EngineChain`, `BrowserTakeover`,
`FlowAutosave` and `SubscriptionService` use fairness.

- *Run engine.*  Trigger.dev keeps attempting the tasks it holds, and cron schedules
  keep firing: the tasks (`Parent`, `Child`), the settlement sweep, cost accounting,
  the dispatch reconciler, cancelling at Trigger, retiring and acknowledging are
  weakly fair.  The three steps of a state-repair pass are strongly fair: a pass may
  crash, but not at the same place for ever.  Nothing is assumed of users, of
  crashes, or of the first dispatch by the API.  `EngineChain` assumes only the part
  called `Progress`: the tasks, the dispatch reconciler and the state repair.
- *Browser runtime.*  Somebody opens the application now and then; a coordinator
  repeats its pass and a worker its next request (weak); the lease of a tab that is
  gone expires; a report of a failure gets through in the end (strong, since
  `LoseReport` may lose it each time).  Nothing is assumed of users who cancel or
  delete, of releases, or of requests that a closed tab has sent.
- *Autosave.*  The API answers a request, reads go on, timers and callbacks fire.
  The user owes nothing: no edit, no flush, no return to the flow.
- *Subscriptions.*  The clock goes on (up to `MaxTime`); the inbox hands out an event
  or a paid invoice until it is processed; the hourly task starts a pass again and again,
  and a pass or worker that runs goes on (all weak).  The task gives an organization up
  after five failures in a row (quarantine); a pass that only dies is not counted there.
  Nothing is assumed of the customer or of a change request, which may stop at any step.

Storage has safety properties only: what is owed there waits for the next pass.

### Mutants

Every property of a passing run has a mutant: an operator next to the one it
replaces, named with a suffix and introduced by a comment "Mutation".  TLC finds
the property violated with it.  None of them is part of the specifications.

## 5. What is proved

TLAPS checks these theorems for every value of the constants allowed by the
assumptions: `PlanAssumption` and `AttemptsAssumption` (a plan is a graph by levels, at
least one attempt), `BrowserPlanAssumption` and `BrowserBoundAssumption` (the same for
browsers), `BookAssumption` (finitely many grants and jobs, positive amounts, no job in
two runs), `InputAssumption` (bounds are numbers), `PaymentAssumption` (no grant of two payments), `StorageAssumption`
(finitely many uploads, outputs and jobs, sizes and holds are numbers),
`AutosaveAssumption`, `SubscriptionAssumption`.  TLC evaluates all of them in the runs.

| Theorem | Module | Statement |
|---|---|---|
| `TypeCorrect` | `RunEngineProofs` | `Spec => []TypeOK` |
| `CaptureCorrect` | `RunEngineProofs` | credits are captured exactly for successes |
| `OutcomeCorrect` | `RunEngineProofs` | a finished job keeps its outcome |
| `SubmissionCorrect` | `RunEngineProofs` | at most one provider execution per job |
| `SpendCorrect` | `RunEngineProofs` | spend stays visible |
| `InputsCorrect` | `RunEngineProofs` | the provider is paid only after every input has succeeded |
| `OutputCorrect` | `RunEngineProofs` | a job succeeds only with a usable output |
| `SummaryCorrect` | `RunEngineProofs` | a run reports success only for its whole plan, partial success only with one |
| `AckCorrect` | `RunEngineProofs` | an acknowledged cancellation has nothing left to do |
| `PromiseKept` | `RunEngineProofs` | `RunEngine` implements `JobPromise` |
| `TypeCorrect` | `BrowserRuntimeProofs` | `Spec => []TypeOK`; no takeover gives a job more attempts |
| `SpendCorrect` | `BrowserRuntimeProofs` | spend stays visible, whoever loses the lease |
| `InputsCorrect` | `BrowserRuntimeProofs` | no execution starts before every input has succeeded |
| `PromiseKept` | `BrowserRuntimeProofs` | `BrowserRuntime` implements `JobPromise` |
| `AllocationCorrect` | `CreditAllocationProofs` | the allocation loop (`LoopSpec`) computes the overlaps and never runs out |
| `TypeCorrect` | `CreditAccountingProofs` | `Spec => []TypeOK`: no column becomes negative |
| `RowsCorrect` | `CreditAccountingProofs` | every credit of a grant and of a quote is in one place |
| `BooksCorrect` | `CreditAccountingProofs` | balance, grants and ledger agree |
| `ReservationsCorrect` | `CreditAccountingProofs` | reservations add up to their items |
| `PurseKept` | `CreditAccountingProofs` | `CreditAccounting` implements `CreditPurse` |
| `UnclearReviewed` | `CreditAccountingProofs` | an unclear payment keeps execution blocked |
| `RefundFollowed` | `CreditAccountingProofs` | once the inbox is quiet, refunds are the ones at Stripe |
| `BooksSurvive` | `CreditAccountingProofs` | the book agrees and no column is negative under refunds and disputes too |
| `ExactlyReversed` | `CreditAccountingProofs` | no credit is taken or returned twice |
| `DisputedUnspendable` | `CreditAccountingProofs` | disputed credits cannot be spent unless a favorable outcome gave them back, for any number of workers |
| `ObjectsKept` | `AssetStorageProofs` | a live asset has its object |
| `LimitKept` | `AssetStorageProofs` | no step takes the total over the limit |
| `UsageCorrect` | `AssetStorageProofs` | used and held bytes are the sums of what uploads, assets and jobs hold, used bytes as long as no upload is stranded |
| `TypeCorrect` | `AssetStorageProofs` | `Spec => []TypeOK`: no counter becomes negative |
| `AutosaveTypes` | `FlowAutosaveProofs` | `Spec => []TypeOK` |
| `SavedShowsServer` | `FlowAutosaveProofs` | a tab that shows "saved" and is at the server's revision shows its graph |
| `TabsKeepTheirNodes` | `FlowAutosaveProofs` | a save deletes no node its user did not touch |
| `SubscriptionTypes` | `SubscriptionCreditsProofs` | `Spec => []TypeOK`: no count, ceiling or increment becomes negative |
| `MonthsStayInOrder` | `SubscriptionCreditsProofs` | each schedule is the months from 0 on, without gap or double |
| `RowsCorrect` | `SubscriptionCreditsProofs` | a month's row says what its grants add up to, under its ceiling |
| `CeilingsArePaid` | `SubscriptionCreditsProofs` | no month that can be granted has a ceiling above an offer that was paid for it |
| `MonthsArePaid` | `SubscriptionCreditsProofs` | a month is granted only inside paid and recorded service |

The arguments:

- *Run engine, types.*  `TypeOK` is inductive only together with `LevelOK`, which
  ties the level in the parent to its position.
- *Run engine, credits.*  `CaptureIffSucceeded` alone is not inductive: a parent
  in the middle of releasing would release a success.  `CreditSafe` adds that the
  credits of an open job are still reserved, that the jobs whose credits the parent is
  going to release are closed, and that a task on its way out no longer holds an
  open job it would complete.  Every action changes a job's status and credit in
  one of four ways (kept, ended, won, freed); `EndStep` states them, and outcome,
  capture and refinement follow from it.
- *Run engine, spend.*  `SpendSafe` says for each job where its task may be when
  the provider has not been called, may have been called, or has been called.
  Its steps split into those that leave these facts alone (`SpendQuiet`) and the
  few around the call.
- *Run engine, inputs, outputs, summaries, acknowledgements.*  `InputSafe` says that a
  task on its way to the paid call has seen its inputs succeed, which stays true because
  outcomes are final; `OutputSafe` that a task about to commit holds a usable output.
  `HonestSafe` follows a success from the job to its item and to the summary of the run;
  a success is only ever left behind by its task (`SuccessLeft`).  `AckSafe` adds
  `Unsent`: before the handle of the parent is stored nothing was started, so that a
  cancellation without a handle has nothing to wait for.
- *Browser runtime.*  `Inv` says for each job how its row, its output and all workers at
  it fit together (`JobBooks`, `JobWorkers`); that at most one worker holds an
  announced and not yet started execution is what a takeover could break.  Every request
  has one of a few effects on a job, and all of them keep `Inv` and are steps of the
  promise.  `LeaseLeft` (an open run without a lease can still be leased) and
  `AttemptsLeft` (a waiting job has an attempt left) are what `TypeOK` needs.
- *Sums.*  `Sums` proves what sums over finite sets are: taken element by element in any
  order, split, swapped, grouped, moved by one change.  A proof by induction would
  need an operator as a parameter; instead each lemma takes a smallest
  counterexample among the subsets of the finite set
  (`FS_StrictSubsetOrderingWellFounded`), which is why the modules assume finite sets.
- *Allocation loop.*  `LoopInv` is that both cursors stand at the same place
  (`Front = Cursor`) and that each pair of a quote and a grant has what they share before
  that place (`Cut`).  `Meeting` is the fact that makes one assignment per pair enough:
  whenever the loop draws, the quote or the grant begins there.
- *Credit book, rows.*  `BookInv` joins the types, "a grant not issued is untouched",
  "the items of a run are admitted together" and `RowsAddUp`.  Each transaction
  has a lemma about one row (`ReserveRow`, `CloseRow`, `ReverseRow`).  For the
  refinement, a settlement that finds the item closed is a stutter; otherwise it
  is `Spend` or `GiveBack` of the purse.
- *Credit book, sums.*  `Books` adds to `BookInv` what the sums need: each admitted job
  drew its quote (`DrawsQuoted`, which rests on `OverlapSum`: the overlaps of an interval
  with spans laid end to end add up to its length), a grant holds what the open
  items drew from it (`HeldByItems`), the balance is the sum of the grants, and no event is in the
  ledger before it has happened (`LedgerEvents`).  A step moves balance, grants and ledger
  by the same function of the grants.
- *Refunds and disputes, sums.*  `StripeBooks` carries `Books` over every step
  of Stripe's events; a payment that is not known has no grants.  `ExactInv` says for each
  grant that what it misses is what refunds and the dispute of its payment have entered in the
  ledger, where an event enters it once.
- *Refunds and disputes, Stripe.*  `RefundInv` says what each worker has
  read and what an event that is done has left behind.  A refund only ever grows, so a stale reading
  of it does no harm.  `TakenInv` says that outside a block a disputed grant from which
  credits were not given back has nothing available or reserved; it does not speak of what
  workers have read, so it holds for any number of them.
- *Refunds, review.*  `ReviewInv` adds to `UnclearIsReviewed` that the status of a payment
  tells of its unclear refund or dispute, which is what
  `restoreExecutionAfterResolution` looks at.
- *Storage, objects.*  Whoever deletes an object has checked something that stays
  true: `ObjInv` says that the intent of an upload a pass is deleting has
  expired, that an orphan belongs to an ended job and has no asset, and that an
  output with a writer at work has none either; conversely, whatever can still be
  committed has its object.
- *Storage, quota.*  `Within` says what a step may do to the counters; each step that
  adds bytes either asks for them under the limit or takes them from a hold, which
  leaves the total as it is.  `Counted` is only that the counters are integers.
- *Storage, sums.*  `UsageInv` adds `Recorded` (an asset that has a size has its real
  one, an intent that is open was not deleted, a planned job holds nothing) to `ObjInv`.  Each step moves the counters by what it changes in one upload, one
  asset or one job (`Rebooked`); the counters are then natural numbers because
  they are sums of such.  The sum that is inductive, `Balanced`, also counts the bytes of
  stranded uploads; without any it is the sum of the assets.
- *Autosave.*  `AutosaveInv` is `Proper` (the shapes a tab may have at each await)
  with what a tab knows: its baseline is the server's graph at its revision (`Known`),
  only a dirty tab has something to save (`Clean`), a request was made from the present
  baseline (`Pending`) and, once committed, leads from it to the server's graph
  (`Landed`), and what was read under the current revision is current, because the revision is
  read first (`Fetched`).  `SavedIsServer` follows at once.  `OwnInv` adds that whatever nodes
  a diff or a request deletes were touched by that user: a replay never drops a node, so
  a canvas lacks a node of its baseline only where its user deleted it.
- *Subscriptions, types.*  `TypesInv` adds to `TypeOK` that a worker and a request have
  what they read in the states that use it, that an intent they work on exists, and that
  the rows are finite.  The one arithmetic fact is `OrdinalBounds`: an instant is not
  after the end of the month it lies in, so an increment by rest of the month is a number.
- *Subscriptions, months.*  `MonthsInOrder` is not inductive: a pass inserts a month that
  it counted before, for a schedule that may have been replaced since.  `MonthsInv` says
  that there is an anchor for every schedule so far (`A`, a function of the revision) from
  which all its rows and all passes at work on it count, and that a pass has a row
  for every month before its own.  `CountFindsNext` is the heart: if the rows of a schedule
  are the months up to the last, each once, then all months below their number have a row
  (otherwise their ordinals would map them one to one into a smaller set).  A step then
  inserts a row (`InsertKeepsOrder`), writes one again (`ReplaceKeepsOrder`), begins a
  schedule (`NewScheduleKeepsMonths`), or leaves the rows alone.
- *Subscriptions, rows.*  `RowsInv` adds that a grant has the row of its month.  A pass
  inserts an empty row, and appends the grant in a later transaction that checks the
  ceiling again; a change raises the ceiling with its grant.  `MonthWritten` is the
  common step: one row takes the place of the row of its month, and what it counts more
  is a new grant.  It needs that a month has one row, which `MonthsInv` gives.
- *Subscriptions, what Stripe sells.*  `CeilingIsPaid` and `GrantsArePaid` relate months to
  payments, but what keeps them true is at Stripe.  `ServiceInv` says that first: the service
  period is a term of the offer and holds the present (`StripePaces`); no invoice reaches
  beyond it, or into it with more credits than it sells (`InvoicesBelow`), because offers
  with fewer credits wait for the renewal; a change is charged once (`ChangeInvoices`); only
  the last intent is pending (`IntentsShape`); and a change that is not charged yet rises from
  what Stripe sells now (`UnpaidRises`), although it was previewed, confirmed and admitted in
  steps between which the subscription may renew.  `ApiShape` carries that through the
  states of the request.
- *Subscriptions, what payments cover.*  `PaidInv` follows the credits.  A payment is the
  record of an invoice (`PaymentsShape`); a pass about to append has a payment that covers
  its month (`PassPays`); a change that is charged and not applied finds room: neither the row of
  the month of its date nor another invoice has more credits than its target leaves for its
  increment (`ChargesFit`), also when a pass writes that row in between.  With
  them `Covered` is inductive: the two properties, and that no row reaches beyond
  the service period, or into it with a higher ceiling than it sells (`RowsBelow`).  `Applies` is
  the one step of the request and of the webhook that apply a change.  `PaidInv` is inductive
  only with the two guards that section 4 names for longer instances.

`Reserve` needs no guard on its allocations: that they are natural numbers and add up to
the quote is proved.

Only model-checked:

- liveness and everything with ENABLED, which the prover does not support:
  `CreditsSettle`, `CancellationAcknowledged`, `RunEnds`, `EditsReachServer`,
  `DueMonthsGranted`, `PaidChangesApplied`;
- `ReservesAtOnce`, that the admission with its loop implements the single step `Reserve`.

No module with a theorem reaches a RECURSIVE operator.

## 6. What is not modelled

Open in the plan of section 2, because they need a protocol model of their own:
row locks (every module takes a transaction as a step), the checkout, the failed
payments and the cancellations of subscriptions, the gate of a retry and the planning part of admission, the
callback token, the retry budgets and the quarantine of settlement and cost
reconciliation, the upload queue of the console, and the graph algorithms of flow
planning.

Not planned: screens, internationalisation, the UI kit, the generated client,
e-mail, authentication, the model catalog and the cache, which have no protocol of
their own, and the translation of requests in the provider adapters.  They are by
far the largest part of the repository; the map of the models therefore covers a
small share of its lines.

## 7. Running it

    tlc -config EngineSolo.cfg MCRunEngine.tla
    tlc -config ReversalsRace.cfg MCStripeReversals.tla
    tlc -config BrowserTakeover.cfg MCBrowserRuntime.tla
    tlc -config SubscriptionChanges.cfg MCSubscriptionCredits.tla
    tlapm CreditAccountingProofs.tla

PROJECT.json lists the module of every configuration.  On two cores `EngineChain` and
`BrowserTakeover` take about three minutes, `StorageQuota` and `SubscriptionService` two
to three, the others less.
