# A TLA+ model of Price Scout

Price Scout watches product pages. A model-driven browser session compiles a
page into a deterministic plan; scheduled checks replay the plan; a check whose
selectors no longer work triggers one repair; a price condition that two checks
confirm raises an alert, which is delivered to a webhook and to Discord. The
program is a Go control plane (API, scheduler, outbox relay, alert delivery)
over Postgres, a NATS JetStream work queue, a pool of TypeScript workers and a
web console.

The hard part is not any one function. It is that four kinds of process act on
the same rows, at-least-once messages lie between them, and operators interfere
at any moment; and that shops change under the worker's hands while it reads
them. The modules here model that part, TLC checks it on small instances, and
TLAPS proves all safety properties for every instance.

| File | What it is |
| --- | --- |
| `ControlPlane.tla` | monitors, plan generations, executions, repairs, alerts |
| `ControlPlaneProofs.tla` | theorems about `ControlPlane`: types, repairs, generations |
| `LifecycleProofs.tla` | theorems about `ControlPlane`: confirmations, alerts, compiling, schedule, the refinement of `JobContract` |
| `JobContract.tla` | abstract specification: what is promised about a piece of work |
| `ExecutionLineage.tla` | the refinement of `JobContract` by `ControlPlane` |
| `OperatorViews.tla` | what the monitor and review pages derive from the tables |
| `OperatorViewsProofs.tla` | theorems about `OperatorViews` |
| `AlertDelivery.tla` | leased delivery of alerts, reconciliation |
| `AlertDeliveryProofs.tla` | theorems about `AlertDelivery` |
| `WorkQueue.tla` | outbox, JetStream, worker loop, recovery of stale work |
| `WorkQueueProofs.tla` | theorems about `WorkQueue` and the refinement of `JobContract` |
| `WorkerJob.tla` | one job of a worker: deadline, browser sessions, clean-up |
| `WorkerJobProofs.tla` | theorems about `WorkerJob` |
| `PriceText.tla` | price texts and `parsePrice` |
| `Storefront.tla` | the shop: the retailer fixture's endpoints and pages |
| `PlanReplay.tla` | compiling, replaying and repairing a plan on a shop that changes |
| `PlanReplayProofs.tla` | theorems about `PriceText` and `PlanReplay` |
| `Console.tla` | event broker, event stream, and the console's queries and mutations |
| `ConsoleProofs.tla` | theorems about `Console` |
| `MC*.tla`, `*.cfg` | the instances TLC checks |
| `PROJECT.json` | components, runs, definition-to-source map, hazards, theorems |

Run `tlc -config MCControlPlane_repairs.cfg MCControlPlane`, and
`tlapm ControlPlaneProofs.tla`, and so for the other instances and proof
modules.

## 1. Inventory

| Component | State | Operations | Correct when |
| --- | --- | --- | --- |
| Control-plane store (`internal/store`) | tables `monitors`, `monitor_revisions`, `executions`, `repair_attempts`, `observations`, `alerts` | create, confirm, review, pause, resume, enqueue check, claim input, apply result, claim due monitors, sweep stale executions | finished work is final; one repair per generation; plans never go back; no alert without two sightings; nothing drops out of the schedule |
| API (`internal/httpapi`) | none but the store | HTTP handlers for operators and workers, SSE | each handler is one store call, announced after its commit |
| Scheduler (`internal/scheduler`) | ticker | claims due monitors, sweeps stale executions | a monitor is checked once per due time; abandoned work is replaced once |
| Outbox relay (`internal/outbox`, `store/outbox.go`) | unpublished rows | select, publish, mark, commit | nothing lost, whatever fails in a batch |
| JetStream client (`internal/queue`) | stream `SCOUT_WORK` | create stream, publish with a deduplication id | at-least-once; work waits as long as it must |
| Worker queue loop (`worker/src/queue.ts`) | the delivery in hand | pull one, heartbeat, fetch input, run with a deadline, report, ack or nak | every delivery is settled; duplicates are absorbed |
| Worker job execution (`handler.ts`, `browser.ts`) | a browser session | compile, check, repair, abort | a job always settles, no browser is left behind |
| Worker page logic (`compiler.ts`, `extract.ts`, `extractorPolicy.ts`, `validation.ts`) | the plan, the loaded page | compile, click options, extract, parse, validate, heal | what is reported is what the shop offered for the requested variant; nothing fails for nothing |
| Alert delivery (`internal/alertdelivery`, `store/alerts.go`) | `alert_deliveries`, `alerts.delivery_state`, leases | claim, send, complete or fail, reconcile | each delivery ends; the summary tells the truth; a late outcome cannot overwrite a newer one |
| Event broker and SSE (`internal/events`) | subscribers with buffers of 32 | subscribe, publish, cancel | never blocks a publisher |
| Web console (`web/src`) | event source, query cache, the page that is open | connect, invalidate, fetch, poll, mutate, navigate | pages show what they were told of and catch up with what they were not; they offer what the API accepts |
| Retailer fixture (`fixture/src/server.ts`) | version, price, stock | deploy, reset, price, stock, product page | the target of scripted compilation |
| Policies (`MatchesCondition`, `retryDelay`, `parseRetryAfter`, `classifyFailure`, ...) | none | pure functions | agree with their tables at the edges |
| Wiring (`cmd`, `config`, `metrics`) | configuration, counters | | not part of the core |

How they interact. Inserting an execution inserts its outbox row in the same
transaction. Both the `api` and the `scheduler` process run a relay that
publishes outbox rows. A worker pulls a message, which carries only the
execution's id, fetches the input from the internal API (this claims the
execution), and posts the result to it (this applies all consequences in one
transaction). The sweep is the only recovery of a claimed execution, and
redelivery the only one of an execution that was not claimed. An alert is
created in the transaction that applies the confirming result; delivery runners
find it by polling.

What is hard: two transactions whose statements see different snapshots (the
scheduler's `NOT EXISTS`, `refreshAlertState`, the reconciliation's SELECT);
results of executions that were swept meanwhile; repairs racing operator
decisions; processes dying between publish, commit, report and ack; leases that
expire under their holder; time limits on both sides of a queue. PROJECT.json
lists each of these hazards with its source line and the properties aimed at it.

## 2. The modules and the code

### ControlPlane

A variable is a table. `executions` is a sequence, so an execution's id is its
index; `0` stands for NULL. `repairs[m][g]` is the row that is unique per
monitor and failed generation. `alerts` is the set of executions whose
observation raised an alert. A transaction of `monitors.go`, `executions.go` or
`recovery.go` is one action, with everything the transaction writes, because it
locks the rows it depends on first. One transaction does not:
`ClaimDueMonitors` evaluates `NOT EXISTS (in-flight execution)` on the snapshot
of its statement and locks the monitor's row later, when only the columns of
that row are checked again. It is two actions, `SnapshotDue` and `ClaimDue`
(or `SkipDue`), with `claiming` between them; a transaction that writes
`next_run_at` takes the monitor out of `claiming`, as the recheck would.

Batches (claims, sweeps) are modelled row by row: LIMIT and SKIP LOCKED make any
subset of the eligible rows a possible batch. Time is abstracted to
`next_run_at` being null, later or due, and to a sweep that may find any running
execution stale: that includes sweeping an execution whose worker is about to
report. Results are enumerated by what the code distinguishes: success with or
without promotion, the verdict of an observation (`hit`, `miss`, or `none` for
one that needs review), and the classes of failure. `AutoPromote` holds the
values of `autoPromote` that workers send; the shipped worker always sends
`true`, the contract allows both.

### AlertDelivery

Each API process runs one delivery runner. `rows` is `alert_deliveries`,
`summary` is `alerts.delivery_state`, `jobs[r]` the goroutines of runner `r`,
`recon[r]` its open reconciliation. `Owner(r)` is the runner's uuid: the process
and its incarnation. A transaction that ends by recomputing the summary is two
actions, one that fixes the snapshot, one that commits: under READ COMMITTED
others may commit between them. `ReconcileSelects` is separate as well, since
its search for alerts without deliveries precedes the row locks. Rows an open
transaction has written are locked (`Locked`). Supported deployments run one API
replica; two runners are what a rolling restart overlaps and what the
`SKIP LOCKED` leases are written for.

### WorkQueue

`work` is the executions again, now as attempts of jobs; what their results mean
is left to `ControlPlane`. `relay[p]` is the open transaction of a relay, which
publishes its batch one message at a time and commits at the end, or commits
what was sent when one publish fails. The JetStream server is external and
modelled from how the code configures it: work-queue retention, explicit
acknowledgement, `max_ack_pending`, `ack_wait`, unlimited deliveries, a
deduplication window and `MaxAge`. A worker is `idle`, has a message
(`input`), or runs its job (`executing`). `DeliveryFails` covers every error of
a call to the control plane, with and without the call having taken effect,
including a result the API refuses.

### WorkerJob

`executeJob` for one execution, await by await: `pc` is the await it is at, and
an action is the code that runs from one await to the next, since Node runs it
without interruption. `runs` holds the fields of the two `BrowserRun` objects a
job may have, its own and the one in which `validateRepairFresh` replays a
repaired plan. `Abort` is the timer of `executeWithJobTimeout` with the
listeners that are registered at that await. Stagehand is external: a browser
appears at some moment while `init()` is pending, and `close()` ends the
browser that exists then. Page logic (`compiler.ts`, `extract.ts`, `safety.ts`,
`validation.ts`) is reduced to whether it waits for the page or for a model,
and to the kinds of error it may throw; errors classified by their text may have
any class a text can give. Repetitions of page and model steps are a loop.

### JobContract and its two implementations

`JobContract` is what whoever asks for work may rely on: it is tried at most
`MaxAttempts` times, one try at a time, and has one outcome that stays. Two
modules implement it, each under its own refinement mapping.
`ExecutionLineage` maps `ControlPlane`: the executions that replace each other
(`recovery_of`) are the tries of the job that the first of them (`Root`)
started, and must all be at the same work. `WorkQueue` maps its attempts the
same way while messages are published, delivered and answered at least once.
`ExecutionsKeepContract` and `WorkKeepsContract` are `Contract!Spec`, so the two
views of an execution are tied to one promise.

### OperatorViews

State functions of `ControlPlane`'s tables: the candidate that the monitor page
offers for confirmation (`latestCandidate`), whether its panel and its pause
button are there, and what the review page compares a candidate with
(`previous`) and shows as evidence (`candidateExecution`). `getReview` guesses
both from generation numbers and execution kinds; `ReviewShowsItsCandidate`
says that the guess is right.

### PriceText, Storefront, PlanReplay

`PriceText` has numerals as runs of digits with separators (which are named:
`"comma"`, `"dot"`, `"space"`, or `"none"`). `Numeral` is what
`Intl.NumberFormat` and `toFixed` print; `parsePrice` follows the code's regular
expression and its treatment of separators, and has to undo that conversion.
`Storefront` is the fixture: its control endpoints and the page, whose client
script adds surcharges for the selected options while its structured data keeps
describing the preselected variant. Two things go beyond the fixture, because
the live compiler works on any shop: styles of price texts other than the
fixture's, of which `StylesAssumption` asks only that thousands and cents are
separated differently, and a shop that puts another product at the URL
(`relist`, external).

`PlanReplay` runs jobs one navigation at a time (`Goto`); between any two of
them the shop may change. A plan records the layout its selectors are for, the
options it clicks, the elements it reads and the product. `compileFixture`,
`compileLive`, `verifyFresh`, `Check` (`warmCheck`), `repairLive` and
`validateRepairFresh` are the functions of the same names. Answers of the
language model are external: each choice of an option, an element or a price may
be wrong, `MaxWrong` times in a behaviour. `loads` is the history of what a job
has seen, `origin` the page on which the adopted plan was last replayed; both
serve the properties only. Failures of browser and network are left to
`WorkerJob`, the consequences of a result to `ControlPlane`.

### Console

A behaviour follows one query of the console (`watched`), since queries do not
depend on each other. `db.ver` counts the changes of what it shows; `calls` are
handlers that have committed and not yet published. `channel` is the
subscriber's buffer with what is on the wire. `query` has the states of TanStack
Query that matter, modelled from how `queries.ts` and `main.tsx` configure it:
data, a request that is sent, read by the API or failing, one retry, and
invalidation, which restarts a refetch but not a first load. `told` is the
newest change the query heard of and `missed` whether it may have missed one;
both serve the properties only.

### Faults

`AlertDelivery` and `WorkQueue` count faults: a process death, a reply that is
lost, a database or publish error, a holder that stalls beyond its lease or
`ack_wait`. Everything else is the normal operation of the code. The bound
`MaxFaults` makes the state space finite, lets liveness be stated (faults are
finitely many) and lets properties say how much a fault may cost
(`RetriesBoundedByFaults`, `RedundantWorkNeedsFaults`). `ControlPlane` needs no
counter, since sweeps and late results are always possible there.

### Definitions marked "Faulty variant"

Each is a plausible mistake in the definition after it (a dropped guard, a lost
hand-over, an unchecked owner). They are not part of the specification; each
property is known to fail when the variant listed with it under `mutants` in
PROJECT.json takes the place of the real definition.

## 3. What TLC checks

| Run | Instance | Properties | Shows |
| --- | --- | --- | --- |
| `repairs` | 1 monitor, 2 attempts, 5 executions, 3 generations, either `autoPromote` | `TypeOK`, `RepairLease`, `PromotionNeverStale`, `CompilingHasWork`, `ActiveIsScheduled`, `ExecutionsRunKnownPlans`, `NoDeadEnd`, `ReviewShowsItsCandidate`, `GenerationNeverRegresses`, `TerminalIsFinal`, `ExecutionsKeepContract` | a repair attempt is the lease of its generation across retries, sweeps and late results; the base of a live repair stays current; executions implement the job contract and run adopted plans only; an active monitor keeps a next run; the console's monitor page is never a dead end, and its review page compares and shows the right things |
| `alerts` | 1 monitor, 2 attempts, 6 executions, 1 generation | `OneLiveConfirmation`, `AlertsAreConfirmed`, `OneAlertPerSighting` | alerts rest on two matching checks of one revision, once per sighting |
| `delivery_safety` | 1 alert, 2 channels, 2 runners that share their channels or have none, 2 attempts, 2 faults | `TypeOK`, `DeliveredWasAccepted`, `OutcomeIsOfLatestClaim`, `RetriesBoundedByFaults`, `SummaryNeverPremature`, `OverIsOver` | the owner uuid fences late outcomes; each fault costs at most one attempt; a final `delivery_state` is never too early, and finished deliveries are final |
| `delivery_liveness` | 1 runner with any configuration, 2 faults, fair | `DeliveriesEnd`, `SummarySettles` | every delivery ends; a stale summary is corrected and stays right |
| `queue_safety` | 2 jobs, 2 workers, 2 relays, 2 attempts, 1 fault | `TypeOK`, `UnfinishedIsDeliverable`, `OneOutcomePerJob`, `RedundantWorkNeedsFaults` | no work is lost, a job has one outcome, nothing runs twice without a fault |
| `queue_liveness` | 1 job, 2 workers, 1 relay, 1 message in flight, 2 faults, messages may expire, fair | `JobsEnd`, `QueueDrains`, `RunningEnds`, `WorkKeepsContract` | work ends unless the stream dropped the message of a queued execution; a claimed execution always ends; at-least-once delivery implements the job contract |
| `worker_job` | one job of any kind, fair | `NothingLeftBehind`, `RepairsAreReplayed`, `DeadlineIsNotStale`, `JobSettles` | wherever the deadline strikes, browsers and caches are gone when the job returns, and the job is reported as a transient failure unless its work was complete; a successful repair was replayed in a second session; every job settles |
| `replay` | 4 requests, 8 styles, 4 prices, 3 changes of the shop, 1 wrong answer | `ObservationIsGenuine`, `QuietShopSucceeds`, `RepairIsReproduced` | a successful job reports price, stock and product that the shop offered for the requested variant at a moment it was loaded; a job fails only for a reason; a repair shows on its last page what it was adopted with |
| `console` | buffer of 1, 1 change nobody waits for, 1 visit, 1 fault, fair | `ToldIsShown`, `PolledPagesCatchUp`, `MonitorPageFollows` | old answers never outlive an event or an own request; polled pages catch up whatever was lost; the monitor page follows what is announced |

Why the bounds are enough. Five executions hold a compilation, a check that goes
stale, its repair, the repair's replacement and a second check; three
generations let an old generation's stale check, review or repair meet two newer
ones. Six executions hold two complete sightings (check and confirmation twice)
after the compilation, or one whose confirmation is swept and replaced. When the
table is full (`MaxExecutions`) transactions that would insert are disabled,
which only cuts behaviours short. Rows of different monitors never refer to each
other, so one monitor exhibits what the runs ask; the theorems hold for any
number. In `AlertDelivery` one alert with two channels is what the summary
aggregates; two attempts separate "retry" from "last attempt"; the fault makes
leases expire under their holders, replies get lost and runners restart with
another configuration. In `WorkQueue` two of everything make each race possible;
a job's second attempt is its last. In `PlanReplay` three changes are a redesign,
a new price and another product, in any order and at any navigation; the prices
are the initial one, one that gains a fourth digit with a surcharge, the largest
the fixture takes, and two it refuses; the requests are none, one attribute, two
attributes, and one the shop does not have. In `Console` a buffer of one is full
after one event, so a second one is lost; the one fault is a failed request, a
broken stream or an API crash at any moment, and the one visit leaves a page or
comes back to it while a request is under way. `ClaimBatch` is the code's 8. Runners,
channels, jobs, workers and relays are interchangeable, so the safety runs use
their symmetry; liveness runs do not. `WorkQueue` stops when its finitely many
jobs are done, so deadlock is not checked there, and
neither for `WorkerJob`, whose job ends, nor for `Console`, where the operator
may leave everything as it is. `WorkerJob` has no bounds: the run
covers every state of a job, and jobs share nothing. `ControlPlane` and
`AlertDelivery` never stop and are checked for it.

### Fairness

`AlertDelivery!FairSpec`: the clock advances (`next_attempt_at` passes, a lease
nobody works under expires); a live runner's loop goes on (weak fairness of its
steps: requests have a timeout, transactions end); and the reconciliation ticker
is chosen infinitely often when the loop comes round (strong fairness: Go's
`select` picks among ready channels at random, and both tickers fire forever).
Faults and new alerts are not fair.

`WorkQueue!FairSpec`: relays tick forever, workers pull and come back with a
result (`executeWithJobTimeout` bounds a job), JetStream redelivers what no
worker holds after `ack_wait` or the nak's delay, and the sweep finds what no
worker works on. `config.go` requires the stale timeout to be at least three
minutes and the worker's job budget defaults to two, which is why sweeping an
execution that is still worked on counts as a fault. That a job comes back is
what `WorkerJob` checks as `JobSettles`.

`WorkerJob!FairSpec`: the deadline's timer fires, DNS and file operations end,
`close()` ends, a session that is being closed settles its `init()`, operations
of a closed browser fail, and a model call answers or times out. The last is
needed separately: `generateObject` is not given the abort signal, so a model
call outlives the deadline and the job settles only after it. Nothing else of
Stagehand is assumed to end: a launch, a page or evidence may hang until the
deadline closes the session.

`Console!FairSpec`: the API answers or the request fails, what was committed is
published unless the process dies, a dead process is started again, EventSource
reports what happens to its stream, timers (reconnection, polling) fire, and
executions end, as `WorkQueue` shows. Nothing is assumed of the operator or of
other changes.

### Where documents and code disagree

| Run | Statement | What the code does |
| --- | --- | --- |
| `single_in_flight` | `docs/architecture.md:26` "Scheduler and API rules serialize normal executions for each monitor." | `SnapshotDue` sees no execution in flight, `EnqueueCheck` inserts one and commits (it locks the monitor's row without changing it), `ClaimDue` gets the lock, finds the row unchanged and inserts a second. No property of the passing runs depends on there being only one. |
| `queue_max_age` | `docs/architecture.md:41` "Queued work is never expired by age" | the stream's `MaxAge` of seven days drops the message of an execution that is still queued; its outbox row is marked published and the sweep looks only at running executions. |
| `identity_kept` | `README.md:290` identity drift is "sent for review instead of silently alerting" | a check of another product is sent for review, but if the page was redesigned as well, the repair cannot replay the old plan and `repairLive` compiles the page anew; `compileLive` takes the identity from the page, nothing compares it with the old plan's, and the worker asks for promotion. |

More observations the runs made precise. A repair that succeeds after the
operator paused the monitor makes it active again (`applyPlanResult` does not
look at the status). Attempts of a delivery are counted by the claim and
compared only when a failure is recorded, so each crash may cost one attempt
beyond the maximum (`RetriesBoundedByFaults` says at most one). A monitor page
whose event was lost, while the stream was reconnecting or because the change
was not announced, stays stale until the next event or visit: it is not polled,
and nothing is fetched after a reconnection. The same happens to an event that
arrives during the page's first load. `SummaryNeverPremature` fails when
two runners have *different* channels: both may backfill one alert, and an
outcome computed before the second backfill commits calls the alert delivered
while the other channel is pending. The next reconciliation repairs it.
The one cross-check of a live compile, between the
price the model reads and the one the chosen element shows, cannot tell the
price from another number on the page that happens to be the same: for a
product at 40.00 whose silver variant costs 60.00, the battery's 60 hours pass as
the price, and checks go on reporting 60.00 after the price has changed. `ObservationIsGenuine` is therefore proved for shops in
which that does not happen (`NoCoincidence`). `ActiveIsScheduled` has one exception: rejecting a repair candidate makes a
monitor active without giving it a next run. The shipped worker leaves no
candidates to reject.

## 4. What is proved

Eight modules hold theorems. They hold for every value of the constants that
the named assumptions allow: at least one attempt, message in flight, delivery
in a batch and event in a buffer; bounds and fault budgets that are natural
numbers; Booleans and configurations of the right type. No set of monitors,
alerts, channels, runners, jobs, workers, relays, prices, styles or requests
needs to be finite. Four theorems have a further hypothesis, given below with
the reason.

| Module | Theorem | Statement |
| --- | --- | --- |
| `ControlPlaneProofs` | `TypeCorrect` | `Spec => []TypeOK` |
| | `RepairsConsistent` | `Spec => []RepairInv` |
| | `RepairLeaseHolds` | `Spec => []RepairLease` |
| | `PromotionNeverStaleHolds` | `Spec => []PromotionNeverStale` |
| | `KnownPlansOnly` | `Spec => []ExecutionsRunKnownPlans` |
| | `GenerationMonotone` | `Spec => GenerationNeverRegresses` |
| | `FinishedForGood` | `Spec => TerminalIsFinal` |
| `LifecycleProofs` | `ConfirmationsConsistent` | `Spec => []ConfirmationInv` |
| | `ConfirmationsAreSerial` | `Spec => []OneLiveConfirmation` |
| | `AlertsRestOnTwoSightings` | `Spec => []AlertsAreConfirmed` |
| | `SightingAlertsOnce` | `Spec => []OneAlertPerSighting` |
| | `CompilingIsWorkedOn` | `Spec => []CompilingHasWork` |
| | `ActiveMonitorsAreScheduled` | `Spec => []ActiveIsScheduled` |
| | `ExecutionsAreOneJob` | `Spec => ExecutionsKeepContract` (refinement) |
| `OperatorViewsProofs` | `MonitorPageHasAWayOn` | `Spec => []NoDeadEnd` |
| | `ReviewIsTruthful` | `Spec => []ReviewShowsItsCandidate` |
| `AlertDeliveryProofs` | `DeliveryTyped` | `Spec => []TypeOK` |
| | `FenceHolds`, `LocksHold` | `Spec => []FenceInv`, `Spec => []LockInv` |
| | `OwnerIsAFence` | `Spec => []OutcomeIsOfLatestClaim` |
| | `DeliveredIsAccepted` | `Spec => []DeliveredWasAccepted` |
| | `FinishedDeliveriesStay` | `Spec => OverIsOver` |
| | `RetriesArePaidFor` | `Spec => []RetriesBoundedByFaults` |
| | `SummaryIsNotPremature` | `Uniform(C)` implies `Spec => []SummaryNeverPremature` |
| `WorkQueueProofs` | `QueueTypes` | `Spec => []TypeOK` |
| | `OutcomeIsUnique` | `Spec => []OneOutcomePerJob` |
| | `NeverLost`, `RelaysApart` | `Spec => []NotLost`, `Spec => []RelayInv` |
| | `UnfinishedWorkIsDeliverable` | `~MayExpire` implies `Spec => []UnfinishedIsDeliverable` |
| | `WorkIsBoundedByFaults` | `Spec => []TokensBounded` |
| | `RedundantWorkIsFaulty` | `Spec => []RedundantWorkNeedsFaults` |
| | `QueueKeepsContract` | `Spec => WorkKeepsContract` (refinement) |
| `WorkerJobProofs` | `JobConsistent` | `Spec => []JobInv` |
| | `NothingIsLeftBehind` | `Spec => []NothingLeftBehind` |
| | `OnlyReplayedRepairs` | `Spec => []RepairsAreReplayed` |
| | `DeadlineReportedAsSuch` | `Spec => DeadlineIsNotStale` |
| `ConsoleProofs` | `ToldChangesAreShown` | `Spec => []ToldIsShown` |
| `PlanReplayProofs` | `ParsesBack` | `parsePrice(money(minor, s)) = minor`, or it refuses |
| | `ReplayInvariant` | `Spec => []ReplayInv` |
| | `ObservationsAreGenuine` | `NoCoincidence` implies `Spec => [](wrongs <= 1 => ObservationIsGenuine)` |
| | `RepairsAreReproduced` | `NoCoincidence` implies `Spec => [](wrongs <= 1 => RepairIsReproduced)` |
| | `QuietShopsSucceed` | `Spec => []QuietShopSucceeds` |

Hardly any of these properties is inductive as it stands. What follows is, for
each, the fact about the code that makes it true.

### Repairs and generations (`ControlPlaneProofs`)

Why should a repair's base still be current when it succeeds? Because the
current generation changes only to one that waits for review or is appended by
a plan result; what waits for review is always the newest generation and newer
than the current one (`PendingIsNewest`); a generation is appended only by a
compilation, of which there is one, before any generation exists
(`OneLiveCompile`), or by a repair; and every generation but the newest has a
finished repair attempt (`RepairRows`), so the only repair that can be live is
that of the newest one, by whose success alone the next is appended. A check may
run with an old generation, but its repair row is already taken. The rest says
that the tables refer to each other properly: the current generation exists
(`CurrentExists`), executions run generations that are or were current
(`ExecutionsRunKnownPlans`), and a live repair is named by its row
(`LiveRepairHoldsRow`), across the hand-over to replacements. `RepairInv` is the
conjunction, with `TypeOK`. `GenerationMonotone` follows from `PendingIsNewest`
and `PromotionNeverStale`; `FinishedForGood` needs only `TypeOK` and the guards.

### Confirmations, alerts and the schedule (`LifecycleProofs`)

What a transaction may do to the executions table is proved once, for all of
them, as the step predicate `Evolves`: finished rows stay, at most one row is
added, and it begins something new, continues an execution that fails in the
same transaction (`Continues`), or confirms what an ordinary check reports in it
while no confirmation is pending (`Confirms`). `ConfirmationInv` is kept by any
such step: every confirmation was asked for by a check of the same plan that
matched, all attempts at it but one have failed, and alerts are confirmations
that matched. The three alert properties follow.

`MonitorEvolves` does the same for a monitor's status and schedule.
`CompilingHasWork` is inductive with the types. `ActiveIsScheduled` needs to know
where candidates come from (`PlansInv`): once there is a plan, what waits for
review was made by a repair and has its row (`CandidatesHaveRows`), so a rejection
that leaves a monitor active without a next run leaves the rejected row that the
property allows for, and such a row never changes again (`RejectedForGood`).

### Executions as jobs (`LifecycleProofs`)

The refinement mapping collects the executions with the same `Root`, which is
defined by recursion along `recovery_of`. An induction over the table is beyond
the provers, so that the recursion has exactly one solution is an invariant
(`RootOK`) instead: with an empty table there is one, and a new row extends the
one there is by a single value, because its parent is already in the table. With
it, `LineageInv` says that the tries of a job are at the same work and all but
one have failed (`OneTryStands`), and that the one which has not is numbered by
how many there are (`AttemptsCountTries`), which is how the bound on `attempt`
becomes the contract's bound on tries. `Described` evaluates `JobOf` in each
case; `ContractStep` shows that every step is, for every job, a step the contract
allows or none.

### Pages (`OperatorViewsProofs`)

The confirmation panel works because a monitor awaits confirmation only of its
first and only generation (`FirstPlansAwait`), and because with `CompilingInv` a
monitor that has a plan is never compiling. The review page guesses what a
candidate is compared with and which execution made it. The guess is right
because what waits for review follows the current generation immediately
(`PendingFollows`), the candidate of the repair of generation `h` is `h + 1`
(`CandidateRows`), each successful repair is named by a row (`SucceededRows`), and
generations are repaired in the order of the executions (`RowsAscend`), so the
newest successful repair is the candidate's.

### Alert delivery (`AlertDeliveryProofs`)

The owner is the uuid of a process, not of a claim. It is a fence all the same,
since a runner claims only when it has no delivery left (`IdleHasNoJobs`).
`OverIsOver` rests on row locks (`LockInv`): an open transaction that records an
outcome still holds its lease, what a reconciliation closes is still open, and no
row is written by two. `RetryInv` pays for each claim beyond the limit with a
fault: a pending delivery has attempts left, and a leased one without a working
holder, or with an expired lease, has a fault to its account already.
`SummaryInv` says that a final verdict, shown or about to be committed, is the
verdict over the rows as they are now with the transaction's own updates applied.
It needs that an alert's rows come into being together (`RowsTogether`), hence
`Uniform(C)`: every process has the channels `C` or none. Without it the property
is false (section 3, "More observations").

### The work queue (`WorkQueueProofs`)

`OneOutcomePerJob` is inductive with the types. `NotLost` lists everyone who
relies on JetStream having a message: the commit that marks a row published, the
transaction that has sent it, and the deduplication window that will swallow the
next copy. Each is right as long as a message is given up only for a finished
execution or by age. `UnfinishedIsDeliverable` is this without expiry, hence
`~MayExpire`; with it the property is what the run `queue_max_age` refutes.
`RedundantWorkNeedsFaults` is proved by counting `Tokens`, what may still lead to
a try of the job: workers at it, messages that can be delivered, rows not yet
sent. `Accounted` shows that each step takes tokens away, exchanges one, adds one
with a fault, or starts a job that has none. The refinement reduces each
step to one of four on the table (`TableStep`), and these to steps of the
contract, with `AttemptsCount` and `Described` as above.

### The worker's job (`WorkerJobProofs`)

`RunOK` says what `closeOnce` has achieved at each of its awaits: behind the wait
for `init()` no browser can appear, behind the second `close()` none is left, at
the end the cache is gone. `PlacesOK` says which sessions exist and how far they
are closed at each await of the job, so at `settled` both are closed completely.
`ReplayOK` carries the fact of the replay from `fresh_close` to the result.
`DeadlineIsNotStale` follows from the classification and from `PlacesOK`: before
the finally block only the deadline closes the job's session.

### The console (`ConsoleProofs`)

`ToldInv`: nobody is told of a change that is not in the database
(`ChangesAreCommitted`), so what is read after an event includes it; a response
on its way was read after everything told by then, cached data that is not marked
invalid is as new, and a query that is on screen and at rest is not marked
(`QueryOK`).

### Page replay (`PlanReplayProofs`)

`ParsesBack` is the fact about texts: an amount below ten million units, which
is more than the fixture takes, comes back from `parsePrice` as it was written,
whatever separates its thousands and cents and whether or not it shows cents
that are zero; an element that also shows a former price, or says "from", is
refused. A numeral of such an amount has at most three groups, so the proof
needs no induction over data: `WholeRuns` says what the groups are,
`NumeralIsOneMatch` that the expression takes all of them, `NumeralFraction`
that a last run is taken for cents just when it is, since a group has three
digits and cents have two, and `JoinedGroups` evaluates the digits.

`Replays` lists how the replay of a plan can end. From it come two lemmas on any
page: `ReplayIsGenuine`, that a replay which succeeds reports the page's price
for the requested variant if the price's element was chosen well and either the
labels show what is selected or the right options are clicked (`Tells`); and
`QuietReplay`, that a plan without a wrong answer in it succeeds on a layout that
it can read, with exactly the report `Report(s)`. `ReplayFits` adds that a
success shows which layout the plan is for. `JsonLdIsEnough` is why structured
data, which describes the preselected variant, does no harm: it replaces a
price only if no variant is asked for.

`ReplayInv` carries this from one browser to the next. An adopted plan and the
one under way are `PlanGood`: with one wrong answer so far, the price's element
is right, and labels that say nothing have cost that answer, so the options are
right and stay right when a repair replaces them; with none, the plan is as
asked. A job that waits for another replay has a report that is `Good` for a
page it has loaded. The job's actions are first reduced to their `Outcome` (a
failure with an excuse, another replay, a new compile, a result), one lemma for
each, and `OutcomeKeeps` shows that an outcome preserves the invariant. Two
hypotheses are needed for what is reported, not for `QuietShopsSucceed`. `wrongs
<= 1`: two wrong answers agree with each other, when the wrong element is chosen
and its number is taken for the price. `NoCoincidence`: no price with surcharges
is the other number on the page (section 3, "More observations"); the instance
of `replay` satisfies it.

### How the proofs are built

Each inductive invariant was also checked by TLC, on the instances of section 3. A
proof that steps preserve it has one step per action or group of actions and
below it one per conjunct; facts about row updates, which all of them need, are
lemmas at the head of each module.

Only model-checked:
- liveness (`DeliveriesEnd`, `SummarySettles`, `JobsEnd`, `QueueDrains`,
  `RunningEnds`, `JobSettles`, `PolledPagesCatchUp`, `MonitorPageFollows`): fairness and
  ENABLED are beyond the proof system;
- the three statements that runs refute.

## 5. Not modelled

- Validation, authentication, rate limits, CORS, artifacts and static files of
  the API; idempotency keys (a repeated key returns the existing row; the race
  of two first uses ends in a UNIQUE violation).
- Of pages: titles and SKUs are one value per product, availability is its
  meaning (a text such as "not available", which `parseAvailability` reads as in
  stock, does not occur), prices have two decimals, and a selector of another
  layout finds nothing rather than another element. The rules of `safety.ts` on
  network addresses and forbidden words; prompts.
- Contents of conditions, evidence and notifications; wall-clock values; the
  numbers in retry delays. The pure functions `MatchesCondition`,
  `validateResult`, `retryDelay`, `parseRetryAfter` and the regular expressions
  of `classifyFailure` are decision tables of a single call with unit tests;
  their verdicts are inputs of the models.
- A changed condition does not re-arm `condition_matched`: conditions are
  abstracted to their verdict.
- Malformed queue messages, which the outbox cannot produce; creation of stream
  and durable consumer, which ends before any work; metrics and logs.
- The console's review and operations queries: the first is never invalidated,
  and the API refuses a decision that comes too late; the second is polled.

## 6. Plan

Done: `ControlPlane`, `AlertDelivery`, `WorkQueue`, `WorkerJob`, the contract and
its two refinements, the console and the page logic; the proofs of section 4.

Left: liveness stays with TLC. Of the hazards in PROJECT.json two have no
property; conditions with values, and a browser that crashes during the target
check, would cover them.
