# A TLA+ model of the RO-INTEL engine

RO-INTEL (`src/romania-intel-engine`) is one FastAPI process on a small host in
front of a Supabase Postgres. It polls some 26 Romanian procurement sources,
scores what they publish, tells its users about new opportunities by Telegram,
e-mail and Web Push, keeps their accounts and deal pipelines, and extracts text
from tender documents in the background. This directory holds TLA+ modules of
its core, TLC configurations that check them on small instances, and TLAPS
proofs. `PROJECT.json` names, for every definition, the source lines it models.

## 1. Inventory

| Part | State it keeps | Operations | Interacts with |
|---|---|---|---|
| Document worker (`workers/document_tasks.py`, `document_extractions.py`, the upload route of `api.py`) | byte counter, two queues, two semaphores, a thread pool, in memory; `document_extractions` rows | enqueue, consume, run, time out, record, reject, start, stop | upload route, pool threads, database |
| Ingestion scheduling (`scrapers/orchestrator.py`, tick routes of `api.py`) | tasks of the running tick; `source_run_log`, `system_ticks` | heartbeat, start tick, answers, deadline, finish | heartbeat workflow, circuit breaker, scrapers |
| Circuit breaker and staleness watchdog (`scrapers/circuit_breaker.py`, `db.py`) | failures, circuit, zero streak, mark, per source | is_open, record_result | run_tick, admin alerts |
| Leads and alerts (`run_tick`, `notifier.py`, `push_notifications.py`) | `opportunities`, `alert_dispatch_log`, `push_dispatch_log` | batch upsert, check, send, record | run_tick, transports, accounts |
| Accounts (`db.py`, `api.py`) | `user_profiles` and everything that references it | sync, onboarding, edits, erasure | Supabase Auth, feed cache, alerts |
| Billing (`billing.py`, `routers/billing.py`) | subscription columns of `user_profiles` | checkout, webhook | Stripe, accounts |
| Deal pipeline (`workflow_engine.py`) | `saved_deals`, `deal_stage_history`, an in-memory fallback | add, move, remove | accounts |
| Push devices (`push_notifications.py`, `routers/notifications.py`) | `push_subscriptions` | register, take over, remove, prune | run_tick, browsers |
| Feed and cache (`api.py`, `cache_engine.py`) | a TTL cache in memory | load, invalidate, purge | accounts, opportunities |
| Database access (`db.py`) | the pool, schema-guard flags | with_connection, reset, ensure_schema | everything |
| Rate limits (`security.py`, `scrapers/rate_limiter.py`) | windows per address, last call per domain | enforce, clean up | all routes, scrapers |
| Scrapers (`scrapers/`, `scrapers/matrix/`) | the page cache of the CNI register | fetch a listing, fan out over the counties | public portals, run_tick |
| Refinery and matching (`refinery.py`, `matching_engine.py`, the ranking query of `db.py`) | a folded text per row | refine, evaluate, rank | run_tick, feed |
| Award statistics (`procurement_notices.py`) | `procurement_notices` | upsert, aggregate | SEAP scrapers, routes |
| Copilot, support chat, drafting (`ai_copilot.py`, `routers/support.py`, `addons/`) | none that outlives a call | ask the providers in turn, fall back | model providers, routes |

**Hard behaviours.** Every `await` is a point where other coroutines run.
A deadline abandons an await, not the thread behind it. Most effects are
several database calls, any of which may find no database (`with_connection()`
yields `None` and the call is skipped) or raise, with or without its effect.
The host restarts the process at will; queues and snapshots are lost, rows stay.
Requests of one person interleave statement by statement. Sources, transports,
Supabase and Stripe fail, repeat and reorder.

**What makes each part correct.** The worker: memory stays within the budget,
each document concludes once. Scheduling: load is bounded, nobody starves, a
healthy source is not shut out, an operator is told once. Alerts: told once, log
truthful, nobody forgotten. Accounts: one profile per person, onboarded once,
under the cap, and never lost. Billing: the last event wins and none is lost.
Deals: one per opportunity, with a history that explains its stage. Devices: a
telephone hears what its present user asked for. Cache: never older than what
the user just saved. Pool: one at a time, and one rebuild is enough. Ticks: one
at a time, with an honest record. Scrapers: what stayed listed is fetched, and
one portal's silence costs no other its answer. Relevance: what alerts also
ranks. Awards: figures rest on what SEAP published. Assistant: a substitute
answers only where no model did in time.

## 2. Modules

### `DocumentLifecycle`, `DocumentWorker`
`DocumentLifecycle` is the abstract promise of `document_extractions.py`: a row
goes queued → processing → done or failed, only the coroutine that owns the
document writes it, at most one verdict is recorded, and a row nobody owns never
changes again.

`DocumentWorker` is the pipeline. `phase[d]` is the await the coroutine owning
`d` is at; `resident` is `_resident_bytes`; `queue[r]` are the two asyncio
queues; `waiters[r]` are the tasks the consumers spawned, in the semaphore's
FIFO order; `pending` and `running` are the pool's work items, waiting and
occupying a thread. `Upload` is the route, whose INSERT of the row may be skipped
or raise, before or after it took effect; `Admit`/`Refuse` are `enqueue()` up
to its first await, `Route`/`RouteQueueFull` what follows; `Consume` and
`Acquire` the consumer loop and the semaphore; `BeginPipeline`, `NextJob`,
`PipelineEnds`, `Timeout` and `SaveResult` are `_execute()`; `DetachedEnds` is
the thread of an abandoned job at its next `token.check()`; `SaveRejection` is
`_reject()`; `ProcessEnds`/`ProcessStarts` are `stop()`, a kill, and `start()`.
Text extraction is a job that ends well or badly.

### `SourceSchedule`
Which sources a tick runs. A row of `source_run_log` is kept as ages and
saturating counters. `StartTick` is the set-up of `run_tick` (circuits, due,
rank, admit); `StartTickBlind` the same when there is no database for some of its
calls (the read of the last runs, the read of a circuit, a half-opening, each on
its own), `StartTickRaises` with a query that raises. `Fails` and `Succeeds` are the answer of one scraper
with the up to three calls `record_result` makes: `CallsUpTo` enumerates which of
them took effect and after which one an exception ended the rest.
`DeadlinePasses` cancels what is still running. Ticks are sequential, as
`_tick_lock` makes them.

### `LeadAlerts`
From a fetched batch to the users. `todo` is what the loop of `run_tick` has
left: the notices `<<lead, user, channel>>` in the loop's order, each passing
check, send and record. `AfterException` is the shape of the two `try` blocks.
`Referable` is the foreign key of `alert_dispatch_log`: the alert of a lead whose
upsert was skipped is sent and cannot be recorded (`push_dispatch_log` has no
such key). One skipped upsert may therefore repeat an alert for every copy of the
lead in its batch (`MaxCopies`, `Cost`) and again on the next tick.
Which notices score and policy call for is the constant `Wanted`.

### `UserAccounts`
Sync, onboarding and erasure, one action per SQL statement, over the constraints
of `schema.sql`: primary key, unique e-mail, reference to `auth.users`, cascading
references from four tables with no `ON UPDATE`. The advisory locks are the
guards `EmailLockFree` and `UidLockFree`. Each transaction's only write is its
last statement, so the write stands for the commit. A token may carry the e-mail
of before a change. `answer`, `provisioned`, `overtaken` and `signedUp` are
history variables: `provisioned` belongs to the row and goes with it when an
adoption re-points it (`CarriedOver`), and `overtaken` holds the onboardings that
had passed their gate by then, whose upsert onboards the adopted row once more.

### `Subscriptions`
`stripe[s]` is Stripe's own view of a subscription and `outbox` the events it
has not seen acknowledged: one per change, delivered in any order, several at a
time (`Hooks`), and again while unacknowledged. `Checkout` stores the customer;
`Pay`, `Renew`, `PaymentFails` and `Cancel` are Stripe's. The webhook is two
awaits: `Deliver` (the metadata or the customer lookup resolve the account) and
`Write` (`update_subscription_state` with its COALESCEs, `Updated`);
`WriteRaises` is the 500, `AcknowledgeUnwritten` the call that found no database
and is answered 200. `disorder` and `dropped` remember what the property excuses.

### `DealPipeline`
The rows of `saved_deals` and `deal_stage_history` beside the in-memory list
that takes over when a call is skipped or refused. `BeginAdd`/`Insert` are the
duplicate check and the insert; a connection that breaks after the commit leaves
the deal in both stores. `Remove` is the delete with its fallback;
`BeginMove`/`UpdateRow`/`RecordTransition` the three calls of a move; `Restart`
empties the memory.

### `PushRegistry`
`rows` are the registrations, `holder[d]` who last subscribed the device. A
sender (the tick, the test button) copies rows and preferences once
(`BeginTick`, `BeginTest`), decides a push per lead (`Decide`, `Notify`) and
walks the copy: `Send`, then `Settle`, which prunes what the push service gave
up. Subscribing, unsubscribing and preferences go on meanwhile.

### `FeedCache`
A request that misses (`Miss`), reads the profile, ranks and stores (`Fill`), or
degrades without a database; `Save` commits and `Saved` invalidates, in two
steps. `Put` sweeps as the code does; `Pass` is time, in fractions of a lifetime.

### `DbPool`
`with_connection()` await by await: `GetPool`, the build lock and its second look
(`EnterBuild`), `Built`/`BuildFails` with the cooldown, `Acquire`/`AcquireFails`,
and `_reset_pool` (`EnterReset`, `Closed`) once per call. Pools go stale, the
server comes and goes, calls are cancelled at any await. A stale pool may raise,
lend a live connection or lend a dead one (`MayBeDead`); the retry is over
`acquire()` only, so the query on a dead connection fails and rebuilds nothing
(`QueryFails`). `call[c].alone` says
that nothing happened beside the attempt, which is what `RetryIsEnough` speaks of.

### `TickControl`
The frame of a tick around the sources of `SourceSchedule` and the batches of
`LeadAlerts`: the heartbeat's look at the lock and its dispatch, `start_tick`,
the set-up, `Collect`/`Persist` per source, both deadlines, the freshness
watchdog (`Watch`), `finish_tick`, a restart anywhere. `row` is the row of
`system_ticks` with what it does not say.

### `ListingFetch`, `CountyFanOut`, `Announcements`
`ListingFetch` is one fetch of a listing that changes under the walk: something
is published anywhere on it, withdrawn, or two announcements change places, since
SEAP returns its items in no order (`direct_acquisition_scraper.py` 227). The
scrapers differ in a few decisions (how many pages, how much of the listing a
request is answered with, what ends the walk, what an unreadable page or row
costs), which are the fields of a rule; each scraper is one rule, and the
behaviour picks one. `fetch.causes` are the reasons the model notes for a gap in
the answer: an unread page, a malformed row, a withdrawal, a page without news, a
listing or a post type that goes on behind the window (Ploiesti reads the newest
25 of each of two types, `PostType`, `Clipped`), and an unread row that moved
onto a page already read.
`CountyFanOut` is the source that asks every county's portal: slots, a budget
per county that starts with its turn, two extractions each, and what the gather
keeps. `Announcements` is the identity Galati's notices are given: `SourceId`
mixes in what the process's `hash()` does.

### `Relevance`, `Awards`, `Assistant`
`Relevance` sets the matcher's judgement of a lead (`Alerts`) beside the feed's
(`Feed`, `Badge`, with the weights of the query), over sets of terms; rows are
kept in the order of `last_seen_at`, and a lead that is scraped again overwrites
its row, text and blob included (`Upserted`). `Awards` is the upsert of direct purchases
and award notices, whose fingerprint decides what counts as the same, and the
three aggregates of the statistics. `Assistant` is `complete_chat` and its
callers: which provider answers, what each attempt costs of the deadline, how
much of the history is kept and what stands in. Any ending of a call, a refusal
or an empty completion too, may take any part of the client's timeout, or more,
as httpx counts it per phase (`Lasts`).

### How the modules compose
`DocumentLifecycle` is implemented by `DocumentWorker`. `TickControl` is the
frame in which `SourceSchedule` picks the sources and `LeadAlerts` treats their
batches; `Relevance` and `PushRegistry` decide what `LeadAlerts` takes as
`Wanted`; `ListingFetch` and `CountyFanOut` are what an answer in
`SourceSchedule` stands for. They are checked apart, each with the others'
possible answers as nondeterministic choices: the interfaces are single values
(an answer, a set of wanted notices), not shared state.

### Instances
`MCDocumentWorker`, `MCSourceSchedule`, `MCLeadAlerts`, `MCUserAccounts` and
`MCAnnouncements` give the constants of the runs. `MCServices` is the disjoint
sum of the instances of eleven modules (`INSTANCE ... WITH`): a behaviour chooses
a part at the start and takes its steps, and the variables of the others hold
`None`. Those parts share no state, so a product of them would only multiply the
states; a property of the sum says the property of each of its instances.

### Proofs
| Module | Theorems about |
|---|---|
| `DocumentWorkerProofs` | `DocumentWorker` and its refinement of `DocumentLifecycle` |
| `SourceScheduleProofs` | `SourceSchedule`: ranking, admission, breaker, watchdog, lateness |
| `LeadAlertsProofs` | `LeadAlerts`, and what `Announcements` keeps within one process |
| `UserAccountsProofs` | `UserAccounts` |
| `SystemPartsProofs` | `DbPool`, `TickControl`, `CountyFanOut`, `Awards`, `Relevance`, `Assistant`, `ListingFetch`, each for all its constants |
| `UserPartsProofs` | `PushRegistry`, `FeedCache`, `DealPipeline`, `Subscriptions`, each for all its constants |
| `ServicesProofs` | `MCServices`: the theorems of the two modules above, instantiated for each part of the sum |
| `DataLemmas` | finite sets, functions defined by recursion, flattened sequences |

## 3. Runs

| Run | Question | Result |
|---|---|---|
| `DocumentWorkerFaults` | database faults, deadlines, restarts | exact accounting, budget, nothing stranded, lifecycle implemented (96 510 states) |
| `DocumentWorkerHealthy` | a database that answers, one thread, fairness | every upload concludes and is recorded, once (7 883) |
| `DocumentWorkerBacklog` | is the backlog bounded by `QUEUE_MAXSIZE`? | no: the consumers empty the queue into the semaphore's waiters |
| `SourceSchedule` | failures, silence, faults, restarts | load bounded, breaker and watchdog keep their word, nobody starves (90 158) |
| `SourceScheduleStarved` | a heavy source that always misses the deadline | the sources it crowds out never run |
| `LeadAlerts` | duplicates, faults, stops | repeats need faults, log truthful, nobody forgotten (2 957) |
| `LeadAlertsPush` | is a failed push retried? | no: the lead is no longer new |
| `UserAccounts` | concurrent requests of one person and others | unique, once, bounded, alive (481 134) |
| `UserAccountsRepoint` | does a second identity always get in? | no: foreign keys refuse to move a referenced profile |
| `Services` | do eleven components keep their promises under overlapping requests, faults, restarts and reordering? | yes (2 307 066) |
| `SubscriptionsDropped` | does every payment reach its account? | no: an update without a database is acknowledged with 200 |
| `AnnouncementsRenamed` | is an announcement announced once? | no: its name does not survive the process |

The six refuted statements quote a comment or a test of the repository; the
`findings` of `PROJECT.json` give the lines.

**Properties.** Besides one type invariant per module:
`Accounting`, `BudgetHonoured`, `NothingStranded`, `ImplementsLifecycle`,
`FinishedIsRecorded`, `VerdictFinal`, `EveryUploadConcludes` of the worker;
`LoadBounded`, `NoShutOutBySingleFault`, `OneStaleAlertPerStreak`,
`LatenessBounded`, `EverySourceRuns` of the schedule; `RepeatsNeedFaults`,
`LogIsTruthful`, `NobodyForgotten` of the alerts; `ProvisionedOnce`,
`CapOvershootBounded`, `LoginsSerialised`, `ConfiguredProfilesSurvive` of the
accounts; and of the services

| Property | says | and excepts |
|---|---|---|
| `MirrorsStripe` | once nothing is under way, an account shows what Stripe shows of its one subscription | events out of order, writes dropped without a database |
| `CopiesNeedAReason` | one copy of a lead more takes one overlapping add or one failed call | |
| `HistoryAccountsForStage` | the history of a deal leads to its stage, whatever moves overlapped | lost calls |
| `RemovalHolds` | a removed deal stays away from the list, and from the table | the table, after two failed calls |
| `PushesWereConsented` | a push was meant for the device's user and allowed when the sender read the registrations | changes during the tick |
| `RowsLeaveForAReason` | a registration goes with its user's request, the device's next user or the push service's word | |
| `FeedIsCurrent` | a cached feed answers its key's query by the saved criteria | computations a save overtook, no database |
| `BuildsAreNeeded` | one pool at a time, no attempt during the cooldown | |
| `RetryIsEnough` | an undisturbed call does not fail after its rebuild while the server is there | the first query, on a dead connection of a stale pool |
| `CompletedTicksAreHonest` | a tick recorded without errors lost nothing | ticks cut short |
| `StaleDataAlertedOnce` | one alert per noticed spell of stale data | spells whose end no tick saw |
| `NothingSkippedSilently` | what stood listed during the whole fetch is in its answer | unread pages, malformed rows, the window, withdrawals, rows moved onto pages already read, a page without news that ends the walk |
| `HealthyCountiesSurvive` | what a portal answered is in the result, within as many budgets as there are waves | |
| `AnswersAreEarned` | a template comes only when every provider was asked, small talk only to small talk, the apology only after as many calls as fill the deadline | a call beyond its own limit, a slow feed |
| `AlertedLeadsAreFound` | what alerted stands in the feed, with its badge, or gave way to matches | excluded terms in the publisher's name, corrections that take the evidence away |
| `StatisticsRestOnOutcomes` | wins do not exceed contracts, discounts are taken from published estimates | |

The exceptions are what the code does not promise; the hazards of
`PROJECT.json` name them. Each property is broken by a plausible bug, written
beside the definition it would replace (the operators commented "Mutant").

**Bounds.** Worker: three documents, a budget of three units, queues of one and
one slot per route are the smallest instance in which the budget, a queue and a
semaphore are each exhausted by the others; two threads (one in the liveness
run) put both routes and classification in competition. Schedule: weights 5, 2
and 1 under a budget of 6 (the deployed values) keep the county registries and
the direct purchases out of one another's ticks, and let the source that may
miss the deadline fit beside either; intervals of 3 and 1 heartbeats make one
due always; `OpenAfter` = 3 is the deployed constant, the cooldown is 2
heartbeats and the stale streak two to six runs; ages saturate at `AgeCap` = 14,
one above the highest bound that `LatenessBounded` gives here (3 heartbeats of
patience, 2 punctual sources, 2 faults of 4 heartbeats each), so that only the
source that misses deadlines reaches it; counters saturate where the code compares them
last; `MaxMishaps` = 2 allows a fault during the repair of another. Alerts: two
leads, two users, every channel, one batch with a repetition and one that
overlaps it (so `MaxCopies` is 2), two mishaps. Accounts: two identities of one person and a second
person, two requests, a cap of one, one e-mail change or erasure; the requests
are symmetric. `RepeatsNeedFaults`, `NoShutOutBySingleFault` and
`OneStaleAlertPerStreak` count mishaps: they are stated for any number of them
and checked for two. One mishap of `StartTickBlind` covers any number of its calls.

Services: billing has one account in two shapes, one subscription with two
webhook requests at once, two changes and two outages (a retry beside the event
it repeats, and a fault during it), and two subscriptions that overwrite one
another; deals have two deal ids and two requests of one user, or two users who
know the same deal. Devices: one device and two users, so that it changes hands
under a sender, and two devices with both senders. The feed has two filters or
two users, a lifetime of one unit of time and two saves, enough for a save to
overtake a fill and for a sweep to come before and after expiry. The pool serves
three calls over three pools: a closer, a builder and one that queues. Three
tick tasks (running, waiting, arriving) meet two sources. Listings are two pages
of two rows and four announcements with one of each defect and one withdrawal or
exchange, so that an item moves from one page to the next, or back, during a
walk; three of the four are of one post type, one more than its window. Three
counties share two slots, and each kind of portal meets each other kind. The
assistant has the deployed 4 providers, 12 and 35 seconds, and calls of 1, 11,
12, 24 and 36. Relevance has five leads, two of them in two versions (the keyword
moves from one column to another, or goes), and three profiles that meet every
clause of both judgements and a feed of
one row, so that leads displace one another. Awards: two purchases, two firms,
two prices.

**Fairness.** Worker: the event loop runs every ready coroutine (the runner
keeps strong references so that none is collected), idle threads take work, a
deadline fires, an abandoned thread reaches its next check. An extraction is
never assumed to end by itself, an upload to arrive or a process to restart.
Schedule: heartbeats come (GitHub's cron), `run_tick` advances, a source outside
`Losers` answers before the deadline, and the deadline passes for the others.
Alerts (for the refuted run only): ticks fetch every batch again and the loop
advances. Accounts and services: none; what is said of them is safety
(that a result is there after so many units of time is said with a clock).

## 4. Proofs

All theorems are of the form "every behaviour of the specification", from the
named assumptions on the constants that the modules declare (finite sets,
positive limits, a `None` that is nothing else). Every safety invariant and
action property that a passing run checks is stated by a theorem.

### How induction over data is done
What a recursive definition computes needs an induction over a length, and the
library's induction theorems take an operator the provers cannot instantiate.
`DataLemmas` goes round this with sets: `LeastElement` (from the library's
well-founded `<` on the naturals), `SetInduction` (a set that holds 0 and every
successor of its members holds every natural) and `RecursionExists` (the function
that a base and a step describe exists, on every initial segment). `FlatteningExists` and
`FlattenSeqRange` apply this to the community module's `FlattenSeq`, of which
nothing could be proved otherwise, and `AdmissionExists` (`SourceScheduleProofs`)
does the same for the admission. Where a
definition of the model can be said with a set, an index or a recursive function
in place of a library fold or a `SelectSeq`, it is (`Upserted` of `Relevance`,
`Position` and `TotalWeight` of `SourceSchedule`).

### Document worker
`TypeCorrect`, `AccountingHolds`, `BudgetHolds`, `VerdictIsFinal`,
`LifecycleRefinement`, `LeftRowsStay`, `NobodyIsStranded`,
`WhatIsFinishedIsRecorded`, for every
number of documents, sizes, limits, threads and every set of database faults
(the last one for an answering database, which is what it is about).

`TypeOK` is inductive by itself, because a release is clamped at zero as in the
code. The others are not, and `IInv` adds what they need. That a document leaving
a queue or a semaphore's waiters was admitted, and leaves it once, needs
`QueuesOK`: each FIFO holds documents of its own route at its own await, without
repetition. That admitting and releasing change the count by `Size[d]` needs
`SizesOK`: nothing above `MAX_DOCUMENT_BYTES` gets past the route (bytes are
counted as the cardinality of a set, so both are facts about disjoint finite
sets, the lemmas `BytesAdd` and `BytesRemove`). `BudgetHonoured` follows from
the guard of `Admit` together with `Accounting`, since the guard reads the
counter and the property speaks of the documents. `RowsOK` says what a row may
hold at each await of its owner. `Invariance` is the induction, one lemma per
conjunct with one step per action. The refinement matches each action, under
`IInv`, with the lifecycle step it implements; `VerdictIsFinal` is read off the
same match, and so is `LeftRowsStay`: a row whose owner has let go of it, by
concluding, by losing a write or by dying, stays as it is and finds no other
owner. `NobodyIsStranded` speaks of positions in sequences: `JobsOK` and
`WaitsOK` say, for the pool's jobs and for the FIFOs, that the documents at an
await and the places that remember them are one to one (`OneToOne`).

### Source schedule
`RankingIsAStrictOrder`: the priority (the ratio of age to interval, compared by
cross-multiplication, then the declaration) is a strict total order, ages that
saturate included. `TickAdmitsTheMostOverdue` is the promise of
`_admit_within_weight_budget` for every input: the head of the ranking is
admitted, nothing is that is not due, and the load is bearable. Its proof gives
the weight of a set as a count of units (`WeightOfOneMore`) and walks the stages
of the fold (`AdmissionStages`). `LoadIsBounded` follows, as answers only
lighten a tick. `ShutOutTakesTwoFaults` needs `BlindRunsCost`: a source in flight
past its open circuit has already cost a fault; `StaleAlertsAreOwed` needs
`UnmarkedOwes`: what was alerted without a mark was a mark that got lost.

`LatenessIsBounded` is the safety side of "deferral changes when a source runs,
never whether" (`orchestrator.py` 541): a source outside `Losers` (`Punctual`)
is never older than its `Patience` (the longest of its interval, the cooldown
and its interval times the number of the others), plus one heartbeat per punctual
source, plus one `Round` (the cooldown and again the punctual sources) per fault
or restart. The argument counts those that have passed it. `Late(s)` is the age
beyond patience and faults, `Passed(s)` the punctual sources that ran since s
became late or are running now, and `LateInv` says that

* there are as many of them as s is late (`PassedKeepsUp`, one fewer while a tick
  is about to decide or is running s);
* no circuit is open before a late source (`OpenIsEarly`);
* nothing is in flight outside a tick (`NoneInflight`).

A heartbeat makes every source later by one. The tick after it admits the head
of the punctual sources (`DeferredOnlyByThoseAhead`: first fit puts a source off
only when those ahead of it leave no room), and the head is s or one that has
not passed it, since one that has is less overdue (`PassedAreBehind`, where
`Patience` is needed). So `Passed(s)` grows by one, and as it has room for the
others only, s cannot be later than that. A fault is charged more than any source
can be late (`FaultIsCharged`), after which nothing has to be shown of it.
Neither conjunct is inductive without the others: the open circuits decide
whether s is due, and the counts bound what a fault is charged for.

Two assumptions. `LosersLeaveRoom`: the sources that may miss the deadline fit
one tick together with any other. It cannot be dropped: with the county
registries among them it fails, and `SourceScheduleStarved` shows what happens
then. `AgesSuffice`: the model's cap on ages lies above the bound. TLC evaluates
both for the run (`RoomAssumption` of `MCSourceSchedule`); without a fault, the
ages of the run come within one heartbeat of the bound.

### Alerts
`TypeCorrect`, `LogsAreTruthful`, `RepetitionIsPaidFor`, `NobodyIsForgotten`. The
invariant `IInv` relates deliveries to logs: `Slack` says that a delivery that is
in no log, nor about to be, was paid for by a fault; `Adrift`, that an alert no
log can take, its lead having no row, is paid for in advance with every copy the
list still holds, which is what `CopiesAssumption` bounds; `RecordAfterDelivery` that
what is being recorded was delivered, `Pending` that undisturbed, what is due is
delivered or still to do. The last needs that the list of attempts names every
wanted notice of the new leads, which is the lemma on flattened sequences.

`AnnouncedOncePerProcess` is what is left of the statement `AnnouncementsRenamed`
refutes: what was told is stored under the name that this process knows it by,
and no announcement is told more often than the process was started.

### Accounts
`TypeCorrect`, `OnboardedAtMostOnce`, `OvershootIsBounded`,
`ConfigurationsSurvive`, `LoginsDoNotCollide`. Common to them is that the advisory
locks exclude (`LocksHold`): no two requests of an identity are between their
gate and their write. `Provisioning` says that a request past its gate belongs to
a row not onboarded before, or has been overtaken by the adoption that brought
the row; `Overshoot` counts the requests between the count
and the write, each of which may exceed the cap by one; `LoginInv` says what a
login that inserts has read, and who may have changed it since.

### The parts of the services
| Part | Theorem | The inductive invariant and why |
|---|---|---|
| `DbPool` | `PoolBuildsAreNeeded` | `BuildInv`: who holds the lock at which await, and that what the second look found stays so while it is held |
| | `PoolRetryIsEnough` | `RetryInv`: what an undisturbed call knows of the pool at each await, cancelled and stale pools included, and that a dead connection is one of a stale pool or of a server that is away |
| `TickControl` | `TicksAreHonest` | `LossIsOwned`: a loss is an error of the tick or the mark of a cut before the row says so |
| | `StaleDataIsAlertedOnce` | `FlagIsEarned`: the fired flag and the episode agree |
| `CountyFanOut` | `CountiesDoNotHurtEachOther` | `FanInv`: how many waves have passed when a county gets a slot (quotients of counts), and that a portal that answers has what it gave |
| `ListingFetch` | `WalksSkipNothing` | `ListingInv`: the walk has what stood on the pages it read, or a cause is noted; publications and withdrawals move rows by one place, rearrangements two of them; a full page means the walk goes on |
| `Relevance` | `AlertsAreFoundAgain` | `RelInv`: what was told is stored, in this version or another, and was evident; a match precedes all that is none, so what displaces it is a match |
| `Awards` | `StatisticsAreOfOutcomes` | `AwardInv`: one notice of a purchase, with its purchase's firm and figure |
| `Assistant` | `AnswersHaveTheirReason` | `ChatInv`: providers tried, calls beyond their limit, and the seconds they cost (`SecondsAdd`) |
| `PushRegistry` | `PushesAreConsented`, `RegistrationsLeaveForAReason` | `PushInv`: a row is its holder's, and what a sender is about to push was allowed by the copy of the preferences it works from; a device found gone stays gone |
| `FeedCache` | `FeedsAreCurrent` | `FeedInv`: a fill computes from the saved criteria, or is excused; sweeps only remove |
| `DealPipeline` | `RemovalsHold`, `HistoryAccountsForStage`, `CopiesNeedAReason` | `PipelineBase`, `StagesAccounted` (each stage is reached through the history), `CopiesPaidFor` (a copy, or an add about to insert one, for each reason) |
| `Subscriptions` | `AccountsMirrorStripe` | `BillingInv`: the newest change is on the account, in a webhook's hands or in the outbox, in order |

Three assumptions deserve a word. `FanAssumption` says that an entry of the county
registry that misses a key has neither extraction, as one entry serves both.
`ListingAssumption` asks for pages of at least one row, and `CopiesAssumption` of
`LeadAlerts` says that no batch holds more than `MaxCopies` of a notice; TLC
evaluates it for the run.

`ServicesProofs` carries each theorem over to `MCServices`. A lemma per part
(`PoolSame`, `PoolRuns`, ...) shows that the steps of the sum are the part's own
while it is chosen, and that otherwise its variables rest; the part's theorem,
instantiated with the constants of that instance, then gives the property of the
sum. `TypeCorrect` puts the types of all fifteen instances together. In most parts
they follow from the invariant of the table; what had to be added is that a tick
runs exactly while its task holds the lock (`LockIsHeld`), that rows are as many
as stored leads (`RowsType`, from what an upsert does to the length), that no
section is answered that was not asked for (`ChatType`), and that an entry's age
and the profile versions stay within their bounds (`FeedTypePreserved`, which
needs to know that a computation under way has a key).

### Only model-checked
* liveness (`EveryUploadConcludes`, `EverySourceRuns`): fairness and ENABLED are
  outside the prover's reach. Of the second, the safety part is proved:
  `LatenessIsBounded` says how many heartbeats late a source can be, and that
  heartbeats keep coming and ticks end is the fairness of the run;
* the six statements of the `violation` runs, which the code does not keep.

## 5. Not modelled, and the plan

Not modelled: what is computed from texts and files (HTML, JSON and PDF parsing,
the refinery's inference of categories, stages and CPV codes, OCR, eligibility,
the analyses of the addons): pure functions and external calls, whose results
are nondeterministic here; wording and layout; JWT and signature verification;
the two rate limiters (dictionaries updated without an await in between) and the
exchange rates (a table fetched once a day with a default); `ensure_schema`
(additive statements, once at start-up); the alert that nothing could be saved
and the daily digests; the legacy daemon, start-up and maintenance scripts; the
front end.

Met while modelling, stated by no run:

* two heartbeats may both find the tick lock free before either task takes it
  (`api.py` 598): the ticks then run back to back; a set-up that raises is
  recorded as a completed tick with zero errors (`orchestrator.py` 754);
* three slow providers, silent or with nothing to say, use up the copilot's
  deadline, so that the apology replaces the template the next line would have
  produced; a prompt
  beyond its limit is cut at the end, where the copilot puts the question;
* the holder of a route's slot waits behind classifications, which use the same
  threads (`document_tasks.py` 95 says it does not);
* a first page that cannot be fetched looks like an empty listing to TED, SEAP,
  CNI and the portal scrapers, and `SourceSchedule` then counts a success with
  zero rows; one that is fetched and is no JSON raises out of the first three;
* after an upsert that was skipped, an alert is sent and its record refused by the
  foreign key (`schema.sql` 498): a batch that names the lead twice alerts twice,
  and the next tick, to which the lead is new, once more;
* a sign-up that passed its gate before a login adopted an onboarded row
  overwrites that row's criteria (`db.py` 1830);
* a keyword in a lead's publisher ranks and does not alert; an excluded term in
  it sinks a lead that alerted; excluded rows come after matches, and not after
  everything else (`db.py` 858);
* the share of the first supplier can exceed 100 %: its wins are counted over
  all awards, the total over the priced ones; the county filter of the award
  statistics finds nothing, since no row stores a county;
* an update of a subscription delivered after its deletion revives it
  (`routers/billing.py` 226).

What would come next: the two hazards of `PROJECT.json` without a property
(`api.py` 598, `orchestrator.py` 754) once the code says what it wants there; and a
`LatenessBounded` for schedules in which the losers do not leave room, which
would have to count how often they are due.
