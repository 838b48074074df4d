# A verification project for jeju_AI

jeju_AI is an MCP server that plans day trips on Jeju. It has two halves.
Importers collect public data, normalise it and publish immutable snapshots
into PostgreSQL. A runtime reads the active snapshots, asks TMAP for door to
door routes, generates three plans for a day (balanced, relaxed,
experience_max), evaluates plans and revalidates them. This directory models
the parts of it in which order, concurrency, failure or long computations make
unit tests weak, checks the models with TLC, and proves the main results with
TLAPS.

Paths below are relative to `src/src/jeju_trip/` of the repository snapshot.
`PROJECT.json` lists for every definition the lines it stands for.

## Contents

| Component | Abstract specification | Model | Instances | Proofs |
|---|---|---|---|---|
| Publication and activation | `SnapshotLifecycle` | `CoverageRules`, `Publication` | `MCPublication` | `PublicationProofs` |
| Route fetches and budgets | `SingleFlight` | `RouteFetch` | `MCRouteFetch` | `RouteFetchProofs` |
| Collection of public data | `RawIntake` | `Collection` | `MCCollection` | `CollectionProofs` |
| Search for one bus itinerary | | `Ordering`, `Timetable`, `BusSearch` | `MCBusSearch` | `OrderingProofs`, `BusSearchProofs` |
| Places and orders of a request | | `Timetable`, `OrderSearch`, `GenerationGateway` | `MCGenerationGateway` | `GenerationGatewayProofs` |
| Plan of a day and its verdict | the verdict in `DayTimeline` | `DayTimeline`, `ModeChoice`, `DayPlan` | `MCDayPlan` | `DayPlanProofs` |
| Evaluation, repair, revalidation | | `DayTimeline`, `Evaluation`, `Revalidation` | `MCRevalidation` | `RevalidationProofs` |

The rows follow the data. A collection ends in the registration with which
`Publication` begins (`RawIntake` names the two ends `RegisterNew` and
`RegisterIncomplete`). What is published is read by `GenerationGateway`, whose
orders are the proposals of `DayPlan`; the legs of a day are answered by
`BusSearch` and, one paid call at a time, by `RouteFetch`; the day is judged and
followed in `Evaluation` and `Revalidation`, on the same `DayTimeline`.

## Inventory

State, operations and interactions of the parts of the system, what is hard
about each one, and what makes it correct. The list with its status is under
"components" in `PROJECT.json`; the hazards, each at its line, under "hazards".

**Publication pipeline** (`infrastructure/refresh_service.py`,
`manual_import.py`, `bus_stop_publisher.py`, `projection_publisher.py`,
`activation_repository.py`, `source_admin_repository.py`, `interfaces/cli.py`,
`migrations/`). State: `acquisition.status`, `publication`, `active_snapshot`,
`activation_event`, `source_coverage`. Operations: register raw data, judge and
validate it, stage a publication, publish coverage (which activates), append
coverage, roll back. Several command lines run at once against one database at
READ COMMITTED; they meet in row locks, in an advisory lock per source and in
unique keys. Hard: checks before a lock, two locks in opposite orders, a crash
between two transactions, a retry that finds its own work done. Correct when
the tables never disagree, what is active was verified, history can be undone,
and nothing is stuck for ever.

**Routing** (`infrastructure/runtime_routing.py`, `tmap_adapter.py`,
`tmap_cache.py`, `planning/execution_budget.py`). State: route caches with a
time to live, failed keys, a lock per route key, and per request a deadline, two
levels of call counters and a semaphore. One planner serves all requests and the
worker threads of each. Hard: double and triple checked caches, a slot awaited
while a key lock is held, deadlines, refusals half way. Correct when no call is
paid twice or made uncounted, limits hold, every lock and slot comes back, and
no thread waits for ever.

**Bus search** (`_bus` and `_one_transfer_bus` of the same file). State of one
leg: the pairs of stops still to try, the walks paid for so far, the best
itinerary. The timetable ranks pairs of stops, walks to, between and from stops
are asked for one by one, and caps end the search early. Hard: what is looked up
before a walk and used after it, three counters that are advanced at different
places, "not found" against "not looked for". Correct when an itinerary can be
travelled, few walks are asked for, and nothing is given up without a reason.

**Generation gateway** (`infrastructure/runtime_generation_gateway.py`). State
of a request: the rows read, a ledger of facts with their publications, the
metadata of sources, and the orders found. Hard: one statement after the other
while publications are replaced, hours made of rules, breaks, exceptions and
closures of several sources, and a search that drops partial orders. Correct
when hours are those that were published, the ledger is closed, and the orders
keep the request and can be ridden.

**Generation** (`planning/generation.py`). State of one strategy: the order
tried, the stays, the clock, the timeline and the minutes of continuous
activity. It schedules leg by leg; a day that ends late is shortened and then
thinned out, each time from the first leg on; then comes the next order. The
threads of the strategies share the routing state only. Hard: what survives a
failed attempt, what repair may touch, minutes added up against windows.
Correct when a recommended day is whole, keeps what was promised and is found
feasible by the evaluator.

**Evaluation and repair** (`planning/evaluation.py`, `timeline_conversion.py`,
`infrastructure/runtime_evaluation.py`). No lasting state. It
judges a day of activities or a full timeline, ours or a foreign one, against
evidence looked up again, suggests repairs, and evaluates each of them under one
budget. Hard: agreement with the generator, and budgets used up half way.
Correct when it accepts what generation recommends and its repairs solve what
they are said to solve.

**Mode choice** (`planning/cost_time_balance.py`). Pure comparisons of routes.
Correct when they implement their stated order, with ties and missing costs.

**Collection** (`infrastructure/public_data_http.py`, `raw_page_spool.py`,
`raw_store.py`, `normalization_spool.py`). State: pages in a temporary spool, then
the raw object in storage. Hard: retries of a page, a total that changes between
pages, a stop half way. Correct when an object that is called complete has every
page once.

**Candidate store** (`application/ephemeral_candidates.py`). A map in
memory with a time to live and a timer per entry; nothing in the program
constructs it yet. Hard: timers against put, get and delete.

**Realtime evidence** (`infrastructure/realtime_evidence.py`). A snapshot of
one stop, kept for a revalidation and valid for 60 seconds. Hard: age at use, a
failed call that is not remembered.

**Application service and readiness** (`application/service.py`,
`readiness.py`, `preparation.py`). Recommend, evaluate and revalidate as one
tool call each, with deadlines; readiness decides which tools answer. A
revalidation turns what is left of a timeline into a day of activities with
locked modes. Hard: a traveller who may be anywhere, late, waiting or riding.
Correct when good news is true and bad news is not caused by the conversion.

Parts without behaviour to check: configuration and preflight, coverage
measurement (one query per capability), normalisers and timetable parsers (row
by row, reached by the unit tests), migrations as a runner, domain models,
agents (a line around one model call), MCP transport and launchers, one-off
reports, and modules that nothing but tests calls (`lifecycle.py`,
`scheduler.py`, `safety.py`, `recovery.py`, `service_priority.py`,
`stop_identity.py`, `service_day.py`, `durable_projection.py`).

## The models

### SnapshotLifecycle, CoverageRules, Publication

`SnapshotLifecycle` is what the readers of the active snapshot may rely on:
every change is one indivisible step, with no clients, locks or transactions.
`CoverageRules` has the data and the rules both levels share, among them
`validate_activation_coverage` and `_validate_appended_coverage`.

`Publication` is the code. A client is one run of a command; its `pc` stands
between two statements that others can observe: a committed statement, a lock
acquisition, or the commit of a transaction whose writes were invisible before.
`rowOwner` is `SELECT ... FOR UPDATE`, `sourceOwner` is
`pg_advisory_xact_lock`.

| Action | Code |
|---|---|
| `RegisterNew`, `RegisterIncomplete`, `RegisterAgain` | `register_verified_raw`, and how refresh and manual import go on with a row that exists |
| `Judge`, `MarkQualityFailed`, `MarkValidated`, `MarkRejected` | quality gate and the conditional updates after it |
| `LockRow`, `LockSource`, `PublishReuse`, `PublishStage`, `PublishExisting`, `PublishRefuse` | `_publish`, and the bus stop publisher without its twin lookup |
| `CoverBegin`, `CoverCommit`, `CoverRefuse` | `publish_coverage` |
| `AppendBegin`, `AppendCommit`, `AppendRefuse` | `append_active_coverage` |
| `RollbackBegin`, `RollbackCommit`, `RollbackRefuse` | `rollback` |
| `Crash`, `DeadlockVictim` | the process dies; PostgreSQL aborts one of two that wait for each other |

An acquisition is a value of the unique key of its table, so a second
collection of the same bytes is the same element. Contents are a version number
and a row count; coverage records are a capability, a scope and readiness.

### SingleFlight, RouteFetch

`SingleFlight` is the promise to a provider that bills by the call: per route
at most one call at a time and none while the answer is cached. `RouteFetch`
follows a thread through `_walking_leg` and `_taxi`: failed keys, key lock,
first look into the cache, slot, second look and claim, third look in
`TmapAdapter.fetch`, the call, its answer or failure, and every way out of the
two `with` statements. Time is a phase of a request ("new", "live", "late") and
an expiry that may happen at any moment unless the item is younger than a live
request: items live 30 minutes or 6 hours, a request at most 150 seconds.

### DayTimeline, DayPlan

`DayTimeline` has the facts of a day (places, opening windows, walking and
driving minutes, bus rides), the routes `TmapDoorRoutePlanner` makes of them,
the events of a timeline and, in its second half, the verdict of
`ItineraryEvaluationEngine._evaluate_full_timeline`, one operator per issue it
can raise. `DayPlan` is `_schedule_candidates`, `_schedule` and `_schedule_once`
of the generator:

| Action | Code |
|---|---|
| `TakeOrder`, `RefuseDay` | the loop over at most two orders of the strategy |
| `VisitNext`, `MissNext` | one turn of the loop over the places: leg, pickup, safety buffer, wait, stay, or the reason to give up |
| `ReturnHome`, `ReturnLate`, `CannotReturn` | the checks after the loop and the way home |
| `ShortenVisit`, `RemoveVisit`, `GiveUp` | repair of a day that returns too late |

Times are minutes of the day, a walk is measured by the minutes it takes, money
is counted in thousands of won. Limits that a request may change have their
defaults. `ModeChoice` is `TmapDoorRoutePlanner.plan`: the candidates of the
three modes and what each of the eight selection policies takes of them, with
the comparison of walk, bus and taxi of `select_cost_time_balance` and the
beeline that spares a call for a walk. It is the function by which `DayPlan` gets
the route of a leg, so the properties of `DayPlan` are about it as well.

### RawIntake, Collection

`RawIntake` is what publication relies on: an object is in the bucket before the
acquisition that names it, and only a whole object becomes ACQUIRED.
`Collection` is `refresh_batch` up to the registration. A run asks for the pages
of several queries, each up to three times; the answer of the source is an
action (`AnswerPage`, `AnswerRejected`, `AnswerLost`, `AnswerRefused`), and the
page may be another one than was asked for. `PutObject` and `Register` are two
steps with `Die` between them. `StartResumed` takes an archive of a failed run and
reuses queries it finds complete (`_load_resumed_raw_batch`). The data of the
source changes under the run (`EditSource`), days pass between runs (`Tick`).

### Ordering, Timetable, BusSearch

`Ordering` is `ORDER BY` with several columns and `sorted` with a tuple as its key;
every model that sorts uses it. `Timetable` has the trips of the day and the rides they make between two stops;
`OrderSearch` uses it too. `BusSearch` is one search: `Rank` orders pairs of stops by
their earliest arrival and their distance, then one action per turn of the loops
(`WalkToStop`, `SkipStop`, `TryPair`, `PassPair`, `TryChange`, `PassChange`) until
`EndDirect` and `EndTransfer`. The answer of a walk is a choice of the
environment and is remembered, as the caches of `RouteFetch` do.

### OrderSearch, GenerationGateway

`GenerationGateway` is one request: `Resolve` (each reference, and the service
area), `Discover`, the four statements of `_prime_place_candidates`
(`ReadPlaces` to `ReadEntrances`), then `LoadPlace`, `CheckDiet` and `AddFact` for
each place, and `Answer`. A publication is a number of an edition of its source;
`Activate` replaces one between any two statements. `OrderSearch` is
`bus_only_candidate_orders`: the legs the timetable allows (`ReadLegs`), partial
orders extended place by place (`Extend`, with the dominance rule of
`_bus_only_strategy_solutions`), whole orders collected (`CloseStrategy`, which tries
minimum stays when nothing is found) and the choice of one triple with its
fallbacks (`ChooseOrders`).

### Evaluation, Revalidation

`Evaluation` adds to `DayTimeline` days of activities, whose transfers are
looked up, the verdict as statuses (`Verdict`), the count of calls that an
evaluation claims, the live arrival of a bus in place of its timetable
(`Awaited` is the bus that is asked for, `Found` what is made of the answer), and
the repairs of both forms: `Earlier` and `Shorter` for activities, `ShortenBefore`, `UseFaster`, `TaxiInstead` and `SkipBefore` for timelines.
`Revalidation` is a traveller who follows a timeline (`Leave`, `Board`, `Arrive`,
`EndStay`, `Wait`), early, on time or late, and may ask at any moment (`Ask`):
`_remaining_request` (`Remaining`, `Locks`), the evaluation of that day with what is
known live, the status and the taxi after a bus that does not come.

## Runs

| Run | Question | States | Result |
|---|---|---|---|
| `publication_safety` | do two importers with rollback and a crash anywhere keep the tables in agreement, and are they indistinguishable from one-step operations? | 1,029,582 (clients symmetric) | holds |
| `publication_liveness` | does every command end, and is every validated acquisition resolved by repeating the refresh? | 11,850 | holds |
| `bus_stops_resume` | the same for bus stops | | violated |
| `collection` | is what is called complete one version of the data with every page, whatever was retried and resumed, and does a collection implement `RawIntake`? | 3,575,534 | holds |
| `route_fetch_safety` | do locks, slots, limits and claims balance, and does the provider see single flights? | 1,930,065 (threads symmetric) | holds |
| `route_fetch_liveness` | does every fetch end? | 65,270 | holds |
| `bus_search` | can the itinerary be travelled, are few walks paid for, and is nothing given up without a reason? | 7,181 | holds |
| `generation_gateway` | are hours those that were published and those the evaluator reads, is the ledger closed, do orders keep the request and can they be ridden? | 18,591 | holds |
| `day_plan` | are recommended days whole, true to their promises, feasible for the evaluator, with the same slack, and does planning end? | 8,458 | holds |
| `visitless_day` | is every request answered? | | violated |
| `revalidation` | is good news true, is bad news not caused by the conversion, can repairs be followed? | 209,764 | holds |
| `recovery_in_past` | does a recovery lie ahead of the traveller? | | violated |

Deadlock is not checked in any run: commands, requests, searches and plans end,
and the systems have bounds after which nothing is left to do. That nobody waits
for ever is what `CommandsEnd` and `FetchesEnd` say.

### Bounds, and why they are enough

- Publication: two clients, because every race in the code is between two
  transactions on one source or one acquisition, and locks make a third one
  wait. Three acquisitions of one source: two of them with the same data set, a
  third with another one and three times the rows, so that the row change ratio
  refuses it unless the operator names the baseline. Coverage batches with and
  without the snapshot record, ready and not. `MaxEvents` starts no rollback
  after two activations, `MaxCrashes` is one. The other runs take a source that
  is activated by its ratio, with two acquisitions.
- RouteFetch: two threads of one request and one of another, two routes, limits
  of one call per kind, one slot: every limit is met at once. `MaxFetches` lets
  each thread fetch twice (once for liveness, where repetition would only
  postpone the end).
- Collection: two queries of one and of two pages, one of which grows while it is
  read; three runs, so that a resumed run can be resumed again; two answers
  that are not the page asked for and one edit; a freshness of one day and two
  days that pass, so that an archive gets too old. A third fault or edit only
  repeats what two do, because the pages of two queries are independent.
- BusSearch: three stops at either end, which is one more than is walked to, a
  direct line that reaches two of them, a slower one, a later trip of the
  same service, a trip the other way, a suspended one and two lines with a
  change half way, on foot or at one stop. Seven moments of departure from
  before the first bus to after the last, short and long waits, with and without
  a change and a budget, and walks that fail, are short or are long.
- GenerationGateway: five places, two or three editions of each source (fresh or
  stale, with closures, breaks, special hours, places and entrances that are
  gone), three sets of editions to begin with and `Switches` = 1 activation at any
  moment: each property relates at most two readings of one source, and an
  activation is what makes two readings differ. Five requests, on two
  circular lines and a short one that needs a change. The caps of 12,000 partial
  and 80 whole orders and those of the clusters are out of reach of so few places.
- Revalidation: a hotel, two sights, a restaurant and a cafe on one road; nine
  days (easy, tight with a required rest, days with a leg that cannot be made, one
  by another bus than the first that can be caught, and one that stays at a place
  beyond its last admission), each also as activities in and out of order; the moments are those of
  the plan and 12 and 35 minutes after them, that is less and more than any
  slack; the bus is four minutes away, or its arrival is unconfirmed, lost or unusable; the
  budget ends after three calls or not at all.
- DayPlan: a hotel, two sights (one with a lunch break and a last admission), a
  restaurant with a last order and a cafe without verified hours, along one road
  on which neighbours can be walked to, with a local and an express bus. Seven
  kinds of request (required and fixed places, the three walking speeds,
  budgets, fewer modes, one order or two) times five closing times from 12:00 to
  17:00, and each kind with nine other ways of choosing a mode times two closing
  times: days that fail, days that are repaired by shortening, by removing or by
  both, days that fit at once, and days with all three modes. The violation run
  needs one request.

### Fairness

- Publication: a command keeps running (weak fairness of its steps), PostgreSQL
  grants locks in the order they were asked for (strong fairness of the two lock
  steps) and breaks wait cycles. `ValidatedIsResolved` needs the operator to
  repeat a refresh (strong fairness of `RegisterAgain`), as the code expects of a
  failed refresh; without it a crash after validation is final.
- RouteFetch: weak fairness per thread: threads are scheduled and a call returns
  or times out (httpx, 10 seconds). Locks and slots are not granted fairly
  (`threading.Lock` and `Semaphore` promise nothing) and a deadline need not pass.
- DayPlan: weak fairness of the planning thread; its calls end by `FetchesEnd`.
- The other models have safety properties only. A collection, a search and a
  request are loops over finite lists in one thread, and `Next` of their models
  shortens a list or counts up in every step.

## Proofs

TLAPS checks every proof to the last leaf, for all values of the constants that
satisfy the assumptions named below; TLC evaluates them in the runs. Most give the
constants their types and keep null values apart (`CatalogAssumption`,
`ClientAssumption`, `BudgetAssumption`, `CollectionAssumption`,
`ChoiceAssumption`, `PlanAssumption`, `TimetableAssumption`, `OrderSearchAssumption`,
`GatewayAssumption`, `EvaluationAssumption`). These say more:

- `TimelineAssumption`: a place has finitely many opening windows, and no drive
  takes zero minutes.
- `BusSearchAssumption`: no entrance of a place is a bus stop, and the lists of
  stops have no stop twice.
- `GatewayAssumption`: what the tables hold is finite. Places are rows, a
  publication names places that exist, and a place has finitely many rules; hours are
  minutes of a day. Nothing is assumed of the order of two hours: a rule may close
  before it opens, and breaks may overlap.
- `RevalidationAssumption`: events have a length, activities a place and the type
  of that place, and a budget is an amount or none, as the
  validators in `domain/models.py` demand, and a transfer leads from one place of
  the day to another. The pickup of a taxi is not 0 minutes, and events do not
  overlap. The engine also answers timelines that overlap, with EVENT_OVERLAP,
  but a stay that is shortened there can end after the transfer behind it, which
  is then left without length (`evaluation.py:1013`).
- `LimitsAddUp`, the hypothesis of `ReservedCalls`: the reservations of a request
  are as many as its calls. So it is for the limits of every request but a
  bus-only one, whose allocations add up to 60 with 40 calls in all; its
  allocations compete for the rest.

**PublicationProofs.** `TypeCorrect` comes first. `LocksFollowTransactions` is
inductive with it: lemmas say what each kind of program step does to a lock. The
tables need a strengthening, `TableInv`: a publication row exists exactly for
staged and published acquisitions (`PublicationMatchesStatus`), a client that
appends does so to a published one although it checked that without a lock
(`AppendingIsPublished`), and a client that is about to cover has a batch. From
it every step maps to a step of `SnapshotLifecycle` or a stutter
(`Implementation`), and the rest is proved on the few abstract steps instead of
the many concrete ones: `DatasetsDistinct`, `CoverageReady`, `HistoryUnbroken`.

**RouteFetchProofs.** `IInv` adds to the type invariant and
`LocksAndSlotsAreReturned` that the route of a thread with a claim is missing in
the cache; it holds because only the owner of the key lock can put it there, and
it is what makes `ClaimsUsed`, `PaidOnce` and the refinement of `SingleFlight`
(`Implementation`) true. Slots are counted with cardinalities of the set of
holders. For `ReservedCalls` the calls of a request are counted as a set of pairs
of an allocation and a number: the pairs that are claimed are among the pairs that
are reserved, so the rest of the calls is the rest of the pairs, whoever claims.

**DayPlanProofs.** `TypeCorrect` says that all the arithmetic stays inside the
minutes and that the cursor stays inside the order.
`PlansAreWholeAlways` shows the wholeness of a recommended day for any places,
routes, requests and repairs. `PlansAreWhole` looks at the last state only; the
strengthening `WholeInv` says of an unfinished day that it is a chain: every
event begins when the one before it ends, transfers alternate with places, two
neighbours that are no transfers are at one place, the first event begins at
the opening, and the last one ends at `current_at` at the place of the cursor.
Lemmas add one event to a chain, then a leg, then a stay; `ChainIsWhole` turns
a chain that ends with the way home into the evaluator's words, for which it
must compute whom `_neighbor_place_id` names on each side of a transfer.
`PromisesKept`, `PlansAreFeasibleAlways` and `SlackAgreesAlways` need `SoundInv`,
which says of every event what it was scheduled with and survives shortening and
removing because both start again from the first leg: a stay is as long as its
entry in `stays` and lies within the hours of its place, a transfer takes the
minutes of a route that was found for it, a taxi comes after its pickup, ends
never decrease (`Sound`); stays that repair must not touch have their length
(`Firm`) and the order keeps its protected places in their order (`Keeps`). The
evaluator then finds each route again, walking no slower than the plan
(`FoundAgain`, `BalancedIsQuickest`).

**CollectionProofs.** `IInv` says of a run that every page it read is in the
archive, that pages of one query agree on the total, that no attempt has a
higher number than was counted, that each page has a last attempt, and that no
member is older than `observed` or the freshness allows; of a run that collects,
that there is room for the page it asks for next (otherwise it would have
completed its query); of a run that registers, that the last object is its own.
`CollisionFree` and `FreshPages` follow from it, and so does `Implementation`:
only a run with every page has every query done. Two more invariants stand on
it: `TruthInv` (a page states the total of its version) gives `OneVersion` where
totals tell versions apart, which is its assumption; `ReuseInv` (the page a run
accepted is its last attempt for that page, and nothing is asked again of a
query that is done) gives `Reuse`.

**OrderingProofs, BusSearchProofs.** `OrderedSorts` shows that `Ordered` lists its
domain once each, in the order of the keys, if the keys differ; it rests on the
count of smaller keys being a bijection. The library's induction theorems take a
predicate, which no installed prover instantiates, so `OrderingProofs` has induction
with a set in place of the predicate: over the naturals (`SetOfNaturals`), and along a
fold over a finite set (`FoldInduction`), with `FoldExists` for the value of the fold;
with it, facts about sums over a set and a part of it (`SumExists` and those after it),
about the numbers of a set in line (`NumbersInLine`) and about functions that are
defined step by step (`StepsExist`).
`FewWalks` follows from `WalksInv`: every
walk that is asked for is counted, at most two of each kind. `ItineraryTravelled`
follows from `TravelInv`: what waits in the queue was found in the timetable, and
what was answered is an answer of the provider. `NothingMissed` needs `MissInv`:
every pair of the timetable waits in the queue or is refuted, unless a cap was
reached, and as the queue is grouped by boarding stop, only the stop in front can
have been walked to.

**GenerationGatewayProofs.** `LedgerInv` says of every row that was read, and of
every fact that waits to be added, that its edition is active still or its source
was switched meanwhile; `LedgerClosed` follows from it.

`HoursAreAlwaysPublished` rests on what a fold computes: `SubtractedHours` shows for
any set of breaks, taken in any order, that a minute is in what is left of a window
just when it is in the window and in no break, and `SubtractedSpans` that cutting
windows and then forgetting their admissions is the same as forgetting first, which is
what makes the evaluator agree (`EvaluatorAgrees`). `KeptInv` carries it through a
request: every place that is kept was kept with the windows of the rows read, and
no rows are read after the first place.

`SearchInv` is the inductive invariant of the search, on top of `KeptInv`. The day
that is searched is the one that was asked for and loaded (`DayIsAsked`); a partial
order visits loaded places once, no role too often, and has times at which somebody can
follow it to the minute the search has for its end (`Sound`, `Followed`); a whole
order does so until the hotel is reached and has exactly the roles that are wanted
(`Solved`); what is proposed is made of those (`Proposals`). That dominance drops
partial orders does not matter to it, as each order that is kept carries its own
times. `OrdersCanBeRidden` computes the ends of an order by a function recursive over
its length: `EndsExist` shows that the function is defined and `TimedEnds` that times
one can follow lie within it. For `ProposalsKeepTheRequest` the relaxed order is
described by the positions it keeps (`PrefixOfLeft`, on `OrderedSorts`): it keeps what is
required, the meal and the rest (`PrefixKeeps`), and loses a visit if less than three
are required (`PrefixIsShorter`).

**RevalidationProofs.** The lemmas follow the layers of an evaluation. A route is
a way to make its leg in time (`RouteFacts`), evidence is one of those routes
(`EvidenceFacts`, `BestFacts`), a verdict that is neither disrupted nor unknown has
no critical issue and evidence for every leg (`CalmVerdict`), so a day with such a
verdict can be followed (`GoodDay`). Sorting a day keeps its activities
(`SortedStays`), what is left of a timeline is a day again (`RemainingIsDay`).
`GoodNewsIsAlwaysTrue` combines these; `StaticTimesAreNeverTrusted` adds that the
first leg of a waiting traveller has no evidence without an arrival
(`NothingKnown`). A repair of activities is a day that is assessed again
(`TriedDayIsGood`), and so is one of a timeline; each of the four repairs is shown to
give a sequence of events with a length that has the required stays
(`ShortenIsGood`, `FasterIsGood`, `TaxiIsGood`, `SkipIsGood`), and what has a gap is
not offered (`PassingPlan`). The inductive invariant `IInv` says where the
traveller can be and that the last reply keeps what is promised: every call
replaces the reply, every move of the traveller takes it back.

`PlanIsNeverDisrupted` compares two verdicts, that of a timeline and that of the day
of activities left of it. `PassingPlan` says what the first one being good means event
by event, and `IsRest` what `_remaining_request` leaves of it: the stays after an
event, the first of which may have begun, from where the traveller is, with each leg
locked to the mode of its transfer. That it does so is `PlanIsRest`, for which the
invariant has to know that somebody at a stay is at its place (`TravelInv`); the locks
are `LegKeepsMode`, on the way, within a stay and after it. The issues are then taken
one kind at a time. The evidence found for a leg is that found for its transfer
(`RestLeg`), which takes no longer than the plan gave it (`RestLegIssues`). Hours hold
for a part of a stay (`RestStays`). Walks and fares of the legs are sums over some of
the transfers (`RestLimits`, on the sums of `OrderingProofs`). A stretch without a
break is no longer than one of the plan (`RestWindow`, `RestStretch`): `LongestStretch`
folds over the legs, so that its value is taken apart into steps first
(`StretchSteps`, on `StepsExist`). Two conditions of the property were found by this
proof; TLC shows that it fails without either:

- `PlannedAsFound`: transfers are those of the generator. A user may send a timeline
  with a buffer before a bus, whose rest leaves at once and finds an earlier and slower
  bus; one that says less of a walk than its evidence; or two transfers in a row, of
  which only one constrains the leg.
- `StillAdmitted`: the last admission of the place has not passed during the stay (see
  below).

Only model-checked:

- liveness (`CommandsEnd`, `ValidatedIsResolved`, `FetchesEnd`, `PlanningEnds`),
  which is out of the prover's reach. Every invariant and every action property of
  the runs that hold is a theorem.

All three refinements are proved and model-checked.

## Where the code and its documents disagree

Three runs end in a counterexample; each one is under "findings" with the
sentence it contradicts.

1. `bus_stops_resume`: the bus stop publisher does not look for a twin, so a
   data set that is collected twice is VALIDATED for ever.
2. `visitless_day`: repair can remove the last visit, and the error of the model
   of a recommendation is not turned into a failure response.
3. `recovery_in_past`: what is left of a day is repaired as if it had not begun:
   the recovery leaves before the moment of the call.

The models also show what follows here. Each of these has no run of its own;
the property that meets it leaves it out by a named condition, or no document
promises otherwise.

Publication. A rollback accepts a publication that was staged and never
activated (`activation_repository.py:27`, against its docstring). That a
publication is active is checked before the lock is waited for, so coverage can
be appended to a replaced one (`projection_publisher.py:1015`, `:1041`). A manual
import that finds its acquisition VALIDATED reports NO_CHANGE and never publishes
it (`manual_import.py:565`).

Collection. A resume combines pages of two failed runs into a pagination that no
run completed (`refresh_service.py:148`;
`docs/reports/2026-08-24-global-hours-and-exact-timetable-pass.md:55` says that
only completed ones are reused). A body that is no JSON or XML is not
archived, although the spool is said to keep every response. The number of a
first page is looked at by a resume only.

Routing. A route that expires between two looks is fetched without a slot and
uncounted (`runtime_routing.py:628`); a failed route is looked up before the lock
and recorded after it, so waiters repeat it (`:630`).

Bus search. A suspension counts if it holds when the traveller is ready and not
when the bus leaves (`:2135`). The first ride between two stops is the one that
leaves first, not the one that is there first; a second ride of the same
service, or a first ride that is too dear, hides the later ones.
`NothingIsMissed` says in these words what a direct search has seen that ends
without an itinerary: it has refuted every pair of stops, unless a cap ended it.

Generation gateway. Stale special hours of a day hide the weekly closure from
generation, while the evaluator looks at freshness first and calls the same plan
closed (`Hidden` in `HoursAreAsPublished`). A place with breaks but no opening
rule has unknown hours here and is closed there. Closures are never asked for
their age. Entrance facts are added again without their publication, which also
hides that it was replaced; the metadata of the service area are not read again,
so an answer is refused after a switch (`LedgerIsClosed` leaves replaced sources
out). Rides with a change ignore suspensions. The search knows the first opening
window of a place only. Orders of three or more required visits make the relaxed
day the balanced one, which is then refused as not diverse
(`ProposalsKeepTheRequest` says for which requests it is another one).

Generation against evaluation. `SameRules` names where they apply different rules:
taxis without a pickup (a pickup of 0 is falsy, `generation.py:924`), a budget of 0
(`:1207`), a required rest (only what follows the last break counts, `:1131`),
several windows with one remembered last admission
(`runtime_evaluation.py:370`). The buses of a relaxed day are left out as well,
because the evaluator looks them up at the walking speed of a balanced one.
`SlackAgrees` needs none of these conditions for walks and taxis; at the slower
speed of a relaxed day the evaluator sees at least the slack of the plan.

Evaluation and revalidation. The stay that is under way becomes an activity that starts
at the call (`service.py:651`), so a traveller who came in before the last admission and
stays beyond it is told that it was missed and that the day is disrupted, although
`docs/REASON_CODES.md:27` says it of an activity that starts too late
(`StillAdmitted`). A traveller who waits for a bus but names no place
gets an answer from the timetable alone, and so does one whose planned bus is not
found again at its planned time, because the route that was found first is then
returned as it is (`realtime_evidence.py:83`, against `docs/REASON_CODES.md:35`).
`StaticTimesAreNotTrusted` is about the others (`MustBoard`). A later leg from the same stop by the
same route gets the current arrival. An unverifiable stair hides a negative slack.
Live evidence has no last admission. Repairs share the budget of the day, so a
day with many of them raises an error. A repair of activities may shorten a
required stay. On a bus the answer is "on schedule" even if the day itself was
found disrupted. Skipping an activity drops every event between the leg before it
and the leg after it, another stay without a leg in between included
(`evaluation.py:1214`; `StaysAreApart`). Where stairs must be avoided, a leg that may
have some is not timed (`CanFollow`). A failed call for an arrival is claimed again by each leg. A stay
whose planned end has passed is dropped from what is left of the day, although
the traveller has not been there. A bus that is waited for and that is not the
one the evaluator finds is judged by its timetable; `GoodNewsIsTrue` leaves
waiting out.

## Not modelled, and why

- Publication: SQL of the projections, checksums and the contents of rows, as the
  properties only tell data sets apart; the row limits of the quality gate are
  one set (`GoodAcqs`). No manual source takes part in the liveness run, because
  of the VALIDATED import above.
- Collection: parsing of envelopes (one choice of the environment), the spool of
  normalised rows and the upload itself. No version in the instance exceeds
  `MaximumPages`; the branch is modelled.
- RouteFetch: what is in a route. The caches and the set of failed keys have no
  limit on their size and the program never clears them; nor does the model.
- BusSearch: reasons for a leg without an itinerary, two-change itineraries (the
  code has none), fares by age.
- GenerationGateway: names that are ambiguous, preferred and excluded places,
  distances and limits of the clusters, and the older gateways.
- DayPlan: the proposal of orders for other days than those by bus, scores, the
  comparison of the three strategies, the texts of the response, checks of stairs
  and diet, provider failures (a missing route stands for them). A bus of
  `DayTimeline` is a direct ride; `BusSearch` has the change.
- Evaluation: wording, place names, the sources of dietary facts.
- The components with status not_modelled in `PROJECT.json`: parsers and
  configuration are functions of one row or value that unit tests reach; the
  candidate store has no caller in the program; agents, transport and launchers
  are I/O.

## Plan

1. `Service`: readiness, deadlines and the three strategies of one recommendation,
   composed of `RouteFetch` and the outcomes of `DayPlan`.
2. A bus with a change in `DayTimeline`, from `BusSearch`.

The number of runs stays small: a run of a divergence that is understood makes room
for the question of a new module.
