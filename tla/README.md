# Apex Citadel v3 in TLA+

Apex Citadel is a set of Python services that decide on, place and look after
leveraged crypto trades. This directory holds TLA+ models of the part that
carries the decisions and the money, TLC runs over small instances of them and
TLAPS proofs of their main invariants.

1. [The system](#1-the-system)
2. [Modules](#2-modules)
3. [How the models correspond to the code](#3-how-the-models-correspond-to-the-code)
4. [Runs](#4-runs)
5. [Fairness](#5-fairness)
6. [Proofs](#6-proofs)
7. [What is only model-checked](#7-what-is-only-model-checked)
8. [Where the code and its documentation disagree](#8-where-the-code-and-its-documentation-disagree)
9. [What is not modelled, and the plan](#9-what-is-not-modelled-and-the-plan)
10. [Running it](#10-running-it)

## 1. The system

Every service is a FastAPI process with one asyncio event loop: handlers and
background tasks interleave at every `await` and nowhere else. Shared objects are
guarded by `asyncio.Lock`s held over whole methods. Apart from the job queue in
Redis and a model file, all state is in memory and gone when a process dies.

| component | state | operations | talks to |
|---|---|---|---|
| orchestrator, `maestro_v3.py` | settings, HTTP client, the objects below | `/orchestrate`, `/orchestrate_v2`, `/orchestrate_async`, admin endpoints, babysit loop | all of them, over HTTP |
| circuit breakers, `apex_common/circuit_breaker.py` | per node: state, consecutive failures, `opened_at` | `is_available`, `record_success`, `record_failure`, `force_close`, `force_open` | called by `_safe_call` in `node_adapters.py` |
| rate limiter, `apex_common/rate_limit.py` | tokens, last refill | `acquire` | called around every upstream request |
| confluence engine, `apex_common/confluence.py` | none | `evaluate` | called by the orchestrator |
| legacy pipeline, `apex_common/maestro_pipeline.py` | none | `run_pipeline` | shadowglass, brain, executioner |
| position manager, `apm.py` | active positions with four weapons each, log of closed ones, counters | `register_position`, `process_tick`, `force_exit` | called by orchestrator and backtester |
| job queue, `apex_common/redis_queue.py` | job hashes, stream, delayed set, dead-letter stream | enqueue, status, retry, requeue, dead-letter | Redis; a consumer outside the repository |
| SpoofHunter, `spoofhunter.py` | walls, ghost events, icebergs per symbol | `process_depth`, ghost and signal endpoints | depth stream; asked by the orchestrator |
| Jito engine, `jito_spoof.py` | positions, discoveries | `execute_bundle`, trail, emergency exit | RPC endpoints, AntiRug |
| EconoPredator, `econopredator.py` | latest snapshots, short histories | six pollers, read endpoints | public APIs; asked for the ATR |
| Newtonian, `newtonian.py` | returns and pair states | epoch loop, signal endpoint | public APIs |
| Narrative, `narrative.py` | bounded sentiment samples | pollers, ingest, signal endpoint | public APIs |
| Dreamer, `dreamer.py` | observation builders, replay buffer, weights | ingest, imagine, training loop | fed by clients |
| AntiRug, `antirug_v3.py` | a fitted classifier | analyse, retrain | asked by the orchestrator and Jito |
| backtester, `backtester.py` | one replay | run, sweep, report | drives the position manager |
| RPC failover, `apex_common/free_apis.py` | failures and latency per endpoint | choose, report | used by Jito |

What a request does: the orchestrator asks every configured node at once, each
call behind its circuit breaker, its rate limiter and a few attempts, until all
have answered or a deadline cancels the rest; then it asks the brain. The
confluence engine makes one decision of the signals. A decision to trade goes to
the executioner with retries; an accepted order is registered with the position
manager. From then on the babysit loop feeds the position prices, order-book
imbalance and ghost walls every half second, and when the manager exits it sends a
close order.

What makes each part hard, and what makes it correct:

* **Circuit breakers.** Admission and outcome of a call are separate locked steps
  with an HTTP request in between. Outcomes of calls admitted before a trip, a
  reset or a probe arrive after it. Correct: no order of events leaves a breaker
  CLOSED with its allowance used up, or probing before its cooldown; a node that
  fails for good is cut off for good, unless it is gathered and each deadline is there
  before its failures; one that recovers is used again.
* **Confluence.** Four modes, ties, weights, unavailable nodes, thresholds.
  Correct: a trade rests on reasons (nobody vetoed, required nodes answered,
  enough confidence stood behind the side), there is no bias for a side, stricter
  modes trade less, more support never prevents a trade.
* **Orchestrator requests.** Partial answers, deadlines, a non-idempotent order
  sent with retries, a crash anywhere. Correct: an order is justified whichever
  nodes answered; what the client reads matches what was placed; duplicates come
  only from lost answers; only ordered positions are tracked; every request ends.
* **Position manager.** Long tick sequences; four weapons with memories of their
  own; early returns. Correct: the stop only tightens, what is still held never
  crossed a limit, each exit counted once, whatever is fed again and again ends.
* **Babysit loop.** A snapshot worked through over many awaits while requests
  register positions and brackets fire; exits that leave the manager before the
  close order goes out; exceptions in the middle of a cycle; restarts with empty
  memory; orders that nobody registers. Correct: a position that was to be registered
  is not forgotten without a fault, no close order is sent twice, nobody starves
  without a known cause.
* **Job queue.** Every helper is several Redis commands, and two requests, a worker
  and a scheduler send theirs in between; connections fail half-way, hashes expire.
  Correct: an idempotency key buys one run, no job a caller was told of disappears,
  the status tells where the job is; and where that cannot be had, it is known why.
* **SpoofHunter.** A wall that goes is a ghost, was eaten or had stood too long,
  and which it is depends on the order of the scan and the classification. Correct:
  an event says how long the wall stood; no tracker is kept for ever.
* **Jito engine.** Requests wait for screens and for the chain while prices,
  timeouts and emergency exits change the positions of others. Correct: answers,
  counters, positions and the log of exits agree; a stop that is hit and a time that
  is up end the position.
* **Newtonian and EconoPredator.** Sources that are late, silent or partial, read
  into state that keeps old data in one node and forgets it in the other. Correct: a
  brake rests on what the sources said; a crisis that lasts sets it.
* **Narrative, Dreamer, AntiRug.** Their answers decide trades; the numbers behind
  them are floating-point scores. Correct: no bias for a side; contagion stops trades.
* **Backtester.** A ledger of its own beside the manager's books, a clock that is
  not the manager's. Correct: the two agree, and everything opened is recorded.
* **Rate limiter, RPC failover.** In section 9.

`PROJECT.json` lists the hazards at their lines, each with the properties about it
or the reason why there is none yet.

## 2. Modules

| module | what it is |
|---|---|
| `CircuitBreaker` | breaker registry, the calls through it, clock, admin, node health |
| `Confluence` | the gate engine as operators on a function from nodes to signals; no state |
| `Orchestrate` | one request, EXTENDS `Confluence` |
| `Apm` | the position manager |
| `Positions` | abstract: what any position manager promises; `Apm` implements it |
| `Babysit` | the loop, requests and exchange around the manager, which it reduces to hold / exit / raise |
| `Signals` | the answers of Dreamer, Narrative, SpoofHunter and AntiRug as operators; no state |
| `JobQueue` | the helpers of the queue as lists of Redis commands, its endpoints, an external worker and scheduler |
| `SpoofWalls` | the wall trackers and ghost events of SpoofHunter |
| `JitoPositions` | requests, bundles and positions of the Jito engine |
| `Gravity` | Newtonian's epochs and signal |
| `MacroStore` | EconoPredator's macro poll and kill switch |
| `Stops` | `Gravity` and `MacroStore` in one world of sources |
| `Backtest` | the replay, EXTENDS `Apm` |
| `MC*` | values for the constants of the module it extends |
| `*_proofs` | theorems and proofs about the module it extends; `Apm_proofs` extends `Backtest` and proves about both |

Composition: `Orchestrate` composes the engine, the gathering, the executioner and
the registration; `Babysit` composes the end of that (placed, then registered or
not) with the loop and the manager. What `Babysit` assumes of the manager is what
`Apm` has: a tick holds or exits, and a position that is fed
past the limit is left (`EverythingEnds`), a
position left is never held again (`KeepsPromise`), a position without entry price
raises (`TickRaises` in both). `Orchestrate` takes a node's unavailability as
given; `CircuitBreaker` says when the breaker causes it. `MCOrchestrate` extends
`Orchestrate` and `Signals`, so that the answers of the modelled nodes are those
their code computes. `Backtest` drives the very actions of `Apm`. `Stops` puts
`Gravity` and `MacroStore`, which share nothing but the markets they watch, into
one world that turns from calm to crisis to outage at any time.

A definition that is followed by the one it resembles (`CooledAtOnce` before
`Cooled`) is a slip a programmer could make in it. Nothing uses it; `PROJECT.json`
pairs it with the property that is violated when it takes the other's place.

## 3. How the models correspond to the code

**CircuitBreaker.** `AdmitTo`, `RecordSuccess`, `RecordFailure`, `ForceClose`,
`ForceOpen` are the registry's methods, atomic because each holds the lock without
awaiting inside. `Begin`/`Succeed`/`Fail`/`Cancel` are `_safe_call`; `Cancel` is the
gather deadline, which takes any gathered call that is not done, be its node silent,
slow or in a retry's pause, and whose `CancelledError` is no `Exception` and so
records nothing.
Timestamps are ages that saturate at `Cooldown`, the failure count saturates at
`Threshold`: the code compares them with nothing larger.

**Confluence.** Confidences are integers in 0..`Scale`; averages and scores are
compared by cross-multiplication, so no gate depends on rounding. Weights are
naturals. `MapThenSumSet` and `FoldSet` stand for the sums and the product. A node
without URL is an unavailable signal. `reason`, `gates` and other report fields are
left out. So is NaN, which Python's `min`/`max` turn into a confidence of 1.0.

**Orchestrate.** `Answer` is one adapter's reply, from the set `Replies[n]`;
`GatherDone` is the gather's end or its deadline with any subset answered;
`AskBrain` and `Decide` follow the handler, with the two sources of
`min_confidence` that `EngineMinConf` makes explicit. `Strike*` are the outcomes of
one attempt of `retry_with_backoff`: accepted, refused, unclear (timeout, retryable
status, unreadable body: an order may exist) and raised at once. `Register` may
fail. `Crash` is enabled everywhere. Order sizes are in ten-thousandths of equity
(the code's 0.0005 is 5) and rounded down.

**Apm.** Every method holds the lock, so `Register`, `Tick`, `ForceExit` are one
action each. `Ticked` is the position after a whole tick, `Due` the condition of
each exit and `Priority` the order of the early returns: the first reason due is
the reason of the exit. That all weapons are computed before the first condition
is looked at changes nothing, because a weapon reads nothing a later one writes
and an exited position's weapons are never read again (`Retired` forgets them).
`TickRaises` keeps the fields that were assigned before the division by the entry
price. Prices are integers, stops hundredths, ages steps of a clock that saturate
beyond the longest limit; the ghost buffer keeps its `maxlen`. VPIN is its level,
which a traded tick may move anywhere.

**Babysit.** One action per stretch between awaits that matter. `Look` takes the
snapshot, `Current` is dictionary order (registration). `PriceKnown` and
`PriceUnknown` are the three sources of a price; the last one known to the manager
counts (`seen`), which is why `PriceUnknown` needs `p \notin seen`. `TickExits`
takes the position from the manager before `Closes` or `CloseFails` sends the
order. `Reduced` is what a reduce-only order without quantity closes. `Crash`
covers both death and shutdown: nothing in the code closes or saves positions.
`PlaceUnwatched` is an order that nobody registers by design: `/orchestrate_v2` places
and forgets, and `/orchestrate` does so with the APM off or a report it does not
know. `excused` (a fault lost it) and `unwatched` (nobody meant to watch it) are
history variables for the properties.

**Signals.** The dreamer's observation is where each feature lies between the
heuristic's thresholds; its scores are exact, in hundredths; the softmax of them is
any confidence. `DreamerAnswer` is what `imagine` makes of a choice, whichever model
made it. The narrative's and SpoofHunter's answers are computed from the numbers
their engines publish, rounded down to hundredths.

**JobQueue.** A call in flight is the list of commands it has still to send; `Do`
sends one. So `Enqueuing`, `Requeuing`, `Finishing`, `Retrying`, `Burying` and
`Popped` are the helpers line by line, and `Fail` between any two commands loses the
rest. `marks` is history: what happened to a job that the properties except. Worker
and scheduler are not in the repository; they use the helpers in the order the
helpers' names ask for. Redis itself loses nothing but hashes (`Lose`: the time to
live, or eviction).

**SpoofWalls.** `Snapshot` is `process_depth`: `Scanned`, then `Pulled`, `Filled`
and `Settled` on what the scan left. The order of the trackers decides only the
order of the events of one snapshot and is left open. `stands` is history: how long
each level really stood in the books, and whether it was let go of. Left out:
icebergs, published prices.

**JitoPositions.** A request waits at most twice, for AntiRug and for the chain; the
lock is never held across a wait, so all between two waits is one action. `Followed`
is the early return of `update_trail_stop`, `Moved` its update; `best` and `due` are
history, the best price fed and whether the last one was at the stop or late. Nothing in the
repository but the tests feeds prices to a position, so any price may come.

**Gravity, MacroStore, Stops.** `Epoch` is a pass of `epoch_loop`: fetches, then
`compute_epoch` under the lock. A batch of klines stands for its returns and mass,
`Correlation` for their correlation. `AskQuotes`, `AskFallback`, `AskFear` and
`Store` are `poll_macro`, one action per await. `news`, `heard` and `known` (the
last levels anyone answered) are history. In a crisis one of the two sources of the
VIX answers, either one. A
symbol of a trading pair has no pair of assets and waits, as in the code (section 8).

**Backtest.** `Visit` gives one open position the tick, `Advance` enters and goes on,
`ForceClose` closes what is left, `Return` ends. The manager's clock (`WallClock`)
runs on its own, because the replay's simulated time is not used. Gains are in price
units. Left out: generators, loaders, equity and the statistics made of it.

Modelled as external, from how the repository calls them: upstream node health, the
nodes' answers, executioner and exchange, the clocks.

## 4. Runs

Each property is paired with a slip that TLC finds violates it under the
same configuration.

| run | instance | properties |
|---|---|---|
| `breaker` | 2 nodes (one gathered, one not), 2 calls, Threshold 2, Cooldown 1 | `ClosedBelowThreshold`, `ProbeAfterCooldown`, `QuietBeforeProbe`, `FailingIsCutOff`, `RecoveredIsClosed` |
| `request` | 4 nodes, 4 modes, default mode, v2; dry and real; 3 attempts | `TypeOK`, `OrderJustified`, `DuplicatesExplained`, `StatusTellsOrders`, `RiskWithinRequest`, `AlwaysAnswered`; of the engine `SideSymmetric`, `ModesNested`, `SupportNeverHurts` |
| `apm_position` | one position: LONG, SHORT, NONE, or without entry price | `HeldWithinLimits`, `StopRatchets`, `StopKeepsDistance`, `WeaponsAgree`, `DecayIsTrue`, `EverythingEnds` |
| `babysit` | three positions in one symbol, one crash | `OrphansExplained`, `ClosedOnce`, `SnapshotIsLive`, `EveryoneIsReached` |
| `queue` | one job, two requests, worker, scheduler, one fault | `OneRunAhead`, `NothingForgotten`, `StatusIsPlace` |
| `walls` | two bid levels and an ask, a wall of four sizes in and out of reach | `GhostsWereYoung`, `TrackersEnd` |
| `stops` | two assets, two kinds of klines, levels on both sides of the thresholds | `ContagionIsNews`, `KillIsBacked`, `CrisisStops` |
| `jito` | three requests, two mints, four modes, four prices | `Accounted`, `ExitsTellHistory` |
| `replay` | every tape of five ticks over four moves, three strategies, two positions at once, a log of two exits | `LedgerAgrees`, `BooksAgree`, `KeepsPromise` (refinement of `Positions`), `AllRecorded` |
| `orc_zerorisk`, `babysit_unfed`, `jito_due` | violations | see section 8 |

The `request` run also evaluates, as assumptions of `MCOrchestrate`, two facts about
`Signals` over all observations of the dreamer and a grid of numbers:
`ContagionStopsLongs` and `AnswersMirrored`. Type invariants are checked by
`request` and proved for the modules of section 6.

What the runs show of each hazard is in `PROJECT.json`. In short: late outcomes,
deadlines, lost answers, crashes and mid-cycle exceptions do what their handlers
should, with the exceptions that `excused`, `unwatched`, `marks` and section 8 name. For the
queue the exceptions are the result: a job runs twice only if two enqueues overlapped, its
retry was asked for, its hash was lost or a call was cut short, and a job is lost
only by a scheduler that fails between popping it and putting it back. For the walls
too: a ghost older than a ghost may be was let go of while it stood and taken up again.

Why the bounds are enough:

* `breaker`: two calls are what it takes for an outcome to be late with respect to
  another one; Threshold 2 distinguishes counting from tripping at once; one tick
  of cooldown separates "just opened" from "cooled". Nodes do not interact, so two
  of different kinds cover both ways of calling. The proofs cover all values of
  the safety part.
* `request`: the four nodes have every role and every pair of roles the defaults
  give (survival and direction and risk, direction only, survival only), the brain
  has weight 2 so that weights differ, numbers out of range are among the answers,
  a required node is among those that may be missing, and three attempts give two
  unclear ones before the last. Every subset of answers meets the deadline. With
  three directional nodes ties, majorities and unanimous votes all occur.
* `apm_position`: prices on both sides of every limit and of the stale-move
  threshold, an ATR for which the first stop lies inside the hard stop and one for
  which it lies beyond, imbalances that widen and tighten, smoothing over two ticks,
  ghost notionals that reach the threshold only together, two ticks between clock
  steps, ages up to the time limit. The position of side NONE takes the `else`
  branches of the code, the one without entry price raises in every tick.
* `babysit`: the three positions share a symbol and so a close order's reach; they
  are LONG, SHORT and NONE, and the SHORT one has no entry price and ends cycles
  early, wherever it comes in the order of registration; one crash happens at any
  step.
* `queue`: jobs share no key of Redis but the stream and the set, whose order the
  model leaves open or ignores, so one job has every interleaving that matters; two
  requests are what it takes to overlap, and one fault cuts any call at any command.
  Each mark a property excepts is needed: TLC finds the property violated without it.
  Three requests with two faults, and two jobs without faults, were checked once.
* `walls`: a wall eaten to a fifth of 30 is above or below the threshold of 5; a
  level goes out of reach and comes back; `Lifetime` 1 distinguishes young, old and
  settled (five lifetimes). A log of one event drops events.
* `stops`: levels at and above 35, at and below 20; klines that correlate positively,
  negatively and not at all, with forces that rise enough for contagion and fall
  enough for divergence. Three assets, and a third kind of klines, were checked once.
* `jito`: prices below the stop, between, and two above the entry; rug answers at the
  limit and above; `AutoExit` and `Depth` of 1 tell before from after; a log of one
  exit drops exits.
* `replay`: the moves trigger take profit, hard stop, the time exits and the forced
  close, in ticks in which several positions exit and one enters; the second tick
  differs in volume and price for every strategy; with three exits and a log of two the
  log must drop one. `momentum` is reached through `multi`.
* No run uses a state constraint. `queue` and `jito` take requests as symmetric: none
  is named by an action or a property, and neither run has a temporal property. The
  bounds are in guards (`TicksPerAge`, `MaxCrashes`, `Attempts`, `CallBound`,
  `FaultBound`, `Horizon`) or in what the code itself saturates.

`CHECK_DEADLOCK FALSE` stands where the model ends: a request is over, all
position ids are used, the queue's requests and faults are spent.

## 5. Fairness

* `CircuitBreaker`: the clock ticks; a call in flight has an outcome, because the
  HTTP timeouts and the gather deadline are unconditional; a node that is available
  again and again is called again (strong fairness: requests keep arriving).
  Nothing is assumed of health changes; the admins' part is the premise
  `AdminsStop` of the two properties.
* `Orchestrate`: weak fairness of `Progress`, every step of the handler itself. No
  node has to answer; every other wait has a timeout.
* `Apm`, for `EverythingEnds`: only that time passes. That a position is fed is no
  fairness, because the loop does not grant it (`babysit_unfed`): the property says
  that one that stays held, with an entry price, was from some time on not fed.
* `SpoofWalls`: snapshots keep coming, because the stream is reconnected for ever,
  and time passes.
* `Stops`: both loops go on, because every request has a timeout, every exception is
  caught and both sleep for a fixed time. Nothing is assumed of the world; crises and
  outages that last are premises.
* `Backtest`: weak fairness of the replay's own step; it waits for nothing.
* `JobQueue` and `JitoPositions` have no liveness: the worker that would have to be
  fair is not in the repository, and nothing there feeds a position prices.
* `Babysit`: weak fairness of the loop (every await in it has a timeout, every
  exception is caught) and of the clock; strong fairness of getting a price that
  one of the services knows. Close orders may always fail, nothing has to be
  registered, and no restart is assumed.

## 6. Proofs

All theorems are for every value of the constants under the named assumptions of
the modules (for example `Threshold \in Nat \ {0}`). Each module's safety theorems
come from one inductive invariant.

**`CircuitBreaker_proofs`** (`TypeCorrect`, `ClosedHasAllowance`,
`CooldownHonoured`, `ProbeIsQuiet`). `QuietBeforeProbe` alone is not inductive: a
state OPEN with an old opening and a recent failure would be admitted. `Inv` adds
`OpenedSinceLastFailure`, that the opening is never older than the last failure
while failures hold the breaker open; admission of a cooled breaker then gives the
quiet cooldown.

**`Orchestrate_proofs`.** `EvaluateJustified`: for any set of nodes, roles, weights,
mode and signals, an EXECUTE has its justification (given `Fallback # "EXECUTE"`;
with that fallback the engine trades without any gate, see section 8). From it
`OrdersAreJustified`, with the invariant that ties phases after the decision to the
decision of the gathered signals; `RetriesExplainDuplicates` and `StatusIsHonest`
count orders against attempts of unclear outcome, phase by phase;
`TrackedPositionsExist` says that only an ordered position is tracked.

The engine's own properties rest on lemmas about folds. `MapThenSumSet` and `FoldSet`
are recursions on the subsets of a finite set, one element picked at a time; a claim
about them is proved by taking a smallest subset for which it fails
(`SmallestSubset`), which needs no induction theorem. So a sum does not depend on the
order of picking, can be split at any element, grows with its terms and scales with
its weights; `Stake` and `Multiplied` name the two folds so that the lemmas apply to
them. From these: `TypeCorrect` and `RiskBounded` (a confidence stays in 0..`Scale`
through every average, and an order's size under what was asked);
`MirrorDecision` and `NoDirectionalBias` (swapping LONG and SHORT in every signal
swaps the side of the decision and nothing else); `StricterModesTradeLess` (AND
implies MAJORITY implies OR); `SupportHelps` and `AgreementCannotHurt` (one supporter
more keeps the trade). The last was first stated for every request and its proof did
not go through, for a good reason: the v2 pipeline passes the brain's number on
unclamped, and a supporter of negative confidence lowers an average. v2 never asks
the engine, so the property now speaks of v3, where confidences are clamped. The
theorems assume that there are finitely many nodes.

**`Apm_proofs`.** The inductive invariant is types plus one predicate of a single
position: the stop's distance, the weapons' agreement, the limits, the marks the
exit reasons leave. A tick is then one lemma per conjunct on the record `Ticked`,
and every action touches one position or only ages. Results: `HeldIsWithinLimits`,
`StopIsDistant`, `StopNeverGivesWay` (an action property), `WeaponsShareTheirMemory`,
`DecayIsHonest`, `BooksAreKept` (a second invariant over the first: what is counted is
the set of closed positions, finite because a step closes at most one, and a closed
position keeps its reason), and `ManagerKeepsPromise`: with `guard` the sides and stops of the
active positions and `left` the exit reasons, every step of `Apm` is a step of
`Positions` or stutters. All of it is proved of `Driven`, the manager under any
sequence of its operations with offers of the right type; `Spec` is one such driver.

The replay is another. `RInv` is what the ledger and the books owe each other between
two steps of the loop: the positions still to visit at this tick are among the open
ones, which are those the manager holds, each once; the record of a held position has
been swung to this tick's price unless it is still to be visited; and the ledger lists
the closed positions, each once, with the manager's gain, an excursion that covers it,
and as many for each reason as the manager counts. The middle part makes it inductive:
without it a record could leave with a gain above its best move. `LedgerIsRight`
follows. `ReplayIsDriven` then shows that each step of the replay is an operation of
the manager with a proper offer (a strategy enters on a side or not at all, and
`_estimate_atr` is a natural number and divides by none that is zero), so
`ReplayKeepsTheManagersWord`: what is proved of a live position holds of a replayed one.

**`Babysit_proofs`** (`TypeCorrect`, `OrphansHaveACause`, `OneCloseOrder`,
`SnapshotStaysLive`). An open position that nobody sees to was never meant to be
registered, or a fault outside the loop lost it; that the first kind exists is what
`PlaceUnwatched` is for. A snapshot stays live because only the loop removes positions,
which is inductive only together with: turns are distinct, so at most one position
is current (`TurnsDistinct`); a held position's request is settled, so it cannot be
registered again (`Settled`); and a position for which a close order went out is no
longer held (`ClosedIsGone`).

**`JobQueue_proofs`** (`TypeCorrect`, `NothingIsForgotten`, `OneRunIsAhead`,
`StatusTellsPlace`). The first invariant, `IInv`, ties each
call in flight to its kind: only the worker acknowledges, last of all, and only what
it took (`Fits`); so the entry a worker has in hand is pending until its result, its
retry or its dead letter is written. A retry is in the set, in a call that puts it
back, or marked.

`QInv` adds where a job is and what its hash says. While nothing has happened to a job
that excuses a second run, it is at one place: unread, delayed, ended, or in the hands
of one call; and a job its hash does not know is nowhere, which is why a second enqueue
cannot double it. While nothing at all has been marked, one call at most is about it,
every status that call has still to write is the one of the place it is taking the job
to, and when no call is about it the hash names its place. The proof found that `Place`
was written with a CASE whose arms overlap, which TLA+ leaves open and TLC resolves by
order; it is a chain of conditions now.

**`SpoofWalls_proofs`** (`TypeCorrect`, `GhostsAreYoung`). `TrackersKnow` compares
each tracker with the history of its level: never let go of, it is as old as the wall;
let go of for its age, the wall is older than any ghost may be.

**`JitoPositions_proofs`** (`TypeCorrect`, `BooksAgree`, `ExitsExplained`). One
predicate ties a call to the position it opened, one tells what
the fields of a position say of its life, one counts; every request step is an answer
of one of four kinds, and one lemma says what each does to the counts.

**`Stops_proofs`** (`TypeCorrect`, `ContagionsAreNews`, `KillsAreBacked`).
`PairsOnNews` is the strengthening of the first: the force a pair remembers is that of
the klines in hand, and it rises only with news. `Defaulted` and `StoreOfKnown` are that
of the second: what a poll has not heard is at its default, and what the store has that
is not at its default is the last level known.

## 7. What is only model-checked

* All liveness: `FailingIsCutOff`, `RecoveredIsClosed`, `AlwaysAnswered`,
  `EverythingEnds`, `EveryoneIsReached`, `TrackersEnd`, `CrisisStops`,
  `AllRecorded`. Fairness is built on ENABLED, which the provers
  here do not handle.
* The facts about the nodes' answers in `Signals` rest on finite grids that TLC goes
  through; no theorem is about them.
* The three runs that end in a violation show what the code does; there is nothing to
  prove of them.

## 8. Where the code and its documentation disagree

With a run that shows it:

* `orc_zerorisk`: a risk multiplier of zero is lifted to the minimum order size
  (`maestro_v3.py:499`); the dreamer's comment (`dreamer.py:578`) says no trade. The
  dreamer answers zero whenever it prefers not to trade, and before its first tick.
* `babysit_unfed`: a position is registered under its ccxt symbol, for which neither
  price source has a price, so the loop passes it over for ever
  (`maestro_v3.py:204`, against the loop's docstring from line 175).
* `jito_due`: after its first new high a Jito position is TRAILING, and neither the
  trailing stop nor the "Auto-exit after MAX minutes" (`jito_spoof.py:230`) is looked at
  again (215).

Noticed while modelling, and in the models as the code has it, without a run:

* AND is unanimity of the nodes that say EXECUTE, not of all (`confluence.py:145`,
  doc line 39); MAJORITY is of those nodes too (167, doc 41); the fallback EXECUTE
  for missing required nodes skips the other gates (263, doc 10).
* A late success closes an OPEN breaker without a probe (`circuit_breaker.py:89`,
  doc 10); a gathered node that hangs is never counted as failing
  (`node_adapters.py:68`), nor is one that answers its errors too slowly for the deadline.
* With VPIN toxic the multiple is set to 0.5 ATR and then smoothed back towards its
  target in the same tick (`apm.py:602-612`, doc 467).
* On shutdown the cancelled babysit task re-raises `CancelledError`, which
  `except Exception` lets through, so the clients are not closed
  (`maestro_v3.py:332-336`).
* The loop always feeds volume 0 (`maestro_v3.py:200`), so live VPIN never moves; in
  `Apm` traded ticks occur as in the backtester and the tests.
* When SpoofHunter is down the last price known to the manager is used and the
  ticker is not asked (`maestro_v3.py:227`).
* HALF_OPEN lets every concurrent call through (`circuit_breaker.py:80`), the
  docstring (line 6) says one probe.
* A position registered with entry price 0, which is what the orchestrator passes when
  shadowglass did not answer, raises in every tick before any exit can happen
  (`apm.py:549`, `maestro_v3.py:679`, against `apm.py:429`).
* A missing VIX is stored as 0 and a missing index as 50, which releases the kill
  switch (`econopredator.py:558-567`), the docstring (486) has a "Cached fallback
  (last known value)". `KillIsBacked` and `CrisisStops` hold of either.
* Newtonian's KILL is no veto, because the node has no survival role
  (`confluence.py:83-94`), and it is asked for by pair symbol while it keeps assets
  (`newtonian.py:277`): no pair matches and it always waits.
* "KILL everything" in contagion (`dreamer.py:474`) does not stop a short that nearly
  all else speaks for in a volume surge: `ContagionStopsLongs` says which.
* The comment says ghosts of bids (`dreamer.py:450`), the feature has no side: the
  heuristic takes any ghosts as bearish.
* A wall eaten out of sight and then gone is a ghost, where `tests/test_spoofhunter.py:105`
  says that a consumed wall is FILLED, not PULLED; and a wall whose tracker was let
  go of while it stands is taken up again as new by the next snapshot
  (`spoofhunter.py:293-299`). No property excuses the first; `GhostsWereYoung` excuses
  the second by name.
* "Fallback to guard mode" (`jito_spoof.py:428`) is a recursion that stays in jito mode.
* Simulated time is computed and not used (`backtester.py:756-758`): decay, time limit
  and ghost window run on the wall clock of the replay.
* A NaN confidence becomes 1.0, because `min(1.0, nan)` is 1.0 (`confluence.py:35`).
* The ATR is requested under a symbol with a slash, another path segment
  (`maestro_v3.py:660`): every position takes the default.
* A ghost event is fed again by every poll within its window (`maestro_v3.py:217`).
* A token bucket with a capacity below one call never lets one through
  (`rate_limit.py:28`); when no RPC endpoint is healthy all failure counts are
  cleared, the one just reported included (`free_apis.py:74`).

## 9. What is not modelled, and the plan

* **Rate limiter.** A bucket that only delays a call. Everywhere a call may take any
  time and may be cancelled, so nothing checked depends on it.
* **RPC failover and data sources.** Whichever endpoint is chosen, a call succeeds or
  fails, and `JitoPositions` takes both everywhere; the fetchers are I/O in a
  first-success order.
* **Narrative, Dreamer, AntiRug** beyond their answers: text scoring, a decayed average,
  linear algebra, a fitted classifier, each around little state.
* **EconoPredator's other pollers** overwrite one snapshot per symbol that is only
  reported; **SpoofHunter's icebergs** and published prices likewise.
* **Jito**: discoveries, statistics, signing. **Backtester**: generators, loaders,
  equity, statistics and rankings.
* **Symbols, configuration, credentials, metrics, logging, HTTP clients, deployment and
  set-up scripts**: no state that changes, or build and I/O. Constants of the modules are
  what configuration sets.
* **The v2 nodes** are not in the repository; they are external actors.

Every safety property that a passing run checks is a theorem. The plan that is left: an
abstract queue that `JobQueue` implements, with a proof.

## 10. Running it

    tlc -config Orchestrate_request.cfg MCOrchestrate.tla
    tlapm Orchestrate_proofs.tla

`PROJECT.json` names the module and configuration of every run, and for every
modelled definition the lines of the source it stands for.
