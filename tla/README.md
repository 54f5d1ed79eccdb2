# A verification project for market-maker-go

TLA+ models of the parts of market-maker-go whose correctness depends on more
than one actor, TLC runs that check them on small instances, and TLAPS proofs of
the properties that matter most. `PROJECT.json` lists components, runs, mutants
(plausible bugs each property is shown to catch), the source lines behind every
definition, findings, hazards and theorems.

## 1. The system

Two programs share one set of packages.

* The **library engine** (`internal/`): `TradingEngine` runs one event loop that
  quotes through `strategy.BasicMarketMaking`, sends orders through
  `order.Manager`, and is watched by `risk.Monitor`, whose emergency callback
  pauses it and cancels its orders. `internal/container` builds the parts.
* The **live runner** (`cmd/runner` with `sim.Runner`): a ticker calls
  `Runner.OnTick`, which quotes, replaces, halts and cancels through the same
  `order.Manager`, while a user-stream goroutine reports fills.

| Component | State | Operations | Interacts with |
|---|---|---|---|
| `order.Manager`, `order.StateMachine` | status of every order, under `m.mu` | Submit, Cancel, Update, UpdateStatus, GetActiveOrders | gateway (outside the lock), user stream, reconciler, engine, runner |
| `order.Reconciler` | channels, counters | Reconcile, ReconcileBySymbol, Start, Stop | manager, `GetOrder`, `GetOpenOrders` |
| `risk.CircuitBreaker` | state, three counters, openTime | Call, RecordSuccess/Failure, ForceOpen/Close, Reset, AllowRequest | monitor |
| `risk.Monitor`, `risk.PnLMonitor` | risk state; realized, unrealized and daily PnL, peak, drawdown | checkRisk, CheckPreTrade, RecordTrade, TriggerEmergencyStop, ResumeTrading, Reset, Start, Stop | breaker, engine (callback) |
| `engine.TradingEngine` | state, stopChan, doneChan, counters | Start, Stop, Pause, Resume, onTick, onReconcile, cancelAllOrders, placeOrder | all of the above |
| `strategy.BasicMarketMaking` | volatility, fills | GenerateQuotes, OnFill | engine |
| `inventory.Tracker` | net position, cost | Update, SetExposure | engine, runner |
| `sim.Runner` | last orders, static orders, dynamic legs, halt, cooldowns | OnTick and its helpers | manager, guards, fill tracker |
| `order.FillTracker` | recent fills, rate | RecordFill, Reset, ShouldSuppressCancel | runner |
| `cmd/runner` | ticker, id maps of the REST gateway, listen key | Place, Cancel, user-stream handler, keepAliveLoop | order book, runner, REST client, exchange |
| `market.OrderBook` | bids, asks, time of the last update | SetBest, ApplyDelta, Mid, LastUpdate | stream, ticker, runner |
| `gateway.BinanceWSReal` | connection, retries | Run | book, user handler |
| `gateway.WSReconnectManager` | connection, channels, delay | Start, Stop, run, readLoop, heartbeatLoop | exchange |
| `gateway.TokenBucketLimiter` | tokens, last | Wait | every REST call |
| `gateway.BinanceRESTClient`, `RESTMiddleware` | none of its own; each call an attempt, a delay, a signature | the methods of the client, sendWithRetry, ExecuteWithRetry | limiter, exchange |
| `config.HotReloader` | lastReload, channels, watcher | Start, Stop, watch, ApplyParameters | files, parameters of all components |
| alert manager, container | small | see `PROJECT.json` | channels, components |

What is hard in it: the status of one order is written by four goroutines (the
submitter, a canceller, the user stream, the reconciler), each after a network
call made without the lock; the breaker is handed results of calls that were
admitted in another state; the monitor's critical sections do not exclude the
recorders of PnL and results; the engine's Stop, its loop, its risk monitor and
the emergency callback run against each other with timeouts; replies are lost,
late, or arrive out of order, and requests are sent again; streams break and are
dialed again while old heartbeats go on; one book is read twice by a ticker and
written by a stream in between; and a change of a file is known by its event only. `PROJECT.json` lists these hazards line by
line, each with the properties that would catch it going wrong.

What makes each part correct, in a sentence: the *book of orders* never
contradicts the exchange and sees every live order; the *breaker* trips at its
threshold, stays tripped, and recovers; the *monitor* stops trading on a breach
and keeps it stopped; the *engine* has one loop, dies of no channel, and is flat
when stopped; the *runner* does not lose track of an order or quote while halted;
the *reconnecter* stops when told to, and otherwise reconnects without leaking a
socket; the *limiter* keeps a rate; a *REST call* ends in bounded time and places no
order late or, unless an answer was lost, twice; the *live runner* does not quote on
old prices and its inventory catches up with the exchange; the *reloader* leaves no
parameter stale that it was told of.

## 2. Modules

| Module | Models | Extends |
|---|---|---|
| `OrderLifecycle` | what the order layer promises: the exchange's fate of an order and the book's view of it | |
| `OrderManager` | `order/manager.go`, `order/state_machine.go`, `order/reconciler.go`, with the exchange, the network and the user stream | |
| `BreakerState` | the methods of `risk/circuit_breaker.go` as operators on a record | |
| `CircuitBreaker` | one breaker under concurrent use | `BreakerState` |
| `RiskMonitor` | `risk/monitor.go`, `risk/pnl_monitor.go` | `BreakerState` |
| `TradingEngine` | `engine/trading_engine.go`, and Start, Stop and the loop of `risk/monitor.go` | |
| `Runner` | `sim/runner.go`: OnTick and its helpers, `inventory/position.go`, the handlers of `cmd/runner` that reach them | |
| `QuoteCycle` | the quantities of a tick: `strategy/basic_mm.go`, the clamp and the cancels of `engine/trading_engine.go`, `inventory/position.go` | |
| `FillTracker` | `order/fill_tracker.go` and the cancel suppression of `sim/runner.go` | |
| `LiveRunner` | `cmd/runner/main.go` with `market/orderbook.go`, `gateway/binance_ws_real.go`, its parser, its user handler and the listen key | |
| `WSReconnect` | `gateway/ws_reconnect.go` | |
| `TokenBucket` | `gateway/limiter.go` | |
| `RestGateway` | `gateway/binance_rest_client.go`, `gateway/rest_middleware.go`, the signatures, the exchange | `TokenBucket` |
| `HotReload` | `config/hot_reload.go` | |
| `OrderProofs` | theorems about `OrderManager` and `FillTracker` | both |
| `RiskProofs` | theorems about `BreakerState`, `CircuitBreaker`, `RiskMonitor` | the last two |
| `RestGatewayProofs` | theorems about `TokenBucket` and `RestGateway` | `RestGateway` |
| `StrategyProofs` | theorems about `QuoteCycle` and `HotReload` | both |
| other `*Proofs` | theorems | the module they are named for |
| `MC*` | instances for TLC | the module they are named for |

Definitions marked `Fault:` are not part of any specification. Each is one
definition of the model with a plausible bug in it, used to show that a property
would notice that bug.

### OrderManager

`status` is `Manager.orders`. A step is one critical section of `m.mu` or one
gateway event, because the manager never holds its lock across a gateway call:
`SubmitRegister` is Submit up to `gw.Place`; `SubmitAck` and `SubmitReject` are
its two returns; `CancelSend`, `CancelOk`, `CancelError` cut Cancel the same way.
`sweep` holds a reconciliation: `Reconcile` snapshots the active orders, fetches
each (`FetchOk`, `FetchError`), compares (`Compare`, which reads `local.Status`
through a pointer, without the lock) and writes (`Resolve`).
`ReconcileBySymbol` lists first (`ListOpenOrders`) and matches later. `exchange`,
`network` and `stream` are external: a request is processed any time after it was
sent, also after its caller has given up; updates of an order are streamed in the
order they happen and lost together when the connection drops. Go's map of orders
is a function; the ids are the constants `Orders`, because Submit makes a fresh id
for each order. The model assumes a gateway that passes the order's id on as the
client order id, as `internal/container/container.go` does; `cmd/runner`'s gateway
does not (see `LiveRunner`).

`OrderLifecycle` is the abstract specification. The refinement maps `exchange` to
`fate` (`FateOf`) and `status` to `view` (`ViewOf`) and hides everything else.

### BreakerState, CircuitBreaker

Every method of the breaker runs under `cb.mu` from start to end, so each is one
operator on a record. `cooled` stands for `time.Since(openTime) >= timeout`; it
becomes true by the action `CBCool` (`Cool` in `RiskMonitor`) and false whenever openTime is set. In
`CircuitBreaker`, `Admit` and `Return` are the two halves of `Call` around `fn`,
which runs without the lock; whether `fn` can fail is `healthy`.

### RiskMonitor

`checkRisk` holds `m.mu`, but the PnL monitor and the breaker have locks of their
own and are written by `RecordTrade`, `RecordFailure`, `RecordSuccess` and
`UpdateUnrealizedPnL` without `m.mu`. A check is therefore one action per call it
makes, and so are TriggerEmergencyStop, ResumeTrading and Reset. PnL is in whole
units; `maxDrawdown` is represented by the two comparisons made with it, which
stay true once true, until Reset. CheckPreTrade and IsTrading change nothing:
IsTrading is an operator, CheckPreTrade enters `TradingEngine` as a guard.

### TradingEngine

`loops[n]` is the event loop started by the n-th Start, `stop` and `done` the
channels it holds: `run` evaluates `e.stopChan` at each select and `e.doneChan`
once, in its defer statement. `made` numbers the pair of channels the engine
holds. `stops[s]` is a goroutine in Stop, at the step after its last visible
operation; `monitor` has the channels of `risk.Monitor`, which are made once;
`callback` is the goroutine of the emergency callback. Where an order is
(`free`, `sent`, `live`) stands for the order layer of `OrderManager`. The ghost
`late` records that a Stop gave up waiting for the loop, `failed` that a cancel
failed for an order that still existed.

Left out of this module: what the strategy quotes, the capacity clamp, the
statistics and the logging. `checkRisk` is reduced to "trips": `RiskMonitor` has
the rest.

### Runner

OnTick is one goroutine, but every gateway call in it takes time, and fills,
expiries and account updates happen meanwhile. So a tick is cut at its calls: the
actions `TickHalts`, `TickSkipped` and `TickQuotes` take OnTick to its first call
(the guards, the halts, the choice of sides and of quotes) and leave in `todo` the
calls still to be made, in the order of the code; each action under `Step` makes
one, and decides what its result does to the rest (a refused quote ends the tick, a
refused leg is passed over, a post-only reject is tried once more). Whether a side
may quote post-only is asked when the call is made where the code asks it then (the
static orders), and before the first call where it does not (the dynamic quotes).

`quote[s][k]` is what the Runner remembers of an order by its id: `Static` for
`staticBidID` and `staticAskID`, `Last` for `lastBidID` and `lastAskID`, and the
legs `1..Levels` of `dynamicBids` and `dynamicAsks`. An order at the exchange whose
id is no longer in any of them is counted in `orphans`; `mishaps`, a ghost, counts
the events the code knowingly answers by forgetting an id: a failed cancel, a lost
reply, a suppressed cancel. `net` is the position at the exchange, `inv` what
`inventory.Tracker` holds, `lag` the fills between them.

Prices and sizes are not in the module. A comparison of two prices (is the old
quote near enough, does `alignQuote` refuse) may have either result; a mid is a
small number only for the shock test; each order has size one. The gateway is one
that passes the order's id and its flags on, and the book is asked by id; StaticFraction is positive.
`reduceOnlyLimit`'s soft and hard limits are one, because from the soft one on the
effect on the sides is the same.

### QuoteCycle

`TradingEngine` says when orders are sent; `QuoteCycle` says how large they are. A
quantity is a number of lots. `TickLooks` reads inventory and configuration under
their locks, `TickQuotes` is GenerateQuotes (one quote a side or `Layers`, cut at the
inventory limit or withheld), `CancelAllOrders` cancels what the manager knows to be
active (each cancel, of either side, may fail on its own: `Kept`), `ClampOrder` is placeOrder up to Submit, and reads the
inventory *again*. Fills (`FillResting`, `FillOrphan`) are at the exchange at once and
reach `net` by `Update` later. `orphans` are orders of placements that returned an
error, `left` and `blind` are ghosts: what stood at the exchange after the cancels of
this tick, and the most any Submit did not know of. UpdateParameters, which ignores
values that are not positive, may come at any time. (Nothing in `internal/engine` or `internal/container`
calls `inventory.Update`; the program that embeds the engine has to.)

### FillTracker

(`FT`, `CB` and `HR` are prefixed to names of `FillTracker`, `CircuitBreaker` and `HotReload`
that would meet those of another module in `OrderProofs`, `RiskProofs` or `StrategyProofs`.) Time is in ticks, the rate in fills per window. `history` is a history variable: all
fills since the last Reset. The property compares what the tracker, which cuts off old
fills and keeps no more than MaxHistory, decides with what the whole history calls for.

### LiveRunner

The goroutines of `cmd/runner` around shared state. `ws` is `BinanceWSReal.Run` with
its `retries`; `book` says whether both sides are there and how many ticks ago it was
written; `ticker` is the ticker goroutine, cut at each access to the book
(`TickFires` reads the mid, `LooksAtAge` the time stamp, `RestAnswers`, `RestFails` and
`Rereads` are the fallback, `OnTick` the Runner's own guard on the time stamp);
`keeper` is keepAliveLoop and `key` the listen key, whose life of an hour is two of its
rounds. OnTick is reduced to one leg: cancel the order it holds, then place or halt;
`Runner` has the rest. A user message goes to the user handler *and* to the depth
handler (`wsMultiplexer`), for which it is a depth message without prices:
`UserArrives` leaves a book without a mid until the next depth message or REST answer.
The ghosts: `refused` and `unkept` count failures in a row by
themselves, `unseen` says that the report of the last fill is lost for good: it was not
streamed, because nothing read the stream then or the listen key had expired, or it went
down with the connection.

### WSReconnect

One `loops[l]` for each Start, at the step of `run` it is in; `hearts` are the
heartbeat goroutines, which are not bound to the connection that started them;
`stops` the callers of Stop. `stopChan` and `doneChan` are made once. Sockets that
nothing refers to any more are used again, so two are enough for any number of
reconnects; a heartbeat beyond the bound replaces an older one in the model.

### TokenBucket, RestGateway

A token is `Period` units of credit and credit grows by a unit a tick. `Wait` is three
actions, because it releases the lock to sleep (`FallAsleep`, `WakeUp`) and leaves
`last` at the time before the sleep. `RestGateway` extends it: each call of the client passes the limiter
before every attempt, in either of the two retry policies (`sendWithRetry` of the
client, `ExecuteWithRetry` of the middleware), signs once, sends, and is answered, times
out, or loses its connection. An endpoint is what its request does to orders, whether
it is signed, and whether its answer is parsed. `requests` are attempts on their way,
also after their caller has given up; the exchange refuses a request past `RecvWindow`.
Time passes only when no timer is due (`Due`), so a bound on time means something.

### HotReload

`watch[w]` is the goroutine of the w-th Start, with the critical section of
handleConfigChange cut where the reload handler reads the file: a write may come
between the read and the end of the handler. `events` are the fsnotify events not yet
received (equal ones are merged), `Replace` is a file renamed over, which ends the
watch on it. `SetReloadHandler` may come at any time, before or after Start; until it has,
an event is used up and the cooldown begins with nothing loaded (`NothingReloads`). The
handler is external: it succeeds, fails, or calls ApplyParameters and so waits for itself. `missed` is a history variable: an event was used up, or a change
happened, without a reload that covers it.

## 3. Runs

| Run | Checks | Bounds |
|---|---|---|
| `order_manager` | the book closes an order only as the exchange did; confirmed live orders stay active; the module implements `OrderLifecycle`; finished orders are closed | one order, one goroutine of each kind, two updates in flight |
| `breaker` | a closed breaker is below the threshold; late results close nothing; the breaker recovers | threshold 3, two trials, three callers, two interventions |
| `risk_monitor` | an EMERGENCY has an open breaker; a trip is noticed; a lasting breach stops trading | one checker, one trader, threshold 1, one trial, losses up to 8 of 100 |
| `engine` | one loop at a time; a stopped engine is flat; no channel is closed twice unless the risk monitor is restarted; Stop ends the loop | two starts, one order, one quote per tick, one caller of Stop, with and without EnableRisk |
| `quote` | the position stays within the limit, the other quotes of a tick, and what no Submit could see | limit 2, quotes of 1, two layers, one failed Submit or round of cancels, one unreported lot |
| `runner` | no live order is forgotten but by a mishap; the two modes of quoting never stand side by side; the position is bounded | two levels, limit 1, one fill unseen, one mishap, post-only rejects of bids, one mid, a stop loss at any tick |
| `fill_tracker` | cancels are suppressed exactly when the history of fills calls for it | six ticks, six fills, three kept, limits below, at and above that |
| `live` | old mids are quoted off a new book only; every failed dial and keep-alive is retried; the inventory catches up; the ticker outlasts a feed that comes back, and ends with one that is gone | two orders, two fills, one retry, two messages in the stream, one age limit (0: a mid is fresh or old) |
| `live_halt` (violation) | a halt leaves no order at the exchange | one order, one fill |
| `ws_reconnect` | no socket leaks; a Stop that found a connection ends everything; a healthy connection is pinged; the manager reconnects | one Start, two callers of Stop, two sockets, two heartbeats, with and without a limit of retries |
| `rest_gateway` | a second order only after a lost answer; CancelAll clears; a call is bounded in time; no order after the window | two calls, two attempts, both policies, window 1, timeout 2, fourteen ticks |
| `hot_reload` | parameters are stale only where a change was dropped; a Stop leaves nothing running; calls return | one Start, two callers of Stop, one of ApplyParameters, three writes |

Every type invariant is a theorem as well; the runs that list one check it on their instance.

Why the bounds are enough. *One order*: the manager, the state machine and the
reconciler treat each order by itself; two orders add interleavings of
independent steps (the proofs hold for any set of orders). *Two updates in
flight* let a fill overtake an acknowledgement and leave one update behind.
*Three callers against two trials* let more calls be on trial than are allowed and
leave a result from the episode before; threshold 3 is above the number of trials,
so the failures that tripped the breaker would spoil the next episode if they were
kept. *Losses up to 8*: the daily limit of 7 can be exceeded; unrealized losses
exceed the drawdown limit of 10 percent. *Two starts* let a loop of the first life
meet the channels of the second. *Two levels* are the fewest for which a tick of
several quotes exists, and the second leg differs from the first in not being
post-only. *Limit 1* makes every fill cross it. A shock halt and a stop-loss halt
leave the same calls behind, so the passing run of `Runner` has one mid and halts by
stop loss. One mishap and one unseen fill suffice to tell a bound that counts them
from one that does not; post-only rejects are the same on both sides, by symmetry
of the code. In `QuoteCycle`, *two layers* are the fewest for which one quote does not
know of another, and a limit of two quotes lets the clamp cut, refuse and pass; its
bound is proved for all values. *Two sockets and two heartbeats*: the heartbeat of the
connection before meets the next one. *Two calls*: a placement and a CancelAll, a
caller of the limiter that sleeps and one that takes its token. The *timeout above the
window* makes a retry after a timeout come too late and one after a broken connection
come in time, as 10 s and 5 s do in the code. *Three writes*: one that is being loaded,
one that overtakes its handler, and one within the cooldown. *Two messages in the
stream* are the two reports of a fill; *two fills* let the report of the second be lost while
that of the first is read. *One age limit* for the stream, for reduce-only and for the guard of
OnTick makes a mid fresh for all of them or old for all of them, which leaves every branch
of the ticker open (a mid may still be fresh at `LooksAtAge` and old at `OnTick`); the
safety properties are proved for any limits. Counters stop at `CountCap`, above every value
they are compared with; `MaxManual`, `MaxUpdates`, `MaxStarts`, `MaxQuotes`, `MaxLoss`,
`MaxGain`, `MaxFailures`, `MaxUnreported`, `MaxFills`, `MaxStream`, `LastBegin`,
`MaxTime` and `MaxWrites` are the other bounds. `CHECK_DEADLOCK FALSE` is set where
the system may stop: all orders are finished, the engine or the feed has been stopped
for the last time, every call has returned, or the process has died; in the run of
`Runner` it only saves time, as a tick is possible whenever `todo` is empty and no halt
is running.

Fairness. Goroutines run on once they are in a call, and tickers keep firing
(weak fairness of their steps). Strong fairness is assumed for two reasons. `FetchOk`: a
gateway asked again and again about an order answers some time. `LoopEnds`, `TickerEnds`
and `Lock`: a `select` picks among ready branches at random and `sync.RWMutex` starves
nobody, so a branch or a lock that is available again and again is taken. Nothing
is assumed of the exchange (except that it answers a placement, in `TradingEngine`,
where Go's HTTP timeout does if the exchange does not), of the user stream, of the
operator, or of traders. In `CircuitBreaker`, recovery is promised only to callers
that try again and again. `WSReconnect`: goroutines run on, and stopChan is taken by a
select in which it is ready again and again (strong fairness of the two selects of
`run` and of the heartbeat's); a dial is only required to end, and that the network
comes up for good, or that messages cease, is a premise of the property and not of the
specification. `LiveRunner`: the ticker keeps firing, a REST request and a dial end, if only
by their timeouts, and so does the sleep between dials; the ticker's select notices a
context that is done (strong fairness). Nothing is assumed of what the stream brings, of the
success of a dial or of REST: `TickerFollowsFeed` has what it needs as premises. Its first
half says that a feed that falls silent, or breaks and comes back, keeps the ticker
going with REST in its place as long as the context lives; its second half that a feed
that stays away uses up its retries, cancels the context by way of Run's error and
so ends the ticker: there is no quoting from REST alone. `HotReload`:
strong fairness where h.mu must be got or a select must choose, weak fairness for the
rest; that no handler hangs for ever is a premise of the second half of `CallsReturn`.
`RestGateway` needs none: time cannot pass a timer that is due.

## 4. Findings

`live_halt`: the live gateway makes up a client id of its own
(`cmd/runner/main.go:621`) and never stores a mapping (`storeMapping` has no caller),
so every Cancel fails before a request is sent. The Runner forgets the id, and the
order stays live through the halt that docs/runner_overview.md:42 says withdraws it.

Further disagreements between the code and its documents are stated as properties of
the modules, next to those that hold; TLC finds each of them violated when it is named
in the cfg of the module's run:

* `OrderManager.LiveOrdersAreActive`: Submit writes REJECTED on any error of
  `gw.Place`. If only the reply was lost, the order lives on and no part of the order
  layer sees it.
* `CircuitBreaker.TrialsAreLimited`: trials are counted when they return.
* `RiskMonitor.TimeoutEndsTrip`: `Monitor` never calls `beforeCall`; the breaker's
  timeout has no effect there, and a trip lasts until the operator resumes.
* `TradingEngine.NoPanic`: a restart with EnableRisk panics in `monitorLoop`.
* `TradingEngine.EmergencyFlattens`: an order that passed CheckPreTrade before the
  trip is sent after the emergency callback has listed the orders, and stays.
* `Runner.ShockNeedsAMove` (with two mids and without stop losses): a shock halts
  before `prevMid` is set to the new mid. When the halt is over and the mid has stayed
  where it is, the same move is seen again, and the Runner halts for as long as the
  price does not come back.
* `Runner.StaticWithdrawn`: triggerHalt cancels the dynamic orders only; static orders
  stay through a halt, and through a reduce-only tick that ends with an error.
* `WSReconnect.StopStops`: a Stop during a back-off sees neither connected nor
  reconnecting, which is never set, and returns with the loop running.
* `LiveRunner.QuotedMidIsFresh`: the guard looks at the book, the quote at the mid
  read before; after a refresh that took long and failed, a new depth message makes
  the old mid pass.
* `FillTracker.SuppressionEnds`: the rate is computed at fills only, so cancels stay
  suppressed after the fills have stopped.

Seen in the code, without a property: two heartbeats may write to one gorilla
connection at once, which the library forbids; N callers of the limiter together reach
2N times its rate; after MaxRetries + 1 failed dials in a row the live runner's ticker
ends while the process goes on waiting for a signal; EnableCancelSuppression and
HotReloader have no caller outside tests; the container's gateway cancels with an empty
symbol (`container.go:233`).

## 5. Proofs

The theorems hold for every value of the constants that satisfies the named
assumptions: any sets of orders and goroutines, any bounds. Lemmas about the
operators come first and are cited by name.

*OrderManager.* None of the safety properties is inductive by itself. The
inductive invariant `IInv` adds to `TypeOK` what each message in flight implies:
`Registration` (an order that was never submitted is unknown everywhere, and a
placement is in the network only for an order that was submitted), `StreamReports`
and `SweepReports` (an update in the stream, or a status a reconciliation holds, is
one the exchange has reported, and if it is an end it is the end the exchange still
has), and `Book` (what the book says is one of Submit's own writes or repeats such
a report).
`TypeCorrect`, `ClosedTruthfully`, `ConfirmedInSight` and `NeverBack` follow from
it; `Refinement` shows step by step that every action is an action of
`OrderLifecycle` or a stutter under the mapping.

*CircuitBreaker.* `RiskProofs` first proves for each operator of `BreakerState` that it
keeps the record's type and the conjunction "half-open implies undecided, closed implies
below the threshold". `BreakerTypes`, `Undecided`, `BelowThreshold`, `Advice` and
`NoShortcutEver` are corollaries for the concurrent specification.

*RiskMonitor.* The invariant `IInv` has three parts. `Exclusion`: whoever is inside
a critical section holds `m.mu`, so at most one of them is. `Tripped`: the breaker
is never half-open here, and it is open in EMERGENCY, and already when a check is
about to declare one (`mark`) or TriggerEmergencyStop is about to (`alarming`);
ResumeTrading, which closes the breaker before it clears EMERGENCY, is the one
exception. `Shape` is the part of the type of `checks` the others need.
`EmergencyTripped` and `TripHoldsAlways` follow. `MonitorTypes` adds the PnL records:
one lemma for what each recorder does to them, one for the places of the checks.

*TokenBucket.* `EachCallerBounded` (passes of a caller times `Period` are at most the
burst and twice the time) is not inductive: a caller that sleeps has already been
promised its token. `Paid` says what each caller has paid for, while it is awake (the
passes, and the credit that is left, are covered by the time up to `last`) and while it sleeps (one pass more is covered by the time
of its wake-up). `RateBound` follows; the factor two is the time slept, which is
credited twice.

*RestGateway.* `UsesLimiter`: every step is a step of the limiter or leaves it alone,
so `RateBound` holds for the attempts of every call (`AttemptsAreBounded`). `Kept` is
the type together with `Stamped`: whatever is in the network, or still to be retried,
carries the time its call began. With it a request that the exchange accepts is
inside the window of its call: `NoLateOrder`.

Three more invariants give the rest, on top of `AnswersAwaited` (only a call that waits for
an answer has one). `Cleared`: already since the exchange answered a CancelAll, not only
since the call returned, no older placement is open; `CancelAllIsThorough`. `Single`: as
long as no attempt of a call was lost, the only request of it is the one it waits for, and
once it has its order nothing is left that could bring it to another attempt;
`ClientPlacesOnce`. `Timely` gives a call in each of its places the time its earlier
attempts can have cost and the timer it waits for; as time cannot pass a timer that is
due, `CallsAreBounded`.

*QuoteCycle.* `IInv` adds to the bound `Accounted` (what is at the exchange on a side and the
quotes still to be placed are covered by what the cancels left and the quotes of one
tick) and `Respects` (the order about to be submitted keeps the limit as the clamp saw
it). The bound then follows from what Submit did not know of: `Bounded`, for any
limits, layers, failures and delays.

*HotReload.* `HRInv` is `Locked` (whoever is in the reload holds h.mu, and nobody else),
`Forward` (a handler never takes the parameters back), `Done` and `Closed` (who has
closed which channel), and `Pending`: unless a change was dropped, one that is not
loaded still has an event, or a goroutine that will read it or has read it.
`NothingElseGoesStale` and `QuietAfterStop` follow, for any number of Starts, Stops and
writes.

*TradingEngine.* `EngineTypes` needs no hypothesis. The other three are theorems about
behaviours in which calls of Stop do not overlap (`OneStop` in every state; two overlapping
calls may well close a channel twice, see section 6), for any number of restarts, orders and
quotes. Their invariant has four parts. `OwnChannels`: the n-th start made the n-th pair of
channels. `LoopKnown`: a loop closes the doneChan of its own run, once, and without a Stop
that gave up waiting only the latest loop runs, and none once a Stop is past its wait.
`StopKnown`: the list of orders a Stop cancels holds every order that is active.
`MonitorKnown`: in its first life the monitor's channels are closed by one Stop and one
loop. `StoppedIsFlat`, `NoTwoLoops` and `RestartsDoNotPanic` follow.

*WSReconnect.* All properties but the type speak of a process with one Start (a second one
overwrites the connection of the first), so the invariant does too: `AfterOneStart` is
conditional on `OneStart`, which no step makes true again. Under it `Held` says that open
sockets are `m.conn` or in the hands of the step that has just dialed, and what each step
of the loop implies for `m.conn`; `Ended`, that a closed doneChan means a loop that has
ended and closed; `Pinged`, that a connection being read has a heartbeat or is about to
get one, and that a heartbeat that fails kicks the loop out of reading before it ends.

*LiveRunner.* `Counted` ties the ghost count of failed dials to `ws.retries`, `Renewed` that
of failed keep-alives to the key's remaining life. `InStep` says at each step of the ticker
how old the mid can be. `InOrder` (the reports in the stream are in the order of their fills)
and `Reported` (unless the report of the last fill is lost, it is in the stream or the
tracker has it) are what `InventoryCatchesUp` rests on. `OldMidNewBook` is an action
property.

*Runner.* The claims are about positions and about the time between two ticks, and are broken
while a tick is under way; what restores them are the calls still in `todo`. So `Inductive`
says of the list that it is `Orderly` (cancels first, no place given two orders), and
what the list owes to the places. `Exclusive`: an order *stays* if it is about to be sent, or
is remembered and no cancel of it is left; no leg stays beside a single quote or a static
order. `Emptied`: where a live order stands, none is about to be sent unless its cancel
comes first. `Told`: the inventory is behind by the unseen fills at most. `Bounded`: the position,
what stands and what is about to be sent on a side, and what was forgotten, make up no more
than the bound together, which is why no order of fills and calls can pass it.
The proof has two halves. `Started` collects what the lists of a halt, of single and of several
quotes have in common (`HaltStarts`, `SingleStarts`, `MultiStarts`), and `StartKeeps` shows
that such a list may be begun in any state between ticks. `CallIs` shows that every call, of whatever kind and with
whatever result, leaves a part of its list in the old order (`Within`) and changes its own
place only, and the `CallKeeps` lemmas use nothing else of it. `RunnerForgetsNone`,
`RunnerModesExclude` and `RunnerPositionBounded` follow, for any number of levels, any limit,
and both modes in any alternation.

*FillTracker.* Everything rests on one lemma about fills in the order of time: those
within some time are the last n of them, where n is their number (`CountLemma`, by
comparing the cardinalities of two sets, without induction). `FillInv` says that what the
tracker keeps is the end of the history, that what it has cut off was out of the window or
too much, and that the rate is that of the last fill. Then the tracker counts what the
history counts, up to MaxHistory (`KeptCount`), and `SuppressesRightly` follows for every
window, history limit and threshold.

Found while proving, and corrected in the model: `TradingEngine.StopTimesOut` let a Stop time
out on a loop of an earlier life; `LiveRunner.unseen` was cleared by the report of an older
fill (with `MaxFills` 1 no run noticed); a socket of `WSReconnect` could be named like a
step of its loop; `StaleLimits` has to have a largest element.

Model-checked only: the liveness properties (`FinishedOrdersAreClosed`,
`RecoversOnceHealthy`, `TripIsNoticed`, `BreachStopsTrading`, `StopEndsLoop`,
`Reconnects`, `StopEnds`, `TickerFollowsFeed`, `CallsReturn`), since neither fairness nor
ENABLED is within the prover's reach; and the `live_halt` run, which shows a violation.

## 6. Not modelled

* `OrderManager` and `Runner` assume a gateway that passes the order's id on as the
  client id, as the container's does; with `cmd/runner`'s gateway every cancel and
  every update misses (`LiveRunner`).
* Overlapping calls of the engine's Stop (`Stoppers` has one element in the runs): the second
  call panics with EnableRisk, and may panic without.
* Liveness of the Runner's quotes. Whether an old quote is near enough to stay is a
  comparison of prices the module leaves open, so it may stay for ever; the code
  indeed keeps a filled or expired quote in place of a new one while the price
  stands still (see the hazards).
* Prices, spreads, volatility and statistics, ASMM, the adaptive risk and post-trade
  analysis, the guards in `risk/`: formulas and threshold tests without concurrency.
* The contents of requests and answers: parameters, the HMAC, the numbers parsed.
* The container's wiring and StartAll/StopAll (sequential), the alert manager
  (notification only), the market-data service and publisher (no consumer in the
  programs), logging, metrics, monitoring and the command-line tools.

## 7. Plan

1. `OrderLifecycle`, `OrderManager`, proofs (done).
2. `BreakerState`, `CircuitBreaker`, `RiskMonitor`, proofs (done).
3. `TradingEngine`, `Runner` (done); `QuoteCycle`, proofs (done).
4. `WSReconnect`, `TokenBucket`, `RestGateway`, proofs of the latter two (done).
5. `LiveRunner`, `FillTracker`, `HotReload`, proofs of the last (done).
6. `TradingEngine`, `LiveRunner`, `WSReconnect`, `FillTracker`, `Runner`, the rest of
   `RestGateway`: proofs (done). Every invariant a run checks is now a theorem.
7. Theorems still worth having: abstract specifications of the engine's and the
   reconnecter's life cycles, and that the modules implement them.
8. Models still worth having: the container's StartAll with its rollback, the alert
   throttle, the reconciler's own Start and Stop.
