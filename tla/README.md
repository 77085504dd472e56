# trade-kernel: TLA+ models and proofs

trade-kernel is a single-user trading terminal for Alpaca: one Go process that
streams one symbol, draws it, sends orders from hotkeys and keeps a local copy
of the account. Little of it is algorithmically hard. What is hard is that a
dozen goroutines, two websockets, a REST client with timeouts and a user
interface all touch the same few pieces of state, and that most of what can go
wrong costs money only when two of them meet in an order nobody tried.

These modules model that. Section 1 is the inventory of the system, 2 the
modules and how they correspond to the code, 3 the runs, 4 the fairness
assumptions, 5 the proofs, 6 what the models disagree with the code's own
comments about, 7 what is not modelled, 8 the plan.

To check something: `tlc -config SymbolSwitch.cfg SymbolSwitch`, or
`tlapm SymbolSwitch_proofs.tla`. `PROJECT.json` lists every run with its module
and configuration, for each property a mutation of the code's model that the
property rejects, for each definition the lines of source it translates, and
the hazards with the properties that cover them.

## 1. The system

Paths are relative to `src/`.

| Component | State | Operations | What makes it correct |
|---|---|---|---|
| Wiring (`cmd/trade-kernel/main.go`) | `backfillMu`, `backfillGen`, `activeSymbol`, `lastBackfillTime`, the kick stamp and its pending flag | `switchSymbol`, `scheduleBackfill`/`runBackfill`, callbacks of both websockets, refresh ticker, refresh worker, clock sync | the ingest filter, the subscription, the bars and the user interface agree on one symbol whenever no switch runs, whichever call failed |
| Market websocket (`internal/alpaca/ws_market.go`) | `symbol`, `conn`, `firstSub` | `SetSymbol`, run loop with backoff, acknowledgement callbacks | a reconnect subscribes what the wiring last asked for |
| Overnight poller (`cmd/trade-kernel/overnight.go`) | symbol, cursor, `backfillHighWater` | poll, apply, resume | overnight prints reach the bars once, for the symbol on the tape |
| Aggregator (`internal/bars`) | rings, forming bars, custom series, buffer, last trade, NBBO, VWAP | `OnTrade`, `OnQuote`, `BeginBackfill`, `Load`, `ReplayTrades`, `EndBackfill`, `EnableCustom`, `ResetMarket`, `ResetVWAP`, `Snapshot` | REST history and live prints meet without a hole or a double; one candle to a bucket with every print of it; EMA and VWAP are those of the candles |
| Terminal (`internal/ui/model.go`) | `symbol`, `switchGen`, `pending`, resolution, pan offset, crop | intents, confirm prompt, `:sym`, `:tf`, pan, crop, handling of replies | one prompt at a time; a stale reply changes nothing; an order goes out under the session it was meant for; the frame shows candles that are held |
| Risk (`internal/risk`) | limits, kill flag, debounce stamp | `Check`, `CheckOpts`, `Record` | an order that passes keeps position plus working orders in the cap |
| Execution (`internal/execution`) | eligibility cache | `Build`, `Submit`, `Flatten`, `Panic`, `Cancel` | market orders only in regular hours, extended orders priced from a fresh quote, exits never larger than the position |
| Session engine (`internal/session`) | `forcedClosedUntil`, clock offset | `At`, `Current`, `SyncClock`, `DayStart`, `WeekStart` | never closed while the exchange is open; closed for a whole holiday once told |
| Store: account (`internal/state/store.go`) | positions, orders, `reconciled` | `ApplyUpdate`, `Refresh`, `Reconcile` | the local book catches up with the broker |
| Store: realized PnL (`store.go`, `realized.go`) | fill cache, websocket rows, retained averages, published sample | `RefreshRealizedPnL`, recompute worker, merge, prune, inventory walk | each execution counts once, at the cost it closed, and none is lost for good |
| Trading websocket (`internal/alpaca/ws_trading.go`) | connection, listening flag | run loop, `OnUpdate`, `OnReconnect` | updates missed while down are made up by a snapshot |
| REST client (`internal/alpaca/rest.go`) | - | retries, pagination, `CancelSymbol` | writes are not repeated; a partial page is not taken for the whole |
| Indicators (`internal/indicators`) | running EMA and VWAP | `Update`, `Undo`, `Peek`, `Reset` | what was fed can be taken back once |
| Chart, command line, configuration, logging | - | pure or drawing only | see section 7 |

How they interact. The bubbletea loop owns the terminal's model and starts a
goroutine for everything that may block; its result comes back as a message,
possibly after the state it was computed from has changed. `backfillMu`
serialises switches and backfills; `activeSymbol` is the filter both ingest
paths read without it. The websocket callbacks run on the read goroutine and
call into the aggregator and the store. The store is read by the risk check
(inside the loop) and by the request goroutines (outside it). The 5 s poll and the
reconnect refresh the account; the 30 s ticker, the worker behind the kicks and
the walk at startup refresh the realized figures, one at a time. The session engine is written by one clock goroutine and read
everywhere.

The behaviours that are hard: requests that overtake one another on a mutex; a
callback between two critical steps; a switch that fails at each of its four
points; prints on both sides of a REST window, late ones,
and candles that close, form again and are evicted under a panned view; snapshots and updates that
cross; executions that arrive by two channels, late, out of order or on one
only; fetches that stop half-way;
kicks that land while their worker is busy; and answers about time that arrive on the
other side of a boundary. `PROJECT.json` lists each at its line.

## 2. The modules

| Module | Models | Extends / uses |
|---|---|---|
| `AtomicSwitch` | what `:sym` promises: requests that each take effect in one step | - |
| `SymbolSwitch` | `backfillMu`, subscription and reconnects, `:sym` and its reply | implements `AtomicSwitch` (`INSTANCE`) |
| `TapeIngest` | ingest filters, poller, `backfill()`, the aggregator's buffer | - |
| `Sessions` | the session engine, the exchange's calendar and clock | - |
| `OrderForm` | pinned session, prompt, order builder, eligibility cache, flatten | `Sessions` |
| `OrderDesk` | risk check, requests, cached book, broker, trading websocket | - |
| `RealizedSync` | fill cache, websocket rows, merge, prune, the two publishers | - |
| `Ring` | the circular buffer of candles | - |
| `BarRings` | folding, loads, custom series, EMA, VWAP, the price filter | `Ring` |
| `ChartView` | resolution, pan and crop of the terminal, `Snapshot` | `BarRings` |
| `FillWalk` | retries and pagination of `Fills` and `ClosedOrders` | - |
| `RealizedKicks` | kick worker, ticker, startup walk, the refresh mutex and budgets | `FillWalk` |
| `Inventory` | the average-cost walk, seeds, hints and the book snapshot | - |
| `SymbolSwitch_proofs`, `OrderDesk_proofs`, `OrderForm_proofs`, `TapeIngest_proofs`, `RealizedSync_proofs`, `RealizedKicks_proofs`, `Inventory_proofs`, `ChartView_proofs` | theorems (section 5); `OrderForm_proofs` also those about `Sessions`, `RealizedKicks_proofs` those about `FillWalk`, `ChartView_proofs` those about `Ring` and `BarRings` | the modules they name, `TLAPS` |
| `MCOrderForm`, `MCRealizedSync`, `MCChartView`, `MCRealizedKicks`, `MCInventory` | calendars, executions, budgets and histories of the runs | the modules they name |

`SymbolSwitch` and `TapeIngest` are two views of the same wiring. The first has
every competitor for the mutex and reduces the bars to whose history they hold;
the second has one holder at a time, any of them, and counts every print.
`OrderDesk` and `OrderForm` are two views of an order: how large it may be when
it meets fills and snapshots, and what form and price it gets when it meets
session changes and switches. The realized figures have three: `RealizedKicks`
says when they are refreshed and what a walk of the history brings,
`RealizedSync` which executions they count, `Inventory` what they come to.

### SymbolSwitch

`book` is whose REST history the rings hold. `crit` is the program counter of whichever goroutine holds `backfillMu`;
`waiting` and `jobs` are the goroutines queued on it (`:sym` and scheduled
backfills). `switchSymbol` is the path `SwitchBegin`, `Subscribed`,
`OpenTarget`, `SwitchDone`, with its four failures `SubscribeFailed`,
`Restored`, `RestoreFailed`, `RollBack` and `Resubscribed`: an action ends
wherever the code makes a call that can fail or that another goroutine can see.
`runBackfill` is `JobDropped`, or `JobBegin` then `JobDone`/`JobFailed`.
`SetSymbol` stores the name first and writes second, so a failed write leaves
the name changed and a dead connection (`"broken"`) behind, as in the code.
The run loop of the websocket is `Dial`, `Authenticated`, `AckRead`,
`AckSchedule`, `Drop`; reading `mws.Symbol()` and bumping the generation are
two actions because they are two steps in `main.go:300`. `lastGen` is a history
variable: the `:sym` that released the mutex last.

### TapeIngest

A print is a symbol and a tick; `agg.minute` and `agg.sub` count how often each
print is in the REST-backed rings and in the sub-minute rings. A message is two
steps of the read goroutine: in `Tick` or `Quote` it comes in and meets
`activeSymbol`, in `TradeFolds` or `QuoteFolds` the aggregator takes it. In between
it is in `hand`, for as long as `a.mu` may be held by others: a switch
(`SwitchPause`, `SwitchClear`, `SwitchOpen`) or a rollback (`RollBack`) may clear
the book meanwhile, which `stray` remembers, and a drain may pass over a print that
has then still to be folded (`late`). `StampReqEnd`, `LoadBars` or `BarsFailed`,
`Replay` and `Drain` are the steps of `backfill()`, run by `SwitchOpen` or
`JobBegin`, with its two REST windows: bars asked for up to `reqEnd`, trades up to
`tradeEnd`, the latter cut to whole seconds by RFC 3339. The service may answer with
a partial bar of the moment that runs past `reqEnd` (`served`), as the comment at
`bars.go:825` expects; before `reqEnd` it is assumed complete. Generations are abstracted into the choice whether a job is dropped. `feed` says in which
session the run starts: by day the websocket streams, overnight it is silent and
the poller runs. A window that fell short is remembered in `whole` and an
overflow of the buffer in `lost`, and the properties except exactly those
prints. Trade-id de-duplication, the price plausibility filter and subscription
failures are not in this module. How often a print may be counted is not bounded:
`Series` maps prints to natural numbers.

### Sessions

Time jumps between the boundary moments of the rules (0:00, 4:00, 9:30, 13:00,
16:00, 20:00); between two of them every operator is constant. `At`,
`Classify`, `NextExpectedRTHOpen`, `SyncClock`, `DayStart` and `WeekStart` are
the functions of `session.go`; the calendar with its holidays and early closes
is the exchange's. `ClockSync` may deliver a reading taken before the last
boundary: the request was on its way. One goroutine reads, so it is never
behind a later reading. Daylight saving changes are left out. The per-minute
cache of `At` only memoises, so it has no state here. A clock request that
fails is a stutter. A behaviour the model shows and no property forbids: a
closure runs to the next regular open, so a holiday closes the engine during
the eve's after-hours session (once told then) and during the night and
pre-market after it, which the exchange does trade. `NeverShutOut` names that
interval as its exception.

### OrderForm

One action of the operator at a time. `Intend` pins the session,
`Answer` is the prompt, then `Build` step by step: `SendRegular` and the
refusals, `Admit` (cached eligibility), `AssetArrives`/`AssetFails` (the
lookup), `SendExtended`, and `ClosePosition` for a flatten in regular hours.
`book` holds only the ages of bid, ask and last trade, which is what
`aggressivePrice` branches on; the slippage arithmetic and the time in force
are left out. The session the engine reported at the intent, the order that
left and the last clock reading are history. `SwitchOpen`, `SwitchDone` and
`SwitchRollBack` reduce `SymbolSwitch` to the
moments that matter here: the tape has moved, the terminal has not. `Tick` ages
the book, and a fresh quote may follow at once. Overnight quotes of the poller
are not here. The run uses one side because buy and sell are symmetrical in
every branch.

### OrderDesk

One symbol, whole shares, a session in which orders are taken. A request
goroutine is a record in `requests` and moves through `CancelList`, `Look`,
`Resolve`, `LookAgain`, `Accepted`/`Refused`: what it read (`rest`, `local`,
`confirm`) and what it will do with it are separate steps, as in `resolvePositionQty`
and `Flatten`. The confirm prompt may be on or off at each intent, because
`:confirm` toggles it. The broker is external: it accepts, fills in any parts,
expires. `stream` is the queue of trade updates, `refresh` holds the two kinds
of `Refresh` call (poll and reconnect) between their reads of positions and of orders; the
start-up refresh is one of the poll's. The kill switch and the debounce window
only withhold intents, and the operator may withhold any intent anyway, so each
behaviour with them is a behaviour here. `trusted` (no update was lost or
overwritten since a clean snapshot), `blind` (an order was checked against a
book that was behind) and `alone` (an exit ran beside nothing else) are
history.

### RealizedSync

`listed` is the REST activity feed, `heard` how many trade updates were handled or
lost; a figure is abstracted to the executions it counts (`rows`). `Merged`,
`Covered`, `Unmatched` and `Pruned` are `mergeWSFills` and
`pruneWSFillsCovered`, including the matching of provisional rows to activities
that carry no order id. A refresh is `RefreshBegin`, `FetchSucceeds` or
`FetchFails` (a walk that stops half-way keeps the prefix), `RefreshMerge`, then
one of three ends; the worker is `RecomputeBegin`, `RecomputeRead`,
`RecomputePublish` or `RecomputeGivesUp`, `RecomputeExit`. The inventory walk
either reconciles or does not; no modelled execution leaves the 180-day
lookback. Two readings of the clock are taken to differ. `ColdPartial` and
`Calm` restrict the environment for the counterexamples of section 6. The properties of the
passing run speak of the executions that are `Sure`: their order was filled at
once (`Whole`), and their activity is in the cache or no listed one without order id
can be taken for it (`Shadowed`). The two orders of that run are 2 apart with a
match window of 3, so the residual match does take the first's activity for the
second's row; `RealizedResidual` is the counterexample without the exception.

### BarRings, Ring and ChartView

A print is its place on the tape; a candle is its bucket, the set of its prints
and the one that is its close, of which high, low and volume are functions. An
EMA is the sequence of closes it was fed (`Undo` takes back only the one it is
told is the last), and the VWAP the set of prints it was fed with the set of those it
was fed again (`twice`), so that "counted twice" and "taken back" can be told apart,
which a number would hide. In candles a print is a member: how often each is counted
there is `TapeIngest`'s question. Two
built-in series stand for eight: `fine` for 1s, 5s and 15s, which trades replay
and bars do not, and `minute` for 1m and coarser; the third is the custom one,
resampled from either. `foldTrade`, `closeFormingBar`, `Load`, `ReplayTrades`,
`resampleTo`, `finishBackfill` and `ResetMarket` are the functions of that name.
The bucket of a time is its multiple of the length, and VWAP windows are of one
length: sessions, or days with `vwap_anchor: day`. `BarsAssumption` says what the
code makes of the lengths: a custom resolution is whole seconds, so a multiple of
the fine bucket, and a session opens on a whole minute. `liveTradePlausibleLocked` is
the band of `Ratio` around the last accepted price, and the market moves over
`Prices` by any step. A load may serve a partial bar that runs past the end of its
request (`RestBars`, `overlap`), so that a drain feeds its prints again. The overflow
of the buffer is in `TapeIngest` only.

`Report` is the exchange together with the callback: a print may be reported late,
off the market, or while the websocket is down. `SwitchOpen`, `BackfillBegin`,
`LoadBars` or `BarsFailed`, `Replay` and `EndBackfill` are the holder of
`backfillMu`; `WatchSession` is the goroutine that polls the session each second.
What it may find is history in `past`. `ChartView` adds the keys and `Snapshot`
with its index arithmetic over the ring's slots, held or not. The width of the chart
is fixed: a window that is resized under a crop is not covered.

### FillWalk and RealizedKicks

`FillWalk` reads one history page by page: `PagesAfter` are the broker's answers,
whose page may repeat the row it starts from; `Turned` collects, moves the cursor
and detects a cursor that would not move; `RateLimited` is the retry of `do()`.
`due` remembers what was served when the walk began. `RealizedKicks` puts walks
under `realizedRefreshMu`. `procs` is where the worker (a second one is possible
only in a mutant), the ticker and the walk at startup are and what is left of
their contexts, which run while they wait for the mutex. `kick` is
`realizedKickAt`, as the ticks since, and `realizedKickPend`. Time passes only
while every goroutine waits (`AllWait`): a step of a goroutine is short against
a tick, of which the delay has one, a budget two and that of the startup walk three. What a refresh publishes
is reduced to whether rows or a sample are kept, which decides whether a failed
walk falls back to closed orders.

### Inventory

Executions, a feed that lists them later, and the snapshot of the last Reconcile,
which may be behind or ahead of the feed. `applyFill`, `walkFills`,
`RealizedFromFillsWithHints` and `costBasisHintsLocked` are the functions. The
synthetic opens, one to a symbol and before every fill, are the book the second walk
starts from (`Opened`); the
figures are an operator (`Figures`) because a refresh may come at any moment and
changes nothing the walk reads. The recompute after a fill, which seeds the walk from
the live positions and retains their averages (`store.go:1251-1264`), is not modelled. The unit of price is 2520 squared, so that every
average the bounds can produce is a whole number and equality is exact; the code's
tolerances (`invQtyTol`) therefore never decide. Positions older than the
lookback are chosen in `Old`; the broker may leave out an average (`Omits`).

## 3. The runs

Passing runs:

| Run | Bounds | Shows |
|---|---|---|
| `SymbolSwitch.cfg` | 2 symbols, 2 requests, 2 connections | all failure paths of two concurrent switches with initial and reconnect backfills: the filter, the subscription, the rings and the terminal agree; each `:sym` is answered; the wiring implements `AtomicSwitch` |
| `TapeIngest.cfg` | 2 symbols, 2 ticks per second, buffer of 2, 3 ticks by day and 2 by night, 1 switch, 1 drop | by day every print counts once in both series, but for the overlap of the partial bar and a print that waited at the drain (`StreamOnce`), and nothing foreign enters but the one message in hand at a clear; overnight holes and doubles stay within the stated windows |
| `ChartView.cfg` | rings of 2, buckets of 1 and 2 ticks, custom ones of 3 and 4, sessions of 4, prices 2, 3 and 6 with a ratio of 2, a chart of 2, eight budgets (below) | one candle to a bucket, every print in its own, EMA and VWAP those of the candles and of the window and none fed twice but the partial bar's overlap, the custom series what a rebuild gives, the market's prices accepted unless the band was moved off it, the frame a run of held candles |
| `OrderForm.cfg` | 14 days with three holidays (a Monday, two Thursdays) and an early close, 4 trading moments, 1 intent, 1 switch, cache of 1 | the engine is never shut out and holds closures; `OrdersFit`: an order keeps the form of the session of its intent (`FormPinned`); while that session lasts a market order leaves only in regular hours, extended orders have a fresh price and an eligible symbol |
| `OrderDesk.cfg` | position 1, sizes 1 and 2, caps 2, 2 intents and 2 authorizations, together at most 3 | the book follows the broker; checked orders stay in the cap; a lone exit fits the position |
| `RealizedSync.cfg` | 2 orders filled 2 apart, the first's activity without order id, 1 week start, overlap 2, match window 3 | no execution counts twice, no `Sure` one is left out, and no newer sample loses one but in the stated states, with a recompute due |
| `RealizedKicks.cfg` | 2 kicks, delay 1, period 2, budgets 2 and 3 ticks, pages of 3, 1 retry, 7 rows | walks have no hole; a kick is kept until a refresh begins after it, but the two excused ones, and one does begin after every kick |
| `Inventory.cfg` | 2 symbols, 3 executions, 2 day starts, one of them a week's | the figures are those of the account's own books wherever the walk knows enough, and it leaves out no symbol it knows enough of |

Why the bounds are enough. Two requests are what one request can overtake, and
two connections are the first (`OnInitial`) and one reconnect. Three ticks with
two to the second put a print before a backfill, in its cut second, in its partial
bar, in the buffered interval or after it, in any combination of three; a buffer of 2
overflows. Prices 2, 3 and 6 with a ratio of 2 have two neighbours in each band and a
pair out of it, so a band can be moved by a print inside it. Three
sizes (1, 2, and the cap of 2) reach the cap from below and exactly; two
intents give two orders, an order and an exit, or two exits. Fourteen days
include both kinds of closure next to a weekend. Two executions are the least
that can be listed out of order, paired by size and price or by nearness in time, or
be two parts of one order.

A ring of two is full after two closed candles, so that eviction, wrap, reopening
and panning past the end are all within a few prints; custom lengths 3 and 4 take
one of each source. A single budget for everything is out of reach, so
`MCBounds` is a set of eight: each gives the prints to one group of hazards
(late and unheard prints through a backfill, sessions, custom series, prices,
panning, a switch that fails, ...), and together they fire every action. The seven
rows of `MCStamps` have groups of two, two and three equal times around pages of
three, so a page ends inside a group of equal times, and one group fills a page
once the late row is listed. Three
executions are an opening, an addition or a reduction, and a closing or a flip, on
either side of a snapshot, a listing or a day.

Deadlock is not checked (`CHECK_DEADLOCK FALSE`) where the operator, the
exchange or the calendar stop at their bound.

The violation runs (`PollerForeign`, `FormMispriced`, `RealizedNoHeal`,
`RealizedPartials`) are described in section 6, and so are six further configurations
that TLC ends with a counterexample in the same way, for a reader who wants the trace:
`SwitchOvertaken.cfg` (of `SymbolSwitch`), `CapUnseen.cfg` (`OrderDesk`),
`RealizedResidual.cfg` (`MCRealizedSync`), `KickDropped.cfg` (`MCRealizedKicks`),
`GapsBlocked.cfg` and `PanBlank.cfg` (`MCChartView`). They have the constants of the
passing runs, or restrict their environment.

## 4. Fairness

Three specifications have liveness properties.

`SymbolSwitch`, for `EverySwitchAnswered`:
- `WF(HolderStep)`: everything done under `backfillMu` is a REST call or a
  websocket write with a timeout, so the holder always moves on;
- `SF(Grant(g))` for each request: a `sync.Mutex` in starvation mode hands over
  to a waiter that has waited 1 ms, so a request that is offered the mutex
  again and again gets it, however many backfills compete;
- `WF(ApplyReply)`: the bubbletea loop handles each message.

The operator, the network and backfill jobs get no fairness.

`RealizedSync`, for `DelayedFillsFound`:
- `WF(RefreshBegin)`: the 30 s ticker; `WF(RefreshStep)`: a call ends by its
  60 s deadline; `WF(WalkAges)`: time passes;
- `SF(FetchSucceeds)`: the feed answers to the last page again and again. With
  this the run `RealizedNoHeal` is a violation of the program, not of a service
  that is down.

`RealizedKicks`, for `KicksServed`:
- `WF(Tick)`: time passes; `WF(TickerFires)`: the goroutine of the 30 s ticker
  takes its tick when it is back;
- `WF(Step(p))` for each goroutine: it runs, and a request ends with its context
  at the latest. Neither the feed nor the service is assumed to answer: a refresh
  that begins is what is promised, not one that succeeds.

## 5. The proofs

Every theorem is of the form `Spec => []Inv`, `Spec => [][A]_vars` or
`Spec => AbstractSpec`, for all values of the constants that satisfy the named
assumption of the module, and of the hypothesis where one is given. The
invariants were checked by TLC on the run of their module before they were proved.

| Module | Theorem | States | Rests on |
|---|---|---|---|
| `SymbolSwitch_proofs` | `TypeCorrect` | `[]TypeOK` | - |
| | `LoadsMatchTapeCorrect` | a fetch under the mutex is for the symbol the filter lets through | `HolderInv` |
| | `TapeSubscribedCorrect` | outside a switch the filter's symbol is the subscribed one | `HolderInv` |
| | `HistoryMatchesTapeCorrect` | outside a switch the rings hold no other symbol's history | `HistoryInv`, `HolderInv` |
| | `ImplementsAtomic` | `Spec => AtomicSpec`: each behaviour is one of `AtomicSwitch` | `RequestsDistinct`, `HolderInv` |
| | `NewestShownCorrect` | if the newest request settled last, the terminal shows the live symbol | `AnswerInv`, the step simulation |
| `OrderDesk_proofs` | `TypeCorrect` | `[]TypeOK` | `IdsInv` |
| | `BookTracks` | with nothing on its way, a trusted book is the broker's | `StreamInv`, `BookInv` |
| | `LoneExitsFit` | an exit beside nothing else never sells or buys past flat | `ExitInv` |
| | `CapHolds` | orders all checked against a current book stay in the cap | `CapInv`, `BookInv`, `StreamInv` |
| `OrderForm_proofs` | `TypeCorrect` | `[]TypeOK` | `IInv` |
| | `NeverShutsTheMarket`, `HoldsClosures` | `Sessions`: no session is shut but by a closure's reach, and a closure the engine was told of is held | `EngineInv` |
| | `AnchorsRight` | the day and the week start at an evening's open | the calendar lemmas |
| | `OrdersAlwaysFit` | an order has the form of the session of its intent, turned or not, and until it turns it fits its market: market orders leave only in regular hours; extended ones always with a fresh price, overnight ones with an eligible symbol | `EngineInv`, `DeskInv` |
| `TapeIngest_proofs` | `TypeCorrect` | `[]TypeOK` | `Base` |
| | `OnlyActiveShown` | while the tape streams, the bars hold the active symbol's prints only, but for the message in hand when the book was cleared | `StreamInv` |
| | `CountedOnce` | by day every print is once in each series, but for the cut second, what the buffer dropped, and, twice, the partial bar's overlap and what waited at the drain | `CountInv` |
| | `PolledTwice`, `PolledHoles` | overnight, what counts twice or never lies in the named windows | `NightInv` |
| `RealizedKicks_proofs` | `TypeCorrect` | `[]TypeOK`: one holder, one worker | `Inv` |
| | `NoHoles` | `FillWalk`: a walk has no hole up to its cursor, no repeat, and keeps the order | `WalkInv` |
| | `KeepsKicks` | a kick has a worker until a refresh has begun after it | `KickInv` |
| `RealizedSync_proofs` | `TypeCorrect` | `[]TypeOK`: the provisional rows stay in order and bounded | `SyncInv` |
| | `KeepsUp` | a stored fill has a callback, a need or a worker about to read it | itself |
| | `CountsOnce` | no figure counts an execution twice, if `TellApart` | `SyncInv` |
| | `CountsAll` | a refresh leaves out no execution it knew of that is `Sure` | `FeedInv` |
| | `KeepsSample` | what a publication may take back (`SampleKeeps`) of those | `FeedInv`, `PublishInv` |
| `Inventory_proofs` | `TypeCorrect` | `[]TypeOK` | - |
| | `FiguresExact` | `RealizedExact`: what the walk knows enough of is counted exactly, and nothing else blanks it | the walk lemmas |
| `ChartView_proofs` | `TypeCorrect` | `[]ViewTypeOK` | `IInv` |
| | `CandlesAscend`, `NoPrintStrays` | one candle to a bucket, in order; a print is in its own candle only | `Kept`, `Sound` |
| | `EmaFollowsCloses` | each EMA is that of the closes in order, each once | `Exact` |
| | `MarketHeard` | wherever the last accepted print was the market's, the filter refuses no price of the market until it has left the ratio of that print | `PastInv`, `LastSeen` |
| | `VwapFollowsWindow` | the VWAP is that of the watched window, but for the named prints, and has none twice but the partial bar's overlap | `VwapInv` |
| | `CustomFollowsSource` | without late prints, the live-fed custom series has the candles a rebuild gives | `EvenInv` |
| | `FrameIsARun` | the frame is the run of candles asked for, blank only when panned over a forming candle alone | `Kept` |

### SymbolSwitch

For every set of symbols, every number of requests and of connections, from
`SymbolSwitchAssumption` alone (the default symbol is one of the symbols, the empty
one is not, the bounds are natural numbers). None of the properties is inductive as
it stands: they speak of the mutex being free, and say nothing of the middle of a
switch. `HolderInv` says where filter and subscription stand at each program
counter: closed from `subscribe` to `open`, on the target during `fetch`, back on
the previous symbol while it is being restored. `HistoryInv` says the same of
the rings: they may hold the previous symbol's history until they are cleared,
the target's during the fetch, nothing while a rollback resubscribes.
`RequestsDistinct` says that request numbers are distinct and never ahead of the
terminal's.

Refinement: `pending` is the set of requests waiting and the one whose switch is
running; `committed` is the filter's symbol, or the previous one while a switch
runs. A switch therefore takes effect at its unlock. `StepSimulation` proves
that each step of the wiring is `Request`, `Settle`, `Deliver` or a stutter;
`ReturnSettles` is the case of the unlock, which four actions share.
`AnswerInv` is stated over the same mapping: a request is pending or answered,
never both, and once the newest has settled last its answer is the committed
symbol, still on its way or shown.

### OrderDesk

For every start position, size, cap and number of intents. `IdsInv`: an id names
one order, wherever it is. `StreamInv` is what makes a cached book possible at
all: of the updates still on their way, the last about an order, and the last fill,
is the broker's present state of it, and nobody who is not listening has any. From
it, `BookInv`: a trusted book, and a snapshot no update has crossed, agree with the
broker on everything no update on its way is about. `ExitInv` carries one condition
(`Covers`) from the lookup of an exit to its order: the position covers it and no
order of its side rests. `CapInv` counts, while no check was blind, the one order
that is checked and not yet accepted into the broker's sums; that there is one only
is part of the invariant, and is what `blind` is about.

### OrderForm and Sessions

For every calendar that satisfies `CalendarAssumption` (the exchange is never closed
for five days in a row) and every number of days. No published calendar closes for
more than four; a longer emergency closure is outside the model, whose `TradingDays`
looks five days ahead. The next open, the last close and the trading days are sets of which
`Min` and `Max` are taken, so the first half of the module is about those: when the
next open does not change (`StillShut`), what a reading that names it tells
(`ClosureForces`), that a closure is excused (`ForcedExcused`). `EngineInv`:
readings come in order; a closure that lasts ends at the open the exchange
names and has a reason; one that the engine was told of lasts. `DeskInv` adds the
prompt (an intent keeps its session, and comes to be priced overnight only after
a right verdict) and the eligibility cache (`Right`: no verdict in it is wrong, none
is there twice), through any sequence of answers, evictions and switches.

### TapeIngest

For every number of prints, symbols, drops and switches, buffer size and tick rate.
`Base` adds to the types which symbol each stage of the holder works for.
`CountInv` says, for each stage of a backfill, which of the prints are in the bars,
which in the buffer and which are stamped so that the drain will take them:
`Windows` and `Buffered` before the bars, `MinuteLoaded` and `SubLoaded` after each
request. What is in hand may have passed the filter before the book was cleared or the
buffer drained, so the invariants count it as on its way to where `TradeFolds` will
put it. `NightInv` says the same of the poller, where two cursors move: `Passed`
are the prints handed on, `Skipped` those it will not ask for again, and the two
differ during a fetch. Several properties overnight hold only in terms of the
mark a backfill leaves, which the invariant therefore carries (`NightWindows`).

### RealizedKicks and FillWalk

For every history of rows and every page size, retry limit, delay, period and
budget. The rows a broker serves are an ascending sequence of a set; that there is
one, and only one, is `AscendingExists` and `AscendingLists`, by a least
counterexample. `WalkInv`: while a walk goes on it holds all that was due
up to its cursor (`ReadUpToCursor`), which needs the case of pages that repeat their
first row and, for orders, that end among equal times. `KickInv`: an open kick has a
worker that has not begun its refresh, or one that has and will find the kick
younger than the delay; the excuse in `KicksKept` is where neither holds.

### RealizedSync

For every history of executions that satisfies `SyncAssumption`: a recorded time
never decreases along the numbering (executions are numbered in the order they
happened), quantities are positive. `Qty` and `Unmatched` are recursive functions
over the rows; the proof unfolds them by `RecursionExists` (the function the
`CHOOSE` stands for exists) and `Induction` over a set of indices, neither with an
operator as a parameter. `CountsOnce` needs `TellApart`: executions without an
order id differ from every other in order, size or price. Two that do not are one
row to the code, which hazard `store.go:1201` records; the history of the run
satisfies it. `CountsAll` and `KeepsSample` have no hypothesis: they are about the
executions that are `Sure`, and `RealizedPartials` and `RealizedResidual` are what
becomes of the others. `FeedInv` (`Kept`): what is no longer a provisional row was
listed or could be taken for what was listed, and the cache has it, or a failed full walk cut the cache before it and the next walk
finds it. `PublishInv` follows the two publishers: rows read from a whole cache have
all of it (`ReadWhole`), what they miss is pending for the worker (`ReadRows`,
`MergedRows`), and of two that run at once the later clock wins (`FirstRuns`,
`NewsFollows`).

### Inventory

For every account, every set of trades and every book before the lookback whose
positions have an average (`InventoryAssumption`). No invariant is needed but the
types: `RealizedExact` holds in every well-typed state, by induction over the fills.
`WalksApart`: two walks over the same fills move a symbol by the same, so the
synthetic open is sized right (`EndIs`, `EndsAtSnapshot`). `WalksAlike`: two walks
from books that agree where they are not flat realize the same. `ReducedIs`: an old
position that was only reduced is on its side at its average. `KnownCounts` combines
them: a symbol that is `Known` is not left out, and the walk starts it from what the
account had. The proof found that `OnlyReduced` had to say that a position is not
flipped: one that is, to a smaller size and at exactly its average, has the form of a
reduction, and the seed of the other side is taken for a lagging feed.

### ChartView, BarRings and Ring

For every ring size, bucket, custom and session length, chart width and budget.
The properties themselves are not inductive: what a drain or a reopening does to a
candle depends on what waits in the buffer. `IInv` is `FeedInv`, the aggregator's
part, with the type of the view. `FeedInv` says that the tape is numbered in the
order of the reports, that the fetch's times are past, and that the aggregator is
`Sound` for it:

- each series is `Kept`: its candles, forming one last, are `Filed` (they ascend,
  a print is in the candle of its bucket only, and a bucket whose candle is missing
  was evicted or is that of a late print), unless it is `odd`; and it is `Exact`:
  the EMA held at a slot is that of the closes up to it;
- the buffer is in the order of the reports and empty unless a backfill buffers;
- each print in it is `Fresh`: it has been handed to no series that the drain would
  hand it to again, given the cutoffs the fetch will pass (`TradesTo`, `BarsTo`).

The last is what makes the drain right: `Load` and `ReplayTrades` rebuild a series
from prints up to their cutoff, the drain applies those after it, and a print that
is at once buffered and loaded is dropped by the cutoff. `foldTrade` is characterised
once (`Folds`: it joins the last candle, opens a new one with or without evicting, or
amends one in place) and each series property is then a lemma about sequences of
candles. `resampleTo`, `Loaded`, `ReplayTrades` and `finishBackfill` are recursive
functions; `RecursionExists` gives the run a definition denotes and `Induction` goes
along it, for a set of indices rather than a predicate. `resampleTo` of bars that do
not descend gives `Gathers`: one ascending candle to a bucket with just its prints.

`VwapInv` adds for the windows that the prints missing from the VWAP came `early`,
that what the buffer holds over the end of a window is in `over`, and that no print
is of the future. `SeedIs` is where it needs that sessions open on whole minutes: the
accumulator is seeded by the window of a candle's start, the property speaks of the
window of the print.

Proving `PrintsInTheirCandle` showed that it was stated wrongly: it excused a print
without a candle whenever the ring was full, and required one when it was not. A ring
that reopened its newest candle after evicting is not full, and a print of an evicted
bucket then has none; while a full ring that evicted nothing older is no excuse. The
property now names what was evicted (`Evicted`).

`CustomIsResampled` says that feeding the custom ring print by print and resampling
its source commute, although the two rings evict at different times. `EvenInv` makes
it inductive, for as long as no print is late (`NoneLate`): no series ever opened a
candle out of order, a custom candle closes as the last candle the source has of its
bucket (`Alike`), and the custom series and its source are a `TwinOf` each other. That is: what the source
holds was handed to the custom series; a print only the custom series has was evicted
by a full source; and one that the custom series lost while not full itself (a rebuild
from a full source can be one candle too long for the ring) is no younger than the
bucket of the source's first candle. `Grows` is what one print in order does to a
series, `TwinGrows` that it keeps two series twins, `LoadedTwin` that a rebuild makes
them so. For a start that both reach back to (`Reached`), two candles of it then hold
the same prints (`SourceHas`, `CustomHas`) and the same close (`SameCandle`). The
property compares the candles as a set; their order is `OneCandlePerBucket`.

### What stays with TLC

The two liveness properties of passing runs, `EverySwitchAnswered` and `KicksServed`,
and the third, `DelayedFillsFound`, which the run `RealizedNoHeal` refutes: TLAPS 1.4.5
proves nothing under fairness. Every safety and action property of a passing run is
stated by a theorem.

## 6. Where the models and the code's words differ

In these TLC ends with a counterexample. The first four are violation runs, entries
under `findings` with the quoted line; the other six are the configurations named.

- `PollerForeign` (`overnight.go:173`). The guard against a batch of the symbol
  switched away from compares two values the poller itself set, so it never
  fires: prints of the old symbol enter the new book.
- `RealizedNoHeal` (`store.go:1009`). If the first full walk stops half-way, the
  timestamp that later asks for a full walk is not set: delta fetches complete the
  cache without setting it, and an execution listed late, behind the newest
  cached one, is not fetched before the week turns.
- `RealizedPartials` (`store.go:1440`). Of an order filled in two parts the first
  is listed and its row pruned; the second part's row alone is then no more than
  the listed quantity, so it counts as covered and is left out and pruned, until
  the feed lists it.
- `FormMispriced` (`builder.go:175`). The quote source knows only "the active
  symbol". Between the moment a switch moves the tape and the moment the
  terminal follows, an order outside regular hours is priced from the other
  symbol.
- `SwitchOvertaken` (`main.go:406`). Two `:sym` goroutines take `backfillMu` in the
  opposite order of their requests. The newer one fails and rolls back, the older one
  then moves the tape; its reply is superseded, and the terminal stays on the name
  from before, the very state `ui/model.go:63` says cannot be. `NewestShown` is what
  holds: where the newest request settled last.
- `CapUnseen` (`risk.go:238`). Orders sent and not yet acknowledged are in neither the
  position nor the working orders that `projectedExposure` reads, so two orders in
  quick succession, each within the cap, together exceed it, against `store.go:592`.
  `CapWhenSeen` is what holds.
- `RealizedResidual` (`store.go:1457`). The activity of one order is listed without
  order id; its row is pruned. At the next refresh the activity covers the row of
  another order on that side within the match window, which is left out and pruned,
  against `store.go:1388`.
- `KickDropped` (`main.go:361`). A kick that lands during a refresh and is older than
  the delay when it ends is taken for handled, although the refresh may have read the
  feed before it, against `main.go:331`. `KicksKept` is what holds of the worker, and
  `KicksServed` shows the ticker makes up for the rest.
- `GapsBlocked` (`bars.go:384`). The band of the price filter lies around whatever was
  accepted last. A print off the market but inside the band, or a first one after a
  reset, moves it, and prints of a market that has hardly moved are then refused until
  it comes back into the band or a switch resets it, against `bars.go:377`.
  `MarketPricesPass` is what holds.
- `PanBlank` (`bars.go:1234`). Panned back over a series with a forming candle only,
  `back = r.count - 1` is -1, and the frame is slot 0 of the ring, a candle that is not
  held, against `bars.go:1158`. `FrameShowsHeld` is what holds.

The others are the exceptions written into the passing properties, each found as
a counterexample to the property without it:

- `StreamOnlyActive` (`stray`): a message that has passed the filter and waits for
  `a.mu` while a switch clears the book, or a rollback does after the filter was put
  back (`main.go:445`), is folded into the other symbol's book. It is one print or
  quote; the comment at `main.go:431` counts on the reset to keep it out.
- `StreamOnce`: the prints of the partial bar past `reqEnd` are drained on top of it
  and count twice, as `bars.go:825` accepts; so is, unmentioned, a print that waited
  for `a.mu` while the buffer drained, if REST or the replay had it.
- A forced backfill of a rollback can be superseded by an acknowledgement that
  read the failed symbol just before it (`main.go:458`); the newer job is dropped
  for the wrong symbol, and the previous symbol's rings stay empty until the
  next reconnect, against `main.go:400` and `:455`. `HistoryMatchesTape` only
  says that they hold nobody else's.
- `PolledHolesBounded`: overnight, prints between the end of the bar window and
  that of the trade window never reach the minute rings or the VWAP
  (`main.go:729`, against `:724`); that and the cut second are the only holes.
- `OrdersFit`: an order whose session turned between intent and submission keeps its
  form (`FormPinned`) and may miss the market it meets, the choice `DESIGN.md:117`
  documents.
- `PrintsInTheirCandle` (`Evicted`): a print older than an evicted candle is in
  none (`bars.go:617`), also when reopening has left a slot free since.
- `OneCandlePerBucket`, `PrintsInTheirCandle` (`odd`): a late print that is the
  first after a load whose last candle was closed opens a candle out of order
  (`bars.go:608`).
- `VwapOfWindow`: the session is polled each second (`main.go:131`), so the reset
  wipes the first prints of a session (`early`) and prints buffered over the
  boundary enter the next (`over`); a load that finds no candle of the present
  window seeds the VWAP of the one before, and nothing resets it (`carried`); and
  the prints of a partial bar past `reqEnd` are fed twice (`overlap`).
- `KicksKept`: a budget spent waiting for `realizedRefreshMu` (`store.go:840`)
  loses the kick of that worker; the ticker makes up for it.
- `SampleKeeps`: a recompute that read its rows before a refresh merged, and whose
  clock started later, publishes after it and takes back what only the feed had;
  so does one that walked the prefix a failed full walk left (`store.go:1267`).
- `RealizedExact` (`Known`): where the snapshot and the feed differ in a way the
  walk reads wrongly, figures can be wrong without a sign of it. Bought one before
  a snapshot and sold two after it: the seed of +1 against fills that end at -1
  looks like an older position, and is bridged at its average. Closed and opened
  again before the next Reconcile, the retained average books a loss that never
  was. A long-held position that was added to is costed at the seed's average
  throughout, and one that was flipped is taken for a lagging feed.
  `realized.go:96` wants the prior sample kept rather than a confidently wrong
  number.

## 7. Not modelled, and why

- Chart drawing, latency display, command-line parsing, configuration, logging:
  pure functions or drawing. None keeps state another component depends on.
- Floating point: EMA and VWAP as numbers, slippage, tolerances, fractions of a
  share. The modules keep what was fed, counted or compared instead.
- The websockets' backoff and message decoding; single-request REST endpoints,
  which are one step that succeeds or fails where they are used.
- The kill switch and the debounce window of the risk checker: each only
  withholds an intent, and the operator may withhold any.
- `RealizedFromOrdersWithHints`, which turns closed orders into fills for the walk
  at a cold start; `CancelAll`, which no key is bound to.
- Changes to and from summer time.
- The seeds and averages the recompute takes from the live positions
  (`store.go:1251-1264`); a window resized under a cropped chart.
- The broker, the exchange, its calendar and the REST services are external:
  modelled from how the code uses them, and marked so in the map.

## 8. Plan

Done: the switch and its proofs, ingest, the order desk, sessions and the order
form, and of the realized figures when, which and how much; candles and the chart.
Proved: every safety property and every action property of a passing run (section 5).

To model: the risk checker's debounce and kill flag if they grow state; orders
turned into fills; the websockets' backoff.
