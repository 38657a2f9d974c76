# Verification project for crypto-options-bot

The bot trades options on Delta Exchange India: three strategies propose
entries and exits, a risk manager gates them, an executor turns them into
orders, and a small set of files and tables must survive crashes. This
directory holds TLA+ models of the parts of `bot/` whose correctness depends on
orders of events, TLC configurations that check them on small instances, and
TLAPS proofs for every value of the constants.

## 1. Inventory

| Part | Code | State it keeps | Operations | Hard behaviour |
|---|---|---|---|---|
| Trading engine | `runtime/engine.py` | five asyncio tasks; `open_rows`, intents, accounting snapshot per tick; cooldowns and trail state in memory | boot, tick (exits, dispatch, gate, entries, breaker, peak), daily report, chain refresh, tick queue, shutdown | tasks interleave at awaits; three sessions and an exchange call per entry; no exception handler around a tick; crash between any two of them |
| Live executor | `execution/live.py` | none between calls; the orders of one call | `submit_entry`, `submit_exit`, `update_stop`, `cancel_all_for_trade` | legs run in `asyncio.gather`; fills race polls and cancels; calls fail before or after they took effect |
| Dry executor | `execution/dry.py` | none | the same interface, filled from quotes | - |
| Risk manager and caps | `risk/manager.py`, `risk/caps.py`, `risk/window.py` | `NavTracker`: NAV, day and week opening, peak, breaker flag | `gate`, `evaluate`, `roll_day` | boundary values; anchors and the calendar |
| NAV persistence and breaker | `runtime/nav_state.py`, `runtime/resume.py`, `analytics/daily.py`, `runtime/go_live.py` | `nav_history`, `circuit_breaker.json`, realised results of closed trades | load, day roll, trip, daily report, resume | three records of one trip, written and cleared by different programs; values captured before an await |
| Exit engine | `exits/engine.py`, `runtime/trade_tracking.py`, strategies' `manage` | peak result and trailing stop, in memory and in the notes of a trade | `step`, `_persist_trail_stop`, `refresh_open_trade_notes` | memory is lost by a restart and by an attempted exit, notes are not |
| Order reconciler | `execution/reconcile.py` | none between calls; rewrites orders and trades | `run` | the exchange moves between the listing, the lookups and the commit; a failed lookup looks like a cancelled order |
| Kill switch | `runtime/kill_switch.py` | an event, `shutdown.json` | `trip`, `poll_file`, `shutdown` | a cancel that fails or whose answer is lost; requests that arrive after it |
| REST client, rate limiter | `exchange/rest.py`, `exchange/rate_limit.py` | tokens and lock of each bucket | `_request` with retries, `acquire` | tasks wait for the sleep of another and may be cancelled in it; retries of what was done |
| Price feed and candles | `exchange/ws.py`, `data/candles.py` | a bounded queue, marks, candles of two timeframes | reconnect, enqueue, drain, `add_tick` | lost, late and missing prices; the host's clock and time zone |
| Option chain cache | `data/chain_cache.py` | instruments, quotes, the time of the last refresh | `refresh_instruments`, `refresh_quotes`, strike pickers | read by everything between two steps of its task; a refresh that fails half way; time zones |
| Strategies | `strategies/` | cooldowns | `evaluate`, `manage` | they read a market state of the tick and a chain of now |
| Desk | `desk/` | samples of implied volatility | limits on the portfolio, sizing by greeks, liquidity, ranks of volatility | figures of different ages |
| Analytics, observability, configuration, storage | `analytics/`, `observability/`, `config/`, `storage/`, `cli.py` | reports, metrics, tables | - | text and I/O |

The engine calls the strategies and the risk manager directly, the executor
through `ExecutionRouter`, the database through one session per step, and the
exchange only through the executor and the chain refresh. The daily report and
the tick share the `NavTracker`; the resume command is another process and
shares only the database and the runtime directory.

What makes each part correct, in one line each:

- entry: a reported success is a complete position; a failure leaves a bounded,
  known remainder; the call returns;
- exit: a trade is closed in the database only when as many lots have left the account;
- engine: the concurrency limits hold in every state, every position has a row,
  nothing re-enters what it just left, every tick ends;
- caps and breaker: no trip is missed, none is undone except by the operator,
  the NAV is what the book says, the daily and weekly budgets are counted from
  the right moment;
- exits of a position: what the process forgets the notes keep, stop orders do
  not pile up without a cause, an expiring position is closed;
- price feed: the history has no hole, the timeframes agree, the queue is served;
- requests: the rate is bounded in every stretch of time, every call ends;
- option chain: its time stamp is honest, it ends up with what the exchange lists;
- strategies, gate and desk: the booked risk is what a trade can lose at the prices
  it was computed with, and inside the budget, the legs of a trade fit together,
  proposals do not oppose each other;
- stop and start: rows claim no fill that is not there, no trade with a known fill
  is closed, a clean report means that rows and the orders of the program agree, a
  sweep is final.

## 2. Modules

| Module | Models | Used by |
|---|---|---|
| `EntryContract` | what `ExecutionRouter.submit_entry` promises the engine | `LiveEntry` (refines it), `TradeEngine` (is built on it) |
| `LiveEntry` | `LiveExecutor.submit_entry`, `_place_entry_leg`, `_wait_for_order`, `_cancel_open_order`, `_rollback` | `MCLiveEntry`, `LiveEntryProofs` |
| `RiskCaps` | `DrawdownCaps.evaluate`, `NavTracker.roll_day` as operators | `CircuitBreaker` |
| `CircuitBreaker` | `load_nav_tracker`, the tick's use of the tracker, `persist_circuit_breaker_trip`, the daily report, `resume --confirm` | `MCCircuitBreaker`, `CircuitBreakerProofs` |
| `TradeEngine` | `main_loop`, `_persist_entry_and_execute`, `_persist_exit`, `LiveExecutor.submit_exit`, the concurrency part of `RiskManager.gate` | `MCTradeEngine`, `TradeEngineProofs` |
| `ExitEngine` | `ExitEngine.step`, `manage` of the three strategies, `_persist_trail_stop`, `LiveExecutor.update_stop`, `refresh_open_trade_notes` | `MCExitEngine`, `ExitEngineProofs` |
| `MarketData` | `DeltaWebSocketClient.run` and `_pump`, `ws_drain_loop`, `CandleAggregator` | `MCMarketData`, `MarketDataProofs` |
| `RestClient` | `TokenBucket.acquire`, `DeltaRestClient._request` and its retries | `MCRestClient`, `RestClientProofs` |
| `Recovery` | `OrderReconciler.run`, `KillSwitch`, `cancel_all_for_trade` | `MCRecovery`, `RecoveryProofs` |
| `ChainCache` | `ChainCache`, `parse_symbol`, `bucket_for_expiry`, `chain_refresh_loop` | `IvHistory` |
| `IvHistory` | `IvHistoryStore`, `percentile_rank`, the prefetch of ranks | `Strategies` |
| `Strategies` | `evaluate` of the three strategies, as operators on the chain | `Desk` |
| `Desk` | the entry half of `main_loop`: market state, greeks of the portfolio, dispatch, `RiskManager.gate` with its sizing, `DeskPolicy`, the dry executor's entries | `MCDesk`, `DeskProofs` |

`LiveEntry` implements `EntryContract`, and `TradeEngine` is built on nothing
else about entries (its `EntryWorks`, `EntryFilled`, `EntryFailed` and
`LateFill` are the actions of the contract for the trade being entered): this is
how the executor and the engine are composed. `CircuitBreaker` and `TradeEngine`
are two views of the same tick, of its money and of its trades; `ExitEngine` is
the view of one position, in which the executor's exit works or fails. `Desk` is a
third view of the tick, of what is proposed and how it is sized, composed with the
task that refreshes the chain (`ChainCache`), the samples it takes (`IvHistory`) and
the strategies; which trades exit, the NAV, the loss caps and the fills are its
inputs, each the subject of a module above. `RestClient` justifies what `LiveEntry`
and `Recovery` assume of a request: it returns or raises. That an order which is sent
again after a lost answer is placed once rests on the exchange knowing its
`client_order_id` (`router.py:13`), which is external.

Every await of the code that commits a session or talks to the exchange is an
action boundary. Between two boundaries the code runs without interruption and
is one action.

### How state and actions correspond to the code

`LiveEntry`: `pc[l]` is the place of leg `l` in `_place_entry_leg`, `order[l]`
its two orders at the exchange, `fill[l]` the `LegFill` its task holds, `last`
the local variable of `_wait_for_order`, `phase` and `rb` the place of
`submit_entry` and `_rollback`. `PlaceMaker`, `PlaceIoc`, `Reply`, `Poll`,
`Timeout`, `CancelOpenOrder`, `CancelFails`, `LegRaises`, `JoinLegs`,
`RollbackClose`, `RollbackCancel` and `RollbackSkip` are its steps; `MakerFills`,
`MakerKilled` and `IocMatches` are the exchange, which is external.

`CircuitBreaker`: `nav` is the `NavTracker`; `rows` the table `nav_history`;
`marker` the file `circuit_breaker.json`; `pnl` the realised sum of the closed
trades; `pc` the place of the tick; `job` the arguments of the running daily
report, which are read before its awaits. A day has two segments, before and
after 05:30 IST, because the code takes weekdays from UTC times.

`TradeEngine`: `trade` is the trades table; `pos` what the account holds of each
contract, net of all trades, because an exit order names a contract, a size and
`reduce_only` and nothing else; `sent` and `bought` what entry orders were for and
have opened; `todo`, `intents` and `acct` the locals of one tick; `cur`, `leg` and `complete` those of
the exit or entry in progress; `cool` the cooldowns of the strategies.

`ExitEngine`: `rt` is the `PositionRuntime`; `notes` the two entries of
`trade.notes` that outlive it; `directive` the result of `step` and its entry of
`peak_by_trade`; `stops` the stop orders at the exchange. `Step` is one tick up to
its first await; `ExitFails`, `ExitCloses`, `UpdateStop`, `PersistTrailStop` and
`RefreshNotes` are what follows. A directional position can be built with one
quote and managed with another, because the chain is read twice.

`MarketData`: `conn` and `backoff` are the loop of `run`; `queue` the bounded
queue; `mark` the entry of `underlying_marks`; `short` and `long` the aggregators
of "15m" and "1h"; `clock` the wall clock and `Offset` the host's time zone.

`RestClient`: `tokens` and `last` are those of a `TokenBucket`, `queue` the holder of
its lock and those who wait for it; `pc`, `attempt` and `wake` the place of a call in
`_request` and the end of its sleep; `sent` the times at which a request was let go.
`Call`, `Acquire`, `SleepForTokens`, the replies, `Retry` and `Cancel` are
the steps of a call; a unit of time is half a second, the first backoff.

`Recovery`: `ex` is the exchange's record of each order, `row` the table of orders,
`work` the same rows inside the uncommitted session of the walk; `known`, `listing`
and `report` are locals of `run`; `sweep` and `cancelled` those of `shutdown`, `file`
is `shutdown.json`. `Boot`, `ListOrders`, `Walk`, `Commit`, `CheckLegs` and
`CloseTrades` are `run`; `Trip`, `StopTrading`, `SweepTrade` and `PersistState` the
kill switch; `Send` and `StoreOrder` stand for the session in between. `nameless` is an
order without a client order id, placed by hand, which the listing returns and
`live_by_coid` leaves out.

`ChainCache`: `instruments` and `quotes` are the two dictionaries, `fetchedAt` is
`_products_last_refresh`, `askedAt` the clock that `refresh_instruments` read before
its await, `loop` the place of `chain_refresh_loop`. Time is in half hours, because
17:30 IST is 12:00 UTC. `IvHistory`: `marks` is `underlying_marks`, `history` the
stored samples, of which ranks are exact fractions.

`Desk`: `m` is the `MarketState`, `rows`, `quoteFor` and `book` are read once per
tick, `intents` what is left of `disp.all_intents`, `trades` the open trades. The
chain moves between any two of `LoadMarket`, `ExitsRun`, `EvaluateAll`, `GateApproves`
and `EntryFills`. A trade is stored with the prices of its fills, which are the mids of
the chain at the entry moved by a slippage of `Slips`; its risk is the gate's.
`asQuoted` remembers whether a quote has changed since the evaluation. Prices are
whole numbers, deltas percentages.

Variables marked *history* are read by properties only. Operators whose comment
begins with *Mutant* are plausible mistakes; no specification uses them.

## 3. What the runs check

| Run | Instance | Shows |
|---|---|---|
| `entry` | 2 legs of 2 lots | an entry reported as a success holds its lots in every leg; no leg is short or holds more than twice the lots; nothing is left working when no call raised; the contract is implemented; the call returns |
| `breaker` | 2 days across a week's end, 3 open trades, results that hit each cap, 1 entry, 1 crash | the NAV is the book; a tick ends tripped or inside the cap; nothing is entered while a trip is in the marker file or the latest row; the daily cap holds without restarts |
| `engine` | 3 strategies on 2 underlyings, three of whose legs meet on one contract, one of them selling it, 2 trades, a crash, exceptions | the concurrency limits hold; a position has a row; the net position never exceeds what the open trades say; a booked exit found every lot when it began; nothing re-enters what its tick exited; every tick ends |
| `exit_engine` | one position of each kind, mids at each threshold of the configuration, 1 failed exit, 1 crash | the stored peak covers the process's and never falls; there is at most one stop order more than runtimes were dropped; an expiring position reaches the executor unless the loop has raised |
| `market` | periods of 1 and 2, history of 2, 3 periods of time, the clock set back once | no hole in the history; the two timeframes agree; the queue is served |
| `requests` | 2 order calls on one bucket, capacity and attempts that bind, cancellations | the rate bound; the lock is with the calls in `acquire()`; every call ends |
| `recovery` | a trade of 2 legs with an order each, orders placed by hand, 2 restarts, crashes anywhere | rows claim only real fills; only trades without a known fill are closed; a clean report means that rows and listed orders with a client order id agree; a second run agrees with the first; a sweep is final; start and stop end |
| `desk` | 1 underlying, 3 strategies, 18 contracts of 3 expiries, 2 instants before and after two settlements, 2 answers with tickers, a tick on an empty or a filled book | the stamp of the chain never flatters it; booked risk covers what is filled as quoted, but for slippage, and is inside one trade's budget; legs fit together; proposals agree; the chain catches up |
| `entry_residue` | as `entry` | a failed entry holds lots although no call raised and every close was executed |
| `breaker_resume` | 1 day | `resume --confirm` does not end a trip |
| `exit_target` | 1 vertical | a credit vertical is closed at its target whatever it has earned |
| `desk_settled` | the morning and the afternoon of an expiry day, live fills | an option is held, and not due to be closed, after the exchange has settled it |

Why the bounds are enough. Two legs are the least that can disagree, and two lots
the least that can fill in part; all legs run the same code. Two days give one
boundary of a day and of a week, each with the hours in which the UTC date lags.
Two trades are the least that compete and that share a contract, on one side or on
both; two strategies and underlyings the least that compete for a limit. One crash or
failure at any point, followed by a restart, reaches every half-written state;
more of them only repeat it, and the proofs cover any number. The mids of
`exit_engine` lie on or beside each threshold of `config/strategies`. A history of
two is truncated, a queue of one is full and empty, and the four buckets of the clock
hold two long candles, either of them with a missing short one; a longer queue
delays a price and changes nothing else, because a price counts when it is drained.

Two calls are the least that wait for one another; the proofs of `RestClient` cover
any number. Two orders of one trade can be filled, listed and lost differently, and
two restarts let a run see what the one before it left. In `desk` the two scenes of
tickers have other deltas, missing quotes, missing bids and missing prices; two
answers mix them; instants before and after a settlement move every bucket; the
books stand for what earlier ticks and processes left, so that one tick is enough.
The candles' verdict is a free input, and so is a strategy that is cooling down or
raises. Settlement prices at each strike, at zero and beyond the last strike are all
that a piecewise linear result needs, and one slippage against every order is the worst;
the theorem covers any.

`CHECK_DEADLOCK FALSE` stands where the system may stop: `submit_entry` returns,
a main loop that raised stays dead, a position is closed, and the named bounds
end the rest. `market` checks for deadlock.

Fairness. `LiveEntry` assumes weak fairness of every step of a leg, of the join
and of the rollback, never of a fill: `DeltaRestClient._request` returns or raises
after at most four attempts, `_wait_for_order` has a deadline. `TradeEngine` and
`ExitEngine` assume that the loop goes on and that each await ends: sessions and
files return or raise, `submit_entry` returns (run `entry`). `MarketData` assumes
that the drain loop gets a message that is in the queue; it does not assume that a
connection succeeds or a lost one is tried again. `RestClient` assumes that the
clock goes on, that a sleep ends and that a request is answered, refused or times out
(`httpx` has a timeout). `Recovery` assumes that the reconciler's and the sweep's calls
return or raise, never that a process survives. `Desk` assumes that the clock and the
refreshing task go on, which catches every exception, and (strong fairness) that a
task that asks for the products again and again is answered some day.

## 4. What is proved

For every value of the constants that satisfies the named assumption of its
module (`EntryAssumption`, `CapsAssumption` and `BreakerAssumption`,
`EngineAssumption`, `ExitAssumption`, `FeedAssumption`, `RestAssumption`,
`RecoveryAssumption`, `ChainAssumption`, `TickerAssumption`, `StrategiesAssumption`,
`IvAssumption`, `DeskAssumption`, `SizingAssumption`, `BooksAssumption`,
`SettlesAssumption`), each as `Spec => []IInv` and consequences. The assumptions say
that sizes, caps and bounds are numbers and positive where the code divides by them or
counts up to them. Those of the desk say also that the NAVs have a top that is not
negative, that a breakout is at least 1, that an underlying may settle above every
strike, and that what an earlier process left open was entered by the same code.

- `LiveEntryProofs`: types, `SuccessIsFilled`, `ExposureBound` and
  `ImplementsContract`, for any number of legs and lots. `LegInv` says what the
  reported fill of a leg implies about its orders at each place of its task
  (reports only lag behind), and that what was closed was bought. Every step of
  the executor then maps to a step of the contract or to a stutter.
  `NoOrderLeftWorking` and `ResidueIsMakerFill` need a second invariant, `WorkInv`:
  a maker order works only until its cancel, a task returns a missing quote, a full
  maker order or what it saw of the IOC order (`FillInv`), and `_rollback` closes exactly
  what is reported and cancels an IOC order that may work (`RollbackInv`). A failed entry
  is not flat (section 5); `ResidueIsMakerFill`, a subtraction of what is reported from
  what both orders bought, says how far from it the code is.
- `CircuitBreakerProofs`: types, `MarkerLatches`, `NavMatchesBook`,
  `TickEndsInsideCap`, `NoEntryAfterTrip`, `DailyCapHolds`, for any caps, results,
  dates and crashes. `BookedInv` relates NAV and book while a result is being
  stored, `CheckedInv` carries the check of the caps across the rest of the tick
  (the peak is raised only afterwards, and to the NAV), `AnchorInv` says that
  without a restart the day's opening NAV is the true one. `RecordInv` says that a
  trip in the latest row is known to the process, unless its tick is between the row and
  the flag: a boot after a crash between row and marker reads the row.
- `TradeEngineProofs`: types, `ConcurrencyCaps`, `PositionHasTrade`,
  `NetIsCovered`, `ExitBooksEveryLeg`, `NoReentryInTick`, for any strategies, legs,
  contracts they share, limits and crashes. The limits need `AcctInv` (the snapshot the
  gate sees is that of the table whenever it is used) and facts about cardinality.
  `NetIsCovered` counts the lots of a contract against the open trades on each side of
  it: `NetInv` leaves out what the entry in hand has opened so far, `ExitNetInv` says
  that an exit whose fills are all complete has taken its lots out of the account leg by
  leg, whoever had opened them, so that there is room to close its trade. `ExitInv`: an
  exit that began without all its lots has a leg before it that cannot be completed.
- `ExitEngineProofs`: types, `NotesCoverRuntime`, `StopOrdersBounded`,
  `StoredPeakNeverFalls`, for any configuration, prices, failures and crashes.
  `PeakInv` follows the peak from the runtime through the directive into the
  notes, `StopInv` counts a stop order against the runtime that knows of it.
- `MarketDataProofs`: types, `Contiguous` and `TimeframesAgree`, for any periods, time
  zone, history and corrections of the clock. `AggInv` adds that no candle is ahead of
  a clock that was never set back; the lemmas say what fillers, a bounded deque and one
  more candle do to a chain of buckets. For `TimeframesAgree` one period divides the
  other, so that an hour is a block of quarters whatever the zone
  (`BucketsTogether`). `StoryInv` is that the two aggregators stand in the same
  hour (`Together`), and that every hour whose quarters are all kept agrees with them.
  A tick either falls into the quarter of the last one, opens a quarter of the
  same hour, or opens an hour: each is a lemma about the set of the hour's quarters.
  Quarters and hours are dropped from their deques at different times; an hour is spoken
  of only as long as its first quarter is still there (`Covered`).
- `RestClientProofs`: types, `RateBound`, `LockIsHeldByCallers`,
  for any calls, rates, capacities and attempts. The rate needs an accounting of the
  tokens spent since any earlier request against those that time has added; the lock
  needs that the queue holds each waiting call once.
- `DeskProofs`: `StampNeverFlatters`, `RiskHoldsAsQuoted`, `OneExpiryPerTrade`, for any
  contracts, quotes, configurations, limits and interleavings of refreshes with the
  tick. `ProposalIsSound` is the heart: what a strategy proposes from any chain has
  different legs of one expiry, because a bucket is one date (`BucketIsOneDate`), and
  its amount per lot bounds the loss of one lot at any settlement price. The
  invariant carries this through the gate, which only chooses a multiple, to the trades:
  as long as no quote changes the executor starts from the prices of the proposal
  (`QuotedInv`), and a fill that is worse by a slippage costs exactly that
  (`SlippedLeg`).
  `ProposalsAgree`: both strategies that take a side take that of the trend, which is
  above a threshold or below its negative, so that with thresholds that may differ they
  still cannot take opposite sides; that a bought call and a bull put spread gain from a
  rise is computed from their pay-offs. `TypeOK` and the limits rest on `LimitsInv`: the
  lots that the gate returns are a number because quotes, greeks and budget are, and
  when an entry is about to be made the approved risk is in the budget and there
  is room for the trade (`Approved`), although the chain, the prices and the clock
  have moved since. `LimitsAreKept` states what follows for any `max_per_strategy`: the
  number of trades, and the budget of each. `OpenRiskIsBudgeted` is proved for
  `max_per_strategy` = 1, the value in `config/models.py` and `global.yaml`; with a
  higher one the bound on the sum would be that many budgets.
- `RecoveryProofs`: types, `FillsAreReal`, `ClosedOnlyUnseen`, `SweptStaysSwept`,
  `CleanMeansListed`, `RerunAgrees`, for any number of orders, legs, trades and restarts. `RowsInv`
  says that the claims of the rows, also of those in an uncommitted session, are
  covered by the exchange or by a lookup that showed nothing; `RunInv` that without a
  mismatch every row walked so far is open exactly if its order was listed, orders
  without a client order id left aside.
  `RerunInv` carries a clean report over to the next start: while nothing moves, the
  open rows are the orders that work, no open trade is mixed, and the walk replaces a
  status only by one that the later checks cannot tell from it (`SameWord`).

The types of every module are proved (`TypeCorrect`), and so are `MarkerLatches`,
`ResidueIsMakerFill` and `AccountWithinLimits`, which no run repeats; of the types, the
runs repeat those of `RestClient`, whose bounds are its tokens, and of `Desk`, whose
sizes are the outcome of a computation.

Every safety property that a passing run checks is stated by a theorem. Only
model-checked are the liveness properties, `Returns`, `TickTerminates`, `ExpiryIsTried`,
`QueueIsServed`, `CallEnds`, `StartAndStopEnd` and `ChainCatchesUp`: reasoning about
fairness is out of the prover's reach. Not proved either is a bound on the open
risk for `max_per_strategy` above 1, a sum over a set of any size, which needs induction
over data.

## 5. What does not hold

These four have a run each, whose counterexample shows it, and an entry under
"findings".

- A failed entry is not flat: the fill of the IOC order replaces that of the maker
  order in the result (`live.py:203`), and only what is in the result is closed, although
  `live.py:8-10` and `router.py:9-10` say that filled legs are closed.
- `resume --confirm` removes `shutdown.json`; the engine trips again at its next
  boot because of `circuit_breaker.json`.
- The legs from which the exit engine computes what closing a spread costs carry
  no side, so that both count as bought and every spread is at its target.
- The expiry of a contract is 17:30 without a zone and compared with UTC instants.
  The exchange settles at 17:30 IST, five and a half hours before: every rule about
  the time to expiry is late by that, and `expiry_force_close_ist` ("16:45"), which
  would be in time, is read by nothing.

These follow from the models by hand:

- An open order without a client order id is left out of `live_by_coid`
  (`reconcile.py:114-116`) and never called foreign; rule 4 (`reconcile.py:13`) raises for
  every "open orders our DB doesn't know about".
- The risk of a trade is that of the quotes the strategy saw. The executor fills at those
  of a later moment with a slippage, and nothing compares the two, so that the loss of a
  trade may exceed the share of the NAV that the repository's `README.md:24` gives ("Risk
  per trade: 1% NAV"); `RiskHoldsAsQuoted` says what is left.
- An exit that closed one leg of two sends the order of that leg again in the next tick.
  When another trade holds the same contract on the same side the order closes that one's
  lots, and its own exit then finds none; when no other does, the exit never completes and
  its trade is never booked (`ExitBooksEveryLeg`). `live.py:264-271` names no trade.
- The weekly anchor moves a day late, because `roll_day` (`caps.py:110`) takes the
  weekday of the UTC time just after IST midnight; `nav_state.py:76` says "at the IST
  calendar boundary".
- The trailing stop of a call is the larger of a premium and an underlying price
  (`exits/engine.py:201`), so that a stop at break-even closes far above the entry.
- A naive UTC time is converted to an epoch as a local one (`candles.py:77`); the
  deployment sets `TZ: Asia/Kolkata`, so that hours run from half past to half past.
- The exchange writes "cancelled" and "closed" (`live.py:40`), the reconciler knows
  "canceled": an order that was cancelled while the program was down is a
  `fill_state_regression`, and the program refuses to start.
- An order whose lookup fails, or is answered with nothing because the request is
  still on its way, is canceled, and its trade is closed: `ClosedOnlyUnseen` says
  that this is the only way to close a trade with a fill.
- `reconcile.py:14-15` asks for all legs of a trade or none; a filled and a canceled
  leg pass as clean.
- `kill_switch.py:6-8` says that positions are closed and the next boot refuses to
  start: `shutdown` cancels orders only, cancels nothing when no trade is open, and
  nothing reads `shutdown.json` at boot.
- `rate_limit.py:3-4` gives limits of "100 req/10s"; a full bucket allows nearly twice
  as many in ten seconds (`RateBound` has the exact bound).

Behaviour met while modelling that no document contradicts, recorded here for
whoever changes the code: a peak is lost by a restart before the first daily
report; a restart moves the day's anchor; `resume` clears the latest row while the
go-live gate looks at all of them; the IOC order is for the full size, so that a
success may hold more than the lots; an entry whose call raised can leave an order
working; `run_trading_engine` starts without calling `OrderReconciler`; the
persisted trailing stop is never read again, and the throttle and the tightening
of a stop are never reached, because `manage` proposes one only while there is
none; `update_stop` cancels an id that was never used and sends the stop with the
side of the leg; the reset of the WebSocket backoff is never reached, so that
after many losses every later one costs the longest wait; a spread without quotes
counts as closed for nothing; the greeks of an underlying count only the last leg of
each trade, and a contract that left the cache counts as a whole unit per lot; the
book of greeks is made once per tick, of rows loaded before its exits;
`cap_lots_by_greeks` never goes below one lot, whatever the limit; `min_dte_hours` and
`iv_history_min_snapshots` are read by nothing; the fallback strike is one above the
money for puts as well; the preferred expiry of the vertical lies inside its own
force-close window, so that it is closed at its first tick, and a straddle bought
within four hours of its expiry at the next one; after 17:30 IST the directional
strategy prefers "D1" again, which is the contract just settled until the products
are fetched; on a Thursday no expiry is "W1"; on a host that has been up for less
than five minutes the first products are not fetched, because the monotonic clock is
compared with 0; a sample of the volatility uses up its interval also when there was
nothing to sample; a simulated exit is a success even if a leg was rejected.

## 6. What is not modelled

- The indicators on the candles (EMA, ATR, ADX, Bollinger bands): floating-point
  arithmetic; what they say is an input of `Strategies`.
- Fees and simulated exits of the dry executor, the snapshot of greeks and
  the attribution of results: numbers that nothing decides on.
- The items of the go-live gate other than the breaker: counts over the database,
  read once by an operator.
- Request signing and the wallet's reply: formatting of one request.
- Journals, post-mortems, the optimiser and reports: text and offline statistics.
- Metrics, the health server, logging, configuration, table definitions, migrations
  and the command line: I/O and declarations; a session is an atomic step.
- `upsert_quote`, `force_close`, `pop_closed`, `update_nav`, `clear_breaker` and
  `is_force_close_time`: no code of the program reaches them.

## 7. Plan

1. The dry executor with its exits, shown to implement `EntryContract` too.
2. The items of the go-live gate as one snapshot over a database that changes.
3. Proofs that the safety half of the liveness properties rests on: that a call of the
   client has finitely many attempts left, and that a tick never goes back to an
   earlier place.
