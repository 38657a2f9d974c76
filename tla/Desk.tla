--------------------------------- MODULE Desk ---------------------------------
(***************************************************************************)
(* The entry half of a tick of main_loop in bot/runtime/engine.py: the     *)
(* open trades and the market are read, exits run, the strategies          *)
(* propose, the risk manager (bot/risk/manager.py) checks and sizes every  *)
(* proposal against its budgets and the desk's limits (bot/desk), and the  *)
(* approved ones are executed one after the other.  Every step awaits      *)
(* something, so the option chain is refreshed, prices move and time       *)
(* passes between any two of them.                                         *)
(*                                                                         *)
(* Which trades an exit closes is an input here (ExitEngine), as are the   *)
(* NAV and the loss caps at the gate (CircuitBreaker) and whether an entry *)
(* fills (LiveEntry).                                                      *)
(***************************************************************************)
EXTENDS Strategies

CONSTANTS
  Slots,       \* <<strategy, underlying>> in the order in which they are evaluated
  Account,     \* per strategy: share of the NAV, premium cap, lots cap, enabled
  Limits,      \* DeskConfig
  Concurrency, \* max_total and max_per_strategy
  Window,      \* start and end of the trading window, IST
  ForceClose,  \* per strategy, how long before its expiry a position is closed
  WholeUnit,   \* 1 / lot_size: lots per unit of an underlying
  Spots,       \* prices of an underlying
  Signals,     \* what the candles may say: records [trend, compressed]
  Silences,    \* sets of strategies that propose nothing in the same tick
  Navs,        \* values of the NAV
  Settles,     \* prices at which an underlying may settle
  Books,       \* sets of open trades that the database may hold at the start
  Slips,       \* by how much a leg may fill worse than at the mid
  DryRun,      \* fills are simulated from the quotes, nothing goes to the exchange
  MaxTicks     \* bound of the model: ticks

VARIABLES
  pc,        \* where main_loop is
  m,         \* MarketState of this tick
  rows,      \* open_rows, loaded when the tick began
  quoteFor,  \* quote_for, the quotes of the rows' legs at that time
  book,      \* portfolio_book: delta and vega per underlying
  intents,   \* per slot the intent that is not done with, or NoIntent
  lots,      \* the size the gate gave it
  trades,    \* the open trades
  ticks,     \* ticks begun
  asQuoted   \* history: no quote has changed since the strategies were evaluated

tickVars == <<pc, m, rows, quoteFor, book, intents, lots, trades, ticks>>
vars == <<now, chainVars, marks, ivVars, tickVars, asQuoted>>

Strategy == {"directional", "credit_vertical", "long_straddle"}
NoMarket == [kind |-> "none"]
NoIntents == [k \in DOMAIN Slots |-> NoIntent]
Flat == [u \in Underlying |-> [delta |-> 0, vega |-> 0]]

-----------------------------------------------------------------------------
(* PortfolioGreeks.from_open_trades *)

\* The multiplier of a contract that left the cache is 1 unit, not 1 lot.
Multiplier(i) == IF i \in instruments THEN 1 ELSE WholeUnit

Sign(side) == IF side = "buy" THEN 1 ELSE -1

Greek(q, g) == Ticker[q][g]

\* A greek that a quote does not have counts as 0.
LegGreek(t, leg, g) ==
  LET value == Greek(quoteFor[leg.inst], g)
  IN  IF value = NoGreek THEN 0 ELSE Sign(leg.side) * t.lots * Multiplier(leg.inst) * value

\* The legs of a trade with a quote that has a greek.
Counted(t) ==
  {k \in DOMAIN t.legs : /\ t.legs[k].inst \in DOMAIN quoteFor
                         /\ \E g \in {"delta", "vega", "gamma"} :
                              Greek(quoteFor[t.legs[k].inst], g) # NoGreek}

\* by_underlying: the total is taken up once per trade, before its legs, so
\* only the last leg of a trade stays in it.
TradeGreek(t, g) ==
  IF Counted(t) = {} THEN 0 ELSE LegGreek(t, t.legs[Max(Counted(t))], g)

BookGreek(u, g) ==
  LET Of(t) == TradeGreek(t, g)
  IN  MapThenSumSet(Of, {t \in rows : t.u = u})

FromOpenTrades ==
  IF Limits.enabled
  THEN [u \in Underlying |-> [delta |-> BookGreek(u, "delta"), vega |-> BookGreek(u, "vega")]]
  ELSE Flat

-----------------------------------------------------------------------------
(* RiskManager.gate *)

IsOpen(t) == (t + 11) % HalfHours \in Window.start .. Window.end - 1

OpenOf(s) == {t \in trades : t.strategy = s}

\* DeskPolicy.check_portfolio, with the marks of this moment.
CheckPortfolio ==
  LET priced == {u \in Underlying : marks[u] > 0}
      DeltaInr(u) == AbsOf(book[u].delta) * marks[u] * LotValue[u]
      VegaInr(u) == AbsOf(book[u].vega) * LotValue[u]
  IN  /\ Limits.maxDelta # NoLimit => MapThenSumSet(DeltaInr, priced) <= Limits.maxDelta * 100
      /\ Limits.maxVega # NoLimit => MapThenSumSet(VegaInr, priced) <= Limits.maxVega

\* resolve_quote: the tick's quote of an open leg, else the chain's of now.
ResolveQuote(i) == IF i \in DOMAIN quoteFor THEN quoteFor[i] ELSE quotes[i]

\* DeskPolicy.check_intent; what is not known is accepted unless strict.
CheckIntent(intent) ==
  \A k \in DOMAIN intent.legs :
    LET q == ResolveQuote(intent.legs[k].inst)
    IN  IF q = NoQuote
        THEN ~ Limits.strict
        ELSE /\ Limits.greeksRequired => Ticker[q].delta # NoGreek
             /\ Limits.minOi > 0 => IF Ticker[q].oi = NoPrice THEN ~ Limits.strict
                                                      ELSE Ticker[q].oi >= Limits.minOi

\* _trade_risk_budget_inr
TradeRiskBudget(s, nav) ==
  LET share == (nav * Account[s].share) \div 10000
      cap == Account[s].premiumCap
  IN  IF cap # NoLimit /\ cap < share THEN cap ELSE share

PerLotGreek(intent, g) ==
  LET Of(k) == LET i == intent.legs[k].inst
                   q == ResolveQuote(i)
               IN  IF q = NoQuote \/ Greek(q, g) = NoGreek
                   THEN 0
                   ELSE AbsOf(Greek(q, g)) * Multiplier(i) * LotValue[intent.u]
  IN  MapThenSumSet(Of, DOMAIN intent.legs)

\* cap_lots_by_greeks never takes a size below one lot.
GreekCap(intent, g, limit, sized) ==
  LET perLot == PerLotGreek(intent, g)
  IN  IF limit = NoLimit \/ perLot = 0 THEN sized ELSE Min({sized, Max({1, limit \div perLot})})

CapLotsByGreeks(intent, sized) ==
  IF ~ Limits.enabled \/ sized < 1
  THEN sized
  ELSE GreekCap(intent, "gamma", Limits.maxTradeGamma,
         GreekCap(intent, "vega", Limits.maxTradeVega, sized))

\* _size_intent: 0 lots is a refusal.
SizeIntent(intent, nav) ==
  IF intent.perLot <= 0
  THEN 0
  ELSE CapLotsByGreeks(intent, Min({TradeRiskBudget(intent.strategy, nav) \div intent.perLot,
                                    Account[intent.strategy].maxLots}))

\* Mutant: no limit per strategy.
AdmitsTotalOnly(intent) ==
  /\ IsOpen(m.now)
  /\ Account[intent.strategy].enabled
  /\ Cardinality(trades) < Concurrency.maxTotal
  /\ Limits.enabled => CheckPortfolio /\ CheckIntent(intent)

Admits(intent) ==
  /\ IsOpen(m.now)
  /\ Account[intent.strategy].enabled
  /\ Cardinality(trades) < Concurrency.maxTotal
  /\ Cardinality(OpenOf(intent.strategy)) < Concurrency.maxPerStrategy
  /\ Limits.enabled => CheckPortfolio /\ CheckIntent(intent)

-----------------------------------------------------------------------------
(* Exits *)

TradeExpiry(t) == Max({Expiry(t.legs[k].inst) : k \in DOMAIN t.legs})

\* The first test of every strategy's manage: hours to the expiry, or days on
\* the IST calendar for the vertical.
ExpiryDue(t, at) ==
  IF t.strategy = "credit_vertical"
  THEN Date(TradeExpiry(t) + 11) - Date(at + 11) <= ForceClose[t.strategy]
  ELSE TradeExpiry(t) - at <= ForceClose[t.strategy]

-----------------------------------------------------------------------------
(* The specification *)

Init ==
  /\ ChainInit
  /\ IvInit
  /\ pc = "waiting"
  /\ m = NoMarket
  /\ rows = {} /\ quoteFor = <<>> /\ book = Flat /\ intents = NoIntents /\ lots = 0
  /\ trades \in Books
  /\ ticks = 0
  /\ asQuoted = FALSE

\* A message of the websocket moves the price of an underlying.
MarkMoves ==
  /\ \E u \in Underlying, p \in Spots : marks' = [marks EXCEPT ![u] = p]
  /\ UNCHANGED <<now, chainVars, ivVars, tickVars, asQuoted>>

\* The clock is read first, before the wallet is polled.
TickBegins ==
  /\ pc = "waiting"
  /\ ticks < MaxTicks
  /\ ticks' = ticks + 1
  /\ m' = [kind |-> "clock", now |-> now]
  /\ pc' = "load"
  /\ UNCHANGED <<now, chainVars, marks, ivVars, rows, quoteFor, book, intents, lots, trades, asQuoted>>

LoadMarket ==
  /\ pc = "load"
  /\ rows' = trades
  /\ LET held == UNION {{t.legs[k].inst : k \in DOMAIN t.legs} : t \in trades}
     IN  quoteFor' = [i \in {i \in held : quotes[i] # NoQuote} |-> quotes[i]]
  /\ m' = [kind |-> "market", now |-> m.now, spot |-> marks,
           iv |-> [u \in Underlying |->
                     PrefetchIv(u, {Directional.prefer, Directional.fallback}, marks[u], m.now)]]
  /\ pc' = "exits"
  /\ UNCHANGED <<now, chainVars, marks, ivVars, book, intents, lots, trades, ticks, asQuoted>>

\* An exit that fails leaves its trade open, whatever the reason for it.
ExitsRun ==
  /\ pc = "exits"
  /\ \E closed \in SUBSET rows : trades' = trades \ closed
  /\ pc' = "evaluate"
  /\ UNCHANGED <<now, chainVars, marks, ivVars, m, rows, quoteFor, book, intents, lots, ticks, asQuoted>>

\* evaluate_all: a strategy that is cooling down or raises proposes nothing.
EvaluateAll ==
  /\ pc = "evaluate"
  /\ \E signal \in [Underlying -> Signals],
        silent \in Silences :
       LET Proposal(k) == IF Slots[k][1] \in silent \/ ~ Account[Slots[k][1]].enabled
                          THEN NoIntent
                          ELSE EvaluateOne(Slots[k][1], Slots[k][2], m, signal)
       IN  intents' = [k \in DOMAIN Slots |-> Proposal(k)]
  /\ book' = FromOpenTrades
  /\ m' = [kind |-> "clock", now |-> m.now]    \* all that is read of it from here on
  /\ pc' = "gate"
  /\ asQuoted' = TRUE
  /\ UNCHANGED <<now, chainVars, marks, ivVars, rows, quoteFor, lots, trades, ticks>>

\* The next intent of disp.all_intents.
IsNext(k) == /\ intents[k] # NoIntent
             /\ \A j \in DOMAIN Slots : intents[j] # NoIntent => k <= j

Done(k) == [intents EXCEPT ![k] = NoIntent]

\* The gate refuses, by a guard of its own or because a loss cap is tripped.
GateRefuses ==
  /\ pc = "gate"
  /\ \E k \in DOMAIN Slots :
       /\ IsNext(k)
       /\ \E nav \in Navs, capsTripped \in BOOLEAN :
            \/ capsTripped
            \/ ~ Admits(intents[k])
            \/ SizeIntent(intents[k], nav) < 1
       /\ intents' = Done(k)
  /\ UNCHANGED <<now, chainVars, marks, ivVars, pc, m, rows, quoteFor, book, lots, trades, ticks, asQuoted>>

\* Mutant: a size that the budget rounds down to nothing is approved.
GateApprovesAnySize ==
  /\ pc = "gate"
  /\ \E k \in DOMAIN Slots : /\ IsNext(k)
                             /\ Admits(intents[k])
                             /\ \E nav \in Navs : lots' = SizeIntent(intents[k], nav)
  /\ pc' = "entry"
  /\ UNCHANGED <<now, chainVars, marks, ivVars, m, rows, quoteFor, book, intents, trades, ticks, asQuoted>>

GateApproves ==
  /\ pc = "gate"
  /\ \E k \in DOMAIN Slots : /\ IsNext(k)
                             /\ Admits(intents[k])
                             /\ \E nav \in Navs : lots' = SizeIntent(intents[k], nav)
  /\ lots' \in Nat \ {0}
  /\ pc' = "entry"
  /\ UNCHANGED <<now, chainVars, marks, ivVars, m, rows, quoteFor, book, intents, trades, ticks, asQuoted>>

\* DryExecutor._fill_legs: a leg is filled when the chain has a price for it.
DryFill(leg) == quotes[leg.inst] # NoQuote /\ Mid(quotes[leg.inst]) > 0

\* LiveExecutor._place_entry_leg needs the contract and a price for its limits, and
\* the exchange fills only what it trades.
LiveFill(leg) ==
  /\ quotes[leg.inst] # NoQuote /\ Mid(quotes[leg.inst]) # NoPrice
  /\ leg.inst \in instruments
  /\ Listed(leg.inst, now)

LegsFill(legs) ==
  \A k \in DOMAIN legs : IF DryRun THEN DryFill(legs[k]) ELSE LiveFill(legs[k])

\* Both executors start from the chain of now, not from the intent: the simulated
\* price is the mid moved against the order, the limits of a live order leave room
\* on both sides of it.
FillPrice(leg, slip) == Mid(quotes[leg.inst]) + Sign(leg.side) * slip

\* What is stored: the legs with the prices of their fills; the risk is the gate's.
TradeOf(intent, slip) ==
  [strategy |-> intent.strategy, u |-> intent.u, lots |-> lots,
   legs |-> [k \in DOMAIN intent.legs |->
               [inst |-> intent.legs[k].inst, side |-> intent.legs[k].side,
                price |-> FillPrice(intent.legs[k], slip[k])]],
   risk |-> lots * intent.perLot, asQuoted |-> asQuoted]

EntryFills ==
  /\ pc = "entry"
  /\ \E k \in DOMAIN Slots :
       /\ IsNext(k)
       /\ LegsFill(intents[k].legs)
       /\ \E slip \in [DOMAIN intents[k].legs -> Slips] :
            trades' = trades \cup {TradeOf(intents[k], slip)}
       /\ intents' = Done(k)
  /\ lots' = 0
  /\ pc' = "gate"
  /\ UNCHANGED <<now, chainVars, marks, ivVars, m, rows, quoteFor, book, ticks, asQuoted>>

\* An entry on the exchange may fail for reasons of its own (LiveEntry).
EntryFails ==
  /\ pc = "entry"
  /\ \E k \in DOMAIN Slots : /\ IsNext(k)
                             /\ DryRun => ~ LegsFill(intents[k].legs)
                             /\ intents' = Done(k)
  /\ lots' = 0
  /\ pc' = "gate"
  /\ UNCHANGED <<now, chainVars, marks, ivVars, m, rows, quoteFor, book, trades, ticks, asQuoted>>

TickEnds ==
  /\ pc = "gate" /\ intents = NoIntents
  /\ pc' = "waiting"
  /\ m' = NoMarket /\ rows' = {} /\ quoteFor' = <<>> /\ book' = Flat
  /\ asQuoted' = FALSE
  /\ UNCHANGED <<now, chainVars, marks, ivVars, intents, lots, trades, ticks>>

RefreshStep ==
  /\ RefreshSkips \/ RefreshBegins \/ ProductsArrive \/ RequestFails \/ TickersArrive
  /\ asQuoted' = (asQuoted /\ quotes' = quotes)
  /\ UNCHANGED <<marks, ivVars, tickVars>>

TickStep ==
  TickBegins \/ LoadMarket \/ ExitsRun \/ EvaluateAll \/ GateRefuses \/ GateApproves
    \/ EntryFills \/ EntryFails \/ TickEnds

ClockStep == TimePasses /\ UNCHANGED <<marks, ivVars, tickVars, asQuoted>>

SampleStep == RecordFromChain /\ UNCHANGED <<tickVars, asQuoted>>

Next == ClockStep \/ RefreshStep \/ SampleStep \/ MarkMoves \/ TickStep

\* Time goes on, the refreshing task goes on after any answer and any error,
\* and a task that asks again and again for the products is answered some day.
Fairness ==
  /\ WF_vars(ClockStep)
  /\ WF_vars(RefreshStep \/ SampleStep)
  /\ SF_vars(ProductsArrive /\ UNCHANGED <<marks, ivVars, tickVars, asQuoted>>)

Spec == Init /\ [][Next]_vars /\ Fairness

-----------------------------------------------------------------------------
(* Properties *)

TradeTypeOK(t) ==
  /\ t.strategy \in Strategy
  /\ t.u \in Underlying
  /\ t.lots \in Nat \ {0}
  /\ t.risk \in Nat
  /\ \A k \in DOMAIN t.legs : t.legs[k].inst \in Symbol

TypeOK ==
  /\ ChainTypeOK
  /\ IvTypeOK
  /\ pc \in {"waiting", "load", "exits", "evaluate", "gate", "entry"}
  /\ lots \in Nat
  /\ ticks \in 0 .. MaxTicks
  /\ \A t \in trades \cup rows : TradeTypeOK(t)

\* What a leg is worth at settlement, and what a proposal or a trade of one leg or two,
\* made at the prices of its legs, earns per lot when the underlying settles at `price`.
Intrinsic(i, price) ==
  LET inTheMoney == IF Contract[i].type = "call" THEN price - Contract[i].strike
                                                 ELSE Contract[i].strike - price
  IN  IF inTheMoney > 0 THEN inTheMoney ELSE 0

LegPnl(leg, price) == Sign(leg.side) * (Intrinsic(leg.inst, price) - leg.price)

SettledPnl(t, price) ==
  IF DOMAIN t.legs = {1} THEN LegPnl(t.legs[1], price)
                         ELSE LegPnl(t.legs[1], price) + LegPnl(t.legs[2], price)

MaxSlippage(t) == IF DOMAIN t.legs = {1} THEN Max(Slips) ELSE 2 * Max(Slips)

Covered(t) ==
  \A price \in Settles :
    PremiumInr(t.u, t.lots * (SettledPnl(t, price) + MaxSlippage(t))) >= - t.risk

\* The risk that the gate booked for a trade is what it can lose, wherever the
\* underlying settles, but for the slippage of its fills and for quotes that change
\* between the evaluation and the fill: the strategies price a proposal with the same
\* quotes, sides and legs as the executor, whatever ages the quotes have and however
\* the size was cut.  When quotes change in between the booked risk is not adjusted.
RiskHoldsAsQuoted == \A t \in trades : t.asQuoted => Covered(t)

\* The open trades of a strategy together never risk more than the budget of
\* one of its trades, with the highest NAV there was: proposals on several
\* underlyings, ticks and failed exits do not add up.
OpenRiskIsBudgeted ==
  \A s \in Strategy :
    LET Risk(t) == t.risk
    IN  MapThenSumSet(Risk, OpenOf(s)) <= TradeRiskBudget(s, Max(Navs))

OneExpiry(p) ==
  \A j, k \in DOMAIN p.legs :
    /\ Contract[p.legs[j].inst].u = p.u
    /\ Contract[p.legs[j].inst].date = Contract[p.legs[k].inst].date
    /\ p.legs[j].inst = p.legs[k].inst => j = k

\* The legs of a trade were picked by one query each, from a chain that moves,
\* by bucket: they are different contracts on one underlying with one expiry.
OneExpiryPerTrade == \A t \in trades : OneExpiry(t)

ASSUME DeskAssumption ==
  /\ Slots \in Seq(Strategy \X Underlying)
  /\ Settles \subseteq Nat
  /\ Slips \subseteq Int /\ \E top \in Slips : \A slip \in Slips : slip <= top
  /\ Spots \subseteq Nat
  /\ \A signal \in Signals : signal.trend \in Int
  /\ MaxTicks \in Nat

ASSUME SizingAssumption ==
  /\ Navs \subseteq Int /\ \E top \in Navs : top >= 0 /\ \A nav \in Navs : nav <= top
  /\ \A s \in Strategy : /\ Account[s].share \in Nat
                          /\ Account[s].premiumCap \in Nat \cup {NoLimit}
                          /\ Account[s].maxLots \in Nat
  /\ {Limits.maxTradeVega, Limits.maxTradeGamma} \subseteq Int
  /\ WholeUnit \in Nat
  /\ Concurrency.maxPerStrategy \in Nat \ {0}

\* What an earlier process left open was entered by the same code.
ASSUME BooksAssumption ==
  \A b \in Books :
    /\ IsFiniteSet(b)
    /\ \A t \in b : /\ TradeTypeOK(t) /\ OneExpiry(t) /\ (t.asQuoted => Covered(t))
                    /\ t.risk <= TradeRiskBudget(t.strategy, Max(Navs))
    /\ \A s \in Strategy :
         Cardinality({t \in b : t.strategy = s}) <= Concurrency.maxPerStrategy

\* An underlying may settle above every strike.
ASSUME SettlesAssumption ==
  \E top \in Settles : /\ \A price \in Settles : price <= top
                       /\ \A i \in Symbol : Contract[i].strike < top

\* +1 when a trade gains from a rise, -1 from a fall, 0 for the straddle.
Direction(p) ==
  LET Gain(price) == SettledPnl(p, price)
      rise == Gain(Max(Settles)) - Gain(0)
  IN  IF p.strategy = "long_straddle" THEN 0 ELSE IF rise > 0 THEN 1 ELSE -1

\* The directional strategy and the vertical compute the same signal apart,
\* and sell and buy opposite kinds of options on it: proposals of one tick on
\* an underlying never bet against each other.
ProposalsAgree ==
  \A j, k \in DOMAIN Slots :
    /\ intents[j] # NoIntent /\ intents[k] # NoIntent
    /\ intents[j].u = intents[k].u
    => Direction(intents[j]) * Direction(intents[k]) # -1

\* However many requests fail, as long as the exchange answers in the end the
\* chain ends up with exactly what it lists.
ChainCatchesUp == <>[](instruments = Live(now))

\* An option that the exchange has settled is at least being closed: after the
\* exits of a tick that began after the settlement, only trades whose exit was
\* due are still open.
SettledIsClosing ==
  pc \in {"evaluate", "gate", "entry"} =>
    \A t \in rows \cap trades :
      (\E k \in DOMAIN t.legs : Settlement(t.legs[k].inst) <= m.now) => ExpiryDue(t, m.now)

=============================================================================
