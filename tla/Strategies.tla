------------------------------ MODULE Strategies ------------------------------
(***************************************************************************)
(* How the three strategies of bot/strategies turn the market into entry   *)
(* intents.  A strategy reads a MarketState `m`, made when the tick began  *)
(* (clock, spots, ranks of the volatility), and the option chain, which is *)
(* shared and is read as it is when the strategies run.                    *)
(*                                                                         *)
(* What the candles say is an input: `trend` counts, with its sign, how    *)
(* many of the strategies' breakout thresholds the EMA separation and the  *)
(* breakout of the range both exceed (0 also when there is no history),    *)
(* `compressed` that the three filters of the straddle hold.  Deltas and   *)
(* fractions are percentages.                                              *)
(***************************************************************************)
EXTENDS IvHistory

CONSTANTS
  Directional,   \* DirectionalConfig, its entry, expiry, strike and desk parts
  Vertical,      \* CreditVerticalConfig, its entry, expiry, spread, credit, desk parts
  Straddle,      \* LongStraddleConfig, its expiry and desk parts
  LotValue       \* contract_value x usd_inr_rate of an underlying

NoIntent == [kind |-> "none"]
NoLimit == -1

\* A breakout threshold is one of those that `trend` counts.
ASSUME StrategiesAssumption ==
  /\ LotValue \in [Underlying -> Nat]
  /\ {Vertical.prefer, Straddle.prefer, Straddle.fallback} \subseteq Buckets
  /\ {Directional.breakout, Vertical.breakout} \subseteq Nat \ {0}

\* MarketState.premium_inr: INR per exchange lot.
PremiumInr(u, price) == price * LotValue[u]

\* Mutant: the sides are swapped.
LegOfSwapped(sel, side) ==
  [inst |-> sel.inst, side |-> IF side = "buy" THEN "sell" ELSE "buy", price |-> Mid(sel.quote)]

\* The mid of the time of evaluation is what the risk of the intent is computed with.
LegOf(sel, side) == [inst |-> sel.inst, side |-> side, price |-> Mid(sel.quote)]

Usable(sel) == sel # NoStrike /\ Mid(sel.quote) # NoPrice

SelectAtm(u, type, bucket, offset, m) ==
  GetAtmStrike(u, type, bucket, m.spot[u], offset, m.now)

SelectByDelta(u, type, bucket, target, lo, hi, m) ==
  GetStrikeByDelta(u, type, bucket, target, lo, hi, m.now)

\* evaluate_trend_breakout for a strategy with this breakout threshold.
LongSetup(trend, breakout) == trend >= breakout
ShortSetup(trend, breakout) == trend <= -breakout

\* check_multi_leg_liquidity: a leg without greeks or open interest is refused.
LegsAreLiquid(sels, cfg) ==
  \A sel \in sels : /\ cfg.greeksRequired => Ticker[sel.quote].delta # NoGreek
                    /\ cfg.minOi > 0 => Ticker[sel.quote].oi >= cfg.minOi

-----------------------------------------------------------------------------
(* Directional: one option bought with the trend *)

\* The session closes at 17:30 IST; after it, it is the next day's close.
SessionClose(t) ==
  LET ist == t + 11
      today == Date(ist) * HalfHours + 35
  IN  (IF ist % HalfHours >= 35 THEN today + HalfHours ELSE today) - 11

PickExpiryBucket(t) ==
  IF SessionClose(t) - t >= Directional.d1Threshold
  THEN Directional.prefer
  ELSE Directional.fallback

\* A missing rank blocks nothing.
IvEntryBlocked(rank) ==
  /\ rank # NoRank
  /\ \/ Directional.maxIv # NoLimit /\ rank.num * 100 > Directional.maxIv * rank.den
     \/ Directional.minIv # NoLimit /\ rank.num * 100 < Directional.minIv * rank.den

\* The preferred delta, else the primary strike, else the fallback strike,
\* which is looked for only when the primary one has no price.
PickEntryStrike(u, type, bucket, m) ==
  LET byDelta == IF Directional.preferDelta = NoLimit
                 THEN NoStrike
                 ELSE SelectByDelta(u, type, bucket, Directional.preferDelta, 0, 100, m)
      primary == SelectAtm(u, type, bucket, Directional.primaryOffset, m)
  IN  CASE Usable(byDelta) -> byDelta
        [] ~ Usable(byDelta) /\ Usable(primary) -> primary
        [] OTHER -> SelectAtm(u, type, bucket, Directional.fallbackOffset, m)

DirectionalEvaluate(u, m, trend) ==
  LET long == LongSetup(trend, Directional.breakout)
      bucket == PickExpiryBucket(m.now)
      sel == PickEntryStrike(u, IF long THEN "call" ELSE "put", bucket, m)
  IN  IF \/ m.spot[u] = NoPrice
         \/ ~ (long \/ ShortSetup(trend, Directional.breakout))
         \/ IvEntryBlocked(m.iv[u][bucket])
         \/ ~ Usable(sel)
         \/ SpreadExceeds(sel.quote, Directional.maxSpread)
      THEN NoIntent
      ELSE [kind |-> "intent", strategy |-> "directional", u |-> u, bucket |-> bucket,
            legs |-> <<LegOf(sel, "buy")>>,
            perLot |-> PremiumInr(u, Mid(sel.quote))]

-----------------------------------------------------------------------------
(* Credit vertical: a spread sold against the trend's far side *)

\* In an uptrend a bull put spread (the long strike below the short one), in a
\* downtrend a bear call spread (the long strike above).
FartherOut(long, short, type) ==
  IF type = "put" THEN Contract[long.inst].strike < Contract[short.inst].strike
                  ELSE Contract[short.inst].strike < Contract[long.inst].strike

VerticalEvaluate(u, m, trend) ==
  LET up == LongSetup(trend, Vertical.breakout)
      type == IF up THEN "put" ELSE "call"
      bucket == Vertical.prefer
      short == SelectByDelta(u, type, bucket, Vertical.shortTarget,
                             Vertical.shortMin, Vertical.shortMax, m)
      long == SelectByDelta(u, type, bucket, Vertical.longTarget,
                            Vertical.longMin, Vertical.longMax, m)
      width == Distance(Contract[short.inst].strike, Contract[long.inst].strike)
      credit == Mid(short.quote) - Mid(long.quote)
      maxLoss == width - credit
      bought == LegOf(long, "buy")
      sold == LegOf(short, "sell")
  IN  IF \/ m.spot[u] = NoPrice
         \/ ~ (up \/ ShortSetup(trend, Vertical.breakout))
         \/ ~ Usable(short)
         \/ ~ Usable(long)
         \/ ~ FartherOut(long, short, type)
         \/ ~ LegsAreLiquid({long, short}, Vertical)
         \/ credit <= 0
         \/ maxLoss <= 0
         \/ credit * 100 < Vertical.minCredit * width
      THEN NoIntent
      ELSE [kind |-> "intent", strategy |-> "credit_vertical", u |-> u, bucket |-> bucket,
            legs |-> IF up THEN <<bought, sold>> ELSE <<sold, bought>>,
            perLot |-> PremiumInr(u, maxLoss)]

-----------------------------------------------------------------------------
(* Long straddle: a call and a put at the money, bought in a quiet market *)

\* Mutant: each leg falls back to the other expiry by itself.
StraddleEvaluatePerLeg(u, m, compressed) ==
  LET In(type, b) == SelectAtm(u, type, b, 0, m)
      Leg(type) == IF Usable(In(type, Straddle.prefer)) THEN In(type, Straddle.prefer)
                                                        ELSE In(type, Straddle.fallback)
  IN  IF \/ m.spot[u] = NoPrice
         \/ ~ compressed
         \/ ~ Usable(Leg("call"))
         \/ ~ Usable(Leg("put"))
         \/ ~ LegsAreLiquid({Leg("call"), Leg("put")}, Straddle)
      THEN NoIntent
      ELSE [kind |-> "intent", strategy |-> "long_straddle", u |-> u, bucket |-> Straddle.prefer,
            legs |-> <<LegOf(Leg("call"), "buy"), LegOf(Leg("put"), "buy")>>,
            perLot |-> PremiumInr(u, Mid(Leg("call").quote) + Mid(Leg("put").quote))]

StraddleEvaluate(u, m, compressed) ==
  LET Pair(b) == [call |-> SelectAtm(u, "call", b, 0, m), put |-> SelectAtm(u, "put", b, 0, m)]
      Whole(p) == Usable(p.call) /\ Usable(p.put)
      bucket == IF Whole(Pair(Straddle.prefer)) THEN Straddle.prefer ELSE Straddle.fallback
      pair == Pair(bucket)
  IN  IF \/ m.spot[u] = NoPrice
         \/ ~ compressed
         \/ ~ Whole(pair)
         \/ ~ LegsAreLiquid({pair.call, pair.put}, Straddle)
      THEN NoIntent
      ELSE [kind |-> "intent", strategy |-> "long_straddle", u |-> u, bucket |-> bucket,
            legs |-> <<LegOf(pair.call, "buy"), LegOf(pair.put, "buy")>>,
            perLot |-> PremiumInr(u, Mid(pair.call.quote) + Mid(pair.put.quote))]

-----------------------------------------------------------------------------

\* Mutant: the vertical sells on the wrong side of the trend.
EvaluateOneFlipped(strategy, u, m, signal) ==
  CASE strategy = "directional" -> DirectionalEvaluate(u, m, signal[u].trend)
    [] strategy = "credit_vertical" -> VerticalEvaluate(u, m, - signal[u].trend)
    [] strategy = "long_straddle" -> StraddleEvaluate(u, m, signal[u].compressed)

\* One strategy on one underlying.
EvaluateOne(strategy, u, m, signal) ==
  CASE strategy = "directional" -> DirectionalEvaluate(u, m, signal[u].trend)
    [] strategy = "credit_vertical" -> VerticalEvaluate(u, m, signal[u].trend)
    [] strategy = "long_straddle" -> StraddleEvaluate(u, m, signal[u].compressed)

=============================================================================
