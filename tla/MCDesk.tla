-------------------------------- MODULE MCDesk --------------------------------
(* A small instance of Desk: one underlying around 100, contracts that expire  *)
(* on a Thursday, the Friday and the Saturday after it, an instant three hours *)
(* before the session close of the Thursday and one after that of the Friday.  *)
EXTENDS Desk

Symbols == 1 .. 18

\* 1 .. 6 expire on the first day: three calls from 100 upwards, three puts
\* from 100 downwards; 7 .. 12 on the next day, 13 .. 18 on the third.
Steps(i) == (i - 1) % 3
IsCall(i) == (i - 1) % 6 < 3
Series(date) ==
  [k \in 1 .. 6 |-> [u |-> "BTC", type |-> IF k <= 3 THEN "call" ELSE "put",
                     strike |-> IF k <= 3 THEN 95 + 5 * k ELSE 120 - 5 * k, date |-> date]]
Contracts == Series(3) \o Series(4) \o Series(5)

Quote(bid, ask, mark, delta, iv) ==
  [bid |-> bid, ask |-> ask, mark |-> mark, delta |-> delta, gamma |-> 1, vega |-> 2,
   oi |-> 10, iv |-> iv]

Tickers ==
  [c50 |-> Quote(5, 5, 5, 50, 3),       p50 |-> Quote(5, 5, 5, -50, 3),
   c22 |-> Quote(3, 3, 3, 22, 3),       p22 |-> Quote(3, 3, 3, -22, 3),
   c8  |-> Quote(1, 1, 1, 8, 3),        p8  |-> Quote(1, 1, 1, -8, 3),
   C50 |-> Quote(NoPrice, 7, 6, 50, 5), P50 |-> Quote(NoPrice, 7, 6, -50, 5),
   C10 |-> Quote(NoPrice, NoPrice, NoPrice, 10, 5), P10 |-> Quote(2, 2, 2, -10, 5),
   C20 |-> Quote(4, 4, 4, 20, 5),       P20 |-> Quote(4, 4, 4, -20, 5)]

\* Every contract is quoted: the deltas are 50, 22 and 8.
Calm == [i \in Symbols |-> IF IsCall(i) THEN <<"c50", "c22", "c8">>[Steps(i) + 1]
                                         ELSE <<"p50", "p22", "p8">>[Steps(i) + 1]]

\* The market has run: the deltas are those of another spot; at the money one
\* contract of each of the first two expiries has no ticker, the others have no
\* bid, and the second calls have no price.
Moved == [i \in Symbols |->
            IF i \in {4, 7}
            THEN NoQuote
            ELSE IF IsCall(i) THEN <<"C50", "C10", "C20">>[Steps(i) + 1]
                              ELSE <<"P50", "P10", "P20">>[Steps(i) + 1]]

Scenes == {Calm, Moved}
MCTime == {3 * 48 + 18, 4 * 48 + 26}
MCStart == 3 * 48 + 18
MCOneDay == {3 * 48 + 12, 3 * 48 + 26}
MCMorning == 3 * 48 + 12
MCUnderlying == {"BTC"}
MCSlots == <<<<"credit_vertical", "BTC">>, <<"directional", "BTC">>, <<"long_straddle", "BTC">>>>
LotValues == [u \in MCUnderlying |-> 1]

MCDirectional ==
  [breakout |-> 2, prefer |-> "D1", fallback |-> "D2", d1Threshold |-> 8,
   primaryOffset |-> 0, fallbackOffset |-> 1, preferDelta |-> NoLimit,
   maxIv |-> 60, minIv |-> NoLimit, maxSpread |-> 8]
MCVertical ==
  [breakout |-> 1, prefer |-> "D2", shortTarget |-> 22, shortMin |-> 18, shortMax |-> 28,
   longTarget |-> 8, longMin |-> 5, longMax |-> 12, minCredit |-> 20,
   greeksRequired |-> TRUE, minOi |-> 0]
MCStraddle == [prefer |-> "D1", fallback |-> "D2", greeksRequired |-> TRUE, minOi |-> 0]

Accounts == [s \in Strategy |->
  [share |-> 1000, premiumCap |-> IF s = "directional" THEN 11 ELSE NoLimit,
   maxLots |-> 4, enabled |-> TRUE]]
MCLimits == [enabled |-> TRUE, strict |-> FALSE, minOi |-> 5, greeksRequired |-> TRUE,
             maxDelta |-> 40, maxVega |-> NoLimit, maxTradeVega |-> 4, maxTradeGamma |-> NoLimit]
MCConcurrency == [maxTotal |-> 3, maxPerStrategy |-> 1]
MCWindow == [start |-> 18, end |-> 44]
MCForceClose == [s \in Strategy |-> CASE s = "directional" -> 4
                                      [] s = "long_straddle" -> 8
                                      [] s = "credit_vertical" -> 2]
MCSpots == {100}
MCSignals == {[trend |-> -2, compressed |-> FALSE], [trend |-> 2, compressed |-> TRUE]}
MCSilences == {{}, {"directional"}}
\* A profit that is linear between the strikes is least at 0, at a strike or
\* beyond the last one.
MCSettles == {0, 90, 95, 100, 105, 110, 111}
MCSlips == {1}
MCNavs == {80, 125}

\* Left by an earlier process: nothing, or a call and a straddle.
Bought(i) == [inst |-> i, side |-> "buy", price |-> 5]
ACall == [strategy |-> "directional", u |-> "BTC", legs |-> <<Bought(8)>>, lots |-> 2,
          risk |-> 10, asQuoted |-> TRUE]
AStraddle == [strategy |-> "long_straddle", u |-> "BTC", legs |-> <<Bought(7), Bought(10)>>,
              lots |-> 1, risk |-> 10, asQuoted |-> TRUE]
LeftBooks == {{}, {ACall, AStraddle}}
MCNoTrades == {{}}

\* TLC evaluates a definition that replaces a constant at every use, but one
\* that such a definition names only once.
MCContract == Contracts
MCTicker == Tickers
MCScene == Scenes
MCSymbol == Symbols
MCAccount == Accounts
MCLotValue == LotValues
MCBooks == LeftBooks

=============================================================================
