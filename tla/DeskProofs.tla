------------------------------ MODULE DeskProofs ------------------------------
(***************************************************************************)
(* Proofs about Desk: what the time stamp of the option chain is worth,    *)
(* what the three strategies propose from whatever the chain holds, that   *)
(* their proposals do not bet against each other, and that sizes, types,   *)
(* limits and budgets hold at every moment.                                *)
(***************************************************************************)
EXTENDS Desk, FiniteSetTheorems, TLAPS

-----------------------------------------------------------------------------
(* The chain and its time stamp *)

StampInv ==
  /\ now \in Time /\ fetchedAt \in Time /\ askedAt \in Time
  /\ fetchedAt <= askedAt /\ askedAt <= now
  /\ instruments \subseteq Symbol
  /\ StampNeverFlatters

\* A contract is listed during one interval.
LEMMA ListedBetween ==
  ASSUME NEW i \in Symbol, NEW a \in Time, NEW b \in Time, NEW t \in Time,
         Listed(i, a), Listed(i, b), a <= t, t <= b
  PROVE  Listed(i, t)
BY ChainAssumption DEF Listed, Settlement, HalfHours

LEMMA StampInit == Init => StampInv
<1>1. Start \in Nat
  BY ChainAssumption
<1> QED
  BY <1>1, ChainAssumption DEF Init, ChainInit, StampInv, StampNeverFlatters

LEMMA StampStep == StampInv /\ [Next]_vars => StampInv'
<1> SUFFICES ASSUME StampInv, [Next]_vars PROVE StampInv'
  OBVIOUS
<1> USE ChainAssumption
<1>0. now \in Nat /\ fetchedAt \in Nat /\ askedAt \in Nat
  BY DEF StampInv
<1>1. CASE ClockStep
  <2> PICK t \in Time : t > now /\ now' = t
    BY <1>1 DEF ClockStep, TimePasses
  <2>1. UNCHANGED chainVars
    BY <1>1 DEF ClockStep, TimePasses
  <2>2. ASSUME NEW i \in Live(fetchedAt) \cap Live(t), instruments # {} PROVE i \in instruments
    <3>1. i \in Symbol /\ Listed(i, fetchedAt) /\ Listed(i, t)
      BY <2>2 DEF Live
    <3>2. Listed(i, now)
      <4>1. fetchedAt <= now /\ now <= t
        BY <1>0 DEF StampInv
      <4> QED
        BY <3>1, <4>1, ListedBetween DEF StampInv
    <3> QED
      BY <3>1, <3>2, <2>2 DEF StampInv, StampNeverFlatters, Live
  <2> QED
    BY <2>1, <2>2 DEF StampInv, StampNeverFlatters, chainVars, Live, Settlement, Listed
<1>2. CASE RefreshStep
  <2>1. CASE RefreshSkips
    BY <2>1 DEF RefreshSkips, StampInv, StampNeverFlatters, Live, Settlement, Listed
  <2>2. CASE RefreshBegins
    BY <1>0, <2>2 DEF RefreshBegins, StampInv, StampNeverFlatters, Live, Settlement, Listed
  <2>3. CASE ProductsArrive
    <3> PICK t \in Time : askedAt <= t /\ t <= now /\ instruments' = Live(t)
      BY <2>3 DEF ProductsArrive
    <3>1. fetchedAt' = askedAt /\ UNCHANGED <<now, askedAt>>
      BY <2>3 DEF ProductsArrive
    <3>2. \A i \in Live(askedAt) \cap Live(now) : i \in Live(t)
      BY ListedBetween DEF Live, StampInv
    <3>3. \A i \in Live(t) : i \in Symbol /\ askedAt < Settlement(i)
      BY DEF Live, Listed, Settlement, HalfHours, StampInv
    <3> QED
      BY <3>1, <3>2, <3>3 DEF StampInv, StampNeverFlatters, Live, Settlement, Listed
  <2>4. CASE RequestFails
    BY <1>0, <2>4 DEF RequestFails, StampInv, StampNeverFlatters, Live, Settlement, Listed
  <2>5. CASE TickersArrive
    BY <2>5 DEF TickersArrive, StampInv, StampNeverFlatters, Live, Settlement, Listed
  <2> QED
    BY <1>2, <2>1, <2>2, <2>3, <2>4, <2>5 DEF RefreshStep
<1>3. CASE SampleStep \/ MarkMoves \/ TickStep \/ UNCHANGED vars
  <2>1. UNCHANGED <<now, instruments, fetchedAt, askedAt>>
    BY <1>3 DEF SampleStep, RecordFromChain, MarkMoves, TickStep, TickBegins, LoadMarket, ExitsRun,
                EvaluateAll, GateRefuses, GateApproves, EntryFills, EntryFails, TickEnds,
                chainVars, vars
  <2> QED
    BY <2>1 DEF StampInv, StampNeverFlatters, Live, Settlement, Listed
<1> QED
  BY <1>1, <1>2, <1>3 DEF Next

\* The time stamp of refresh_instruments never flatters the cache, whenever the
\* requests are answered, whatever is listed and settled meanwhile.
THEOREM StampIsHonest == Spec => []StampNeverFlatters
<1>1. StampInv => StampNeverFlatters
  BY DEF StampInv
<1> QED
  BY StampInit, StampStep, <1>1, PTL DEF Spec

-----------------------------------------------------------------------------
(* What a query of the chain returns *)

QuotesOK == /\ quotes \in [Symbol -> DOMAIN Ticker \cup {NoQuote}]
            /\ instruments \subseteq Symbol

\* A strike that a query picked: a contract of the kind asked for, with its quote.
Picked(sel, u, type, bucket, t) ==
  /\ sel.inst \in InstrumentsFor(u, type, bucket, t)
  /\ sel.quote = quotes[sel.inst]
  /\ sel.quote # NoQuote

LEMMA SelectedIsPicked ==
  ASSUME NEW u, NEW type, NEW bucket, NEW t, NEW S \in SUBSET InstrumentsFor(u, type, bucket, t),
         Selected(S) # NoStrike
  PROVE  Picked(Selected(S), u, type, bucket, t)
<1> DEFINE i == CHOOSE i \in S : TRUE
<1>1. S # {} /\ quotes[i] # NoQuote
  BY DEF Selected
<1>2. i \in S
  BY <1>1
<1>3. Selected(S) = [kind |-> "strike", inst |-> i, quote |-> quotes[i]]
  BY <1>1 DEF Selected
<1> QED
  BY <1>1, <1>2, <1>3 DEF Picked

LEMMA AtmIsPicked ==
  ASSUME NEW u, NEW type, NEW bucket, NEW spot, NEW offset, NEW t,
         GetAtmStrike(u, type, bucket, spot, offset, t) # NoStrike
  PROVE  Picked(GetAtmStrike(u, type, bucket, spot, offset, t), u, type, bucket, t)
<1> DEFINE S == InstrumentsFor(u, type, bucket, t)
           DistanceToSpot(i) == Distance(Contract[i].strike, spot)
           Index(i) == Cardinality({j \in S : Contract[j].strike < Contract[i].strike})
           R == {i \in S : \E atm \in Nearest(S, DistanceToSpot) : Index(i) = Index(atm) + offset}
<1>1. R \in SUBSET S
  OBVIOUS
<1>2. GetAtmStrike(u, type, bucket, spot, offset, t) = Selected(R)
  BY DEF GetAtmStrike
<1> HIDE DEF R
<1> QED
  BY <1>1, <1>2, SelectedIsPicked

LEMMA ByDeltaIsPicked ==
  ASSUME NEW u, NEW type, NEW bucket, NEW target, NEW lo, NEW hi, NEW t,
         GetStrikeByDelta(u, type, bucket, target, lo, hi, t) # NoStrike
  PROVE  Picked(GetStrikeByDelta(u, type, bucket, target, lo, hi, t), u, type, bucket, t)
<1> DEFINE S == {i \in InstrumentsFor(u, type, bucket, t) :
                   /\ quotes[i] # NoQuote
                   /\ Ticker[quotes[i]].delta # NoGreek
                   /\ AbsOf(Ticker[quotes[i]].delta) \in lo .. hi}
           DistanceToTarget(i) == Distance(AbsOf(Ticker[quotes[i]].delta), target)
           R == Nearest(S, DistanceToTarget)
<1>1. R \in SUBSET InstrumentsFor(u, type, bucket, t)
  BY DEF Nearest
<1>2. GetStrikeByDelta(u, type, bucket, target, lo, hi, t) = Selected(R)
  BY DEF GetStrikeByDelta
<1> HIDE DEF R
<1> QED
  BY <1>1, <1>2, SelectedIsPicked

\* A bucket names one expiry date, whatever the weekday.
LEMMA BucketIsOneDate ==
  ASSUME NEW t \in Nat, NEW bucket \in Buckets, NEW i \in Symbol, NEW j \in Symbol,
         BucketForExpiry(t, Expiry(i)) = bucket, BucketForExpiry(t, Expiry(j)) = bucket
  PROVE  Contract[i].date = Contract[j].date
<1> DEFINE days(k) == Date(Expiry(k)) - Date(t)
<1>0. \A d \in Nat : (d * 48 + 35) \div 48 = d
  OBVIOUS
<1>1. ASSUME NEW k \in Symbol PROVE Date(Expiry(k)) = Contract[k].date
  <2>1. Contract[k].date \in Nat
    BY ChainAssumption
  <2> QED
    BY <1>0, <2>1 DEF Date, Expiry, HalfHours
<1>2. Date(t) \in Int /\ DaysToFriday(t) \in Int
  BY DEF Date, DaysToFriday, HalfHours
<1>3. ASSUME NEW k \in Symbol, BucketForExpiry(t, Expiry(k)) = bucket
      PROVE  days(k) = CASE bucket = "D1" -> 0
                         [] bucket = "D2" -> 1
                         [] bucket = "W1" -> DaysToFriday(t)
                         [] bucket = "W2" -> DaysToFriday(t) + 7
                         [] bucket = "W3" -> DaysToFriday(t) + 14
  BY <1>2, <1>3 DEF BucketForExpiry, Buckets
<1>4. days(i) = days(j)
  BY <1>3
<1> QED
  BY <1>1, <1>2, <1>4, ChainAssumption

-----------------------------------------------------------------------------
(* What the strategies propose *)

\* A proposal of one leg or two whose risk per lot covers its worst settlement,
\* with legs that are different contracts of one expiry.
Sound(p) ==
  /\ p.strategy \in Strategy
  /\ p.u \in Underlying
  /\ DOMAIN p.legs = {1} \/ DOMAIN p.legs = {1, 2}
  /\ \A k \in DOMAIN p.legs : p.legs[k].inst \in Symbol /\ p.legs[k].price \in Int
  /\ p.perLot \in Int
  /\ \A price \in Settles : /\ SettledPnl(p, price) \in Int
                            /\ SettledPnl(p, price) * LotValue[p.u] >= - p.perLot
  /\ OneExpiry(p)

\* The prices of its legs are those of the chain.
Quoted(p) == \A k \in DOMAIN p.legs : p.legs[k].price = Mid(quotes[p.legs[k].inst])

LEMMA Scaled ==
  ASSUME NEW a \in Int, NEW b \in Int, NEW v \in Nat, a >= - b
  PROVE  a * v \in Int /\ b * v \in Int /\ a * v >= - (b * v)
<1>1. (a + b) * v >= 0
  OBVIOUS
<1>2. (a + b) * v = a * v + b * v
  OBVIOUS
<1> QED
  BY <1>1, <1>2

LEMMA PickedFacts ==
  ASSUME NEW sel, NEW u, NEW type, NEW bucket, NEW t, QuotesOK, Picked(sel, u, type, bucket, t)
  PROVE  /\ sel.inst \in Symbol
         /\ Contract[sel.inst].u = u
         /\ Contract[sel.inst].type = type
         /\ Contract[sel.inst].strike \in Nat
         /\ BucketForExpiry(t, Expiry(sel.inst)) = bucket
         /\ Mid(sel.quote) \in Int
<1>1. /\ sel.inst \in Symbol
      /\ Contract[sel.inst].u = u
      /\ Contract[sel.inst].type = type
      /\ BucketForExpiry(t, Expiry(sel.inst)) = bucket
  BY DEF QuotesOK, Picked, InstrumentsFor
<1>2. sel.quote \in DOMAIN Ticker
  BY <1>1 DEF QuotesOK, Picked
<1>3. Ticker[sel.quote].bid \in Int /\ Ticker[sel.quote].ask \in Int /\ Ticker[sel.quote].mark \in Int
  BY <1>2, TickerAssumption
<1>4. Mid(sel.quote) \in Int
  BY <1>3 DEF Mid
<1> QED
  BY <1>1, <1>4, ChainAssumption

LEMMA IntrinsicType ==
  ASSUME NEW i \in Symbol, NEW price \in Nat
  PROVE  Intrinsic(i, price) \in Nat
<1>1. Contract[i].strike \in Nat
  BY ChainAssumption
<1> QED
  BY <1>1 DEF Intrinsic

LEMMA EntryStrikeIsPicked ==
  ASSUME NEW u, NEW type, NEW bucket, NEW mm, PickEntryStrike(u, type, bucket, mm) # NoStrike
  PROVE  Picked(PickEntryStrike(u, type, bucket, mm), u, type, bucket, mm.now)
<1> DEFINE byDelta == IF Directional.preferDelta = NoLimit
                      THEN NoStrike
                      ELSE SelectByDelta(u, type, bucket, Directional.preferDelta, 0, 100, mm)
           primary == SelectAtm(u, type, bucket, Directional.primaryOffset, mm)
           other == SelectAtm(u, type, bucket, Directional.fallbackOffset, mm)
           sel == PickEntryStrike(u, type, bucket, mm)
<1>1. sel = byDelta \/ sel = primary \/ sel = other
  BY DEF PickEntryStrike
<1>2. byDelta # NoStrike => Picked(byDelta, u, type, bucket, mm.now)
  BY ByDeltaIsPicked DEF SelectByDelta
<1>3. primary # NoStrike => Picked(primary, u, type, bucket, mm.now)
  BY AtmIsPicked DEF SelectAtm
<1>4. other # NoStrike => Picked(other, u, type, bucket, mm.now)
  BY AtmIsPicked DEF SelectAtm
<1> QED
  BY <1>1, <1>2, <1>3, <1>4

LEMMA DirectionalIsSound ==
  ASSUME NEW u \in Underlying, NEW mm, NEW trend, QuotesOK,
         DirectionalEvaluate(u, mm, trend) # NoIntent
  PROVE  LET p == DirectionalEvaluate(u, mm, trend) IN Sound(p) /\ Quoted(p)
<1> DEFINE type == IF LongSetup(trend, Directional.breakout) THEN "call" ELSE "put"
           bucket == PickExpiryBucket(mm.now)
           sel == PickEntryStrike(u, type, bucket, mm)
           p == DirectionalEvaluate(u, mm, trend)
           mid == Mid(sel.quote)
<1>1. /\ Usable(sel)
      /\ p = [kind |-> "intent", strategy |-> "directional", u |-> u, bucket |-> bucket,
              legs |-> <<LegOf(sel, "buy")>>, perLot |-> PremiumInr(u, mid)]
  BY DEF DirectionalEvaluate
<1>2. Picked(sel, u, type, bucket, mm.now)
  BY <1>1, EntryStrikeIsPicked DEF Usable
<1> HIDE DEF sel, p, type, bucket
<1>3. sel.inst \in Symbol /\ Contract[sel.inst].u = u /\ mid \in Int
  BY <1>2, PickedFacts
<1>4. /\ p.u = u /\ p.legs = <<LegOf(sel, "buy")>> /\ p.perLot = PremiumInr(u, mid)
      /\ p.strategy \in Strategy
  BY <1>1 DEF Strategy
<1>5. LegOf(sel, "buy").inst = sel.inst /\ LegOf(sel, "buy").side = "buy" /\ LegOf(sel, "buy").price = mid
  BY DEF LegOf
<1>q. Quoted(p)
  BY <1>2, <1>4, <1>5 DEF Quoted, Picked
<1> HIDE DEF mid
<1>6. OneExpiry(p)
  BY <1>3, <1>4, <1>5 DEF OneExpiry
<1>7. LotValue[u] \in Nat
  BY StrategiesAssumption
<1>8. ASSUME NEW price \in Settles
      PROVE  SettledPnl(p, price) \in Int /\ SettledPnl(p, price) * LotValue[u] >= - p.perLot
  <2>1. SettledPnl(p, price) = Intrinsic(sel.inst, price) - mid
    <3>1. Intrinsic(sel.inst, price) \in Nat
      BY <1>3, IntrinsicType, DeskAssumption
    <3> QED
      BY <1>3, <1>4, <1>5, <3>1 DEF SettledPnl, LegPnl, Sign
  <2>2. SettledPnl(p, price) \in Int /\ SettledPnl(p, price) >= - mid
    BY <1>3, <2>1, IntrinsicType, DeskAssumption
  <2> QED
    BY <1>3, <1>4, <1>7, <2>2, Scaled DEF PremiumInr
<1>9. p.perLot \in Int
  BY <1>3, <1>4, <1>7 DEF PremiumInr
<1>l. DOMAIN p.legs = {1} /\ \A k \in DOMAIN p.legs : p.legs[k].inst \in Symbol /\ p.legs[k].price \in Int
  BY <1>3, <1>4, <1>5
<1>10. Sound(p)
  BY <1>4, <1>6, <1>8, <1>9, <1>l DEF Sound
<1> QED
  BY <1>q, <1>10 DEF p

LEMMA StraddleIsSound ==
  ASSUME NEW u \in Underlying, NEW mm, NEW compressed, mm.now \in Nat, QuotesOK,
         StraddleEvaluate(u, mm, compressed) # NoIntent
  PROVE  LET p == StraddleEvaluate(u, mm, compressed) IN Sound(p) /\ Quoted(p)
<1> DEFINE Pair(b) == [call |-> SelectAtm(u, "call", b, 0, mm), put |-> SelectAtm(u, "put", b, 0, mm)]
           Whole(q) == Usable(q.call) /\ Usable(q.put)
           bucket == IF Whole(Pair(Straddle.prefer)) THEN Straddle.prefer ELSE Straddle.fallback
           call == SelectAtm(u, "call", bucket, 0, mm)
           put == SelectAtm(u, "put", bucket, 0, mm)
           p == StraddleEvaluate(u, mm, compressed)
           c == Mid(call.quote)
           d == Mid(put.quote)
<1>1. /\ Usable(call) /\ Usable(put)
      /\ p = [kind |-> "intent", strategy |-> "long_straddle", u |-> u, bucket |-> bucket,
              legs |-> <<LegOf(call, "buy"), LegOf(put, "buy")>>, perLot |-> PremiumInr(u, c + d)]
  BY DEF StraddleEvaluate
<1>2. bucket \in Buckets
  BY StrategiesAssumption
<1>3. Picked(call, u, "call", bucket, mm.now) /\ Picked(put, u, "put", bucket, mm.now)
  BY <1>1, AtmIsPicked DEF Usable, SelectAtm
<1> HIDE DEF call, put, p, bucket
<1>4. /\ call.inst \in Symbol /\ Contract[call.inst].u = u /\ Contract[call.inst].type = "call"
      /\ BucketForExpiry(mm.now, Expiry(call.inst)) = bucket
      /\ c \in Int
  BY <1>3, PickedFacts
<1>5. /\ put.inst \in Symbol /\ Contract[put.inst].u = u /\ Contract[put.inst].type = "put"
      /\ BucketForExpiry(mm.now, Expiry(put.inst)) = bucket
      /\ d \in Int
  BY <1>3, PickedFacts
<1>6. Contract[call.inst].date = Contract[put.inst].date
  BY <1>2, <1>4, <1>5, BucketIsOneDate
<1>7. call.inst # put.inst
  BY <1>4, <1>5
<1>8. /\ p.u = u /\ p.legs = <<LegOf(call, "buy"), LegOf(put, "buy")>> /\ p.perLot = PremiumInr(u, c + d)
      /\ p.strategy \in Strategy
  BY <1>1 DEF Strategy
<1>9. /\ LegOf(call, "buy").inst = call.inst /\ LegOf(call, "buy").side = "buy" /\ LegOf(call, "buy").price = c
      /\ LegOf(put, "buy").inst = put.inst /\ LegOf(put, "buy").side = "buy" /\ LegOf(put, "buy").price = d
  BY DEF LegOf
<1>q. Quoted(p)
  BY <1>3, <1>8, <1>9 DEF Quoted, Picked
<1> HIDE DEF c, d
<1>10. OneExpiry(p)
  BY <1>4, <1>5, <1>6, <1>7, <1>8, <1>9 DEF OneExpiry
<1>11. LotValue[u] \in Nat
  BY StrategiesAssumption
<1>12. ASSUME NEW price \in Settles
       PROVE  SettledPnl(p, price) \in Int /\ SettledPnl(p, price) * LotValue[u] >= - p.perLot
  <2>1. Intrinsic(call.inst, price) \in Nat /\ Intrinsic(put.inst, price) \in Nat
    BY <1>4, <1>5, IntrinsicType, DeskAssumption
  <2>2. SettledPnl(p, price) = (Intrinsic(call.inst, price) - c) + (Intrinsic(put.inst, price) - d)
    BY <1>4, <1>5, <1>8, <1>9, <2>1 DEF SettledPnl, LegPnl, Sign
  <2>3. SettledPnl(p, price) \in Int /\ SettledPnl(p, price) >= - (c + d) /\ c + d \in Int
    BY <1>4, <1>5, <2>1, <2>2
  <2> QED
    BY <1>8, <1>11, <2>3, Scaled DEF PremiumInr
<1>13. p.perLot \in Int
  BY <1>4, <1>5, <1>8, <1>11 DEF PremiumInr
<1>l. DOMAIN p.legs = {1, 2} /\ \A k \in DOMAIN p.legs : p.legs[k].inst \in Symbol /\ p.legs[k].price \in Int
  BY <1>4, <1>5, <1>8, <1>9
<1>14. Sound(p)
  BY <1>8, <1>10, <1>12, <1>13, <1>l DEF Sound
<1> QED
  BY <1>q, <1>14 DEF p

\* Inside the wing a spread loses at most its width less the credit.
LEMMA SpreadPnl ==
  ASSUME NEW long \in Symbol, NEW short \in Symbol, NEW price \in Nat,
         Contract[long].type = Contract[short].type, Contract[long].type \in {"call", "put"},
         IF Contract[long].type = "put" THEN Contract[long].strike < Contract[short].strike
                                        ELSE Contract[short].strike < Contract[long].strike
  PROVE  Intrinsic(long, price) - Intrinsic(short, price)
           >= - Distance(Contract[short].strike, Contract[long].strike)
<1>1. Contract[long].strike \in Nat /\ Contract[short].strike \in Nat
  BY ChainAssumption
<1>2. CASE Contract[long].type = "put"
  BY <1>1, <1>2 DEF Intrinsic, Distance
<1>3. CASE Contract[long].type = "call"
  BY <1>1, <1>3 DEF Intrinsic, Distance
<1> QED
  BY <1>2, <1>3

LEMMA VerticalIsSound ==
  ASSUME NEW u \in Underlying, NEW mm, NEW trend, mm.now \in Nat, QuotesOK,
         VerticalEvaluate(u, mm, trend) # NoIntent
  PROVE  LET p == VerticalEvaluate(u, mm, trend) IN Sound(p) /\ Quoted(p)
<1> DEFINE up == LongSetup(trend, Vertical.breakout)
           type == IF up THEN "put" ELSE "call"
           bucket == Vertical.prefer
           short == SelectByDelta(u, type, bucket, Vertical.shortTarget,
                                  Vertical.shortMin, Vertical.shortMax, mm)
           long == SelectByDelta(u, type, bucket, Vertical.longTarget,
                                 Vertical.longMin, Vertical.longMax, mm)
           width == Distance(Contract[short.inst].strike, Contract[long.inst].strike)
           a == Mid(short.quote)
           b == Mid(long.quote)
           bought == LegOf(long, "buy")
           sold == LegOf(short, "sell")
           p == VerticalEvaluate(u, mm, trend)
<1>1. /\ Usable(short) /\ Usable(long) /\ FartherOut(long, short, type)
      /\ p = [kind |-> "intent", strategy |-> "credit_vertical", u |-> u, bucket |-> bucket,
              legs |-> IF up THEN <<bought, sold>> ELSE <<sold, bought>>,
              perLot |-> PremiumInr(u, width - (a - b))]
  BY DEF VerticalEvaluate
<1>2. bucket \in Buckets
  BY StrategiesAssumption
<1>3. Picked(short, u, type, bucket, mm.now) /\ Picked(long, u, type, bucket, mm.now)
  BY <1>1, ByDeltaIsPicked DEF Usable, SelectByDelta
<1>t. type \in {"call", "put"}
  OBVIOUS
<1> HIDE DEF short, long, p, bucket, type
<1>4. /\ short.inst \in Symbol /\ Contract[short.inst].u = u /\ Contract[short.inst].type = type
      /\ BucketForExpiry(mm.now, Expiry(short.inst)) = bucket
      /\ Contract[short.inst].strike \in Nat
      /\ a \in Int
  BY <1>3, PickedFacts
<1>5. /\ long.inst \in Symbol /\ Contract[long.inst].u = u /\ Contract[long.inst].type = type
      /\ BucketForExpiry(mm.now, Expiry(long.inst)) = bucket
      /\ Contract[long.inst].strike \in Nat
      /\ b \in Int
  BY <1>3, PickedFacts
<1>6. Contract[short.inst].date = Contract[long.inst].date
  BY <1>2, <1>4, <1>5, BucketIsOneDate
<1>7. IF type = "put" THEN Contract[long.inst].strike < Contract[short.inst].strike
                      ELSE Contract[short.inst].strike < Contract[long.inst].strike
  BY <1>1 DEF FartherOut
<1>8. short.inst # long.inst
  BY <1>4, <1>5, <1>7
<1>9. /\ p.u = u /\ p.perLot = PremiumInr(u, width - (a - b)) /\ p.strategy \in Strategy
      /\ p.legs = <<bought, sold>> \/ p.legs = <<sold, bought>>
  BY <1>1 DEF Strategy
<1>10. /\ bought.inst = long.inst /\ bought.side = "buy" /\ bought.price = b
       /\ sold.inst = short.inst /\ sold.side = "sell" /\ sold.price = a
  BY DEF LegOf
<1>11. width \in Nat
  BY <1>4, <1>5 DEF Distance
<1>12. OneExpiry(p)
  <2> HIDE DEF bought, sold
  <2> QED
    BY <1>4, <1>5, <1>6, <1>8, <1>9, <1>10 DEF OneExpiry
<1>q. Quoted(p)
  <2>1. bought.price = Mid(quotes[bought.inst]) /\ sold.price = Mid(quotes[sold.inst])
    BY <1>3, <1>10 DEF Picked
  <2> HIDE DEF bought, sold
  <2> QED
    BY <1>9, <2>1 DEF Quoted
<1>13. LotValue[u] \in Nat
  BY StrategiesAssumption
<1> HIDE DEF a, b
<1>14. ASSUME NEW price \in Settles
       PROVE  SettledPnl(p, price) \in Int /\ SettledPnl(p, price) * LotValue[u] >= - p.perLot
  <2> DEFINE x == Intrinsic(long.inst, price)
             y == Intrinsic(short.inst, price)
  <2>0. price \in Nat
    BY DeskAssumption
  <2>1. x \in Nat /\ y \in Nat
    BY <2>0, <1>4, <1>5, IntrinsicType
  <2>2. x - y >= - width
    BY <1>t, <1>4, <1>5, <1>7, <2>0, SpreadPnl
  <2> HIDE DEF width, x, y, bought, sold
  <2>3. LegPnl(bought, price) = x - b /\ LegPnl(sold, price) = - (y - a)
    BY <1>4, <1>5, <1>10, <2>1 DEF LegPnl, Sign, x, y
  <2>4. SettledPnl(p, price) = LegPnl(bought, price) + LegPnl(sold, price)
    <3>1. LegPnl(bought, price) \in Int /\ LegPnl(sold, price) \in Int
      BY <1>4, <1>5, <2>1, <2>3
    <3>2. p.legs = <<bought, sold>> \/ p.legs = <<sold, bought>>
      BY <1>9
    <3> QED
      BY <3>1, <3>2 DEF SettledPnl
  <2>5. /\ SettledPnl(p, price) \in Int
        /\ width - (a - b) \in Int
        /\ SettledPnl(p, price) >= - (width - (a - b))
    BY <1>4, <1>5, <1>11, <2>1, <2>2, <2>3, <2>4
  <2> QED
    BY <1>9, <1>13, <2>5, Scaled DEF PremiumInr
<1>15. p.perLot \in Int
  <2> HIDE DEF width
  <2> QED
    BY <1>4, <1>5, <1>9, <1>11, <1>13 DEF PremiumInr
<1>l. DOMAIN p.legs = {1, 2} /\ \A k \in DOMAIN p.legs : p.legs[k].inst \in Symbol /\ p.legs[k].price \in Int
  <2> HIDE DEF bought, sold
  <2> QED
    BY <1>4, <1>5, <1>9, <1>10
<1>16. Sound(p)
  BY <1>9, <1>12, <1>14, <1>15, <1>l DEF Sound
<1> QED
  BY <1>q, <1>16 DEF p

\* The slots are numbered, and each is a strategy on an underlying.
LEMMA SlotTypes ==
  \A k \in DOMAIN Slots : k \in Nat /\ Slots[k][1] \in Strategy /\ Slots[k][2] \in Underlying
BY DeskAssumption

LEMMA ProposalIsSound ==
  ASSUME NEW s \in Strategy, NEW u \in Underlying, NEW mm, NEW signal, mm.now \in Nat, QuotesOK,
         EvaluateOne(s, u, mm, signal) # NoIntent
  PROVE  LET p == EvaluateOne(s, u, mm, signal) IN Sound(p) /\ Quoted(p)
<1>1. CASE s = "directional"
  <2>1. EvaluateOne(s, u, mm, signal) = DirectionalEvaluate(u, mm, signal[u].trend)
    BY <1>1 DEF EvaluateOne
  <2> QED
    BY <2>1, DirectionalIsSound
<1>2. CASE s = "credit_vertical"
  <2>1. EvaluateOne(s, u, mm, signal) = VerticalEvaluate(u, mm, signal[u].trend)
    BY <1>2 DEF EvaluateOne
  <2> QED
    BY <2>1, VerticalIsSound
<1>3. CASE s = "long_straddle"
  <2>1. EvaluateOne(s, u, mm, signal) = StraddleEvaluate(u, mm, signal[u].compressed)
    BY <1>3 DEF EvaluateOne
  <2> QED
    BY <2>1, StraddleIsSound
<1> QED
  BY <1>1, <1>2, <1>3 DEF Strategy

LEMMA TopSlip == Max(Slips) \in Int /\ \A s \in Slips : s \in Int /\ s <= Max(Slips)
<1>1. PICK top \in Slips : \A s \in Slips : s <= top
  BY DeskAssumption
<1>2. Slips \subseteq Int
  BY DeskAssumption
<1>3. \A s \in Slips : top >= s
  BY <1>1, <1>2
<1>4. Max(Slips) \in Slips /\ \A s \in Slips : Max(Slips) >= s
  BY <1>3 DEF Max
<1> HIDE DEF Max
<1> QED
  BY <1>2, <1>4

\* What a fill at another price than the proposal's costs.
LEMMA SlippedLeg ==
  ASSUME NEW leg, NEW filled, NEW s \in Int, NEW price \in Nat,
         leg.inst \in Symbol, leg.price \in Int,
         filled.inst = leg.inst, filled.side = leg.side,
         filled.price = leg.price + Sign(leg.side) * s
  PROVE  /\ LegPnl(leg, price) \in Int
         /\ LegPnl(filled, price) = LegPnl(leg, price) - s
<1>1. Intrinsic(leg.inst, price) \in Int
  BY IntrinsicType
<1> QED
  BY <1>1 DEF LegPnl, Sign

\* A trade of a sound proposal has one expiry and, when it was filled from the
\* quotes that the proposal was made of, is covered, whatever its size.
LEMMA TradeIsSound ==
  ASSUME NEW p, Sound(p), lots \in Nat, asQuoted => Quoted(p),
         NEW slip \in [DOMAIN p.legs -> Slips]
  PROVE  LET t == TradeOf(p, slip) IN OneExpiry(t) /\ (t.asQuoted => Covered(t))
<1> DEFINE t == TradeOf(p, slip)
<1>1. /\ t.u = p.u /\ t.lots = lots /\ t.risk = lots * p.perLot /\ t.asQuoted = asQuoted
      /\ DOMAIN t.legs = DOMAIN p.legs
      /\ \A k \in DOMAIN p.legs :
           /\ t.legs[k].inst = p.legs[k].inst /\ t.legs[k].side = p.legs[k].side
           /\ t.legs[k].price = Mid(quotes[p.legs[k].inst]) + Sign(p.legs[k].side) * slip[k]
  BY DEF TradeOf, FillPrice
<1> HIDE DEF t
<1>2. OneExpiry(t)
  BY <1>1 DEF OneExpiry, Sound
<1>3. ASSUME asQuoted, NEW price \in Settles
      PROVE  PremiumInr(t.u, t.lots * (SettledPnl(t, price) + MaxSlippage(t))) >= - t.risk
  <2> DEFINE x == SettledPnl(p, price)
             y == SettledPnl(t, price) + MaxSlippage(t)
             v == LotValue[p.u]
  <2>1. ASSUME NEW k \in DOMAIN p.legs
        PROVE  /\ slip[k] \in Int /\ slip[k] <= Max(Slips)
               /\ LegPnl(p.legs[k], price) \in Int
               /\ LegPnl(t.legs[k], price) = LegPnl(p.legs[k], price) - slip[k]
    <3>1. slip[k] \in Int /\ slip[k] <= Max(Slips)
      BY TopSlip
    <3>2. t.legs[k].price = p.legs[k].price + Sign(p.legs[k].side) * slip[k]
      BY <1>1, <1>3 DEF Quoted
    <3>3. p.legs[k].inst \in Symbol /\ p.legs[k].price \in Int /\ price \in Nat
      BY DeskAssumption DEF Sound
    <3> QED
      BY <1>1, <3>1, <3>2, <3>3, SlippedLeg
  <2>2. y \in Int /\ y >= x
    <3>1. Max(Slips) \in Int
      BY TopSlip
    <3>2. CASE DOMAIN p.legs = {1}
      BY <1>1, <2>1, <3>1, <3>2 DEF SettledPnl, MaxSlippage
    <3>3. CASE DOMAIN p.legs = {1, 2}
      <4>1. DOMAIN p.legs # {1} /\ 1 \in DOMAIN p.legs /\ 2 \in DOMAIN p.legs
        BY <3>3
      <4> QED
        BY <1>1, <2>1, <3>1, <4>1 DEF SettledPnl, MaxSlippage
    <3> QED
      BY <3>2, <3>3 DEF Sound
  <2>3. x \in Int /\ v \in Nat /\ p.perLot \in Int /\ x * v >= - p.perLot
    BY StrategiesAssumption DEF Sound
  <2> HIDE DEF x, y, v
  <2>4. y * v \in Int /\ y * v >= - p.perLot
    <3>1. y * v >= - ((- x) * v) /\ - ((- x) * v) = x * v /\ x * v \in Int /\ y * v \in Int
      BY <2>2, <2>3, Scaled
    <3> QED
      BY <2>3, <3>1
  <2>5. (lots * y) * v = (y * v) * lots /\ lots * p.perLot = p.perLot * lots
    BY <2>2, <2>3
  <2>6. (y * v) * lots >= - (p.perLot * lots)
    BY <2>3, <2>4, Scaled
  <2> QED
    BY <1>1, <2>5, <2>6 DEF PremiumInr, v, y
<1>4. asQuoted => Covered(t)
  BY <1>3 DEF Covered
<1> QED
  BY <1>1, <1>2, <1>4 DEF t

-----------------------------------------------------------------------------
(* The tick *)

TickInv ==
  /\ now \in Time
  /\ pc # "waiting" => m.now \in Time
  /\ intents = [k \in DOMAIN Slots |-> intents[k]]
  /\ \A k \in DOMAIN Slots : intents[k] # NoIntent => Sound(intents[k])
  /\ lots \in Nat

TradesInv == RiskHoldsAsQuoted /\ OneExpiryPerTrade

\* As long as no quote has changed, the proposals are as the chain quotes them.
QuotedInv == asQuoted => \A k \in DOMAIN Slots : intents[k] # NoIntent => Quoted(intents[k])

DeskInv == QuotesOK /\ TickInv /\ TradesInv /\ QuotedInv

LEMMA DeskInit == Init => DeskInv
<1> SUFFICES ASSUME Init PROVE DeskInv
  OBVIOUS
<1>1. QuotesOK
  BY DEF Init, ChainInit, QuotesOK
<1>2. TickInv
  BY ChainAssumption DEF Init, ChainInit, TickInv, NoIntents
<1>3. TradesInv
  BY BooksAssumption DEF Init, TradesInv, RiskHoldsAsQuoted, OneExpiryPerTrade
<1>4. QuotedInv
  BY DEF Init, QuotedInv
<1> QED
  BY <1>1, <1>2, <1>3, <1>4 DEF DeskInv

LEMMA QuotesStep == QuotesOK /\ [Next]_vars => QuotesOK'
<1> SUFFICES ASSUME QuotesOK, [Next]_vars PROVE QuotesOK'
  OBVIOUS
<1>1. CASE RefreshStep
  <2>1. CASE ProductsArrive
    BY <2>1 DEF ProductsArrive, QuotesOK, Live
  <2>2. CASE TickersArrive
    BY <2>2, TickerAssumption DEF TickersArrive, QuotesOK
  <2>3. CASE RefreshSkips \/ RefreshBegins \/ RequestFails
    BY <2>3 DEF RefreshSkips, RefreshBegins, RequestFails, QuotesOK
  <2> QED
    BY <1>1, <2>1, <2>2, <2>3 DEF RefreshStep
<1>2. CASE ClockStep \/ SampleStep \/ MarkMoves \/ TickStep \/ UNCHANGED vars
  <2>1. UNCHANGED <<instruments, quotes>>
    BY <1>2 DEF ClockStep, TimePasses, SampleStep, RecordFromChain, MarkMoves, TickStep, TickBegins,
                LoadMarket, ExitsRun, EvaluateAll, GateRefuses, GateApproves, EntryFills,
                EntryFails, TickEnds, chainVars, vars
  <2> QED
    BY <2>1 DEF QuotesOK
<1> QED
  BY <1>1, <1>2 DEF Next

\* Marking a slot as done with leaves the others as they were.
LEMMA DoneKeeps ==
  ASSUME TickInv, NEW k \in DOMAIN Slots, intents' = Done(k)
  PROVE  /\ intents' = [j \in DOMAIN Slots |-> intents'[j]]
         /\ \A j \in DOMAIN Slots : intents'[j] # NoIntent => Sound(intents'[j])
BY DEF TickInv, Done

LEMMA TickStepKeeps ==
  ASSUME QuotesOK, TickInv, TradesInv, QuotedInv, TickStep
  PROVE  TickInv' /\ TradesInv'
<1>1. CASE TickBegins
  BY <1>1 DEF TickBegins, TickInv, TradesInv, RiskHoldsAsQuoted, OneExpiryPerTrade
<1>2. CASE LoadMarket
  <2>1. pc = "load" /\ m'.now = m.now
    BY <1>2 DEF LoadMarket
  <2>2. UNCHANGED <<now, intents, lots, trades>>
    BY <1>2 DEF LoadMarket
  <2> QED
    BY <2>1, <2>2 DEF TickInv, TradesInv, RiskHoldsAsQuoted, OneExpiryPerTrade
<1>3. CASE ExitsRun
  <2>1. trades' \subseteq trades /\ pc = "exits" /\ UNCHANGED <<now, m, intents, lots>>
    BY <1>3 DEF ExitsRun
  <2> QED
    BY <2>1 DEF TickInv, TradesInv, RiskHoldsAsQuoted, OneExpiryPerTrade
<1>4. CASE EvaluateAll
  <2> DEFINE Proposal(k, signal, silent) ==
               IF Slots[k][1] \in silent \/ ~ Account[Slots[k][1]].enabled
               THEN NoIntent
               ELSE EvaluateOne(Slots[k][1], Slots[k][2], m, signal)
  <2>1. PICK signal \in [Underlying -> Signals], silent \in Silences :
          intents' = [k \in DOMAIN Slots |-> Proposal(k, signal, silent)]
    BY <1>4 DEF EvaluateAll
  <2>2. pc = "evaluate" /\ m'.now = m.now /\ UNCHANGED <<now, lots, trades>>
    BY <1>4 DEF EvaluateAll
  <2>3. m.now \in Nat
    BY <2>2, ChainAssumption DEF TickInv
  <2>4. ASSUME NEW k \in DOMAIN Slots, intents'[k] # NoIntent PROVE Sound(intents'[k])
    <3>1. intents'[k] = EvaluateOne(Slots[k][1], Slots[k][2], m, signal)
      BY <2>1, <2>4
    <3>2. Slots[k][1] \in Strategy /\ Slots[k][2] \in Underlying
      BY SlotTypes
    <3> QED
      BY <2>3, <2>4, <3>1, <3>2, ProposalIsSound
  <2>5. intents' = [k \in DOMAIN Slots |-> intents'[k]]
    BY <2>1
  <2> QED
    BY <2>2, <2>4, <2>5 DEF TickInv, TradesInv, RiskHoldsAsQuoted, OneExpiryPerTrade
<1>5. CASE GateRefuses
  <2>1. PICK k \in DOMAIN Slots : intents' = Done(k)
    BY <1>5 DEF GateRefuses
  <2>2. UNCHANGED <<now, pc, m, lots, trades>>
    BY <1>5 DEF GateRefuses
  <2> QED
    BY <2>1, <2>2, DoneKeeps DEF TickInv, TradesInv, RiskHoldsAsQuoted, OneExpiryPerTrade
<1>6. CASE GateApproves
  <2>1. pc = "gate" /\ lots' \in Nat /\ UNCHANGED <<now, m, intents, trades>>
    BY <1>6 DEF GateApproves
  <2> QED
    BY <2>1 DEF TickInv, TradesInv, RiskHoldsAsQuoted, OneExpiryPerTrade
<1>7. CASE EntryFills
  <2>1. PICK k \in DOMAIN Slots : /\ intents[k] # NoIntent
                                  /\ \E slip \in [DOMAIN intents[k].legs -> Slips] :
                                       trades' = trades \cup {TradeOf(intents[k], slip)}
                                  /\ intents' = Done(k)
    BY <1>7 DEF EntryFills, IsNext
  <2>s. PICK slip \in [DOMAIN intents[k].legs -> Slips] :
          trades' = trades \cup {TradeOf(intents[k], slip)}
    BY <2>1
  <2> DEFINE t == TradeOf(intents[k], slip)
  <2>2. pc = "entry" /\ lots' = 0 /\ UNCHANGED <<now, m>>
    BY <1>7 DEF EntryFills
  <2>3. OneExpiry(t) /\ (t.asQuoted => Covered(t))
    BY <2>1, <2>s, TradeIsSound DEF TickInv, QuotedInv
  <2>t. trades' = trades \cup {t}
    BY <2>s
  <2> HIDE DEF t
  <2>4. TradesInv'
    BY <2>3, <2>t DEF TradesInv, RiskHoldsAsQuoted, OneExpiryPerTrade
  <2> QED
    BY <2>1, <2>2, <2>4, DoneKeeps DEF TickInv
<1>8. CASE EntryFails
  <2>1. PICK k \in DOMAIN Slots : intents' = Done(k)
    BY <1>8 DEF EntryFails
  <2>2. pc = "entry" /\ lots' = 0 /\ UNCHANGED <<now, m, trades>>
    BY <1>8 DEF EntryFails
  <2> QED
    BY <2>1, <2>2, DoneKeeps DEF TickInv, TradesInv, RiskHoldsAsQuoted, OneExpiryPerTrade
<1>9. CASE TickEnds
  BY <1>9 DEF TickEnds, TickInv, TradesInv, RiskHoldsAsQuoted, OneExpiryPerTrade
<1> QED
  BY <1>1, <1>2, <1>3, <1>4, <1>5, <1>6, <1>7, <1>8, <1>9 DEF TickStep

LEMMA QuotedStep ==
  ASSUME DeskInv, [Next]_vars
  PROVE  QuotedInv'
<1> USE DEF Quoted
<1>1. CASE EvaluateAll
  <2> DEFINE Proposal(k, signal, silent) ==
               IF Slots[k][1] \in silent \/ ~ Account[Slots[k][1]].enabled
               THEN NoIntent
               ELSE EvaluateOne(Slots[k][1], Slots[k][2], m, signal)
  <2>1. PICK signal \in [Underlying -> Signals], silent \in Silences :
          intents' = [k \in DOMAIN Slots |-> Proposal(k, signal, silent)]
    BY <1>1 DEF EvaluateAll
  <2>2. m.now \in Nat /\ quotes' = quotes
    BY <1>1, ChainAssumption DEF EvaluateAll, DeskInv, TickInv, chainVars
  <2>3. ASSUME NEW k \in DOMAIN Slots, intents'[k] # NoIntent PROVE Quoted(intents[k])'
    <3>1. intents'[k] = EvaluateOne(Slots[k][1], Slots[k][2], m, signal)
      BY <2>1, <2>3
    <3>2. Slots[k][1] \in Strategy /\ Slots[k][2] \in Underlying
      BY SlotTypes
    <3>3. Quoted(intents'[k])
      BY <2>2, <2>3, <3>1, <3>2, ProposalIsSound DEF DeskInv
    <3> QED
      BY <2>2, <3>3
  <2> QED
    BY <2>3 DEF QuotedInv
<1>2. CASE RefreshStep
  <2>1. intents' = intents /\ (asQuoted' => asQuoted /\ quotes' = quotes)
    BY <1>2 DEF RefreshStep, tickVars
  <2> QED
    BY <2>1 DEF QuotedInv, DeskInv
<1>3. CASE GateRefuses \/ EntryFills \/ EntryFails
  <2>1. PICK k \in DOMAIN Slots : intents' = Done(k)
    BY <1>3 DEF GateRefuses, EntryFills, EntryFails
  <2>2. UNCHANGED <<quotes, asQuoted>>
    BY <1>3 DEF GateRefuses, EntryFills, EntryFails, chainVars
  <2>3. \A j \in DOMAIN Slots : intents'[j] # NoIntent => intents'[j] = intents[j]
    BY <2>1 DEF Done, DeskInv, TickInv
  <2> QED
    BY <2>2, <2>3 DEF QuotedInv, DeskInv
<1>4. CASE TickEnds
  BY <1>4 DEF TickEnds, QuotedInv
<1>5. CASE \/ ClockStep \/ SampleStep \/ MarkMoves \/ TickBegins \/ LoadMarket \/ ExitsRun
           \/ GateApproves \/ UNCHANGED vars
  <2>1. UNCHANGED <<quotes, intents, asQuoted>>
    BY <1>5 DEF ClockStep, TimePasses, SampleStep, RecordFromChain, MarkMoves, TickBegins,
                LoadMarket, ExitsRun, GateApproves, chainVars, tickVars, vars
  <2> QED
    BY <2>1 DEF QuotedInv, DeskInv
<1> QED
  BY <1>1, <1>2, <1>3, <1>4, <1>5 DEF Next, TickStep

LEMMA DeskStep == DeskInv /\ [Next]_vars => DeskInv'
<1> SUFFICES ASSUME DeskInv, [Next]_vars PROVE DeskInv'
  OBVIOUS
<1>1. QuotesOK'
  BY QuotesStep DEF DeskInv
<1>q. QuotedInv'
  BY QuotedStep
<1>2. CASE TickStep
  BY <1>1, <1>q, <1>2, TickStepKeeps DEF DeskInv
<1>3. CASE ClockStep \/ RefreshStep \/ SampleStep \/ MarkMoves \/ UNCHANGED vars
  <2>1. UNCHANGED tickVars /\ now' \in Time
    BY <1>3 DEF ClockStep, TimePasses, RefreshStep, RefreshSkips, RefreshBegins, ProductsArrive,
                RequestFails, TickersArrive, SampleStep, RecordFromChain, MarkMoves, vars,
                DeskInv, TickInv
  <2>2. TickInv' /\ TradesInv'
    BY <2>1 DEF tickVars, DeskInv, TickInv, TradesInv, RiskHoldsAsQuoted, OneExpiryPerTrade
  <2> QED
    BY <1>1, <1>q, <2>2 DEF DeskInv
<1> QED
  BY <1>2, <1>3 DEF Next

\* RiskHoldsAsQuoted of Desk: wherever the underlying settles, a trade that is filled
\* from the quotes its proposal was priced with loses no more than the risk that the
\* gate booked for it and the slippage of its fills.
THEOREM RiskIsCovered == Spec => []RiskHoldsAsQuoted
<1>1. DeskInv => RiskHoldsAsQuoted
  BY DEF DeskInv, TradesInv
<1> QED
  BY DeskInit, DeskStep, <1>1, PTL DEF Spec

\* The legs of every trade are different contracts with one expiry.
THEOREM LegsShareTheirExpiry == Spec => []OneExpiryPerTrade
<1>1. DeskInv => OneExpiryPerTrade
  BY DEF DeskInv, TradesInv
<1> QED
  BY DeskInit, DeskStep, <1>1, PTL DEF Spec

-----------------------------------------------------------------------------
(* Which way a proposal bets *)

\* The highest settlement is above every strike.
LEMMA TopSettles ==
  /\ Max(Settles) \in Nat
  /\ \A i \in Symbol : Contract[i].strike < Max(Settles)
<1>1. PICK top \in Settles : /\ \A price \in Settles : price <= top
                             /\ \A i \in Symbol : Contract[i].strike < top
  BY SettlesAssumption
<1>2. Settles \subseteq Nat
  BY DeskAssumption
<1>3. \A price \in Settles : top >= price
  BY <1>1, <1>2
<1>4. Max(Settles) \in Settles /\ \A price \in Settles : Max(Settles) >= price
  BY <1>3 DEF Max
<1>5. Max(Settles) = top
  <2>1. Max(Settles) \in Nat /\ top \in Nat /\ Max(Settles) >= top /\ top >= Max(Settles)
    BY <1>2, <1>3, <1>4
  <2> QED
    BY <2>1
<1> QED
  BY <1>1, <1>2, <1>5

\* What a contract gains from the lowest settlement to the highest.
LEMMA IntrinsicEnds ==
  ASSUME NEW i \in Symbol
  PROVE  /\ Intrinsic(i, 0) \in Nat /\ Intrinsic(i, Max(Settles)) \in Nat
         /\ Contract[i].type = "call" =>
              Intrinsic(i, 0) = 0 /\ Intrinsic(i, Max(Settles)) = Max(Settles) - Contract[i].strike
         /\ Contract[i].type = "put" =>
              Intrinsic(i, 0) = Contract[i].strike /\ Intrinsic(i, Max(Settles)) = 0
<1>1. Contract[i].strike \in Nat /\ Contract[i].strike < Max(Settles) /\ Max(Settles) \in Nat
  BY TopSettles, ChainAssumption
<1> HIDE DEF Max
<1> QED
  BY <1>1 DEF Intrinsic

\* A proposal bets on a rise only in an uptrend, on a fall only in a downtrend.
Follows(p, trend) ==
  \/ Direction(p) = 0
  \/ Direction(p) = 1 /\ trend > 0
  \/ Direction(p) = -1 /\ trend < 0

LEMMA DirectionalFollows ==
  ASSUME NEW u \in Underlying, NEW mm, NEW trend \in Int, QuotesOK,
         DirectionalEvaluate(u, mm, trend) # NoIntent
  PROVE  /\ DirectionalEvaluate(u, mm, trend).u = u
         /\ Follows(DirectionalEvaluate(u, mm, trend), trend)
<1> DEFINE long == LongSetup(trend, Directional.breakout)
           type == IF long THEN "call" ELSE "put"
           bucket == PickExpiryBucket(mm.now)
           sel == PickEntryStrike(u, type, bucket, mm)
           p == DirectionalEvaluate(u, mm, trend)
           mid == Mid(sel.quote)
           top == Max(Settles)
<1>1. /\ Usable(sel) /\ (long \/ ShortSetup(trend, Directional.breakout))
      /\ p = [kind |-> "intent", strategy |-> "directional", u |-> u, bucket |-> bucket,
              legs |-> <<LegOf(sel, "buy")>>, perLot |-> PremiumInr(u, mid)]
  BY DEF DirectionalEvaluate
<1>2. Picked(sel, u, type, bucket, mm.now)
  BY <1>1, EntryStrikeIsPicked DEF Usable
<1>t. IF long THEN type = "call" /\ trend > 0 ELSE type = "put" /\ trend < 0
  <2>1. Directional.breakout \in Nat \ {0}
    BY StrategiesAssumption
  <2> QED
    BY <1>1, <2>1 DEF LongSetup, ShortSetup
<1> HIDE DEF sel, p, type, bucket, long, mid
<1>3. /\ sel.inst \in Symbol /\ Contract[sel.inst].type = type /\ mid \in Int
      /\ Contract[sel.inst].strike \in Nat
  BY <1>2, PickedFacts DEF mid
<1>4. p.u = u /\ p.legs = <<LegOf(sel, "buy")>> /\ p.strategy = "directional"
  BY <1>1
<1>5. LegOf(sel, "buy").inst = sel.inst /\ LegOf(sel, "buy").side = "buy" /\ LegOf(sel, "buy").price = mid
  BY DEF LegOf, mid
<1>6. /\ Intrinsic(sel.inst, 0) \in Nat /\ Intrinsic(sel.inst, top) \in Nat
      /\ type = "call" => Intrinsic(sel.inst, top) - Intrinsic(sel.inst, 0) > 0
      /\ type = "put" => Intrinsic(sel.inst, top) - Intrinsic(sel.inst, 0) <= 0
  BY <1>3, IntrinsicEnds, TopSettles
<1> HIDE DEF top
<1>7. \A price : Intrinsic(sel.inst, price) \in Nat =>
                   SettledPnl(p, price) = Intrinsic(sel.inst, price) - mid
  BY <1>3, <1>4, <1>5 DEF SettledPnl, LegPnl, Sign
<1>8. SettledPnl(p, top) - SettledPnl(p, 0) = Intrinsic(sel.inst, top) - Intrinsic(sel.inst, 0)
  BY <1>3, <1>6, <1>7
<1>9. Direction(p) = IF SettledPnl(p, top) - SettledPnl(p, 0) > 0 THEN 1 ELSE -1
  BY <1>4 DEF Direction, top
<1>10. Follows(p, trend)
  BY <1>t, <1>6, <1>8, <1>9 DEF Follows
<1> QED
  BY <1>4, <1>10 DEF p

LEMMA VerticalFollows ==
  ASSUME NEW u \in Underlying, NEW mm, NEW trend \in Int, QuotesOK,
         VerticalEvaluate(u, mm, trend) # NoIntent
  PROVE  /\ VerticalEvaluate(u, mm, trend).u = u
         /\ Follows(VerticalEvaluate(u, mm, trend), trend)
<1> DEFINE up == LongSetup(trend, Vertical.breakout)
           type == IF up THEN "put" ELSE "call"
           bucket == Vertical.prefer
           short == SelectByDelta(u, type, bucket, Vertical.shortTarget,
                                  Vertical.shortMin, Vertical.shortMax, mm)
           long == SelectByDelta(u, type, bucket, Vertical.longTarget,
                                 Vertical.longMin, Vertical.longMax, mm)
           a == Mid(short.quote)
           b == Mid(long.quote)
           bought == LegOf(long, "buy")
           sold == LegOf(short, "sell")
           p == VerticalEvaluate(u, mm, trend)
           top == Max(Settles)
<1>1. /\ Usable(short) /\ Usable(long) /\ FartherOut(long, short, type)
      /\ up \/ ShortSetup(trend, Vertical.breakout)
      /\ p.u = u /\ p.strategy = "credit_vertical"
      /\ p.legs = IF up THEN <<bought, sold>> ELSE <<sold, bought>>
  BY DEF VerticalEvaluate
<1>2. Picked(short, u, type, bucket, mm.now) /\ Picked(long, u, type, bucket, mm.now)
  BY <1>1, ByDeltaIsPicked DEF Usable, SelectByDelta
<1>t. IF up THEN type = "put" /\ trend > 0 ELSE type = "call" /\ trend < 0
  <2>1. Vertical.breakout \in Nat \ {0}
    BY StrategiesAssumption
  <2> QED
    BY <1>1, <2>1 DEF LongSetup, ShortSetup
<1> HIDE DEF short, long, p, bucket, type, up, a, b
<1>3. /\ short.inst \in Symbol /\ Contract[short.inst].type = type
      /\ Contract[short.inst].strike \in Nat /\ a \in Int
  BY <1>2, PickedFacts DEF a
<1>4. /\ long.inst \in Symbol /\ Contract[long.inst].type = type
      /\ Contract[long.inst].strike \in Nat /\ b \in Int
  BY <1>2, PickedFacts DEF b
<1>5. IF type = "put" THEN Contract[long.inst].strike < Contract[short.inst].strike
                      ELSE Contract[short.inst].strike < Contract[long.inst].strike
  BY <1>1 DEF FartherOut
<1>6. /\ bought.inst = long.inst /\ bought.side = "buy" /\ bought.price = b
      /\ sold.inst = short.inst /\ sold.side = "sell" /\ sold.price = a
  BY DEF LegOf, a, b
<1>7. p.legs = <<bought, sold>> \/ p.legs = <<sold, bought>>
  BY <1>1
<1> HIDE DEF bought, sold
<1>8. ASSUME NEW price, Intrinsic(long.inst, price) \in Nat, Intrinsic(short.inst, price) \in Nat
      PROVE  SettledPnl(p, price)
               = (Intrinsic(long.inst, price) - b) - (Intrinsic(short.inst, price) - a)
  <2> DEFINE x == Intrinsic(long.inst, price)
             y == Intrinsic(short.inst, price)
  <2>1. LegPnl(bought, price) = x - b /\ LegPnl(sold, price) = - (y - a)
    BY <1>3, <1>4, <1>6, <1>8 DEF LegPnl, Sign
  <2>2. x \in Nat /\ y \in Nat
    BY <1>8
  <2> HIDE DEF x, y
  <2>3. LegPnl(bought, price) \in Int /\ LegPnl(sold, price) \in Int
    BY <1>3, <1>4, <2>1, <2>2
  <2>4. SettledPnl(p, price) = LegPnl(bought, price) + LegPnl(sold, price)
    BY <1>7, <2>3 DEF SettledPnl
  <2>5. SettledPnl(p, price) = (x - b) - (y - a)
    BY <1>3, <1>4, <2>1, <2>2, <2>4
  <2> QED
    BY <2>5 DEF x, y
<1> DEFINE rise(i) == Intrinsic(i, top) - Intrinsic(i, 0)
<1>9. /\ Intrinsic(long.inst, 0) \in Nat /\ Intrinsic(long.inst, top) \in Nat
      /\ Intrinsic(short.inst, 0) \in Nat /\ Intrinsic(short.inst, top) \in Nat
  BY <1>3, <1>4, IntrinsicEnds
<1>10. /\ type = "put" => rise(long.inst) - rise(short.inst) > 0
       /\ type = "call" => rise(long.inst) - rise(short.inst) < 0
  BY <1>3, <1>4, <1>5, IntrinsicEnds, TopSettles
<1> HIDE DEF top
<1>11. SettledPnl(p, top) - SettledPnl(p, 0) = rise(long.inst) - rise(short.inst)
  BY <1>3, <1>4, <1>8, <1>9
<1>12. Direction(p) = IF SettledPnl(p, top) - SettledPnl(p, 0) > 0 THEN 1 ELSE -1
  BY <1>1 DEF Direction, top
<1>13. rise(long.inst) - rise(short.inst) \in Int
  BY <1>9
<1> HIDE DEF rise
<1>14. Follows(p, trend)
  BY <1>t, <1>10, <1>11, <1>12, <1>13 DEF Follows
<1> QED
  BY <1>1, <1>14 DEF p

\* The straddle bets neither way.
LEMMA StraddleFollows ==
  ASSUME NEW u \in Underlying, NEW mm, NEW compressed, NEW trend,
         StraddleEvaluate(u, mm, compressed) # NoIntent
  PROVE  /\ StraddleEvaluate(u, mm, compressed).u = u
         /\ Follows(StraddleEvaluate(u, mm, compressed), trend)
<1> DEFINE p == StraddleEvaluate(u, mm, compressed)
<1>1. p.u = u /\ p.strategy = "long_straddle"
  BY DEF StraddleEvaluate
<1> HIDE DEF p
<1>2. Direction(p) = 0
  BY <1>1 DEF Direction
<1> QED
  BY <1>1, <1>2 DEF p, Follows

LEMMA ProposalFollows ==
  ASSUME NEW s \in Strategy, NEW u \in Underlying, NEW mm, NEW signal, signal[u].trend \in Int,
         QuotesOK, EvaluateOne(s, u, mm, signal) # NoIntent
  PROVE  /\ EvaluateOne(s, u, mm, signal).u = u
         /\ Follows(EvaluateOne(s, u, mm, signal), signal[u].trend)
<1>1. CASE s = "directional"
  <2>1. EvaluateOne(s, u, mm, signal) = DirectionalEvaluate(u, mm, signal[u].trend)
    BY <1>1 DEF EvaluateOne
  <2> QED
    BY <2>1, DirectionalFollows
<1>2. CASE s = "credit_vertical"
  <2>1. EvaluateOne(s, u, mm, signal) = VerticalEvaluate(u, mm, signal[u].trend)
    BY <1>2 DEF EvaluateOne
  <2> QED
    BY <2>1, VerticalFollows
<1>3. CASE s = "long_straddle"
  <2>1. EvaluateOne(s, u, mm, signal) = StraddleEvaluate(u, mm, signal[u].compressed)
    BY <1>3 DEF EvaluateOne
  <2> QED
    BY <2>1, StraddleFollows
<1> QED
  BY <1>1, <1>2, <1>3 DEF Strategy

\* Once a slot is done with, fewer proposals are left to disagree.
LEMMA DoneAgrees ==
  ASSUME ProposalsAgree, intents = [k \in DOMAIN Slots |-> intents[k]],
         NEW k \in DOMAIN Slots, intents' = Done(k)
  PROVE  ProposalsAgree'
<1>1. \A j \in DOMAIN Slots : intents'[j] = intents[j] \/ intents'[j] = NoIntent
  BY DEF Done
<1> QED
  BY <1>1 DEF ProposalsAgree, Direction

LEMMA AgreeStep == DeskInv /\ ProposalsAgree /\ [Next]_vars => ProposalsAgree'
<1> SUFFICES ASSUME DeskInv, ProposalsAgree, [Next]_vars PROVE ProposalsAgree'
  OBVIOUS
<1>0. intents = [k \in DOMAIN Slots |-> intents[k]]
  BY DEF DeskInv, TickInv
<1>1. CASE EvaluateAll
  <2> DEFINE Proposal(k, signal, silent) ==
               IF Slots[k][1] \in silent \/ ~ Account[Slots[k][1]].enabled
               THEN NoIntent
               ELSE EvaluateOne(Slots[k][1], Slots[k][2], m, signal)
  <2>1. PICK signal \in [Underlying -> Signals], silent \in Silences :
          intents' = [k \in DOMAIN Slots |-> Proposal(k, signal, silent)]
    BY <1>1 DEF EvaluateAll
  <2>2. ASSUME NEW k \in DOMAIN Slots, intents'[k] # NoIntent
        PROVE  /\ intents'[k].u \in Underlying
               /\ Follows(intents'[k], signal[intents'[k].u].trend)
    <3>1. intents'[k] = EvaluateOne(Slots[k][1], Slots[k][2], m, signal)
      BY <2>1, <2>2
    <3>2. Slots[k][1] \in Strategy /\ Slots[k][2] \in Underlying
      BY SlotTypes
    <3>3. signal[Slots[k][2]].trend \in Int
      BY <3>2, DeskAssumption
    <3>4. intents'[k].u = Slots[k][2] /\ Follows(intents'[k], signal[Slots[k][2]].trend)
      BY <2>2, <3>1, <3>2, <3>3, ProposalFollows DEF DeskInv
    <3> QED
      BY <3>2, <3>4
  <2>3. ASSUME NEW j \in DOMAIN Slots, NEW k \in DOMAIN Slots,
               intents'[j] # NoIntent, intents'[k] # NoIntent, intents'[j].u = intents'[k].u
        PROVE  Direction(intents'[j]) * Direction(intents'[k]) # -1
    <3> DEFINE trend == signal[intents'[j].u].trend
               x == Direction(intents'[j])
               y == Direction(intents'[k])
    <3>1. trend \in Int
      BY <2>2, <2>3, DeskAssumption
    <3>2. /\ x = 0 \/ (x = 1 /\ trend > 0) \/ (x = -1 /\ trend < 0)
          /\ y = 0 \/ (y = 1 /\ trend > 0) \/ (y = -1 /\ trend < 0)
      BY <2>2, <2>3 DEF Follows
    <3> HIDE DEF x, y, trend
    <3>3. x * y # -1
      BY <3>1, <3>2
    <3> QED
      BY <3>3 DEF x, y
  <2> QED
    BY <2>3 DEF ProposalsAgree, Direction
<1>2. ASSUME NEW k \in DOMAIN Slots, intents' = Done(k) PROVE ProposalsAgree'
  BY <1>0, <1>2, DoneAgrees
<1>3. CASE GateRefuses \/ EntryFills \/ EntryFails
  BY <1>2, <1>3 DEF GateRefuses, EntryFills, EntryFails
<1>4. CASE ClockStep \/ RefreshStep \/ SampleStep \/ MarkMoves \/ TickBegins \/ LoadMarket \/ ExitsRun
           \/ GateApproves \/ TickEnds \/ UNCHANGED vars
  <2>1. UNCHANGED intents
    BY <1>4 DEF ClockStep, RefreshStep, SampleStep, MarkMoves, TickBegins, LoadMarket, ExitsRun,
                GateApproves, TickEnds, tickVars, vars
  <2> QED
    BY <2>1 DEF ProposalsAgree, Direction
<1> QED
  BY <1>1, <1>3, <1>4 DEF Next, TickStep

\* ProposalsAgree of Desk: in no tick does one strategy propose a bet on a rise of
\* an underlying and another one a bet on its fall, whatever the chain holds and
\* whatever the thresholds of the two are.
THEOREM ProposalsNeverClash == Spec => []ProposalsAgree
<1>1. Init => ProposalsAgree
  BY DEF Init, NoIntents, ProposalsAgree
<1> QED
  BY <1>1, DeskInit, DeskStep, AgreeStep, PTL DEF Spec

-----------------------------------------------------------------------------
(* Sizes and budgets *)

\* The quotes of the open legs that the tick has read are quotes.
QuoteForOK == \A i \in DOMAIN quoteFor : quoteFor[i] \in DOMAIN Ticker

\* The smaller and the larger of two.
LEMMA MinOfTwo ==
  ASSUME NEW a \in Int, NEW b \in Int
  PROVE  Min({a, b}) \in Int /\ Min({a, b}) <= a /\ Min({a, b}) <= b
<1>1. \E x \in {a, b} : \A y \in {a, b} : x =< y
  OBVIOUS
<1>2. Min({a, b}) \in {a, b} /\ \A y \in {a, b} : Min({a, b}) =< y
  BY <1>1 DEF Min
<1> QED
  BY <1>2

LEMMA MaxOfTwo ==
  ASSUME NEW a \in Int, NEW b \in Int
  PROVE  Max({a, b}) \in Int /\ Max({a, b}) >= a
<1>1. \E x \in {a, b} : \A y \in {a, b} : x >= y
  OBVIOUS
<1>2. Max({a, b}) \in {a, b} /\ \A y \in {a, b} : Max({a, b}) >= y
  BY <1>1 DEF Max
<1> QED
  BY <1>2

\* The greek of a lot of a proposal is a sum over its one leg or two.
LEMMA PerLotGreekType ==
  ASSUME NEW p, Sound(p), QuotesOK, QuoteForOK, NEW g \in {"vega", "gamma"}
  PROVE  PerLotGreek(p, g) \in Nat
<1> DEFINE Of(k) == LET i == p.legs[k].inst
                        q == ResolveQuote(i)
                    IN  IF q = NoQuote \/ Greek(q, g) = NoGreek
                        THEN 0
                        ELSE AbsOf(Greek(q, g)) * Multiplier(i) * LotValue[p.u]
           S == DOMAIN p.legs
           pick(s) == CHOOSE x \in s : TRUE
           G(f) == [s \in SUBSET S |-> IF s = {} THEN 0 ELSE Of(pick(s)) + f[s \ {pick(s)}]]
           iter == CHOOSE f : f = G(f)
<1>1. PerLotGreek(p, g) = iter[S]
  BY DEF PerLotGreek, MapThenSumSet, MapThenFoldSet
<1>2. ASSUME NEW k \in S PROVE Of(k) \in Nat
  <2> DEFINE i == p.legs[k].inst
             q == ResolveQuote(i)
  <2>1. i \in Symbol
    BY <1>2 DEF Sound
  <2>2. q = NoQuote \/ q \in DOMAIN Ticker
    BY <2>1 DEF ResolveQuote, QuotesOK, QuoteForOK
  <2>3. Multiplier(i) \in Nat /\ LotValue[p.u] \in Nat
    BY SizingAssumption, StrategiesAssumption DEF Multiplier, Sound
  <2> HIDE DEF i, q
  <2>4. ASSUME q \in DOMAIN Ticker PROVE AbsOf(Greek(q, g)) \in Nat
    <3>1. Greek(q, g) \in Int
      BY <2>4, TickerAssumption DEF Greek
    <3> QED
      BY <3>1 DEF AbsOf
  <2>5. IF q = NoQuote \/ Greek(q, g) = NoGreek
        THEN TRUE
        ELSE AbsOf(Greek(q, g)) * Multiplier(i) * LotValue[p.u] \in Nat
    BY <2>2, <2>3, <2>4
  <2> QED
    BY <2>5 DEF i, q
<1> HIDE DEF Of
<1>3. S = {1} \/ S = {1, 2}
  BY DEF Sound
<1> DEFINE known == [s \in SUBSET S |-> IF s = {} THEN 0
                                        ELSE IF s = {1} THEN Of(1)
                                        ELSE IF s = {2} THEN Of(2)
                                        ELSE Of(1) + Of(2)]
<1> HIDE DEF S
<1>4. \A s \in SUBSET S : known[s] \in Nat
  BY <1>2, <1>3
<1>5. known = G(known)
  <2>1. ASSUME NEW s \in SUBSET S PROVE known[s] = G(known)[s]
    <3>1. CASE s = {}
      BY <3>1
    <3>2. CASE s = {1}
      <4>1. pick(s) = 1 /\ s \ {1} = {}
        BY <3>2
      <4> QED
        BY <1>2, <1>3, <3>2, <4>1
    <3>3. CASE s = {2}
      <4>1. pick(s) = 2 /\ s \ {2} = {}
        BY <3>3
      <4>2. Of(2) \in Nat
        BY <1>2, <3>3
      <4> QED
        BY <3>3, <4>1, <4>2
    <3>4. CASE s = {1, 2}
      <4>1. Of(1) \in Nat /\ Of(2) \in Nat /\ {1} \in SUBSET S /\ {2} \in SUBSET S
        BY <1>2, <3>4
      <4>2. pick(s) \in {1, 2}
        BY <3>4
      <4>3. s \ {1} = {2} /\ s \ {2} = {1} /\ s # {} /\ s # {1} /\ s # {2}
        BY <3>4
      <4>4. known[{1}] = Of(1) /\ known[{2}] = Of(2) /\ known[s] = Of(1) + Of(2)
        BY <4>1, <4>3
      <4>5. G(known)[s] = Of(pick(s)) + known[s \ {pick(s)}]
        BY <4>3
      <4> HIDE DEF known, G, pick
      <4>6. CASE pick(s) = 1
        BY <4>1, <4>3, <4>4, <4>5, <4>6
      <4>7. CASE pick(s) = 2
        <5>1. G(known)[s] = Of(2) + Of(1)
          BY <4>3, <4>4, <4>5, <4>7
        <5>2. Of(2) + Of(1) = Of(1) + Of(2)
          BY <4>1
        <5> QED
          BY <4>4, <5>1, <5>2
      <4> QED
        BY <4>2, <4>6, <4>7
    <3>5. s = {} \/ s = {1} \/ s = {2} \/ s = {1, 2}
      BY <1>3
    <3> QED
      BY <3>1, <3>2, <3>3, <3>4, <3>5
  <2> QED
    BY <2>1
<1> HIDE DEF known
<1>6. iter = G(iter)
  BY <1>5
<1> HIDE DEF iter
<1>7. iter[{}] = 0
  BY <1>6
<1>8. ASSUME NEW k \in S PROVE iter[{k}] = Of(k)
  <2>1. pick({k}) = k /\ {k} \ {k} = {} /\ {k} \in SUBSET S
    OBVIOUS
  <2>2. iter[{k}] = Of(k) + iter[{}]
    BY <1>6, <2>1
  <2> QED
    BY <1>2, <1>7, <2>2
<1>9. CASE S = {1}
  BY <1>1, <1>2, <1>8, <1>9
<1>10. CASE S = {1, 2}
  <2>1. pick(S) \in S /\ S # {} /\ S \ {1} = {2} /\ S \ {2} = {1}
    BY <1>10
  <2>2. iter[S] = Of(pick(S)) + iter[S \ {pick(S)}]
    BY <1>6, <2>1
  <2> HIDE DEF pick
  <2>3. Of(1) \in Nat /\ Of(2) \in Nat /\ iter[{1}] = Of(1) /\ iter[{2}] = Of(2)
    BY <1>2, <1>8, <1>10
  <2>4. pick(S) = 1 \/ pick(S) = 2
    BY <1>10, <2>1
  <2> QED
    BY <1>1, <2>1, <2>2, <2>3, <2>4
<1> QED
  BY <1>3, <1>9, <1>10

\* A cap by greeks never raises a size.
LEMMA GreekCapLowers ==
  ASSUME NEW p, Sound(p), QuotesOK, QuoteForOK, NEW g \in {"vega", "gamma"},
         NEW limit \in Int, NEW sized \in Int
  PROVE  GreekCap(p, g, limit, sized) \in Int /\ GreekCap(p, g, limit, sized) <= sized
<1> DEFINE perLot == PerLotGreek(p, g)
<1>1. perLot \in Nat
  BY PerLotGreekType
<1> HIDE DEF perLot
<1>2. perLot # 0 => limit \div perLot \in Int
  BY <1>1
<1>3. perLot # 0 => Max({1, limit \div perLot}) \in Int
  BY <1>2, MaxOfTwo
<1>4. GreekCap(p, g, limit, sized)
        = IF limit = NoLimit \/ perLot = 0 THEN sized ELSE Min({sized, Max({1, limit \div perLot})})
  BY DEF GreekCap, perLot
<1> QED
  BY <1>3, <1>4, MinOfTwo

LEMMA GreeksLower ==
  ASSUME NEW p, Sound(p), QuotesOK, QuoteForOK, NEW sized \in Int
  PROVE  CapLotsByGreeks(p, sized) \in Int /\ CapLotsByGreeks(p, sized) <= sized
<1> DEFINE byVega == GreekCap(p, "vega", Limits.maxTradeVega, sized)
           byBoth == GreekCap(p, "gamma", Limits.maxTradeGamma, byVega)
<1>1. Limits.maxTradeVega \in Int /\ Limits.maxTradeGamma \in Int
  BY SizingAssumption
<1>2. byVega \in Int /\ byVega <= sized
  BY <1>1, GreekCapLowers
<1> HIDE DEF byVega
<1>3. byBoth \in Int /\ byBoth <= byVega
  BY <1>1, <1>2, GreekCapLowers
<1> HIDE DEF byBoth
<1>4. CapLotsByGreeks(p, sized) = sized \/ CapLotsByGreeks(p, sized) = byBoth
  BY DEF CapLotsByGreeks, byVega, byBoth
<1> QED
  BY <1>2, <1>3, <1>4

\* The highest NAV.
LEMMA TopNav == Max(Navs) \in Nat /\ \A nav \in Navs : nav \in Int /\ nav <= Max(Navs)
<1>1. PICK top \in Navs : top >= 0 /\ \A nav \in Navs : nav <= top
  BY SizingAssumption
<1>2. Navs \subseteq Int
  BY SizingAssumption
<1>3. \A nav \in Navs : top >= nav
  BY <1>1, <1>2
<1>4. Max(Navs) \in Navs /\ \A nav \in Navs : Max(Navs) >= nav
  BY <1>3 DEF Max
<1> HIDE DEF Max
<1>5. Max(Navs) \in Int /\ top \in Int /\ Max(Navs) >= top
  BY <1>2, <1>4
<1>6. Max(Navs) \in Nat
  BY <1>1, <1>5
<1>7. \A nav \in Navs : nav \in Int /\ nav <= Max(Navs)
  BY <1>2, <1>4, <1>5
<1> QED
  BY <1>6, <1>7

\* A higher NAV never lowers a budget.
LEMMA BudgetGrows ==
  ASSUME NEW s \in Strategy, NEW a \in Int, NEW b \in Int, a <= b
  PROVE  /\ TradeRiskBudget(s, a) \in Int /\ TradeRiskBudget(s, b) \in Int
         /\ TradeRiskBudget(s, a) <= TradeRiskBudget(s, b)
<1> DEFINE share == Account[s].share
           cap == Account[s].premiumCap
           x == a * share
           y == b * share
<1>1. share \in Nat /\ cap \in Int
  BY SizingAssumption DEF NoLimit
<1> HIDE DEF share, cap
<1>2. x \in Int /\ y \in Int /\ x <= y
  <2>1. (b - a) * share >= 0
    BY <1>1
  <2>2. (b - a) * share = b * share - a * share
    BY <1>1
  <2>3. x \in Int /\ y \in Int
    BY <1>1
  <2> QED
    BY <2>1, <2>2, <2>3
<1> HIDE DEF x, y
<1>3. x \div 10000 \in Int /\ y \div 10000 \in Int /\ x \div 10000 <= y \div 10000
  BY <1>2
<1>4. /\ TradeRiskBudget(s, a) = IF cap # NoLimit /\ cap < x \div 10000 THEN cap ELSE x \div 10000
      /\ TradeRiskBudget(s, b) = IF cap # NoLimit /\ cap < y \div 10000 THEN cap ELSE y \div 10000
  BY DEF TradeRiskBudget, x, y, share, cap
<1> QED
  BY <1>1, <1>3, <1>4

\* Whole lots within a budget cost no more than the budget.
LEMMA WholeLots ==
  ASSUME NEW budget \in Int, NEW perLot \in Nat \ {0}, NEW n \in Int, n <= budget \div perLot
  PROVE  n * perLot <= budget
<1> DEFINE d == budget \div perLot
<1>1. d \in Int /\ d * perLot <= budget
  OBVIOUS
<1> HIDE DEF d
<1>2. (d - n) * perLot >= 0
  BY <1>1 DEF d
<1>3. (d - n) * perLot = d * perLot - n * perLot
  BY <1>1
<1>4. d * perLot \in Int /\ n * perLot \in Int
  BY <1>1
<1> QED
  BY <1>1, <1>2, <1>3, <1>4

\* _size_intent: what the gate approves stays within the budget of the trade.
LEMMA SizeFitsBudget ==
  ASSUME NEW p, Sound(p), QuotesOK, QuoteForOK, NEW nav \in Navs, SizeIntent(p, nav) \in Nat \ {0}
  PROVE  /\ p.perLot > 0
         /\ SizeIntent(p, nav) * p.perLot <= TradeRiskBudget(p.strategy, Max(Navs))
<1> DEFINE n == SizeIntent(p, nav)
           budget == TradeRiskBudget(p.strategy, nav)
           sized == Min({budget \div p.perLot, Account[p.strategy].maxLots})
<1>1. p.strategy \in Strategy /\ p.perLot \in Int
  BY DEF Sound
<1>2. p.perLot > 0
  BY <1>1 DEF SizeIntent
<1>3. n = CapLotsByGreeks(p, sized)
  BY <1>1, <1>2 DEF SizeIntent
<1>4. /\ budget \in Int /\ TradeRiskBudget(p.strategy, Max(Navs)) \in Int
      /\ budget <= TradeRiskBudget(p.strategy, Max(Navs))
  BY <1>1, TopNav, BudgetGrows
<1>5. Account[p.strategy].maxLots \in Int
  BY <1>1, SizingAssumption
<1> HIDE DEF budget
<1>6. budget \div p.perLot \in Int
  BY <1>1, <1>2, <1>4
<1>7. sized \in Int /\ sized <= budget \div p.perLot
  BY <1>5, <1>6, MinOfTwo
<1> HIDE DEF sized
<1>8. n \in Int /\ n <= sized
  BY <1>3, <1>7, GreeksLower
<1> HIDE DEF n
<1>9. n <= budget \div p.perLot
  BY <1>6, <1>7, <1>8
<1>10. n * p.perLot <= budget /\ n * p.perLot \in Int
  BY <1>1, <1>2, <1>4, <1>8, <1>9, WholeLots
<1>11. n * p.perLot <= TradeRiskBudget(p.strategy, Max(Navs))
  BY <1>4, <1>10
<1> QED
  BY <1>2, <1>11 DEF n
-----------------------------------------------------------------------------
(* The types, the limit per strategy and the budget *)

\* A volatility that is sampled is a number.
LEMMA IvIsNumber ==
  ASSUME QuotesOK, NEW u, NEW bucket, NEW spot, NEW t
  PROVE  AtmIvForBucket(u, bucket, spot, t) \in Nat \cup {NoIv}
<1> DEFINE Iv(type) == LET sel == GetAtmStrike(u, type, bucket, spot, 0, t)
                       IN  IF sel = NoStrike THEN NoIv ELSE Ticker[sel.quote].iv
<1>1. ASSUME NEW type PROVE Iv(type) \in Nat \cup {NoIv}
  <2> DEFINE sel == GetAtmStrike(u, type, bucket, spot, 0, t)
  <2>1. ASSUME sel # NoStrike PROVE sel.quote \in DOMAIN Ticker
    <3>1. Picked(sel, u, type, bucket, t)
      BY <2>1, AtmIsPicked
    <3> HIDE DEF sel
    <3> QED
      BY <3>1 DEF Picked, QuotesOK, InstrumentsFor
  <2> HIDE DEF sel
  <2>2. IF sel = NoStrike THEN TRUE ELSE Ticker[sel.quote].iv \in Nat \cup {NoIv}
    BY <2>1, IvAssumption
  <2> QED
    BY <2>2 DEF sel
<1> DEFINE call == Iv("call")
           put == Iv("put")
<1>2. call \in Nat \cup {NoIv} /\ put \in Nat \cup {NoIv}
  BY <1>1
<1>3. AtmIvForBucket(u, bucket, spot, t)
        = CASE call # NoIv /\ put # NoIv -> call + put
            [] call # NoIv /\ put = NoIv -> 2 * call
            [] call = NoIv /\ put # NoIv -> 2 * put
            [] OTHER -> NoIv
  BY DEF AtmIvForBucket
<1> HIDE DEF call, put
<1> QED
  BY <1>2, <1>3 DEF NoIv

LEMMA IvStep ==
  ASSUME QuotesOK, ChainTypeOK, IvTypeOK, SampleStep
  PROVE  IvTypeOK'
<1>1. PICK S \in DueForSample, stored \in BOOLEAN :
        /\ sampledAt' = [u \in Underlying |-> IF u \in S THEN now ELSE sampledAt[u]]
        /\ history' = IF stored
                      THEN [u \in Underlying |->
                              IF u \in S
                              THEN [b \in SampledBuckets |-> WithSample(u, b)]
                              ELSE history[u]]
                      ELSE history
  BY DEF SampleStep, RecordFromChain
<1>2. marks' = marks
  BY DEF SampleStep, RecordFromChain
<1>3. sampledAt' \in [Underlying -> Time \cup {-1}]
  BY <1>1 DEF ChainTypeOK, IvTypeOK
<1>4. ASSUME NEW u \in Underlying, NEW b \in SampledBuckets PROVE WithSample(u, b) \in Seq(Nat)
  <2> DEFINE iv == AtmIvForBucket(u, b, marks[u], now)
  <2>1. iv \in Nat \cup {NoIv}
    BY IvIsNumber
  <2>2. history[u][b] \in Seq(Nat)
    BY DEF IvTypeOK
  <2>3. WithSample(u, b) = IF iv = NoIv THEN history[u][b] ELSE Append(history[u][b], iv)
    BY DEF WithSample
  <2> HIDE DEF iv
  <2> QED
    BY <2>1, <2>2, <2>3
<1>5. history' \in [Underlying -> [SampledBuckets -> Seq(Nat)]]
  BY <1>1, <1>4 DEF IvTypeOK
<1> QED
  BY <1>2, <1>3, <1>5 DEF IvTypeOK

LEMMA ChainStep ==
  ASSUME ChainTypeOK, [Next]_vars
  PROVE  ChainTypeOK'
<1>1. CASE ClockStep
  BY <1>1 DEF ClockStep, TimePasses, chainVars, ChainTypeOK
<1>2. CASE RefreshStep
  <2>1. CASE RefreshSkips \/ RefreshBegins \/ RequestFails
    BY <2>1 DEF RefreshSkips, RefreshBegins, RequestFails, ChainTypeOK
  <2>2. CASE ProductsArrive
    BY <2>2 DEF ProductsArrive, Live, ChainTypeOK
  <2>3. CASE TickersArrive
    <3>1. answers' \in 0 .. MaxAnswers
      BY <2>3, ChainAssumption DEF TickersArrive, ChainTypeOK
    <3> QED
      BY <2>3, <3>1 DEF TickersArrive, ChainTypeOK
  <2> QED
    BY <1>2, <2>1, <2>2, <2>3 DEF RefreshStep
<1>3. CASE SampleStep
  BY <1>3 DEF SampleStep, RecordFromChain, ChainTypeOK
<1>4. CASE MarkMoves \/ TickStep \/ UNCHANGED vars
  <2>1. UNCHANGED <<now, chainVars>>
    BY <1>4 DEF MarkMoves, TickStep, TickBegins, LoadMarket, ExitsRun, EvaluateAll, GateRefuses,
                GateApproves, EntryFills, EntryFails, TickEnds, vars
  <2> QED
    BY <2>1 DEF chainVars, ChainTypeOK
<1> QED
  BY <1>1, <1>2, <1>3, <1>4 DEF Next

LEMMA FeedStep ==
  ASSUME QuotesOK, ChainTypeOK, IvTypeOK, [Next]_vars
  PROVE  IvTypeOK'
<1>1. CASE SampleStep
  BY <1>1, IvStep
<1>2. CASE MarkMoves
  <2>1. marks' \in [Underlying -> Nat \cup {NoPrice}] /\ UNCHANGED <<sampledAt, history>>
    BY <1>2, DeskAssumption DEF MarkMoves, ivVars, IvTypeOK
  <2> QED
    BY <2>1 DEF IvTypeOK
<1>3. CASE ClockStep \/ RefreshStep \/ TickStep \/ UNCHANGED vars
  <2>1. UNCHANGED <<marks, ivVars>>
    BY <1>3 DEF ClockStep, RefreshStep, TickStep, TickBegins, LoadMarket, ExitsRun, EvaluateAll,
                GateRefuses, GateApproves, EntryFills, EntryFails, TickEnds, vars
  <2> QED
    BY <2>1 DEF ivVars, IvTypeOK
<1> QED
  BY <1>1, <1>2, <1>3 DEF Next

\* The approved intent: the gate sized it within the budget, and there was room
\* for it.
Approved ==
  pc = "entry" =>
    /\ lots \in Nat \ {0}
    /\ \A k \in DOMAIN Slots : IsNext(k) =>
         /\ intents[k].perLot > 0
         /\ lots * intents[k].perLot <= TradeRiskBudget(intents[k].strategy, Max(Navs))
         /\ Cardinality(OpenOf(intents[k].strategy)) < Concurrency.maxPerStrategy

WithinBudget(t) == t.risk <= TradeRiskBudget(t.strategy, Max(Navs))

\* What the trades of an account may be.
BookInv ==
  /\ IsFiniteSet(trades)
  /\ \A t \in trades : TradeTypeOK(t) /\ WithinBudget(t)
  /\ \A s \in Strategy : Cardinality(OpenOf(s)) <= Concurrency.maxPerStrategy

LoopInv ==
  /\ pc \in {"waiting", "load", "exits", "evaluate", "gate", "entry"}
  /\ ticks \in 0 .. MaxTicks
  /\ \A t \in rows : TradeTypeOK(t)
  /\ QuoteForOK
  /\ Approved

LimitsInv == ChainTypeOK /\ IvTypeOK /\ BookInv /\ LoopInv

LEMMA LimitsInit == Init => LimitsInv
<1> SUFFICES ASSUME Init PROVE LimitsInv
  OBVIOUS
<1>1. ChainTypeOK
  BY ChainAssumption DEF Init, ChainInit, ChainTypeOK
<1>2. IvTypeOK
  BY DEF Init, IvInit, IvTypeOK
<1>3. BookInv
  BY BooksAssumption DEF Init, BookInv, WithinBudget, OpenOf
<1>4. LoopInv
  BY DeskAssumption DEF Init, LoopInv, QuoteForOK, Approved
<1> QED
  BY <1>1, <1>2, <1>3, <1>4 DEF LimitsInv

\* Only one intent is the next.
LEMMA NextIsOne ==
  ASSUME NEW j \in DOMAIN Slots, NEW k \in DOMAIN Slots, IsNext(j), IsNext(k)
  PROVE  j = k
<1>1. j \in Nat /\ k \in Nat /\ j <= k /\ k <= j
  BY SlotTypes DEF IsNext
<1> QED
  BY <1>1

\* The trades of a strategy, fewer than before or one more.
LEMMA FewerTrades ==
  ASSUME BookInv, trades' \subseteq trades
  PROVE  BookInv'
<1>1. IsFiniteSet(trades')
  BY FS_Subset DEF BookInv
<1>2. ASSUME NEW s \in Strategy PROVE Cardinality(OpenOf(s)') <= Concurrency.maxPerStrategy
  <2>1. OpenOf(s)' \in SUBSET OpenOf(s) /\ OpenOf(s) \in SUBSET trades
    BY DEF OpenOf
  <2>2. IsFiniteSet(OpenOf(s)) /\ IsFiniteSet(OpenOf(s)')
    BY <2>1, FS_Subset DEF BookInv
  <2>3. /\ Cardinality(OpenOf(s)) \in Nat /\ Cardinality(OpenOf(s)') \in Nat
        /\ Cardinality(OpenOf(s)') <= Cardinality(OpenOf(s))
    BY <2>1, <2>2, FS_Subset, FS_CardinalityType
  <2> QED
    BY <2>3, SizingAssumption DEF BookInv
<1> QED
  BY <1>1, <1>2 DEF BookInv, WithinBudget, TradeRiskBudget

LEMMA OneMoreTrade ==
  ASSUME BookInv, NEW t, TradeTypeOK(t), WithinBudget(t), trades' = trades \cup {t},
         Cardinality(OpenOf(t.strategy)) < Concurrency.maxPerStrategy
  PROVE  BookInv'
<1>1. IsFiniteSet(trades')
  BY FS_AddElement DEF BookInv
<1>2. ASSUME NEW s \in Strategy PROVE Cardinality(OpenOf(s)') <= Concurrency.maxPerStrategy
  <2>1. IsFiniteSet(OpenOf(s)) /\ Cardinality(OpenOf(s)) \in Nat
    <3>1. OpenOf(s) \in SUBSET trades
      BY DEF OpenOf
    <3> QED
      BY <3>1, FS_Subset, FS_CardinalityType DEF BookInv
  <2>2. CASE t.strategy = s
    <3>1. OpenOf(s)' = OpenOf(s) \cup {t}
      BY <2>2 DEF OpenOf
    <3>2. Cardinality(OpenOf(s)') <= Cardinality(OpenOf(s)) + 1 /\ Cardinality(OpenOf(s)') \in Nat
      BY <2>1, <3>1, FS_AddElement
    <3> QED
      BY <2>1, <2>2, <3>2, SizingAssumption
  <2>3. CASE t.strategy # s
    <3>1. OpenOf(s)' = OpenOf(s)
      BY <2>3 DEF OpenOf
    <3> QED
      BY <3>1 DEF BookInv
  <2> QED
    BY <2>2, <2>3
<1> QED
  BY <1>1, <1>2 DEF BookInv, WithinBudget, TradeRiskBudget

\* The trade of an approved intent.
LEMMA EntryKeepsBook ==
  ASSUME TickInv, BookInv, Approved, EntryFills
  PROVE  BookInv'
<1>0. PICK k \in DOMAIN Slots :
        /\ IsNext(k)
        /\ \E slip \in [DOMAIN intents[k].legs -> Slips] :
             trades' = trades \cup {TradeOf(intents[k], slip)}
  BY DEF EntryFills
<1>1. PICK slip \in [DOMAIN intents[k].legs -> Slips] :
        IsNext(k) /\ trades' = trades \cup {TradeOf(intents[k], slip)}
  BY <1>0
<1> DEFINE p == intents[k]
           t == TradeOf(p, slip)
<1>2. Sound(p)
  BY <1>1 DEF TickInv, IsNext
<1>3. /\ lots \in Nat \ {0} /\ p.perLot > 0
      /\ lots * p.perLot <= TradeRiskBudget(p.strategy, Max(Navs))
      /\ Cardinality(OpenOf(p.strategy)) < Concurrency.maxPerStrategy
  BY <1>1 DEF Approved, EntryFills
<1> HIDE DEF p
<1>4. /\ t.strategy = p.strategy /\ t.u = p.u /\ t.lots = lots
      /\ \A j \in DOMAIN t.legs : j \in DOMAIN p.legs /\ t.legs[j].inst = p.legs[j].inst
      /\ t.risk = lots * p.perLot
  BY DEF TradeOf
<1> HIDE DEF t
<1>5. lots * p.perLot \in Nat
  <2>1. p.perLot \in Nat
    BY <1>2, <1>3 DEF Sound
  <2> QED
    BY <1>3, <2>1
<1>6. TradeTypeOK(t) /\ WithinBudget(t)
  BY <1>2, <1>3, <1>4, <1>5 DEF TradeTypeOK, WithinBudget, Sound
<1> QED
  BY <1>1, <1>3, <1>4, <1>6, OneMoreTrade DEF p, t

LEMMA GateKeepsLoop ==
  ASSUME QuotesOK, TickInv, LoopInv, GateApproves
  PROVE  LoopInv'
<1>1. PICK k \in DOMAIN Slots, nav \in Navs :
        IsNext(k) /\ Admits(intents[k]) /\ lots' = SizeIntent(intents[k], nav)
  BY DEF GateApproves
<1>2. lots' \in Nat \ {0} /\ pc' = "entry" /\ UNCHANGED <<rows, quoteFor, intents, trades, ticks>>
  BY DEF GateApproves
<1>3. Sound(intents[k])
  BY <1>1 DEF TickInv, IsNext
<1>4. /\ intents[k].perLot > 0
      /\ lots' * intents[k].perLot <= TradeRiskBudget(intents[k].strategy, Max(Navs))
  BY <1>1, <1>2, <1>3, SizeFitsBudget DEF LoopInv
<1>5. Cardinality(OpenOf(intents[k].strategy)) < Concurrency.maxPerStrategy
  BY <1>1 DEF Admits
<1>6. ASSUME NEW j \in DOMAIN Slots, IsNext(j)' PROVE j = k
  <2>1. IsNext(j)
    BY <1>2, <1>6 DEF IsNext
  <2> QED
    BY <1>1, <2>1, NextIsOne
<1>7. ASSUME NEW j \in DOMAIN Slots, IsNext(j)'
      PROVE  /\ intents'[j].perLot > 0
             /\ lots' * intents'[j].perLot <= TradeRiskBudget(intents'[j].strategy, Max(Navs))
             /\ Cardinality(OpenOf(intents[j].strategy)') < Concurrency.maxPerStrategy
  <2>1. j = k /\ intents' = intents
    BY <1>2, <1>6, <1>7
  <2>2. OpenOf(intents[k].strategy)' = OpenOf(intents[k].strategy)
    BY <1>2 DEF OpenOf
  <2> QED
    BY <1>4, <1>5, <2>1, <2>2
<1>8. Approved'
  BY <1>2, <1>7 DEF Approved, OpenOf
<1> QED
  BY <1>2, <1>8 DEF LoopInv, QuoteForOK

LEMMA TickKeepsLimits ==
  ASSUME QuotesOK, TickInv, BookInv, LoopInv, TickStep
  PROVE  BookInv' /\ LoopInv'
<1>1. CASE TickBegins
  <2>1. BookInv'
    BY <1>1, FewerTrades DEF TickBegins
  <2>2. ticks' \in 0 .. MaxTicks
    BY <1>1, DeskAssumption DEF TickBegins, LoopInv
  <2> QED
    BY <1>1, <2>1, <2>2 DEF TickBegins, LoopInv, QuoteForOK, Approved
<1>2. CASE LoadMarket
  <2>1. BookInv'
    BY <1>2, FewerTrades DEF LoadMarket
  <2> DEFINE held == UNION {{t.legs[k].inst : k \in DOMAIN t.legs} : t \in trades}
  <2>2. quoteFor' = [i \in {i \in held : quotes[i] # NoQuote} |-> quotes[i]]
    BY <1>2 DEF LoadMarket
  <2>3. held \subseteq Symbol
    BY DEF BookInv, TradeTypeOK
  <2> HIDE DEF held
  <2>4. QuoteForOK'
    BY <2>2, <2>3 DEF QuoteForOK, QuotesOK
  <2>5. rows' = trades /\ pc' = "exits" /\ ticks' = ticks
    BY <1>2 DEF LoadMarket
  <2> QED
    BY <2>1, <2>4, <2>5 DEF LoopInv, BookInv, Approved
<1>3. CASE ExitsRun
  <2>1. BookInv'
    BY <1>3, FewerTrades DEF ExitsRun
  <2> QED
    BY <1>3, <2>1 DEF ExitsRun, LoopInv, QuoteForOK, Approved
<1>4. CASE EvaluateAll
  <2>1. BookInv'
    BY <1>4, FewerTrades DEF EvaluateAll
  <2>2. pc' = "gate" /\ UNCHANGED <<ticks, rows, quoteFor>>
    BY <1>4 DEF EvaluateAll
  <2> QED
    BY <2>1, <2>2 DEF LoopInv, QuoteForOK, Approved
<1>5. CASE GateRefuses
  <2>1. BookInv'
    BY <1>5, FewerTrades DEF GateRefuses
  <2>2. pc = "gate" /\ UNCHANGED <<pc, ticks, rows, quoteFor>>
    BY <1>5 DEF GateRefuses
  <2> QED
    BY <2>1, <2>2 DEF LoopInv, QuoteForOK, Approved
<1>6. CASE GateApproves
  <2>1. BookInv'
    BY <1>6, FewerTrades DEF GateApproves
  <2> QED
    BY <1>6, <2>1, GateKeepsLoop
<1>7. CASE EntryFills
  <2>1. BookInv'
    BY <1>7, EntryKeepsBook DEF LoopInv
  <2> QED
    BY <1>7, <2>1 DEF EntryFills, LoopInv, QuoteForOK, Approved
<1>8. CASE EntryFails
  <2>1. BookInv'
    BY <1>8, FewerTrades DEF EntryFails
  <2> QED
    BY <1>8, <2>1 DEF EntryFails, LoopInv, QuoteForOK, Approved
<1>9. CASE TickEnds
  <2>1. BookInv'
    BY <1>9, FewerTrades DEF TickEnds
  <2> QED
    BY <1>9, <2>1 DEF TickEnds, LoopInv, QuoteForOK, Approved
<1> QED
  BY <1>1, <1>2, <1>3, <1>4, <1>5, <1>6, <1>7, <1>8, <1>9 DEF TickStep

LEMMA LimitsStep == DeskInv /\ LimitsInv /\ [Next]_vars => LimitsInv'
<1> SUFFICES ASSUME DeskInv, LimitsInv, [Next]_vars PROVE LimitsInv'
  OBVIOUS
<1>1. ChainTypeOK' /\ IvTypeOK'
  BY ChainStep, FeedStep DEF DeskInv, LimitsInv
<1>2. CASE TickStep
  BY <1>1, <1>2, TickKeepsLimits DEF DeskInv, LimitsInv
<1>3. CASE ClockStep \/ RefreshStep \/ SampleStep \/ MarkMoves \/ UNCHANGED vars
  <2>1. UNCHANGED <<pc, rows, quoteFor, intents, lots, trades, ticks>>
    BY <1>3 DEF ClockStep, RefreshStep, SampleStep, MarkMoves, vars, tickVars
  <2>2. BookInv'
    BY <2>1, FewerTrades DEF LimitsInv
  <2>3. Approved'
    BY <2>1 DEF LimitsInv, LoopInv, Approved, IsNext, OpenOf, TradeRiskBudget
  <2> QED
    BY <1>1, <2>1, <2>2, <2>3 DEF LimitsInv, LoopInv, QuoteForOK
<1> QED
  BY <1>2, <1>3 DEF Next

\* TypeOK of Desk.  That a size and a risk are numbers at all needs the whole chain
\* of sizing: quotes, greeks, budget and the proposals.
THEOREM TypeCorrect == Spec => []TypeOK
<1>1. DeskInv /\ LimitsInv => TypeOK
  BY DEF DeskInv, TickInv, LimitsInv, BookInv, LoopInv, TypeOK
<1> QED
  BY DeskInit, DeskStep, LimitsInit, LimitsStep, <1>1, PTL DEF Spec

\* The limits of an account, over all of its life.
AccountWithinLimits ==
  /\ \A s \in Strategy : Cardinality(OpenOf(s)) <= Concurrency.maxPerStrategy
  /\ \A t \in trades : WithinBudget(t)

\* max_per_strategy and the budget of a trade hold at every moment, for any
\* limits: the gate counts and sizes when it approves, the order is filled
\* later, and the chain, the prices and the clock move meanwhile.
THEOREM LimitsAreKept == Spec => []AccountWithinLimits
<1>1. LimitsInv => AccountWithinLimits
  BY DEF LimitsInv, BookInv, AccountWithinLimits
<1> QED
  BY DeskInit, DeskStep, LimitsInit, LimitsStep, <1>1, PTL DEF Spec

\* The risk of no trade or one.
LEMMA RiskOfOne ==
  ASSUME NEW S, NEW b, b.risk \in Int, S = {} \/ S = {b}
  PROVE  LET Risk(t) == t.risk
         IN  MapThenSumSet(Risk, S) = IF S = {} THEN 0 ELSE b.risk
<1> DEFINE Risk(t) == t.risk
           pick(s) == CHOOSE x \in s : TRUE
           G(f) == [s \in SUBSET S |-> IF s = {} THEN 0 ELSE Risk(pick(s)) + f[s \ {pick(s)}]]
           iter == CHOOSE f : f = G(f)
           known == [s \in SUBSET S |-> IF s = {} THEN 0 ELSE b.risk]
<1>1. MapThenSumSet(Risk, S) = iter[S]
  BY DEF MapThenSumSet, MapThenFoldSet
<1>2. \A s \in SUBSET S : s # {} => s = {b} /\ pick(s) = b /\ s \ {b} = {}
  OBVIOUS
<1>3. {} \in SUBSET S /\ S \in SUBSET S
  OBVIOUS
<1>4. known = G(known)
  <2>1. ASSUME NEW s \in SUBSET S PROVE known[s] = G(known)[s]
    <3>1. CASE s = {}
      BY <3>1
    <3>2. CASE s # {}
      BY <1>2, <1>3, <3>2
    <3> QED
      BY <3>1, <3>2
  <2> QED
    BY <2>1
<1> HIDE DEF known
<1>5. iter = G(iter)
  BY <1>4
<1> HIDE DEF iter
<1>6. iter[{}] = 0
  BY <1>3, <1>5
<1>7. CASE S = {b}
  <2>1. pick({b}) = b /\ {b} \ {b} = {}
    OBVIOUS
  <2>2. iter[{b}] = b.risk + iter[{}]
    BY <1>3, <1>5, <1>7, <2>1
  <2> QED
    BY <1>1, <1>6, <1>7, <2>2
<1> QED
  BY <1>1, <1>6, <1>7

\* A budget is not negative.
LEMMA BudgetIsNat ==
  ASSUME NEW s \in Strategy
  PROVE  TradeRiskBudget(s, Max(Navs)) \in Nat
<1> DEFINE share == Account[s].share
           cap == Account[s].premiumCap
           top == Max(Navs)
<1>1. share \in Nat /\ cap \in Nat \cup {NoLimit} /\ top \in Nat
  BY SizingAssumption, TopNav
<1>2. TradeRiskBudget(s, top)
        = IF cap # NoLimit /\ cap < (top * share) \div 10000 THEN cap ELSE (top * share) \div 10000
  BY DEF TradeRiskBudget
<1> HIDE DEF share, cap, top
<1>3. top * share \in Nat
  BY <1>1
<1>4. (top * share) \div 10000 \in Nat
  BY <1>3
<1> QED
  BY <1>1, <1>2, <1>4 DEF top

\* OpenRiskIsBudgeted of Desk.  With max_per_strategy 1, the value of the
\* repository's configuration, all that a strategy has open stays within the
\* budget of one trade; with a higher one the statement is about that many budgets.
THEOREM OpenRiskStaysBudgeted ==
  ASSUME Concurrency.maxPerStrategy = 1
  PROVE  Spec => []OpenRiskIsBudgeted
<1>1. ASSUME LimitsInv PROVE OpenRiskIsBudgeted
  <2>1. ASSUME NEW s \in Strategy
        PROVE  LET Risk(t) == t.risk
               IN  MapThenSumSet(Risk, OpenOf(s)) <= TradeRiskBudget(s, Max(Navs))
    <3>1. OpenOf(s) \in SUBSET trades
      BY DEF OpenOf
    <3>2. IsFiniteSet(OpenOf(s)) /\ Cardinality(OpenOf(s)) \in Nat
      BY <1>1, <3>1, FS_Subset, FS_CardinalityType DEF LimitsInv, BookInv
    <3>3. Cardinality(OpenOf(s)) <= 1
      BY <1>1 DEF LimitsInv, BookInv
    <3>4. Cardinality(OpenOf(s)) = 0 \/ Cardinality(OpenOf(s)) = 1
      BY <3>2, <3>3
    <3>5. CASE Cardinality(OpenOf(s)) = 0
      <4>1. OpenOf(s) = {}
        BY <3>2, <3>5, FS_EmptySet
      <4>2. [risk |-> 0].risk \in Int
        OBVIOUS
      <4>3. LET Risk(t) == t.risk IN MapThenSumSet(Risk, OpenOf(s)) = 0
        BY <4>1, <4>2, RiskOfOne
      <4> QED
        BY <4>3, BudgetIsNat
    <3>6. CASE Cardinality(OpenOf(s)) = 1
      <4>1. PICK b : OpenOf(s) = {b}
        BY <3>2, <3>6, FS_Singleton
      <4>2. b \in trades /\ b.strategy = s
        BY <4>1 DEF OpenOf
      <4>3. b.risk \in Nat /\ b.risk <= TradeRiskBudget(s, Max(Navs))
        BY <1>1, <4>2 DEF LimitsInv, BookInv, TradeTypeOK, WithinBudget
      <4>4. LET Risk(t) == t.risk IN MapThenSumSet(Risk, OpenOf(s)) = b.risk
        BY <4>1, <4>3, RiskOfOne
      <4> QED
        BY <4>3, <4>4
    <3> QED
      BY <3>4, <3>5, <3>6
  <2> QED
    BY <2>1 DEF OpenRiskIsBudgeted
<1> QED
  BY DeskInit, DeskStep, LimitsInit, LimitsStep, <1>1, PTL DEF Spec

=============================================================================
