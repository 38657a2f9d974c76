-------------------------- MODULE MarketDataProofs --------------------------
(***************************************************************************)
(* Types and contiguity of the candle history, and the agreement of the    *)
(* two timeframes, for every length of the history and the queue, every    *)
(* pair of periods, every time zone and any number of times the clock is   *)
(* set back.                                                               *)
(***************************************************************************)
EXTENDS MarketData, SequenceTheorems, TLAPS

\* The buckets of a sequence of candles leave none out; in a strict one none is repeated.
Chain(s, strict) ==
    \A i \in 1..(Len(s) - 1) :
        /\ s[i + 1].bucket <= s[i].bucket + 1
        /\ strict => s[i + 1].bucket = s[i].bucket + 1

\* While the clock was never set back, no candle is ahead of it.
NotAhead(a, period) ==
    backs = 0 /\ a.current # << >> => a.current[1].bucket <= Bucket(clock, period)

-----------------------------------------------------------------------------
(* Operators. *)

\* A later time never falls into an earlier bucket.
LEMMA DivMonotone ==
    ASSUME NEW m \in Int, NEW n \in Int, m <= n, NEW p \in Nat \ {0}
    PROVE  m \div p <= n \div p
<1> DEFINE x == m \div p
           y == n \div p
<1>1. x \in Int /\ y \in Int
    OBVIOUS
<1>2. p * x <= m /\ n < p * y + p
    BY Z3
<1>3. p * x < p * (y + 1)
    <2>1. p * (y + 1) = p * y + p
        BY <1>1, Z3
    <2> HIDE DEF x, y
    <2> QED BY <1>1, <1>2, <2>1
<1>4. x < y + 1
    <2> HIDE DEF x, y
    <2>1. SUFFICES ASSUME x >= y + 1 PROVE FALSE
        BY <1>1
    <2>2. p * x >= p * (y + 1)
        BY <1>1, <2>1, Z3
    <2> QED BY <1>1, <1>3, <2>2
<1> HIDE DEF x, y
<1>5. x <= y
    BY <1>1, <1>4
<1> QED BY <1>5 DEF x, y

\* add_tick's fillers are candles, one for each missing bucket.
LEMMA FillersType ==
    ASSUME NEW c \in Candle, NEW bucket \in Int
    PROVE  /\ Fillers(c, bucket) \in Seq(Candle)
           /\ Len(Fillers(c, bucket)) = Larger(bucket - c.bucket - 1, 0)
           /\ \A i \in 1..Len(Fillers(c, bucket)) :
                 Fillers(c, bucket)[i].bucket = c.bucket + i
<1> DEFINE n == Larger(bucket - c.bucket - 1, 0)
<1>1. n \in Nat
    BY DEF Larger, Candle
<1>2. \A i \in 1..n : Flat(c.bucket + i, c.close) \in Candle
    BY DEF Flat, Candle
<1> QED BY <1>1, <1>2 DEF Fillers, Flat

\* deque(maxlen=history) keeps the end of what it is given.
LEMMA RetainedChain ==
    ASSUME NEW s \in Seq(Candle), Len(s) > 0, NEW strict \in BOOLEAN, Chain(s, strict)
    PROVE  /\ Retained(s) \in Seq(Candle)
           /\ Len(Retained(s)) <= History /\ Len(Retained(s)) > 0
           /\ Retained(s)[Len(Retained(s))] = s[Len(s)]
           /\ Chain(Retained(s), strict)
<1>1. CASE Len(s) <= History
    BY <1>1 DEF Retained
<1>2. CASE Len(s) > History
    <2> DEFINE k == Len(s) - History
    <2>1. Retained(s) = SubSeq(s, k + 1, Len(s)) /\ k \in Nat
        BY <1>2, FeedAssumption DEF Retained
    <2>2. Len(Retained(s)) = History
        BY <1>2, <2>1, FeedAssumption
    <2>3. \A i \in 1..History : Retained(s)[i] = s[i + k]
        BY <1>2, <2>1, FeedAssumption
    <2>4. Retained(s) \in Seq(Candle)
        BY <1>2, <2>1, FeedAssumption
    <2>5. Retained(s)[History] = s[Len(s)]
        BY <2>3, FeedAssumption
    <2>6. Chain(Retained(s), strict)
        <3>1. SUFFICES ASSUME NEW i \in 1..(History - 1)
                       PROVE  /\ Retained(s)[i + 1].bucket <= Retained(s)[i].bucket + 1
                              /\ strict => Retained(s)[i + 1].bucket = Retained(s)[i].bucket + 1
            BY <2>2 DEF Chain
        <3>2. i + k \in 1..(Len(s) - 1)
            BY <2>1, FeedAssumption
        <3>3. Retained(s)[i] = s[i + k] /\ Retained(s)[i + 1] = s[(i + k) + 1]
            BY <2>1, <2>3, FeedAssumption
        <3> QED BY <3>2, <3>3 DEF Chain
    <2> QED BY <2>2, <2>4, <2>5, <2>6, FeedAssumption
<1> QED BY <1>1, <1>2, FeedAssumption

\* A candle that follows the last one can be appended.
LEMMA AppendChain ==
    ASSUME NEW s \in Seq(Candle), Len(s) > 0, NEW strict \in BOOLEAN, Chain(s, strict),
           NEW c \in Candle, c.bucket <= s[Len(s)].bucket + 1,
           strict => c.bucket = s[Len(s)].bucket + 1
    PROVE  Chain(s \o <<c>>, strict)
<1> DEFINE t == s \o <<c>>
<1>1. Len(t) = Len(s) + 1 /\ t[Len(s) + 1] = c
    OBVIOUS
<1>2. \A i \in 1..Len(s) : t[i] = s[i]
    OBVIOUS
<1> HIDE DEF t
<1>3. SUFFICES ASSUME NEW i \in 1..Len(s)
               PROVE  t[i + 1].bucket <= t[i].bucket + 1
                      /\ (strict => t[i + 1].bucket = t[i].bucket + 1)
    BY <1>1 DEF Chain, t
<1>4. CASE i = Len(s)
    BY <1>1, <1>2, <1>4
<1>5. CASE i < Len(s)
    BY <1>2, <1>5 DEF Chain
<1> QED BY <1>4, <1>5

\* The candle that closes and the fillers after it continue the history.
LEMMA FillersChain ==
    ASSUME NEW s \in Seq(Candle), NEW c \in Candle, NEW strict \in BOOLEAN,
           Chain(s \o <<c>>, strict), NEW bucket \in Int
    PROVE  LET t == s \o <<c>> \o Fillers(c, bucket) IN
           /\ t \in Seq(Candle) /\ Len(t) > 0
           /\ bucket > c.bucket => t[Len(t)].bucket = bucket - 1
           /\ bucket <= c.bucket => t[Len(t)].bucket = c.bucket
           /\ Chain(t, strict)
<1> DEFINE u == s \o <<c>>
           f == Fillers(c, bucket)
           t == u \o f
           n == Larger(bucket - c.bucket - 1, 0)
<1>1. /\ n \in Nat /\ c.bucket \in Int
      /\ bucket > c.bucket => n = bucket - c.bucket - 1
      /\ bucket <= c.bucket => n = 0
    BY DEF Larger, Candle
<1>2. f \in Seq(Candle) /\ Len(f) = n /\ \A i \in 1..n : f[i].bucket = c.bucket + i
    BY FillersType
<1>3. u \in Seq(Candle) /\ Len(u) = Len(s) + 1 /\ u[Len(u)] = c /\ Chain(u, strict)
    OBVIOUS
<1> HIDE DEF u, f, n
<1>4. t \in Seq(Candle) /\ Len(t) = Len(u) + n
    <2>1. t \in Seq(Candle)
        BY <1>2, <1>3
    <2>2. Len(t) = Len(u) + Len(f)
        BY <1>2, <1>3, ConcatProperties
    <2> QED BY <1>2, <2>1, <2>2
<1>5. \A i \in 1..Len(u) : t[i] = u[i]
    BY <1>2, <1>3
<1>6. \A i \in 1..n : t[Len(u) + i] = f[i]
    BY <1>1, <1>2, <1>3
<1> HIDE DEF t
<1>7. t[Len(t)].bucket = c.bucket + n
    <2>1. CASE n = 0
        BY <1>1, <1>3, <1>4, <1>5, <2>1
    <2>2. CASE n > 0
        BY <1>1, <1>2, <1>4, <1>6, <2>2
    <2> QED BY <1>1, <2>1, <2>2
<1>8. Chain(t, strict)
    <2>1. SUFFICES ASSUME NEW i \in 1..(Len(t) - 1)
                   PROVE  t[i + 1].bucket <= t[i].bucket + 1
                          /\ (strict => t[i + 1].bucket = t[i].bucket + 1)
        BY DEF Chain
    <2>2. CASE i < Len(u)
        <3>1. t[i] = u[i] /\ t[i + 1] = u[i + 1]
            BY <1>3, <1>5, <2>2
        <3> QED BY <1>3, <2>2, <3>1 DEF Chain
    <2>3. CASE i = Len(u)
        <3>1. t[i] = c /\ t[i + 1].bucket = c.bucket + 1
            <4>1. 1 \in 1..n
                BY <1>1, <1>3, <1>4, <2>3
            <4> QED BY <1>2, <1>3, <1>5, <1>6, <2>3, <4>1
        <3> QED BY <1>1, <3>1
    <2>4. CASE i > Len(u)
        <3> DEFINE j == i - Len(u)
        <3>1. j \in 1..n /\ j + 1 \in 1..n /\ i = Len(u) + j /\ i + 1 = Len(u) + (j + 1)
            BY <1>1, <1>3, <1>4, <2>4
        <3>2. t[i].bucket = c.bucket + j /\ t[i + 1].bucket = c.bucket + (j + 1)
            BY <1>2, <1>6, <3>1
        <3> QED BY <1>1, <3>1, <3>2
    <2> QED BY <1>3, <2>2, <2>3, <2>4
<1> QED BY <1>1, <1>3, <1>4, <1>7, <1>8 DEF t, u, f, n

\* add_tick keeps an aggregator well formed and its history without holes; a history
\* without repetitions stays so if the price does not come from the past.
LEMMA AddTickChain ==
    ASSUME NEW a \in Aggregator, Len(a.closed) <= History, Len(a.current) <= 1,
           a.current = << >> => a.closed = << >>,
           NEW strict \in BOOLEAN, Chain(Candles(a), strict),
           NEW bucket \in Int, NEW price \in Prices,
           strict /\ a.current # << >> => a.current[1].bucket <= bucket
    PROVE  LET b == AddTick(a, bucket, price) IN
           /\ b \in Aggregator
           /\ Len(b.closed) <= History /\ Len(b.current) = 1
           /\ b.current[1].bucket = bucket
           /\ Chain(Candles(b), strict)
<1> DEFINE b == AddTick(a, bucket, price)
<1>0. Flat(bucket, price) \in Candle /\ Flat(bucket, price).bucket = bucket
    BY DEF Flat, Candle
<1>1. CASE a.current = << >>
    <2>1. b = [current |-> <<Flat(bucket, price)>>, closed |-> << >>]
        BY <1>1 DEF AddTick, Aggregator
    <2>2. Candles(b) = <<Flat(bucket, price)>>
        BY <1>0, <2>1 DEF Candles
    <2>3. Chain(Candles(b), strict)
        BY <2>2 DEF Chain
    <2> HIDE DEF b
    <2> QED BY <1>0, <2>1, <2>3, FeedAssumption DEF Aggregator, b
<1>2. CASE a.current # << >>
    <2> DEFINE c == a.current[1]
    <2>1. a.current = <<c>> /\ c \in Candle /\ a.closed \in Seq(Candle) /\ c.bucket \in Int
        <3>1. a.current \in Seq(Candle) /\ a.closed \in Seq(Candle)
            BY DEF Aggregator
        <3>2. Len(a.current) = 1
            <4> DEFINE n == Len(a.current)
            <4>1. n \in Nat \ {0}
                BY <1>2, <3>1, EmptySeq
            <4>2. n <= 1
                OBVIOUS
            <4> HIDE DEF n
            <4>3. n = 1
                BY <4>1, <4>2
            <4> QED BY <4>3 DEF n
        <3>3. a.current = <<c>>
            BY <3>1, <3>2
        <3>4. c \in Candle
            BY <3>1, <3>2
        <3>5. c.bucket \in Int
            BY <3>4 DEF Candle
        <3> QED BY <3>1, <3>3, <3>4, <3>5
    <2>2. Candles(a) = a.closed \o <<c>>
        BY <2>1 DEF Candles
    <2>3. CASE bucket = c.bucket
        <3> DEFINE d == Update(c, price)
        <3>1. d \in Candle /\ d.bucket = bucket
            BY <2>1, <2>3, FeedAssumption DEF Update, Candle, Larger, Smaller
        <3>2. b = [current |-> <<d>>, closed |-> a.closed]
            BY <1>2, <2>3 DEF AddTick, Aggregator
        <3>3. Candles(b) = a.closed \o <<d>>
            BY <3>2 DEF Candles
        <3> HIDE DEF d
        <3>4. Chain(a.closed \o <<d>>, strict)
            <4>1. /\ Len(a.closed \o <<d>>) = Len(a.closed \o <<c>>)
                  /\ \A i \in 1..Len(a.closed \o <<c>>) :
                        (a.closed \o <<d>>)[i].bucket = (a.closed \o <<c>>)[i].bucket
                BY <2>1, <2>3, <3>1
            <4> DEFINE x == a.closed \o <<c>>
                       y == a.closed \o <<d>>
            <4>2. Len(x) \in Nat /\ Chain(x, strict)
                BY <2>1, <2>2
            <4> HIDE DEF x, y
            <4>3. Len(y) = Len(x) /\ \A i \in 1..Len(x) : y[i].bucket = x[i].bucket
                BY <4>1 DEF x, y
            <4>4. Chain(y, strict)
                <5>1. SUFFICES ASSUME NEW i \in 1..(Len(x) - 1)
                               PROVE  /\ y[i + 1].bucket <= y[i].bucket + 1
                                      /\ strict => y[i + 1].bucket = y[i].bucket + 1
                    BY <4>3 DEF Chain
                <5>2. i \in 1..Len(x) /\ i + 1 \in 1..Len(x)
                    BY <4>2
                <5>3. y[i].bucket = x[i].bucket /\ y[i + 1].bucket = x[i + 1].bucket
                    BY <4>3, <5>2
                <5> QED BY <4>2, <5>3 DEF Chain
            <4> QED BY <4>4 DEF y
        <3> HIDE DEF b, c
        <3>5. b \in Aggregator /\ b.closed = a.closed /\ b.current = <<d>>
            BY <2>1, <3>1, <3>2 DEF Aggregator
        <3>6. Len(b.current) = 1 /\ b.current[1].bucket = bucket
            BY <3>1, <3>5
        <3> QED BY <3>3, <3>4, <3>5, <3>6 DEF b
    <2>4. CASE bucket # c.bucket
        <3> DEFINE t == a.closed \o <<c>> \o Fillers(c, bucket)
                   d == Flat(bucket, price)
                   r == Retained(t)
        <3>1. b = [current |-> <<d>>, closed |-> r]
            BY <1>2, <2>4 DEF AddTick
        <3> HIDE DEF c
        <3>2. /\ t \in Seq(Candle) /\ Len(t) > 0
              /\ bucket > c.bucket => t[Len(t)].bucket = bucket - 1
              /\ bucket <= c.bucket => t[Len(t)].bucket = c.bucket
              /\ Chain(t, strict)
            BY <2>1, <2>2, FillersChain
        <3> HIDE DEF t
        <3>3. /\ r \in Seq(Candle) /\ Len(r) <= History /\ Len(r) > 0
              /\ r[Len(r)] = t[Len(t)] /\ Chain(r, strict)
            BY <3>2, RetainedChain
        <3> HIDE DEF r
        <3>4. strict => c.bucket <= bucket
            BY <1>2 DEF c
        <3>5. bucket <= r[Len(r)].bucket + 1 /\ (strict => bucket = r[Len(r)].bucket + 1)
            <4>1. CASE bucket > c.bucket
                <5>1. r[Len(r)].bucket = bucket - 1
                    BY <3>2, <3>3, <4>1
                <5> QED BY <5>1
            <4>2. CASE bucket < c.bucket
                BY <2>1, <3>2, <3>3, <3>4, <4>2
            <4> QED BY <2>1, <2>4, <4>1, <4>2 DEF c
        <3>6. Chain(r \o <<d>>, strict)
            BY <1>0, <3>3, <3>5, AppendChain
        <3> HIDE DEF b, d
        <3>7. Candles(b) = r \o <<d>>
            BY <3>1 DEF Candles
        <3>8. b \in Aggregator /\ b.closed = r /\ b.current = <<d>>
            BY <1>0, <3>1, <3>3 DEF Aggregator, d
        <3>9. Len(b.current) = 1 /\ b.current[1].bucket = bucket
            BY <1>0, <3>8 DEF d
        <3> QED BY <3>3, <3>6, <3>7, <3>8, <3>9 DEF b
    <2> QED BY <2>3, <2>4
<1> QED BY <1>1, <1>2

-----------------------------------------------------------------------------
(* The specification. *)

\* What IInv says of one aggregator.
AggInv(a, period) ==
    /\ a \in Aggregator
    /\ Len(a.closed) <= History /\ Len(a.current) <= 1
    /\ a.current = << >> <=> mark = None
    /\ a.current = << >> => a.closed = << >>
    /\ Chain(Candles(a), backs = 0)
    /\ NotAhead(a, period)

\* A drained price keeps what is known of an aggregator.
LEMMA DrainAgg ==
    ASSUME TypeOK, NEW a, NEW period \in Nat \ {0}, AggInv(a, period),
           NEW price \in Prices
    PROVE  LET b == AddTick(a, Bucket(clock, period), price) IN
           /\ b \in Aggregator
           /\ Len(b.closed) <= History /\ Len(b.current) = 1
           /\ b.current[1].bucket = Bucket(clock, period)
           /\ Chain(Candles(b), backs = 0)
<1>1. Bucket(clock, period) \in Int
    BY FeedAssumption DEF Bucket, TypeOK
<1>2. /\ a \in Aggregator /\ Len(a.closed) <= History /\ Len(a.current) <= 1
      /\ a.current = << >> => a.closed = << >>
      /\ Chain(Candles(a), backs = 0)
      /\ backs = 0 /\ a.current # << >> => a.current[1].bucket <= Bucket(clock, period)
    BY DEF AggInv, NotAhead
<1>3. (backs = 0) \in BOOLEAN
    OBVIOUS
<1> QED BY <1>1, <1>2, <1>3, AddTickChain

\* No bucket is ahead of the clock, also when the clock advances.
LEMMA AdvanceAgg ==
    ASSUME TypeOK, NEW a, NEW period \in Nat \ {0}, AggInv(a, period), backs = 0,
           a.current # << >>
    PROVE  a.current[1].bucket <= Bucket(clock + 1, period)
<1> DEFINE x == clock - Offset
           y == (clock + 1) - Offset
<1>1. x \in Int /\ y \in Int /\ x <= y
    BY FeedAssumption DEF TypeOK
<1>2. Bucket(clock, period) = x \div period /\ Bucket(clock + 1, period) = y \div period
    BY DEF Bucket
<1> HIDE DEF x, y
<1>3. /\ x \div period \in Int /\ y \div period \in Int
      /\ x \div period <= y \div period
    BY <1>1, DivMonotone
<1>4. a.current[1].bucket <= Bucket(clock, period) /\ a.current[1].bucket \in Int
    <2>1. a.current \in Seq(Candle) /\ Len(a.current) \in Nat \ {0}
        BY EmptySeq DEF AggInv, Aggregator
    <2>2. a.current[1] \in Candle
        BY <2>1
    <2> QED BY <2>2 DEF AggInv, NotAhead, Candle
<1> QED BY <1>2, <1>3, <1>4

\* The inductive invariant: what is known of each aggregator, besides the types.
IInv == TypeOK /\ AggInv(short, ShortPeriod) /\ AggInv(long, LongPeriod)

\* Initially both aggregators are empty.
LEMMA InitIInv == Init => IInv
<1> SUFFICES ASSUME Init PROVE IInv
    OBVIOUS
<1>1. EmptyAggregator \in Aggregator
    BY DEF EmptyAggregator, Aggregator
<1>2. Candles(EmptyAggregator) = << >>
    BY DEF EmptyAggregator, Candles
<1>3. EmptyAggregator.current = << >> /\ EmptyAggregator.closed = << >>
    BY DEF EmptyAggregator
<1>4. TypeOK
    BY <1>1, <1>3, FeedAssumption DEF Init, TypeOK, Messages
<1>5. ASSUME NEW period
      PROVE  AggInv(EmptyAggregator, period)
    BY <1>1, <1>2, <1>3, FeedAssumption DEF Init, AggInv, NotAhead, Chain
<1> QED BY <1>4, <1>5 DEF IInv, Init

\* A step that leaves prices and clock alone keeps what is known of the aggregators.
LEMMA AggUnchanged ==
    ASSUME AggInv(short, ShortPeriod), AggInv(long, LongPeriod),
           UNCHANGED <<clock, mark, short, long, backs>>
    PROVE  AggInv(short, ShortPeriod)' /\ AggInv(long, LongPeriod)'
BY DEF AggInv, NotAhead, Bucket, Chain, Candles

\* A drained price.
LEMMA DrainPriceIInv == IInv /\ DrainPrice => IInv'
<1> SUFFICES ASSUME IInv, DrainPrice PROVE IInv'
    OBVIOUS
<1> DEFINE price == Head(queue)
<1>1. TypeOK /\ AggInv(short, ShortPeriod) /\ AggInv(long, LongPeriod)
    BY DEF IInv
<1>2. /\ queue \in Seq(Messages) /\ Len(queue) <= QueueSize /\ queue # << >>
      /\ price # None /\ queue' = Tail(queue) /\ mark' = price
      /\ short' = AddTick(short, Bucket(clock, ShortPeriod), price)
      /\ long' = AddTick(long, Bucket(clock, LongPeriod), price)
      /\ UNCHANGED <<conn, backoff, clock, backs>>
    BY <1>1 DEF DrainPrice, TypeOK, Other
<1>3. price \in Messages /\ Tail(queue) \in Seq(Messages) /\ Len(Tail(queue)) = Len(queue) - 1
    BY <1>2, HeadTailProperties
<1>4. price \in Prices
    BY <1>2, <1>3 DEF Messages, Other
<1>5. Len(queue') <= QueueSize
    BY <1>2, <1>3, FeedAssumption
<1> HIDE DEF price
<1>6. /\ short' \in Aggregator /\ Len(short'.closed) <= History /\ Len(short'.current) = 1
      /\ short'.current[1].bucket = Bucket(clock, ShortPeriod)
      /\ Chain(Candles(short'), backs = 0)
    BY <1>1, <1>2, <1>4, DrainAgg, FeedAssumption
<1>7. /\ long' \in Aggregator /\ Len(long'.closed) <= History /\ Len(long'.current) = 1
      /\ long'.current[1].bucket = Bucket(clock, LongPeriod)
      /\ Chain(Candles(long'), backs = 0)
    BY <1>1, <1>2, <1>4, DrainAgg, FeedAssumption
<1>8. mark' # None /\ short'.current # << >> /\ long'.current # << >>
    BY <1>2, <1>6, <1>7
<1>9. TypeOK'
    <2>1. /\ conn' \in {"connecting", "up", "waiting"}
          /\ backoff' \in InitialBackoff..MaxBackoff
          /\ queue' \in Seq(Messages)
          /\ clock' \in 0..EndTime /\ backs' \in 0..MaxBack
          /\ mark' \in Prices \union {None}
        BY <1>1, <1>2, <1>3, <1>4 DEF TypeOK
    <2>2. /\ short' \in Aggregator /\ Len(short'.closed) <= History /\ Len(short'.current) <= 1
          /\ short'.current = << >> <=> mark' = None
        BY <1>6, <1>8
    <2>3. /\ long' \in Aggregator /\ Len(long'.closed) <= History /\ Len(long'.current) <= 1
          /\ long'.current = << >> <=> mark' = None
        BY <1>7, <1>8
    <2> QED BY <1>5, <2>1, <2>2, <2>3 DEF TypeOK
<1>10. \A period \in {ShortPeriod, LongPeriod} : Bucket(clock, period) \in Int
    BY <1>1, FeedAssumption DEF Bucket, TypeOK
<1>11. AggInv(short, ShortPeriod)'
    <2>1. Bucket(clock', ShortPeriod) = Bucket(clock, ShortPeriod)
        BY <1>2
    <2>2. short'.current[1].bucket <= Bucket(clock', ShortPeriod)
        BY <1>6, <1>10, <2>1
    <2>3. Chain(Candles(short'), backs' = 0)
        BY <1>2, <1>6
    <2>4. Len(short'.current) <= 1
        BY <1>6
    <2> QED BY <1>6, <1>8, <2>2, <2>3, <2>4 DEF AggInv, NotAhead
<1>12. AggInv(long, LongPeriod)'
    <2>1. Bucket(clock', LongPeriod) = Bucket(clock, LongPeriod)
        BY <1>2
    <2>2. long'.current[1].bucket <= Bucket(clock', LongPeriod)
        BY <1>7, <1>10, <2>1
    <2>3. Chain(Candles(long'), backs' = 0)
        BY <1>2, <1>7
    <2>4. Len(long'.current) <= 1
        BY <1>7
    <2> QED BY <1>7, <1>8, <2>2, <2>3, <2>4 DEF AggInv, NotAhead
<1> QED BY <1>9, <1>11, <1>12 DEF IInv

\* The wall clock.
LEMMA ClockIInv == IInv /\ (Advance \/ SetBack) => IInv'
<1> SUFFICES ASSUME IInv, Advance \/ SetBack PROVE IInv'
    OBVIOUS
<1>1. TypeOK /\ AggInv(short, ShortPeriod) /\ AggInv(long, LongPeriod)
    BY DEF IInv
<1>2. TypeOK'
    <2>1. clock' \in 0..EndTime /\ backs' \in 0..MaxBack
        BY <1>1, FeedAssumption DEF Advance, SetBack, TypeOK
    <2>2. UNCHANGED <<conn, backoff, queue, mark, short, long>>
        BY DEF Advance, SetBack
    <2> QED BY <1>1, <2>1, <2>2 DEF TypeOK
<1>3. CASE Advance
    <2>1. UNCHANGED <<mark, short, long, backs>> /\ clock' = clock + 1
        BY <1>3 DEF Advance
    <2>2. AggInv(short, ShortPeriod)'
        <3>1. NotAhead(short, ShortPeriod)'
            BY <1>1, <2>1, AdvanceAgg, FeedAssumption DEF NotAhead, Bucket
        <3> QED BY <1>1, <2>1, <3>1 DEF AggInv, Chain, Candles
    <2>3. AggInv(long, LongPeriod)'
        <3>1. NotAhead(long, LongPeriod)'
            BY <1>1, <2>1, AdvanceAgg, FeedAssumption DEF NotAhead, Bucket
        <3> QED BY <1>1, <2>1, <3>1 DEF AggInv, Chain, Candles
    <2> QED BY <1>2, <2>2, <2>3 DEF IInv
<1>4. CASE SetBack
    <2>1. UNCHANGED <<mark, short, long>> /\ backs' # 0
        BY <1>1, <1>4 DEF SetBack, TypeOK
    <2>2. AggInv(short, ShortPeriod)' /\ AggInv(long, LongPeriod)'
        BY <1>1, <2>1 DEF AggInv, NotAhead, Chain, Candles
    <2> QED BY <1>2, <2>2 DEF IInv
<1> QED BY <1>3, <1>4

\* Every step keeps the inductive invariant.
LEMMA NextIInv == IInv /\ [Next]_vars => IInv'
<1> SUFFICES ASSUME IInv, [Next]_vars PROVE IInv'
    OBVIOUS
<1>0. TypeOK /\ AggInv(short, ShortPeriod) /\ AggInv(long, LongPeriod)
    BY DEF IInv
<1>1. ASSUME TypeOK', UNCHANGED <<clock, mark, short, long, backs>>
      PROVE  IInv'
    BY <1>0, <1>1, AggUnchanged DEF IInv
<1>2. CASE Connect \/ ConnectionLost
    BY <1>0, <1>1, <1>2 DEF Connect, ConnectionLost, TypeOK
<1>3. CASE WaitEnds
    <2>1. backoff' \in InitialBackoff..MaxBackoff
        BY <1>0, <1>3, FeedAssumption DEF WaitEnds, TypeOK, Larger, Smaller
    <2> QED BY <1>0, <1>1, <1>3, <2>1 DEF WaitEnds, TypeOK
<1>4. CASE \E msg \in Messages : Receive(msg)
    <2>1. PICK msg \in Messages : Receive(msg)
        BY <1>4
    <2>2. queue' \in Seq(Messages) /\ Len(queue') <= QueueSize
        BY <1>0, <2>1, FeedAssumption DEF Receive, TypeOK
    <2> QED BY <1>0, <1>1, <2>1, <2>2 DEF Receive, TypeOK
<1>5. CASE DrainOther
    <2>1. queue' \in Seq(Messages) /\ Len(queue') <= QueueSize
        BY <1>0, <1>5, HeadTailProperties, FeedAssumption DEF DrainOther, TypeOK
    <2> QED BY <1>0, <1>1, <1>5, <2>1 DEF DrainOther, TypeOK
<1>6. CASE DrainPrice
    BY <1>6, DrainPriceIInv
<1>7. CASE Advance \/ SetBack
    BY <1>7, ClockIInv
<1>8. CASE UNCHANGED vars
    BY <1>0, <1>1, <1>8 DEF vars, TypeOK
<1> QED BY <1>2, <1>3, <1>4, <1>5, <1>6, <1>7, <1>8 DEF Next, Run, Drain

\* The inductive invariant of the feed and its candles.
THEOREM InductiveInvariant == Spec => []IInv
BY InitIInv, NextIInv, PTL DEF Spec

\* TypeOK: the queue and the histories stay within their sizes, the backoff within its
\* bounds.
THEOREM TypeCorrect == Spec => []TypeOK
<1>1. IInv => TypeOK
    BY DEF IInv
<1> QED BY <1>1, InductiveInvariant, PTL

\* Contiguous: add_tick leaves no hole in the history, and repeats no bucket unless the
\* clock was set back.
THEOREM HistoryIsContiguous == Spec => []Contiguous
<1>1. IInv => Contiguous
    BY DEF IInv, AggInv, Chain, Contiguous
<1> QED BY <1>1, InductiveInvariant, PTL
-----------------------------------------------------------------------------
(* The two timeframes: arithmetic. *)

\* The long bucket that a short one lies in.
Hour(bucket) == (bucket * ShortPeriod) \div LongPeriod

\* What a quotient is.
LEMMA Quotient ==
    ASSUME NEW n \in Int, NEW p \in Nat \ {0}
    PROVE  n \div p \in Int /\ p * (n \div p) <= n /\ n < p * (n \div p) + p
BY Z3

\* A factor that is positive cancels.
LEMMA Cancel ==
    ASSUME NEW a \in Int, NEW b \in Int, NEW p \in Nat \ {0}
    PROVE  /\ p * a \in Int /\ p * b \in Int
           /\ a <= b <=> p * a <= p * b
           /\ a < b <=> p * a < p * b
<1>1. p * a \in Int /\ p * b \in Int
    OBVIOUS
<1>2. a <= b => p * a <= p * b
    BY Z3
<1>3. a < b => p * a < p * b
    BY Z3
<1>4. b <= a => p * b <= p * a
    BY Z3
<1>5. b < a => p * b < p * a
    BY Z3
<1> QED BY <1>1, <1>2, <1>3, <1>4, <1>5

\* There is only one quotient.
LEMMA QuotientIs ==
    ASSUME NEW n \in Int, NEW p \in Nat \ {0}, NEW q \in Int, p * q <= n, n < p * q + p
    PROVE  n \div p = q
<1> DEFINE d == n \div p
<1>1. d \in Int /\ p * d <= n /\ n < p * d + p
    BY Quotient
<1> HIDE DEF d
<1>2. p * (d + 1) = p * d + p /\ p * (q + 1) = p * q + p
    BY <1>1, Z3
<1>3. p * d \in Int /\ p * q \in Int
    BY <1>1
<1>4. p * d < p * (q + 1) /\ p * q < p * (d + 1)
    BY <1>1, <1>2, <1>3
<1>5. d < q + 1 /\ q < d + 1
    BY <1>1, <1>4, Cancel
<1> QED BY <1>1, <1>5 DEF d

LEMMA HourType == ASSUME NEW b \in Int PROVE Hour(b) \in Int
<1> DEFINE n == b * ShortPeriod
<1>1. n \in Int
    BY FeedAssumption
<1> HIDE DEF n
<1>2. n \div LongPeriod \in Int
    BY <1>1, Quotient, FeedAssumption
<1> QED BY <1>2 DEF Hour, n

\* A later bucket lies in no earlier hour.
LEMMA HourMonotone ==
    ASSUME NEW a \in Int, NEW b \in Int, a <= b
    PROVE  Hour(a) <= Hour(b)
<1> DEFINE m == a * ShortPeriod
           n == b * ShortPeriod
<1>1. ShortPeriod * a <= ShortPeriod * b
    BY Cancel, FeedAssumption
<1>2. m \in Int /\ n \in Int /\ m <= n
    BY <1>1, FeedAssumption
<1> HIDE DEF m, n
<1>3. m \div LongPeriod <= n \div LongPeriod
    BY <1>2, DivMonotone, FeedAssumption
<1> QED BY <1>3 DEF Hour, m, n

\* A bucket begins no earlier than the hour that it lies in.
LEMMA HourBegins ==
    ASSUME NEW a \in Int, NEW b \in Int, NEW h \in Int, Hour(b) = h,
           a * ShortPeriod <= h * LongPeriod
    PROVE  a <= b
<1> DEFINE n == b * ShortPeriod
<1>1. n \in Int
    BY FeedAssumption
<1>2. n \div LongPeriod = h
    BY DEF Hour
<1> HIDE DEF n
<1>3. LongPeriod * h <= n
    BY <1>1, <1>2, Quotient, FeedAssumption
<1>4. /\ ShortPeriod * a = a * ShortPeriod /\ ShortPeriod * b = n /\ LongPeriod * h = h * LongPeriod
      /\ a * ShortPeriod \in Int /\ h * LongPeriod \in Int
    BY FeedAssumption DEF n
<1>5. ShortPeriod * a <= ShortPeriod * b
    BY <1>1, <1>3, <1>4
<1> QED BY <1>5, Cancel, FeedAssumption

\* A long period is a number of short ones.
LEMMA Ratio == \E r \in Nat : LongPeriod = ShortPeriod * r
<1> DEFINE r == LongPeriod \div ShortPeriod
<1>1. LongPeriod = ShortPeriod * (LongPeriod \div ShortPeriod) + (LongPeriod % ShortPeriod)
    BY FeedAssumption, Z3
<1>2. r \in Nat
    BY FeedAssumption, Z3
<1>3. LongPeriod = ShortPeriod * r
    BY <1>1, <1>2, FeedAssumption
<1> HIDE DEF r
<1> QED BY <1>2, <1>3

\* Every hour has a short bucket with which it begins.
LEMMA HourHasBucket ==
    ASSUME NEW h \in Int
    PROVE  \E b \in Int : Hour(b) = h
<1>1. PICK r \in Nat : LongPeriod = ShortPeriod * r
    BY Ratio
<1> DEFINE b == r * h
           n == b * ShortPeriod
<1>2. b \in Int /\ n \in Int
    BY FeedAssumption
<1>3. n = LongPeriod * h
    <2>1. (r * h) * ShortPeriod = (ShortPeriod * r) * h
        BY FeedAssumption, Z3
    <2> QED BY <1>1, <2>1
<1> HIDE DEF n
<1>4. LongPeriod * h <= n /\ n < LongPeriod * h + LongPeriod
    BY <1>2, <1>3, FeedAssumption
<1>5. n \div LongPeriod = h
    BY <1>2, <1>4, QuotientIs, FeedAssumption
<1>6. Hour(b) = h
    BY <1>5 DEF Hour, n
<1> HIDE DEF b
<1> QED BY <1>2, <1>6

\* The two buckets of one instant belong together.
LEMMA BucketsTogether ==
    ASSUME NEW time \in Int
    PROVE  Hour(Bucket(time, ShortPeriod)) = Bucket(time, LongPeriod)
<1>1. PICK r \in Nat : LongPeriod = ShortPeriod * r
    BY Ratio
<1> DEFINE x == time - Offset
           b == x \div ShortPeriod
           h == x \div LongPeriod
           n == b * ShortPeriod
<1>2. x \in Int
    BY FeedAssumption
<1>3. Bucket(time, ShortPeriod) = b /\ Bucket(time, LongPeriod) = h
    BY DEF Bucket
<1> HIDE DEF x
<1>4. b \in Int /\ ShortPeriod * b <= x /\ x < ShortPeriod * b + ShortPeriod
    BY <1>2, Quotient, FeedAssumption
<1>5. h \in Int /\ LongPeriod * h <= x /\ x < LongPeriod * h + LongPeriod
    BY <1>2, Quotient, FeedAssumption
<1> HIDE DEF b, h
<1>6. n = ShortPeriod * b /\ n \in Int
    BY <1>4, FeedAssumption
<1> HIDE DEF n
<1>7. LongPeriod * h = ShortPeriod * (r * h)
    <2>1. (ShortPeriod * r) * h = ShortPeriod * (r * h)
        BY <1>5, FeedAssumption, Z3
    <2> QED BY <1>1, <2>1
<1>8. r * h <= b
    <2>1. ShortPeriod * (b + 1) = ShortPeriod * b + ShortPeriod
        BY <1>4, FeedAssumption, Z3
    <2>2. r * h \in Int /\ b + 1 \in Int /\ ShortPeriod * (r * h) \in Int
        BY <1>4, <1>5, FeedAssumption
    <2>3. ShortPeriod * (r * h) < ShortPeriod * (b + 1)
        BY <1>2, <1>4, <1>5, <1>6, <1>7, <2>1, <2>2, FeedAssumption
    <2>4. r * h < b + 1
        BY <2>2, <2>3, Cancel, FeedAssumption
    <2> HIDE DEF b
    <2> QED BY <1>4, <2>2, <2>4
<1>9. LongPeriod * h <= n
    <2>1. r * h \in Int
        BY <1>5
    <2>2. ShortPeriod * (r * h) <= ShortPeriod * b
        BY <1>4, <1>8, <2>1, Cancel, FeedAssumption
    <2> QED BY <1>6, <1>7, <2>2
<1>10. n < LongPeriod * h + LongPeriod
    BY <1>2, <1>4, <1>5, <1>6, FeedAssumption
<1>11. n \div LongPeriod = h
    BY <1>5, <1>6, <1>9, <1>10, QuotientIs, FeedAssumption
<1> QED BY <1>3, <1>11 DEF Hour, n
-----------------------------------------------------------------------------
(* The two timeframes: one aggregator. *)

\* An aggregator with a current candle, whose closed ones are dated by their places.
Dated(a) ==
    /\ a \in Aggregator /\ Len(a.current) = 1
    /\ \A i \in 1..Len(a.closed) :
          a.closed[i].bucket = a.current[1].bucket - (Len(a.closed) + 1 - i)

LEMMA CandlesOf ==
    ASSUME NEW a, Dated(a)
    PROVE  /\ Range(Candles(a)) = Range(a.closed) \union {a.current[1]}
           /\ Candles(a)[1].bucket = a.current[1].bucket - Len(a.closed)
           /\ a.current[1] \in Candle /\ a.current[1].bucket \in Int /\ Len(a.closed) \in Nat
           /\ \A x \in Range(a.closed) : x \in Candle /\ x.bucket \in Int
                                          /\ x.bucket < a.current[1].bucket
<1> DEFINE s == a.closed
           t == a.current
           u == s \o t
           n == Len(s)
<1>0. s \in Seq(Candle) /\ t \in Seq(Candle) /\ Len(t) = 1
    BY DEF Dated, Aggregator
<1>1. n \in Nat
    BY <1>0
<1>2. \A i \in 1..n : s[i].bucket = t[1].bucket - (n + 1 - i)
    BY DEF Dated
<1>u. u = Candles(a)
    BY DEF Candles
<1>3. n = Len(s)
    OBVIOUS
<1> HIDE DEF s, t, n
<1>4. t[1] \in Candle /\ t[1].bucket \in Int
    <2>1. 1 \in 1..Len(t)
        BY <1>0
    <2>2. t[1] \in Candle
        BY <1>0, <2>1, ElementOfSeq
    <2> QED BY <2>2 DEF Candle
<1>5. \A i \in 1..n : s[i] \in Candle /\ s[i].bucket = t[1].bucket - (n + 1 - i)
    <2>1. ASSUME NEW i \in 1..n PROVE s[i] \in Candle
        BY <1>0, <1>3, ElementOfSeq
    <2> QED BY <1>2, <2>1
<1>6. /\ Len(u) = n + 1 /\ \A i \in 1..(n + 1) : u[i] = IF i <= n THEN s[i] ELSE t[i - n]
      /\ DOMAIN u = 1..(n + 1) /\ DOMAIN s = 1..n
    <2>1. Len(u) = n + 1
        <3>1. Len(u) = Len(s) + Len(t)
            BY <1>0, ConcatProperties
        <3>2. Len(t) = 1
            BY <1>0
        <3> QED BY <1>3, <3>1, <3>2
    <2>2. u \in Seq(Candle)
        BY <1>0, ConcatProperties
    <2>3. ASSUME NEW i \in 1..(n + 1) PROVE u[i] = IF i <= n THEN s[i] ELSE t[i - n]
        BY <1>0, <1>3, <2>1, ConcatProperties
    <2>4. DOMAIN u = 1..Len(u) /\ DOMAIN s = 1..Len(s)
        BY <1>0, <2>2
    <2> QED BY <1>3, <2>1, <2>3, <2>4
<1> HIDE DEF u
<1>7. Range(u) = Range(s) \union {t[1]}
    <2>1. ASSUME NEW x \in Range(u) PROVE x \in Range(s) \union {t[1]}
        <3>1. PICK i \in 1..(n + 1) : x = u[i]
            BY <1>6 DEF Range
        <3>2. CASE i <= n
            BY <1>1, <1>6, <3>1, <3>2 DEF Range
        <3>3. CASE i = n + 1
            BY <1>1, <1>6, <3>1, <3>3
        <3> QED BY <1>1, <3>2, <3>3
    <2>2. ASSUME NEW x \in Range(s) PROVE x \in Range(u)
        <3>1. PICK i \in 1..n : x = s[i]
            BY <1>6 DEF Range
        <3>2. i \in 1..(n + 1) /\ x = u[i]
            BY <1>1, <1>6, <3>1
        <3> QED BY <1>6, <3>2 DEF Range
    <2>3. t[1] \in Range(u)
        <3>1. n + 1 \in 1..(n + 1) /\ u[n + 1] = t[1]
            BY <1>1, <1>6
        <3> QED BY <1>6, <3>1 DEF Range
    <2> QED BY <2>1, <2>2, <2>3
<1>8. u[1].bucket = t[1].bucket - n
    BY <1>1, <1>4, <1>5, <1>6
<1>9. ASSUME NEW x \in Range(s) PROVE x \in Candle /\ x.bucket \in Int /\ x.bucket < t[1].bucket
    <2>1. PICK i \in 1..n : x = s[i]
        BY <1>6 DEF Range
    <2>2. x \in Candle /\ x.bucket = t[1].bucket - (n + 1 - i)
        BY <1>5, <2>1
    <2> QED BY <1>1, <1>4, <2>1, <2>2 DEF Candle
<1> QED BY <1>1, <1>4, <1>u, <1>7, <1>8, <1>9 DEF s, t, n

\* A price in the bucket of the current candle.
LEMMA TickSame ==
    ASSUME NEW a, Dated(a), NEW price \in Prices, NEW bucket, bucket = a.current[1].bucket
    PROVE  LET b == AddTick(a, bucket, price) IN
           /\ Dated(b) /\ b.closed = a.closed
           /\ b.current[1] = Update(a.current[1], price)
<1> DEFINE c == a.current[1]
           d == Update(c, price)
           b == AddTick(a, bucket, price)
<1>1. c \in Candle /\ a.current # << >>
    BY CandlesOf DEF Dated
<1>2. b = [current |-> <<d>>, closed |-> a.closed]
    BY <1>1 DEF AddTick, Dated, Aggregator
<1>3. d \in Candle /\ d.bucket = c.bucket
    BY <1>1, FeedAssumption DEF Update, Candle, Larger, Smaller
<1> HIDE DEF c, d, b
<1>4. b.closed = a.closed /\ b.current = <<d>>
    BY <1>2
<1>5. b \in Aggregator
    BY <1>2, <1>3 DEF Dated, Aggregator
<1>6. Dated(b)
    BY <1>3, <1>4, <1>5 DEF Dated, c
<1> QED BY <1>4, <1>6 DEF b, c, d

\* What is in the history after a price in a later bucket, before the oldest are dropped.
Extended(a, bucket) ==
    Range(a.closed) \union {a.current[1]}
      \union {Flat(i, a.current[1].close) : i \in (a.current[1].bucket + 1)..(bucket - 1)}

LEMMA ExtendedIs ==
    ASSUME NEW a, Dated(a), NEW bucket \in Int, bucket > a.current[1].bucket
    PROVE  LET c == a.current[1]
               t == a.closed \o <<c>> \o Fillers(c, bucket)
           IN /\ t \in Seq(Candle)
              /\ Len(t) = Len(a.closed) + bucket - c.bucket
              /\ \A i \in 1..Len(t) : t[i].bucket = c.bucket - (Len(a.closed) + 1) + i
              /\ Range(t) = Extended(a, bucket)
<1> DEFINE c == a.current[1]
           s == a.closed
           f == Fillers(c, bucket)
           u == s \o <<c>>
           t == u \o f
           n == Len(s)
           k == bucket - c.bucket - 1
<1>1. c \in Candle /\ c.bucket \in Int /\ n \in Nat /\ s \in Seq(Candle)
    BY CandlesOf DEF Dated, Aggregator
<1>2. f \in Seq(Candle) /\ Len(f) = k /\ k \in Nat
    BY <1>1, FillersType DEF Larger
<1>3. \A i \in 1..k : f[i] = Flat(c.bucket + i, c.close)
    BY <1>1, <1>2 DEF Fillers, Larger
<1>4. \A i \in 1..n : s[i].bucket = c.bucket - (n + 1 - i)
    BY DEF Dated
<1>5. u \in Seq(Candle) /\ Len(u) = n + 1 /\ u[n + 1] = c /\ \A i \in 1..n : u[i] = s[i]
    BY <1>1
<1>6. DOMAIN s = 1..n
    BY <1>1
<1>7. Extended(a, bucket)
        = Range(s) \union {c} \union {Flat(i, c.close) : i \in (c.bucket + 1)..(bucket - 1)}
    BY DEF Extended
<1> HIDE DEF c, s, f, u, n
<1>8. t \in Seq(Candle) /\ Len(t) = (n + 1) + k
    <2>1. t \in Seq(Candle)
        BY <1>2, <1>5
    <2>2. Len(t) = Len(u) + Len(f)
        BY <1>2, <1>5, ConcatProperties
    <2> QED BY <1>2, <1>5, <2>1, <2>2
<1>9. /\ \A i \in 1..n : t[i] = s[i]
      /\ t[n + 1] = c
      /\ \A i \in 1..k : t[(n + 1) + i] = Flat(c.bucket + i, c.close)
    <2>1. \A i \in 1..(n + 1) : t[i] = u[i]
        BY <1>1, <1>2, <1>5
    <2>2. \A i \in 1..k : t[(n + 1) + i] = f[i]
        BY <1>1, <1>2, <1>5
    <2> HIDE DEF t
    <2> QED BY <1>1, <1>3, <1>5, <2>1, <2>2
<1>10. DOMAIN t = 1..((n + 1) + k)
    BY <1>8
<1>n. n \in Nat /\ c.bucket \in Int /\ k \in Nat
    BY <1>1, <1>2
<1>k. k = bucket - c.bucket - 1
    OBVIOUS
<1> HIDE DEF t, k
<1>11. ASSUME NEW i \in 1..((n + 1) + k)
       PROVE  \/ i \in 1..n \/ i = n + 1 \/ \E j \in 1..k : i = (n + 1) + j
    <2>1. CASE i > n + 1
        <3>1. i - (n + 1) \in 1..k /\ i = (n + 1) + (i - (n + 1))
            BY <1>1, <1>2, <2>1
        <3> QED BY <3>1
    <2> QED BY <1>1, <2>1
<1>12. ASSUME NEW i \in 1..((n + 1) + k) PROVE t[i].bucket = c.bucket - (n + 1) + i
    <2>1. CASE i \in 1..n
        <3>1. t[i].bucket = c.bucket - (n + 1 - i)
            BY <1>4, <1>9, <2>1
        <3> QED BY <1>1, <2>1, <3>1
    <2>2. CASE i = n + 1
        BY <1>1, <1>9, <2>2
    <2>3. ASSUME NEW j \in 1..k, i = (n + 1) + j PROVE t[i].bucket = c.bucket - (n + 1) + i
        <3>1. Flat(c.bucket + j, c.close).bucket = c.bucket + j
            BY DEF Flat
        <3>2. t[i].bucket = c.bucket + j
            BY <1>9, <2>3, <3>1
        <3> QED BY <1>1, <1>2, <2>3, <3>2
    <2> QED BY <1>11, <2>1, <2>2, <2>3
<1>13. ASSUME NEW x \in Range(t) PROVE x \in Extended(a, bucket)
    <2>1. PICK i \in 1..((n + 1) + k) : x = t[i]
        BY <1>10 DEF Range
    <2>2. CASE i \in 1..n
        BY <1>6, <1>7, <1>9, <2>1, <2>2 DEF Range
    <2>3. CASE i = n + 1
        BY <1>7, <1>9, <2>1, <2>3
    <2>4. ASSUME NEW j \in 1..k, i = (n + 1) + j PROVE x \in Extended(a, bucket)
        <3>1. c.bucket + j \in (c.bucket + 1)..(bucket - 1)
            BY <1>1, <1>2, <1>k
        <3>2. x = Flat(c.bucket + j, c.close)
            BY <1>9, <2>1, <2>4
        <3> QED BY <1>7, <3>1, <3>2
    <2> QED BY <1>11, <2>2, <2>3, <2>4
<1>14. ASSUME NEW x \in Extended(a, bucket) PROVE x \in Range(t)
    <2>1. CASE x \in Range(s)
        <3>1. PICK i \in 1..n : x = s[i]
            BY <1>6, <2>1 DEF Range
        <3>2. i \in 1..((n + 1) + k) /\ x = t[i]
            BY <1>1, <1>2, <1>9, <3>1
        <3> QED BY <1>10, <3>2 DEF Range
    <2>2. CASE x = c
        <3>1. n + 1 \in 1..((n + 1) + k) /\ x = t[n + 1]
            BY <1>1, <1>2, <1>9, <2>2
        <3> QED BY <1>10, <3>1 DEF Range
    <2>3. ASSUME NEW i \in (c.bucket + 1)..(bucket - 1), x = Flat(i, c.close) PROVE x \in Range(t)
        <3> DEFINE j == i - c.bucket
        <3>1. j \in 1..k /\ i = c.bucket + j /\ (n + 1) + j \in 1..((n + 1) + k)
            BY <1>n, <1>k, <2>3
        <3> HIDE DEF j
        <3>2. x = t[(n + 1) + j]
            BY <1>9, <2>3, <3>1
        <3> QED BY <1>10, <3>1, <3>2 DEF Range
    <2> QED BY <1>7, <1>14, <2>1, <2>2, <2>3
<1>15. Len(t) = n + bucket - c.bucket
    <2>1. (n + 1) + k = n + bucket - c.bucket
        BY <1>n, <1>k
    <2> QED BY <1>8, <2>1
<1>16. Range(t) = Extended(a, bucket)
    BY <1>13, <1>14
<1>17. \A i \in 1..Len(t) : t[i].bucket = c.bucket - (n + 1) + i
    BY <1>8, <1>12
<1> QED BY <1>8, <1>15, <1>16, <1>17 DEF t, u, f, c, s, n

\* A price in a later bucket.
LEMMA TickLater ==
    ASSUME NEW a, Dated(a), NEW price \in Prices, NEW bucket \in Int, bucket > a.current[1].bucket
    PROVE  LET b == AddTick(a, bucket, price) IN
           /\ Dated(b) /\ b.current[1] = Flat(bucket, price)
           /\ Range(b.closed) \subseteq Extended(a, bucket)
           /\ \A x \in Extended(a, bucket) :
                 x.bucket >= bucket - Len(b.closed) => x \in Range(b.closed)
           /\ Len(b.closed) < History =>
                 Extended(a, bucket) \subseteq Range(b.closed) /\ Len(a.closed) < History
           /\ a.current[1].bucket - Len(a.closed) <= bucket - Len(b.closed)
<1> DEFINE c == a.current[1]
           t == a.closed \o <<c>> \o Fillers(c, bucket)
           d == Flat(bucket, price)
           r == Retained(t)
           b == AddTick(a, bucket, price)
           n == Len(a.closed)
           z == Len(t)
<1>1. c \in Candle /\ c.bucket \in Int /\ n \in Nat /\ a.current # << >> /\ bucket > c.bucket
    BY CandlesOf DEF Dated
<1>2. b = [current |-> <<d>>, closed |-> r]
    BY <1>1 DEF AddTick
<1>3. /\ t \in Seq(Candle) /\ z = n + bucket - c.bucket
      /\ \A i \in 1..z : t[i].bucket = c.bucket - (n + 1) + i
      /\ Range(t) = Extended(a, bucket)
    BY ExtendedIs
<1>4. d \in Candle /\ d.bucket = bucket
    BY DEF Flat, Candle
<1> HIDE DEF c, t, d, b, n
<1>5. DOMAIN t = 1..z /\ z \in Nat \ {0}
    BY <1>1, <1>3
<1>z. z \in Nat \ {0} /\ n \in Nat /\ c.bucket \in Int
    BY <1>1, <1>5
<1>6. b.closed = r /\ b.current[1] = d
    BY <1>2
<1>7. ASSUME r \in Seq(Candle), \A i \in 1..Len(r) : r[i].bucket = bucket - (Len(r) + 1 - i)
      PROVE  Dated(b)
    <2> HIDE DEF r
    <2>1. b \in Aggregator /\ Len(b.current) = 1
        BY <1>2, <1>4, <1>7 DEF Aggregator
    <2> QED BY <1>4, <1>6, <1>7, <2>1 DEF Dated
<1>8. CASE z <= History
    <2>1. r = t
        BY <1>8 DEF Retained
    <2> HIDE DEF r, z
    <2>2. Len(r) = z
        BY <2>1 DEF z
    <2>3. Dated(b)
        BY <1>1, <1>3, <1>5, <1>7, <2>1, <2>2
    <2>4. n < z /\ c.bucket - n <= bucket - z
        BY <1>1, <1>3
    <2>5. z < History => n < History
        BY <1>1, <1>5, <2>4, FeedAssumption
    <2> QED BY <1>3, <1>6, <2>1, <2>2, <2>3, <2>4, <2>5 DEF b, d, c, n
<1>9. CASE z > History
    <2> DEFINE k == z - History
    <2>1. r = SubSeq(t, k + 1, z) /\ k \in Nat
        BY <1>5, <1>9, FeedAssumption DEF Retained
    <2>2. Len(r) = History /\ r \in Seq(Candle) /\ \A i \in 1..History : r[i] = t[i + k]
        <3> HIDE DEF r, z
        <3>1. k + 1 \in 1..z /\ k + History = z /\ z - (k + 1) + 1 = History
            BY <1>9, <1>z, FeedAssumption
        <3>z. z = Len(t)
            BY DEF z
        <3> HIDE DEF k
        <3>2. r \in Seq(Candle) /\ Len(r) = z - (k + 1) + 1
            BY <1>3, <1>5, <2>1, <3>1, <3>z
        <3>3. Len(r) = History
            BY <3>1, <3>2
        <3>4. \A i \in 1..History : r[i] = t[i + k]
            BY <1>3, <1>5, <2>1, <3>1, <3>z, FeedAssumption
        <3> QED BY <3>2, <3>3, <3>4
    <2>k. k = z - History /\ z = n + bucket - c.bucket
        BY <1>3
    <2> HIDE DEF r, z, k
    <2>3. DOMAIN r = 1..History
        BY <2>2
    <2>4. \A i \in 1..History : i + k \in 1..z
        BY <1>9, <1>z, <2>k, FeedAssumption
    <2>5. Dated(b)
        <3>1. ASSUME NEW i \in 1..History PROVE r[i].bucket = bucket - (History + 1 - i)
            <4>1. r[i].bucket = c.bucket - (n + 1) + (i + k)
                BY <1>3, <2>2, <2>4
            <4>2. c.bucket - (n + 1) + (i + k) = bucket - (History + 1 - i)
                <5> DEFINE e == c.bucket
                <5>1. e \in Int /\ n \in Nat /\ i \in Int /\ History \in Int
                    BY <1>z, FeedAssumption
                <5>2. k = (n + bucket - e) - History
                    BY <2>k
                <5> HIDE DEF e
                <5>3. e - (n + 1) + (i + k) = bucket - (History + 1 - i)
                    BY <5>1, <5>2
                <5> QED BY <5>3 DEF e
            <4> QED BY <4>1, <4>2
        <3> QED BY <1>7, <2>2, <3>1
    <2>6. Range(r) \subseteq Extended(a, bucket)
        <3>1. ASSUME NEW x \in Range(r) PROVE x \in Range(t)
            <4>1. PICK i \in 1..History : x = r[i]
                BY <2>3 DEF Range
            <4>2. x = t[i + k] /\ i + k \in 1..z
                BY <2>2, <2>4, <4>1
            <4> QED BY <1>5, <4>2 DEF Range
        <3> QED BY <1>3, <3>1
    <2>7. ASSUME NEW x \in Extended(a, bucket), x.bucket >= bucket - History PROVE x \in Range(r)
        <3>1. PICK i \in 1..z : x = t[i]
            BY <1>3, <1>5 DEF Range
        <3>2. x.bucket = c.bucket - (n + 1) + i
            BY <1>3, <3>1
        <3>3. i - k \in 1..History /\ (i - k) + k = i
            <4>1. c.bucket - (n + 1) + i >= bucket - History
                BY <2>7, <3>2
            <4> QED BY <1>9, <1>z, <2>k, <4>1, FeedAssumption
        <3>4. x = r[i - k]
            BY <2>2, <3>1, <3>3
        <3> QED BY <2>3, <3>3, <3>4 DEF Range
    <2>8. c.bucket - n <= bucket - History
        BY <1>9, <1>z, <2>k, FeedAssumption
    <2>9. ~ (Len(r) < History)
        BY <2>2, FeedAssumption
    <2> QED BY <1>6, <2>2, <2>5, <2>6, <2>7, <2>8, <2>9 DEF b, d, c, n
<1> QED BY <1>5, <1>8, <1>9, FeedAssumption
-----------------------------------------------------------------------------
(* The two timeframes: what may be added to the quarters of an hour. *)

\* The numbers in a candle.
LEMMA CandleFields ==
    ASSUME NEW c \in Candle
    PROVE  c.bucket \in Int /\ c.high \in Int /\ c.low \in Int /\ c.close \in Prices
<1>1. c.bucket \in Int /\ c.high \in Prices /\ c.low \in Prices /\ c.close \in Prices
    BY DEF Candle
<1>2. Prices \subseteq Int
    BY FeedAssumption
<1> QED BY <1>1, <1>2

IsFlat(q) == q = Flat(q.bucket, q.close)

\* Quarters without prices that follow.
LEMMA StoryFilled ==
    ASSUME NEW c, NEW Q, NEW F, SameStory(Q, c), \A f \in F : f = Flat(f.bucket, c.close)
    PROVE  SameStory(Q \union F, c)
<1>1. ASSUME NEW f \in F PROVE f.close = c.close /\ IsFlat(f)
    <2>1. f = Flat(f.bucket, c.close)
        OBVIOUS
    <2>2. Flat(f.bucket, c.close).close = c.close
        BY DEF Flat
    <2> QED BY <2>1, <2>2 DEF IsFlat
<1>2. ASSUME NEW q \in Q \union F, \A o \in Q \union F : o.bucket <= q.bucket
      PROVE  q.close = c.close
    BY <1>1, <1>2 DEF SameStory
<1> QED BY <1>1, <1>2 DEF SameStory, IsFlat

\* Quarters without prices and one with the first price of its own.
LEMMA StoryGoesOn ==
    ASSUME NEW c \in Candle, NEW Q, NEW F, SameStory(Q, c), Q \subseteq Candle,
           \A f \in F : IsFlat(f),
           NEW price \in Prices, NEW bucket \in Int,
           \A x \in Q \union F : x.bucket \in Int /\ x.bucket < bucket
    PROVE  SameStory(Q \union F \union {Flat(bucket, price)}, Update(c, price))
<1> DEFINE n == Flat(bucket, price)
           d == Update(c, price)
           R == Q \union F \union {n}
<1>1. n.bucket = bucket /\ n.high = price /\ n.low = price /\ n.close = price /\ IsFlat(n)
    BY DEF Flat, IsFlat
<1>2. c.high \in Int /\ c.low \in Int /\ price \in Int
    BY CandleFields, FeedAssumption
<1>3. d.high = Larger(c.high, price) /\ d.low = Smaller(c.low, price) /\ d.close = price
    BY DEF Update, Candle
<1>4. /\ d.high \in Int /\ d.low \in Int
      /\ d.high >= c.high /\ d.high >= price /\ d.low <= c.low /\ d.low <= price
      /\ d.high = c.high \/ d.high = price
      /\ d.low = c.low \/ d.low = price
    BY <1>2, <1>3 DEF Larger, Smaller
<1> HIDE DEF n, d
<1>5. ASSUME NEW q \in R, \A o \in R : o.bucket <= q.bucket PROVE q.close = d.close
    <2>1. n.bucket <= q.bucket
        BY <1>5
    <2>2. q = n
        BY <1>1, <2>1
    <2> QED BY <1>1, <1>3, <2>2
<1>6. \E q \in R : q.high >= d.high
    <2>1. CASE d.high = price
        BY <1>1, <1>2, <2>1
    <2>2. CASE d.high = c.high
        BY <2>2 DEF SameStory
    <2> QED BY <1>4, <2>1, <2>2
<1>7. \E q \in R : q.low <= d.low
    <2>1. CASE d.low = price
        BY <1>1, <1>2, <2>1
    <2>2. CASE d.low = c.low
        BY <2>2 DEF SameStory
    <2> QED BY <1>4, <2>1, <2>2
<1>8. ASSUME NEW q \in R PROVE Inside(q, d) \/ IsFlat(q)
    <2>1. ASSUME q \in Q, Inside(q, c) PROVE Inside(q, d)
        <3>1. q.high \in Int /\ q.low \in Int
            BY <2>1, CandleFields
        <3> QED BY <1>2, <1>4, <2>1, <3>1 DEF Inside
    <2>2. q \in Q => Inside(q, c) \/ IsFlat(q)
        BY DEF SameStory, IsFlat
    <2> QED BY <1>1, <2>1, <2>2
<1>9. R # {}
    OBVIOUS
<1>10. SameStory(R, d)
    BY <1>5, <1>6, <1>7, <1>8, <1>9 DEF SameStory, IsFlat
<1> QED BY <1>10 DEF n, d

\* Another price in the last quarter.
LEMMA StoryUpdated ==
    ASSUME NEW c \in Candle, NEW q \in Candle, NEW Q, SameStory(Q \union {q}, c),
           Q \subseteq Candle, Inside(q, c), NEW price \in Prices,
           \A x \in Q : x.bucket \in Int /\ x.bucket < q.bucket
    PROVE  /\ SameStory(Q \union {Update(q, price)}, Update(c, price))
           /\ Inside(Update(q, price), Update(c, price))
<1> DEFINE n == Update(q, price)
           d == Update(c, price)
           R == Q \union {n}
<1>1. c.high \in Int /\ c.low \in Int /\ q.high \in Int /\ q.low \in Int /\ price \in Int
    BY CandleFields, FeedAssumption
<1>2. /\ n.bucket = q.bucket /\ n.close = price
      /\ n.high = Larger(q.high, price) /\ n.low = Smaller(q.low, price)
    BY DEF Update, Candle
<1>3. d.high = Larger(c.high, price) /\ d.low = Smaller(c.low, price) /\ d.close = price
    BY DEF Update, Candle
<1>4. /\ d.high \in Int /\ d.low \in Int
      /\ d.high >= c.high /\ d.high >= price /\ d.low <= c.low /\ d.low <= price
      /\ d.high = c.high \/ d.high = price
      /\ d.low = c.low \/ d.low = price
    BY <1>1, <1>3 DEF Larger, Smaller
<1>5. /\ n.high \in Int /\ n.low \in Int
      /\ n.high >= q.high /\ n.high >= price /\ n.low <= q.low /\ n.low <= price
    BY <1>1, <1>2 DEF Larger, Smaller
<1>6. Inside(n, d)
    BY <1>1, <1>2, <1>3 DEF Inside, Larger, Smaller
<1>b. q.bucket \in Int
    BY CandleFields
<1> HIDE DEF n, d
<1>7. ASSUME NEW x \in R, \A o \in R : o.bucket <= x.bucket PROVE x.close = d.close
    <2>1. q.bucket <= x.bucket
        BY <1>2, <1>7
    <2>2. x = n
        BY <1>b, <2>1
    <2> QED BY <1>2, <1>3, <2>2
<1>8. \E x \in R : x.high >= d.high
    <2>1. CASE d.high = price
        BY <1>5, <2>1
    <2>2. CASE d.high = c.high
        <3>1. PICK x \in Q \union {q} : x.high >= c.high
            BY DEF SameStory
        <3>2. CASE x = q
            BY <1>1, <1>5, <2>2, <3>1, <3>2
        <3> QED BY <2>2, <3>1, <3>2
    <2> QED BY <1>4, <2>1, <2>2
<1>9. \E x \in R : x.low <= d.low
    <2>1. CASE d.low = price
        BY <1>5, <2>1
    <2>2. CASE d.low = c.low
        <3>1. PICK x \in Q \union {q} : x.low <= c.low
            BY DEF SameStory
        <3>2. CASE x = q
            BY <1>1, <1>5, <2>2, <3>1, <3>2
        <3> QED BY <2>2, <3>1, <3>2
    <2> QED BY <1>4, <2>1, <2>2
<1>10. ASSUME NEW x \in R PROVE Inside(x, d) \/ IsFlat(x)
    <2>1. ASSUME x \in Q, Inside(x, c) PROVE Inside(x, d)
        <3>1. x.high \in Int /\ x.low \in Int
            BY <2>1, CandleFields
        <3> QED BY <1>1, <1>4, <2>1, <3>1 DEF Inside
    <2>2. x \in Q => Inside(x, c) \/ IsFlat(x)
        BY DEF SameStory, IsFlat
    <2> QED BY <1>6, <2>1, <2>2
<1>11. R # {}
    OBVIOUS
<1>12. SameStory(R, d)
    BY <1>7, <1>8, <1>9, <1>10, <1>11 DEF SameStory, IsFlat
<1> QED BY <1>6, <1>12 DEF n, d

\* An hour without prices.
LEMMA StoryOfSilence ==
    ASSUME NEW Q, Q # {}, NEW price \in Prices, NEW bucket,
           \A q \in Q : q = Flat(q.bucket, price)
    PROVE  SameStory(Q, Flat(bucket, price))
<1> DEFINE c == Flat(bucket, price)
<1>1. price \in Int
    BY FeedAssumption
<1>2. c.high = price /\ c.low = price /\ c.close = price
    BY DEF Flat
<1>3. ASSUME NEW q \in Q PROVE q.high = price /\ q.low = price /\ q.close = price /\ IsFlat(q)
    <2>1. q = Flat(q.bucket, price)
        OBVIOUS
    <2> DEFINE f == Flat(q.bucket, price)
    <2>2. f.high = price /\ f.low = price /\ f.close = price
        BY DEF Flat
    <2> HIDE DEF f
    <2>3. q = f
        BY <2>1 DEF f
    <2> QED BY <2>1, <2>2, <2>3 DEF IsFlat
<1> HIDE DEF c
<1>4. PICK q \in Q : TRUE
    OBVIOUS
<1>5. q.high >= c.high /\ q.low <= c.low
    BY <1>1, <1>2, <1>3
<1>6. SameStory(Q, c)
    BY <1>2, <1>3, <1>5 DEF SameStory, IsFlat
<1> QED BY <1>6 DEF c

\* An hour that begins with quarters without prices.
LEMMA StoryBegins ==
    ASSUME NEW F, \A f \in F : IsFlat(f), NEW price \in Prices, NEW bucket \in Int, NEW hour,
           \A x \in F : x.bucket \in Int /\ x.bucket < bucket
    PROVE  SameStory(F \union {Flat(bucket, price)}, Flat(hour, price))
<1> DEFINE c == Flat(hour, price)
           n == Flat(bucket, price)
           R == F \union {n}
<1>1. price \in Int
    BY FeedAssumption
<1>2. c.high = price /\ c.low = price /\ c.close = price
    BY DEF Flat
<1>3. n.bucket = bucket /\ n.high = price /\ n.low = price /\ n.close = price /\ IsFlat(n)
    BY DEF Flat, IsFlat
<1> HIDE DEF c, n
<1>4. ASSUME NEW q \in R, \A o \in R : o.bucket <= q.bucket PROVE q.close = c.close
    <2>1. n.bucket <= q.bucket
        BY <1>4
    <2>2. q = n
        BY <1>3, <2>1
    <2> QED BY <1>2, <1>3, <2>2
<1>5. n \in R /\ n.high >= c.high /\ n.low <= c.low
    BY <1>1, <1>2, <1>3
<1>6. SameStory(R, c)
    BY <1>3, <1>4, <1>5 DEF SameStory, IsFlat
<1> QED BY <1>6 DEF c, n
-----------------------------------------------------------------------------
(* The two timeframes: a price goes to both. *)

\* Quarters, Covered and the agreement, of any two aggregators.
QuartersIn(s, c) == {q \in Range(Candles(s)) : Hour(q.bucket) = c.bucket}

CoveredIn(s, c) ==
    \/ Len(s.closed) < History
    \/ Candles(s)[1].bucket * ShortPeriod <= c.bucket * LongPeriod

Agree(s, l) ==
    \A c \in Range(Candles(l)) : CoveredIn(s, c) => SameStory(QuartersIn(s, c), c)

\* The two current candles belong together.
Together(s, l) ==
    /\ Dated(s) /\ Dated(l)
    /\ Hour(s.current[1].bucket) = l.current[1].bucket
    /\ s.current[1].close = l.current[1].close
    /\ Inside(s.current[1], l.current[1])

\* What the extended history holds.
LEMMA ExtendedFacts ==
    ASSUME NEW a, Dated(a), NEW bucket \in Int, bucket > a.current[1].bucket
    PROVE  \A x \in Extended(a, bucket) :
              /\ x \in Candle /\ x.bucket \in Int /\ x.bucket < bucket
              /\ x \in Range(a.closed) \/ x.bucket >= a.current[1].bucket
              /\ x \in Range(a.closed) \union {a.current[1]} \/ x = Flat(x.bucket, a.current[1].close)
<1> DEFINE c == a.current[1]
<1>1. /\ c \in Candle /\ c.bucket \in Int
      /\ \A x \in Range(a.closed) : x \in Candle /\ x.bucket \in Int /\ x.bucket < c.bucket
    BY CandlesOf
<1>c. c.close \in Prices
    BY <1>1, CandleFields
<1>2. ASSUME NEW i \in (c.bucket + 1)..(bucket - 1)
      PROVE  /\ Flat(i, c.close) \in Candle /\ Flat(i, c.close).bucket = i
             /\ i \in Int /\ i < bucket /\ i >= c.bucket
             /\ Flat(i, c.close) = Flat(Flat(i, c.close).bucket, c.close)
    <2>1. i \in Int /\ i < bucket /\ i >= c.bucket
        BY <1>1
    <2> QED BY <1>c, <2>1 DEF Flat, Candle
<1>3. ASSUME NEW x \in Extended(a, bucket)
      PROVE  x \in Range(a.closed) \/ x = c
               \/ \E i \in (c.bucket + 1)..(bucket - 1) : x = Flat(i, c.close)
    BY DEF Extended
<1>4. bucket > c.bucket
    OBVIOUS
<1> HIDE DEF c
<1>5. ASSUME NEW x \in Extended(a, bucket)
      PROVE  /\ x \in Candle /\ x.bucket \in Int /\ x.bucket < bucket
             /\ x \in Range(a.closed) \/ x.bucket >= c.bucket
             /\ x \in Range(a.closed) \union {c} \/ x = Flat(x.bucket, c.close)
    <2>1. CASE x \in Range(a.closed)
        BY <1>1, <1>4, <2>1
    <2>2. CASE x = c
        BY <1>1, <1>4, <2>2
    <2>3. ASSUME NEW i \in (c.bucket + 1)..(bucket - 1), x = Flat(i, c.close)
          PROVE  /\ x \in Candle /\ x.bucket \in Int /\ x.bucket < bucket /\ x.bucket >= c.bucket
                 /\ x = Flat(x.bucket, c.close)
        BY <1>2, <2>3
    <2> QED BY <1>3, <2>1, <2>2, <2>3
<1> QED BY <1>5 DEF c

\* An hour that is covered after a price was so before, and none of its quarters is lost.
LEMMA Kept ==
    ASSUME NEW s, Dated(s), NEW price \in Prices, NEW bucket \in Int,
           bucket > s.current[1].bucket, NEW d, d.bucket \in Int,
           CoveredIn(AddTick(s, bucket, price), d)
    PROVE  /\ CoveredIn(s, d)
           /\ QuartersIn(AddTick(s, bucket, price), d)
                = {x \in Extended(s, bucket) \union {Flat(bucket, price)} :
                     Hour(x.bucket) = d.bucket}
<1> DEFINE b == AddTick(s, bucket, price)
           E == Extended(s, bucket)
           n == Flat(bucket, price)
           e == bucket - Len(b.closed)
           z == s.current[1].bucket - Len(s.closed)
           h == d.bucket * LongPeriod
<1>1. /\ Dated(b) /\ b.current[1] = n
      /\ Range(b.closed) \subseteq E
      /\ \A x \in E : x.bucket >= e => x \in Range(b.closed)
      /\ Len(b.closed) < History => E \subseteq Range(b.closed) /\ Len(s.closed) < History
      /\ z <= e
    BY TickLater
<1> HIDE DEF b, E
<1>2. Range(Candles(b)) = Range(b.closed) \union {n} /\ Candles(b)[1].bucket = n.bucket - Len(b.closed)
    BY <1>1, CandlesOf
<1>3. n.bucket = bucket
    BY DEF Flat
<1>4. Candles(b)[1].bucket = e
    BY <1>2, <1>3
<1>5. Candles(s)[1].bucket = z
    BY CandlesOf
<1>6. e \in Int /\ z \in Int /\ h \in Int
    <2>1. Len(b.closed) \in Nat /\ Len(s.closed) \in Nat /\ s.current[1].bucket \in Int
        BY <1>1, CandlesOf
    <2> QED BY <2>1, FeedAssumption
<1> HIDE DEF e, z, h, n
<1>7. Len(b.closed) < History \/ e * ShortPeriod <= h
    BY <1>4 DEF CoveredIn, b, h
<1>8. z * ShortPeriod <= e * ShortPeriod
    <2>1. ShortPeriod * z <= ShortPeriod * e
        BY <1>1, <1>6, Cancel, FeedAssumption
    <2> QED BY <1>6, <2>1, FeedAssumption
<1>9. CoveredIn(s, d)
    <2>1. CASE Len(b.closed) < History
        BY <1>1, <2>1 DEF CoveredIn
    <2>2. CASE e * ShortPeriod <= h
        <3>1. z * ShortPeriod \in Int /\ e * ShortPeriod \in Int
            BY <1>6, FeedAssumption
        <3>2. z * ShortPeriod <= h
            BY <1>6, <1>8, <2>2, <3>1
        <3> QED BY <1>5, <3>2 DEF CoveredIn, h
    <2> QED BY <1>7, <2>1, <2>2
<1>10. ASSUME NEW x \in E, Hour(x.bucket) = d.bucket PROVE x \in Range(b.closed)
    <2>1. CASE Len(b.closed) < History
        BY <1>1, <2>1
    <2>2. CASE e * ShortPeriod <= h
        <3>1. x.bucket \in Int
            BY ExtendedFacts DEF E
        <3>2. e <= x.bucket
            BY <1>6, <1>10, <2>2, <3>1, HourBegins DEF h
        <3>3. x.bucket >= e
            BY <1>6, <3>1, <3>2
        <3> QED BY <1>1, <3>3
    <2> QED BY <1>7, <2>1, <2>2
<1>11. QuartersIn(b, d) = {x \in E \union {n} : Hour(x.bucket) = d.bucket}
    BY <1>1, <1>2, <1>10 DEF QuartersIn
<1> QED BY <1>9, <1>11 DEF b, E, n

\* A price in the quarter of the one before.
LEMMA SameQuarter ==
    ASSUME NEW s, NEW l, Together(s, l), Agree(s, l), NEW price \in Prices,
           NEW bucket \in Int, bucket = s.current[1].bucket
    PROVE  LET s2 == AddTick(s, bucket, price)
               l2 == AddTick(l, Hour(bucket), price)
           IN Together(s2, l2) /\ Agree(s2, l2)
<1> DEFINE q == s.current[1]
           c == l.current[1]
           s2 == AddTick(s, bucket, price)
           l2 == AddTick(l, Hour(bucket), price)
<1>1. Dated(s2) /\ s2.closed = s.closed /\ s2.current[1] = Update(q, price)
    BY TickSame DEF Together
<1>2. Dated(l2) /\ l2.closed = l.closed /\ l2.current[1] = Update(c, price)
    BY TickSame DEF Together
<1>3. /\ q \in Candle /\ q.bucket \in Int
      /\ Range(Candles(s)) = Range(s.closed) \union {q}
      /\ Candles(s)[1].bucket = q.bucket - Len(s.closed)
      /\ \A x \in Range(s.closed) : x \in Candle /\ x.bucket \in Int /\ x.bucket < q.bucket
    BY CandlesOf DEF Together
<1>4. /\ c \in Candle /\ c.bucket \in Int
      /\ Range(Candles(l)) = Range(l.closed) \union {c}
      /\ \A x \in Range(l.closed) : x \in Candle /\ x.bucket \in Int /\ x.bucket < c.bucket
    BY CandlesOf DEF Together
<1>5. Hour(q.bucket) = c.bucket /\ Inside(q, c)
    BY DEF Together
<1> HIDE DEF s2, l2, q, c
<1>6. Update(q, price).bucket = q.bucket /\ Update(q, price).close = price
    BY <1>3 DEF Update, Candle
<1>7. Update(c, price).bucket = c.bucket /\ Update(c, price).close = price
    BY <1>4 DEF Update, Candle
<1>8. /\ Range(Candles(s2)) = Range(s.closed) \union {Update(q, price)}
      /\ Candles(s2)[1].bucket = q.bucket - Len(s.closed)
    BY <1>1, <1>6, CandlesOf
<1>9. Range(Candles(l2)) = Range(l.closed) \union {Update(c, price)}
    BY <1>2, CandlesOf
<1>10. ASSUME NEW d PROVE CoveredIn(s2, d) <=> CoveredIn(s, d)
    BY <1>1, <1>3, <1>8 DEF CoveredIn
<1> DEFINE Q == {x \in Range(s.closed) : Hour(x.bucket) = c.bucket}
<1>11. QuartersIn(s, c) = Q \union {q}
    BY <1>3, <1>5 DEF QuartersIn
<1>12. QuartersIn(s2, Update(c, price)) = Q \union {Update(q, price)}
    BY <1>5, <1>6, <1>7, <1>8 DEF QuartersIn
<1>13. \A x \in Q : x \in Candle /\ x.bucket \in Int /\ x.bucket < q.bucket
    BY <1>3
<1> HIDE DEF Q
<1>14. CoveredIn(s2, Update(c, price)) => CoveredIn(s, c)
    <2>1. CoveredIn(s2, Update(c, price)) <=> CoveredIn(s2, c)
        BY <1>7 DEF CoveredIn
    <2> QED BY <1>10, <2>1
<1>15. CoveredIn(s2, Update(c, price))
         => SameStory(QuartersIn(s2, Update(c, price)), Update(c, price))
    <2> SUFFICES ASSUME CoveredIn(s2, Update(c, price))
                 PROVE  SameStory(QuartersIn(s2, Update(c, price)), Update(c, price))
        OBVIOUS
    <2>1. SameStory(Q \union {q}, c)
        BY <1>4, <1>11, <1>14 DEF Agree
    <2>2. SameStory(Q \union {Update(q, price)}, Update(c, price))
        BY <1>3, <1>4, <1>5, <1>13, <2>1, StoryUpdated
    <2> QED BY <1>12, <2>2
<1>16. Inside(Update(q, price), Update(c, price))
    <2>1. c.high \in Int /\ c.low \in Int /\ q.high \in Int /\ q.low \in Int /\ price \in Int
        BY <1>3, <1>4, CandleFields, FeedAssumption
    <2>2. /\ Update(q, price).high = Larger(q.high, price)
          /\ Update(q, price).low = Smaller(q.low, price)
          /\ Update(c, price).high = Larger(c.high, price)
          /\ Update(c, price).low = Smaller(c.low, price)
        BY <1>3, <1>4 DEF Update, Candle
    <2> QED BY <1>5, <2>1, <2>2 DEF Inside, Larger, Smaller
<1>17. ASSUME NEW d \in Range(l.closed), CoveredIn(s2, d) PROVE SameStory(QuartersIn(s2, d), d)
    <2>1. d.bucket \in Int /\ d.bucket < c.bucket
        BY <1>4
    <2>2. Hour(q.bucket) # d.bucket
        BY <1>4, <1>5, <2>1
    <2>3. QuartersIn(s2, d) = QuartersIn(s, d)
        BY <1>3, <1>6, <1>8, <2>2 DEF QuartersIn
    <2> QED BY <1>4, <1>10, <1>17, <2>3 DEF Agree
<1>18. Agree(s2, l2)
    BY <1>9, <1>15, <1>17 DEF Agree
<1>19. Together(s2, l2)
    BY <1>1, <1>2, <1>5, <1>6, <1>7, <1>16 DEF Together
<1> QED BY <1>18, <1>19 DEF s2, l2

\* The first price of a later quarter.
LEMMA LaterQuarter ==
    ASSUME NEW s, NEW l, Together(s, l), Agree(s, l), NEW price \in Prices,
           NEW bucket \in Int, bucket > s.current[1].bucket
    PROVE  LET s2 == AddTick(s, bucket, price)
               l2 == AddTick(l, Hour(bucket), price)
           IN Together(s2, l2) /\ Agree(s2, l2)
<1> DEFINE q == s.current[1]
           c == l.current[1]
           h == Hour(bucket)
           s2 == AddTick(s, bucket, price)
           l2 == AddTick(l, h, price)
           E == Extended(s, bucket)
           n == Flat(bucket, price)
<1>1. Dated(s2) /\ s2.current[1] = n
    BY TickLater DEF Together
<1>2. n.bucket = bucket /\ n.high = price /\ n.low = price /\ n.close = price
    BY DEF Flat
<1>3. /\ q \in Candle /\ q.bucket \in Int
      /\ Range(Candles(s)) = Range(s.closed) \union {q}
      /\ \A x \in Range(s.closed) : x \in Candle /\ x.bucket \in Int /\ x.bucket < q.bucket
    BY CandlesOf DEF Together
<1>4. /\ c \in Candle /\ c.bucket \in Int
      /\ Range(Candles(l)) = Range(l.closed) \union {c}
      /\ \A x \in Range(l.closed) : x \in Candle /\ x.bucket \in Int /\ x.bucket < c.bucket
    BY CandlesOf DEF Together
<1>5. Hour(q.bucket) = c.bucket /\ q.close = c.close /\ bucket > q.bucket
    BY DEF Together
<1>6. \A x \in E : /\ x \in Candle /\ x.bucket \in Int /\ x.bucket < bucket
                   /\ x \in Range(s.closed) \/ x.bucket >= q.bucket
                   /\ x \in Range(s.closed) \union {q} \/ x = Flat(x.bucket, q.close)
    BY ExtendedFacts DEF Together
<1>7. Range(s.closed) \union {q} \subseteq E
    BY DEF Extended
<1>8. ASSUME NEW d, d.bucket \in Int, CoveredIn(s2, d)
      PROVE  /\ CoveredIn(s, d)
             /\ QuartersIn(s2, d) = {x \in E \union {n} : Hour(x.bucket) = d.bucket}
    BY <1>8, Kept DEF Together
<1>9. h \in Int
    BY HourType
<1>f. ASSUME NEW i \in (q.bucket + 1)..(bucket - 1) PROVE Flat(i, q.close) \in E
    BY DEF Extended
<1> HIDE DEF q, c, h, s2, l2, E, n
<1>10. h = Hour(bucket) /\ c.bucket <= h
    <2>1. Hour(q.bucket) <= Hour(bucket)
        BY <1>3, <1>5, HourMonotone
    <2> QED BY <1>5, <2>1 DEF h
\* What came after the quarter that closes lies in its hour or in a later one.
<1>11. ASSUME NEW x \in E, x \notin Range(s.closed)
       PROVE  Hour(x.bucket) \in Int /\ c.bucket <= Hour(x.bucket)
    <2>1. x.bucket \in Int /\ q.bucket <= x.bucket
        BY <1>3, <1>6, <1>11
    <2> QED BY <1>3, <1>5, <2>1, HourType, HourMonotone
<1>12. IsFlat(n)
    BY <1>2 DEF IsFlat, n
<1>13. ASSUME NEW d \in Range(l.closed), CoveredIn(s2, d) PROVE SameStory(QuartersIn(s2, d), d)
    <2>1. d.bucket \in Int /\ d.bucket < c.bucket
        BY <1>4
    <2>2. CoveredIn(s, d) /\ QuartersIn(s2, d) = {x \in E \union {n} : Hour(x.bucket) = d.bucket}
        BY <1>8, <1>13, <2>1
    <2>3. Hour(n.bucket) # d.bucket /\ Hour(q.bucket) # d.bucket
        BY <1>2, <1>4, <1>5, <1>9, <1>10, <2>1
    <2>4. \A x \in E : Hour(x.bucket) = d.bucket => x \in Range(s.closed)
        BY <1>4, <1>11, <2>1
    <2>5. QuartersIn(s2, d) = QuartersIn(s, d)
        BY <1>3, <1>7, <2>2, <2>3, <2>4 DEF QuartersIn
    <2> QED BY <1>4, <2>2, <2>5 DEF Agree
<1> DEFINE Q == QuartersIn(s, c)
           F(hour) == {x \in E : Hour(x.bucket) = hour /\ x = Flat(x.bucket, q.close)}
<1>14. {x \in E : Hour(x.bucket) = c.bucket} = Q \union F(c.bucket)
    BY <1>3, <1>6, <1>7 DEF QuartersIn
<1>15. ASSUME NEW f, f = Flat(f.bucket, q.close) PROVE IsFlat(f)
    <2>1. Flat(f.bucket, q.close).close = q.close
        BY DEF Flat
    <2> QED BY <1>15, <2>1 DEF IsFlat
<1>16. CASE h = c.bucket
    <2>1. Dated(l2) /\ l2.closed = l.closed /\ l2.current[1] = Update(c, price)
        BY <1>16, TickSame DEF Together, l2, c
    <2>2. Update(c, price).bucket = c.bucket /\ Update(c, price).close = price
        BY <1>4 DEF Update, Candle
    <2>3. Range(Candles(l2)) = Range(l.closed) \union {Update(c, price)}
        BY <2>1, CandlesOf
    <2>4. ASSUME CoveredIn(s2, Update(c, price))
          PROVE  SameStory(QuartersIn(s2, Update(c, price)), Update(c, price))
        <3>1. /\ CoveredIn(s, Update(c, price))
              /\ QuartersIn(s2, Update(c, price))
                   = {x \in E \union {n} : Hour(x.bucket) = c.bucket}
            BY <1>4, <1>8, <2>2, <2>4
        <3>2. CoveredIn(s, c)
            BY <2>2, <3>1 DEF CoveredIn
        <3>3. SameStory(Q, c)
            BY <1>4, <3>2 DEF Agree
        <3>4. {x \in E \union {n} : Hour(x.bucket) = c.bucket} = Q \union F(c.bucket) \union {n}
            BY <1>2, <1>10, <1>14, <1>16
        <3>5. Q \subseteq E /\ \A f \in F(c.bucket) : f \in E /\ IsFlat(f)
            BY <1>14, <1>15
        <3> HIDE DEF Q, F
        <3>6. Q \subseteq Candle /\ \A x \in Q \union F(c.bucket) : x.bucket \in Int /\ x.bucket < bucket
            BY <1>6, <3>5
        <3>7. SameStory(Q \union F(c.bucket) \union {n}, Update(c, price))
            BY <1>4, <3>3, <3>5, <3>6, StoryGoesOn DEF n
        <3> QED BY <3>1, <3>4, <3>7
    <2>5. Inside(n, Update(c, price))
        <3>1. c.high \in Int /\ c.low \in Int /\ price \in Int
            BY <1>4, CandleFields, FeedAssumption
        <3>2. /\ Update(c, price).high = Larger(c.high, price)
              /\ Update(c, price).low = Smaller(c.low, price)
            BY <1>4 DEF Update, Candle
        <3> QED BY <1>2, <3>1, <3>2 DEF Inside, Larger, Smaller
    <2>6. Agree(s2, l2)
        BY <1>13, <2>3, <2>4 DEF Agree
    <2>7. Together(s2, l2)
        BY <1>1, <1>2, <1>10, <1>16, <2>1, <2>2, <2>5 DEF Together
    <2> QED BY <2>6, <2>7 DEF s2, l2, h
<1>17. CASE h > c.bucket
    <2> DEFINE m == Flat(h, price)
    <2>1. /\ Dated(l2) /\ l2.current[1] = m
          /\ Range(l2.closed) \subseteq Extended(l, h)
        BY <1>9, <1>17, TickLater DEF Together, l2, c
    <2>2. m.bucket = h /\ m.high = price /\ m.low = price /\ m.close = price
        BY DEF Flat
    <2>3. ASSUME NEW d \in Range(Candles(l2))
          PROVE  \/ d \in Range(l.closed) \/ d = c \/ d = m
                 \/ \E i \in (c.bucket + 1)..(h - 1) : d = Flat(i, c.close)
        <3>1. d \in Extended(l, h) \/ d = m
            BY <2>1, CandlesOf
        <3> QED BY <3>1 DEF Extended, c
    <2> HIDE DEF m
\* The hour that closes is filled up with quarters at its closing price.
    <2>4. ASSUME CoveredIn(s2, c) PROVE SameStory(QuartersIn(s2, c), c)
        <3>1. CoveredIn(s, c) /\ QuartersIn(s2, c) = {x \in E \union {n} : Hour(x.bucket) = c.bucket}
            BY <1>4, <1>8, <2>4
        <3>2. SameStory(Q, c)
            BY <1>4, <3>1 DEF Agree
        <3>3. Hour(n.bucket) # c.bucket
            BY <1>2, <1>4, <1>9, <1>10, <1>17
        <3>4. QuartersIn(s2, c) = Q \union F(c.bucket)
            BY <1>14, <3>1, <3>3
        <3>5. \A f \in F(c.bucket) : f = Flat(f.bucket, c.close)
            BY <1>5
        <3> HIDE DEF Q, F
        <3> QED BY <3>2, <3>4, <3>5, StoryFilled
\* Between the two hours there are only quarters and hours without prices.
    <2>5. ASSUME NEW i \in (c.bucket + 1)..(h - 1), CoveredIn(s2, Flat(i, c.close))
          PROVE  SameStory(QuartersIn(s2, Flat(i, c.close)), Flat(i, c.close))
        <3> DEFINE d == Flat(i, c.close)
        <3>1. i \in Int /\ c.bucket < i /\ i < h
            BY <1>4, <1>9
        <3>2. d.bucket = i
            BY DEF Flat
        <3>3. QuartersIn(s2, d) = {x \in E \union {n} : Hour(x.bucket) = i}
            BY <1>8, <2>5, <3>1, <3>2
        <3>4. Hour(n.bucket) # i
            BY <1>2, <1>9, <1>10, <3>1
        <3>5. ASSUME NEW x \in Range(s.closed) \union {q} PROVE Hour(x.bucket) # i
            <4>1. x.bucket \in Int /\ x.bucket <= q.bucket
                BY <1>3
            <4>2. Hour(x.bucket) <= c.bucket /\ Hour(x.bucket) \in Int
                BY <1>3, <1>5, <4>1, HourMonotone, HourType
            <4> QED BY <1>4, <3>1, <4>2
        <3>6. \A x \in QuartersIn(s2, d) : x = Flat(x.bucket, c.close)
            BY <1>5, <1>6, <3>3, <3>4, <3>5
        <3>7. QuartersIn(s2, d) # {}
            <4>1. PICK b \in Int : Hour(b) = i
                BY <3>1, HourHasBucket
            <4>2. q.bucket < b
                <5>1. b <= q.bucket => Hour(b) <= Hour(q.bucket)
                    BY <1>3, HourMonotone
                <5>2. ~ (b <= q.bucket)
                    BY <1>4, <1>5, <3>1, <4>1, <5>1
                <5> QED BY <1>3, <5>2
            <4>3. b < bucket
                <5>1. bucket <= b => Hour(bucket) <= Hour(b)
                    BY HourMonotone
                <5>2. ~ (bucket <= b)
                    BY <1>9, <1>10, <3>1, <4>1, <5>1
                <5> QED BY <5>2
            <4>4. b \in (q.bucket + 1)..(bucket - 1)
                BY <1>3, <4>2, <4>3
            <4>5. Flat(b, q.close) \in E
                BY <1>f, <4>4
            <4>6. Flat(b, q.close).bucket = b
                BY DEF Flat
            <4> QED BY <3>3, <4>1, <4>5, <4>6
        <3>8. c.close \in Prices
            BY <1>4, CandleFields
        <3> HIDE DEF d
        <3>9. SameStory(QuartersIn(s2, d), Flat(i, c.close))
            BY <3>6, <3>7, <3>8, StoryOfSilence
        <3> QED BY <3>9 DEF d
\* The new hour begins with quarters without prices, if not with the new price.
    <2>6. ASSUME CoveredIn(s2, m) PROVE SameStory(QuartersIn(s2, m), m)
        <3>1. QuartersIn(s2, m) = {x \in E \union {n} : Hour(x.bucket) = h}
            BY <1>8, <1>9, <2>2, <2>6
        <3>2. ASSUME NEW x \in Range(s.closed) \union {q} PROVE Hour(x.bucket) # h
            <4>1. x.bucket \in Int /\ x.bucket <= q.bucket
                BY <1>3
            <4>2. Hour(x.bucket) <= c.bucket /\ Hour(x.bucket) \in Int
                BY <1>3, <1>5, <4>1, HourMonotone, HourType
            <4> QED BY <1>4, <1>9, <1>17, <4>2
        <3>3. {x \in E : Hour(x.bucket) = h} = F(h)
            BY <1>6, <3>2
        <3>4. QuartersIn(s2, m) = F(h) \union {n}
            BY <1>2, <1>10, <3>1, <3>3
        <3>5. \A f \in F(h) : IsFlat(f) /\ f \in E
            BY <1>15
        <3> HIDE DEF F
        <3>6. \A f \in F(h) : f.bucket \in Int /\ f.bucket < bucket
            BY <1>6, <3>5
        <3>7. SameStory(F(h) \union {n}, m)
            BY <3>5, <3>6, StoryBegins DEF n, m
        <3> QED BY <3>4, <3>7
    <2>7. Agree(s2, l2)
        BY <1>13, <2>3, <2>4, <2>5, <2>6 DEF Agree
    <2>8. Inside(n, m)
        <3>1. price \in Int
            BY FeedAssumption
        <3> QED BY <1>2, <2>2, <3>1 DEF Inside
    <2>9. Together(s2, l2)
        BY <1>1, <1>2, <1>10, <2>1, <2>2, <2>8 DEF Together
    <2> QED BY <2>7, <2>9 DEF s2, l2, h
<1> QED BY <1>4, <1>9, <1>10, <1>16, <1>17
\* The first price of all.
LEMMA FirstPrice ==
    ASSUME NEW s \in Aggregator, NEW l \in Aggregator,
           s.current = << >>, s.closed = << >>, l.current = << >>, l.closed = << >>,
           NEW price \in Prices, NEW bucket \in Int
    PROVE  LET s2 == AddTick(s, bucket, price)
               l2 == AddTick(l, Hour(bucket), price)
           IN Together(s2, l2) /\ Agree(s2, l2)
<1> DEFINE h == Hour(bucket)
           s2 == AddTick(s, bucket, price)
           l2 == AddTick(l, h, price)
           n == Flat(bucket, price)
           m == Flat(h, price)
<1>1. s2 = [current |-> <<n>>, closed |-> << >>] /\ l2 = [current |-> <<m>>, closed |-> << >>]
    BY DEF AddTick, Aggregator
<1>2. n.bucket = bucket /\ n.high = price /\ n.low = price /\ n.close = price
    BY DEF Flat
<1>3. m.bucket = h /\ m.high = price /\ m.low = price /\ m.close = price
    BY DEF Flat
<1>4. h \in Int /\ price \in Int
    BY HourType, FeedAssumption
<1>5. n \in Candle /\ m \in Candle
    BY <1>4 DEF Flat, Candle
<1> HIDE DEF s2, l2, n, m, h
<1>6. s2.current = <<n>> /\ s2.closed = << >> /\ l2.current = <<m>> /\ l2.closed = << >>
    BY <1>1
<1>7. Dated(s2) /\ Dated(l2)
    BY <1>1, <1>5, <1>6 DEF Dated, Aggregator
<1>8. Range(s2.closed) = {} /\ Range(l2.closed) = {}
    BY <1>6 DEF Range
<1>9. s2.current[1] = n /\ l2.current[1] = m
    BY <1>6
<1>10. Range(Candles(s2)) = {n} /\ Range(Candles(l2)) = {m}
    BY <1>7, <1>8, <1>9, CandlesOf
<1>11. QuartersIn(s2, m) = {} \union {n}
    BY <1>2, <1>3, <1>10 DEF QuartersIn, h
<1>12. SameStory({} \union {n}, m)
    BY StoryBegins DEF n, m
<1>13. Agree(s2, l2)
    BY <1>10, <1>11, <1>12 DEF Agree
<1>14. Together(s2, l2)
    BY <1>2, <1>3, <1>4, <1>7, <1>9 DEF Together, Inside, h
<1> QED BY <1>13, <1>14 DEF s2, l2, h

\* Until the clock is set back the two timeframes tell the same story.
StoryInv == backs = 0 /\ mark # None => Together(short, long) /\ Agree(short, long)

LEMMA DrainKeepsStory ==
    ASSUME IInv, StoryInv, DrainPrice, backs = 0
    PROVE  Together(short', long') /\ Agree(short', long')
<1> DEFINE price == Head(queue)
           bucket == Bucket(clock, ShortPeriod)
<1>1. price \in Prices
    <2>1. queue \in Seq(Messages) /\ queue # << >> /\ price # None
        BY DEF IInv, TypeOK, DrainPrice, Other
    <2>2. price \in Messages
        BY <2>1, HeadTailProperties
    <2> QED BY <2>1, <2>2 DEF Messages, Other
<1>2. clock \in Int
    BY DEF IInv, TypeOK
<1>3. bucket \in Int
    <2>1. clock - Offset \in Int
        BY <1>2, FeedAssumption
    <2> QED BY <2>1, Quotient, FeedAssumption DEF Bucket
<1>4. Bucket(clock, LongPeriod) = Hour(bucket)
    BY <1>2, BucketsTogether
<1> HIDE DEF price, bucket
<1>5. short' = AddTick(short, bucket, price) /\ long' = AddTick(long, Hour(bucket), price)
    BY <1>4 DEF DrainPrice, price, bucket
<1>6. CASE mark = None
    <2>1. /\ short \in Aggregator /\ long \in Aggregator
          /\ short.current = << >> /\ short.closed = << >>
          /\ long.current = << >> /\ long.closed = << >>
        BY <1>6 DEF IInv, AggInv
    <2> QED BY <1>1, <1>3, <1>5, <2>1, FirstPrice
<1>7. CASE mark # None
    <2>1. Together(short, long) /\ Agree(short, long)
        BY <1>7 DEF StoryInv
    <2>2. short.current # << >>
        BY <1>7 DEF IInv, AggInv
    <2>3. short.current[1].bucket <= bucket
        BY <2>2 DEF IInv, AggInv, NotAhead, bucket
    <2>4. short.current[1].bucket \in Int
        BY <2>1, CandlesOf DEF Together
    <2>5. bucket = short.current[1].bucket \/ bucket > short.current[1].bucket
        BY <1>3, <2>3, <2>4
    <2> QED BY <1>1, <1>3, <1>5, <2>1, <2>5, SameQuarter, LaterQuarter
<1> QED BY <1>6, <1>7

LEMMA StoryStep == IInv /\ StoryInv /\ [Next]_vars => StoryInv'
<1> SUFFICES ASSUME IInv, StoryInv, [Next]_vars PROVE StoryInv'
    OBVIOUS
<1>1. CASE DrainPrice
    <2>1. backs' = backs
        BY <1>1 DEF DrainPrice
    <2>2. backs = 0 => Together(short', long') /\ Agree(short', long')
        BY <1>1, DrainKeepsStory
    <2> QED BY <2>1, <2>2 DEF StoryInv, Together, Dated, Agree, CoveredIn, QuartersIn, Candles
<1>2. CASE SetBack
    <2>1. backs' # 0
        BY <1>2 DEF SetBack, IInv, TypeOK
    <2> QED BY <2>1 DEF StoryInv
<1>3. CASE Run \/ DrainOther \/ Advance \/ UNCHANGED vars
    <2>1. UNCHANGED <<mark, short, long, backs>>
        BY <1>3 DEF Run, Connect, ConnectionLost, WaitEnds, Receive, DrainOther, Advance, vars
    <2> QED BY <2>1 DEF StoryInv, Together, Dated, Agree, CoveredIn, QuartersIn, Candles
<1> QED BY <1>1, <1>2, <1>3 DEF Next, Drain

\* TimeframesAgree: the candles of "15m" and of "1h" tell the same story, for every pair
\* of periods of which one divides the other, every time zone and any length of the history.
THEOREM TimeframesTellOneStory == Spec => []TimeframesAgree
<1>1. Init => StoryInv
    BY DEF Init, StoryInv
<1>2. ASSUME IInv, StoryInv PROVE TimeframesAgree
    <2>1. CASE mark = None
        <3>1. long.current = << >> /\ long.closed = << >>
            BY <1>2, <2>1 DEF IInv, AggInv
        <3>2. Candles(long) = << >>
            BY <3>1 DEF Candles
        <3>3. Range(Candles(long)) = {}
            BY <3>2 DEF Range
        <3> QED BY <3>3 DEF TimeframesAgree
    <2>2. CASE mark # None
        <3>1. ASSUME NEW c PROVE /\ Quarters(c) = QuartersIn(short, c)
                                 /\ Covered(c) <=> CoveredIn(short, c)
            BY DEF Quarters, QuartersIn, Hour, Covered, CoveredIn
        <3> QED BY <1>2, <2>2, <3>1 DEF TimeframesAgree, StoryInv, Agree
    <2> QED BY <2>1, <2>2
<1> QED BY <1>1, <1>2, InitIInv, NextIInv, StoryStep, PTL DEF Spec

=============================================================================
