----------------------------- MODULE MarketData -----------------------------
(***************************************************************************)
(* The price feed of one underlying: DeltaWebSocketClient.run and _pump    *)
(* (exchange/ws.py), the bounded queue between them and ws_drain_loop      *)
(* (runtime/engine.py), and the two CandleAggregators of data/candles.py   *)
(* that the strategies read.  A restart begins again at Init: nothing of   *)
(* this is stored.                                                         *)
(*                                                                         *)
(* Time is the wall clock, naive UTC, in units of which the periods are    *)
(* multiples.  The volume of a candle is always 0 and its number of ticks  *)
(* is never read: both are left out.                                       *)
(***************************************************************************)
EXTENDS Integers, Sequences, Functions

CONSTANTS
    Prices,                     \* prices a ticker message can carry
    ShortPeriod, LongPeriod,    \* "15m" and "1h"
    Offset,                     \* the host's time zone, ahead of UTC
    History,                    \* candles an aggregator retains
    QueueSize,                  \* queue_maxsize
    InitialBackoff, MaxBackoff, \* seconds
    StartTimes, EndTime,        \* bound: the clock
    MaxBack                     \* bound: times the clock is set back

ASSUME FeedAssumption ==
    /\ Prices \subseteq Nat
    /\ ShortPeriod \in Nat \ {0} /\ LongPeriod \in Nat \ {0}
    /\ LongPeriod % ShortPeriod = 0
    /\ Offset \in Nat
    /\ History \in Nat \ {0} /\ QueueSize \in Nat \ {0}
    /\ InitialBackoff \in Nat \ {0} /\ MaxBackoff \in Nat /\ InitialBackoff <= MaxBackoff
    /\ EndTime \in Nat /\ StartTimes \subseteq 0..EndTime
    /\ MaxBack \in Nat

VARIABLES
    conn,       \* where DeltaWebSocketClient.run is
    backoff,    \* its local variable
    queue,      \* self._queue
    clock,      \* dt.datetime.now
    mark,       \* underlying_marks[u]
    short,      \* candles[u]["15m"]
    long,       \* candles[u]["1h"]
    backs       \* history: times the clock was set back

vars == <<conn, backoff, queue, clock, mark, short, long, backs>>

None == -1
Other == None   \* a message that is no ticker of the underlying, or has no price
Messages == Prices \union {Other}

Larger(a, b) == IF a >= b THEN a ELSE b
Smaller(a, b) == IF a <= b THEN a ELSE b

Candle == [bucket : Int, open : Prices, high : Prices, low : Prices, close : Prices]

\* current is the empty sequence until the first tick, then it holds one candle.
Aggregator == [current : Seq(Candle), closed : Seq(Candle)]
EmptyAggregator == [current |-> << >>, closed |-> << >>]

\* What a strategy is given: the closed candles, then the current one.
Candles(a) == a.closed \o a.current

TypeOK ==
    /\ conn \in {"connecting", "up", "waiting"}
    /\ backoff \in InitialBackoff..MaxBackoff
    /\ queue \in Seq(Messages) /\ Len(queue) <= QueueSize
    /\ clock \in 0..EndTime
    /\ mark \in Prices \union {None}
    /\ \A a \in {short, long} :
          /\ a \in Aggregator
          /\ Len(a.closed) <= History /\ Len(a.current) <= 1
          /\ a.current = << >> <=> mark = None
    /\ backs \in 0..MaxBack

-----------------------------------------------------------------------------
(* CandleAggregator.add_tick. *)

\* int(ts.timestamp()) // period: timestamp() takes a naive time to be local.
Bucket(time, period) == (time - Offset) \div period

Flat(bucket, price) ==
    [bucket |-> bucket, open |-> price, high |-> price, low |-> price, close |-> price]

Update(c, price) ==
    [c EXCEPT !.high = Larger(@, price), !.low = Smaller(@, price), !.close = price]

\* deque(maxlen=history).
Retained(s) == IF Len(s) <= History THEN s ELSE SubSeq(s, Len(s) - History + 1, Len(s))

\* Mutant: the last missing bucket is not filled.
FillersShort(c, bucket) ==
    [i \in 1..Larger(bucket - c.bucket - 2, 0) |-> Flat(c.bucket + i, c.close)]

\* Mutant: the missing buckets are filled with the opening price.
FillersOpen(c, bucket) ==
    [i \in 1..Larger(bucket - c.bucket - 1, 0) |-> Flat(c.bucket + i, c.open)]

\* One flat candle for every bucket between the one that closes and the new one.
Fillers(c, bucket) ==
    [i \in 1..Larger(bucket - c.bucket - 1, 0) |-> Flat(c.bucket + i, c.close)]

AddTick(a, bucket, price) ==
    IF a.current = << >> THEN [a EXCEPT !.current = <<Flat(bucket, price)>>]
    ELSE LET c == a.current[1] IN
         IF bucket = c.bucket THEN [a EXCEPT !.current = <<Update(c, price)>>]
         ELSE [current |-> <<Flat(bucket, price)>>,
               closed |-> Retained(a.closed \o <<c>> \o Fillers(c, bucket))]

-----------------------------------------------------------------------------
(* DeltaWebSocketClient.run. *)

Connect ==
    /\ conn = "connecting"
    /\ conn' = "up"
    /\ UNCHANGED <<backoff, queue, clock, mark, short, long, backs>>

\* Connecting, a subscription or recv raises.
ConnectionLost ==
    /\ conn \in {"connecting", "up"}
    /\ conn' = "waiting"
    /\ UNCHANGED <<backoff, queue, clock, mark, short, long, backs>>

\* The jitter is a factor between 0.5 and 1.5.  The reset of the backoff is not reached:
\* _connect_and_pump returns only once the client is stopped.
WaitEnds ==
    /\ conn = "waiting"
    /\ conn' = "connecting"
    /\ \E next \in backoff..(3 * backoff) :
          backoff' = Smaller(MaxBackoff, Larger(InitialBackoff, next))
    /\ UNCHANGED <<queue, clock, mark, short, long, backs>>

\* _pump: a full queue drops the message that arrives.
Receive(msg) ==
    /\ conn = "up"
    /\ Len(queue) < QueueSize
    /\ queue' = Append(queue, msg)
    /\ UNCHANGED <<conn, backoff, clock, mark, short, long, backs>>

-----------------------------------------------------------------------------
(* ws_drain_loop. *)

DrainOther ==
    /\ queue # << >>
    /\ Head(queue) = Other
    /\ queue' = Tail(queue)
    /\ UNCHANGED <<conn, backoff, clock, mark, short, long, backs>>

\* Mutant: prices are taken from the queue only while the feed is up.
DrainPriceConnected ==
    /\ conn = "up"
    /\ queue # << >>
    /\ Head(queue) # Other
    /\ queue' = Tail(queue)
    /\ mark' = Head(queue)
    /\ short' = AddTick(short, Bucket(clock, ShortPeriod), Head(queue))
    /\ long' = AddTick(long, Bucket(clock, LongPeriod), Head(queue))
    /\ UNCHANGED <<conn, backoff, clock, backs>>

\* A price counts at the time it is drained, whenever it was sent.
DrainPrice ==
    /\ queue # << >>
    /\ Head(queue) # Other
    /\ queue' = Tail(queue)
    /\ mark' = Head(queue)
    /\ short' = AddTick(short, Bucket(clock, ShortPeriod), Head(queue))
    /\ long' = AddTick(long, Bucket(clock, LongPeriod), Head(queue))
    /\ UNCHANGED <<conn, backoff, clock, backs>>

-----------------------------------------------------------------------------
(* The wall clock. *)

Advance ==
    /\ clock < EndTime
    /\ clock' = clock + 1
    /\ UNCHANGED <<conn, backoff, queue, mark, short, long, backs>>

SetBack ==
    /\ clock > 0
    /\ backs < MaxBack
    /\ backs' = backs + 1
    /\ clock' = clock - 1
    /\ UNCHANGED <<conn, backoff, queue, mark, short, long>>

-----------------------------------------------------------------------------

Init ==
    /\ conn = "connecting"
    /\ backoff = InitialBackoff
    /\ queue = << >>
    /\ clock \in StartTimes
    /\ mark = None
    /\ short = EmptyAggregator /\ long = EmptyAggregator
    /\ backs = 0

Run == Connect \/ ConnectionLost \/ WaitEnds \/ \E msg \in Messages : Receive(msg)
Drain == DrainOther \/ DrainPrice

Next == Run \/ Drain \/ Advance \/ SetBack

Spec == Init /\ [][Next]_vars

\* asyncio runs a task that can run: a message in the queue is drained.
FairSpec == Spec /\ WF_vars(Drain)

-----------------------------------------------------------------------------
(* Properties. *)

\* The history a strategy computes its indicators from has no hole, however long no
\* price came and whatever the clock did; without a clock that was set back its buckets
\* are consecutive.
Contiguous ==
    \A a \in {short, long} : \A i \in 1..(Len(Candles(a)) - 1) :
        LET before == Candles(a)[i].bucket
            after == Candles(a)[i + 1].bucket
        IN after <= before + 1 /\ (backs = 0 => after = before + 1)

\* The candles of "15m" in one candle of "1h".
Quarters(c) ==
    {q \in Range(Candles(short)) : (q.bucket * ShortPeriod) \div LongPeriod = c.bucket}

\* Whether none of those was dropped from the history.
Covered(c) ==
    \/ Len(short.closed) < History
    \/ Candles(short)[1].bucket * ShortPeriod <= c.bucket * LongPeriod

Inside(q, c) == c.low <= q.low /\ q.high <= c.high

SameStory(quarters, c) ==
    /\ quarters # {}
    /\ \A q \in quarters : (\A o \in quarters : o.bucket <= q.bucket) => q.close = c.close
    /\ \E q \in quarters : q.high >= c.high
    /\ \E q \in quarters : q.low <= c.low
    /\ \A q \in quarters : Inside(q, c) \/ q = Flat(q.bucket, q.close)

\* The two timeframes are fed the same prices and must tell the same story: an hour
\* ends where its last quarter ends, its extremes are found in its quarters, and a
\* quarter outside its range is one that was filled in for lack of prices.
TimeframesAgree ==
    backs = 0 => \A c \in Range(Candles(long)) : Covered(c) => SameStory(Quarters(c), c)

\* Every message in the queue is taken out of it, whether or not the feed is up.
QueueIsServed == Len(queue) = QueueSize ~> Len(queue) < QueueSize
=============================================================================
