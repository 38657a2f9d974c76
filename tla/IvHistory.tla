------------------------------- MODULE IvHistory -------------------------------
(***************************************************************************)
(* The history of at-the-money implied volatilities of                     *)
(* bot/desk/iv_history.py: the last step of every round of the refreshing  *)
(* task adds a sample per underlying and bucket, at most one per 300       *)
(* seconds, and the strategies ask for the rank of today's volatility in   *)
(* what the database holds (bot/runtime/iv_prefetch.py).                   *)
(*                                                                         *)
(* A volatility is kept as twice its value, so that the mean of a call and *)
(* a put is a whole number.  The 90 days of look-back exceed the runs.     *)
(***************************************************************************)
EXTENDS ChainCache, FiniteSetsExt

CONSTANTS
  Underlying,   \* the underlyings the program trades
  MinSamples    \* _MIN_SAMPLES

VARIABLES
  marks,        \* underlying_marks, NoPrice before the first message
  sampledAt,    \* _last_sample_mono per underlying, -1 before the first
  history       \* stored samples per underlying and bucket, in order

ivVars == <<sampledAt, history>>

SampledBuckets == {"D1", "D2", "W1"}
NoIv == -1
NoRank == [kind |-> "none"]

ASSUME IvAssumption == \A q \in DOMAIN Ticker : Ticker[q].iv \in Nat \cup {NoIv}

IvInit ==
  /\ marks = [u \in Underlying |-> NoPrice]
  /\ sampledAt = [u \in Underlying |-> -1]
  /\ history = [u \in Underlying |-> [b \in SampledBuckets |-> <<>>]]

\* The mean of the volatilities at the money of the bucket's call and put,
\* or of the one that is quoted.
AtmIvForBucket(u, bucket, spot, t) ==
  LET Iv(type) == LET sel == GetAtmStrike(u, type, bucket, spot, 0, t)
                  IN  IF sel = NoStrike THEN NoIv ELSE Ticker[sel.quote].iv
      call == Iv("call")
      put == Iv("put")
  IN  CASE call # NoIv /\ put # NoIv -> call + put
        [] call # NoIv /\ put = NoIv -> 2 * call
        [] call = NoIv /\ put # NoIv -> 2 * put
        [] OTHER -> NoIv

\* percentile_rank: the mid rank of `value`, as a fraction num / den.
PercentileRank(value, samples) ==
  LET Count(P(_)) == Cardinality({k \in DOMAIN samples : P(samples[k])})
      Less(x) == x < value
      Equal(x) == x = value
  IN  [kind |-> "rank", num |-> 2 * Count(Less) + Count(Equal), den |-> 2 * Len(samples)]

\* No rank when today's volatility is missing or the history is cold.
IvPercentile(u, bucket, iv) ==
  IF iv = NoIv \/ Len(history[u][bucket]) < MinSamples
  THEN NoRank
  ELSE PercentileRank(iv, history[u][bucket])

\* prefetch_directional_iv_percentiles: the rank of every bucket the strategy
\* may choose, none without a spot.
PrefetchIv(u, buckets, spot, t) ==
  [b \in buckets |-> IF spot = NoPrice
                     THEN NoRank
                     ELSE IvPercentile(u, b, AtmIvForBucket(u, b, spot, t))]

-----------------------------------------------------------------------------

\* _should_sample: the interval is over, or may be over within this half hour.
ShouldSample(u) == IF sampledAt[u] = now THEN BOOLEAN ELSE {TRUE}

\* The underlyings of a round: those with a mark whose interval is over.
DueForSample ==
  {S \in SUBSET {u \in Underlying : marks[u] # NoPrice} :
     \A u \in Underlying : /\ u \in S => TRUE \in ShouldSample(u)
                           /\ u \notin S => marks[u] = NoPrice \/ FALSE \in ShouldSample(u)}

WithSample(u, bucket) ==
  LET iv == AtmIvForBucket(u, bucket, marks[u], now)
  IN  IF iv = NoIv THEN history[u][bucket] ELSE Append(history[u][bucket], iv)

\* record_from_chain: the interval is used up before it is known whether there
\* is anything to sample, and whether the rows can be stored.
RecordFromChain ==
  /\ loop = "sample"
  /\ \E S \in DueForSample, stored \in BOOLEAN :
       /\ sampledAt' = [u \in Underlying |-> IF u \in S THEN now ELSE sampledAt[u]]
       /\ history' = IF stored
                     THEN [u \in Underlying |->
                             IF u \in S
                             THEN [b \in SampledBuckets |-> WithSample(u, b)]
                             ELSE history[u]]
                     ELSE history
  /\ loop' = "asleep"
  /\ UNCHANGED <<now, instruments, quotes, fetchedAt, askedAt, answers, marks>>

IvTypeOK ==
  /\ marks \in [Underlying -> Nat \cup {NoPrice}]
  /\ sampledAt \in [Underlying -> Time \cup {-1}]
  /\ history \in [Underlying -> [SampledBuckets -> Seq(Nat)]]

=============================================================================
