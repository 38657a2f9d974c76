------------------------------ MODULE ChainCache ------------------------------
(***************************************************************************)
(* The option chain of bot/data/chain_cache.py and the task of             *)
(* bot/runtime/engine.py that keeps it up to date.                         *)
(*                                                                         *)
(* The task asks the exchange for the products (at most once per TTL) and  *)
(* then for the tickers; either request may fail, which ends the round and *)
(* leaves the cache as it is.  Everything else of the program reads the    *)
(* cache between two steps of the task, with a clock of its own.           *)
(*                                                                         *)
(* Time is counted in half hours of UTC since a Monday 00:00.  The TTL of  *)
(* the products, 300 seconds, is shorter than that: products asked for at  *)
(* an earlier instant are out of date, products asked for in this half     *)
(* hour may or may not be.  The exchange answers with the products that    *)
(* are live, so the cache is a set of symbols.  Only REST fills the        *)
(* quotes: the websocket subscribes to the two perpetuals, so upsert_quote *)
(* is never reached.                                                       *)
(***************************************************************************)
EXTENDS Integers, FiniteSets, Sequences

CONSTANTS
  Symbol,      \* option symbols
  Contract,    \* what parse_symbol makes of one: [u, type, strike, date]
  Ticker,      \* quotes by name: [bid, ask, mark, delta, gamma, vega, oi, iv]
  Scene,       \* answers to get_tickers: functions from Symbol to a name or NoQuote
  Time,        \* the instants at which something happens
  Start,       \* the instant at which the process and its host were started
  ListedDays,  \* how long before its settlement the exchange lists a contract
  MaxAnswers   \* bound of the model: answers with tickers

VARIABLES
  now,          \* the clock
  instruments,  \* _instruments_by_symbol
  quotes,       \* _quotes
  fetchedAt,    \* _products_last_refresh
  askedAt,      \* `now` of the call of refresh_instruments that is under way
  loop,         \* where chain_refresh_loop is
  answers       \* answers with tickers so far

chainVars == <<instruments, quotes, fetchedAt, askedAt, loop, answers>>

NoQuote == "none"
NoStrike == [kind |-> "none"]

HalfHours == 48
Date(t) == t \div HalfHours

ASSUME ChainAssumption ==
  /\ Time \subseteq Nat
  /\ Start \in Time
  /\ \A i \in Symbol : Contract[i].date \in Nat /\ Contract[i].strike \in Nat
  /\ ListedDays \in Nat
  /\ MaxAnswers \in Nat

ASSUME TickerAssumption ==
  /\ \A q \in DOMAIN Ticker : /\ {Ticker[q].bid, Ticker[q].ask, Ticker[q].mark} \subseteq Int
                              /\ {Ticker[q].delta, Ticker[q].gamma, Ticker[q].vega} \subseteq Int
  /\ \A s \in Scene : \A i \in Symbol : s[i] \in DOMAIN Ticker \cup {NoQuote}

-----------------------------------------------------------------------------
(* Expiries and their buckets *)

\* parse_symbol: 17:30 of the date in the symbol, compared with UTC instants.
Expiry(i) == Contract[i].date * HalfHours + 35

\* When the exchange settles the contract and stops listing it: 17:30 IST,
\* which is 12:00 UTC.
Settlement(i) == Contract[i].date * HalfHours + 24

Listed(i, t) == /\ Settlement(i) - ListedDays * HalfHours <= t
                /\ t < Settlement(i)

Live(t) == {i \in Symbol : Listed(i, t)}

DaysToFriday(t) == LET d == (4 - (Date(t) % 7)) % 7 IN IF d = 0 THEN 7 ELSE d

Buckets == {"D1", "D2", "W1", "W2", "W3"}

BucketForExpiry(t, expiry) ==
  LET days == Date(expiry) - Date(t)
  IN  CASE expiry <= t -> "none"
        [] expiry > t /\ days = 0 -> "D1"
        [] expiry > t /\ days = 1 -> "D2"
        [] expiry > t /\ days > 1 /\ days = DaysToFriday(t) -> "W1"
        [] expiry > t /\ days = DaysToFriday(t) + 7 -> "W2"
        [] expiry > t /\ days = DaysToFriday(t) + 14 -> "W3"
        [] OTHER -> "none"

-----------------------------------------------------------------------------
(* Queries *)

NoPrice == -1     \* a price or an open interest that a quote does not have
NoGreek == 1000   \* a delta that a quote does not have

\* The mid of a quote: of bid and ask when both are there, else the mark.
Mid(q) == LET t == Ticker[q]
          IN  IF t.bid # NoPrice /\ t.ask # NoPrice /\ t.ask > 0
              THEN (t.bid + t.ask) \div 2
              ELSE t.mark

\* (ask - bid) / mid exceeds pct percent; a quote without a spread does not.
SpreadExceeds(q, pct) ==
  /\ Mid(q) > 0 /\ Ticker[q].bid # NoPrice /\ Ticker[q].ask # NoPrice
  /\ (Ticker[q].ask - Ticker[q].bid) * 100 > pct * Mid(q)

Distance(a, b) == IF a < b THEN b - a ELSE a - b
AbsOf(x) == IF x < 0 THEN -x ELSE x

InstrumentsFor(u, type, bucket, t) ==
  {i \in instruments : /\ Contract[i].u = u
                       /\ Contract[i].type = type
                       /\ BucketForExpiry(t, Expiry(i)) = bucket}

\* The members of S with the least key, and the lowest strike among equals (the
\* lists are sorted by strike, and Python's sort is stable).
Nearest(S, key(_)) ==
  {i \in S : \A j \in S : \/ key(i) < key(j)
                          \/ key(i) = key(j) /\ Contract[i].strike <= Contract[j].strike}

Selected(S) ==
  LET i == CHOOSE i \in S : TRUE
  IN  IF S = {} \/ quotes[i] = NoQuote
      THEN NoStrike
      ELSE [kind |-> "strike", inst |-> i, quote |-> quotes[i]]

GetAtmStrike(u, type, bucket, spot, offset, t) ==
  LET S == InstrumentsFor(u, type, bucket, t)
      DistanceToSpot(i) == Distance(Contract[i].strike, spot)
      Index(i) == Cardinality({j \in S : Contract[j].strike < Contract[i].strike})
  IN  Selected({i \in S : \E atm \in Nearest(S, DistanceToSpot) : Index(i) = Index(atm) + offset})

GetStrikeByDelta(u, type, bucket, target, lo, hi, t) ==
  LET S == {i \in InstrumentsFor(u, type, bucket, t) :
              /\ quotes[i] # NoQuote
              /\ Ticker[quotes[i]].delta # NoGreek
              /\ AbsOf(Ticker[quotes[i]].delta) \in lo .. hi}
      DistanceToTarget(i) == Distance(AbsOf(Ticker[quotes[i]].delta), target)
  IN  Selected(Nearest(S, DistanceToTarget))

-----------------------------------------------------------------------------
(* The refreshing task *)

ChainInit ==
  /\ now = Start
  /\ instruments = {}
  /\ quotes = [i \in Symbol |-> NoQuote]
  /\ fetchedAt = Start       \* the monotonic clock starts at 0 with the host
  /\ askedAt = Start
  /\ loop = "asleep"
  /\ answers = 0

\* The clock moves to the next instant at which something happens.
TimePasses ==
  /\ \E t \in Time : t > now /\ now' = t
  /\ UNCHANGED chainVars

\* The products are within their TTL.
RefreshSkips ==
  /\ loop = "asleep"
  /\ fetchedAt = now
  /\ loop' = "tickers"
  /\ UNCHANGED <<now, instruments, quotes, fetchedAt, askedAt, answers>>

\* Mutant: products are never asked for again once there are some.
RefreshBeginsOnce ==
  /\ loop = "asleep"
  /\ instruments = {}
  /\ askedAt' = now
  /\ loop' = "products"
  /\ UNCHANGED <<now, instruments, quotes, fetchedAt, answers>>

RefreshBegins ==
  /\ loop = "asleep"
  /\ askedAt' = now
  /\ loop' = "products"
  /\ UNCHANGED <<now, instruments, quotes, fetchedAt, answers>>

\* Mutant: the time stamp is taken when the answer is there.
ProductsArriveLateStamp ==
  /\ loop = "products"
  /\ \E t \in {t \in Time : askedAt <= t /\ t <= now} : instruments' = Live(t)
  /\ fetchedAt' = now
  /\ loop' = "tickers"
  /\ UNCHANGED <<now, quotes, askedAt, answers>>

\* The answer shows the exchange at some instant between the request and now.
ProductsArrive ==
  /\ loop = "products"
  /\ \E t \in {t \in Time : askedAt <= t /\ t <= now} : instruments' = Live(t)
  /\ fetchedAt' = askedAt
  /\ loop' = "tickers"
  /\ UNCHANGED <<now, quotes, askedAt, answers>>

\* A request fails: the round is over, the next one starts 15 seconds later.
RequestFails ==
  /\ loop \in {"products", "tickers"}
  /\ loop' = "asleep"
  /\ askedAt' = fetchedAt      \* a local variable of the call that is over
  /\ UNCHANGED <<now, instruments, quotes, fetchedAt, answers>>

\* Tickers overwrite the quotes they are for; a quote whose contract has no
\* ticker any more stays as it was.
TickersArrive ==
  /\ loop = "tickers"
  /\ answers < MaxAnswers
  /\ answers' = answers + 1
  /\ \E s \in Scene :
       quotes' = [i \in Symbol |->
                    IF Listed(i, now) /\ s[i] # NoQuote THEN s[i] ELSE quotes[i]]
  /\ loop' = "sample"
  /\ UNCHANGED <<now, instruments, fetchedAt, askedAt>>

ChainTypeOK ==
  /\ now \in Time
  /\ instruments \subseteq Symbol
  /\ fetchedAt \in Time /\ askedAt \in Time
  /\ loop \in {"asleep", "products", "tickers", "sample"}
  /\ answers \in 0 .. MaxAnswers

-----------------------------------------------------------------------------
(* Properties *)

\* The time stamp of refresh_instruments is taken before the request, so it
\* never flatters the cache: whatever the exchange lists or settles while an
\* answer is on its way, no cached contract was settled at the stamp, and once
\* products have come every contract that traded at the stamp and still trades
\* now is there.
StampNeverFlatters ==
  /\ fetchedAt <= now
  /\ \A i \in instruments : fetchedAt < Settlement(i)
  /\ instruments # {} => Live(fetchedAt) \cap Live(now) \subseteq instruments

=============================================================================
