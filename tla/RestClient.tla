----------------------------- MODULE RestClient -----------------------------
(***************************************************************************)
(* DeltaRestClient._request (src/bot/exchange/rest.py) and the two token   *)
(* buckets every call goes through (src/bot/exchange/rate_limit.py).       *)
(*                                                                         *)
(* Calls are concurrent asyncio tasks.  An attempt waits for its bucket's  *)
(* lock, which asyncio.Lock grants in the order of arrival and which the   *)
(* holder keeps while it sleeps for tokens; it then sends the request, and *)
(* a retryable outcome (429, 5xx, transport error) starts another attempt  *)
(* after a backoff.  A task may be cancelled at any await (TradingEngine.  *)
(* stop cancels the loops).                                                *)
(*                                                                         *)
(* Time is an integer in units of half a second, the first backoff.  The   *)
(* exchange is external, and what it does with a request that is sent      *)
(* again is not part of this model: LiveEntry and TradeEngine let a call   *)
(* that raised have placed its order.                                      *)
(***************************************************************************)
EXTENDS Integers, Sequences

CONSTANTS
    Tasks,          \* the calls of the program
    OrderCalls,     \* those made with is_order=True
    Rate,           \* tokens a bucket gains in a unit of time
    Capacity,       \* tokens a full bucket holds
    Cost,           \* tokens of one acquire()
    MaxAttempts,    \* stop_after_attempt
    EndTime         \* bound: later, time passes only for tasks that sleep

ASSUME RestAssumption ==
    /\ OrderCalls \subseteq Tasks
    /\ Rate \in Nat \ {0}
    /\ Capacity \in Nat
    /\ Cost \in Nat \ {0}
    /\ Cost <= Capacity
    /\ MaxAttempts \in Nat \ {0}
    /\ EndTime \in Nat

VARIABLES
    clock,      \* time.monotonic()
    tokens,     \* _tokens of each bucket
    last,       \* _last_refill of each bucket
    queue,      \* holder of each bucket's _lock, then those who wait for it
    pc,         \* where a call is
    attempt,    \* the attempt it is in
    wake,       \* when its sleep ends, or 0
    sent        \* history: the times at which a bucket let a request go

vars == <<clock, tokens, last, queue, pc, attempt, wake, sent>>

BucketOf(t) == IF t \in OrderCalls THEN "order" ELSE "general"
Buckets == {BucketOf(t) : t \in Tasks}

Ended == {"returned", "raised", "cancelled"}

TypeOK ==
    /\ clock \in Nat
    /\ tokens \in [Buckets -> 0..Capacity]
    /\ last \in [Buckets -> 0..clock]
    /\ queue \in [Buckets -> Seq(Tasks)]
    /\ pc \in [Tasks -> {"idle", "acquire", "sent", "backoff"} \union Ended]
    /\ attempt \in [Tasks -> 0..MaxAttempts]
    /\ wake \in [Tasks -> Nat]
    /\ sent \in [Buckets -> Seq(0..clock)]

Init ==
    /\ clock = 0
    /\ tokens = [b \in Buckets |-> Capacity]
    /\ last = [b \in Buckets |-> 0]
    /\ queue = [b \in Buckets |-> <<>>]
    /\ pc = [t \in Tasks |-> "idle"]
    /\ attempt = [t \in Tasks |-> 0]
    /\ wake = [t \in Tasks |-> 0]
    /\ sent = [b \in Buckets |-> <<>>]

-----------------------------------------------------------------------------
(* The token bucket. *)

AtMost(a, b) == IF a <= b THEN a ELSE b

\* Mutant: the refill forgets the capacity.
RefilledUncapped(b) == tokens[b] + (clock - last[b]) * Rate

\* _refill_locked: what the bucket holds now; _last_refill becomes the clock.
Refilled(b) == AtMost(Capacity, tokens[b] + (clock - last[b]) * Rate)

\* The sleep that makes up for a deficit: deficit / rate, and a sleep never
\* ends early.
Pause(deficit) == (deficit + Rate - 1) \div Rate

\* Joins the lock's queue: the first step of an attempt.
JoinQueue(t) ==
    /\ queue' = [queue EXCEPT ![BucketOf(t)] = Append(@, t)]
    /\ pc' = [pc EXCEPT ![t] = "acquire"]
    /\ attempt' = [attempt EXCEPT ![t] = @ + 1]
    /\ wake' = [wake EXCEPT ![t] = 0]

Without(q, t) ==
    LET i == CHOOSE i \in 1..Len(q) : q[i] = t
    IN  SubSeq(q, 1, i - 1) \o SubSeq(q, i + 1, Len(q))

Holds(t) == queue[BucketOf(t)] # <<>> /\ Head(queue[BucketOf(t)]) = t

-----------------------------------------------------------------------------
(* The steps of a call. *)

Call(t) ==
    /\ pc[t] = "idle"
    /\ JoinQueue(t)
    /\ UNCHANGED <<clock, tokens, last, sent>>

\* Mutant: _last_refill is left alone when the tokens are taken.
AcquireUnstamped(t) ==
    /\ pc[t] = "acquire"
    /\ Holds(t)
    /\ clock >= wake[t]
    /\ Refilled(BucketOf(t)) >= Cost
    /\ tokens' = [tokens EXCEPT ![BucketOf(t)] = Refilled(BucketOf(t)) - Cost]
    /\ sent' = [sent EXCEPT ![BucketOf(t)] = Append(@, clock)]
    /\ queue' = [queue EXCEPT ![BucketOf(t)] = Tail(@)]
    /\ pc' = [pc EXCEPT ![t] = "sent"]
    /\ wake' = [wake EXCEPT ![t] = 0]
    /\ UNCHANGED <<clock, last, attempt>>

\* Mutant: the last token cannot be used (> for >=).
AcquireStrict(t) ==
    /\ pc[t] = "acquire"
    /\ Holds(t)
    /\ clock >= wake[t]
    /\ Refilled(BucketOf(t)) > Cost
    /\ tokens' = [tokens EXCEPT ![BucketOf(t)] = Refilled(BucketOf(t)) - Cost]
    /\ last' = [last EXCEPT ![BucketOf(t)] = clock]
    /\ sent' = [sent EXCEPT ![BucketOf(t)] = Append(@, clock)]
    /\ queue' = [queue EXCEPT ![BucketOf(t)] = Tail(@)]
    /\ pc' = [pc EXCEPT ![t] = "sent"]
    /\ wake' = [wake EXCEPT ![t] = 0]
    /\ UNCHANGED <<clock, attempt>>

\* The holder finds enough tokens: it takes them, lets the lock go and sends
\* the signed request, without an await in between.
Acquire(t) ==
    LET b == BucketOf(t) IN
    /\ pc[t] = "acquire"
    /\ Holds(t)
    /\ clock >= wake[t]
    /\ Refilled(b) >= Cost
    /\ tokens' = [tokens EXCEPT ![b] = Refilled(b) - Cost]
    /\ last' = [last EXCEPT ![b] = clock]
    /\ sent' = [sent EXCEPT ![b] = Append(@, clock)]
    /\ queue' = [queue EXCEPT ![b] = Tail(@)]
    /\ pc' = [pc EXCEPT ![t] = "sent"]
    /\ wake' = [wake EXCEPT ![t] = 0]
    /\ UNCHANGED <<clock, attempt>>

\* The holder finds too few, and sleeps with the lock.
SleepForTokens(t) ==
    LET b == BucketOf(t) IN
    /\ pc[t] = "acquire"
    /\ Holds(t)
    /\ clock >= wake[t]
    /\ Refilled(b) < Cost
    /\ tokens' = [tokens EXCEPT ![b] = Refilled(b)]
    /\ last' = [last EXCEPT ![b] = clock]
    /\ wake' = [wake EXCEPT ![t] = clock + Pause(Cost - Refilled(b))]
    /\ UNCHANGED <<clock, queue, pc, attempt, sent>>

\* A 2xx answer with a good envelope.
ReplyOk(t) ==
    /\ pc[t] = "sent"
    /\ pc' = [pc EXCEPT ![t] = "returned"]
    /\ UNCHANGED <<clock, tokens, last, queue, attempt, wake, sent>>

\* Any other 4xx, an unreadable body or success: false: DeltaRestError.
ReplyFatal(t) ==
    /\ pc[t] = "sent"
    /\ pc' = [pc EXCEPT ![t] = "raised"]
    /\ UNCHANGED <<clock, tokens, last, queue, attempt, wake, sent>>

\* wait_exponential_jitter: half a second doubled with every attempt, and up to
\* half a second more, but never more than ten seconds.
MaxWait == 20
Backoff(n) == {w \in 1..MaxWait : AtMost(2 ^ (n - 1), MaxWait) <= w /\ w <= 2 ^ (n - 1) + 1}

\* 429, 5xx or a transport error: tenacity sleeps, or re-raises the last error.
ReplyRetryable(t) ==
    /\ pc[t] = "sent"
    /\ IF attempt[t] < MaxAttempts
       THEN /\ pc' = [pc EXCEPT ![t] = "backoff"]
            /\ \E w \in Backoff(attempt[t]) : wake' = [wake EXCEPT ![t] = clock + w]
       ELSE /\ pc' = [pc EXCEPT ![t] = "raised"]
            /\ UNCHANGED wake
    /\ UNCHANGED <<clock, tokens, last, queue, attempt, sent>>

Retry(t) ==
    /\ pc[t] = "backoff"
    /\ clock >= wake[t]
    /\ JoinQueue(t)
    /\ UNCHANGED <<clock, tokens, last, sent>>

\* Mutant: a cancelled call lets its lock go only if it waits for it.
CancelLeavesLocked(t) ==
    /\ pc[t] \in {"acquire", "sent", "backoff"}
    /\ pc' = [pc EXCEPT ![t] = "cancelled"]
    /\ queue' = IF pc[t] = "acquire" /\ ~Holds(t)
                THEN [queue EXCEPT ![BucketOf(t)] = Without(@, t)]
                ELSE queue
    /\ wake' = [wake EXCEPT ![t] = 0]
    /\ UNCHANGED <<clock, tokens, last, attempt, sent>>

\* The task is cancelled at the await it is in; `async with` releases the lock,
\* and a waiter leaves the queue.
Cancel(t) ==
    /\ pc[t] \in {"acquire", "sent", "backoff"}
    /\ pc' = [pc EXCEPT ![t] = "cancelled"]
    /\ queue' = IF pc[t] = "acquire"
                THEN [queue EXCEPT ![BucketOf(t)] = Without(@, t)]
                ELSE queue
    /\ wake' = [wake EXCEPT ![t] = 0]
    /\ UNCHANGED <<clock, tokens, last, attempt, sent>>

\* snapshot refills without the lock, for the status command.
Snapshot(b) ==
    /\ tokens' = [tokens EXCEPT ![b] = Refilled(b)]
    /\ last' = [last EXCEPT ![b] = clock]
    /\ UNCHANGED <<clock, queue, pc, attempt, wake, sent>>

Sleeping(t) == pc[t] \in {"acquire", "backoff"} /\ wake[t] > clock

TimePasses ==
    /\ clock < EndTime \/ \E t \in Tasks : Sleeping(t)
    /\ clock' = clock + 1
    /\ UNCHANGED <<tokens, last, queue, pc, attempt, wake, sent>>

Step(t) ==
    \/ Call(t) \/ Acquire(t) \/ SleepForTokens(t) \/ Retry(t)
    \/ ReplyOk(t) \/ ReplyFatal(t) \/ ReplyRetryable(t)

Next ==
    \/ \E t \in Tasks : Step(t) \/ Cancel(t)
    \/ \E b \in Buckets : Snapshot(b)
    \/ TimePasses

Spec == Init /\ [][Next]_vars

\* The event loop runs every task that is ready, the connection answers or
\* times out (DEFAULT_TIMEOUT), and time goes on.
FairSpec ==
    /\ Spec
    /\ WF_vars(TimePasses)
    /\ \A t \in Tasks :
        /\ WF_vars(Acquire(t) \/ SleepForTokens(t))
        /\ WF_vars(Retry(t))
        /\ WF_vars(ReplyOk(t) \/ ReplyFatal(t) \/ ReplyRetryable(t))

-----------------------------------------------------------------------------
(* Properties. *)

\* Over any stretch of time a bucket lets no more requests go than the burst it
\* can store and the tokens that stretch brings: whatever the order in which
\* tasks wait, sleep with the lock, are cancelled or call snapshot.
RateBound ==
    \A b \in Buckets : \A i, j \in 1..Len(sent[b]) :
        i <= j => (j - i + 1) * Cost <= Capacity + (sent[b][j] - sent[b][i]) * Rate

\* The lock of a bucket is held and waited for exactly by the calls that are in
\* acquire() on it, each of them once: a cancelled or finished call neither
\* blocks a bucket nor is served by it.
LockIsHeldByCallers ==
    \A b \in Buckets :
        /\ \A i, j \in 1..Len(queue[b]) : queue[b][i] = queue[b][j] => i = j
        /\ {queue[b][i] : i \in 1..Len(queue[b])}
               = {t \in Tasks : pc[t] = "acquire" /\ BucketOf(t) = b}

\* Every call ends: no sleeper starves those behind it, no lock stays with a
\* task that was cancelled, and retries run out.
CallEnds == \A t \in Tasks : pc[t] # "idle" ~> pc[t] \in Ended
=============================================================================
