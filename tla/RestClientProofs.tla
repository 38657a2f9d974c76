-------------------------- MODULE RestClientProofs --------------------------
(***************************************************************************)
(* The rate bound and the lock discipline of RestClient, for any number of *)
(* calls, any rate, capacity and cost.                                     *)
(***************************************************************************)
EXTENDS RestClient, SequenceTheorems, TLAPS

\* What the tokens left and the requests already sent may cost together, seen
\* from each of those requests: the strengthening that makes RateBound
\* inductive, because it also counts the tokens that are not used yet.
TokensAccounted ==
    \A b \in Buckets : \A i \in 1..Len(sent[b]) :
        /\ sent[b][i] <= last[b]
        /\ tokens[b] + (Len(sent[b]) - i + 1) * Cost
               <= Capacity + (last[b] - sent[b][i]) * Rate

\* A call counts the attempts it starts, and backs off only to start another.
AttemptsCounted ==
    \A t \in Tasks :
        /\ pc[t] = "idle" => attempt[t] = 0
        /\ pc[t] = "backoff" => attempt[t] < MaxAttempts
        /\ pc[t] \in {"acquire", "sent", "backoff"} => attempt[t] > 0

IInv ==
    /\ TypeOK /\ LockIsHeldByCallers /\ TokensAccounted /\ RateBound /\ AttemptsCounted

-----------------------------------------------------------------------------
(* Lemmas about the operators. *)

\* A refill never loses tokens, never exceeds the capacity and adds no more
\* than the elapsed time brings.
LEMMA RefillFacts ==
    ASSUME TypeOK, NEW b \in Buckets
    PROVE  /\ Refilled(b) \in 0..Capacity
           /\ Refilled(b) <= tokens[b] + (clock - last[b]) * Rate
<1>1. tokens[b] \in 0..Capacity /\ last[b] \in 0..clock /\ clock \in Nat
  BY DEF TypeOK
<1>2. Rate \in Nat /\ Capacity \in Nat
  BY RestAssumption
<1>3. clock - last[b] \in Nat
  BY <1>1
<1>4. (clock - last[b]) * Rate \in Nat
  BY <1>2, <1>3
<1>. QED
  BY <1>1, <1>2, <1>4 DEF Refilled, AtMost

\* The queue q lists the calls in S, each once.
Lists(q, S) ==
    /\ \A i, j \in 1..Len(q) : q[i] = q[j] => i = j
    /\ {q[i] : i \in 1..Len(q)} = S

\* Leaving a queue keeps the others in it.
LEMMA ListsWithout ==
    ASSUME NEW q \in Seq(Tasks), NEW T, NEW t \in T, Lists(q, T)
    PROVE  Without(q, t) \in Seq(Tasks) /\ Lists(Without(q, t), T \ {t})
<1>0. /\ \A i, j \in 1..Len(q) : q[i] = q[j] => i = j
      /\ \E i \in 1..Len(q) : q[i] = t
      /\ {q[i] : i \in 1..Len(q)} = T
  BY DEF Lists
<1>. DEFINE k == CHOOSE i \in 1..Len(q) : q[i] = t
            l == SubSeq(q, 1, k - 1)
            r == SubSeq(q, k + 1, Len(q))
            w == l \o r
<1>1. k \in 1..Len(q) /\ q[k] = t
  BY <1>0
<1>. HIDE DEF k
<1>2. /\ l \in Seq(Tasks) /\ Len(l) = k - 1
      /\ \A i \in 1..(k - 1) : l[i] = q[i]
  BY <1>1
<1>3. /\ r \in Seq(Tasks) /\ Len(r) = Len(q) - k
      /\ \A i \in 1..(Len(q) - k) : r[i] = q[i + k]
  BY <1>1
<1>. HIDE DEF l, r
<1>4. /\ w \in Seq(Tasks) /\ Len(w) = Len(q) - 1
      /\ \A i \in 1..Len(w) : w[i] = IF i < k THEN q[i] ELSE q[i + 1]
  <2>1. Len(q) \in Nat /\ Len(l) \in Nat /\ Len(r) \in Nat
    BY <1>2, <1>3
  <2>2. w \in Seq(Tasks) /\ Len(w) = Len(l) + Len(r)
    BY <1>2, <1>3, ConcatProperties
  <2>3. Len(w) = Len(q) - 1
    BY <2>1, <2>2, <1>1, <1>2, <1>3
  <2>4. ASSUME NEW i \in 1..Len(w)
        PROVE  w[i] = IF i < k THEN q[i] ELSE q[i + 1]
    <3>1. w[i] = IF i <= Len(l) THEN l[i] ELSE r[i - Len(l)]
      BY <2>2, <1>2, <1>3, ConcatProperties
    <3>2. CASE i < k
      BY <3>1, <3>2, <2>1, <1>1, <1>2
    <3>3. CASE ~(i < k)
      <4>1. i - Len(l) \in 1..(Len(q) - k) /\ ~(i <= Len(l))
        BY <3>3, <2>1, <2>3, <1>1, <1>2
      <4>2. r[i - Len(l)] = q[(i - Len(l)) + k]
        BY <4>1, <1>3
      <4>3. (i - Len(l)) + k = i + 1
        BY <1>1, <1>2, <2>1, <2>3
      <4>. QED
        BY <3>1, <3>3, <4>1, <4>2, <4>3
    <3>. QED
      BY <3>2, <3>3
  <2>. QED
    BY <2>2, <2>3, <2>4
<1>5. Without(q, t) = w
  BY DEF Without, k, l, r
<1>. HIDE DEF w
<1>. DEFINE v == Without(q, t)
<1>6. /\ v \in Seq(Tasks) /\ Len(v) = Len(q) - 1
      /\ \A i \in 1..Len(v) : v[i] = IF i < k THEN q[i] ELSE q[i + 1]
  BY <1>4, <1>5
<1>7. \A i, j \in 1..Len(v) : v[i] = v[j] => i = j
  <2>. SUFFICES ASSUME NEW i \in 1..Len(v), NEW j \in 1..Len(v), v[i] = v[j]
                PROVE  i = j
    OBVIOUS
  <2>. DEFINE old(n) == IF n < k THEN n ELSE n + 1
  <2>1. old(i) \in 1..Len(q) /\ old(j) \in 1..Len(q)
    BY <1>1, <1>6
  <2>2. q[old(i)] = q[old(j)]
    BY <1>6
  <2>3. old(i) = old(j)
    BY <2>1, <2>2, <1>0
  <2>. QED
    BY <2>3, <1>1, <1>6
<1>8. {v[i] : i \in 1..Len(v)} = {q[i] : i \in 1..Len(q)} \ {t}
  <2>1. ASSUME NEW i \in 1..Len(v)
        PROVE  v[i] \in {q[j] : j \in 1..Len(q)} \ {t}
    <3>. DEFINE n == IF i < k THEN i ELSE i + 1
    <3>1. n \in 1..Len(q) /\ v[i] = q[n] /\ n # k
      BY <1>1, <1>6
    <3>2. q[n] # t
      BY <3>1, <1>0, <1>1
    <3>. QED
      BY <3>1, <3>2
  <2>2. ASSUME NEW j \in 1..Len(q), q[j] # t
        PROVE  \E i \in 1..Len(v) : v[i] = q[j]
    <3>1. CASE j < k
      BY <3>1, <1>1, <1>6
    <3>2. CASE j > k
      <4>1. j - 1 \in 1..Len(v) /\ v[j - 1] = q[j]
        BY <3>2, <1>1, <1>6
      <4>. QED
        BY <4>1
    <3>. QED
      BY <3>1, <3>2, <2>2, <1>1
  <2>. QED
    BY <2>1, <2>2
<1>. QED
  BY <1>0, <1>6, <1>7, <1>8 DEF Lists

LEMMA BucketOfCall ==
    ASSUME NEW t \in Tasks
    PROVE  BucketOf(t) \in Buckets
  BY DEF Buckets

LEMMA InitHolds == Init => IInv
<1>. SUFFICES ASSUME Init PROVE IInv
  OBVIOUS
<1>1. TypeOK
  BY RestAssumption DEF Init, TypeOK
<1>2. LockIsHeldByCallers
  BY DEF Init, LockIsHeldByCallers
<1>3. TokensAccounted /\ RateBound
  BY DEF Init, TokensAccounted, RateBound
<1>4. AttemptsCounted
  BY DEF Init, AttemptsCounted
<1>. QED
  BY <1>1, <1>2, <1>3, <1>4 DEF IInv

-----------------------------------------------------------------------------
(* The bucket: tokens, refill and the history of requests. *)

\* A refill without a request (SleepForTokens, Snapshot).
LEMMA RefillKeepsAccount ==
    ASSUME TypeOK, TokensAccounted, RateBound, NEW b \in Buckets,
           tokens' = [tokens EXCEPT ![b] = Refilled(b)],
           last' = [last EXCEPT ![b] = clock],
           UNCHANGED <<clock, sent>>
    PROVE  /\ tokens' \in [Buckets -> 0..Capacity]
           /\ last' \in [Buckets -> 0..clock']
           /\ TokensAccounted'
           /\ RateBound'
<1>1. /\ Refilled(b) \in 0..Capacity
      /\ Refilled(b) <= tokens[b] + (clock - last[b]) * Rate
  BY RefillFacts
<1>2. tokens' \in [Buckets -> 0..Capacity] /\ last' \in [Buckets -> 0..clock']
  BY <1>1 DEF TypeOK
<1>3. ASSUME NEW c \in Buckets, NEW i \in 1..Len(sent[c])
      PROVE  /\ sent[c][i] <= last'[c]
             /\ tokens'[c] + (Len(sent[c]) - i + 1) * Cost
                    <= Capacity + (last'[c] - sent[c][i]) * Rate
  <2>1. CASE c # b
    BY <2>1, <1>3 DEF TypeOK, TokensAccounted
  <2>2. CASE c = b
    <3>. DEFINE n == Len(sent[b]) - i + 1
                x == sent[b][i]
    <3>1. /\ x <= last[b]
          /\ tokens[b] + n * Cost <= Capacity + (last[b] - x) * Rate
      BY <2>2 DEF TokensAccounted
    <3>2. x \in Int /\ n \in Int /\ clock \in Int /\ last[b] \in Int /\ tokens[b] \in Int
      BY <2>2 DEF TypeOK
    <3>3. last[b] <= clock
      BY DEF TypeOK
    <3>4. Rate \in Int /\ Cost \in Int /\ Capacity \in Int
      BY RestAssumption
    <3>. HIDE DEF n, x
    <3>. DEFINE gained == (clock - last[b]) * Rate
                before == (last[b] - x) * Rate
                after == (clock - x) * Rate
                spent == n * Cost
    <3>5. gained + before = after
      BY <3>2, <3>4
    <3>6. gained \in Int /\ before \in Int /\ after \in Int /\ spent \in Int
      BY <3>2, <3>4
    <3>7. Refilled(b) <= tokens[b] + gained /\ tokens[b] + spent <= Capacity + before
      BY <3>1, <1>1
    <3>. HIDE DEF gained, before, after, spent
    <3>8. Refilled(b) + spent <= Capacity + after
      BY <3>2, <3>4, <3>5, <3>6, <3>7, <1>1
    <3>9. Refilled(b) + n * Cost <= Capacity + (clock - x) * Rate
      BY <3>8 DEF spent, after
    <3>10. last'[b] = clock /\ tokens'[b] = Refilled(b)
      BY DEF TypeOK
    <3>. QED
      BY <3>9, <3>10, <3>1, <3>2, <3>3, <2>2 DEF n, x
  <2>. QED
    BY <2>1, <2>2
<1>4. TokensAccounted'
  BY <1>3 DEF TokensAccounted
<1>5. RateBound'
  BY DEF RateBound
<1>. QED
  BY <1>2, <1>4, <1>5

\* The tokens of one request are taken.
LEMMA AcquireKeepsAccount ==
    ASSUME TypeOK, TokensAccounted, RateBound, NEW t \in Tasks, Acquire(t)
    PROVE  /\ tokens' \in [Buckets -> 0..Capacity]
           /\ last' \in [Buckets -> 0..clock']
           /\ sent' \in [Buckets -> Seq(0..clock')]
           /\ TokensAccounted'
           /\ RateBound'
<1>. DEFINE b == BucketOf(t)
            n == Len(sent[b])
<1>1. b \in Buckets
  BY BucketOfCall
<1>2. /\ Refilled(b) \in 0..Capacity
      /\ Refilled(b) <= tokens[b] + (clock - last[b]) * Rate
  BY <1>1, RefillFacts
<1>3. /\ Refilled(b) >= Cost
      /\ tokens' = [tokens EXCEPT ![b] = Refilled(b) - Cost]
      /\ last' = [last EXCEPT ![b] = clock]
      /\ sent' = [sent EXCEPT ![b] = Append(@, clock)]
      /\ clock' = clock
  BY DEF Acquire
<1>. HIDE DEF b
<1>4. Rate \in Nat /\ Cost \in Nat /\ Capacity \in Nat /\ clock \in Nat
  BY RestAssumption DEF TypeOK
<1>5. /\ sent[b] \in Seq(0..clock) /\ n \in Nat /\ tokens[b] \in Nat
      /\ last[b] \in 0..clock
      /\ \A i \in 1..n : sent[b][i] \in 0..clock
  BY <1>1 DEF TypeOK
<1>6. /\ sent'[b] \in Seq(0..clock) /\ Len(sent'[b]) = n + 1
      /\ sent'[b][n + 1] = clock
      /\ \A i \in 1..n : sent'[b][i] = sent[b][i]
      /\ \A c \in Buckets : c # b => sent'[c] = sent[c]
  BY <1>1, <1>3, <1>4, <1>5 DEF TypeOK
<1>7. /\ tokens' \in [Buckets -> 0..Capacity]
      /\ last' \in [Buckets -> 0..clock']
      /\ sent' \in [Buckets -> Seq(0..clock')]
      /\ tokens'[b] = Refilled(b) - Cost
      /\ last'[b] = clock
      /\ \A c \in Buckets : c # b => tokens'[c] = tokens[c] /\ last'[c] = last[c]
  <2>1. Refilled(b) - Cost \in 0..Capacity
    BY <1>2, <1>3, <1>4
  <2>. QED
    BY <2>1, <1>1, <1>3, <1>4, <1>5 DEF TypeOK
<1>8. ASSUME NEW i \in 1..(n + 1)
      PROVE  /\ sent'[b][i] <= clock
             /\ Refilled(b) - Cost + ((n + 1) - i + 1) * Cost
                    <= Capacity + (clock - sent'[b][i]) * Rate
  <2>1. CASE i = n + 1
    <3>1. ((n + 1) - i + 1) * Cost = Cost /\ (clock - sent'[b][i]) * Rate = 0
      BY <2>1, <1>4, <1>5, <1>6
    <3>. QED
      BY <3>1, <2>1, <1>2, <1>4, <1>6
  <2>2. CASE i \in 1..n
    <3>. DEFINE m == n - i + 1
                x == sent[b][i]
    <3>1. x <= last[b] /\ tokens[b] + m * Cost <= Capacity + (last[b] - x) * Rate
      BY <2>2, <1>1 DEF TokensAccounted
    <3>2. x \in Int /\ m \in Int /\ sent'[b][i] = x /\ (n + 1) - i + 1 = m + 1
      <4>1. m \in Int /\ (n + 1) - i + 1 = m + 1
        BY <2>2, <1>5
      <4>2. x \in Int
        BY <2>2, <1>5
      <4>3. sent'[b][i] = x
        BY <2>2, <1>6
      <4>. QED
        BY <4>1, <4>2, <4>3
    <3>3. last[b] \in Int /\ tokens[b] \in Int /\ last[b] <= clock
      BY <1>5
    <3>. HIDE DEF m, x
    <3>. DEFINE gained == (clock - last[b]) * Rate
                before == (last[b] - x) * Rate
                after == (clock - x) * Rate
                spent == m * Cost
    <3>4. (m + 1) * Cost = spent + Cost
      BY <3>2, <1>4
    <3>5. gained + before = after
      BY <3>2, <3>3, <1>4
    <3>6. gained \in Int /\ before \in Int /\ after \in Int /\ spent \in Int
      BY <3>2, <3>3, <1>4
    <3>7. Refilled(b) <= tokens[b] + gained /\ tokens[b] + spent <= Capacity + before
      BY <3>1, <1>2
    <3>. HIDE DEF gained, before, after, spent
    <3>8. Refilled(b) - Cost + (spent + Cost) <= Capacity + after
      <4>1. Refilled(b) \in Int /\ Capacity \in Int /\ Cost \in Int
        BY <1>2, <1>4
      <4>2. Refilled(b) + spent <= Capacity + after
        BY <4>1, <3>3, <3>5, <3>6, <3>7
      <4>. QED
        BY <4>1, <4>2, <3>6
    <3>9. Refilled(b) - Cost + ((n + 1) - i + 1) * Cost <= Capacity + after
      BY <3>2, <3>4, <3>8
    <3>10. (clock - sent'[b][i]) * Rate = after
      BY <3>2 DEF after
    <3>11. sent'[b][i] <= clock
      BY <3>1, <3>2, <3>3, <1>4
    <3>. QED
      BY <3>9, <3>10, <3>11
  <2>. QED
    BY <2>1, <2>2, <1>5
<1>9. TokensAccounted'
  <2>. SUFFICES ASSUME NEW c \in Buckets, NEW i \in 1..Len(sent'[c])
                PROVE  /\ sent'[c][i] <= last'[c]
                       /\ tokens'[c] + (Len(sent'[c]) - i + 1) * Cost
                              <= Capacity + (last'[c] - sent'[c][i]) * Rate
    BY DEF TokensAccounted
  <2>1. CASE c = b
    BY <2>1, <1>6, <1>7, <1>8
  <2>2. CASE c # b
    BY <2>2, <1>6, <1>7 DEF TokensAccounted
  <2>. QED
    BY <2>1, <2>2
<1>10. RateBound'
  <2>. SUFFICES ASSUME NEW c \in Buckets, NEW i \in 1..Len(sent'[c]),
                       NEW j \in 1..Len(sent'[c]), i <= j
                PROVE  (j - i + 1) * Cost
                           <= Capacity + (sent'[c][j] - sent'[c][i]) * Rate
    BY DEF RateBound
  <2>1. CASE c # b
    BY <2>1, <1>6 DEF RateBound
  <2>2. CASE c = b /\ j # n + 1
    <3>1. i \in 1..n /\ j \in 1..n
      BY <2>2, <1>5, <1>6
    <3>. QED
      BY <3>1, <2>2, <1>1, <1>6 DEF RateBound
  <2>3. CASE c = b /\ j = n + 1
    <3>. DEFINE k == ((n + 1) - i + 1) * Cost
                z == (clock - sent'[b][i]) * Rate
    <3>1. Refilled(b) - Cost + k <= Capacity + z
      BY <2>3, <1>6, <1>8
    <3>2. sent'[b][i] \in Int
      BY <2>3, <1>6, <1>4
    <3>3. k \in Int /\ z \in Int
      <4>1. (n + 1) - i + 1 \in Int /\ clock - sent'[b][i] \in Int
        <5>1. i \in Int /\ n \in Int /\ clock \in Int
          BY <1>4, <1>5
        <5>. QED
          BY <5>1, <3>2
      <4>2. \A x, y \in Int : x * y \in Int
        OBVIOUS
      <4>3. Cost \in Int /\ Rate \in Int
        BY <1>4
      <4>. HIDE DEF n
      <4>. QED
        BY <4>1, <4>2, <4>3
    <3>. HIDE DEF k, z
    <3>4. k <= Capacity + z
      BY <3>1, <3>3, <1>2, <1>3, <1>4
    <3>. QED
      BY <3>4, <2>3, <1>6 DEF k, z
  <2>. QED
    BY <2>1, <2>2, <2>3
<1>. QED
  BY <1>7, <1>9, <1>10

-----------------------------------------------------------------------------
(* The lock and the effects on the exchange. *)

LEMMA Unbucketed ==
    ASSUME TokensAccounted, RateBound, UNCHANGED <<tokens, last, sent>>
    PROVE  TokensAccounted' /\ RateBound'
  BY DEF TokensAccounted, RateBound

Callers(b) == {t \in Tasks : pc[t] = "acquire" /\ BucketOf(t) = b}

LEMMA LockIsLists == LockIsHeldByCallers <=> \A b \in Buckets : Lists(queue[b], Callers(b))
  BY DEF LockIsHeldByCallers, Lists, Callers

LEMMA ListsAppend ==
    ASSUME NEW q \in Seq(Tasks), NEW S, NEW t \in Tasks, t \notin S, Lists(q, S)
    PROVE  Lists(Append(q, t), S \union {t})
<1>. DEFINE a == Append(q, t)
<1>1. /\ Len(q) \in Nat /\ Len(a) = Len(q) + 1 /\ a[Len(q) + 1] = t
      /\ \A i \in 1..Len(q) : a[i] = q[i]
  OBVIOUS
<1>2. \A i \in 1..Len(q) : q[i] # t
  BY DEF Lists
<1>3. \A i, j \in 1..Len(q) : q[i] = q[j] => i = j
  BY DEF Lists
<1>4. {q[i] : i \in 1..Len(q)} = S
  BY DEF Lists
<1>. HIDE DEF a
<1>5. \A i, j \in 1..Len(a) : a[i] = a[j] => i = j
  BY <1>1, <1>2, <1>3
<1>6. {a[i] : i \in 1..Len(a)} = S \union {t}
  BY <1>1, <1>4
<1>. QED
  BY <1>5, <1>6 DEF Lists, a

LEMMA ListsTail ==
    ASSUME NEW q \in Seq(Tasks), NEW S, q # <<>>, Lists(q, S)
    PROVE  Lists(Tail(q), S \ {Head(q)})
<1>. DEFINE r == Tail(q)
<1>1. /\ Len(q) \in Nat \ {0} /\ Len(r) = Len(q) - 1 /\ Head(q) = q[1]
      /\ \A i \in 1..Len(r) : r[i] = q[i + 1]
  OBVIOUS
<1>2. \A i, j \in 1..Len(q) : q[i] = q[j] => i = j
  BY DEF Lists
<1>3. {q[i] : i \in 1..Len(q)} = S
  BY DEF Lists
<1>. HIDE DEF r
<1>4. \A i, j \in 1..Len(r) : r[i] = r[j] => i = j
  BY <1>1, <1>2
<1>5. ASSUME NEW i \in 1..Len(r)
      PROVE  r[i] \in S \ {Head(q)}
  BY <1>1, <1>2, <1>3
<1>6. ASSUME NEW x \in S, x # Head(q)
      PROVE  \E i \in 1..Len(r) : r[i] = x
  <2>1. PICK j \in 1..Len(q) : q[j] = x
    BY <1>3
  <2>2. j - 1 \in 1..Len(r) /\ r[j - 1] = x
    BY <2>1, <1>1, <1>6
  <2>. QED
    BY <2>2
<1>7. {r[i] : i \in 1..Len(r)} = S \ {Head(q)}
  BY <1>5, <1>6
<1>. QED
  BY <1>4, <1>7 DEF Lists, r

\* One call changes its place: the queues of the other buckets stay, and the
\* queue of its own follows.
LEMMA OneCallMoves ==
    ASSUME TypeOK, LockIsHeldByCallers, NEW t \in Tasks, NEW p, NEW q \in Seq(Tasks),
           pc' = [pc EXCEPT ![t] = p],
           queue' = [queue EXCEPT ![BucketOf(t)] = q],
           Lists(q, IF p = "acquire" THEN Callers(BucketOf(t)) \union {t}
                                     ELSE Callers(BucketOf(t)) \ {t})
    PROVE  queue' \in [Buckets -> Seq(Tasks)] /\ LockIsHeldByCallers'
<1>. DEFINE b == BucketOf(t)
<1>1. b \in Buckets
  BY BucketOfCall
<1>2. queue' \in [Buckets -> Seq(Tasks)]
  BY <1>1 DEF TypeOK
<1>3. ASSUME NEW c \in Buckets
      PROVE  Lists(queue'[c], Callers(c)')
  <2>1. CASE c = b
    <3>1. queue'[c] = q
      BY <2>1, <1>1 DEF TypeOK
    <3>2. Callers(c)' = IF p = "acquire" THEN Callers(b) \union {t} ELSE Callers(b) \ {t}
      BY <2>1 DEF Callers, TypeOK
    <3>. QED
      BY <3>1, <3>2
  <2>2. CASE c # b
    <3>1. queue'[c] = queue[c]
      BY <2>2, <1>1 DEF TypeOK
    <3>2. Callers(c)' = Callers(c)
      BY <2>2 DEF Callers, TypeOK
    <3>. QED
      BY <3>1, <3>2, LockIsLists
  <2>. QED
    BY <2>1, <2>2
<1>4. LockIsHeldByCallers'
  BY <1>3 DEF LockIsHeldByCallers, Lists, Callers
<1>. QED
  BY <1>2, <1>4

LEMMA JoinKeepsLock ==
    ASSUME TypeOK, LockIsHeldByCallers, NEW t \in Tasks, pc[t] # "acquire", JoinQueue(t)
    PROVE  queue' \in [Buckets -> Seq(Tasks)] /\ LockIsHeldByCallers'
<1>. DEFINE q == queue[BucketOf(t)]
<1>1. q \in Seq(Tasks) /\ Lists(q, Callers(BucketOf(t))) /\ t \notin Callers(BucketOf(t))
  BY BucketOfCall, LockIsLists DEF TypeOK, Callers
<1>2. Append(q, t) \in Seq(Tasks)
          /\ Lists(Append(q, t), Callers(BucketOf(t)) \union {t})
  BY <1>1, ListsAppend
<1>3. /\ queue' = [queue EXCEPT ![BucketOf(t)] = Append(q, t)]
      /\ pc' = [pc EXCEPT ![t] = "acquire"]
  BY DEF JoinQueue
<1>. QED
  BY <1>2, <1>3, OneCallMoves

LEMMA AcquireKeepsLock ==
    ASSUME TypeOK, LockIsHeldByCallers, NEW t \in Tasks, Acquire(t)
    PROVE  queue' \in [Buckets -> Seq(Tasks)] /\ LockIsHeldByCallers'
<1>. DEFINE q == queue[BucketOf(t)]
<1>1. q \in Seq(Tasks) /\ Lists(q, Callers(BucketOf(t)))
  BY BucketOfCall, LockIsLists DEF TypeOK
<1>2. q # <<>> /\ Head(q) = t
  BY DEF Acquire, Holds
<1>3. Tail(q) \in Seq(Tasks) /\ Lists(Tail(q), Callers(BucketOf(t)) \ {t})
  BY <1>1, <1>2, ListsTail
<1>4. /\ queue' = [queue EXCEPT ![BucketOf(t)] = Tail(q)]
      /\ pc' = [pc EXCEPT ![t] = "sent"]
  BY DEF Acquire
<1>. QED
  BY <1>3, <1>4, OneCallMoves

\* A call that is not in acquire() ends, replies or backs off.
LEMMA OthersKeepLock ==
    ASSUME TypeOK, LockIsHeldByCallers, NEW t \in Tasks, NEW p,
           pc[t] # "acquire", p # "acquire",
           pc' = [pc EXCEPT ![t] = p], queue' = queue
    PROVE  queue' \in [Buckets -> Seq(Tasks)] /\ LockIsHeldByCallers'
<1>1. \A b \in Buckets : Callers(b)' = Callers(b)
  BY DEF Callers, TypeOK
<1>2. \A b \in Buckets : Lists(queue'[b], Callers(b)')
  BY <1>1, LockIsLists
<1>. QED
  BY <1>2 DEF LockIsHeldByCallers, Lists, Callers, TypeOK

LEMMA CancelKeepsTheLock ==
    ASSUME TypeOK, LockIsHeldByCallers, NEW t \in Tasks, Cancel(t)
    PROVE  queue' \in [Buckets -> Seq(Tasks)] /\ LockIsHeldByCallers'
<1>1. CASE pc[t] = "acquire"
  <2>. DEFINE q == queue[BucketOf(t)]
  <2>1. q \in Seq(Tasks) /\ Lists(q, Callers(BucketOf(t))) /\ t \in Callers(BucketOf(t))
    BY <1>1, BucketOfCall, LockIsLists DEF TypeOK, Callers
  <2>2. Without(q, t) \in Seq(Tasks) /\ Lists(Without(q, t), Callers(BucketOf(t)) \ {t})
    BY <2>1, ListsWithout
  <2>3. /\ queue' = [queue EXCEPT ![BucketOf(t)] = Without(q, t)]
        /\ pc' = [pc EXCEPT ![t] = "cancelled"]
    BY <1>1 DEF Cancel
  <2>. QED
    BY <2>2, <2>3, OneCallMoves
<1>2. CASE pc[t] # "acquire"
  <2>1. queue' = queue /\ pc' = [pc EXCEPT ![t] = "cancelled"]
    BY <1>2 DEF Cancel
  <2>. QED
    BY <1>2, <2>1, OthersKeepLock
<1>. QED
  BY <1>1, <1>2

-----------------------------------------------------------------------------
(* The invariant. *)

LEMMA NextKeeps == IInv /\ [Next]_vars => IInv'
<1>. SUFFICES ASSUME IInv, [Next]_vars PROVE IInv'
  OBVIOUS
<1>. USE RestAssumption
<1>0. /\ TypeOK /\ LockIsHeldByCallers /\ TokensAccounted /\ RateBound /\ AttemptsCounted
  BY DEF IInv
<1>1. ASSUME NEW t \in Tasks, Call(t) \/ Retry(t) PROVE IInv'
  <2>1. JoinQueue(t) /\ pc[t] # "acquire" /\ UNCHANGED <<clock, tokens, last, sent>>
    BY <1>1 DEF Call, Retry
  <2>2. queue' \in [Buckets -> Seq(Tasks)] /\ LockIsHeldByCallers'
    BY <1>0, <2>1, JoinKeepsLock
  <2>3. attempt[t] + 1 \in 1..MaxAttempts
    BY <1>0, <1>1 DEF Call, Retry, AttemptsCounted, TypeOK
  <2>4. TypeOK'
    <3>1. attempt' \in [Tasks -> 0..MaxAttempts]
      BY <1>0, <2>1, <2>3 DEF JoinQueue, TypeOK
    <3>2. pc' \in [Tasks -> {"idle", "acquire", "sent", "backoff"} \union Ended]
      BY <1>0, <2>1 DEF JoinQueue, TypeOK
    <3>3. wake' \in [Tasks -> Nat]
      BY <1>0, <2>1 DEF JoinQueue, TypeOK
    <3>. QED
      BY <1>0, <2>1, <2>2, <3>1, <3>2, <3>3 DEF TypeOK
  <2>5. AttemptsCounted'
    BY <1>0, <2>1, <2>3 DEF JoinQueue, AttemptsCounted, TypeOK
  <2>. QED
    BY <1>0, <2>1, <2>2, <2>4, <2>5, Unbucketed DEF IInv
<1>2. ASSUME NEW t \in Tasks, Acquire(t) PROVE IInv'
  <2>1. queue' \in [Buckets -> Seq(Tasks)] /\ LockIsHeldByCallers'
    BY <1>0, <1>2, AcquireKeepsLock
  <2>2. /\ tokens' \in [Buckets -> 0..Capacity]
        /\ last' \in [Buckets -> 0..clock']
        /\ sent' \in [Buckets -> Seq(0..clock')]
        /\ TokensAccounted' /\ RateBound'
    BY <1>0, <1>2, AcquireKeepsAccount
  <2>3. /\ pc[t] = "acquire" /\ pc' = [pc EXCEPT ![t] = "sent"]
        /\ wake' = [wake EXCEPT ![t] = 0]
        /\ UNCHANGED <<clock, attempt>>
    BY <1>2 DEF Acquire
  <2>4. TypeOK'
    BY <1>0, <2>1, <2>2, <2>3 DEF TypeOK
  <2>5. AttemptsCounted'
    BY <1>0, <2>3 DEF AttemptsCounted, TypeOK
  <2>. QED
    BY <2>1, <2>2, <2>4, <2>5 DEF IInv
<1>3. ASSUME NEW b \in Buckets,
             tokens' = [tokens EXCEPT ![b] = Refilled(b)],
             last' = [last EXCEPT ![b] = clock],
             wake' \in [Tasks -> Nat],
             UNCHANGED <<clock, queue, pc, attempt, sent>>
      PROVE  IInv'
  <2>1. /\ tokens' \in [Buckets -> 0..Capacity]
        /\ last' \in [Buckets -> 0..clock']
        /\ TokensAccounted' /\ RateBound'
    BY <1>0, <1>3, RefillKeepsAccount
  <2>2. TypeOK'
    BY <1>0, <1>3, <2>1 DEF TypeOK
  <2>3. LockIsHeldByCallers' /\ AttemptsCounted'
    BY <1>0, <1>3 DEF LockIsHeldByCallers, AttemptsCounted
  <2>. QED
    BY <2>1, <2>2, <2>3 DEF IInv
<1>4. ASSUME NEW t \in Tasks, SleepForTokens(t) PROVE IInv'
  <2>1. Refilled(BucketOf(t)) \in 0..Capacity /\ BucketOf(t) \in Buckets
    BY <1>0, RefillFacts, BucketOfCall
  <2>2. Pause(Cost - Refilled(BucketOf(t))) \in Nat
    BY <1>4, <2>1 DEF SleepForTokens, Pause
  <2>3. wake' \in [Tasks -> Nat]
    BY <1>0, <1>4, <2>2 DEF SleepForTokens, TypeOK
  <2>. QED
    BY <1>3, <1>4, <2>1, <2>3 DEF SleepForTokens
<1>5. ASSUME NEW b \in Buckets, Snapshot(b) PROVE IInv'
  BY <1>0, <1>3, <1>5 DEF Snapshot, TypeOK
<1>6. ASSUME NEW t \in Tasks, ReplyOk(t) \/ ReplyFatal(t) \/ ReplyRetryable(t) PROVE IInv'
  <2>1. PICK p \in {"returned", "raised", "backoff"} :
            /\ pc' = [pc EXCEPT ![t] = p]
            /\ p = "backoff" => attempt[t] < MaxAttempts
    BY <1>6 DEF ReplyOk, ReplyFatal, ReplyRetryable
  <2>2. pc[t] = "sent" /\ UNCHANGED <<clock, tokens, last, queue, attempt, sent>>
    BY <1>6 DEF ReplyOk, ReplyFatal, ReplyRetryable
  <2>3. wake' \in [Tasks -> Nat]
    <3>1. CASE wake' = wake
      BY <3>1, <1>0 DEF TypeOK
    <3>2. CASE ReplyRetryable(t) /\ attempt[t] < MaxAttempts
      <4>1. PICK w \in Backoff(attempt[t]) : wake' = [wake EXCEPT ![t] = clock + w]
        BY <3>2 DEF ReplyRetryable
      <4>2. w \in Nat
        BY <4>1 DEF Backoff
      <4>. QED
        BY <4>1, <4>2, <1>0 DEF TypeOK
    <3>. QED
      BY <3>1, <3>2, <1>6 DEF ReplyOk, ReplyFatal, ReplyRetryable
  <2>4. queue' \in [Buckets -> Seq(Tasks)] /\ LockIsHeldByCallers'
    BY <1>0, <2>1, <2>2, OthersKeepLock
  <2>5. TypeOK'
    BY <1>0, <2>1, <2>2, <2>3, <2>4 DEF TypeOK, Ended
  <2>6. AttemptsCounted'
    BY <1>0, <2>1, <2>2 DEF AttemptsCounted, TypeOK
  <2>. QED
    BY <1>0, <2>2, <2>4, <2>5, <2>6, Unbucketed DEF IInv
<1>7. ASSUME NEW t \in Tasks, Cancel(t) PROVE IInv'
  <2>1. queue' \in [Buckets -> Seq(Tasks)] /\ LockIsHeldByCallers'
    BY <1>0, <1>7, CancelKeepsTheLock
  <2>2. /\ pc' = [pc EXCEPT ![t] = "cancelled"] /\ wake' = [wake EXCEPT ![t] = 0]
        /\ UNCHANGED <<clock, tokens, last, attempt, sent>>
    BY <1>7 DEF Cancel
  <2>3. TypeOK'
    BY <1>0, <2>1, <2>2 DEF TypeOK, Ended
  <2>4. AttemptsCounted'
    BY <1>0, <2>2 DEF AttemptsCounted, TypeOK
  <2>. QED
    BY <1>0, <2>1, <2>2, <2>3, <2>4, Unbucketed DEF IInv
<1>8. ASSUME TimePasses PROVE IInv'
  <2>1. clock' = clock + 1 /\ UNCHANGED <<tokens, last, queue, pc, attempt, wake, sent>>
    BY <1>8 DEF TimePasses
  <2>2. clock \in Nat /\ 0..clock \subseteq 0..clock'
    BY <1>0, <2>1 DEF TypeOK
  <2>3. TypeOK'
    BY <1>0, <2>1, <2>2 DEF TypeOK
  <2>4. LockIsHeldByCallers' /\ AttemptsCounted'
    BY <1>0, <2>1 DEF LockIsHeldByCallers, AttemptsCounted
  <2>. QED
    BY <1>0, <2>1, <2>3, <2>4, Unbucketed DEF IInv
<1>9. ASSUME UNCHANGED vars PROVE IInv'
  BY <1>0, <1>9 DEF vars, IInv, TypeOK, LockIsHeldByCallers, TokensAccounted, RateBound,
                     AttemptsCounted
<1>. QED
  BY <1>1, <1>2, <1>4, <1>5, <1>6, <1>7, <1>8, <1>9 DEF Next, Step

-----------------------------------------------------------------------------
(* The theorems. *)

\* The inductive invariant of the REST client: types, the lock, the tokens that
\* are left and spent, and the attempts.
THEOREM InductiveInvariant == Spec => []IInv
<1>1. Init => IInv
  BY InitHolds
<1>2. IInv /\ [Next]_vars => IInv'
  BY NextKeeps
<1>. QED
  BY <1>1, <1>2, PTL DEF Spec

\* The state of the REST client and its buckets keeps its types; in particular
\* no bucket ever holds more than its capacity or less than nothing.
THEOREM TypeCorrect == Spec => []TypeOK
<1>1. IInv => TypeOK
  BY DEF IInv
<1>. QED
  BY <1>1, InductiveInvariant, PTL

\* The rate limiter (TokenBucket.acquire): in any stretch of time a bucket lets
\* no more requests go than its capacity and the tokens of that stretch allow.
THEOREM RateIsBounded == Spec => []RateBound
<1>1. IInv => RateBound
  BY DEF IInv
<1>. QED
  BY <1>1, InductiveInvariant, PTL

\* The lock of a bucket (async with self._lock) is held and waited for exactly
\* by the calls that are in acquire(), whichever of them are cancelled.
THEOREM LockFollowsCallers == Spec => []LockIsHeldByCallers
<1>1. IInv => LockIsHeldByCallers
  BY DEF IInv
<1>. QED
  BY <1>1, InductiveInvariant, PTL
=============================================================================
