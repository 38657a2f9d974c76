------------------------- MODULE TradeEngineProofs -------------------------
(***************************************************************************)
(* The safety properties of TradeEngine, proved for any strategies,        *)
(* underlyings, caps, legs and lots and any number of trades and crashes.  *)
(***************************************************************************)
EXTENDS TradeEngine, TLAPS, FiniteSetTheorems

InExit == pc \in {"exit", "exit_book"}
InEntry == pc \in {"entry", "entry_filled", "entry_failed"}

\* What the loop works on: the trade in hand is OPEN in the database, the trades still
\* to visit are too, and there are intents only between dispatch and end of the tick,
\* when no trade is left to visit.
LoopInv ==
    /\ todo \subseteq Open(trade)
    /\ InExit => cur \in Open(trade)
    /\ InEntry => cur \in Open(trade) /\ trade[cur].legs = <<>> /\ sent[cur] # <<>>
    /\ pc = "entries" \/ InEntry \/ intents = {}
    /\ pc = "entries" \/ InEntry => todo = {}

\* The gate decides on the table as it is: it is the only writer between two reads.
AcctInv == pc = "entries" => acct = Snapshot(trade)

\* Orders are sent for stored rows only; the Leg rows are the legs that were sent, and
\* are stored when each of them has opened the lots.
SentInv ==
    /\ \A t \in Ids : trade[t].status = "none" => sent[t] = <<>>
    /\ \A t \in Ids : trade[t].legs # <<>> =>
        trade[t].legs = sent[t] /\ \A l \in DOMAIN sent[t] : bought[t][l] >= Lots
    /\ pc = "entry_filled" => \A l \in DOMAIN sent[cur] : bought[cur][l] >= Lots

\* The account without what the entry in hand has opened so far is covered by the OPEN
\* trades, in every product that nobody else has left unclean.
OthersClean(p) == \A t \in Opened(p) : (InEntry /\ t = cur) \/ Exact(t)
Within(p, n) ==
    /\ n <= Lots * Cardinality(OpenOn(p, 1))
    /\ - n <= Lots * Cardinality(OpenOn(p, -1))
NetInv ==
    \A p \in Products : OthersClean(p) =>
        /\ \/ InEntry /\ \E l \in DOMAIN sent[cur] : sent[cur][l].product = p
           \/ Within(p, pos[p])
        /\ InEntry => \A l \in DOMAIN sent[cur] : sent[cur][l].product = p =>
              Within(p, pos[p] - sent[cur][l].side * bought[cur][l])

\* submit_exit half way, with every fill complete: each leg behind has taken its lots
\* out of the account, and it cannot become complete if a leg ahead, or one when it
\* began, lacks lots.
ExitNetInv ==
    InExit /\ complete =>
        \A l \in DOMAIN trade[cur].legs :
            LET x == trade[cur].legs[l] IN
            l < leg /\ Clean(x.product) =>
                Facing(x) + Lots <= Lots * Cardinality(OpenOn(x.product, x.side))
ExitInv ==
    InExit /\ complete /\ (\A l \in DOMAIN trade[cur].legs : Clean(trade[cur].legs[l].product)) =>
        whole \/ \E l \in DOMAIN trade[cur].legs : l >= leg /\ Facing(trade[cur].legs[l]) < Lots

BookInv == pc = "exit_book" => complete /\ \A l \in DOMAIN trade[cur].legs : l < leg

\* What this tick exited is in cooldown, and none of it is among the intents.
CoolInv ==
    /\ pc \in {"idle", "down", "dead"} => exited = {}
    /\ \A y \in exited : ExitCooldown(y) \subseteq cool
    /\ \A y \in exited : intents \intersect ExitCooldown(y) = {}

IInv ==
    /\ TypeOK /\ LoopInv /\ AcctInv /\ SentInv /\ NetInv /\ ExitNetInv /\ ExitInv /\ BookInv
    /\ CoolInv /\ ConcurrencyCaps /\ PositionHasTrade

-----------------------------------------------------------------------------
(* Lemmas about the table. *)

CapsHold(rows) ==
    /\ Cardinality(Open(rows)) <= MaxTotal
    /\ \A s \in Strategies :
        Cardinality({t \in Open(rows) : StrategyOf(rows[t]) = s}) <= MaxPerStrategy

\* Sets of ids are finite.
LEMMA IdsFinite == ASSUME NEW S, S \subseteq Ids PROVE IsFiniteSet(S) /\ Cardinality(S) \in Nat
<1>1. IsFiniteSet(Ids)
  BY EngineAssumption, FS_Interval DEF Ids
<1>2. IsFiniteSet(S)
  BY <1>1, FS_Subset
<1> QED
  BY <1>2, FS_CardinalityType

\* A table with fewer open trades meets the caps if the larger one does.
LEMMA CapsShrink ==
  ASSUME NEW old, NEW new, CapsHold(old), Open(new) \subseteq Open(old),
         \A t \in Open(new) : new[t].target = old[t].target
  PROVE  CapsHold(new)
<1>1. ASSUME NEW S, NEW T, T \subseteq Ids, S \subseteq T, NEW n \in Nat, Cardinality(T) <= n
      PROVE  Cardinality(S) <= n
  <2>1. IsFiniteSet(T) /\ Cardinality(T) \in Nat /\ Cardinality(S) \in Nat
    BY <1>1, IdsFinite
  <2>2. Cardinality(S) <= Cardinality(T)
    BY <1>1, <2>1, FS_Subset
  <2> QED
    BY <1>1, <2>1, <2>2
<1>2. Open(old) \subseteq Ids /\ Open(new) \subseteq Ids
  BY DEF Open
<1>3. Cardinality(Open(new)) <= MaxTotal
  BY <1>1, <1>2, EngineAssumption DEF CapsHold
<1>4. ASSUME NEW s \in Strategies
      PROVE  Cardinality({t \in Open(new) : StrategyOf(new[t]) = s}) <= MaxPerStrategy
  <2> DEFINE S == {t \in Open(new) : StrategyOf(new[t]) = s}
             T == {t \in Open(old) : StrategyOf(old[t]) = s}
  <2>1. S \subseteq T /\ T \subseteq Ids
    BY <1>2 DEF StrategyOf
  <2>2. Cardinality(T) <= MaxPerStrategy
    BY <1>4 DEF CapsHold
  <2> HIDE DEF S, T
  <2>3. Cardinality(S) <= MaxPerStrategy
    BY <1>1, <2>1, <2>2, EngineAssumption
  <2> QED
    BY <2>3 DEF S
<1> QED
  BY <1>3, <1>4 DEF CapsHold

\* A table with one more open trade meets the caps if the gate found room for it.
LEMMA CapsGrow ==
  ASSUME NEW old, NEW new, NEW t \in Ids, CapsHold(old),
         t \notin Open(old), Open(new) = Open(old) \union {t},
         \A u \in Open(old) : new[u].target = old[u].target,
         StrategyOf(new[t]) \in Strategies,
         Cardinality(Open(old)) < MaxTotal,
         Cardinality({u \in Open(old) : StrategyOf(old[u]) = StrategyOf(new[t])}) < MaxPerStrategy
  PROVE  CapsHold(new)
<1>1. ASSUME NEW S, S \subseteq Ids, t \notin S, NEW n \in Nat, Cardinality(S) < n
      PROVE  Cardinality(S \union {t}) <= n
  <2>1. IsFiniteSet(S) /\ Cardinality(S) \in Nat
    BY <1>1, IdsFinite
  <2>2. Cardinality(S \union {t}) = Cardinality(S) + 1
    BY <1>1, <2>1, FS_AddElement
  <2> QED
    BY <1>1, <2>1, <2>2
<1>2. Open(old) \subseteq Ids
  BY DEF Open
<1>3. Cardinality(Open(new)) <= MaxTotal
  BY <1>1, <1>2, EngineAssumption
<1>4. ASSUME NEW s \in Strategies
      PROVE  Cardinality({u \in Open(new) : StrategyOf(new[u]) = s}) <= MaxPerStrategy
  <2> DEFINE S == {u \in Open(old) : StrategyOf(old[u]) = s}
             T == {u \in Open(new) : StrategyOf(new[u]) = s}
  <2>1. S \subseteq Ids /\ t \notin S
    BY <1>2
  <2>2. CASE StrategyOf(new[t]) = s
    <3>1. T = S \union {t}
      BY <2>2 DEF StrategyOf
    <3>2. Cardinality(S) < MaxPerStrategy
      BY <2>2
    <3> HIDE DEF S, T
    <3>3. Cardinality(T) <= MaxPerStrategy
      BY <1>1, <2>1, <3>1, <3>2, EngineAssumption
    <3> QED
      BY <3>3 DEF T
  <2>3. CASE StrategyOf(new[t]) # s
    <3>1. T = S
      BY <2>3 DEF StrategyOf
    <3> QED
      BY <1>4, <3>1 DEF CapsHold
  <2> QED
    BY <2>2, <2>3
<1> QED
  BY <1>3, <1>4 DEF CapsHold

\* A stored row is a record with a target, whatever happens to its status or legs.
LEMMA OpenRow ==
  ASSUME TypeOK, NEW t \in Open(trade)
  PROVE  /\ t \in Ids /\ trade[t] \in Row /\ trade[t].status = "OPEN" /\ trade[t].target \in Targets
         /\ \A legs \in Picked : [trade[t] EXCEPT !.legs = legs] \in Row
         /\ \A st \in {"OPEN", "ERRORED", "CLOSED"} : [trade[t] EXCEPT !.status = st] \in Row
<1>1. t \in Ids /\ trade[t].status = "OPEN"
  BY DEF Open
<1>2. trade[t] \in Row
  BY <1>1 DEF TypeOK, Row, NoTrade
<1> QED
  BY <1>1, <1>2 DEF Row

\* _accounting_snapshot counts.
LEMMA SnapshotTyped ==
  ASSUME NEW rows PROVE Snapshot(rows) \in [total : Nat, by : [Strategies -> Nat]]
<1>1. Open(rows) \subseteq Ids
  BY DEF Open
<1>2. Cardinality(Open(rows)) \in Nat
  BY <1>1, IdsFinite
<1>3. ASSUME NEW s \in Strategies
      PROVE  Cardinality({t \in Open(rows) : StrategyOf(rows[t]) = s}) \in Nat
  <2> DEFINE T == {t \in Open(rows) : StrategyOf(rows[t]) = s}
  <2>1. T \subseteq Ids
    BY <1>1
  <2> HIDE DEF T
  <2>2. Cardinality(T) \in Nat
    BY <2>1, IdsFinite
  <2> QED
    BY <2>2 DEF T
<1> QED
  BY <1>2, <1>3 DEF Snapshot

\* A cooldown is a set of targets.
LEMMA CooldownTyped ==
  ASSUME NEW x \in Targets
  PROVE  /\ ExitCooldown(x) \subseteq Strategies \X Underlyings
         /\ EntryFailureCooldown(x) \subseteq Strategies \X Underlyings
  BY EngineAssumption DEF ExitCooldown, EntryFailureCooldown

\* Closing or erroring the trade in hand, or storing its legs, changes that row only.
LEMMA CapsAfterUpdate ==
  ASSUME TypeOK, ConcurrencyCaps, NEW t \in Open(trade), NEW r, trade' = [trade EXCEPT ![t] = r],
         r.target = trade[t].target
  PROVE  ConcurrencyCaps'
<1>1. CapsHold(trade)
  BY DEF ConcurrencyCaps, CapsHold
<1>2. Open(trade') \subseteq Open(trade) /\ \A u \in Open(trade') : trade'[u].target = trade[u].target
  BY DEF Open, TypeOK
<1>3. CapsHold(trade')
  BY <1>1, <1>2, CapsShrink
<1> QED
  BY <1>3 DEF ConcurrencyCaps, CapsHold, Open, StrategyOf

-----------------------------------------------------------------------------
(* Lemmas about the account. *)

\* What TypeOK says of the legs that were sent for a trade.
LEMMA SentTyped ==
  ASSUME TypeOK, NEW t \in Ids, NEW l \in DOMAIN sent[t]
  PROVE  /\ sent[t] \in Picked /\ l \in 1..MaxLegs
         /\ sent[t][l] \in Leg /\ sent[t][l].product \in Products
         /\ (sent[t][l].side = 1 \/ sent[t][l].side = -1)
         /\ bought[t][l] \in 0..(2 * Lots)
         /\ \A m \in DOMAIN sent[t] : sent[t][l].product = sent[t][m].product => l = m
<1>1. sent[t] \in Picked
  <2>1. sent[t] \in {<<>>} \union Picked
    BY DEF TypeOK
  <2> QED
    BY <2>1
<1>2. /\ sent[t] \in Seq(Leg) /\ Len(sent[t]) \in 1..MaxLegs
      /\ \A k, m \in DOMAIN sent[t] : sent[t][k].product = sent[t][m].product => k = m
  BY <1>1, EngineAssumption
<1>3. l \in 1..Len(sent[t]) /\ sent[t][l] \in Leg
  BY <1>2
<1>4. l \in 1..MaxLegs
  BY <1>2, <1>3, EngineAssumption
<1>5. sent[t][l].product \in Products /\ (sent[t][l].side = 1 \/ sent[t][l].side = -1)
  BY <1>3 DEF Leg
<1>6. bought[t][l] \in 0..(2 * Lots)
  <2>1. bought[t] \in [1..MaxLegs -> 0..(2 * Lots)]
    BY DEF TypeOK
  <2> QED
    BY <1>4, <2>1
<1>7. \A m \in DOMAIN sent[t] : sent[t][l].product = sent[t][m].product => l = m
  BY <1>2
<1> QED
  BY <1>1, <1>3, <1>4, <1>5, <1>6, <1>7

\* What TypeOK says of the stored legs of a trade.
LEMMA RowTyped ==
  ASSUME TypeOK, NEW t \in Ids
  PROVE  /\ \E n \in 0..MaxLegs : DOMAIN trade[t].legs = 1..n
         /\ \A l \in DOMAIN trade[t].legs :
              LET x == trade[t].legs[l] IN
              /\ l \in 1..MaxLegs /\ x \in Leg /\ x.product \in Products
              /\ (x.side = 1 \/ x.side = -1)
              /\ x.side * pos[x.product] \in Int
              /\ \A m \in DOMAIN trade[t].legs : x.product = trade[t].legs[m].product => l = m
<1>1. trade[t].legs \in {<<>>} \union Picked
  BY DEF TypeOK, NoTrade, Row
<1>2. CASE trade[t].legs = <<>>
  <2>1. DOMAIN trade[t].legs = 1..0
    BY <1>2
  <2> QED
    BY <2>1, EngineAssumption
<1>3. CASE trade[t].legs \in Picked
  <2>1. /\ trade[t].legs \in Seq(Leg) /\ Len(trade[t].legs) \in 1..MaxLegs
        /\ \A l, m \in DOMAIN trade[t].legs :
             trade[t].legs[l].product = trade[t].legs[m].product => l = m
    BY <1>3, EngineAssumption
  <2>2. DOMAIN trade[t].legs = 1..Len(trade[t].legs) /\ Len(trade[t].legs) \in 0..MaxLegs
    BY <2>1
  <2>3. ASSUME NEW l \in DOMAIN trade[t].legs
        PROVE  /\ l \in 1..MaxLegs /\ trade[t].legs[l] \in Leg
               /\ trade[t].legs[l].product \in Products
               /\ (trade[t].legs[l].side = 1 \/ trade[t].legs[l].side = -1)
    <3>1. l \in 1..MaxLegs /\ trade[t].legs[l] \in Leg
      BY <2>1, <2>2, EngineAssumption
    <3> QED
      BY <3>1 DEF Leg
  <2>4. ASSUME NEW l \in DOMAIN trade[t].legs
        PROVE  trade[t].legs[l].side * pos[trade[t].legs[l].product] \in Int
    <3>1. pos[trade[t].legs[l].product] \in Int
      BY <2>3 DEF TypeOK
    <3> QED
      BY <2>3, <3>1
  <2> QED
    BY <2>1, <2>2, <2>3, <2>4
<1> QED
  BY <1>1, <1>2, <1>3

\* A fill of an entry order keeps the types of the account.
LEMMA OpensTyped ==
  ASSUME TypeOK, NEW t \in Ids, NEW k \in DOMAIN sent[t], NEW lots \in 0..(2 * Lots), Opens(t, k, lots)
  PROVE  pos' \in [Products -> Int] /\ bought' \in [Ids -> [1..MaxLegs -> 0..(2 * Lots)]]
<1>1. /\ k \in 1..MaxLegs /\ sent[t][k].product \in Products /\ bought[t][k] \in 0..(2 * Lots)
      /\ (sent[t][k].side = 1 \/ sent[t][k].side = -1)
  BY SentTyped
<1>2. bought' \in [Ids -> [1..MaxLegs -> 0..(2 * Lots)]]
  BY <1>1 DEF TypeOK, Opens
<1>3. pos[sent[t][k].product] + sent[t][k].side * (lots - bought[t][k]) \in Int
  <2>1. pos[sent[t][k].product] \in Int /\ lots \in Int /\ bought[t][k] \in Int
    BY <1>1, EngineAssumption DEF TypeOK
  <2> QED
    BY <1>1, <2>1
<1>4. pos' \in [Products -> Int]
  BY <1>1, <1>3 DEF TypeOK, Opens
<1> QED
  BY <1>2, <1>4

\* The OPEN trades on a product can be counted.
LEMMA OpenOnCounts ==
  ASSUME NEW p, NEW side
  PROVE  /\ OpenOn(p, side) \subseteq Ids /\ IsFiniteSet(OpenOn(p, side))
         /\ Cardinality(OpenOn(p, side)) \in Nat
<1>1. OpenOn(p, side) \subseteq Ids
  BY DEF OpenOn, Open
<1> QED
  BY <1>1, IdsFinite

\* One trade more or less is Lots lots more or less.
LEMMA LotsTimes ==
  ASSUME NEW c \in Nat
  PROVE  Lots * c \in Nat /\ Lots * (c + 1) = Lots * c + Lots
  BY EngineAssumption

\* A step that touches neither the trades nor the account, and enters or leaves no entry.
LEMMA NetQuiet ==
  ASSUME NetInv, trade' = trade, pos' = pos, sent' = sent, bought' = bought,
         InEntry' = InEntry, InEntry => cur' = cur
  PROVE  NetInv'
<1>1. ASSUME NEW p, NEW side PROVE OpenOn(p, side)' = OpenOn(p, side)
  BY DEF OpenOn, Open
<1>2. ASSUME NEW p, NEW n PROVE Within(p, n)' = Within(p, n)
  BY <1>1 DEF Within
<1>3. ASSUME NEW p PROVE Opened(p)' = Opened(p)
  BY DEF Opened
<1>4. ASSUME NEW t PROVE Exact(t)' = Exact(t)
  BY DEF Exact
<1>5. ASSUME NEW p PROVE OthersClean(p)' => OthersClean(p)
  BY <1>3, <1>4 DEF OthersClean
<1> QED
  BY <1>2, <1>5 DEF NetInv

\* An entry that is given up, by the session that marks it ERRORED, by an exception or by
\* a crash: what it has opened is unclean, and without that nothing is missing.
LEMMA NetAbandoned ==
  ASSUME IInv, InEntry, ~InEntry', pos' = pos, sent' = sent, bought' = bought,
         \A t \in Ids : trade'[t].legs = trade[t].legs,
         \A t \in Ids : t # cur => trade'[t] = trade[t]
  PROVE  NetInv'
<1>0. cur \in Ids /\ trade[cur].legs = <<>>
  BY DEF IInv, LoopInv, Open
<1>1. ASSUME NEW p, NEW side PROVE OpenOn(p, side)' = OpenOn(p, side)
  <2>1. \A t \in OpenOn(p, side)' : t # cur
    BY <1>0 DEF OpenOn, Open
  <2>2. \A t \in OpenOn(p, side) : t # cur
    BY <1>0 DEF OpenOn, Open
  <2> QED
    BY <2>1, <2>2 DEF OpenOn, Open
<1>2. ASSUME NEW p, NEW n PROVE Within(p, n)' = Within(p, n)
  BY <1>1 DEF Within
<1>3. SUFFICES ASSUME NEW p \in Products, OthersClean(p)' PROVE Within(p, pos[p])
  BY <1>2 DEF NetInv
<1>4. \A t \in Opened(p) : Exact(t)
  BY <1>3 DEF OthersClean, Opened, Exact
<1>5. OthersClean(p)
  BY <1>4 DEF OthersClean
<1>6. CASE \E l \in DOMAIN sent[cur] : sent[cur][l].product = p
  <2>1. PICK l \in DOMAIN sent[cur] : sent[cur][l].product = p
    BY <1>6
  <2>2. cur \notin Opened(p)
    BY <1>0, <1>4 DEF Exact
  <2>3. bought[cur][l] = 0
    <3>1. bought[cur][l] \in 0..(2 * Lots)
      BY <1>0, SentTyped DEF IInv
    <3>2. ~ (bought[cur][l] > 0)
      BY <1>0, <2>1, <2>2 DEF Opened
    <3> QED
      BY <3>1, <3>2, EngineAssumption
  <2>4. Within(p, pos[p] - sent[cur][l].side * 0)
    BY <1>5, <2>1, <2>3 DEF IInv, NetInv
  <2>5. pos[p] - sent[cur][l].side * 0 = pos[p]
    <3>1. pos[p] \in Int
      BY DEF IInv, TypeOK
    <3>2. sent[cur][l].side = 1 \/ sent[cur][l].side = -1
      BY <1>0, SentTyped DEF IInv
    <3> QED
      BY <3>1, <3>2
  <2> QED
    BY <2>4, <2>5
<1>7. CASE ~ \E l \in DOMAIN sent[cur] : sent[cur][l].product = p
  BY <1>5, <1>7 DEF IInv, NetInv
<1> QED
  BY <1>6, <1>7

\* A fill of an entry order of the trade in hand moves the position by what it moves its
\* own part of it.
LEMMA NetOwnFill ==
  ASSUME IInv, InEntry, InEntry', cur' = cur, trade' = trade, sent' = sent,
         NEW k \in DOMAIN sent[cur], NEW lots \in 0..(2 * Lots), Opens(cur, k, lots)
  PROVE  NetInv'
<1>0. cur \in Ids /\ trade[cur].legs = <<>> /\ TypeOK
  BY DEF IInv, LoopInv, Open
<1>1. ASSUME NEW p, NEW side PROVE OpenOn(p, side)' = OpenOn(p, side)
  BY DEF OpenOn, Open
<1>2. ASSUME NEW p, NEW n PROVE Within(p, n)' = Within(p, n)
  BY <1>1 DEF Within
<1>3. /\ \A t \in Ids : t # cur => bought'[t] = bought[t]
      /\ \A l \in DOMAIN sent[cur] : l # k => bought'[cur][l] = bought[cur][l]
      /\ bought'[cur][k] = lots
  <2>1. k \in 1..MaxLegs
    BY <1>0, SentTyped
  <2> QED
    BY <1>0, <2>1, SentTyped DEF TypeOK, Opens
<1>4. ASSUME NEW p \in Products, OthersClean(p)' PROVE OthersClean(p)
  BY <1>0, <1>3, <1>4 DEF OthersClean, Opened, Exact
<1>5. ASSUME NEW p \in Products, p # sent[cur][k].product PROVE pos'[p] = pos[p]
  BY <1>0, <1>5 DEF TypeOK, Opens
<1>6. ASSUME NEW p \in Products, p = sent[cur][k].product
      PROVE  pos'[p] - sent[cur][k].side * lots = pos[p] - sent[cur][k].side * bought[cur][k]
  <2>1. pos'[p] = pos[p] + sent[cur][k].side * (lots - bought[cur][k])
    BY <1>0, <1>6 DEF TypeOK, Opens
  <2>2. pos[p] \in Int /\ bought[cur][k] \in Int /\ lots \in Int
    BY <1>0, SentTyped, EngineAssumption DEF TypeOK
  <2>3. CASE sent[cur][k].side = 1
    BY <2>1, <2>2, <2>3
  <2>4. CASE sent[cur][k].side = -1
    BY <2>1, <2>2, <2>4
  <2> QED
    BY <1>0, <2>3, <2>4, SentTyped
<1>7. SUFFICES ASSUME NEW p \in Products, OthersClean(p)'
               PROVE  /\ \/ \E l \in DOMAIN sent[cur] : sent[cur][l].product = p
                         \/ Within(p, pos'[p])
                      /\ \A l \in DOMAIN sent[cur] : sent[cur][l].product = p =>
                            Within(p, pos'[p] - sent[cur][l].side * bought'[cur][l])
  BY <1>2 DEF NetInv
<1>8. /\ \/ \E l \in DOMAIN sent[cur] : sent[cur][l].product = p
         \/ Within(p, pos[p])
      /\ \A l \in DOMAIN sent[cur] : sent[cur][l].product = p =>
            Within(p, pos[p] - sent[cur][l].side * bought[cur][l])
  BY <1>4, <1>7 DEF IInv, NetInv
<1>9. CASE p # sent[cur][k].product
  BY <1>3, <1>5, <1>8, <1>9
<1>10. CASE p = sent[cur][k].product
  <2>1. \A l \in DOMAIN sent[cur] : sent[cur][l].product = p => l = k
    BY <1>0, <1>10, SentTyped
  <2>2. Within(p, pos'[p] - sent[cur][k].side * lots)
    BY <1>6, <1>8, <1>10
  <2> QED
    BY <1>3, <1>10, <2>1, <2>2
<1> QED
  BY <1>9, <1>10

\* A fill of an order that an entry left working: the product is unclean from then on, and
\* the others are as they were.
LEMMA LateFillTaints ==
  ASSUME IInv, NEW t \in Ids, LateFill(t), ~(InEntry /\ t = cur), NEW p \in Products,
         \A u \in Opened(p)' : (InEntry /\ u = cur) \/ Exact(u)'
  PROVE  OthersClean(p) /\ pos'[p] = pos[p]
<1>1. PICK k \in DOMAIN sent[t] : bought[t][k] < 2 * Lots /\ Opens(t, k, bought[t][k] + 1)
  BY DEF LateFill
<1>2. TypeOK /\ trade' = trade /\ sent' = sent
  BY DEF IInv, LateFill
<1>3. k \in 1..MaxLegs /\ bought[t][k] \in 0..(2 * Lots) /\ sent[t][k].product \in Products
  BY <1>2, SentTyped
<1>4. /\ \A u \in Ids : u # t => bought'[u] = bought[u]
      /\ \A l \in DOMAIN sent[t] : l # k => bought'[t][l] = bought[t][l]
      /\ bought'[t][k] = bought[t][k] + 1
  BY <1>1, <1>2, <1>3, SentTyped DEF TypeOK, Opens
<1>5. ~Exact(t)'
  <2>1. trade[t].legs # <<>> => bought[t][k] >= Lots
    BY DEF IInv, SentInv
  <2> QED
    BY <1>2, <1>3, <1>4, <2>1, EngineAssumption DEF Exact
<1>6. t \notin Opened(p)'
  BY <1>5
<1>7. sent[t][k].product # p
  <2>1. bought'[t][k] > 0
    BY <1>3, <1>4, EngineAssumption
  <2> QED
    BY <1>2, <1>6, <2>1 DEF Opened
<1>8. pos'[p] = pos[p]
  BY <1>1, <1>2, <1>7 DEF TypeOK, Opens
<1>9. OthersClean(p)
  <2>1. SUFFICES ASSUME NEW u \in Opened(p), ~(InEntry /\ u = cur) PROVE Exact(u)
    BY DEF OthersClean
  <2>2. u # t
    BY <1>2, <1>4, <1>6, <1>7, <2>1 DEF Opened
  <2>3. u \in Opened(p)' /\ bought'[u] = bought[u]
    BY <1>2, <1>4, <2>1, <2>2 DEF Opened
  <2> QED
    BY <1>2, <2>1, <2>3 DEF Exact
<1> QED
  BY <1>8, <1>9

-----------------------------------------------------------------------------
(* One lemma per action. *)

\* Starting the engine changes nothing but the cooldowns it forgets.
LEMMA BootPreserves == ASSUME IInv, Boot PROVE IInv'
<1> USE EngineAssumption DEF IInv, Boot, table, account, exit
<1>1. TypeOK'
  BY DEF TypeOK
<1>2. LoopInv' /\ AcctInv'
  BY <1>1 DEF TypeOK, LoopInv, AcctInv, InExit, InEntry, Open, Snapshot
<1>3. BookInv' /\ ExitInv' /\ ExitNetInv'
  BY DEF BookInv, ExitInv, ExitNetInv, InExit
<1>4. CoolInv'
  BY <1>1 DEF TypeOK, LoopInv, CoolInv, InExit, InEntry
<1>5. ConcurrencyCaps'
  BY DEF ConcurrencyCaps
<1>6. PositionHasTrade' /\ SentInv'
  BY DEF PositionHasTrade, SentInv
<1>7. NetInv'
  BY NetQuiet DEF InEntry
<1> QED
  BY <1>1, <1>2, <1>3, <1>4, <1>5, <1>6, <1>7

\* A crash forgets the tick and leaves the tables and the account alone.
LEMMA CrashPreserves == ASSUME IInv, Crash PROVE IInv'
<1> USE EngineAssumption DEF IInv, Crash, ForgetTick, table, account, exit
<1>1. TypeOK'
  BY DEF TypeOK
<1>2. LoopInv' /\ AcctInv'
  BY <1>1 DEF TypeOK, LoopInv, AcctInv, InExit, InEntry, Open, Snapshot
<1>3. BookInv' /\ ExitInv' /\ ExitNetInv'
  BY DEF BookInv, ExitInv, ExitNetInv, InExit
<1>4. CoolInv'
  BY <1>1 DEF TypeOK, LoopInv, CoolInv, InExit, InEntry
<1>5. ConcurrencyCaps'
  BY DEF ConcurrencyCaps
<1>6. PositionHasTrade' /\ SentInv'
  BY DEF PositionHasTrade, SentInv
<1>7. NetInv'
  <2>1. CASE InEntry
    BY <2>1, NetAbandoned DEF InEntry
  <2>2. CASE ~InEntry
    BY <2>2, NetQuiet DEF InEntry
  <2> QED
    BY <2>1, <2>2
<1> QED
  BY <1>1, <1>2, <1>3, <1>4, <1>5, <1>6, <1>7

\* An exception in main_loop forgets the tick too.
LEMMA TickRaisesPreserves == ASSUME IInv, TickRaises PROVE IInv'
<1> USE EngineAssumption DEF IInv, TickRaises, ForgetTick, table, account, exit
<1>1. TypeOK'
  BY DEF TypeOK
<1>2. LoopInv' /\ AcctInv'
  BY <1>1 DEF TypeOK, LoopInv, AcctInv, InExit, InEntry, Open, Snapshot
<1>3. BookInv' /\ ExitInv' /\ ExitNetInv'
  BY DEF BookInv, ExitInv, ExitNetInv, InExit
<1>4. CoolInv'
  BY <1>1 DEF TypeOK, LoopInv, CoolInv, InExit, InEntry
<1>5. ConcurrencyCaps'
  BY DEF ConcurrencyCaps
<1>6. PositionHasTrade' /\ SentInv'
  BY DEF PositionHasTrade, SentInv
<1>7. NetInv'
  <2>1. CASE InEntry
    BY <2>1, NetAbandoned DEF InEntry
  <2>2. CASE ~InEntry
    BY <2>2, NetQuiet DEF InEntry
  <2> QED
    BY <2>1, <2>2
<1> QED
  BY <1>1, <1>2, <1>3, <1>4, <1>5, <1>6, <1>7

\* _load_open_trades hands the exit loop exactly the OPEN trades.
LEMMA LoadOpenTradesPreserves == ASSUME IInv, LoadOpenTrades PROVE IInv'
<1> USE EngineAssumption DEF IInv, LoadOpenTrades, table, account, exit
<1>1. TypeOK'
  <2>1. Open(trade) \in SUBSET Ids
    BY DEF Open
  <2> QED
    BY <2>1 DEF TypeOK
<1>2. LoopInv' /\ AcctInv'
  BY <1>1 DEF TypeOK, LoopInv, AcctInv, InExit, InEntry, Open, Snapshot
<1>3. BookInv' /\ ExitInv' /\ ExitNetInv'
  BY DEF BookInv, ExitInv, ExitNetInv, InExit
<1>4. CoolInv'
  BY <1>1 DEF TypeOK, LoopInv, CoolInv, InExit, InEntry
<1>5. ConcurrencyCaps'
  BY DEF ConcurrencyCaps
<1>6. PositionHasTrade' /\ SentInv'
  BY DEF PositionHasTrade, SentInv
<1>7. NetInv'
  BY NetQuiet DEF InEntry
<1> QED
  BY <1>1, <1>2, <1>3, <1>4, <1>5, <1>6, <1>7

\* A kept position only leaves the list of trades to visit.
LEMMA KeepPreserves == ASSUME IInv, NEW t \in Ids, Keep(t) PROVE IInv'
<1> USE EngineAssumption DEF IInv, Keep, Earliest, table, account, exit
<1>1. TypeOK'
  BY DEF TypeOK
<1>2. LoopInv' /\ AcctInv'
  BY <1>1 DEF TypeOK, LoopInv, AcctInv, InExit, InEntry, Open, Snapshot
<1>3. BookInv' /\ ExitInv' /\ ExitNetInv'
  BY DEF BookInv, ExitInv, ExitNetInv, InExit
<1>4. CoolInv'
  BY DEF CoolInv
<1>5. ConcurrencyCaps'
  BY DEF ConcurrencyCaps
<1>6. PositionHasTrade' /\ SentInv'
  BY DEF PositionHasTrade, SentInv
<1>7. NetInv'
  BY NetQuiet DEF InEntry
<1> QED
  BY <1>1, <1>2, <1>3, <1>4, <1>5, <1>6, <1>7

\* _persist_exit starts on a trade that is OPEN, with no leg sent.
LEMMA ExitBeginPreserves == ASSUME IInv, NEW t \in Ids, ExitBegin(t) PROVE IInv'
<1> USE EngineAssumption DEF IInv, ExitBegin, Earliest, table, account, exit
<1>1. TypeOK'
  <2>1. leg' \in 1..(MaxLegs + 1) /\ cur' \in Ids
    OBVIOUS
  <2>2. whole' \in BOOLEAN /\ complete' \in BOOLEAN
    BY Zenon
  <2> QED
    BY <2>1, <2>2 DEF TypeOK
<1>2. LoopInv' /\ AcctInv'
  BY <1>1 DEF TypeOK, LoopInv, AcctInv, InExit, InEntry, Open, Snapshot
<1>3. BookInv' /\ ExitInv' /\ ExitNetInv'
  <2>1. t \in Open(trade) /\ t \in Ids
    BY DEF LoopInv, Open
  <2>2. ASSUME NEW l \in DOMAIN trade[t].legs
        PROVE  l \in Int /\ l >= 1 /\ Facing(trade[t].legs[l]) \in Int
    BY <2>1, <2>2, RowTyped DEF Facing
  <2>3. BookInv' /\ ExitNetInv'
    BY <2>2 DEF BookInv, ExitNetInv
  <2>4. whole' \/ \E l \in DOMAIN trade[t].legs : Facing(trade[t].legs[l]) < Lots
    BY <2>2
  <2>5. ASSUME NEW l \in DOMAIN trade[t].legs
        PROVE  Facing(trade[t].legs[l])' = Facing(trade[t].legs[l])
    BY DEF Facing
  <2>6. ExitInv'
    BY <2>2, <2>4, <2>5 DEF ExitInv
  <2> QED
    BY <2>3, <2>6
<1>4. CoolInv'
  BY <1>1 DEF TypeOK, LoopInv, CoolInv, InExit, InEntry
<1>5. ConcurrencyCaps'
  BY DEF ConcurrencyCaps
<1>6. PositionHasTrade' /\ SentInv'
  BY DEF PositionHasTrade, SentInv
<1>7. NetInv'
  BY NetQuiet DEF InEntry
<1> QED
  BY <1>1, <1>2, <1>3, <1>4, <1>5, <1>6, <1>7

\* A leg of submit_exit closes lots and never counts as complete unless all were closed.
LEMMA ExitLegPreserves == ASSUME IInv, ExitLeg PROVE IInv'
<1> USE EngineAssumption DEF IInv, ExitLeg, table, account, exit
<1>0. cur \in Ids /\ cur \in Open(trade) /\ ~InEntry /\ leg \in DOMAIN trade[cur].legs
  BY DEF LoopInv, InExit, InEntry, Open
<1>y. PICK x \in Leg : x = trade[cur].legs[leg]
  BY <1>0, RowTyped
<1>x. /\ leg \in 1..MaxLegs /\ x \in Leg /\ x.product \in Products
      /\ (x.side = 1 \/ x.side = -1)
      /\ Facing(x) \in Int
      /\ \A m \in DOMAIN trade[cur].legs : x.product = trade[cur].legs[m].product => leg = m
  BY <1>0, <1>y, RowTyped DEF Facing
<1>e. PICK executed \in 0..Lots, seen \in BOOLEAN :
        /\ executed = 0 \/ executed <= Facing(x)
        /\ pos' = [pos EXCEPT ![x.product] = @ - x.side * executed]
        /\ complete' = (complete /\ seen /\ executed = Lots)
  BY <1>y DEF Reduces
<1>p. /\ pos'[x.product] = pos[x.product] - x.side * executed
      /\ \A p \in Products : p # x.product => pos'[p] = pos[p]
  BY <1>x, <1>e DEF TypeOK
<1>u. /\ \A p, side : OpenOn(p, side)' = OpenOn(p, side)
      /\ \A p : Clean(p)' = Clean(p)
      /\ \A p : OthersClean(p) = Clean(p)
      /\ \A p : OthersClean(p)' = Clean(p)
  BY <1>0 DEF OpenOn, Open, Clean, Opened, Exact, OthersClean, InEntry
<1>1. TypeOK'
  <2>1. pos' \in [Products -> Int]
    <3>1. pos[x.product] - x.side * executed \in Int
      BY <1>x, <1>e, EngineAssumption DEF TypeOK
    <3> QED
      BY <1>x, <1>e, <3>1 DEF TypeOK
  <2>2. complete' \in BOOLEAN
    BY <1>e DEF TypeOK
  <2>3. leg' \in 1..(MaxLegs + 1)
    BY <1>x, EngineAssumption
  <2> QED
    BY <2>1, <2>2, <2>3 DEF TypeOK
<1>2. LoopInv' /\ AcctInv'
  BY <1>1 DEF TypeOK, LoopInv, AcctInv, InExit, InEntry, Open, Snapshot
<1>3. BookInv' /\ ExitInv' /\ ExitNetInv'
  <2>1. BookInv'
    BY DEF BookInv
  <2>2. SUFFICES ASSUME complete' PROVE ExitInv' /\ ExitNetInv'
    BY <2>1 DEF ExitInv, ExitNetInv
  <2>3. complete /\ executed = Lots /\ Lots <= Facing(x)
    BY <1>x, <1>e, <2>2, EngineAssumption
  <2>4. Facing(x)' = Facing(x) - Lots
    <3>1. pos[x.product] \in Int /\ pos'[x.product] = pos[x.product] - x.side * Lots
      BY <1>x, <1>p, <2>3 DEF TypeOK
    <3>2. x.side * pos'[x.product] = x.side * pos[x.product] - Lots
      <4>1. CASE x.side = 1
        BY <3>1, <4>1, EngineAssumption
      <4>2. CASE x.side = -1
        BY <3>1, <4>2, EngineAssumption
      <4> QED
        BY <1>x, <4>1, <4>2
    <3> QED
      BY <3>2 DEF Facing
  <2>5. ASSUME NEW l \in DOMAIN trade[cur].legs, l # leg
        PROVE  Facing(trade[cur].legs[l])' = Facing(trade[cur].legs[l])
    <3>1. trade[cur].legs[l].product \in Products /\ trade[cur].legs[l].product # x.product
      BY <1>0, <1>x, <2>5, RowTyped
    <3> QED
      BY <1>p, <3>1 DEF Facing
  <2>6. ASSUME NEW l \in DOMAIN trade[cur].legs
        PROVE  /\ (l < leg + 1 => l < leg \/ l = leg)
               /\ (l >= leg /\ l # leg => l >= leg + 1)
    BY <1>0, <1>x, RowTyped
  <2>7. ExitInv'
    <3>1. SUFFICES ASSUME \A l \in DOMAIN trade[cur].legs : Clean(trade[cur].legs[l].product)
                   PROVE  \/ whole
                          \/ \E l \in DOMAIN trade[cur].legs :
                               l >= leg + 1 /\ Facing(trade[cur].legs[l])' < Lots
      BY <1>u DEF ExitInv
    <3>2. \/ whole
          \/ \E l \in DOMAIN trade[cur].legs : l >= leg /\ Facing(trade[cur].legs[l]) < Lots
      BY <2>3, <3>1 DEF ExitInv, InExit
    <3>3. ASSUME NEW l \in DOMAIN trade[cur].legs, l >= leg, Facing(trade[cur].legs[l]) < Lots
          PROVE  l >= leg + 1 /\ Facing(trade[cur].legs[l])' < Lots
      <4>1. l # leg
        BY <1>x, <1>y, <2>3, <3>3, EngineAssumption
      <4> QED
        BY <2>5, <2>6, <3>3, <4>1
    <3> QED
      BY <3>2, <3>3
  <2>8. ExitNetInv'
    <3>1. SUFFICES ASSUME NEW l \in DOMAIN trade[cur].legs, l < leg + 1,
                          Clean(trade[cur].legs[l].product)
                   PROVE  Facing(trade[cur].legs[l])' + Lots
                            <= Lots * Cardinality(OpenOn(trade[cur].legs[l].product,
                                                         trade[cur].legs[l].side))
      BY <1>u DEF ExitNetInv
    <3>2. CASE l # leg
      BY <2>3, <2>5, <2>6, <3>1, <3>2 DEF ExitNetInv, InExit
    <3>3. CASE l = leg
      <4>1. Within(x.product, pos[x.product])
        BY <1>0, <1>u, <1>x, <1>y, <3>1, <3>3 DEF NetInv
      <4>2. Facing(x) <= Lots * Cardinality(OpenOn(x.product, x.side))
        <5>1. pos[x.product] \in Int
          BY <1>x DEF TypeOK
        <5>2. CASE x.side = 1
          BY <4>1, <5>1, <5>2 DEF Within, Facing
        <5>3. CASE x.side = -1
          BY <4>1, <5>1, <5>3 DEF Within, Facing
        <5> QED
          BY <1>x, <5>2, <5>3
      <4>3. Facing(x)' + Lots = Facing(x)
        BY <1>x, <2>4, EngineAssumption
      <4> QED
        BY <1>y, <3>3, <4>2, <4>3
    <3> QED
      BY <3>2, <3>3
  <2> QED
    BY <2>7, <2>8
<1>4. CoolInv'
  BY <1>1 DEF TypeOK, LoopInv, CoolInv, InExit, InEntry
<1>5. ConcurrencyCaps'
  BY DEF ConcurrencyCaps
<1>6. PositionHasTrade' /\ SentInv'
  BY DEF PositionHasTrade, SentInv
<1>7. NetInv'
  <2>1. SUFFICES ASSUME NEW p \in Products, Clean(p) PROVE Within(p, pos[p])'
    BY <1>0, <1>u DEF NetInv, InEntry
  <2>2. Within(p, pos[p])
    BY <1>0, <1>u, <2>1 DEF NetInv
  <2>3. SUFFICES /\ pos'[p] <= Lots * Cardinality(OpenOn(p, 1))
                 /\ - pos'[p] <= Lots * Cardinality(OpenOn(p, -1))
    BY <1>u DEF Within
  <2>4. CASE p # x.product
    BY <1>p, <2>2, <2>4 DEF Within
  <2>5. CASE p = x.product
    <3> DEFINE up == Lots * Cardinality(OpenOn(p, 1))
               down == Lots * Cardinality(OpenOn(p, -1))
    <3>1. up \in Nat /\ down \in Nat
      BY OpenOnCounts, LotsTimes
    <3>2. pos[p] \in Int /\ pos[p] <= up /\ - pos[p] <= down
      BY <2>2 DEF Within, TypeOK
    <3>3. SUFFICES pos'[p] <= up /\ - pos'[p] <= down
      OBVIOUS
    <3> HIDE DEF up, down
    <3>4. CASE x.side = 1
      BY <1>e, <1>p, <2>5, <3>1, <3>2, <3>4, EngineAssumption DEF Facing
    <3>5. CASE x.side = -1
      BY <1>e, <1>p, <2>5, <3>1, <3>2, <3>5, EngineAssumption DEF Facing
    <3> QED
      BY <1>x, <3>4, <3>5
  <2> QED
    BY <2>4, <2>5
<1> QED
  BY <1>1, <1>2, <1>3, <1>4, <1>5, <1>6, <1>7

\* A failed exit leaves the trade OPEN and applies its cooldown.
LEMMA ExitFailedPreserves == ASSUME IInv, ExitFailed PROVE IInv'
<1> USE EngineAssumption DEF IInv, ExitFailed, ExitReturns, ExitSent, table, account, exit
<1>1. TypeOK'
  <2>1. cur \in Open(trade)
    BY DEF LoopInv, InExit
  <2>2. trade[cur].target \in Targets
    BY <2>1, OpenRow
  <2>3. cool' \in SUBSET (Strategies \X Underlyings) /\ exited' \in SUBSET Targets
    BY <2>2, CooldownTyped DEF TypeOK
  <2> QED
    BY <2>3 DEF TypeOK
<1>2. LoopInv' /\ AcctInv'
  BY <1>1 DEF TypeOK, LoopInv, AcctInv, InExit, InEntry, Open, Snapshot
<1>3. BookInv' /\ ExitInv' /\ ExitNetInv'
  BY DEF BookInv, ExitInv, ExitNetInv, InExit
<1>4. CoolInv'
  BY <1>1 DEF TypeOK, LoopInv, CoolInv, InExit, InEntry
<1>5. ConcurrencyCaps'
  BY DEF ConcurrencyCaps
<1>6. PositionHasTrade' /\ SentInv'
  BY DEF PositionHasTrade, SentInv
<1>7. NetInv'
  BY NetQuiet DEF InEntry
<1> QED
  BY <1>1, <1>2, <1>3, <1>4, <1>5, <1>6, <1>7

\* submit_exit reports success only if every leg was complete.
LEMMA ExitSucceededPreserves == ASSUME IInv, ExitSucceeded PROVE IInv'
<1> USE EngineAssumption DEF IInv, ExitSucceeded, ExitSent, table, account, exit
<1>1. TypeOK'
  BY DEF TypeOK
<1>2. LoopInv' /\ AcctInv'
  BY <1>1 DEF TypeOK, LoopInv, AcctInv, InExit, InEntry, Open, Snapshot
<1>3. BookInv' /\ ExitInv' /\ ExitNetInv'
  <2>1. \A l \in DOMAIN trade[cur].legs : l < leg
    <3>1. cur \in Ids
      BY DEF LoopInv, InExit, Open
    <3>2. PICK n \in 0..MaxLegs : DOMAIN trade[cur].legs = 1..n
      BY <3>1, RowTyped
    <3> QED
      BY <3>2 DEF TypeOK
  <2>2. BookInv'
    BY <2>1 DEF BookInv
  <2>3. ExitInv' /\ ExitNetInv'
    <3>1. /\ \A p, side : OpenOn(p, side)' = OpenOn(p, side)
          /\ \A p : Clean(p)' = Clean(p)
          /\ \A l : Facing(l)' = Facing(l)
      BY DEF OpenOn, Open, Clean, Opened, Exact, Facing
    <3>2. ExitInv'
      BY <3>1 DEF ExitInv, InExit
    <3>3. ExitNetInv'
      BY <3>1 DEF ExitNetInv, InExit
    <3> QED
      BY <3>2, <3>3
  <2> QED
    BY <2>2, <2>3
<1>4. CoolInv'
  BY <1>1 DEF TypeOK, LoopInv, CoolInv, InExit, InEntry
<1>5. ConcurrencyCaps'
  BY DEF ConcurrencyCaps
<1>6. PositionHasTrade' /\ SentInv'
  BY DEF PositionHasTrade, SentInv
<1>7. NetInv'
  BY NetQuiet DEF InEntry
<1> QED
  BY <1>1, <1>2, <1>3, <1>4, <1>5, <1>6, <1>7

\* _persist_exit closes a trade whose lots one submit_exit has taken out of the account.
LEMMA ExitCommitPreserves == ASSUME IInv, ExitCommit PROVE IInv'
<1> USE EngineAssumption DEF IInv, ExitCommit, ExitReturns, table, account, exit
<1>1. TypeOK'
  <2>1. cur \in Open(trade)
    BY DEF LoopInv, InExit
  <2>2. cur \in Ids /\ trade[cur].target \in Targets /\ [trade[cur] EXCEPT !.status = "CLOSED"] \in Row
    BY <2>1, OpenRow
  <2>3. cool' \in SUBSET (Strategies \X Underlyings) /\ exited' \in SUBSET Targets
    BY <2>2, CooldownTyped DEF TypeOK
  <2>4. trade' \in [Ids -> {NoTrade} \union Row]
    BY <2>2 DEF TypeOK
  <2> QED
    BY <2>3, <2>4 DEF TypeOK
<1>2. LoopInv' /\ AcctInv'
  BY <1>1 DEF TypeOK, LoopInv, AcctInv, InExit, InEntry, Open, Snapshot
<1>3. BookInv' /\ ExitInv' /\ ExitNetInv'
  BY DEF BookInv, ExitInv, ExitNetInv, InExit
<1>4. CoolInv'
  BY <1>1 DEF TypeOK, LoopInv, CoolInv, InExit, InEntry
<1>5. ConcurrencyCaps'
  <2>1. cur \in Open(trade)
    BY DEF LoopInv, InExit
  <2>2. [trade[cur] EXCEPT !.status = "CLOSED"].target = trade[cur].target
    BY <2>1, OpenRow DEF Row
  <2>3. trade' = [trade EXCEPT ![cur] = [trade[cur] EXCEPT !.status = "CLOSED"]]
    OBVIOUS
  <2> QED
    BY <2>1, <2>2, <2>3, CapsAfterUpdate
<1>6. PositionHasTrade' /\ SentInv'
  <2>1. cur \in Ids /\ cur \in Open(trade) /\ trade[cur] \in Row
    BY OpenRow DEF LoopInv, InExit, Open
  <2>2. /\ \A t \in Ids : t # cur => trade'[t] = trade[t]
        /\ trade'[cur].legs = trade[cur].legs /\ trade'[cur].status = "CLOSED"
    BY <2>1 DEF TypeOK, Row
  <2> QED
    BY <2>1, <2>2 DEF PositionHasTrade, SentInv, Open
<1>7. NetInv'
  <2>1. cur \in Ids /\ cur \in Open(trade) /\ trade[cur] \in Row
    BY OpenRow DEF LoopInv, InExit, Open
  <2>2. /\ \A t \in Ids : t # cur => trade'[t] = trade[t]
        /\ trade'[cur].legs = trade[cur].legs /\ trade'[cur].status = "CLOSED"
    BY <2>1 DEF TypeOK, Row
  <2>3. /\ ~InEntry /\ ~InEntry'
        /\ \A p : OthersClean(p) = Clean(p)
        /\ \A p : OthersClean(p)' = Clean(p)
    <3>1. ~InEntry /\ ~InEntry'
      BY DEF InEntry
    <3>2. \A t \in Ids : Exact(t)' = Exact(t)
      BY <2>2 DEF Exact
    <3>3. \A p : Opened(p)' = Opened(p) /\ Opened(p) \subseteq Ids
      BY DEF Opened
    <3> QED
      BY <3>1, <3>2, <3>3 DEF OthersClean, Clean
  <2>4. ASSUME NEW p, NEW side
        PROVE  OpenOn(p, side)' = OpenOn(p, side) \ {cur}
    BY <2>1, <2>2 DEF OpenOn, Open
  <2>5. SUFFICES ASSUME NEW p \in Products, Clean(p) PROVE Within(p, pos[p])'
    BY <2>3 DEF NetInv
  <2>6. Within(p, pos[p]) /\ pos[p] \in Int
    BY <2>3, <2>5 DEF NetInv, TypeOK
  <2>7. ASSUME NEW side \in {1, -1}
        PROVE  side * pos[p] <= Lots * Cardinality(OpenOn(p, side) \ {cur})
    <3>1. side * pos[p] <= Lots * Cardinality(OpenOn(p, side)) /\ side * pos[p] \in Int
      <4>1. CASE side = 1
        BY <2>6, <4>1 DEF Within
      <4>2. CASE side = -1
        BY <2>6, <4>2 DEF Within
      <4> QED
        BY <2>7, <4>1, <4>2
    <3>2. CASE cur \notin OpenOn(p, side)
      <4>1. OpenOn(p, side) \ {cur} = OpenOn(p, side)
        BY <3>2
      <4> QED
        BY <3>1, <4>1
    <3>3. CASE cur \in OpenOn(p, side)
      <4>1. PICK l \in DOMAIN trade[cur].legs :
              trade[cur].legs[l] = [product |-> p, side |-> side]
        BY <3>3 DEF OpenOn
      <4>2. l < leg /\ complete /\ InExit
        BY <4>1 DEF BookInv, InExit
      <4>3. side * pos[p] + Lots <= Lots * Cardinality(OpenOn(p, side))
        BY <2>5, <4>1, <4>2 DEF ExitNetInv, Facing
      <4> DEFINE c == Cardinality(OpenOn(p, side) \ {cur})
      <4>4. OpenOn(p, side) = (OpenOn(p, side) \ {cur}) \union {cur}
        BY <3>3
      <4>5. IsFiniteSet(OpenOn(p, side) \ {cur})
        BY OpenOnCounts, FS_RemoveElement
      <4>6. c \in Nat /\ Cardinality((OpenOn(p, side) \ {cur}) \union {cur}) = c + 1
        BY <4>5, FS_CardinalityType, FS_AddElement
      <4>7. Lots * c \in Nat /\ Lots * (c + 1) = Lots * c + Lots
        BY <4>6, LotsTimes
      <4>8. Cardinality(OpenOn(p, side)) = c + 1
        BY <4>4, <4>6
      <4> HIDE DEF c
      <4>9. side * pos[p] + Lots <= Lots * c + Lots
        BY <4>3, <4>7, <4>8
      <4>10. side * pos[p] <= Lots * c
        BY <3>1, <4>7, <4>9, EngineAssumption
      <4> QED
        BY <4>10 DEF c
    <3> QED
      BY <3>2, <3>3
  <2>8. /\ pos[p] <= Lots * Cardinality(OpenOn(p, 1) \ {cur})
        /\ - pos[p] <= Lots * Cardinality(OpenOn(p, -1) \ {cur})
    <3>1. 1 * pos[p] = pos[p] /\ (-1) * pos[p] = - pos[p]
      BY <2>6
    <3> QED
      BY <2>7, <3>1
  <2> QED
    BY <2>4, <2>8 DEF Within
<1> QED
  BY <1>1, <1>2, <1>3, <1>4, <1>5, <1>6, <1>7

\* The intents of the tick avoid the cooldowns, and the accounting is fresh.
LEMMA DispatchPreserves == ASSUME IInv, Dispatch PROVE IInv'
<1> USE EngineAssumption DEF IInv, Dispatch, table, account, exit
<1>1. TypeOK'
  <2>1. acct' \in [total : Nat, by : [Strategies -> Nat]]
    BY SnapshotTyped
  <2> QED
    BY <2>1 DEF TypeOK
<1>2. LoopInv' /\ AcctInv'
  BY <1>1 DEF TypeOK, LoopInv, AcctInv, InExit, InEntry, Open, Snapshot
<1>3. BookInv' /\ ExitInv' /\ ExitNetInv'
  BY DEF BookInv, ExitInv, ExitNetInv, InExit
<1>4. CoolInv'
  BY <1>1 DEF TypeOK, LoopInv, CoolInv, InExit, InEntry
<1>5. ConcurrencyCaps'
  BY DEF ConcurrencyCaps
<1>6. PositionHasTrade' /\ SentInv'
  BY DEF PositionHasTrade, SentInv
<1>7. NetInv'
  BY NetQuiet DEF InEntry
<1> QED
  BY <1>1, <1>2, <1>3, <1>4, <1>5, <1>6, <1>7

\* A refused intent only leaves the list.
LEMMA GateRefusesPreserves == ASSUME IInv, NEW x \in Targets, GateRefuses(x) PROVE IInv'
<1> USE EngineAssumption DEF IInv, GateRefuses, table, account, exit
<1>1. TypeOK'
  BY DEF TypeOK
<1>2. LoopInv' /\ AcctInv'
  BY <1>1 DEF TypeOK, LoopInv, AcctInv, InExit, InEntry, Open, Snapshot
<1>3. BookInv' /\ ExitInv' /\ ExitNetInv'
  BY DEF BookInv, ExitInv, ExitNetInv, InExit
<1>4. CoolInv'
  BY <1>1 DEF TypeOK, LoopInv, CoolInv, InExit, InEntry
<1>5. ConcurrencyCaps'
  BY DEF ConcurrencyCaps
<1>6. PositionHasTrade' /\ SentInv'
  BY DEF PositionHasTrade, SentInv
<1>7. NetInv'
  BY NetQuiet DEF InEntry
<1> QED
  BY <1>1, <1>2, <1>3, <1>4, <1>5, <1>6, <1>7

\* The gate approves an intent only if the table has room for one more row.
LEMMA GateApprovesPreserves == ASSUME IInv, NEW x \in Targets, GateApproves(x) PROVE IInv'
<1> USE EngineAssumption DEF IInv, GateApproves, NextId, table, account, exit
<1>0. PICK n \in Ids, legs \in Plans[x] :
        /\ trade[n].status = "none"
        /\ sent' = [sent EXCEPT ![n] = legs]
        /\ trade' = [trade EXCEPT ![n] = [target |-> x, status |-> "OPEN", legs |-> <<>>]]
        /\ cur' = n
  OBVIOUS
<1>p. legs \in Picked /\ legs # <<>>
  <2>1. legs \in Picked
    BY DEF Picked
  <2>2. legs \in Seq(Leg) /\ Len(legs) \in 1..MaxLegs
    BY <2>1
  <2> QED
    BY <2>1, <2>2
<1>u. /\ trade'[n] = [target |-> x, status |-> "OPEN", legs |-> <<>>]
      /\ \A t \in Ids : t # n => trade'[t] = trade[t] /\ sent'[t] = sent[t]
      /\ sent'[n] = legs /\ trade[n] = NoTrade /\ sent[n] = <<>> /\ bought[n] = NoLots
  BY <1>0 DEF TypeOK, Row, SentInv, PositionHasTrade
<1>1. TypeOK'
  <2>1. [target |-> x, status |-> "OPEN", legs |-> <<>>] \in Row
    BY DEF Row
  <2>2. trade' \in [Ids -> {NoTrade} \union Row] /\ sent' \in [Ids -> {<<>>} \union Picked]
    BY <1>0, <1>p, <2>1 DEF TypeOK
  <2> QED
    BY <1>0, <2>2 DEF TypeOK
<1>2. LoopInv' /\ AcctInv'
  BY <1>0, <1>p, <1>u DEF LoopInv, AcctInv, InExit, InEntry, Open
<1>3. BookInv' /\ ExitInv' /\ ExitNetInv'
  BY DEF BookInv, ExitInv, ExitNetInv, InExit
<1>4. CoolInv'
  BY <1>1 DEF TypeOK, LoopInv, CoolInv, InExit, InEntry
<1>5. ConcurrencyCaps'
  <2>1. PICK t \in Ids :
          /\ trade[t].status = "none"
          /\ trade' = [trade EXCEPT ![t] = [target |-> x, status |-> "OPEN", legs |-> <<>>]]
    BY <1>0
  <2>2. acct = Snapshot(trade) /\ x[1] \in Strategies
    BY EngineAssumption DEF AcctInv
  <2>3. /\ Cardinality(Open(trade)) < MaxTotal
        /\ Cardinality({u \in Open(trade) : StrategyOf(trade[u]) = x[1]}) < MaxPerStrategy
    BY <2>2 DEF Snapshot
  <2>4. CapsHold(trade)
    BY DEF ConcurrencyCaps, CapsHold
  <2>5. trade'[t] = [target |-> x, status |-> "OPEN", legs |-> <<>>]
        /\ \A u \in Ids : u # t => trade'[u] = trade[u]
    BY <2>1 DEF TypeOK
  <2>6. t \notin Open(trade) /\ Open(trade') = Open(trade) \union {t}
    BY <2>1, <2>5 DEF Open
  <2>7. \A u \in Open(trade) : trade'[u].target = trade[u].target
    BY <2>5, <2>6 DEF Open
  <2>8. StrategyOf(trade'[t]) = x[1]
    BY <2>5 DEF StrategyOf
  <2> HIDE EngineAssumption DEF IInv, GateApproves, NextId
  <2>9. /\ StrategyOf(trade'[t]) \in Strategies
        /\ Cardinality({u \in Open(trade) : StrategyOf(trade[u]) = StrategyOf(trade'[t])})
             < MaxPerStrategy
    BY <2>2, <2>3, <2>8, Zenon
  <2>10. ASSUME NEW new, new = trade' PROVE CapsHold(new)
    <3>1. /\ t \notin Open(trade) /\ Open(new) = Open(trade) \union {t}
          /\ \A u \in Open(trade) : new[u].target = trade[u].target
          /\ StrategyOf(new[t]) \in Strategies
          /\ Cardinality({u \in Open(trade) : StrategyOf(trade[u]) = StrategyOf(new[t])})
               < MaxPerStrategy
      BY <2>6, <2>7, <2>9, <2>10, Zenon
    <3> QED
      BY <2>3, <2>4, <3>1, CapsGrow
  <2> QED
    BY <2>10 DEF ConcurrencyCaps, CapsHold, Open, StrategyOf
<1>6. PositionHasTrade' /\ SentInv'
  BY <1>0, <1>u DEF PositionHasTrade, SentInv, NoTrade
<1>7. NetInv'
  <2>1. ~InEntry /\ InEntry'
    BY DEF InEntry
  <2>2. \A l \in DOMAIN legs : bought[n][l] = 0 /\ legs[l].side \in Int
    <3>1. legs \in Seq(Leg) /\ Len(legs) \in 1..MaxLegs
      BY <1>p
    <3>2. \A l \in DOMAIN legs : l \in 1..MaxLegs /\ legs[l] \in Leg
      BY <3>1
    <3>3. \A l \in DOMAIN legs : legs[l].side \in Int
      BY <3>2 DEF Leg
    <3> QED
      BY <1>u, <3>2, <3>3 DEF NoLots
  <2>3. ASSUME NEW p, NEW side PROVE OpenOn(p, side)' = OpenOn(p, side)
    BY <1>u DEF OpenOn, Open, NoTrade
  <2>4. ASSUME NEW p, NEW m PROVE Within(p, m)' = Within(p, m)
    BY <2>3 DEF Within
  <2>5. ASSUME NEW p, OthersClean(p)' PROVE OthersClean(p)
    <3>1. SUFFICES ASSUME NEW t \in Opened(p) PROVE Exact(t)
      BY DEF OthersClean
    <3>2. t # n /\ t \in Ids
      BY <1>u, <3>1 DEF Opened
    <3>3. t \in Opened(p)'
      BY <1>u, <3>1, <3>2 DEF Opened
    <3>4. Exact(t)'
      BY <1>0, <2>5, <3>2, <3>3 DEF OthersClean
    <3> QED
      BY <1>u, <3>2, <3>4 DEF Exact
  <2>6. SUFFICES ASSUME NEW p \in Products, OthersClean(p)'
                 PROVE  /\ Within(p, pos[p])
                        /\ \A l \in DOMAIN legs : Within(p, pos[p] - legs[l].side * bought[n][l])
    BY <1>0, <1>u, <2>4 DEF NetInv
  <2>7. Within(p, pos[p]) /\ pos[p] \in Int
    BY <2>1, <2>5, <2>6 DEF NetInv, TypeOK
  <2>8. \A l \in DOMAIN legs : pos[p] - legs[l].side * bought[n][l] = pos[p]
    BY <2>2, <2>7
  <2> QED
    BY <2>7, <2>8
<1> QED
  BY <1>1, <1>2, <1>3, <1>4, <1>5, <1>6, <1>7

\* submit_entry moves the account by what it opens for the trade in hand.
LEMMA EntryWorksPreserves == ASSUME IInv, EntryWorks PROVE IInv'
<1> USE EngineAssumption DEF IInv, EntryWorks, table, account, exit
<1>0. cur \in Ids /\ trade[cur].status = "OPEN" /\ InEntry /\ InEntry'
  BY DEF LoopInv, InEntry, Open
<1>k. PICK k \in DOMAIN sent[cur], lots \in 0..(2 * Lots) : Opens(cur, k, lots)
  OBVIOUS
<1>1. TypeOK'
  BY <1>0, <1>k, OpensTyped DEF TypeOK
<1>2. LoopInv' /\ AcctInv'
  BY <1>1 DEF TypeOK, LoopInv, AcctInv, InExit, InEntry, Open, Snapshot
<1>3. BookInv' /\ ExitInv' /\ ExitNetInv'
  BY DEF BookInv, ExitInv, ExitNetInv, InExit
<1>4. CoolInv'
  BY <1>1 DEF TypeOK, LoopInv, CoolInv, InExit, InEntry
<1>5. ConcurrencyCaps'
  BY DEF ConcurrencyCaps
<1>6. PositionHasTrade' /\ SentInv'
  <2>1. \A t \in Ids : t # cur => bought'[t] = bought[t]
    BY <1>0, <1>k DEF TypeOK, Opens
  <2>2. trade[cur].legs = <<>>
    BY <1>0 DEF LoopInv
  <2> QED
    BY <1>0, <2>1, <2>2 DEF PositionHasTrade, SentInv
<1>7. NetInv'
  BY <1>0, <1>k, NetOwnFill
<1> QED
  BY <1>1, <1>2, <1>3, <1>4, <1>5, <1>6, <1>7

\* A filled entry has opened at least the lots of every leg.
LEMMA EntryFilledPreserves == ASSUME IInv, EntryFilled PROVE IInv'
<1> USE EngineAssumption DEF IInv, EntryFilled, table, account, exit
<1>1. TypeOK'
  BY DEF TypeOK
<1>2. LoopInv' /\ AcctInv'
  BY <1>1 DEF TypeOK, LoopInv, AcctInv, InExit, InEntry, Open, Snapshot
<1>3. BookInv' /\ ExitInv' /\ ExitNetInv'
  BY DEF BookInv, ExitInv, ExitNetInv, InExit
<1>4. CoolInv'
  BY <1>1 DEF TypeOK, LoopInv, CoolInv, InExit, InEntry
<1>5. ConcurrencyCaps'
  BY DEF ConcurrencyCaps
<1>6. PositionHasTrade' /\ SentInv'
  BY DEF PositionHasTrade, SentInv
<1>7. NetInv'
  BY NetQuiet DEF InEntry
<1> QED
  BY <1>1, <1>2, <1>3, <1>4, <1>5, <1>6, <1>7

\* A failed entry leaves the row for the next session to mark.
LEMMA EntryFailedPreserves == ASSUME IInv, EntryFailed PROVE IInv'
<1> USE EngineAssumption DEF IInv, EntryFailed, table, account, exit
<1>1. TypeOK'
  BY DEF TypeOK
<1>2. LoopInv' /\ AcctInv'
  BY <1>1 DEF TypeOK, LoopInv, AcctInv, InExit, InEntry, Open, Snapshot
<1>3. BookInv' /\ ExitInv' /\ ExitNetInv'
  BY DEF BookInv, ExitInv, ExitNetInv, InExit
<1>4. CoolInv'
  BY <1>1 DEF TypeOK, LoopInv, CoolInv, InExit, InEntry
<1>5. ConcurrencyCaps'
  BY DEF ConcurrencyCaps
<1>6. PositionHasTrade' /\ SentInv'
  BY DEF PositionHasTrade, SentInv
<1>7. NetInv'
  BY NetQuiet DEF InEntry
<1> QED
  BY <1>1, <1>2, <1>3, <1>4, <1>5, <1>6, <1>7

\* Storing the legs makes the trade answer for what its entry has opened.
LEMMA EntryCommitPreserves == ASSUME IInv, EntryCommit PROVE IInv'
<1> USE EngineAssumption DEF IInv, EntryCommit, EntryReturns, table, account, exit
<1>0. cur \in Ids /\ cur \in Open(trade) /\ trade[cur] \in Row /\ InEntry /\ ~InEntry'
  BY OpenRow DEF LoopInv, InEntry, Open
<1>l. trade[cur].legs = <<>> /\ sent[cur] # <<>> /\ sent[cur] \in Picked
  BY <1>0 DEF LoopInv, TypeOK
<1>u. /\ \A t \in Ids : t # cur => trade'[t] = trade[t]
      /\ trade'[cur].legs = sent[cur] /\ trade'[cur].status = "OPEN"
  BY <1>0 DEF TypeOK, Row, Open
<1>1. TypeOK'
  <2>1. cur \in Ids /\ trade[cur].target \in Targets /\ [trade[cur] EXCEPT !.legs = sent[cur]] \in Row
    BY <1>0, <1>l, OpenRow
  <2>2. trade' \in [Ids -> {NoTrade} \union Row]
    BY <2>1 DEF TypeOK
  <2>3. acct' \in [total : Nat, by : [Strategies -> Nat]]
    BY SnapshotTyped
  <2> QED
    BY <2>2, <2>3 DEF TypeOK
<1>2. LoopInv' /\ AcctInv'
  BY <1>1 DEF TypeOK, LoopInv, AcctInv, InExit, InEntry, Open, Snapshot
<1>3. BookInv' /\ ExitInv' /\ ExitNetInv'
  BY DEF BookInv, ExitInv, ExitNetInv, InExit
<1>4. CoolInv'
  BY <1>1 DEF TypeOK, LoopInv, CoolInv, InExit, InEntry
<1>5. ConcurrencyCaps'
  <2>2. [trade[cur] EXCEPT !.legs = sent[cur]].target = trade[cur].target
    BY <1>0 DEF Row
  <2>3. trade' = [trade EXCEPT ![cur] = [trade[cur] EXCEPT !.legs = sent[cur]]]
    OBVIOUS
  <2> QED
    BY <1>0, <2>2, <2>3, CapsAfterUpdate
<1>6. PositionHasTrade' /\ SentInv'
  BY <1>0, <1>u DEF PositionHasTrade, SentInv
<1>7. NetInv'
  <2>1. ASSUME NEW t \in Ids, t # cur PROVE Exact(t)' = Exact(t)
    BY <1>u, <2>1 DEF Exact
  <2>2. ASSUME NEW p PROVE Opened(p)' = Opened(p) /\ Opened(p) \subseteq Ids
    BY DEF Opened
  <2>3. SUFFICES ASSUME NEW p \in Products, OthersClean(p)' PROVE Within(p, pos[p])'
    BY <1>0 DEF NetInv
  <2>4. OthersClean(p) /\ pos[p] \in Int
    BY <1>0, <2>1, <2>2, <2>3 DEF OthersClean, TypeOK
  <2>5. ASSUME NEW side
        PROVE  OpenOn(p, side)' = OpenOn(p, side) \union
                 {t \in {cur} : \E l \in DOMAIN sent[cur] : sent[cur][l] = [product |-> p, side |-> side]}
    BY <1>0, <1>l, <1>u DEF OpenOn, Open
  <2>6. CASE ~ \E l \in DOMAIN sent[cur] : sent[cur][l].product = p
    <3>1. Within(p, pos[p])
      BY <1>0, <2>4, <2>6 DEF NetInv
    <3>2. ASSUME NEW side PROVE OpenOn(p, side)' = OpenOn(p, side)
      <4>1. ~ \E l \in DOMAIN sent[cur] : sent[cur][l] = [product |-> p, side |-> side]
        BY <2>6
      <4> QED
        BY <2>5, <4>1
    <3>3. OpenOn(p, 1)' = OpenOn(p, 1) /\ OpenOn(p, -1)' = OpenOn(p, -1)
      BY <3>2
    <3> QED
      BY <3>1, <3>3 DEF Within
  <2>7. CASE \E l \in DOMAIN sent[cur] : sent[cur][l].product = p
    <3>1. PICK l \in DOMAIN sent[cur] : sent[cur][l].product = p
      BY <2>7
    <3>2. bought[cur][l] \in Int /\ bought[cur][l] >= Lots
      BY <1>0, SentTyped DEF SentInv
    <3>3. cur \in Opened(p)
      BY <1>0, <3>1, <3>2, EngineAssumption DEF Opened
    <3>4. bought[cur][l] = Lots
      BY <1>0, <2>2, <2>3, <3>3 DEF OthersClean, Exact
    <3> DEFINE s == sent[cur][l].side
               up == OpenOn(p, 1)
               down == OpenOn(p, -1)
    <3>5. Within(p, pos[p] - s * Lots)
      BY <1>0, <2>4, <3>1, <3>4 DEF NetInv
    <3>6. cur \notin up /\ cur \notin down
      BY <1>l DEF OpenOn
    <3>7. /\ IsFiniteSet(up) /\ Cardinality(up) \in Nat
          /\ IsFiniteSet(down) /\ Cardinality(down) \in Nat
      BY OpenOnCounts
    <3>8. \A m \in DOMAIN sent[cur] : sent[cur][m].product = p => m = l
      BY <1>0, <3>1, SentTyped
    <3>9. sent[cur][l] \in Leg /\ (s = 1 \/ s = -1)
      BY <1>0, SentTyped
    <3>10. sent[cur][l] = [product |-> p, side |-> s]
      BY <3>1, <3>9 DEF Leg
    <3>11. ASSUME NEW side
           PROVE  /\ side = s => OpenOn(p, side)' = OpenOn(p, side) \union {cur}
                  /\ side # s => OpenOn(p, side)' = OpenOn(p, side)
      <4>1. ASSUME side = s PROVE OpenOn(p, side)' = OpenOn(p, side) \union {cur}
        BY <2>5, <3>10, <4>1
      <4>2. ASSUME side # s PROVE OpenOn(p, side)' = OpenOn(p, side)
        <5>1. ~ \E m \in DOMAIN sent[cur] : sent[cur][m] = [product |-> p, side |-> side]
          BY <3>8, <3>10, <4>2
        <5> QED
          BY <2>5, <5>1
      <4> QED
        BY <4>1, <4>2
    <3>12. /\ Cardinality(up \union {cur}) = Cardinality(up) + 1
           /\ Cardinality(down \union {cur}) = Cardinality(down) + 1
      BY <3>6, <3>7, FS_AddElement
    <3>13. /\ Lots * Cardinality(up) \in Nat
           /\ Lots * (Cardinality(up) + 1) = Lots * Cardinality(up) + Lots
           /\ Lots * Cardinality(down) \in Nat
           /\ Lots * (Cardinality(down) + 1) = Lots * Cardinality(down) + Lots
      BY <3>7, LotsTimes
    <3>14. CASE s = 1
      <4>1. OpenOn(p, 1)' = up \union {cur} /\ OpenOn(p, -1)' = down
        BY <3>11, <3>14
      <4>2. pos[p] - Lots <= Lots * Cardinality(up) /\ - (pos[p] - Lots) <= Lots * Cardinality(down)
        BY <2>4, <3>5, <3>14, EngineAssumption DEF Within
      <4> HIDE DEF up, down, s
      <4>3. pos[p] <= Lots * Cardinality(up) + Lots /\ - pos[p] <= Lots * Cardinality(down)
        BY <2>4, <3>13, <4>2, EngineAssumption
      <4>4. pos[p] <= Lots * Cardinality(up \union {cur}) /\ - pos[p] <= Lots * Cardinality(down)
        BY <3>12, <3>13, <4>3
      <4> QED
        BY <4>1, <4>4 DEF Within
    <3>15. CASE s = -1
      <4>1. OpenOn(p, 1)' = up /\ OpenOn(p, -1)' = down \union {cur}
        BY <3>11, <3>15
      <4>2. pos[p] + Lots <= Lots * Cardinality(up) /\ - (pos[p] + Lots) <= Lots * Cardinality(down)
        <5>1. pos[p] - s * Lots = pos[p] + Lots
          BY <2>4, <3>15, EngineAssumption
        <5> QED
          BY <3>5, <5>1 DEF Within
      <4> HIDE DEF up, down, s
      <4>3. pos[p] <= Lots * Cardinality(up) /\ - pos[p] <= Lots * Cardinality(down) + Lots
        BY <2>4, <3>13, <4>2, EngineAssumption
      <4>4. pos[p] <= Lots * Cardinality(up) /\ - pos[p] <= Lots * Cardinality(down \union {cur})
        BY <3>12, <3>13, <4>3
      <4> QED
        BY <4>1, <4>4 DEF Within
    <3> QED
      BY <3>9, <3>14, <3>15
  <2> QED
    BY <2>6, <2>7
<1> QED
  BY <1>1, <1>2, <1>3, <1>4, <1>5, <1>6, <1>7

\* Marking the trade ERRORED frees its slot; what it has opened is left unclean.
LEMMA EntryErroredPreserves == ASSUME IInv, EntryErrored PROVE IInv'
<1> USE EngineAssumption DEF IInv, EntryErrored, EntryReturns, table, account, exit
<1>1. TypeOK'
  <2>1. cur \in Open(trade)
    BY DEF LoopInv, InEntry
  <2>2. cur \in Ids /\ trade[cur].target \in Targets /\ [trade[cur] EXCEPT !.status = "ERRORED"] \in Row
    BY <2>1, OpenRow
  <2>3. trade' \in [Ids -> {NoTrade} \union Row]
    BY <2>2 DEF TypeOK
  <2>4. cool' \in SUBSET (Strategies \X Underlyings)
    BY <2>2, CooldownTyped DEF TypeOK
  <2>5. acct' \in [total : Nat, by : [Strategies -> Nat]]
    BY SnapshotTyped
  <2> QED
    BY <2>3, <2>4, <2>5 DEF TypeOK
<1>2. LoopInv' /\ AcctInv'
  <2>1. todo = todo' /\ intents' = intents /\ pc' = "entries" /\ todo \subseteq Open(trade)
    BY DEF LoopInv
  <2>2. AcctInv'
    BY DEF AcctInv, Snapshot, Open, StrategyOf
  <2>3. cur \notin todo
    BY DEF LoopInv, InEntry
  <2>4. \A u \in Ids : u # cur => trade'[u] = trade[u]
    BY DEF TypeOK
  <2>5. LoopInv'
    BY <2>1, <2>3, <2>4 DEF LoopInv, InExit, InEntry, Open
  <2> QED
    BY <2>2, <2>5
<1>3. BookInv' /\ ExitInv' /\ ExitNetInv'
  BY DEF BookInv, ExitInv, ExitNetInv, InExit
<1>4. CoolInv'
  BY <1>1 DEF TypeOK, LoopInv, CoolInv, InExit, InEntry
<1>5. ConcurrencyCaps'
  <2>1. cur \in Open(trade)
    BY DEF LoopInv, InEntry
  <2>2. [trade[cur] EXCEPT !.status = "ERRORED"].target = trade[cur].target
    BY <2>1, OpenRow DEF Row
  <2>3. trade' = [trade EXCEPT ![cur] = [trade[cur] EXCEPT !.status = "ERRORED"]]
    OBVIOUS
  <2> QED
    BY <2>1, <2>2, <2>3, CapsAfterUpdate
<1>6. PositionHasTrade' /\ SentInv'
  <2>1. cur \in Ids /\ cur \in Open(trade) /\ trade[cur] \in Row
    BY OpenRow DEF LoopInv, InEntry, Open
  <2>2. /\ \A t \in Ids : t # cur => trade'[t] = trade[t]
        /\ trade'[cur].legs = trade[cur].legs /\ trade'[cur].status = "ERRORED"
    BY <2>1 DEF TypeOK, Row
  <2> QED
    BY <2>1, <2>2 DEF PositionHasTrade, SentInv, Open
<1>7. NetInv'
  <2>1. cur \in Ids /\ cur \in Open(trade) /\ trade[cur] \in Row /\ InEntry /\ ~InEntry'
    BY OpenRow DEF LoopInv, InEntry, Open
  <2>2. /\ \A t \in Ids : t # cur => trade'[t] = trade[t]
        /\ trade'[cur].legs = trade[cur].legs
    BY <2>1 DEF TypeOK, Row
  <2> HIDE DEF IInv, EntryErrored, EntryReturns
  <2> QED
    BY <2>1, <2>2, NetAbandoned DEF EntryErrored, EntryReturns
<1> QED
  BY <1>1, <1>2, <1>3, <1>4, <1>5, <1>6, <1>7

\* The end of a tick changes nothing but the place in the loop.
LEMMA TickEndsPreserves == ASSUME IInv, TickEnds PROVE IInv'
<1> USE EngineAssumption DEF IInv, TickEnds, ForgetTick, table, account, exit
<1>1. TypeOK'
  BY DEF TypeOK
<1>2. LoopInv' /\ AcctInv'
  BY <1>1 DEF TypeOK, LoopInv, AcctInv, InExit, InEntry, Open, Snapshot
<1>3. BookInv' /\ ExitInv' /\ ExitNetInv'
  BY DEF BookInv, ExitInv, ExitNetInv, InExit
<1>4. CoolInv'
  BY <1>1 DEF TypeOK, LoopInv, CoolInv, InExit, InEntry
<1>5. ConcurrencyCaps'
  BY DEF ConcurrencyCaps
<1>6. PositionHasTrade' /\ SentInv'
  BY DEF PositionHasTrade, SentInv
<1>7. NetInv'
  BY NetQuiet DEF InEntry
<1> QED
  BY <1>1, <1>2, <1>3, <1>4, <1>5, <1>6, <1>7

\* Cooldowns only expire between two ticks.
LEMMA CooldownsExpirePreserves == ASSUME IInv, CooldownsExpire PROVE IInv'
<1> USE EngineAssumption DEF IInv, CooldownsExpire, table, account, exit
<1>1. TypeOK'
  BY DEF TypeOK
<1>2. LoopInv' /\ AcctInv'
  BY <1>1 DEF TypeOK, LoopInv, AcctInv, InExit, InEntry, Open, Snapshot
<1>3. BookInv' /\ ExitInv' /\ ExitNetInv'
  BY DEF BookInv, ExitInv, ExitNetInv, InExit
<1>4. CoolInv'
  BY <1>1 DEF TypeOK, LoopInv, CoolInv, InExit, InEntry
<1>5. ConcurrencyCaps'
  BY DEF ConcurrencyCaps
<1>6. PositionHasTrade' /\ SentInv'
  BY DEF PositionHasTrade, SentInv
<1>7. NetInv'
  BY NetQuiet DEF InEntry
<1> QED
  BY <1>1, <1>2, <1>3, <1>4, <1>5, <1>6, <1>7

\* A late fill makes its product unclean.
LEMMA LateFillPreserves == ASSUME IInv, NEW t \in Ids, LateFill(t) PROVE IInv'
<1> USE EngineAssumption DEF IInv, LateFill, table, account, exit
<1>k. PICK k \in DOMAIN sent[t] : bought[t][k] < 2 * Lots /\ Opens(t, k, bought[t][k] + 1)
  OBVIOUS
<1>b. bought[t][k] + 1 \in 0..(2 * Lots)
  BY <1>k, SentTyped
<1>u. /\ \A u \in Ids : u # t => bought'[u] = bought[u]
      /\ \A l \in DOMAIN sent[t] : l # k => bought'[t][l] = bought[t][l]
      /\ bought'[t][k] = bought[t][k] + 1
  <2>1. k \in 1..MaxLegs /\ \A l \in DOMAIN sent[t] : l \in 1..MaxLegs
    BY <1>k, SentTyped
  <2>2. bought' = [bought EXCEPT ![t][k] = bought[t][k] + 1] /\ bought \in [Ids -> [1..MaxLegs -> 0..(2 * Lots)]]
    BY <1>k DEF Opens, TypeOK
  <2> HIDE DEF IInv, LateFill
  <2> QED
    BY <2>1, <2>2
<1>1. TypeOK'
  BY <1>k, <1>b, OpensTyped DEF TypeOK
<1>2. LoopInv' /\ AcctInv'
  BY DEF LoopInv, AcctInv, InExit, InEntry
<1>3. BookInv' /\ ExitInv' /\ ExitNetInv'
  <2>1. BookInv'
    BY DEF BookInv
  <2>2. SUFFICES ASSUME InExit PROVE ExitInv' /\ ExitNetInv'
    BY <2>1 DEF ExitInv, ExitNetInv, InExit
  <2>3. ~InEntry /\ cur \in Ids
    BY <2>2 DEF InExit, InEntry, LoopInv, Open
  <2>4. ASSUME NEW p \in Products, Clean(p)' PROVE Clean(p) /\ pos'[p] = pos[p]
    BY <2>3, <2>4, LateFillTaints DEF Clean, OthersClean
  <2>5. ASSUME NEW l \in DOMAIN trade[cur].legs, Clean(trade[cur].legs[l].product)'
        PROVE  /\ Clean(trade[cur].legs[l].product)
               /\ Facing(trade[cur].legs[l])' = Facing(trade[cur].legs[l])
    <3>1. trade[cur].legs[l].product \in Products
      BY <2>3, RowTyped
    <3> QED
      BY <2>4, <2>5, <3>1 DEF Facing
  <2>6. \A p, side : OpenOn(p, side)' = OpenOn(p, side)
    BY DEF OpenOn, Open
  <2>7. ExitInv'
    BY <2>2, <2>5 DEF ExitInv, InExit
  <2>8. ExitNetInv'
    BY <2>2, <2>5, <2>6 DEF ExitNetInv, InExit
  <2> QED
    BY <2>7, <2>8
<1>4. CoolInv'
  BY <1>1 DEF TypeOK, LoopInv, CoolInv, InExit, InEntry
<1>5. ConcurrencyCaps'
  BY DEF ConcurrencyCaps
<1>6. PositionHasTrade' /\ SentInv'
  <2>1. trade[t].status # "none"
    BY <1>k DEF SentInv
  <2>2. \A u \in Ids : \A l \in DOMAIN sent[u] : bought[u][l] \in Int /\ bought'[u][l] >= bought[u][l]
    <3>1. ASSUME NEW u \in Ids, NEW l \in DOMAIN sent[u]
          PROVE  bought[u][l] \in Int /\ bought'[u][l] >= bought[u][l]
      <4>1. bought[u][l] \in Int
        BY SentTyped
      <4>2. bought'[u][l] = bought[u][l] \/ bought'[u][l] = bought[u][l] + 1
        BY <1>u
      <4> QED
        BY <4>1, <4>2
    <3> QED
      BY <3>1
  <2>3. InEntry => cur \in Ids
    BY DEF LoopInv, Open
  <2>4. SentInv'
    <3>1. ASSUME NEW u \in Ids, NEW l \in DOMAIN sent[u], bought[u][l] >= Lots
          PROVE  bought'[u][l] >= Lots
      <4>1. bought'[u][l] \in Int
        <5>1. l \in 1..MaxLegs
          BY SentTyped
        <5>2. bought' \in [Ids -> [1..MaxLegs -> 0..(2 * Lots)]]
          BY <1>1 DEF TypeOK
        <5> QED
          BY <5>1, <5>2
      <4> QED
        BY <2>2, <3>1, <4>1, EngineAssumption
    <3> QED
      BY <2>3, <3>1 DEF SentInv, InEntry
  <2>5. PositionHasTrade'
    BY <1>u, <2>1 DEF PositionHasTrade
  <2> QED
    BY <2>4, <2>5
<1>7. NetInv'
  <2>1. CASE InEntry /\ t = cur
    BY <1>k, <1>b, <2>1, NetOwnFill DEF InEntry
  <2>2. CASE ~(InEntry /\ t = cur)
    <3>1. InEntry' = InEntry /\ cur' = cur
      BY DEF InEntry
    <3>2. ASSUME NEW p \in Products, OthersClean(p)' PROVE OthersClean(p) /\ pos'[p] = pos[p]
      <4>1. \A u \in Opened(p)' : (InEntry /\ u = cur) \/ Exact(u)'
        BY <3>1, <3>2 DEF OthersClean
      <4> QED
        BY <2>2, <4>1, LateFillTaints
    <3>3. \A p, side : OpenOn(p, side)' = OpenOn(p, side)
      BY DEF OpenOn, Open
    <3>4. \A p, n : Within(p, n)' = Within(p, n)
      BY <3>3 DEF Within
    <3>5. ASSUME InEntry, NEW l \in DOMAIN sent[cur] PROVE bought'[cur][l] = bought[cur][l]
      BY <1>u, <2>2, <3>5 DEF LoopInv, Open
    <3> QED
      BY <3>1, <3>2, <3>4, <3>5 DEF NetInv
  <2> QED
    BY <2>1, <2>2
<1> QED
  BY <1>1, <1>2, <1>3, <1>4, <1>5, <1>6, <1>7

-----------------------------------------------------------------------------
(* The theorems. *)

\* A fresh database on a flat account meets the invariant.
LEMMA InitEstablishes == ASSUME Init PROVE IInv
<1> USE EngineAssumption DEF Init
<1>1. TypeOK
  BY DEF TypeOK, NoLots
<1>2. Open(trade) = {} /\ \A s \in Strategies : {t \in Open(trade) : StrategyOf(trade[t]) = s} = {}
  BY DEF Open, NoTrade
<1>3. ConcurrencyCaps
  <2>1. Cardinality({}) = 0
    BY FS_EmptySet
  <2> HIDE DEF Init
  <2>2. Cardinality(Open(trade)) <= MaxTotal
    BY <1>2, <2>1
  <2>3. ASSUME NEW s \in Strategies
        PROVE  Cardinality({t \in Open(trade) : StrategyOf(trade[t]) = s}) <= MaxPerStrategy
    <3>1. {t \in Open(trade) : StrategyOf(trade[t]) = s} = {}
      BY <1>2
    <3> DEFINE T == {t \in Open(trade) : StrategyOf(trade[t]) = s}
    <3> HIDE DEF T
    <3>2. Cardinality(T) = 0
      BY <2>1, <3>1 DEF T
    <3>3. Cardinality(T) <= MaxPerStrategy
      BY <3>2
    <3> QED
      BY <3>3 DEF T
  <2> QED
    BY <2>2, <2>3 DEF ConcurrencyCaps
<1>4. LoopInv /\ AcctInv /\ ExitInv /\ ExitNetInv /\ BookInv /\ CoolInv
  BY DEF LoopInv, AcctInv, ExitInv, ExitNetInv, BookInv, CoolInv, InExit, InEntry
<1>5. PositionHasTrade /\ SentInv
  BY DEF PositionHasTrade, SentInv, NoTrade
<1>6. NetInv
  <2>1. ASSUME NEW p \in Products PROVE Within(p, pos[p])
    <3>1. Lots * Cardinality(OpenOn(p, 1)) \in Nat /\ Lots * Cardinality(OpenOn(p, -1)) \in Nat
      BY OpenOnCounts, LotsTimes
    <3> QED
      BY <3>1 DEF Within
  <2> QED
    BY <2>1 DEF NetInv, InEntry
<1> QED
  BY <1>1, <1>3, <1>4, <1>5, <1>6 DEF IInv

\* Every step of the main loop, of the exchange and of the process keeps the invariant.
LEMMA NextPreserves == ASSUME IInv, [Next]_vars PROVE IInv'
<1>1. CASE Boot
  BY <1>1, BootPreserves
<1>2. CASE Crash
  BY <1>2, CrashPreserves
<1>3. CASE TickRaises
  BY <1>3, TickRaisesPreserves
<1>4. CASE LoadOpenTrades
  BY <1>4, LoadOpenTradesPreserves
<1>5. ASSUME NEW t \in Ids, Keep(t) PROVE IInv'
  BY <1>5, KeepPreserves
<1>6. ASSUME NEW t \in Ids, ExitBegin(t) PROVE IInv'
  BY <1>6, ExitBeginPreserves
<1>7. CASE ExitLeg
  BY <1>7, ExitLegPreserves
<1>8. CASE ExitFailed
  BY <1>8, ExitFailedPreserves
<1>9. CASE ExitSucceeded
  BY <1>9, ExitSucceededPreserves
<1>10. CASE ExitCommit
  BY <1>10, ExitCommitPreserves
<1>11. CASE Dispatch
  BY <1>11, DispatchPreserves
<1>12. ASSUME NEW x \in Targets, GateRefuses(x) PROVE IInv'
  BY <1>12, GateRefusesPreserves
<1>13. ASSUME NEW x \in Targets, GateApproves(x) PROVE IInv'
  BY <1>13, GateApprovesPreserves
<1>14. CASE EntryWorks
  BY <1>14, EntryWorksPreserves
<1>15. CASE EntryFilled
  BY <1>15, EntryFilledPreserves
<1>16. CASE EntryFailed
  BY <1>16, EntryFailedPreserves
<1>17. CASE EntryCommit
  BY <1>17, EntryCommitPreserves
<1>18. CASE EntryErrored
  BY <1>18, EntryErroredPreserves
<1>19. CASE TickEnds
  BY <1>19, TickEndsPreserves
<1>20. CASE CooldownsExpire
  BY <1>20, CooldownsExpirePreserves
<1>21. ASSUME NEW t \in Ids, LateFill(t) PROVE IInv'
  BY <1>21, LateFillPreserves
<1>22. CASE UNCHANGED vars
  <2> USE <1>22 DEF IInv, vars, table, account, exit
  <2>1. TypeOK' /\ LoopInv' /\ AcctInv' /\ SentInv'
    BY DEF TypeOK, LoopInv, AcctInv, SentInv, InExit, InEntry
  <2>2. NetInv'
    BY NetQuiet DEF InEntry
  <2>3. /\ \A p, side : OpenOn(p, side)' = OpenOn(p, side)
        /\ \A p : Clean(p)' = Clean(p)
        /\ \A l : Facing(l)' = Facing(l)
    BY DEF OpenOn, Open, Clean, Opened, Exact, Facing
  <2>4. ExitNetInv' /\ ExitInv' /\ BookInv'
    BY <2>3 DEF ExitNetInv, ExitInv, BookInv, InExit
  <2>5. CoolInv' /\ ConcurrencyCaps' /\ PositionHasTrade'
    BY DEF CoolInv, ConcurrencyCaps, PositionHasTrade
  <2> QED
    BY <2>1, <2>2, <2>4, <2>5
<1> QED
  BY <1>1, <1>2, <1>3, <1>4, <1>5, <1>6, <1>7, <1>8, <1>9, <1>10, <1>11, <1>12, <1>13, <1>14,
     <1>15, <1>16, <1>17, <1>18, <1>19, <1>20, <1>21, <1>22 DEF Next, Tick

\* IInv holds in every state of the trading engine.
THEOREM InductiveInvariant == Spec => []IInv
<1>1. Init => IInv
  BY InitEstablishes
<1>2. IInv /\ [Next]_vars => IInv'
  BY NextPreserves
<1> QED
  BY <1>1, <1>2, PTL DEF Spec

\* The state of the engine keeps its types.
THEOREM TypeCorrect == Spec => []TypeOK
<1>1. IInv => TypeOK
  BY DEF IInv
<1> QED
  BY <1>1, InductiveInvariant, PTL

\* The gate and the sessions around it keep the open trades within max_total and
\* max_per_strategy.
THEOREM CapsAreKept == Spec => []ConcurrencyCaps
<1>1. IInv => ConcurrencyCaps
  BY DEF IInv
<1> QED
  BY <1>1, InductiveInvariant, PTL

\* The row is committed before the first order: no position is without a trade.
THEOREM PositionsAreKnown == Spec => []PositionHasTrade
<1>1. IInv => PositionHasTrade
  BY DEF IInv
<1> QED
  BY <1>1, InductiveInvariant, PTL

\* No exit, however partial, lost or repeated, and whichever trade's lots it closes, lets
\* the database close a trade whose lots the account still holds.
THEOREM NetStaysCovered == Spec => []NetIsCovered
<1>1. IInv => NetIsCovered
  <2>1. SUFFICES ASSUME IInv, NEW p \in Products, Clean(p) PROVE Within(p, pos[p])
    BY DEF NetIsCovered, Within
  <2>2. OthersClean(p)
    BY <2>1 DEF Clean, OthersClean
  <2>3. CASE ~(InEntry /\ \E l \in DOMAIN sent[cur] : sent[cur][l].product = p)
    BY <2>1, <2>2, <2>3 DEF IInv, NetInv
  <2>4. CASE InEntry /\ \E l \in DOMAIN sent[cur] : sent[cur][l].product = p
    <3>1. PICK l \in DOMAIN sent[cur] : sent[cur][l].product = p
      BY <2>4
    <3>2. cur \in Ids /\ trade[cur].legs = <<>> /\ pos[p] \in Int
      BY <2>1, <2>4 DEF IInv, LoopInv, Open, TypeOK
    <3>3. bought[cur][l] \in 0..(2 * Lots) /\ (sent[cur][l].side = 1 \/ sent[cur][l].side = -1)
      BY <2>1, <3>2, SentTyped DEF IInv
    <3>4. cur \notin Opened(p)
      BY <2>1, <3>2 DEF Clean, Exact
    <3>5. bought[cur][l] = 0
      BY <3>1, <3>2, <3>3, <3>4, EngineAssumption DEF Opened
    <3>6. pos[p] - sent[cur][l].side * bought[cur][l] = pos[p]
      BY <3>2, <3>3, <3>5
    <3> QED
      BY <2>1, <2>2, <2>4, <3>1, <3>6 DEF IInv, NetInv
  <2> QED
    BY <2>3, <2>4
<1> QED
  BY <1>1, InductiveInvariant, PTL

\* _persist_exit books a result only if the account held the lots of every leg when
\* submit_exit began.
THEOREM EveryLegIsBooked == Spec => []ExitBooksEveryLeg
<1>1. IInv => ExitBooksEveryLeg
  <2>1. SUFFICES ASSUME IInv, pc = "exit_book",
                        \A l \in DOMAIN trade[cur].legs : Clean(trade[cur].legs[l].product)
                 PROVE  whole
    BY DEF ExitBooksEveryLeg
  <2>2. complete /\ \A l \in DOMAIN trade[cur].legs : l < leg
    BY <2>1 DEF IInv, BookInv
  <2>3. whole \/ \E l \in DOMAIN trade[cur].legs : l >= leg
    BY <2>1, <2>2 DEF IInv, ExitInv, InExit
  <2>4. ASSUME NEW l \in DOMAIN trade[cur].legs PROVE l \in Int /\ leg \in Int
    BY <2>1, RowTyped DEF IInv, LoopInv, InExit, Open, TypeOK
  <2> QED
    BY <2>2, <2>3, <2>4
<1> QED
  BY <1>1, InductiveInvariant, PTL

\* Only the gate opens a row, for one of the intents, and no intent is in a cooldown that
\* an exit of this tick started.
LEMMA OpensAnIntent ==
  ASSUME IInv, [Next]_vars, NEW t \in Ids, trade[t].status = "none", trade'[t].status = "OPEN"
  PROVE  trade'[t].target \in intents
<1>1. PICK x \in Targets : GateApproves(x)
  <2>1. trade' # trade
    OBVIOUS
  <2>2. CASE ExitCommit
    <3>1. cur \in Open(trade) /\ trade' = [trade EXCEPT ![cur].status = "CLOSED"]
      BY <2>2 DEF IInv, LoopInv, InExit, ExitCommit
    <3> QED
      BY <3>1 DEF IInv, TypeOK, Open
  <2>3. CASE EntryCommit
    <3>1. cur \in Open(trade) /\ trade' = [trade EXCEPT ![cur].legs = sent[cur]]
      BY <2>3 DEF IInv, LoopInv, InEntry, EntryCommit
    <3> QED
      BY <3>1 DEF IInv, TypeOK, Open
  <2>4. CASE EntryErrored
    <3>1. cur \in Open(trade) /\ trade' = [trade EXCEPT ![cur].status = "ERRORED"]
      BY <2>4 DEF IInv, LoopInv, InEntry, EntryErrored
    <3> QED
      BY <3>1 DEF IInv, TypeOK, Open
  <2> QED
    BY <2>1, <2>2, <2>3, <2>4 DEF Next, Tick, vars, table, account, exit, Boot, Crash, TickRaises,
       LoadOpenTrades, Keep, ExitBegin, ExitLeg, ExitFailed, ExitSucceeded, Dispatch, GateRefuses,
       EntryWorks, EntryFilled, EntryFailed, TickEnds, CooldownsExpire, LateFill
<1>2. PICK u \in Ids : trade' = [trade EXCEPT ![u] = [target |-> x, status |-> "OPEN", legs |-> <<>>]]
  BY <1>1 DEF GateApproves
<1>3. u = t
  BY <1>2 DEF IInv, TypeOK
<1>4. trade'[t].target = x
  BY <1>2, <1>3 DEF IInv, TypeOK
<1> QED
  BY <1>1, <1>4 DEF GateApproves

\* The cooldowns an exit starts hold for the rest of its tick, whatever else the tick
\* does: nothing re-enters what it has just exited.
THEOREM NoReentry == Spec => NoReentryInTick
<1> DEFINE Reentry(t) ==
      trade[t].status = "none" /\ trade'[t].status = "OPEN" =>
          LET x == trade'[t].target IN
          /\ x[1] = Directional => x \notin exited
          /\ x[1] = Straddle => \A y \in exited : y[1] # Straddle
<1>1. ASSUME IInv, [Next]_vars, NEW t \in Ids PROVE Reentry(t)
  <2>1. SUFFICES ASSUME trade[t].status = "none", trade'[t].status = "OPEN"
                 PROVE  LET x == trade'[t].target IN
                        /\ x[1] = Directional => x \notin exited
                        /\ x[1] = Straddle => \A y \in exited : y[1] # Straddle
    OBVIOUS
  <2>2. PICK x \in intents : x = trade'[t].target
    BY <1>1, <2>1, OpensAnIntent
  <2>3. x \in Targets /\ exited \subseteq Targets
    BY <1>1, <2>2 DEF IInv, TypeOK
  <2>4. \A y \in exited : x \notin ExitCooldown(y)
    BY <1>1, <2>2 DEF IInv, CoolInv
  <2>5. ASSUME x[1] = Directional PROVE x \notin exited
    BY <2>4, <2>5 DEF ExitCooldown
  <2>6. ASSUME x[1] = Straddle, NEW y \in exited, y[1] = Straddle PROVE FALSE
    <3>1. x \in {Straddle} \X Underlyings
      BY <2>3, <2>6, EngineAssumption
    <3> QED
      BY <2>4, <2>6, <3>1, EngineAssumption DEF ExitCooldown
  <2> QED
    BY <2>2, <2>5, <2>6
<1>2. IInv /\ [Next]_vars => [\A t \in Ids : Reentry(t)]_vars
  BY <1>1
<1> QED
  BY <1>2, InductiveInvariant, PTL DEF Spec, NoReentryInTick

=============================================================================
