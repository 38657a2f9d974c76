---------------------------- MODULE TradeEngine ----------------------------
(***************************************************************************)
(* The main loop of run_trading_engine (src/bot/runtime/engine.py) over    *)
(* the trades table, in live mode: exits of the open trades one after the  *)
(* other, dispatch of the strategies, the concurrency part of risk.gate,   *)
(* entries one after the other.  Cut at the awaits that commit a session   *)
(* or talk to the exchange; the process may crash, and the loop may raise, *)
(* at each of them.                                                        *)
(*                                                                         *)
(* submit_entry is what EntryContract promises (LiveEntry implements it).  *)
(* submit_exit is modelled leg by leg.  The exchange is external: it nets  *)
(* the lots of all trades per product, and an order does not say whose     *)
(* lots it is about.                                                       *)
(***************************************************************************)
EXTENDS Integers, Sequences, FiniteSets

CONSTANTS
    Strategies,         \* registered strategies
    Directional,        \* the one with a cooldown per underlying
    Straddle,           \* the one with a cooldown for the whole strategy
    Underlyings,
    Products,           \* the option contracts of the exchange
    Plans,              \* the legs each strategy may pick on each underlying
    MaxLegs, Lots,      \* most legs of a trade, lots of every trade
    MaxTotal,           \* concurrency.max_total
    MaxPerStrategy,     \* concurrency.max_per_strategy
    MaxTrades,          \* bound: rows of the trades table
    MaxCrashes          \* bound: process stops

\* A leg of an intent: what is bought (1) or sold (-1).
Leg == [product : Products, side : {1, -1}]
Targets == DOMAIN Plans
Picked == UNION {Plans[x] : x \in Targets}

\* The legs of an intent are of different products: the strikes of a vertical differ,
\* a straddle is a call and a put.
ASSUME EngineAssumption ==
    /\ IsFiniteSet(Strategies) /\ IsFiniteSet(Underlyings)
    /\ Directional \in Strategies /\ Straddle \in Strategies /\ Directional # Straddle
    /\ Targets \subseteq Strategies \X Underlyings
    /\ MaxLegs \in Nat \ {0}
    /\ \A legs \in Picked :
        /\ legs \in Seq(Leg) /\ Len(legs) \in 1..MaxLegs
        /\ \A l, m \in DOMAIN legs : legs[l].product = legs[m].product => l = m
    /\ Lots \in Nat \ {0}
    /\ MaxTotal \in Nat /\ MaxPerStrategy \in Nat
    /\ MaxTrades \in Nat /\ MaxCrashes \in Nat

VARIABLES
    trade,      \* database: the trades table
    pos,        \* exchange: the account's net position in each product
    sent,       \* exchange: the legs the entry orders of each trade were for
    bought,     \* exchange: lots of each leg those orders have opened
    pc,         \* where the main loop is
    todo,       \* trades of open_rows the exit loop has not reached
    cur,        \* the trade being exited or entered, 0 for none
    leg,        \* submit_exit: the next leg
    complete,   \* submit_exit: the fills so far are all complete
    intents,    \* intents of this tick the gate has not seen
    acct,       \* the TradeAccountingSnapshot the gate works with
    cool,       \* strategies' cooldowns, in memory
    crashes,    \* history: process stops
    exited,     \* history: what this tick tried to exit
    whole       \* history: the account held the lots of every leg when the exit began

account == <<pos, sent, bought>>
table == <<trade, account>>
exit == <<cur, leg, complete, whole>>
vars == <<table, pc, todo, exit, intents, acct, cool, crashes, exited>>

Ids == 1..MaxTrades

\* A row: its target, its status and its Leg rows, none before they are stored.
NoTrade == [target |-> <<>>, status |-> "none", legs |-> <<>>]
Row == [target : Targets, status : {"OPEN", "ERRORED", "CLOSED"}, legs : {<<>>} \union Picked]

NoLots == [l \in 1..MaxLegs |-> 0]
Open(rows) == {t \in Ids : rows[t].status = "OPEN"}
StrategyOf(row) == row.target[1]

TypeOK ==
    /\ trade \in [Ids -> {NoTrade} \union Row]
    /\ pos \in [Products -> Int]
    /\ sent \in [Ids -> {<<>>} \union Picked]
    /\ bought \in [Ids -> [1..MaxLegs -> 0..(2 * Lots)]]
    /\ pc \in {"down", "idle", "exits", "exit", "exit_book", "entries", "entry",
               "entry_filled", "entry_failed", "dead"}
    /\ todo \in SUBSET Ids
    /\ cur \in Ids \union {0}
    /\ leg \in 1..(MaxLegs + 1)
    /\ complete \in BOOLEAN /\ whole \in BOOLEAN
    /\ intents \in SUBSET Targets
    /\ acct \in [total : Nat, by : [Strategies -> Nat]]
    /\ cool \in SUBSET (Strategies \X Underlyings) /\ exited \in SUBSET Targets
    /\ crashes \in 0..MaxCrashes

\* _accounting_snapshot.
Snapshot(rows) ==
    [total |-> Cardinality(Open(rows)),
     by |-> [s \in Strategies |-> Cardinality({t \in Open(rows) : StrategyOf(rows[t]) = s})]]

\* The targets that an exit of a trade on `x` puts into cooldown; a credit vertical
\* has none.
ExitCooldown(x) ==
    IF x[1] = Directional THEN {x}
    ELSE IF x[1] = Straddle THEN {Straddle} \X Underlyings
    ELSE {}

\* A failed entry: only the directional strategy cools down.
EntryFailureCooldown(x) == IF x[1] = Directional THEN {x} ELSE {}

-----------------------------------------------------------------------------
(* The account. *)

\* Lots of the product the account holds in the direction of a leg.
Facing(l) == l.side * pos[l.product]

\* The entry orders of leg l of trade t have opened `lots` lots.
Opens(t, l, lots) ==
    LET o == sent[t][l] IN
    /\ bought' = [bought EXCEPT ![t][l] = lots]
    /\ pos' = [pos EXCEPT ![o.product] = @ + o.side * (lots - bought[t][l])]

\* A reduce-only order against a leg brings the position nearer to zero, never past it,
\* whichever trades the lots belong to.
Reduces(l, executed) ==
    /\ executed = 0 \/ executed <= Facing(l)
    /\ pos' = [pos EXCEPT ![l.product] = @ - l.side * executed]

-----------------------------------------------------------------------------
(* Process. *)

\* What the tick keeps in local variables is gone when it ends, raises or crashes.
ForgetTick ==
    /\ todo' = {} /\ intents' = {}
    /\ cur' = 0 /\ leg' = 1 /\ complete' = TRUE /\ whole' = TRUE
    /\ acct' = [total |-> 0, by |-> [s \in Strategies |-> 0]]
    /\ exited' = {}

\* The engine starts trading without looking at the exchange; cooldowns are gone.
Boot ==
    /\ pc = "down"
    /\ pc' = "idle"
    /\ cool' = {}
    /\ UNCHANGED <<table, todo, exit, intents, acct, crashes, exited>>

Crash ==
    /\ pc # "down"
    /\ crashes < MaxCrashes
    /\ crashes' = crashes + 1
    /\ pc' = "down"
    /\ ForgetTick
    /\ UNCHANGED <<table, cool>>

\* A session, a journal file or the transport raises; main_loop has no handler, its
\* task is over while the process stays up.
TickRaises ==
    /\ pc \notin {"down", "dead"}
    /\ pc' = "dead"
    /\ ForgetTick
    /\ UNCHANGED <<table, cool, crashes>>

-----------------------------------------------------------------------------
(* Exits. *)

LoadOpenTrades ==
    /\ pc = "idle"
    /\ pc' = "exits"
    /\ todo' = Open(trade)
    /\ UNCHANGED <<table, exit, intents, acct, cool, crashes, exited>>

Earliest(t) == t \in todo /\ \A u \in todo : t <= u

\* The strategy's manage() keeps the position (or moves its stop).
Keep(t) ==
    /\ pc = "exits"
    /\ Earliest(t)
    /\ todo' = todo \ {t}
    /\ UNCHANGED <<table, pc, exit, intents, acct, cool, crashes, exited>>

\* manage() closes it: _persist_exit calls submit_exit.
ExitBegin(t) ==
    /\ pc = "exits"
    /\ Earliest(t)
    /\ pc' = "exit"
    /\ cur' = t /\ leg' = 1 /\ complete' = TRUE
    /\ whole' = (\A l \in DOMAIN trade[t].legs : Facing(trade[t].legs[l]) >= Lots)
    /\ UNCHANGED <<table, todo, intents, acct, cool, crashes, exited>>

\* Mutant: a leg counts as closed once its order was answered.
ExitLegAnswered ==
    /\ pc = "exit" /\ leg \in DOMAIN trade[cur].legs
    /\ \E executed \in 0..Lots, seen \in BOOLEAN :
        /\ Reduces(trade[cur].legs[leg], executed)
        /\ complete' = (complete /\ seen)
    /\ leg' = leg + 1
    /\ UNCHANGED <<trade, sent, bought, pc, todo, cur, whole, intents, acct, cool, crashes, exited>>

\* Mutant: a leg that has nothing left to close counts as closed.
ExitLegGone ==
    /\ pc = "exit" /\ leg \in DOMAIN trade[cur].legs
    /\ \E executed \in 0..Lots, seen \in BOOLEAN :
        /\ Reduces(trade[cur].legs[leg], executed)
        /\ complete' = (complete /\ seen /\ (executed = Lots \/ Facing(trade[cur].legs[leg]) <= 0))
    /\ leg' = leg + 1
    /\ UNCHANGED <<trade, sent, bought, pc, todo, cur, whole, intents, acct, cool, crashes, exited>>

\* One leg of submit_exit: the reduce-only market order, which names the product, the
\* side and the lots.  It may not be sent (no instrument) or be refused, execute in
\* part, or execute and be answered by an error or by a reply that does not show the
\* fill yet.
ExitLeg ==
    /\ pc = "exit" /\ leg \in DOMAIN trade[cur].legs
    /\ \E executed \in 0..Lots, seen \in BOOLEAN :
        /\ Reduces(trade[cur].legs[leg], executed)
        /\ complete' = (complete /\ seen /\ executed = Lots)
    /\ leg' = leg + 1
    /\ UNCHANGED <<trade, sent, bought, pc, todo, cur, whole, intents, acct, cool, crashes, exited>>

\* A trade without Leg rows has no leg to send: all() of no fills is true.
ExitSent == pc = "exit" /\ leg \notin DOMAIN trade[cur].legs

\* Mutant: a trade whose exit failed is tried again in the same tick.
ExitReturnsRetry ==
    /\ pc' = "exits"
    /\ todo' = IF complete THEN todo \ {cur} ELSE todo
    /\ cool' = cool \union ExitCooldown(trade[cur].target)
    /\ exited' = exited \union {trade[cur].target}
    /\ cur' = 0 /\ leg' = 1 /\ complete' = TRUE /\ whole' = TRUE

\* Back in the tick: the cooldowns are applied whether or not the exit worked.
ExitReturns ==
    /\ pc' = "exits"
    /\ todo' = todo \ {cur}
    /\ cool' = cool \union ExitCooldown(trade[cur].target)
    /\ exited' = exited \union {trade[cur].target}
    /\ cur' = 0 /\ leg' = 1 /\ complete' = TRUE /\ whole' = TRUE

ExitFailed ==
    /\ ExitSent /\ ~complete
    /\ ExitReturns
    /\ UNCHANGED <<table, intents, acct, crashes>>

ExitSucceeded ==
    /\ ExitSent /\ complete
    /\ pc' = "exit_book"
    /\ UNCHANGED <<table, todo, exit, intents, acct, cool, crashes, exited>>

\* The session that closes the trade and its legs.
ExitCommit ==
    /\ pc = "exit_book"
    /\ trade' = [trade EXCEPT ![cur].status = "CLOSED"]
    /\ ExitReturns
    /\ UNCHANGED <<account, intents, acct, crashes>>

-----------------------------------------------------------------------------
(* Entries. *)

\* Mutant: the strategies are asked without regard to their cooldowns.
DispatchAnyway ==
    /\ pc = "exits" /\ todo = {}
    /\ pc' = "entries"
    /\ intents' \in SUBSET Targets
    /\ acct' = Snapshot(trade)
    /\ UNCHANGED <<table, todo, exit, cool, crashes, exited>>

\* dispatcher.evaluate_all: at most one intent per strategy and underlying, none in a
\* cooldown; then the accounting snapshot.
Dispatch ==
    /\ pc = "exits" /\ todo = {}
    /\ pc' = "entries"
    /\ intents' \in SUBSET (Targets \ cool)
    /\ acct' = Snapshot(trade)
    /\ UNCHANGED <<table, todo, exit, cool, crashes, exited>>

\* Window, caps, desk limits and sizing may refuse any intent.
GateRefuses(x) ==
    /\ pc = "entries" /\ x \in intents
    /\ intents' = intents \ {x}
    /\ UNCHANGED <<table, pc, todo, exit, acct, cool, crashes, exited>>

\* The id the database gives the next row; rows are never deleted.
NextId(t) == trade[t].status = "none" /\ \A u \in Ids : u < t => trade[u].status # "none"

\* Mutant: the row is stored only when the entry has filled.
GateApprovesUnstored(x) ==
    /\ pc = "entries" /\ x \in intents
    /\ acct.total < MaxTotal /\ acct.by[x[1]] < MaxPerStrategy
    /\ intents' = intents \ {x}
    /\ \E t \in Ids, legs \in Plans[x] :
        /\ NextId(t)
        /\ sent' = [sent EXCEPT ![t] = legs]
        /\ cur' = t
    /\ pc' = "entry"
    /\ UNCHANGED <<trade, pos, bought, todo, leg, complete, whole, acct, cool, crashes, exited>>

\* The gate approves and the first session of _persist_entry_and_execute stores the
\* trade as OPEN, without legs.
GateApproves(x) ==
    /\ pc = "entries" /\ x \in intents
    /\ acct.total < MaxTotal /\ acct.by[x[1]] < MaxPerStrategy
    /\ intents' = intents \ {x}
    /\ \E t \in Ids, legs \in Plans[x] :
        /\ NextId(t)
        /\ sent' = [sent EXCEPT ![t] = legs]
        /\ trade' = [trade EXCEPT ![t] = [target |-> x, status |-> "OPEN", legs |-> <<>>]]
        /\ cur' = t
    /\ pc' = "entry"
    /\ UNCHANGED <<pos, bought, todo, leg, complete, whole, acct, cool, crashes, exited>>

\* submit_entry at work, as EntryContract allows: any leg, up to twice the lots.
EntryWorks ==
    /\ pc = "entry"
    /\ \E l \in DOMAIN sent[cur], lots \in 0..(2 * Lots) : Opens(cur, l, lots)
    /\ UNCHANGED <<trade, sent, pc, todo, exit, intents, acct, cool, crashes, exited>>

EntryFilled ==
    /\ pc = "entry"
    /\ \A l \in DOMAIN sent[cur] : bought[cur][l] >= Lots
    /\ pc' = "entry_filled"
    /\ UNCHANGED <<table, todo, exit, intents, acct, cool, crashes, exited>>

EntryFailed ==
    /\ pc = "entry"
    /\ pc' = "entry_failed"
    /\ UNCHANGED <<table, todo, exit, intents, acct, cool, crashes, exited>>

\* Mutant: the accounting is read once per tick.
EntryReturnsStale ==
    /\ pc' = "entries"
    /\ cur' = 0
    /\ acct' = acct
    /\ UNCHANGED <<account, todo, leg, complete, whole, intents, crashes, exited>>

\* Back in the tick: the accounting is read again.
EntryReturns ==
    /\ pc' = "entries"
    /\ cur' = 0
    /\ acct' = Snapshot(trade')
    /\ UNCHANGED <<account, todo, leg, complete, whole, intents, crashes, exited>>

\* The session that stores orders and legs.
EntryCommit ==
    /\ pc = "entry_filled"
    /\ trade' = [trade EXCEPT ![cur].legs = sent[cur]]
    /\ EntryReturns
    /\ UNCHANGED cool

\* The session that marks the trade ERRORED, and the cooldown.
EntryErrored ==
    /\ pc = "entry_failed"
    /\ trade' = [trade EXCEPT ![cur].status = "ERRORED"]
    /\ cool' = cool \union EntryFailureCooldown(trade[cur].target)
    /\ EntryReturns

TickEnds ==
    /\ pc = "entries" /\ intents = {}
    /\ pc' = "idle"
    /\ ForgetTick
    /\ UNCHANGED <<table, cool, crashes>>

-----------------------------------------------------------------------------
(* Time and the exchange. *)

\* The directional strategy has one clock per underlying, the straddle a single one.
CooldownsExpire ==
    /\ pc = "idle"
    /\ \E x \in cool : cool' = cool \ ExitCooldown(x)
    /\ UNCHANGED <<table, pc, todo, exit, intents, acct, crashes, exited>>

\* An order that submit_entry left working fills (EntryContract!LateFill).
LateFill(t) ==
    /\ pc = "entry" => t # cur
    /\ \E l \in DOMAIN sent[t] :
        /\ bought[t][l] < 2 * Lots
        /\ Opens(t, l, bought[t][l] + 1)
    /\ UNCHANGED <<trade, sent, pc, todo, exit, intents, acct, cool, crashes, exited>>

-----------------------------------------------------------------------------

Init ==
    /\ trade = [t \in Ids |-> NoTrade]
    /\ pos = [p \in Products |-> 0]
    /\ sent = [t \in Ids |-> <<>>]
    /\ bought = [t \in Ids |-> NoLots]
    /\ pc = "down"
    /\ todo = {} /\ intents = {}
    /\ cur = 0 /\ leg = 1 /\ complete = TRUE /\ whole = TRUE
    /\ acct = [total |-> 0, by |-> [s \in Strategies |-> 0]]
    /\ cool = {} /\ exited = {}
    /\ crashes = 0

Tick ==
    \/ LoadOpenTrades
    \/ \E t \in Ids : Keep(t) \/ ExitBegin(t)
    \/ ExitLeg \/ ExitFailed \/ ExitSucceeded \/ ExitCommit
    \/ Dispatch
    \/ \E x \in Targets : GateRefuses(x) \/ GateApproves(x)
    \/ EntryFilled \/ EntryFailed \/ EntryCommit \/ EntryErrored
    \/ TickEnds

Next ==
    \/ Boot \/ Crash \/ TickRaises
    \/ Tick
    \/ EntryWorks
    \/ CooldownsExpire
    \/ \E t \in Ids : LateFill(t)

Spec == Init /\ [][Next]_vars

\* Every await of the tick ends: sessions and files return or raise, submit_entry
\* returns (LiveEntry), a REST call returns or raises after four attempts.
FairSpec == Spec /\ WF_vars(Tick)

-----------------------------------------------------------------------------
(* Properties. *)

\* The open trades never exceed concurrency.max_total, nor those of a strategy
\* max_per_strategy, with several intents in one tick, with entries that fail, and
\* with what a crash between two sessions leaves behind.
ConcurrencyCaps ==
    /\ Cardinality(Open(trade)) <= MaxTotal
    /\ \A s \in Strategies :
        Cardinality({t \in Open(trade) : StrategyOf(trade[t]) = s}) <= MaxPerStrategy

\* Whenever the process crashes or the loop raises, what entry orders have opened is
\* for a trade the database knows: the row is committed before the first order is sent.
PositionHasTrade == \A t \in Ids : bought[t] # NoLots => trade[t].status # "none"

\* A trade whose legs are stored and opened exactly the lots each.
Exact(t) ==
    /\ trade[t].legs # <<>>
    /\ \A l \in DOMAIN sent[t] : bought[t][l] = Lots

\* Trades that have opened lots of the product, and products that only exact trades have
\* opened: no half entry, no order left working, no row without its Leg rows.
Opened(p) ==
    {t \in Ids : \E l \in DOMAIN sent[t] : sent[t][l].product = p /\ bought[t][l] > 0}
Clean(p) == \A t \in Opened(p) : Exact(t)

\* The OPEN trades with a stored leg on the product, on one side.
OpenOn(p, side) ==
    {t \in Open(trade) :
        \E l \in DOMAIN trade[t].legs : trade[t].legs[l] = [product |-> p, side |-> side]}

\* The net position of the account never exceeds what the OPEN trades say: no partial,
\* refused, unseen or repeated exit, and none that closes the lots of another trade on
\* the same contract, makes the database close a trade whose lots nobody has closed.
\* In particular the account is never long or short with no OPEN trade that is.
NetIsCovered ==
    \A p \in Products :
        Clean(p) => /\ pos[p] <= Lots * Cardinality(OpenOn(p, 1))
                    /\ - pos[p] <= Lots * Cardinality(OpenOn(p, -1))

\* The result _persist_exit books is that of one submit_exit that closed every leg in
\* full: all the lots were there when it began, whatever earlier attempts, of this
\* trade or of another on the same contract, had closed.  So a trade that is alone on
\* its contracts and has once been closed in part is never booked.
ExitBooksEveryLeg ==
    pc = "exit_book" /\ (\A l \in DOMAIN trade[cur].legs : Clean(trade[cur].legs[l].product))
        => whole

\* In the tick that exits a position, even if the exit failed, the directional strategy
\* does not enter that underlying again and the straddle strategy nothing at all.
NoReentryInTick ==
    [][\A t \in Ids :
        trade[t].status = "none" /\ trade'[t].status = "OPEN" =>
            LET x == trade'[t].target IN
            /\ x[1] = Directional => x \notin exited
            /\ x[1] = Straddle => \A y \in exited : y[1] # Straddle]_vars

\* Every tick ends, or the loop or the process does: no exit or entry holds it for ever.
TickTerminates == pc = "exits" ~> pc \in {"idle", "dead", "down"}

=============================================================================
