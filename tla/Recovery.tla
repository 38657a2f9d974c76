------------------------------ MODULE Recovery ------------------------------
(***************************************************************************)
(* Stopping and starting again: KillSwitch (src/bot/runtime/               *)
(* kill_switch.py) sweeps the account's orders and writes shutdown.json,   *)
(* and OrderReconciler (src/bot/execution/reconcile.py) compares the order *)
(* rows with the exchange before the trading loop may start.               *)
(*                                                                         *)
(* run_trading_engine starts neither of them yet; the model is of the use  *)
(* their docstrings show: reconcile at boot, trade until the switch is     *)
(* tripped, sweep, stop; or crash.  Each await is an action boundary, and  *)
(* the exchange goes on in between.  A database session commits at its     *)
(* end, so a crash inside one loses what it changed.                       *)
(*                                                                         *)
(* The exchange's words are those live.py knows ("cancelled", "closed");   *)
(* the rows' words are those of OrderState ("canceled").                   *)
(***************************************************************************)
EXTENDS Integers

CONSTANTS
    NOrders,    \* client order ids, numbered in the order of their ts
    TradeOf,    \* Order.trade_id
    LegOf,      \* Order.leg_idx
    Trades,     \* ids of the trades
    MaxBoots    \* bound: how often the program is started again

Orders == 1..NOrders

ASSUME RecoveryAssumption ==
    /\ NOrders \in Nat
    /\ Trades \subseteq Nat
    /\ TradeOf \in [Orders -> Trades]
    /\ LegOf \in [Orders -> Nat]
    /\ MaxBoots \in Nat

VARIABLES
    ex,         \* the exchange's record of each order
    nameless,   \* an order without a client order id works there, placed by hand
    row,        \* Order.state of each row, or "none"
    trade,      \* Trade.status
    mode,       \* where the process is
    known,      \* db_coids: open rows when run() began
    checked,    \* open_trades: trades open when run() began
    listing,    \* live_by_coid
    work,       \* the rows inside the session of step 2
    todo,       \* db_open_orders still to walk
    report,     \* kinds of mismatches
    mine,       \* the orders this session has sent
    requested,  \* KillSwitch._event; the reason is only recorded
    sweep,      \* open_trade_ids still to sweep
    cancelled,  \* report.cancellations: trades with the result 1
    file,       \* cancellations of shutdown.json; its error text is left out
    boots,      \* how often the program was started again
    unseen,     \* history: orders marked canceled without a record of them
    late,       \* history: orders that arrived since a sweep reported success
    settled     \* history: the last report was clean and nothing moved since

vars == <<ex, nameless, row, trade, mode, known, checked, listing, work, todo, report,
          mine, requested, sweep, cancelled, file, boots, unseen, late, settled>>

exchangeVars == <<ex, nameless, late>>
runVars == <<known, checked, listing, work, todo, report>>
killVars == <<mine, requested, sweep, cancelled>>

ExState == {"absent", "inflight", "open", "filled", "closed", "cancelled", "rejected"}
ExOrder == [state : ExState, fill : {"none", "part", "full"}]
OpenRow == {"pending", "open", "partially_filled"}
RowState == {"none", "filled", "canceled", "rejected"} \union OpenRow
Kinds == {"rest_error", "foreign_open", "fill_state_regression", "partial_leg_group"}

TypeOK ==
    /\ ex \in [Orders -> ExOrder]
    /\ nameless \in BOOLEAN
    /\ row \in [Orders -> RowState]
    /\ trade \in [Trades -> {"open", "closed"}]
    /\ mode \in {"down", "list", "walk", "check", "close", "halted",
                 "trading", "stopping"}
    /\ known \in SUBSET Orders
    /\ checked \in SUBSET Trades
    /\ listing \in SUBSET Orders
    /\ work \in [Orders -> RowState]
    /\ todo \in SUBSET Orders
    /\ report \in SUBSET Kinds
    /\ mine \in SUBSET Orders
    /\ requested \in BOOLEAN
    /\ sweep \in SUBSET Trades
    /\ cancelled \in SUBSET Trades
    /\ file \in SUBSET Trades
    /\ boots \in 0..MaxBoots
    /\ unseen \in SUBSET Orders
    /\ late \in SUBSET Orders
    /\ settled \in BOOLEAN

\* The first session, on an empty table.
Init ==
    /\ ex = [o \in Orders |-> [state |-> "absent", fill |-> "none"]]
    /\ nameless = FALSE
    /\ row = [o \in Orders |-> "none"]
    /\ trade = [t \in Trades |-> "open"]
    /\ mode = "trading"
    /\ known = {} /\ checked = {} /\ listing = {} /\ todo = {} /\ report = {}
    /\ work = [o \in Orders |-> "none"]
    /\ mine = {} /\ requested = FALSE /\ sweep = {} /\ cancelled = {}
    /\ file = {}
    /\ boots = 0
    /\ unseen = {} /\ late = {} /\ settled = FALSE

OpenRows(r) == {o \in Orders : r[o] \in OpenRow}
OpenTrades == {t \in Trades : trade[t] = "open"}
Working == {o \in Orders : ex[o].state = "open"}

-----------------------------------------------------------------------------
(* The exchange. *)

ExMoves(o, r) ==
    /\ ex' = [ex EXCEPT ![o] = r]
    /\ settled' = FALSE
    /\ UNCHANGED <<nameless, row, trade, mode, runVars, killVars, file, boots, unseen>>

\* A request on its way arrives, also after the process that sent it has died.
Arrive(o) ==
    /\ ex[o].state = "inflight"
    /\ \E s \in {"open", "rejected"} :
        /\ ExMoves(o, [ex[o] EXCEPT !.state = s])
        /\ late' = IF s = "open" THEN late \union {o} ELSE late

\* It matches part of an order, or all of it, or cancels it.
Match(o) ==
    /\ ex[o].state = "open"
    /\ \E r \in {[state |-> "open", fill |-> "part"],
                 [state |-> "filled", fill |-> "full"],
                 [state |-> "closed", fill |-> "full"],
                 [state |-> "cancelled", fill |-> ex[o].fill]} :
        r # ex[o] /\ ExMoves(o, r)
    /\ UNCHANGED late

\* Somebody places an order by hand, in the account the program trades, or the
\* exchange is done with one.
HandOrder ==
    /\ nameless' = ~nameless
    /\ UNCHANGED <<ex, row, trade, mode, runVars, killVars, file, boots, unseen, late, settled>>

-----------------------------------------------------------------------------
(* OrderReconciler.run. *)

\* Session 1: the open trades and the open rows.
Boot ==
    /\ mode = "down"
    /\ boots < MaxBoots
    /\ boots' = boots + 1
    /\ mode' = "list"
    /\ known' = OpenRows(row)
    /\ checked' = OpenTrades
    /\ UNCHANGED <<exchangeVars, row, trade, listing, work, todo, report, killVars, file,
                   unseen, settled>>

\* run() returns, or its process dies: its locals are gone.
LocalsGone ==
    /\ known' = {} /\ checked' = {} /\ listing' = {} /\ todo' = {}
    /\ work' = [o \in Orders |-> "none"]

ListFails ==
    /\ mode = "list"
    /\ report' = {"rest_error"}
    /\ mode' = "halted"
    /\ LocalsGone
    /\ UNCHANGED <<exchangeVars, row, trade, killVars, file, boots, unseen, settled>>

\* get_open_orders asks for the state "open", and that is the state an order has
\* that it lists.
ListedState == "open"

\* The client order ids it lists; an order without one has the id "".
NoCoid == 0
LiveOpen == Working \union (IF nameless THEN {NoCoid} ELSE {})
LiveByCoid == LiveOpen \ {NoCoid}

\* get_open_orders answers: only orders with a client order id are looked at, as
\* foreign ones too.  Session 2 begins with the rows as they are now.
ListOrders ==
    /\ mode = "list"
    /\ listing' = LiveByCoid
    /\ report' = IF LiveByCoid \subseteq known THEN {} ELSE {"foreign_open"}
    /\ work' = row
    /\ todo' = OpenRows(row)
    /\ mode' = "walk"
    /\ UNCHANGED <<exchangeVars, row, trade, known, checked, killVars, file, boots,
                   unseen, settled>>

\* Mutant: an order that is gone is taken to be filled.
ResolvedAssumed(s) == IF s = "rejected" THEN "canceled" ELSE "filled"

\* Mutant: a cancelled order counts as canceled, whatever it has filled.
ResolvedSpelled(s) ==
    CASE s = "filled" -> "filled"
      [] s \in {"canceled", "rejected", "cancelled"} -> "canceled"
      [] OTHER -> "none"

\* What a row becomes when the lookup shows the state s; "none" stands for a
\* state the code does not expect, which is a mismatch.
Resolved(s) ==
    CASE s = "filled" -> "filled"
      [] s \in {"canceled", "rejected"} -> "canceled"
      [] OTHER -> "none"

\* _fetch_order: the record, or None for an error and for an empty result.
Fetched(o) ==
    {"error"} \union
    (IF ex[o].state \in {"absent", "inflight"} THEN {"empty"} ELSE {ex[o].state})

\* Mutant: the last row is not walked.
WalkShort(o) ==
    /\ mode = "walk"
    /\ o \in todo
    /\ \A p \in todo : o <= p
    /\ todo' = {}
    /\ work' = [work EXCEPT ![o] = IF o \in listing THEN ListedState ELSE @]
    /\ UNCHANGED <<exchangeVars, row, trade, mode, known, checked, listing, report,
                   killVars, file, boots, unseen, settled>>

\* One row of step 2.
Walk(o) ==
    /\ mode = "walk"
    /\ o \in todo
    /\ \A p \in todo : o <= p
    /\ todo' = todo \ {o}
    /\ \/ /\ o \in listing
          /\ work' = [work EXCEPT ![o] = ListedState]
          /\ UNCHANGED <<report, unseen>>
       \/ /\ o \notin listing
          /\ \E s \in Fetched(o) :
              LET found == IF s \in {"error", "empty"} THEN "canceled" ELSE s IN
              /\ work' = IF Resolved(found) = "none" THEN work
                         ELSE [work EXCEPT ![o] = Resolved(found)]
              /\ report' = IF Resolved(found) = "none"
                           THEN report \union {"fill_state_regression"} ELSE report
              /\ unseen' = IF s \in {"error", "empty"} THEN unseen \union {o} ELSE unseen
    /\ UNCHANGED <<exchangeVars, row, trade, mode, known, checked, listing, killVars,
                   file, boots, settled>>

\* Mutant: a session with a mismatch is never finished.
CommitClean ==
    /\ mode = "walk"
    /\ todo = {}
    /\ report = {}
    /\ row' = work
    /\ mode' = "check"
    /\ UNCHANGED <<exchangeVars, trade, runVars, killVars, file, boots, unseen, settled>>

\* The session of step 2 commits.
Commit ==
    /\ mode = "walk"
    /\ todo = {}
    /\ row' = work
    /\ mode' = "check"
    /\ UNCHANGED <<exchangeVars, trade, runVars, killVars, file, boots, unseen, settled>>

RowsOf(t) == {o \in Orders : TradeOf[o] = t /\ row[o] # "none"}
\* The newest order of every leg.
Newest(t) == {o \in RowsOf(t) : \A p \in RowsOf(t) : LegOf[p] = LegOf[o] => p <= o}
\* Mutant: the legs are judged by what the rows were when run() began.
LegStatesStale(t) == {IF o \in known THEN "open" ELSE row[o] : o \in Newest(t)}

LegStates(t) == {row[o] : o \in Newest(t)}
Mixed(t) ==
    /\ "filled" \in LegStates(t)
    /\ LegStates(t) \ {"filled", "canceled", "rejected"} # {}

\* Step 3.
CheckLegs ==
    /\ mode = "check"
    /\ report' = IF \E t \in checked : Mixed(t)
                 THEN report \union {"partial_leg_group"} ELSE report
    /\ mode' = "close"
    /\ UNCHANGED <<exchangeVars, row, trade, known, checked, listing, work, todo,
                   killVars, file, boots, unseen, settled>>

AllCanceled(t) == RowsOf(t) # {} /\ \A o \in RowsOf(t) : row[o] = "canceled"

\* Step 4, and the caller's choice: must_halt refuses to start the loop.
CloseTrades ==
    /\ mode = "close"
    /\ trade' = [t \in Trades |-> IF trade[t] = "open" /\ AllCanceled(t)
                                  THEN "closed" ELSE trade[t]]
    /\ mode' = IF report = {} THEN "trading" ELSE "halted"
    /\ settled' = (report = {} /\ Working = listing)
    /\ LocalsGone
    /\ UNCHANGED <<exchangeVars, row, report, killVars, file, boots, unseen>>

-----------------------------------------------------------------------------
(* The trading session, as far as orders and rows are concerned. *)

SessionMoves ==
    UNCHANGED <<nameless, trade, mode, runVars, requested, sweep, cancelled, file, boots, unseen, late>>

\* An order is sent, and its row stored before the answer or not at all; a trade
\* that reconcile closed is not traded any more.
Send(o) ==
    /\ mode = "trading"
    /\ ~requested
    /\ ex[o].state = "absent"
    /\ row[o] = "none"
    /\ trade[TradeOf[o]] = "open"
    /\ ex' = [ex EXCEPT ![o].state = "inflight"]
    /\ row' \in {row, [row EXCEPT ![o] = "pending"]}
    /\ mine' = mine \union {o}
    /\ settled' = FALSE
    /\ SessionMoves

\* The session sees what became of an order and stores it; _persist_entry stores
\* the rows of filled legs.
StoreOrder(o) ==
    /\ mode = "trading"
    /\ o \in mine
    /\ \/ ex[o].state = "open" /\ row' = [row EXCEPT ![o] = "open"]
       \/ ex[o].state = "filled" /\ row' = [row EXCEPT ![o] = "filled"]
    /\ row' # row
    /\ row[o] # "filled"
    /\ settled' = FALSE
    /\ UNCHANGED <<ex, mine>>
    /\ SessionMoves

-----------------------------------------------------------------------------
(* KillSwitch. *)

\* trip: a signal, the breaker or poll_file; a second trip changes nothing.
Trip ==
    /\ mode = "trading"
    /\ ~requested
    /\ requested' = TRUE
    /\ UNCHANGED <<exchangeVars, row, trade, mode, runVars, mine, sweep, cancelled,
                   file, boots, unseen, settled>>

\* The loop ends, because the switch was tripped or because of an exception:
\* shutdown(open_trade_ids=...).
StopTrading ==
    /\ mode = "trading"
    /\ mode' = "stopping"
    /\ sweep' = OpenTrades
    /\ UNCHANGED <<exchangeVars, row, trade, runVars, mine, requested, cancelled,
                   file, boots, unseen, settled>>

SweptOrders == [o \in Orders |-> IF ex[o].state = "open"
                                 THEN [ex[o] EXCEPT !.state = "cancelled"] ELSE ex[o]]

\* Mutant: a failed cancel counts as one.
SweepResultAlways(t, answered) == cancelled \union {t}

\* cancel_all_for_trade: 1 when the exchange answered, 0 after a DeltaRestError.
SweepResult(t, answered) == IF answered THEN cancelled \union {t} ELSE cancelled

\* cancel_all_orders cancels every order of the account, whatever the trade;
\* without an answer it may or may not have.
SweepTrade(t) ==
    /\ mode = "stopping"
    /\ t \in sweep
    /\ \A u \in sweep : t <= u
    /\ sweep' = sweep \ {t}
    /\ \E answered \in BOOLEAN, done \in BOOLEAN :
        /\ answered => done
        /\ cancelled' = SweepResult(t, answered)
        /\ ex' = IF done THEN SweptOrders ELSE ex
        /\ nameless' = (nameless /\ ~done)
        /\ late' = IF cancelled' = cancelled THEN late ELSE {}
        /\ settled' = (settled /\ ~done)
    /\ UNCHANGED <<row, trade, mode, runVars, mine, requested, file, boots, unseen>>

\* Any other exception ends the sweep and is recorded.
SweepRaises ==
    /\ mode = "stopping"
    /\ sweep # {}
    /\ sweep' = {}
    /\ UNCHANGED <<exchangeVars, row, trade, mode, runVars, mine, requested, cancelled, file,
                   boots, unseen, settled>>

ProcessEnds ==
    /\ mode' = "down"
    /\ LocalsGone
    /\ report' = {} /\ mine' = {} /\ requested' = FALSE /\ sweep' = {}
    /\ cancelled' = {}

\* _persist_state, and the process ends.
PersistState ==
    /\ mode = "stopping"
    /\ sweep = {}
    /\ file' = cancelled
    /\ ProcessEnds
    /\ UNCHANGED <<exchangeVars, row, trade, boots, unseen, settled>>

\* A crash, or the end of a process that refused to start.
Crash ==
    /\ mode # "down"
    /\ ProcessEnds
    /\ UNCHANGED <<exchangeVars, row, trade, file, boots, unseen, settled>>

Reconcile ==
    \/ ListFails \/ ListOrders \/ Commit \/ CheckLegs \/ CloseTrades
    \/ \E o \in Orders : Walk(o)

Next ==
    \/ Boot \/ Reconcile \/ Trip \/ StopTrading \/ SweepRaises \/ PersistState \/ Crash
    \/ HandOrder
    \/ \E o \in Orders : Arrive(o) \/ Match(o) \/ Send(o) \/ StoreOrder(o)
    \/ \E t \in Trades : SweepTrade(t)

Spec == Init /\ [][Next]_vars

\* Every REST call of the reconciler and of the sweep returns or raises.
FairSpec ==
    /\ Spec
    /\ WF_vars(Reconcile)
    /\ WF_vars(PersistState \/ \E t \in Trades : SweepTrade(t))

-----------------------------------------------------------------------------
(* Properties. *)

\* No row claims a fill the exchange does not have: neither the lookup nor a
\* crash inside the session invents one.
FillsAreReal ==
    \A o \in Orders : row[o] = "filled" => ex[o].fill = "full"

\* When reconcile lets the loop start, the open rows are exactly the orders with a
\* client order id that the exchange listed: none of these has no row, and no row is
\* waited for that was not listed.  Of an order without one, which rule 4 of the
\* docstring (reconcile.py:13) does not except, a clean start says nothing.
CleanMeansListed ==
    [][mode = "close" /\ mode' = "trading" => OpenRows(row') = listing]_vars

\* Reconcile closes a trade only if none of its stored orders has filled, in
\* part or in full, except orders whose lookup showed nothing.
ClosedOnlyUnseen ==
    \A o \in Orders :
        trade[TradeOf[o]] = "closed" /\ row[o] # "none" /\ o \notin unseen
            => ex[o].fill = "none"

\* Reconciling once more after a clean report, with nothing moved in between,
\* is clean again, unless the listing cannot be fetched.
RerunAgrees ==
    [][mode = "close" /\ mode' # "down" /\ settled => report = {}]_vars

\* Once the kill switch has reported a successful cancel, whatever order of the program
\* works on the exchange arrived after it, and so did every order a later start calls
\* foreign.
SweptStaysSwept ==
    cancelled # {} \/ file # {}
        => Working \subseteq late /\ listing \ known \subseteq late

\* A start always ends in trading or in a refusal, and a stop in shutdown.json,
\* unless the process dies.
StartAndStopEnd ==
    /\ mode = "list" ~> mode \in {"trading", "halted", "down"}
    /\ mode = "stopping" ~> mode = "down"
=============================================================================
