----------------------------- MODULE ExitEngine -----------------------------
(***************************************************************************)
(* The exits of one open position: ExitEngine.step (exits/engine.py), the  *)
(* manage() of the three strategies, and what main_loop does with the      *)
(* directive (runtime/engine.py: _persist_exit, _persist_trail_stop,       *)
(* refresh_open_trade_notes).  The peak result and the trailing stop live  *)
(* twice: in the PositionRuntime of the process, which a restart and an    *)
(* attempted exit drop, and in the notes of the trade in the database.     *)
(*                                                                         *)
(* Prices are integers, ratios of the configuration are percentages and    *)
(* the comparisons are multiplied out.  None is -1: no price, result or    *)
(* stop that is compared here is negative.                                 *)
(***************************************************************************)
EXTENDS Integers

CONSTANTS
    Kinds,          \* kinds of position considered
    Entry,          \* premium paid, or credit received, per lot
    Lots,
    EntrySpot, Atr, \* entry_underlying_price, entry_atr
    Mids, Spots,    \* option and underlying prices the market can show
    Exits,          \* the exits sections of config/strategies
    MaxRetries,     \* bound: exits that fail
    MaxCrashes      \* bound: process stops

ExitConfig ==
    [target : Nat, drawdown : Nat, atrStop : Nat, trailAt : Nat, chandelier : Nat,
     take : Nat, stopX : Nat, straddleTake : Nat, straddleStop : Nat]

ASSUME ExitAssumption ==
    /\ Kinds \subseteq {"call", "put", "vertical", "straddle"}
    /\ Entry \in Nat \ {0} /\ Lots \in Nat \ {0}
    /\ EntrySpot \in Nat /\ Atr \in Nat
    /\ Mids \subseteq Nat /\ Spots \subseteq Nat
    /\ Exits \in ExitConfig
    /\ MaxRetries \in Nat /\ MaxCrashes \in Nat

VARIABLES
    kind,       \* the strategy of the position, and the option type of a directional one
    filled,     \* database: the legs were stored (the process may have died before)
    status,     \* database: the status of the trade
    notes,      \* database: peak_pnl_inr and current_trail_stop_price
    rt,         \* memory: PositionRuntime
    pc,         \* where main_loop is with this position
    directive,  \* the ExitDirective of this tick, its entry of peak_by_trade and, as
                \* history, what the position really was worth when it asked to close
    expiring,   \* the force-close window of the position has begun
    stops,      \* exchange: stop orders placed for the position
    retries,    \* history: exits that failed
    crashes     \* history: process stops

vars == <<kind, filled, status, notes, rt, pc, directive, expiring, stops, retries, crashes>>

None == -1
Larger(a, b) == IF a >= b THEN a ELSE b
Smaller(a, b) == IF a <= b THEN a ELSE b

\* A tick sees the legs' quotes (the second leg of a directional position does not
\* exist), the quote of the first leg again when the position is built, the spot, and
\* whether greeks have moved beyond the desk's limits.
Quote == Mids \union {None}
Market ==
    IF kind \in {"call", "put"}
    THEN [a : Quote, b : {None}, again : Quote, spot : Spots \union {None}, greeks : BOOLEAN]
    ELSE [a : Quote, b : Quote, again : {None}, spot : {None}, greeks : {FALSE}]

Triggers == {"force_close_expiry", "greeks", "target", "premium_stop", "trail_breakeven",
             "underlying_stop"}
NoDirective == [what |-> "no_op", stop |-> None, peak |-> 0, worth |-> None]

\* A runtime that does not exist is created like this at the next tick.
FreshRuntime == [peak |-> 0, top |-> None, low |-> None, stop |-> None]

TypeOK ==
    /\ kind \in Kinds
    /\ filled \in BOOLEAN /\ status \in {"OPEN", "CLOSED"} /\ expiring \in BOOLEAN
    /\ notes \in [peak : Nat \union {None}, trail : Nat \union {None}]
    /\ rt \in [peak : Nat, top : Nat \union {None}, low : Nat \union {None}, stop : Nat \union {None}]
    /\ pc \in {"down", "idle", "close", "send_stop", "note_stop", "refresh", "dead"}
    /\ directive \in [what : Triggers \union {"no_op", "trail"}, stop : Nat \union {None},
                      peak : Nat, worth : Int]
    /\ stops \in Nat
    /\ retries \in 0..MaxRetries /\ crashes \in 0..MaxCrashes

IsDirectional == kind \in {"call", "put"}

-----------------------------------------------------------------------------
(* ExitEngine._refresh_position_state. *)

\* leg["current_mid"]: the refreshed quote, or the one the position was built with.
CurrentMid(m) == IF m.a # None THEN m.a ELSE m.again

RefreshRuntime(m) ==
    IF ~IsDirectional THEN rt
    ELSE [rt EXCEPT
            !.peak = IF filled /\ m.a # None THEN Larger(@, (m.a - Entry) * Lots) ELSE @,
            !.top = IF m.spot = None THEN @ ELSE IF @ = None THEN m.spot ELSE Larger(@, m.spot),
            !.low = IF m.spot = None THEN @ ELSE IF @ = None THEN m.spot ELSE Smaller(@, m.spot)]

\* position.peak_pnl_inr: the runtime's, or the notes' in a tick without a quote.
PositionPeak(m) ==
    IF IsDirectional /\ filled /\ m.a # None THEN RefreshRuntime(m).peak ELSE notes.peak

\* The cost of closing a spread.  The leg states the engine builds have no "side", so
\* that every leg counts as bought; without both quotes the note is absent and counts
\* as 0.
UnwindCost(m) == IF filled /\ m.a # None /\ m.b # None THEN -(m.a + m.b) ELSE 0

TotalPremium(m) == IF filled /\ m.a # None /\ m.b # None THEN m.a + m.b ELSE 0

\* What a directional position could be sold for, and what closing a spread (a is its
\* short leg) would really cost; None when that is not known.
Worth(m) ==
    IF IsDirectional THEN CurrentMid(m)
    ELSE IF m.a = None \/ m.b = None THEN None ELSE m.a - m.b

-----------------------------------------------------------------------------
(* The strategies' manage(): the first exit that applies. *)

Adverse(spot) == IF kind = "call" THEN EntrySpot - spot ELSE spot - EntrySpot

\* Mutant: a position without a quote is left alone before its expiry is looked at.
DirectionalManageQuoteFirst(m, near, stop, peak) ==
    LET mid == CurrentMid(m) IN
    IF ~filled \/ mid = None THEN "no_op"
    ELSE IF near THEN "force_close_expiry"
    ELSE IF m.greeks THEN "greeks"
    ELSE IF 100 * mid >= (100 + Exits.target) * Entry THEN "target"
    ELSE IF 100 * mid <= (100 - Exits.drawdown) * Entry THEN "premium_stop"
    ELSE IF stop # None /\ mid <= stop THEN "trail_breakeven"
    ELSE IF m.spot # None /\ mid <= Entry /\ Adverse(m.spot) >= Exits.atrStop * Atr
         THEN "underlying_stop"
    ELSE IF peak # None /\ 100 * peak >= Exits.trailAt * Entry * Lots /\ stop = None THEN "trail"
    ELSE "no_op"

DirectionalManage(m, near, stop, peak) ==
    LET mid == CurrentMid(m) IN
    IF near THEN "force_close_expiry"
    ELSE IF ~filled \/ mid = None THEN "no_op"
    ELSE IF m.greeks THEN "greeks"
    ELSE IF 100 * mid >= (100 + Exits.target) * Entry THEN "target"
    ELSE IF 100 * mid <= (100 - Exits.drawdown) * Entry THEN "premium_stop"
    ELSE IF stop # None /\ mid <= stop THEN "trail_breakeven"
    ELSE IF m.spot # None /\ mid <= Entry /\ Adverse(m.spot) >= Exits.atrStop * Atr
         THEN "underlying_stop"
    ELSE IF peak # None /\ 100 * peak >= Exits.trailAt * Entry * Lots /\ stop = None THEN "trail"
    ELSE "no_op"

VerticalManage(m, near) ==
    IF near THEN "force_close_expiry"
    ELSE IF ~filled THEN "no_op"
    ELSE IF 100 * (Entry - UnwindCost(m)) >= Exits.take * Entry THEN "target"
    ELSE IF 100 * UnwindCost(m) >= Exits.stopX * Entry THEN "premium_stop"
    ELSE "no_op"

StraddleManage(m, near) ==
    IF near THEN "force_close_expiry"
    ELSE IF ~filled \/ TotalPremium(m) <= 0 THEN "no_op"
    ELSE IF 100 * TotalPremium(m) >= (100 + Exits.straddleTake) * Entry THEN "target"
    ELSE IF 100 * TotalPremium(m) <= (100 - Exits.straddleStop) * Entry THEN "premium_stop"
    ELSE "no_op"

\* Mutant: the runtime's stop is not handed to manage().
ManageStopless(m, near) ==
    IF IsDirectional THEN DirectionalManage(m, near, None, PositionPeak(m))
    ELSE IF kind = "vertical" THEN VerticalManage(m, near)
    ELSE StraddleManage(m, near)

Manage(m, near) ==
    IF IsDirectional THEN DirectionalManage(m, near, rt.stop, PositionPeak(m))
    ELSE IF kind = "vertical" THEN VerticalManage(m, near)
    ELSE StraddleManage(m, near)

-----------------------------------------------------------------------------
(* ExitEngine._translate_actions. *)

\* _maybe_apply_chandelier: the proposal is a premium, the chandelier an underlying price.
Chandelier(r, candidate) ==
    IF r.top = None THEN candidate
    ELSE IF kind = "call" THEN Larger(candidate, r.top - Exits.chandelier * Atr)
    ELSE Smaller(candidate, r.low + Exits.chandelier * Atr)

\* _should_emit_trail; the throttle is left out: manage() proposes a stop only while
\* there is none, and the first one is not throttled.
ShouldEmit(r, new) ==
    r.stop = None \/ IF kind = "call" THEN new > r.stop ELSE new < r.stop

-----------------------------------------------------------------------------
(* The process. *)

Boot ==
    /\ pc = "down"
    /\ pc' = "idle"
    /\ UNCHANGED <<kind, filled, status, notes, rt, directive, expiring, stops, retries, crashes>>

Crash ==
    /\ pc # "down"
    /\ crashes < MaxCrashes
    /\ crashes' = crashes + 1
    /\ pc' = "down"
    /\ rt' = FreshRuntime /\ directive' = NoDirective
    /\ UNCHANGED <<kind, filled, status, notes, expiring, stops, retries>>

\* A session, the journal or the transport raises and ends the task of main_loop: at an
\* await of this position's directive, or before the tick reaches it (the wallet, the
\* open trades, the volatility history, the exit of another position).
TickRaises ==
    /\ pc \notin {"down", "dead"}
    /\ pc' = "dead"
    /\ directive' = NoDirective
    /\ UNCHANGED <<kind, filled, status, notes, rt, expiring, stops, retries, crashes>>

\* One tick up to the first await of its directive.
Step(m) ==
    /\ pc = "idle" /\ status = "OPEN"
    /\ LET what == Manage(m, expiring)
           r == RefreshRuntime(m)
           new == Chandelier(r, Entry)
           emits == what = "trail" /\ ShouldEmit(r, new)
           peak == Larger(r.peak, Larger(PositionPeak(m), 0))
       IN /\ rt' = IF emits THEN [r EXCEPT !.stop = new] ELSE r
          /\ directive' = [what |-> what, stop |-> IF emits THEN new ELSE None, peak |-> peak,
                             worth |-> IF what \in Triggers THEN Worth(m) ELSE None]
          /\ pc' = IF what \in Triggers THEN "close"
                   ELSE IF emits /\ filled THEN "send_stop" ELSE "refresh"
    /\ UNCHANGED <<kind, filled, status, notes, expiring, stops, retries, crashes>>

\* _persist_exit, and then the runtime is dropped whether or not the exit worked.
ExitFails ==
    /\ pc = "close"
    /\ retries < MaxRetries
    /\ retries' = retries + 1
    /\ rt' = FreshRuntime
    /\ pc' = "refresh"
    /\ UNCHANGED <<kind, filled, status, notes, directive, expiring, stops, crashes>>

ExitCloses ==
    /\ pc = "close"
    /\ status' = "CLOSED"
    /\ rt' = FreshRuntime
    /\ pc' = "refresh"
    /\ UNCHANGED <<kind, filled, notes, directive, expiring, stops, retries, crashes>>

\* update_stop: the order it cancels first has an id that was never used; the new
\* order is placed, or not (no instrument, refused, not reached), and whichever it was
\* is only returned.
UpdateStop ==
    /\ pc = "send_stop"
    /\ stops' \in {stops, stops + 1}
    /\ pc' = "note_stop"
    /\ UNCHANGED <<kind, filled, status, notes, rt, directive, expiring, retries, crashes>>

PersistTrailStop ==
    /\ pc = "note_stop"
    /\ notes' = [notes EXCEPT !.trail = directive.stop]
    /\ pc' = "refresh"
    /\ UNCHANGED <<kind, filled, status, rt, directive, expiring, stops, retries, crashes>>

\* Mutant: the peak of the process replaces the one in the notes.
RefreshNotesOverwrite ==
    /\ pc = "refresh"
    /\ notes' = [notes EXCEPT !.peak = rt.peak]
    /\ pc' = "idle"
    /\ directive' = NoDirective
    /\ UNCHANGED <<kind, filled, status, rt, expiring, stops, retries, crashes>>

\* Mutant: the peak is stored once and never raised.
RefreshNotesOnce ==
    /\ pc = "refresh"
    /\ notes' = [notes EXCEPT !.peak = IF @ = None THEN directive.peak ELSE @]
    /\ pc' = "idle"
    /\ directive' = NoDirective
    /\ UNCHANGED <<kind, filled, status, rt, expiring, stops, retries, crashes>>

\* refresh_open_trade_notes.
RefreshNotes ==
    /\ pc = "refresh"
    /\ notes' = [notes EXCEPT !.peak = IF @ = None THEN directive.peak ELSE Larger(@, directive.peak)]
    /\ pc' = "idle"
    /\ directive' = NoDirective
    /\ UNCHANGED <<kind, filled, status, rt, expiring, stops, retries, crashes>>

\* Time.
WindowBegins ==
    /\ ~expiring
    /\ expiring' = TRUE
    /\ pc \in {"down", "idle", "dead"}
    /\ UNCHANGED <<kind, filled, status, notes, rt, pc, directive, stops, retries, crashes>>

-----------------------------------------------------------------------------

Init ==
    /\ kind \in Kinds
    /\ filled \in BOOLEAN
    /\ status = "OPEN"
    /\ notes = [peak |-> None, trail |-> None]
    /\ rt = FreshRuntime
    /\ pc = "idle"
    /\ directive = NoDirective
    /\ expiring = FALSE
    /\ stops = 0 /\ retries = 0 /\ crashes = 0

Tick ==
    \/ \E m \in Market : Step(m)
    \/ ExitFails \/ ExitCloses
    \/ UpdateStop \/ PersistTrailStop \/ RefreshNotes

Next == Boot \/ Crash \/ TickRaises \/ Tick \/ WindowBegins

Spec == Init /\ [][Next]_vars

\* The loop ticks every few seconds and each of its awaits ends.
FairSpec == Spec /\ WF_vars(Tick)

-----------------------------------------------------------------------------
(* Properties. *)

\* Between ticks the notes know at least the peak the process knows: whichever of its
\* directives a tick carried out, and whatever failed, the peak was stored.
NotesCoverRuntime == pc = "idle" => rt.peak <= Larger(notes.peak, 0)

\* The stored peak never falls, although every restart and every attempted exit starts
\* the peak of the process at zero again.
StoredPeakNeverFalls == [][notes'.peak >= notes.peak]_vars

\* update_stop cancels nothing, so stop orders pile up: but each one beyond the first
\* is due to a runtime that was dropped, by a restart or an exit that failed.
StopOrdersBounded == stops <= 1 + crashes + retries

\* A position in its force-close window is sent to the executor, with or without
\* quotes, legs, spot or stop, and again after every exit that failed, unless main_loop
\* itself is over: the task that an exception ended is not started again.
ExpiryIsTried == expiring /\ pc = "idle" /\ status = "OPEN" ~> pc \in {"close", "down", "dead"}

\* exits/engine.py:124-125 says the cost of closing a spread is what the short leg
\* costs less what the long one brings: a spread closed at its target has earned the
\* configured part of its credit.
VerticalTargetIsEarned ==
    pc = "close" /\ kind = "vertical" /\ directive.what = "target" =>
        100 * (Entry - directive.worth) >= Exits.take * Entry
=============================================================================
