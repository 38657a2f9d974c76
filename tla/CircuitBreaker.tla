--------------------------- MODULE CircuitBreaker ---------------------------
(***************************************************************************)
(* NAV tracking and the lifetime-drawdown circuit breaker.                 *)
(*                                                                         *)
(*   process   boot and main-loop tick (runtime/engine.py), NavTracker     *)
(*             (risk/caps.py), day roll, load and trip (runtime/           *)
(*             nav_state.py)                                               *)
(*   daily     the 22:35 IST report (analytics/daily.py), a second task of *)
(*             the same event loop                                         *)
(*   operator  `make resume --confirm` (runtime/resume.py), a process of   *)
(*             its own                                                     *)
(*                                                                         *)
(* The process may crash at every await.  What survives: the closed trades *)
(* (their realised sum), the nav_history rows and the marker file          *)
(* circuit_breaker.json.                                                   *)
(***************************************************************************)
EXTENDS RiskCaps, FiniteSets

CONSTANTS
    Base,           \* effective_nav_inr
    StartDay,       \* first IST date; dates are numbers, day % 7 = 0 is a Monday
    MaxDay,         \* bound: last date modelled
    Pnls,           \* realised results a closing trade can have
    InitOpen,       \* trades open in the first state
    MaxEntries,     \* bound: entries over the whole behaviour
    MaxCrashes      \* bound: process stops over the whole behaviour

ASSUME BreakerAssumption ==
    /\ Base \in Nat \ {0} /\ StartDay \in Nat \ {0} /\ MaxDay \in Nat
    /\ StartDay <= MaxDay
    /\ Pnls \subseteq Int
    /\ InitOpen \in Nat /\ MaxEntries \in Nat /\ MaxCrashes \in Nat

VARIABLES
    day,        \* IST date
    seg,        \* "early": 00:00-05:30 IST, when the UTC date is the day before
    up,         \* the engine process runs
    pc,         \* where the main loop's tick is; "dead" once the task raised
    nav,        \* NavTracker, in memory
    lastDate,   \* last_ist_trading_date, in memory; 0 is None
    pending,    \* the realised result _persist_exit is booking
    job,        \* the arguments the running daily report was called with
    reported,   \* last_daily_ist_date, in memory; 0 is None
    pnl,        \* database: realised sum of the closed trades
    open,       \* database: number of open trades
    rows,       \* database: nav_history by trading_date
    marker,     \* runtime_dir/circuit_breaker.json exists
    entries,    \* history: entries approved by the gate
    crashes,    \* history: process stops
    ticked,     \* history: this process has ended a tick in this segment of the day
    cleared,    \* history: resume --confirm cleared the last trip, the engine stopped
    dayOpened   \* history: the NAV at which the IST day really opened

mem == <<nav, lastDate, pending, job, reported>>
db == <<pnl, open, rows>>
hist == <<entries, crashes, ticked, cleared, dayOpened>>
vars == <<day, seg, up, pc, mem, db, marker, hist>>

Dates == StartDay..MaxDay
Row == [nav : Int, peak : Int, tripped : BOOLEAN]
NoRow == [nav |-> 0, peak |-> 0, tripped |-> FALSE]
NoJob == [date |-> 0, nav |-> 0, peak |-> 0, tripped |-> FALSE]

\* nav_history is a partial map from dates to rows.
HasRow(d) == d \in DOMAIN rows
Latest == CHOOSE d \in DOMAIN rows : \A e \in DOMAIN rows : e <= d
PutRow(d, r) == [e \in DOMAIN rows \union {d} |-> IF e = d THEN r ELSE rows[e]]

IstWeekday == day % 7
UtcWeekday == IF seg = "early" THEN (day + 6) % 7 ELSE day % 7

TypeOK ==
    /\ day \in Dates /\ seg \in {"early", "late"}
    /\ up \in BOOLEAN
    /\ pc \in {"down", "idle", "exits", "booked", "entries", "sync", "trip_marker", "peak", "dead"}
    /\ nav \in Tracker
    /\ lastDate \in Dates \union {0} /\ reported \in Dates \union {0}
    /\ pending \in Int
    /\ job \in [date : Dates \union {0}, nav : Int, peak : Int, tripped : BOOLEAN]
    /\ pnl \in Int /\ open \in Nat
    /\ DOMAIN rows \subseteq Dates /\ \A d \in DOMAIN rows : rows[d] \in Row
    /\ marker \in BOOLEAN
    /\ entries \in 0..MaxEntries /\ crashes \in 0..MaxCrashes
    /\ ticked \in BOOLEAN /\ cleared \in BOOLEAN
    /\ dayOpened \in Int

-----------------------------------------------------------------------------
(* Boot. *)

\* Mutant: the NAV is taken from the latest history row when there is one.
LoadTrackerRowNav ==
    LET any == DOMAIN rows # {}
        now == IF any THEN rows[Latest].nav ELSE Base + pnl
    IN [now |-> now, openDay |-> now, openWeek |-> now,
        peak |-> IF any THEN Larger(now, rows[Latest].peak) ELSE now,
        tripped |-> any /\ rows[Latest].tripped]

\* load_nav_tracker: NAV from the closed trades, peak and flag from the latest row,
\* the day's and the week's opening NAV from the rows there are.
LoadTracker ==
    LET now == Base + pnl
        openDay == IF HasRow(day) THEN rows[day].nav
                   ELSE IF HasRow(day - 1) THEN rows[day - 1].nav ELSE now
        any == DOMAIN rows # {}
        weekStart == day - IstWeekday
    IN [now |-> now,
        openDay |-> openDay,
        openWeek |-> IF any /\ Latest >= weekStart THEN rows[Latest].nav ELSE openDay,
        peak |-> IF any THEN Larger(now, rows[Latest].peak) ELSE now,
        tripped |-> any /\ rows[Latest].tripped]

\* run_trading_engine: the marker file overrides the flag of the latest row.
BootTracker == [LoadTracker EXCEPT !.tripped = @ \/ marker]

Boot ==
    /\ ~up
    /\ up' = TRUE
    /\ pc' = "idle"
    /\ nav' = BootTracker
    /\ lastDate' = 0 /\ reported' = 0 /\ pending' = 0 /\ job' = NoJob
    /\ ticked' = FALSE
    /\ UNCHANGED <<day, seg, db, marker, entries, crashes, cleared, dayOpened>>

\* A crash or a kill, at any await of any task.
Crash ==
    /\ up
    /\ crashes < MaxCrashes
    /\ crashes' = crashes + 1
    /\ up' = FALSE
    /\ pc' = "down"
    /\ nav' = [now |-> 0, openDay |-> 0, openWeek |-> 0, peak |-> 0, tripped |-> FALSE]
    /\ lastDate' = 0 /\ reported' = 0 /\ pending' = 0 /\ job' = NoJob
    /\ UNCHANGED <<day, seg, db, marker, entries, ticked, cleared, dayOpened>>

-----------------------------------------------------------------------------
(* The main loop's tick, cut at the awaits that matter here. *)

\* Mutant: every tick but the first rolls the day.
TickStartAlwaysRolls ==
    /\ pc = "idle"
    /\ pc' = "exits"
    /\ nav' = IF lastDate # 0 THEN RollDay(nav, UtcWeekday) ELSE nav
    /\ lastDate' = day
    /\ UNCHANGED <<day, seg, up, pending, job, reported, db, marker, hist>>

\* maybe_roll_ist_trading_day: no roll on the first tick of a process.
TickStart ==
    /\ pc = "idle"
    /\ pc' = "exits"
    /\ nav' = IF lastDate # 0 /\ day > lastDate THEN RollDay(nav, UtcWeekday) ELSE nav
    /\ lastDate' = day
    /\ UNCHANGED <<day, seg, up, pending, job, reported, db, marker, hist>>

\* _persist_exit, an exit the executor reports as filled: nav_now first ...
ExitBook ==
    /\ pc = "exits"
    /\ open > 0
    /\ \E p \in Pnls :
        /\ nav' = [nav EXCEPT !.now = @ + p]
        /\ pending' = p
    /\ pc' = "booked"
    /\ UNCHANGED <<day, seg, up, lastDate, job, reported, db, marker, hist>>

\* ... then the session that closes the trade.
ExitCommit ==
    /\ pc = "booked"
    /\ pnl' = pnl + pending
    /\ open' = open - 1
    /\ pending' = 0
    /\ pc' = "exits"
    /\ UNCHANGED <<day, seg, up, nav, lastDate, job, reported, rows, marker, hist>>

\* A call of the tick raises: a session, the marker file, the journal.  Nothing in
\* main_loop catches it: the task is over, the process and its other tasks go on.
\* The flag in memory is set first, then the marker file is written, twice.
TickRaises ==
    /\ pc \in {"exits", "booked", "entries", "sync", "trip_marker", "peak"}
    /\ \E flagged, written \in BOOLEAN :
        /\ pc # "trip_marker" => ~flagged
        /\ written => flagged
        /\ nav' = [nav EXCEPT !.tripped = @ \/ flagged]
        /\ marker' = (marker \/ written)
    /\ pending' = 0
    /\ pc' = "dead"
    /\ UNCHANGED <<day, seg, up, lastDate, job, reported, db, hist>>

ExitsDone ==
    /\ pc = "exits"
    /\ pc' = "entries"
    /\ UNCHANGED <<day, seg, up, mem, db, marker, hist>>

\* One intent that risk.gate approves, entered: inside the trading window (09:00 to
\* 22:00 IST) and with no cap reached.
Enter ==
    /\ pc = "entries"
    /\ seg = "late"
    /\ Evaluate(nav) = "ok"
    /\ entries < MaxEntries
    /\ entries' = entries + 1
    /\ open' = open + 1
    /\ UNCHANGED <<day, seg, up, pc, mem, pnl, rows, marker, crashes, ticked, cleared, dayOpened>>

EntriesDone ==
    /\ pc = "entries"
    /\ pc' = "sync"
    /\ UNCHANGED <<day, seg, up, mem, db, marker, hist>>

\* sync_circuit_breaker_from_risk: already tripped, or no cap to trip.
SyncNothing ==
    /\ pc = "sync"
    /\ nav.tripped \/ Evaluate(nav) # "circuit_breaker"
    /\ pc' = "peak"
    /\ UNCHANGED <<day, seg, up, mem, db, marker, hist>>

\* persist_circuit_breaker_trip: the row of the day is committed ...
SyncTripRow ==
    /\ pc = "sync"
    /\ ~nav.tripped /\ Evaluate(nav) = "circuit_breaker"
    /\ rows' = PutRow(day, [nav |-> nav.now,
                            peak |-> IF HasRow(day) THEN Larger(rows[day].peak, nav.peak)
                                     ELSE nav.peak,
                            tripped |-> TRUE])
    /\ cleared' = FALSE
    /\ pc' = "trip_marker"
    /\ UNCHANGED <<day, seg, up, mem, pnl, open, marker, entries, crashes, ticked, dayOpened>>

\* ... then the flag in memory is set and the marker file written, without an await.
SyncTripMarker ==
    /\ pc = "trip_marker"
    /\ nav' = [nav EXCEPT !.tripped = TRUE]
    /\ marker' = TRUE
    /\ pc' = "peak"
    /\ UNCHANGED <<day, seg, up, lastDate, pending, job, reported, db, hist>>

\* The end of the tick: only here is the peak raised.
TickEnd ==
    /\ pc = "peak"
    /\ nav' = [nav EXCEPT !.peak = Larger(@, nav.now)]
    /\ ticked' = TRUE
    /\ pc' = "idle"
    /\ UNCHANGED <<day, seg, up, lastDate, pending, job, reported, db, marker,
                   entries, crashes, cleared, dayOpened>>

-----------------------------------------------------------------------------
(* The daily report, concurrent with the tick. *)

\* daily_loop reads the tracker when it calls DailyAggregator.run ...
DailyStart ==
    /\ up
    /\ seg = "late"
    /\ job = NoJob
    /\ reported # day
    /\ job' = [date |-> day, nav |-> nav.now, peak |-> Larger(nav.peak, nav.now),
               tripped |-> nav.tripped]
    /\ UNCHANGED <<day, seg, up, pc, nav, lastDate, pending, reported, db, marker, hist>>

\* ... which stores these values two database sessions later.  When the report file
\* cannot be written the date is not marked as reported, and the report runs again.
DailyPersist ==
    /\ job # NoJob
    /\ rows' = PutRow(job.date, [nav |-> job.nav, peak |-> job.peak, tripped |-> job.tripped])
    /\ \E written \in BOOLEAN : reported' = IF written THEN job.date ELSE reported
    /\ job' = NoJob
    /\ UNCHANGED <<day, seg, up, pc, nav, lastDate, pending, pnl, open, marker, hist>>

-----------------------------------------------------------------------------
(* The operator, and time. *)

\* ResumeService.evaluate(confirm=True): the flag of the latest row and
\* shutdown.json; circuit_breaker.json is not touched.
Resume ==
    /\ DOMAIN rows # {}
    /\ rows[Latest].tripped
    /\ rows' = [rows EXCEPT ![Latest].tripped = FALSE]
    /\ cleared' = ~up
    /\ UNCHANGED <<day, seg, up, pc, mem, pnl, open, marker, entries, crashes, ticked, dayOpened>>

\* A segment lasts hours and a running engine ticks every five seconds; the report
\* is over long before midnight.
ClockMoves ==
    /\ pc \in {"down", "idle", "dead"}
    /\ pc = "idle" => ticked
    /\ job = NoJob
    /\ \/ seg = "early" /\ seg' = "late" /\ UNCHANGED day
       \/ seg = "late" /\ seg' = "early" /\ day < MaxDay /\ day' = day + 1
    /\ dayOpened' = IF day' = day THEN dayOpened ELSE Base + pnl
    /\ ticked' = FALSE
    /\ UNCHANGED <<up, pc, mem, db, marker, entries, crashes, cleared>>

-----------------------------------------------------------------------------

Init ==
    /\ day = StartDay /\ seg = "late"
    /\ up = FALSE /\ pc = "down"
    /\ nav = [now |-> 0, openDay |-> 0, openWeek |-> 0, peak |-> 0, tripped |-> FALSE]
    /\ lastDate = 0 /\ pending = 0 /\ job = NoJob /\ reported = 0
    /\ pnl = 0 /\ open = InitOpen /\ rows = [d \in {} |-> NoRow]
    /\ marker = FALSE
    /\ entries = 0 /\ crashes = 0 /\ ticked = FALSE /\ cleared = FALSE
    /\ dayOpened = Base

Tick ==
    \/ TickStart \/ ExitBook \/ ExitCommit \/ TickRaises \/ ExitsDone
    \/ Enter \/ EntriesDone
    \/ SyncNothing \/ SyncTripRow \/ SyncTripMarker \/ TickEnd

Next ==
    \/ Boot \/ Crash \/ Tick
    \/ DailyStart \/ DailyPersist
    \/ Resume \/ ClockMoves

Spec == Init /\ [][Next]_vars

-----------------------------------------------------------------------------
(* Properties. *)

\* Once circuit_breaker.json has been written, a running engine has the breaker flag
\* set, whatever was stored in nav_history since, whoever crashed or resumed.
MarkerLatches == marker /\ up => nav.tripped

\* Between ticks the NAV in memory is the starting capital plus the realised result
\* of the closed trades in the database: no exit is booked twice or lost, across
\* crashes between the two halves of _persist_exit.
NavMatchesBook == up /\ pc \notin {"booked", "dead"} => nav.now = Base + pnl

\* When a tick has ended the breaker is tripped or the drawdown from the recorded
\* peak is inside the lifetime cap: the trip is not missed at the boundary, nor by
\* the peak being raised after the check.
TickEndsInsideCap ==
    pc = "idle" /\ ticked => nav.tripped \/ ~LossReaches(nav.now, nav.peak, LifetimePct)

\* The trip is on record: in circuit_breaker.json or in the latest row.
TripOnRecord == marker \/ (DOMAIN rows # {} /\ rows[Latest].tripped)

\* Nothing is entered while the trip is on record, not even after open trades have
\* closed with a profit and brought the NAV back inside the cap, nor by a process that
\* was started after a crash between the row and the marker file.
NoEntryAfterTrip == [][TripOnRecord => entries' = entries]_vars

\* Without a restart, nothing is entered on an IST day whose realised loss since
\* midnight has reached the daily cap: the anchor is taken before the day's first
\* exit and no report, resume or clock segment moves it.
DailyCapHolds ==
    [][entries' # entries /\ crashes = 0 => ~LossReaches(Base + pnl, dayOpened, DailyPct)]_vars

\* resume.py:5 calls `make resume --confirm` "the only way out", caps.py:3-4 the way to
\* clear the breaker: an engine started after it works with the flag down.
ResumeClearsBreaker == [][~up /\ up' /\ cleared => ~nav'.tripped]_vars

=============================================================================
