------------------------ MODULE CircuitBreakerProofs ------------------------
(***************************************************************************)
(* The invariants and the action properties of CircuitBreaker, proved for  *)
(* every NAV, every set of results, every percentage and any number of     *)
(* days, crashes and entries.                                              *)
(***************************************************************************)
EXTENDS CircuitBreaker, TLAPS, WellFoundedInduction

\* The tick has a place to be exactly when the process runs, and the tasks of a
\* stopped process are gone; a running report is that of a date.
ProcessInv ==
    /\ up <=> pc # "down"
    /\ ~up => job = NoJob
    /\ job # NoJob => job.date \in Dates

\* Between the two halves of _persist_exit the NAV is ahead of the database by the
\* result that is being booked.
BookedInv == pc = "booked" => open > 0 /\ nav.now = Base + pnl + pending

\* After the breaker check and until the peak is raised.
CheckedInv == pc = "peak" => nav.tripped \/ ~DrawdownReached(nav)

\* The daily anchor in a process that was never restarted.  Before the boot nothing
\* has been realised.  Afterwards the anchor is right from the first tick of the day
\* on; between midnight and that tick the NAV itself is the value it will take.
AnchorInv ==
    crashes = 0 =>
        /\ ~up => pnl = 0 /\ DOMAIN rows = {} /\ ~ticked /\ dayOpened = Base
        /\ up /\ pc # "dead" =>
            /\ pc \notin {"idle", "dead"} => lastDate = day
            /\ lastDate <= day
            /\ lastDate \in {0, day} => nav.openDay = dayOpened
            /\ lastDate \notin {0, day} => dayOpened = nav.now
            /\ ticked => lastDate = day

IInv ==
    /\ TypeOK /\ ProcessInv /\ MarkerLatches /\ NavMatchesBook
    /\ BookedInv /\ CheckedInv /\ TickEndsInsideCap /\ AnchorInv

-----------------------------------------------------------------------------
(* Lemmas about the operators. *)

\* The most recent row exists when there is one: the dates are bounded.
LEMMA LatestExists == TypeOK /\ DOMAIN rows # {} => Latest \in DOMAIN rows
<1> SUFFICES ASSUME TypeOK, DOMAIN rows # {} PROVE Latest \in DOMAIN rows
  OBVIOUS
<1> DEFINE T == {MaxDay - d : d \in DOMAIN rows}
<1>1. DOMAIN rows \subseteq Int /\ \A d \in DOMAIN rows : d <= MaxDay
  BY BreakerAssumption DEF TypeOK, Dates
<1>2. T \subseteq Nat /\ T # {}
  BY <1>1, BreakerAssumption
<1>3. \E x \in T : \A y \in T : ~(<<y, x>> \in OpToRel(<, Nat))
  <2> HIDE DEF T
  <2> QED BY <1>2, NatLessThanWellFounded, WFMin
<1>4. PICK d \in DOMAIN rows : \A y \in T : ~(<<y, MaxDay - d>> \in OpToRel(<, Nat))
  BY <1>3
<1>5. ASSUME NEW e \in DOMAIN rows PROVE e <= d
  <2>1. MaxDay - e \in Nat /\ MaxDay - d \in Nat /\ e \in Int /\ d \in Int
    BY <1>1, BreakerAssumption
  <2>2. ~(MaxDay - e < MaxDay - d)
    BY <1>4, <2>1 DEF OpToRel
  <2> QED BY <2>1, <2>2, BreakerAssumption
<1> QED
  BY <1>5 DEF Latest

\* A rolled or restarted tracker is a tracker; the NAV it starts from is the book's
\* and the marker file is heeded.
LEMMA BootTrackerFacts ==
  TypeOK => /\ BootTracker \in Tracker
            /\ BootTracker.now = Base + pnl
            /\ marker => BootTracker.tripped
            /\ DOMAIN rows = {} => BootTracker.openDay = Base + pnl
<1> SUFFICES ASSUME TypeOK
             PROVE  /\ BootTracker \in Tracker
                    /\ BootTracker.now = Base + pnl
                    /\ marker => BootTracker.tripped
                    /\ DOMAIN rows = {} => BootTracker.openDay = Base + pnl
  OBVIOUS
<1>1. Base + pnl \in Int /\ marker \in BOOLEAN
  BY BreakerAssumption DEF TypeOK
<1>2. ASSUME NEW d \in DOMAIN rows
      PROVE  rows[d].nav \in Int /\ rows[d].peak \in Int /\ rows[d].tripped \in BOOLEAN
  BY DEF TypeOK, Row
<1>3. DOMAIN rows # {} => /\ rows[Latest].nav \in Int /\ rows[Latest].peak \in Int
                          /\ rows[Latest].tripped \in BOOLEAN
  BY <1>2, LatestExists
<1>4. /\ LoadTracker \in Tracker
      /\ LoadTracker.now = Base + pnl
      /\ DOMAIN rows = {} => LoadTracker.openDay = Base + pnl
  <2>1. (DOMAIN rows # {} /\ rows[Latest].tripped) \in BOOLEAN
    BY <1>3
  <2>2. LoadTracker.tripped = (DOMAIN rows # {} /\ rows[Latest].tripped)
    BY DEF LoadTracker
  <2> QED
    BY <1>1, <1>2, <1>3, <2>1 DEF LoadTracker, Tracker, HasRow, Larger
<1>5. (LoadTracker.tripped \/ marker) \in BOOLEAN
  BY <1>1
<1>6. marker => (LoadTracker.tripped \/ marker) = TRUE
  BY <1>1, <1>4 DEF Tracker
<1> QED
  BY <1>1, <1>4, <1>5, <1>6 DEF BootTracker, Tracker

\* A date written to nav_history keeps it a table of rows.
LEMMA PutRowTyped ==
  ASSUME TypeOK, NEW d \in Dates, NEW r \in Row
  PROVE  /\ DOMAIN PutRow(d, r) \subseteq Dates
         /\ \A e \in DOMAIN PutRow(d, r) : PutRow(d, r)[e] \in Row
  BY DEF TypeOK, PutRow

\* A NAV above the peak is no drawdown once it is the peak.
LEMMA NoLossFromItself ==
  ASSUME NEW n \in Int, NEW p \in 1..100
  PROVE  ~LossReaches(n, n, p)
<1>1. n > 0 => p * n > 0
  OBVIOUS
<1> QED
  BY <1>1 DEF LossReaches

\* No report running is a value of its variable.
LEMMA NoJobTyped == NoJob \in [date : Dates \union {0}, nav : Int, peak : Int, tripped : BOOLEAN]
  BY DEF NoJob

-----------------------------------------------------------------------------
(* The inductive invariant. *)

\* Before the first boot nothing has been traded.
LEMMA InitEstablishes == Init => IInv
<1> HAVE Init
<1>1. TypeOK
  <2>1. DOMAIN rows = {}
    BY DEF Init
  <2>2. nav \in Tracker /\ dayOpened \in Int
    BY BreakerAssumption DEF Init, Tracker
  <2>3. job \in [date : Dates \union {0}, nav : Int, peak : Int, tripped : BOOLEAN]
    BY NoJobTyped DEF Init
  <2>4. up \in BOOLEAN /\ marker \in BOOLEAN /\ ticked \in BOOLEAN /\ cleared \in BOOLEAN
    BY DEF Init
  <2> QED
    BY <2>1, <2>2, <2>3, <2>4, BreakerAssumption DEF Init, TypeOK, Dates
<1>2. ProcessInv /\ MarkerLatches /\ NavMatchesBook /\ BookedInv /\ CheckedInv
      /\ TickEndsInsideCap /\ AnchorInv
  BY <1>1 DEF Init, ProcessInv, MarkerLatches, NavMatchesBook, BookedInv, CheckedInv,
     TickEndsInsideCap, AnchorInv
<1> QED
  BY <1>1, <1>2 DEF IInv

\* A restarted process takes its NAV from the book and heeds the marker file.
LEMMA BootPreserves == ASSUME IInv, Boot PROVE IInv'
<1> USE BreakerAssumption, CapsAssumption DEF IInv, Boot, mem, db, hist
<1>1. TypeOK'
  <2>1. nav' \in Tracker
    BY BootTrackerFacts
  <2>2. job' \in [date : Dates \union {0}, nav : Int, peak : Int, tripped : BOOLEAN]
    BY NoJobTyped
  <2>3. up' \in BOOLEAN /\ ticked' \in BOOLEAN
    OBVIOUS
  <2> QED
    BY <2>1, <2>2, <2>3 DEF TypeOK
<1>2. ProcessInv' /\ MarkerLatches' /\ NavMatchesBook' /\ BookedInv'
  BY <1>1, BootTrackerFacts DEF TypeOK, ProcessInv, MarkerLatches, NavMatchesBook, BookedInv
<1>3. CheckedInv' /\ TickEndsInsideCap'
  BY <1>1 DEF TypeOK, ProcessInv, CheckedInv, TickEndsInsideCap, DrawdownReached
<1>4. AnchorInv'
  BY <1>1, BootTrackerFacts DEF TypeOK, ProcessInv, NavMatchesBook, AnchorInv, Dates
<1> QED
  BY <1>1, <1>2, <1>3, <1>4

\* A stopped process holds nothing.
LEMMA CrashPreserves == ASSUME IInv, Crash PROVE IInv'
<1> USE BreakerAssumption, CapsAssumption DEF IInv, Crash, mem, db, hist
<1>1. TypeOK'
  <2>1. nav' \in Tracker
    BY DEF Tracker
  <2>2. job' \in [date : Dates \union {0}, nav : Int, peak : Int, tripped : BOOLEAN]
    BY NoJobTyped
  <2>3. up' \in BOOLEAN
    OBVIOUS
  <2> QED
    BY <2>1, <2>2, <2>3 DEF TypeOK
<1>2. ProcessInv' /\ MarkerLatches' /\ NavMatchesBook' /\ BookedInv'
  BY <1>1 DEF TypeOK, ProcessInv, MarkerLatches, NavMatchesBook, BookedInv
<1>3. CheckedInv' /\ TickEndsInsideCap'
  BY <1>1 DEF TypeOK, ProcessInv, CheckedInv, TickEndsInsideCap, DrawdownReached
<1>4. AnchorInv'
  BY <1>1 DEF TypeOK, ProcessInv, NavMatchesBook, AnchorInv, Dates
<1> QED
  BY <1>1, <1>2, <1>3, <1>4

\* The roll moves the anchors and nothing else.
LEMMA TickStartPreserves == ASSUME IInv, TickStart PROVE IInv'
<1> USE BreakerAssumption, CapsAssumption DEF IInv, TickStart, RollDay, Tracker, mem, db, hist
<1>1. TypeOK'
  BY DEF TypeOK, Dates
<1>2. ProcessInv' /\ MarkerLatches' /\ NavMatchesBook' /\ BookedInv'
  BY <1>1 DEF TypeOK, ProcessInv, MarkerLatches, NavMatchesBook, BookedInv
<1>3. CheckedInv' /\ TickEndsInsideCap'
  BY <1>1 DEF TypeOK, ProcessInv, CheckedInv, TickEndsInsideCap, DrawdownReached
<1>4. AnchorInv'
  BY <1>1 DEF TypeOK, ProcessInv, NavMatchesBook, AnchorInv, Dates
<1> QED
  BY <1>1, <1>2, <1>3, <1>4

\* The result is in the NAV and not yet in the book.
LEMMA ExitBookPreserves == ASSUME IInv, ExitBook PROVE IInv'
<1> USE BreakerAssumption, CapsAssumption DEF IInv, ExitBook, Tracker, mem, db, hist
<1>1. TypeOK'
  BY DEF TypeOK, Dates
<1>2. ProcessInv' /\ MarkerLatches' /\ NavMatchesBook' /\ BookedInv'
  BY <1>1 DEF TypeOK, ProcessInv, MarkerLatches, NavMatchesBook, BookedInv
<1>3. CheckedInv' /\ TickEndsInsideCap'
  BY <1>1 DEF TypeOK, ProcessInv, CheckedInv, TickEndsInsideCap, DrawdownReached
<1>4. AnchorInv'
  BY <1>1 DEF TypeOK, ProcessInv, NavMatchesBook, AnchorInv, Dates
<1> QED
  BY <1>1, <1>2, <1>3, <1>4

\* The book catches up with the NAV.
LEMMA ExitCommitPreserves == ASSUME IInv, ExitCommit PROVE IInv'
<1> USE BreakerAssumption, CapsAssumption DEF IInv, ExitCommit, mem, db, hist
<1>1. TypeOK'
  BY DEF TypeOK, BookedInv
<1>2. ProcessInv' /\ MarkerLatches' /\ NavMatchesBook' /\ BookedInv'
  BY <1>1 DEF TypeOK, ProcessInv, MarkerLatches, NavMatchesBook, BookedInv
<1>3. CheckedInv' /\ TickEndsInsideCap'
  BY <1>1 DEF TypeOK, ProcessInv, CheckedInv, TickEndsInsideCap, DrawdownReached
<1>4. AnchorInv'
  BY <1>1 DEF TypeOK, ProcessInv, NavMatchesBook, AnchorInv, Dates
<1> QED
  BY <1>1, <1>2, <1>3, <1>4

\* A tick that raised leaves the flag up if it was.
LEMMA TickRaisesPreserves == ASSUME IInv, TickRaises PROVE IInv'
<1> USE BreakerAssumption, CapsAssumption DEF IInv, TickRaises, Tracker, mem, db, hist
<1>1. TypeOK'
  BY DEF TypeOK, Dates
<1>2. ProcessInv' /\ MarkerLatches' /\ NavMatchesBook' /\ BookedInv'
  BY <1>1 DEF TypeOK, ProcessInv, MarkerLatches, NavMatchesBook, BookedInv
<1>3. CheckedInv' /\ TickEndsInsideCap'
  BY <1>1 DEF TypeOK, ProcessInv, CheckedInv, TickEndsInsideCap, DrawdownReached
<1>4. AnchorInv'
  BY <1>1 DEF TypeOK, ProcessInv, NavMatchesBook, AnchorInv, Dates
<1> QED
  BY <1>1, <1>2, <1>3, <1>4

\* The steps of the tick that only move on.
LEMMA ExitsDonePreserves == ASSUME IInv, ExitsDone PROVE IInv'
<1> USE BreakerAssumption, CapsAssumption DEF IInv, ExitsDone, mem, db, hist
<1>1. TypeOK'
  BY DEF TypeOK, Dates
<1>2. ProcessInv' /\ MarkerLatches' /\ NavMatchesBook' /\ BookedInv'
  BY <1>1 DEF TypeOK, ProcessInv, MarkerLatches, NavMatchesBook, BookedInv
<1>3. CheckedInv' /\ TickEndsInsideCap'
  BY <1>1 DEF TypeOK, ProcessInv, CheckedInv, TickEndsInsideCap, DrawdownReached
<1>4. AnchorInv'
  BY <1>1 DEF TypeOK, ProcessInv, NavMatchesBook, AnchorInv, Dates
<1> QED
  BY <1>1, <1>2, <1>3, <1>4

\* An entry changes neither the NAV nor the book.
LEMMA EnterPreserves == ASSUME IInv, Enter PROVE IInv'
<1> USE BreakerAssumption, CapsAssumption DEF IInv, Enter, mem, db, hist
<1>1. TypeOK'
  BY DEF TypeOK, Dates
<1>2. ProcessInv' /\ MarkerLatches' /\ NavMatchesBook' /\ BookedInv'
  BY <1>1 DEF TypeOK, ProcessInv, MarkerLatches, NavMatchesBook, BookedInv
<1>3. CheckedInv' /\ TickEndsInsideCap'
  BY <1>1 DEF TypeOK, ProcessInv, CheckedInv, TickEndsInsideCap, DrawdownReached
<1>4. AnchorInv'
  BY <1>1 DEF TypeOK, ProcessInv, NavMatchesBook, AnchorInv, Dates
<1> QED
  BY <1>1, <1>2, <1>3, <1>4

\* From the entries to the breaker check.
LEMMA EntriesDonePreserves == ASSUME IInv, EntriesDone PROVE IInv'
<1> USE BreakerAssumption, CapsAssumption DEF IInv, EntriesDone, mem, db, hist
<1>1. TypeOK'
  BY DEF TypeOK, Dates
<1>2. ProcessInv' /\ MarkerLatches' /\ NavMatchesBook' /\ BookedInv'
  BY <1>1 DEF TypeOK, ProcessInv, MarkerLatches, NavMatchesBook, BookedInv
<1>3. CheckedInv' /\ TickEndsInsideCap'
  BY <1>1 DEF TypeOK, ProcessInv, CheckedInv, TickEndsInsideCap, DrawdownReached
<1>4. AnchorInv'
  BY <1>1 DEF TypeOK, ProcessInv, NavMatchesBook, AnchorInv, Dates
<1> QED
  BY <1>1, <1>2, <1>3, <1>4

\* A check that trips nothing found the flag up or the drawdown inside the cap.
LEMMA SyncNothingPreserves == ASSUME IInv, SyncNothing PROVE IInv'
<1> USE BreakerAssumption, CapsAssumption DEF IInv, SyncNothing, Evaluate, mem, db, hist
<1>1. TypeOK'
  BY DEF TypeOK, Dates
<1>2. ProcessInv' /\ MarkerLatches' /\ NavMatchesBook' /\ BookedInv'
  BY <1>1 DEF TypeOK, ProcessInv, MarkerLatches, NavMatchesBook, BookedInv
<1>3. CheckedInv' /\ TickEndsInsideCap'
  BY <1>1 DEF TypeOK, ProcessInv, CheckedInv, TickEndsInsideCap, DrawdownReached
<1>4. AnchorInv'
  BY <1>1 DEF TypeOK, ProcessInv, NavMatchesBook, AnchorInv, Dates
<1> QED
  BY <1>1, <1>2, <1>3, <1>4

\* The row of the day is written before the flag is raised.
LEMMA SyncTripRowPreserves == ASSUME IInv, SyncTripRow PROVE IInv'
<1> USE BreakerAssumption, CapsAssumption DEF IInv, SyncTripRow, mem, db, hist
<1>1. TypeOK'
  <2> DEFINE r == [nav |-> nav.now,
                   peak |-> IF HasRow(day) THEN Larger(rows[day].peak, nav.peak) ELSE nav.peak,
                   tripped |-> TRUE]
  <2>1. r \in Row
    BY DEF TypeOK, Row, Tracker, HasRow, Larger
  <2>2. DOMAIN rows' \subseteq Dates /\ \A d \in DOMAIN rows' : rows'[d] \in Row
    <3> HIDE DEF r
    <3>1. rows' = PutRow(day, r)
      BY DEF r
    <3> QED
      BY <2>1, <3>1, PutRowTyped DEF TypeOK
  <2> QED
    BY <2>2 DEF TypeOK
<1>2. ProcessInv' /\ MarkerLatches' /\ NavMatchesBook' /\ BookedInv'
  BY <1>1 DEF TypeOK, ProcessInv, MarkerLatches, NavMatchesBook, BookedInv
<1>3. CheckedInv' /\ TickEndsInsideCap'
  BY <1>1 DEF TypeOK, ProcessInv, CheckedInv, TickEndsInsideCap, DrawdownReached
<1>4. AnchorInv'
  BY <1>1 DEF TypeOK, ProcessInv, NavMatchesBook, AnchorInv, Dates
<1> QED
  BY <1>1, <1>2, <1>3, <1>4

\* The flag and the marker file are raised together.
LEMMA SyncTripMarkerPreserves == ASSUME IInv, SyncTripMarker PROVE IInv'
<1> USE BreakerAssumption, CapsAssumption DEF IInv, SyncTripMarker, Tracker, mem, db, hist
<1>1. TypeOK'
  BY DEF TypeOK, Dates
<1>2. ProcessInv' /\ MarkerLatches' /\ NavMatchesBook' /\ BookedInv'
  BY <1>1 DEF TypeOK, ProcessInv, MarkerLatches, NavMatchesBook, BookedInv
<1>3. CheckedInv' /\ TickEndsInsideCap'
  BY <1>1 DEF TypeOK, ProcessInv, CheckedInv, TickEndsInsideCap, DrawdownReached
<1>4. AnchorInv'
  BY <1>1 DEF TypeOK, ProcessInv, NavMatchesBook, AnchorInv, Dates
<1> QED
  BY <1>1, <1>2, <1>3, <1>4

\* Raising the peak to the NAV leaves no drawdown.
LEMMA TickEndPreserves == ASSUME IInv, TickEnd PROVE IInv'
<1> USE BreakerAssumption, CapsAssumption DEF IInv, TickEnd, Tracker, mem, db, hist
<1>1. TypeOK'
  <2>1. nav.now \in Int /\ Larger(nav.peak, nav.now) \in Int
    BY DEF TypeOK, Larger
  <2>2. nav' \in Tracker /\ dayOpened' \in Int
    BY <2>1 DEF TypeOK
  <2> QED
    BY <2>2 DEF TypeOK
<1>2. ProcessInv' /\ MarkerLatches' /\ NavMatchesBook' /\ BookedInv'
  BY <1>1 DEF TypeOK, ProcessInv, MarkerLatches, NavMatchesBook, BookedInv
<1>3. CheckedInv' /\ TickEndsInsideCap'
  <2>1. nav'.now = nav.now /\ nav'.tripped = nav.tripped /\ nav'.peak = Larger(nav.peak, nav.now)
    BY DEF TypeOK
  <2>2. nav.tripped \/ ~LossReaches(nav.now, nav'.peak, LifetimePct)
    BY <2>1, NoLossFromItself DEF TypeOK, CheckedInv, DrawdownReached, Larger
  <2> QED
    BY <2>1, <2>2 DEF CheckedInv, TickEndsInsideCap
<1>4. AnchorInv'
  BY <1>1 DEF TypeOK, ProcessInv, NavMatchesBook, AnchorInv, Dates
<1> QED
  BY <1>1, <1>2, <1>3, <1>4

\* The report captures the tracker.
LEMMA DailyStartPreserves == ASSUME IInv, DailyStart PROVE IInv'
<1> USE BreakerAssumption, CapsAssumption DEF IInv, DailyStart, mem, db, hist
<1>1. TypeOK'
  <2>1. job' \in [date : Dates \union {0}, nav : Int, peak : Int, tripped : BOOLEAN]
    BY DEF TypeOK, Tracker, Larger
  <2> QED
    BY <2>1 DEF TypeOK
<1>2. ProcessInv' /\ MarkerLatches' /\ NavMatchesBook' /\ BookedInv'
  BY <1>1 DEF TypeOK, ProcessInv, MarkerLatches, NavMatchesBook, BookedInv
<1>3. CheckedInv' /\ TickEndsInsideCap'
  BY <1>1 DEF TypeOK, ProcessInv, CheckedInv, TickEndsInsideCap, DrawdownReached
<1>4. AnchorInv'
  BY <1>1 DEF TypeOK, ProcessInv, NavMatchesBook, AnchorInv, Dates
<1> QED
  BY <1>1, <1>2, <1>3, <1>4

\* The report writes a row and nothing else.
LEMMA DailyPersistPreserves == ASSUME IInv, DailyPersist PROVE IInv'
<1> USE BreakerAssumption, CapsAssumption DEF IInv, DailyPersist, mem, db, hist
<1>1. TypeOK'
  <2> DEFINE r == [nav |-> job.nav, peak |-> job.peak, tripped |-> job.tripped]
  <2>1. r \in Row /\ job.date \in Dates
    BY DEF TypeOK, Row, ProcessInv
  <2>2. DOMAIN rows' \subseteq Dates /\ \A d \in DOMAIN rows' : rows'[d] \in Row
    <3> HIDE DEF r
    <3>1. rows' = PutRow(job.date, r)
      BY DEF r
    <3> QED
      BY <2>1, <3>1, PutRowTyped
  <2> QED
    BY <2>1, <2>2, NoJobTyped DEF TypeOK
<1>2. ProcessInv' /\ MarkerLatches' /\ NavMatchesBook' /\ BookedInv'
  BY <1>1 DEF TypeOK, ProcessInv, MarkerLatches, NavMatchesBook, BookedInv
<1>3. CheckedInv' /\ TickEndsInsideCap'
  BY <1>1 DEF TypeOK, ProcessInv, CheckedInv, TickEndsInsideCap, DrawdownReached
<1>4. AnchorInv'
  BY <1>1 DEF TypeOK, ProcessInv, NavMatchesBook, AnchorInv, Dates
<1> QED
  BY <1>1, <1>2, <1>3, <1>4

\* The operator lowers the flag of a row, not that of the process.
LEMMA ResumePreserves == ASSUME IInv, Resume PROVE IInv'
<1> USE BreakerAssumption, CapsAssumption DEF IInv, Resume, mem, db, hist
<1>1. TypeOK'
  <2>1. DOMAIN rows' = DOMAIN rows
    OBVIOUS
  <2>2. ASSUME NEW d \in DOMAIN rows PROVE rows'[d] \in Row
    <3>1. rows[d] \in Row
      BY DEF TypeOK
    <3>2. rows'[d] = rows[d] \/ rows'[d] = [rows[d] EXCEPT !.tripped = FALSE]
      OBVIOUS
    <3> QED
      BY <3>1, <3>2 DEF Row
  <2>3. cleared' \in BOOLEAN
    BY DEF TypeOK
  <2> QED
    BY <2>1, <2>2, <2>3 DEF TypeOK
<1>2. ProcessInv' /\ MarkerLatches' /\ NavMatchesBook' /\ BookedInv'
  BY <1>1 DEF TypeOK, ProcessInv, MarkerLatches, NavMatchesBook, BookedInv
<1>3. CheckedInv' /\ TickEndsInsideCap'
  BY <1>1 DEF TypeOK, ProcessInv, CheckedInv, TickEndsInsideCap, DrawdownReached
<1>4. AnchorInv'
  BY <1>1 DEF TypeOK, ProcessInv, NavMatchesBook, AnchorInv, Dates
<1> QED
  BY <1>1, <1>2, <1>3, <1>4

\* A day ends after a tick of that day: the anchor to come is the NAV.
LEMMA ClockMovesPreserves == ASSUME IInv, ClockMoves PROVE IInv'
<1> USE BreakerAssumption, CapsAssumption DEF IInv, ClockMoves, mem, db, hist
<1>1. TypeOK'
  <2>1. day' \in Dates /\ seg' \in {"early", "late"}
    BY DEF TypeOK, Dates
  <2>2. Base + pnl \in Int
    BY DEF TypeOK
  <2>3. dayOpened' \in Int
    BY <2>2 DEF TypeOK
  <2> QED
    BY <2>1, <2>3 DEF TypeOK
<1>2. ProcessInv' /\ MarkerLatches' /\ NavMatchesBook' /\ BookedInv'
  BY <1>1 DEF TypeOK, ProcessInv, MarkerLatches, NavMatchesBook, BookedInv
<1>3. CheckedInv' /\ TickEndsInsideCap'
  BY <1>1 DEF TypeOK, ProcessInv, CheckedInv, TickEndsInsideCap, DrawdownReached
<1>4. AnchorInv'
  <2>1. ~up => Base + pnl = dayOpened \/ crashes # 0
    BY DEF TypeOK, AnchorInv
  <2>2. CASE day' = day
    BY <2>2, <1>1 DEF TypeOK, ProcessInv, AnchorInv
  <2>3. CASE day' = day + 1 /\ dayOpened' = Base + pnl
    <3>1. ASSUME crashes = 0, ~up
          PROVE  pnl = 0 /\ DOMAIN rows = {} /\ dayOpened' = Base
      BY <2>1, <2>3, <3>1 DEF TypeOK, AnchorInv
    <3>2. ASSUME crashes = 0, up, pc # "dead"
          PROVE  /\ pc = "idle" /\ lastDate = day /\ dayOpened' = nav.now
                 /\ lastDate <= day' /\ lastDate \notin {0, day'}
      BY <2>3, <3>2 DEF TypeOK, ProcessInv, NavMatchesBook, AnchorInv, Dates
    <3> QED
      BY <3>1, <3>2 DEF AnchorInv
  <2> QED
    BY <2>2, <2>3 DEF TypeOK, Dates
<1> QED
  BY <1>1, <1>2, <1>3, <1>4

\* Every step of the engine, the report, the operator and the clock preserves it.
LEMMA NextPreserves == IInv /\ [Next]_vars => IInv'
<1> SUFFICES ASSUME IInv, [Next]_vars PROVE IInv'
  OBVIOUS
<1>1. CASE Boot
  BY <1>1, BootPreserves
<1>2. CASE Crash
  BY <1>2, CrashPreserves
<1>3. CASE TickStart
  BY <1>3, TickStartPreserves
<1>4. CASE ExitBook
  BY <1>4, ExitBookPreserves
<1>5. CASE ExitCommit
  BY <1>5, ExitCommitPreserves
<1>6. CASE TickRaises
  BY <1>6, TickRaisesPreserves
<1>7. CASE ExitsDone
  BY <1>7, ExitsDonePreserves
<1>8. CASE Enter
  BY <1>8, EnterPreserves
<1>9. CASE EntriesDone
  BY <1>9, EntriesDonePreserves
<1>10. CASE SyncNothing
  BY <1>10, SyncNothingPreserves
<1>11. CASE SyncTripRow
  BY <1>11, SyncTripRowPreserves
<1>12. CASE SyncTripMarker
  BY <1>12, SyncTripMarkerPreserves
<1>13. CASE TickEnd
  BY <1>13, TickEndPreserves
<1>14. CASE DailyStart
  BY <1>14, DailyStartPreserves
<1>15. CASE DailyPersist
  BY <1>15, DailyPersistPreserves
<1>16. CASE Resume
  BY <1>16, ResumePreserves
<1>17. CASE ClockMoves
  BY <1>17, ClockMovesPreserves
<1>18. CASE UNCHANGED vars
  BY <1>18 DEF vars, mem, db, hist, IInv, TypeOK, ProcessInv, MarkerLatches, NavMatchesBook,
     BookedInv, CheckedInv, TickEndsInsideCap, AnchorInv
<1> QED
  BY <1>1, <1>2, <1>3, <1>4, <1>5, <1>6, <1>7, <1>8, <1>9, <1>10, <1>11, <1>12, <1>13, <1>14, <1>15, <1>16, <1>17, <1>18
     DEF Next, Tick

\* The inductive invariant holds in every behaviour.
THEOREM InductiveInvariant == Spec => []IInv
  BY InitEstablishes, NextPreserves, PTL DEF Spec

\* The state of the tracker, the database and the report is always well-typed.
THEOREM TypeCorrect == Spec => []TypeOK
  BY InductiveInvariant, PTL DEF IInv

\* Whatever crashed, resumed or was reported since, an engine that runs after
\* circuit_breaker.json was written has the breaker flag set.
THEOREM MarkerIsLatched == Spec => []MarkerLatches
  BY InductiveInvariant, PTL DEF IInv

\* Between the exits of a tick the NAV in memory is the book's: the two halves of
\* _persist_exit lose and double no result.
THEOREM NavIsTheBook == Spec => []NavMatchesBook
  BY InductiveInvariant, PTL DEF IInv

\* A tick never ends with the drawdown at or beyond the lifetime cap and the breaker
\* flag down.
THEOREM TripIsNotMissed == Spec => []TickEndsInsideCap
  BY InductiveInvariant, PTL DEF IInv

-----------------------------------------------------------------------------
(* The action properties. *)

\* Only the gate lets a trade in.
LEMMA OnlyEnterEnters ==
  ASSUME [Next]_vars, entries' # entries PROVE Enter
  BY DEF Next, Tick, vars, mem, db, hist, Boot, Crash, TickStart, ExitBook, ExitCommit, TickRaises,
     ExitsDone, EntriesDone, SyncNothing, SyncTripRow, SyncTripMarker, TickEnd, DailyStart,
     DailyPersist, Resume, ClockMoves

\* The latest row says that the breaker has tripped.
RowTrips == DOMAIN rows # {} /\ rows[Latest].tripped

\* No row is ahead of the calendar; a report that runs is that of today and knows of
\* no trip that the process does not; and a trip in the latest row is known to the
\* process, unless its tick is between the row and the flag, or over for good.
RecordInv ==
    /\ \A d \in DOMAIN rows : d <= day
    /\ job # NoJob => job.date = day /\ (job.tripped => nav.tripped)
    /\ up /\ RowTrips => nav.tripped \/ pc \in {"trip_marker", "dead"}

\* A row of today is the latest one.
LEMMA PutIsLatest ==
  ASSUME TypeOK, RecordInv, NEW r, rows' = PutRow(day, r)
  PROVE  /\ \A d \in DOMAIN rows' : d <= day
         /\ RowTrips' => r.tripped
<1>1. DOMAIN rows' = DOMAIN rows \union {day} /\ rows'[day] = r
  BY DEF PutRow
<1>2. day \in Int /\ DOMAIN rows' \subseteq Int /\ \A e \in DOMAIN rows' : e <= day
  BY <1>1, BreakerAssumption DEF TypeOK, RecordInv, Dates
<1>3. Latest' \in DOMAIN rows' /\ \A e \in DOMAIN rows' : e <= Latest'
  BY <1>1, <1>2 DEF Latest
<1>4. Latest' = day
  BY <1>1, <1>2, <1>3
<1> QED
  BY <1>1, <1>2, <1>4 DEF RowTrips

\* A step of a process that leaves the rows and the calendar alone and takes back
\* neither a flag nor the end of a tick.
LEMMA RecordAside ==
  ASSUME RecordInv, UNCHANGED <<rows, day>>, up' => up, nav.tripped => nav'.tripped,
         job' \in {job, NoJob},
         pc \in {"trip_marker", "dead"} => nav'.tripped \/ pc' \in {"trip_marker", "dead"}
  PROVE  RecordInv'
<1>1. RowTrips' <=> RowTrips
  BY DEF RowTrips, Latest
<1> QED
  BY <1>1 DEF RecordInv

LEMMA RecordInit == Init => RecordInv
  BY DEF Init, RecordInv, NoJob, RowTrips

LEMMA RecordStep == IInv /\ RecordInv /\ [Next]_vars => RecordInv'
<1> SUFFICES ASSUME IInv, RecordInv, [Next]_vars PROVE RecordInv'
  OBVIOUS
<1> USE DEF mem, db, hist
<1>1. CASE Boot
  <2>1. RowTrips => LoadTracker.tripped
    BY DEF RowTrips, LoadTracker
  <2>2. nav'.tripped <=> LoadTracker.tripped \/ marker
    BY <1>1 DEF Boot, BootTracker, LoadTracker
  <2>3. RowTrips' <=> RowTrips
    BY <1>1 DEF Boot, RowTrips, Latest
  <2> QED
    BY <1>1, <2>1, <2>2, <2>3 DEF Boot, RecordInv
<1>2. CASE Crash
  BY <1>2 DEF Crash, RecordInv
<1>3. CASE TickStart
  <2>1. nav'.tripped = nav.tripped
    BY <1>3 DEF TickStart, RollDay, IInv, TypeOK, Tracker
  <2> QED
    BY <1>3, <2>1, RecordAside DEF TickStart
<1>4. CASE ExitBook
  <2>1. nav'.tripped = nav.tripped
    BY <1>4 DEF ExitBook, IInv, TypeOK, Tracker
  <2> QED
    BY <1>4, <2>1, RecordAside DEF ExitBook
<1>5. CASE TickRaises
  <2>1. nav.tripped => nav'.tripped
    BY <1>5 DEF TickRaises, IInv, TypeOK, Tracker
  <2> QED
    BY <1>5, <2>1, RecordAside DEF TickRaises
<1>6. CASE SyncTripRow
  <2>1. (\A d \in DOMAIN rows : d <= day)'
    BY <1>6, PutIsLatest DEF SyncTripRow, IInv
  <2> QED
    BY <1>6, <2>1 DEF SyncTripRow, RecordInv
<1>7. CASE SyncTripMarker
  <2>1. nav'.tripped
    BY <1>7 DEF SyncTripMarker, IInv, TypeOK, Tracker
  <2> QED
    BY <1>7, <2>1, RecordAside DEF SyncTripMarker
<1>8. CASE TickEnd
  <2>1. nav'.tripped = nav.tripped
    BY <1>8 DEF TickEnd, IInv, TypeOK, Tracker
  <2> QED
    BY <1>8, <2>1, RecordAside DEF TickEnd
<1>9. CASE DailyStart
  <2>1. RowTrips' <=> RowTrips
    BY <1>9 DEF DailyStart, RowTrips, Latest
  <2> QED
    BY <1>9, <2>1 DEF DailyStart, RecordInv
<1>10. CASE DailyPersist
  <2> DEFINE r == [nav |-> job.nav, peak |-> job.peak, tripped |-> job.tripped]
  <2>1. job.date = day /\ (r.tripped => nav.tripped)
    BY <1>10 DEF DailyPersist, RecordInv
  <2>2. rows' = PutRow(day, r)
    BY <1>10, <2>1 DEF DailyPersist
  <2>3. (\A d \in DOMAIN rows' : d <= day) /\ (RowTrips' => r.tripped)
    <3> HIDE DEF r
    <3> QED
      BY <2>2, PutIsLatest DEF IInv
  <2> QED
    BY <1>10, <2>1, <2>3 DEF DailyPersist, RecordInv
<1>11. CASE Resume
  <2>1. DOMAIN rows' = DOMAIN rows /\ Latest' = Latest
    BY <1>11 DEF Resume, Latest
  <2>2. ~RowTrips'
    BY <1>11, <2>1, LatestExists DEF Resume, RowTrips, IInv, TypeOK, Row
  <2> QED
    BY <1>11, <2>1, <2>2 DEF Resume, RecordInv
<1>12. CASE ClockMoves
  <2>1. RowTrips' <=> RowTrips
    BY <1>12 DEF ClockMoves, RowTrips, Latest
  <2>2. day <= day' /\ day \in Int /\ day' \in Int /\ DOMAIN rows \subseteq Int
    BY <1>12, BreakerAssumption DEF ClockMoves, IInv, TypeOK, Dates
  <2> QED
    BY <1>12, <2>1, <2>2 DEF ClockMoves, RecordInv
<1>13. CASE ExitCommit \/ ExitsDone \/ Enter \/ EntriesDone \/ SyncNothing \/ UNCHANGED vars
  BY <1>13, RecordAside DEF ExitCommit, ExitsDone, Enter, EntriesDone, SyncNothing, vars
<1> QED
  BY <1>1, <1>2, <1>3, <1>4, <1>5, <1>6, <1>7, <1>8, <1>9, <1>10, <1>11, <1>12, <1>13
     DEF Next, Tick

\* While the marker file or the latest row says so the gate answers "circuit_breaker" to
\* every intent.
THEOREM NothingEnteredAfterTrip == Spec => NoEntryAfterTrip
<1>1. IInv /\ RecordInv /\ [Next]_vars => [TripOnRecord => entries' = entries]_vars
  <2> SUFFICES ASSUME IInv, RecordInv, [Next]_vars, TripOnRecord, entries' # entries PROVE FALSE
    OBVIOUS
  <2>1. Enter
    BY OnlyEnterEnters
  <2>2. up
    BY <2>1 DEF Enter, IInv, ProcessInv
  <2>3. nav.tripped
    BY <2>1, <2>2 DEF Enter, IInv, MarkerLatches, RecordInv, TripOnRecord, RowTrips
  <2> QED
    BY <2>1, <2>3 DEF Enter, Evaluate
<1> QED
  BY <1>1, InductiveInvariant, RecordInit, RecordStep, PTL DEF Spec, NoEntryAfterTrip

\* In a process that was never restarted the daily cap is measured from the NAV at
\* midnight IST.
THEOREM DailyCapIsKept == Spec => DailyCapHolds
<1>1. IInv /\ [Next]_vars =>
        [entries' # entries /\ crashes = 0 => ~LossReaches(Base + pnl, dayOpened, DailyPct)]_vars
  <2> SUFFICES ASSUME IInv, [Next]_vars, entries' # entries, crashes = 0
               PROVE  ~LossReaches(Base + pnl, dayOpened, DailyPct)
    OBVIOUS
  <2>1. Enter
    BY OnlyEnterEnters
  <2>2. nav.now = Base + pnl /\ nav.openDay = dayOpened
    BY <2>1 DEF Enter, IInv, ProcessInv, NavMatchesBook, AnchorInv
  <2>3. ~LossReaches(nav.now, nav.openDay, DailyPct)
    BY <2>1 DEF Enter, Evaluate
  <2> QED
    BY <2>2, <2>3
<1> QED
  BY <1>1, InductiveInvariant, PTL DEF Spec, DailyCapHolds

=============================================================================
