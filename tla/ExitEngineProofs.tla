-------------------------- MODULE ExitEngineProofs --------------------------
(***************************************************************************)
(* What one position's exits guarantee, for every configuration, price,    *)
(* number of crashes and number of failed exits.                           *)
(***************************************************************************)
EXTENDS ExitEngine, TLAPS

\* The trough is known whenever the peak of the underlying is, and what a stopped
\* process knew is gone.
RuntimeInv ==
    /\ rt.top # None => rt.low # None
    /\ pc = "down" => rt = FreshRuntime
    /\ pc = "close" => status = "OPEN"
    /\ pc \in {"send_stop", "note_stop"} => rt.stop # None /\ directive.stop # None

\* The peak the tick is about to store covers the runtime's.
PeakInv ==
    /\ pc \in {"close", "send_stop", "note_stop", "refresh"} => rt.peak <= directive.peak
    /\ NotesCoverRuntime

\* A runtime sends one stop order; the one of a closed position still counts.
StopInv ==
    /\ StopOrdersBounded
    /\ pc = "send_stop" => stops <= crashes + retries
    /\ rt.stop = None /\ status = "OPEN" => stops <= crashes + retries

IInv == TypeOK /\ RuntimeInv /\ PeakInv /\ StopInv

\* The larger and the smaller of two numbers.
LEMMA LargerSmaller ==
    ASSUME NEW a \in Int, NEW b \in Int
    PROVE  /\ Larger(a, b) \in {a, b} /\ Larger(a, b) >= a /\ Larger(a, b) >= b
           /\ Smaller(a, b) \in {a, b}
BY DEF Larger, Smaller

\* The state of a position that was just opened.
LEMMA InitEstablishes == Init => IInv
<1> USE ExitAssumption
<1>1. Init => TypeOK
  <2> SUFFICES ASSUME Init PROVE TypeOK
    OBVIOUS
  <2>1. /\ filled \in BOOLEAN /\ expiring \in BOOLEAN
        /\ notes \in [peak : Nat \union {None}, trail : Nat \union {None}]
    BY DEF Init, None
  <2>2. /\ rt \in [peak : Nat, top : Nat \union {None}, low : Nat \union {None}, stop : Nat \union {None}]
        /\ directive \in [what : Triggers \union {"no_op", "trail"}, stop : Nat \union {None},
                          peak : Nat, worth : Int]
    BY DEF Init, FreshRuntime, NoDirective, None
  <2> QED
    BY <2>1, <2>2 DEF TypeOK, Init
<1>2. Init => RuntimeInv /\ PeakInv
  BY DEF Init, FreshRuntime, NoDirective, None, RuntimeInv, PeakInv, NotesCoverRuntime, Larger
<1>3. Init => StopInv
  BY DEF Init, FreshRuntime, StopInv, StopOrdersBounded
<1> QED
  BY <1>1, <1>2, <1>3 DEF IInv

\* A market snapshot holds numbers.
LEMMA MarketTyped ==
    ASSUME NEW m \in Market
    PROVE  /\ m.a \in Nat \union {None} /\ m.b \in Nat \union {None}
           /\ m.again \in Nat \union {None} /\ m.spot \in Nat \union {None}
BY ExitAssumption DEF Market, Quote, None

\* Refreshing a runtime keeps its stop, raises its peak and keeps the trough known.
LEMMA RuntimeRefreshed ==
    ASSUME TypeOK, RuntimeInv, NEW m \in Market
    PROVE  LET r == RefreshRuntime(m) IN
           /\ r \in [peak : Nat, top : Nat \union {None}, low : Nat \union {None},
                     stop : Nat \union {None}]
           /\ r.stop = rt.stop /\ r.peak >= rt.peak
           /\ r.top # None => r.low # None
<1> DEFINE Runtimes == [peak : Nat, top : Nat \union {None}, low : Nat \union {None},
                        stop : Nat \union {None}]
<1>0. rt \in Runtimes /\ (rt.top # None => rt.low # None)
  BY DEF TypeOK, RuntimeInv
<1>1. CASE ~IsDirectional
  BY <1>0, <1>1 DEF RefreshRuntime
<1>2. CASE IsDirectional
  <2> DEFINE peak == IF filled /\ m.a # None THEN Larger(rt.peak, (m.a - Entry) * Lots) ELSE rt.peak
             top == IF m.spot = None THEN rt.top
                    ELSE IF rt.top = None THEN m.spot ELSE Larger(rt.top, m.spot)
             low == IF m.spot = None THEN rt.low
                    ELSE IF rt.low = None THEN m.spot ELSE Smaller(rt.low, m.spot)
  <2>1. RefreshRuntime(m) = [rt EXCEPT !.peak = peak, !.top = top, !.low = low]
    BY <1>2 DEF RefreshRuntime
  <2>2. peak \in Nat /\ peak >= rt.peak
    <3>1. m.a # None => (m.a - Entry) * Lots \in Int
      BY MarketTyped, ExitAssumption
    <3> QED
      BY <1>0, <3>1 DEF Larger
  <2>3. /\ top \in Nat \union {None} /\ low \in Nat \union {None}
        /\ top # None => low # None
    BY <1>0, MarketTyped DEF Larger, Smaller, None
  <2> HIDE DEF peak, top, low
  <2> QED
    BY <1>0, <2>1, <2>2, <2>3
<1> QED
  BY <1>1, <1>2

\* manage() asks for a trailing stop only while the runtime has none.
LEMMA TrailOnlyOnce ==
    ASSUME NEW m, NEW near, Manage(m, near) = "trail"
    PROVE  IsDirectional /\ rt.stop = None
BY DEF Manage, DirectionalManage, VerticalManage, StraddleManage

\* manage() answers with a trigger, a trailing stop or nothing.
LEMMA ManageTyped ==
    ASSUME NEW m, NEW near
    PROVE  Manage(m, near) \in Triggers \union {"no_op", "trail"}
BY DEF Manage, DirectionalManage, VerticalManage, StraddleManage, Triggers

\* The stop of a position is a price.
LEMMA ChandelierTyped ==
    ASSUME NEW r \in [peak : Nat, top : Nat \union {None}, low : Nat \union {None},
                      stop : Nat \union {None}],
           r.top # None => r.low # None
    PROVE  Chandelier(r, Entry) \in Nat
<1>1. Exits.chandelier * Atr \in Nat
  BY ExitAssumption DEF ExitConfig
<1> QED
  BY <1>1, ExitAssumption DEF Chandelier, Larger, Smaller, None

\* A tick that emits a stop did not have one; its peak covers the runtime's.
LEMMA StepPreserves == ASSUME IInv, NEW m \in Market, Step(m) PROVE IInv'
<1> DEFINE what == Manage(m, expiring)
           r == RefreshRuntime(m)
           new == Chandelier(r, Entry)
           emits == what = "trail" /\ ShouldEmit(r, new)
           peak == Larger(r.peak, Larger(PositionPeak(m), 0))
           worth == IF what \in Triggers THEN Worth(m) ELSE None
<1> USE DEF IInv
<1>1. /\ r \in [peak : Nat, top : Nat \union {None}, low : Nat \union {None}, stop : Nat \union {None}]
      /\ r.stop = rt.stop /\ (r.top # None => r.low # None)
  BY RuntimeRefreshed
<1>2. new \in Nat
  BY <1>1, ChandelierTyped
<1>3. what \in Triggers \union {"no_op", "trail"} /\ (emits => rt.stop = None)
  BY ManageTyped, TrailOnlyOnce
<1>4. peak \in Nat /\ peak >= r.peak
  <2>1. PositionPeak(m) \in Nat \union {None}
    BY <1>1 DEF PositionPeak, TypeOK
  <2> HIDE DEF r
  <2> QED
    BY <1>1, <2>1 DEF Larger, None
<1>5. worth \in Int
  BY MarketTyped DEF Worth, CurrentMid, None
<1>6. /\ pc = "idle" /\ status = "OPEN"
      /\ rt' = IF emits THEN [r EXCEPT !.stop = new] ELSE r
      /\ directive' = [what |-> what, stop |-> IF emits THEN new ELSE None, peak |-> peak,
                       worth |-> worth]
      /\ pc' = IF what \in Triggers THEN "close"
               ELSE IF emits /\ filled THEN "send_stop" ELSE "refresh"
      /\ UNCHANGED <<kind, filled, status, notes, expiring, stops, retries, crashes>>
  BY DEF Step
<1> HIDE DEF what, r, new, emits, peak, worth
<1>7. /\ rt' \in [peak : Nat, top : Nat \union {None}, low : Nat \union {None}, stop : Nat \union {None}]
      /\ rt'.peak = r.peak /\ (rt'.top # None => rt'.low # None)
      /\ rt'.stop = IF emits THEN new ELSE rt.stop
  BY <1>1, <1>2, <1>6
<1>8. TypeOK'
  BY <1>2, <1>3, <1>4, <1>5, <1>6, <1>7 DEF TypeOK
<1>9. RuntimeInv'
  BY <1>2, <1>6, <1>7 DEF RuntimeInv, None
<1>10. PeakInv'
  BY <1>4, <1>6, <1>7 DEF PeakInv, NotesCoverRuntime
<1>11. StopInv'
  BY <1>2, <1>3, <1>6, <1>7 DEF StopInv, StopOrdersBounded, TypeOK, None
<1> QED
  BY <1>8, <1>9, <1>10, <1>11

\* The other steps change one part of the state each.
LEMMA OtherStepsPreserve ==
    ASSUME IInv,
           Boot \/ Crash \/ TickRaises \/ ExitFails \/ ExitCloses \/ UpdateStop
             \/ PersistTrailStop \/ RefreshNotes \/ WindowBegins
    PROVE  IInv'
<1> USE ExitAssumption DEF IInv
<1>0. FreshRuntime \in [peak : Nat, top : Nat \union {None}, low : Nat \union {None}, stop : Nat \union {None}]
      /\ NoDirective \in [what : Triggers \union {"no_op", "trail"}, stop : Nat \union {None},
                          peak : Nat, worth : Int]
  BY DEF FreshRuntime, NoDirective, None, Triggers
<1>1. CASE Boot
  BY <1>1 DEF Boot, TypeOK, RuntimeInv, PeakInv, StopInv, StopOrdersBounded, NotesCoverRuntime, FreshRuntime, Larger, None
<1>2. CASE Crash
  <2>1. TypeOK'
    BY <1>0, <1>2 DEF Crash, TypeOK
  <2>2. RuntimeInv' /\ PeakInv'
    BY <1>2 DEF Crash, RuntimeInv, PeakInv, NotesCoverRuntime, FreshRuntime
  <2>3. StopInv'
    BY <1>2 DEF Crash, StopInv, StopOrdersBounded, TypeOK, FreshRuntime
  <2> QED
    BY <2>1, <2>2, <2>3
<1>3. CASE TickRaises
  <2>1. TypeOK'
    BY <1>0, <1>3 DEF TickRaises, TypeOK
  <2>2. RuntimeInv' /\ PeakInv' /\ StopInv'
    BY <1>3 DEF TickRaises, TypeOK, RuntimeInv, PeakInv, StopInv, StopOrdersBounded, NotesCoverRuntime
  <2> QED
    BY <2>1, <2>2
<1>4. CASE ExitFails
  <2>1. TypeOK'
    BY <1>0, <1>4 DEF ExitFails, TypeOK
  <2>2. RuntimeInv' /\ PeakInv'
    BY <1>4 DEF ExitFails, TypeOK, RuntimeInv, PeakInv, NotesCoverRuntime, FreshRuntime
  <2>3. StopInv'
    BY <1>4 DEF ExitFails, StopInv, StopOrdersBounded, TypeOK, FreshRuntime, RuntimeInv
  <2> QED
    BY <2>1, <2>2, <2>3
<1>5. CASE ExitCloses
  <2>1. TypeOK'
    BY <1>0, <1>5 DEF ExitCloses, TypeOK
  <2>2. RuntimeInv' /\ PeakInv'
    BY <1>5 DEF ExitCloses, TypeOK, RuntimeInv, PeakInv, NotesCoverRuntime, FreshRuntime
  <2>3. StopInv'
    BY <1>5 DEF ExitCloses, StopInv, StopOrdersBounded, TypeOK, FreshRuntime, RuntimeInv
  <2> QED
    BY <2>1, <2>2, <2>3
<1>6. CASE UpdateStop
  <2>1. stops' \in Nat /\ stops' <= stops + 1
    BY <1>6 DEF UpdateStop, TypeOK
  <2>2. TypeOK'
    BY <1>6, <2>1 DEF UpdateStop, TypeOK
  <2>3. RuntimeInv' /\ PeakInv'
    BY <1>6 DEF UpdateStop, RuntimeInv, PeakInv, NotesCoverRuntime
  <2>4. StopInv'
    BY <1>6, <2>1 DEF UpdateStop, StopInv, StopOrdersBounded, RuntimeInv, TypeOK
  <2> QED
    BY <2>2, <2>3, <2>4
<1>7. CASE PersistTrailStop
  BY <1>7 DEF PersistTrailStop, TypeOK, RuntimeInv, PeakInv, StopInv, StopOrdersBounded, NotesCoverRuntime
<1>8. CASE RefreshNotes
  <2>1. TypeOK'
    BY <1>0, <1>8 DEF RefreshNotes, TypeOK, Larger
  <2>2. PeakInv'
    BY <1>8 DEF RefreshNotes, TypeOK, PeakInv, NotesCoverRuntime, Larger, None
  <2>3. RuntimeInv' /\ StopInv'
    BY <1>8 DEF RefreshNotes, TypeOK, RuntimeInv, StopInv, StopOrdersBounded
  <2> QED
    BY <2>1, <2>2, <2>3
<1>9. CASE WindowBegins
  <2>1. expiring' \in BOOLEAN
    BY <1>9 DEF WindowBegins
  <2> QED
    BY <1>9, <2>1 DEF WindowBegins, TypeOK, RuntimeInv, PeakInv, StopInv, StopOrdersBounded, NotesCoverRuntime
<1> QED
  BY <1>1, <1>2, <1>3, <1>4, <1>5, <1>6, <1>7, <1>8, <1>9

\* The inductive invariant of one position's exits: every action of the loop, of the
\* process and of the clock preserves it.
THEOREM InductiveInvariant == Spec => []IInv
<1>1. IInv /\ [Next]_vars => IInv'
  <2> SUFFICES ASSUME IInv, [Next]_vars PROVE IInv'
    OBVIOUS
  <2>1. CASE UNCHANGED vars
    BY <2>1 DEF vars, IInv, TypeOK, RuntimeInv, PeakInv, StopInv, StopOrdersBounded, NotesCoverRuntime
  <2>2. CASE Next
    BY <2>2, StepPreserves, OtherStepsPreserve DEF Next, Tick
  <2> QED
    BY <2>1, <2>2
<1> QED
  BY InitEstablishes, <1>1, PTL DEF Spec

\* The state of a position's exits keeps its types: no peak, stop or count ever turns
\* negative.
THEOREM TypeCorrect == Spec => []TypeOK
BY InductiveInvariant, PTL DEF IInv

\* Between ticks the peak in the notes covers the peak of the process, whichever of
\* its directives the last tick carried out.
THEOREM NotesCover == Spec => []NotesCoverRuntime
BY InductiveInvariant, PTL DEF IInv, PeakInv

\* There are never more stop orders than one and the dropped runtimes.
THEOREM StopsAreBounded == Spec => []StopOrdersBounded
BY InductiveInvariant, PTL DEF IInv, StopInv

\* The stored peak never falls, across restarts and attempted exits.
THEOREM StoredPeakIsMonotone == Spec => StoredPeakNeverFalls
<1>1. IInv /\ [Next]_vars => [notes'.peak >= notes.peak]_vars
  <2> SUFFICES ASSUME IInv, Next PROVE notes'.peak >= notes.peak
    OBVIOUS
  <2>1. notes.peak \in Int /\ notes \in [peak : Nat \union {None}, trail : Nat \union {None}]
    BY DEF IInv, TypeOK, None
  <2>2. CASE RefreshNotes
    BY <2>1, <2>2 DEF RefreshNotes, IInv, TypeOK, Larger, None
  <2>3. CASE PersistTrailStop
    BY <2>1, <2>3 DEF PersistTrailStop
  <2>4. CASE UNCHANGED notes
    BY <2>1, <2>4
  <2>5. RefreshNotes \/ PersistTrailStop \/ UNCHANGED notes
    BY DEF Next, Tick, Boot, Crash, TickRaises, Step, ExitFails, ExitCloses, UpdateStop, WindowBegins
  <2> QED
    BY <2>2, <2>3, <2>4, <2>5
<1> QED
  BY <1>1, InductiveInvariant, PTL DEF Spec, StoredPeakNeverFalls
=============================================================================
