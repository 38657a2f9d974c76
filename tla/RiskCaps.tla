------------------------------ MODULE RiskCaps ------------------------------
(***************************************************************************)
(* The three loss caps (src/bot/risk/caps.py), as pure operators on the    *)
(* NavTracker record.  Percentages are whole numbers and the comparisons   *)
(* are multiplied out: (a - b) / b <= -p% is 100 * (a - b) <= -p * b.      *)
(***************************************************************************)
EXTENDS Integers

CONSTANTS DailyPct, WeeklyPct, LifetimePct

ASSUME CapsAssumption ==
    DailyPct \in 1..100 /\ WeeklyPct \in 1..100 /\ LifetimePct \in 1..100

Tracker == [now : Int, openDay : Int, openWeek : Int, peak : Int, tripped : BOOLEAN]

\* (now - ref) / ref <= -pct%; a reference that is not positive counts as no loss.
LossReaches(now, ref, pct) == ref > 0 /\ 100 * (now - ref) <= -pct * ref

\* Mutant: the lifetime cap fires only beyond the limit.
DrawdownBeyond(t) == t.peak > 0 /\ 100 * (t.now - t.peak) < -LifetimePct * t.peak

DrawdownReached(t) == LossReaches(t.now, t.peak, LifetimePct)

\* Mutant: the drawdown of the moment decides, the latched flag is not looked at.
EvaluateUnlatched(t) ==
    IF DrawdownReached(t) THEN "circuit_breaker"
    ELSE IF LossReaches(t.now, t.openWeek, WeeklyPct) THEN "weekly_tripped"
    ELSE IF LossReaches(t.now, t.openDay, DailyPct) THEN "daily_tripped"
    ELSE "ok"

\* DrawdownCaps.evaluate: the widest cap that is reached.
Evaluate(t) ==
    IF t.tripped \/ DrawdownReached(t) THEN "circuit_breaker"
    ELSE IF LossReaches(t.now, t.openWeek, WeeklyPct) THEN "weekly_tripped"
    ELSE IF LossReaches(t.now, t.openDay, DailyPct) THEN "daily_tripped"
    ELSE "ok"

\* NavTracker.roll_day; the weekday is that of the UTC timestamp it is called with.
RollDay(t, utcWeekday) ==
    [t EXCEPT !.openDay = t.now,
              !.openWeek = IF utcWeekday = 0 THEN t.now ELSE @]

Larger(a, b) == IF a >= b THEN a ELSE b
=============================================================================
