---------------------------- MODULE RecoveryProofs ----------------------------
(***************************************************************************)
(* Proofs about Recovery: what the reconciler and the sweep leave behind,  *)
(* for any number of orders, legs, trades and restarts.                    *)
(***************************************************************************)
EXTENDS Recovery, TLAPS

-----------------------------------------------------------------------------
(* Types *)

LEMMA TypeInit == Init => TypeOK
<1> SUFFICES ASSUME Init PROVE TypeOK
  OBVIOUS
<1>1. ex \in [Orders -> ExOrder]
  BY DEF Init, ExOrder, ExState
<1>2. row \in [Orders -> RowState] /\ work \in [Orders -> RowState]
  BY DEF Init, RowState
<1>3. boots \in 0..MaxBoots
  BY RecoveryAssumption DEF Init
<1>4. requested \in BOOLEAN /\ settled \in BOOLEAN /\ nameless \in BOOLEAN
  BY DEF Init
<1> QED
  BY <1>1, <1>2, <1>3, <1>4 DEF Init, TypeOK

\* The exchange replaces its record of an order by another one.
LEMMA MoveTypes ==
  ASSUME TypeOK, NEW o \in Orders, NEW r \in ExOrder, ExMoves(o, r), late' \in SUBSET Orders
  PROVE  TypeOK'
<1>1. ex' \in [Orders -> ExOrder]
  BY DEF ExMoves, TypeOK
<1>2. settled' \in BOOLEAN
  BY DEF ExMoves
<1> QED
  BY <1>1, <1>2 DEF ExMoves, TypeOK, runVars, killVars

LEMMA ResolvedType == \A s : Resolved(s) \in {"filled", "canceled", "none"}
BY DEF Resolved

\* The filter on the client order id leaves exactly the working orders that have one.
LEMMA LiveIsWorking == LiveByCoid = Working
BY RecoveryAssumption DEF LiveByCoid, LiveOpen, NoCoid, Working, Orders

LEMMA TypeStep == TypeOK /\ [Next]_vars => TypeOK'
<1> SUFFICES ASSUME TypeOK, [Next]_vars PROVE TypeOK'
  OBVIOUS
<1> USE RecoveryAssumption DEF exchangeVars, runVars, killVars, ListedState
<1>1. ASSUME NEW o \in Orders, Arrive(o) PROVE TypeOK'
  <2> PICK s \in {"open", "rejected"} : /\ ExMoves(o, [ex[o] EXCEPT !.state = s])
                                        /\ late' = IF s = "open" THEN late \union {o} ELSE late
    BY <1>1 DEF Arrive
  <2>1. [ex[o] EXCEPT !.state = s] \in ExOrder
    <3>1. ex[o] \in ExOrder
      BY DEF TypeOK
    <3> QED
      BY <3>1 DEF ExOrder, ExState
  <2>2. late' \in SUBSET Orders
    BY DEF TypeOK
  <2> QED
    BY <2>1, <2>2, MoveTypes
<1>2. ASSUME NEW o \in Orders, Match(o) PROVE TypeOK'
  <2> PICK r \in {[state |-> "open", fill |-> "part"],
                  [state |-> "filled", fill |-> "full"],
                  [state |-> "closed", fill |-> "full"],
                  [state |-> "cancelled", fill |-> ex[o].fill]} : ExMoves(o, r)
    BY <1>2 DEF Match
  <2>1. ex[o].fill \in {"none", "part", "full"}
    BY DEF TypeOK, ExOrder
  <2>2. r \in ExOrder
    BY <2>1 DEF ExOrder, ExState
  <2>3. late' \in SUBSET Orders
    BY <1>2 DEF Match, TypeOK
  <2> QED
    BY <2>2, <2>3, MoveTypes
<1>3. CASE Boot
  BY <1>3 DEF Boot, TypeOK, OpenRows, OpenTrades
<1>4. CASE ListFails
  BY <1>4 DEF ListFails, LocalsGone, TypeOK, Kinds, RowState
<1>5. CASE ListOrders
  BY <1>5, LiveIsWorking DEF ListOrders, TypeOK, Kinds, OpenRows, Working
<1>6. ASSUME NEW o \in Orders, Walk(o) PROVE TypeOK'
  <2>1. work' \in [Orders -> RowState] /\ report' \in SUBSET Kinds /\ unseen' \in SUBSET Orders
    <3>1. CASE o \in listing
      BY <1>6, <3>1 DEF Walk, TypeOK, RowState, OpenRow
    <3>2. CASE o \notin listing
      <4> PICK s \in Fetched(o) :
            LET found == IF s \in {"error", "empty"} THEN "canceled" ELSE s IN
            /\ work' = IF Resolved(found) = "none" THEN work
                       ELSE [work EXCEPT ![o] = Resolved(found)]
            /\ report' = IF Resolved(found) = "none"
                         THEN report \union {"fill_state_regression"} ELSE report
            /\ unseen' = IF s \in {"error", "empty"} THEN unseen \union {o} ELSE unseen
        BY <1>6, <3>2 DEF Walk
      <4> QED
        BY ResolvedType DEF TypeOK, RowState, Kinds
    <3> QED
      BY <3>1, <3>2
  <2>2. todo' \in SUBSET Orders
    BY <1>6 DEF Walk, TypeOK
  <2> QED
    BY <1>6, <2>1, <2>2 DEF Walk, TypeOK
<1>7. CASE Commit
  BY <1>7 DEF Commit, TypeOK
<1>8. CASE CheckLegs
  BY <1>8 DEF CheckLegs, TypeOK, Kinds
<1>9. CASE CloseTrades
  BY <1>9 DEF CloseTrades, LocalsGone, TypeOK, RowState
<1>10. ASSUME NEW o \in Orders, Send(o) PROVE TypeOK'
  <2>1. ex' \in [Orders -> ExOrder]
    <3>1. ex[o] \in ExOrder /\ [ex[o] EXCEPT !.state = "inflight"] \in ExOrder
      BY DEF TypeOK, ExOrder, ExState
    <3>2. ex' = [ex EXCEPT ![o] = [ex[o] EXCEPT !.state = "inflight"]]
      BY <1>10 DEF Send
    <3> QED
      BY <3>1, <3>2 DEF TypeOK
  <2>2. row' \in [Orders -> RowState]
    BY <1>10 DEF Send, TypeOK, RowState, OpenRow
  <2>3. mine' \in SUBSET Orders /\ settled' \in BOOLEAN
    BY <1>10 DEF Send, TypeOK
  <2> QED
    BY <1>10, <2>1, <2>2, <2>3 DEF Send, SessionMoves, TypeOK
<1>11. ASSUME NEW o \in Orders, StoreOrder(o) PROVE TypeOK'
  BY <1>11 DEF StoreOrder, SessionMoves, TypeOK, RowState, OpenRow
<1>12. CASE Trip
  BY <1>12 DEF Trip, TypeOK
<1>13. CASE StopTrading
  BY <1>13 DEF StopTrading, TypeOK, OpenTrades
<1>14. ASSUME NEW t \in Trades, SweepTrade(t) PROVE TypeOK'
  BY <1>14 DEF SweepTrade, SweepResult, SweptOrders, TypeOK, ExOrder, ExState
<1>15. CASE SweepRaises
  BY <1>15 DEF SweepRaises, TypeOK
<1>16. CASE PersistState
  BY <1>16 DEF PersistState, ProcessEnds, LocalsGone, TypeOK, RowState
<1>17. CASE Crash
  BY <1>17 DEF Crash, ProcessEnds, LocalsGone, TypeOK, RowState
<1>18. CASE HandOrder \/ UNCHANGED vars
  BY <1>18 DEF HandOrder, vars, TypeOK
<1> QED
  BY <1>1, <1>2, <1>3, <1>4, <1>5, <1>6, <1>7, <1>8, <1>9, <1>10, <1>11, <1>12, <1>13, <1>14,
     <1>15, <1>16, <1>17, <1>18 DEF Next, Reconcile

\* Every variable of the stop and start keeps its type.
THEOREM TypeCorrect == Spec => []TypeOK
BY TypeInit, TypeStep, PTL DEF Spec

-----------------------------------------------------------------------------
(* Fills, cancellations and closed trades *)

\* The exchange's words and its fills agree.
FillFitsState ==
    \A o \in Orders :
        /\ ex[o].state \in {"absent", "inflight", "rejected"} => ex[o].fill = "none"
        /\ ex[o].state = "filled" => ex[o].fill = "full"
        /\ ex[o].fill = "full" => ex[o].state \in {"filled", "closed"}

\* The claims of a table of rows r are covered: a fill by the exchange, a
\* cancellation by its refusal or by a lookup that showed nothing.
Grounded(r) ==
    \A o \in Orders :
        /\ r[o] = "filled" => ex[o].fill = "full"
        /\ r[o] = "canceled" => o \in unseen \/ ex[o].state = "rejected"

\* What reconcile closed has only canceled rows.
ClosedIsCanceled ==
    \A o \in Orders : trade[TradeOf[o]] = "closed" /\ row[o] # "none" => row[o] = "canceled"

\* A session stores only orders it sent itself, of trades that are open, and
\* there is none while the reconciler runs.
OwnOrders ==
    /\ mode \notin {"trading", "stopping"} => mine = {}
    /\ \A o \in mine : trade[TradeOf[o]] = "open"

\* Inside the session of step 2 only open rows are changed.
InSession ==
    mode = "walk" => /\ todo \subseteq OpenRows(row)
                     /\ \A o \in Orders \ OpenRows(row) : work[o] = row[o]

RowsInv ==
    /\ FillFitsState
    /\ Grounded(row)
    /\ mode = "walk" => Grounded(work)
    /\ ClosedIsCanceled
    /\ OwnOrders
    /\ InSession

\* The exchange's records develop in one direction: a full fill stays, and so
\* does a refusal.
ExGrows ==
    \A o \in Orders :
        /\ ex[o].fill = "full" => ex'[o].fill = "full"
        /\ ex[o].state = "rejected" => ex'[o].state = "rejected"

\* Claims that were covered stay covered.
LEMMA GroundedStays ==
  ASSUME NEW r, Grounded(r), ExGrows, unseen \subseteq unseen'
  PROVE  \A o \in Orders :
            /\ r[o] = "filled" => ex'[o].fill = "full"
            /\ r[o] = "canceled" => o \in unseen' \/ ex'[o].state = "rejected"
BY DEF Grounded, ExGrows

\* A step of the exchange alone.
LEMMA ExStep ==
  ASSUME TypeOK, RowsInv, FillFitsState', ExGrows,
         UNCHANGED <<row, trade, mode, work, todo, mine, unseen>>
  PROVE  RowsInv'
<1>1. Grounded(row)' /\ (mode = "walk" => Grounded(work))'
  BY GroundedStays DEF RowsInv, Grounded
<1> QED
  BY <1>1 DEF RowsInv, ClosedIsCanceled, OwnOrders, InSession, OpenRows

\* A step of the process that leaves the exchange, the rows and the trades.
LEMMA ProcessStep ==
  ASSUME RowsInv, UNCHANGED <<ex, row, trade, unseen>>,
         mode' # "walk", mine' \subseteq mine, mode' \notin {"trading", "stopping"} => mine' = {}
  PROVE  RowsInv'
BY DEF RowsInv, FillFitsState, Grounded, ClosedIsCanceled, OwnOrders, InSession

LEMMA RowsInit == Init => RowsInv
BY RecoveryAssumption
DEF Init, RowsInv, FillFitsState, Grounded, ClosedIsCanceled, OwnOrders, InSession

LEMMA RowsStep == TypeOK /\ RowsInv /\ [Next]_vars => RowsInv'
<1> SUFFICES ASSUME TypeOK, RowsInv, [Next]_vars PROVE RowsInv'
  OBVIOUS
<1> USE RecoveryAssumption DEF exchangeVars, runVars, killVars, ListedState
<1>1. ASSUME NEW o \in Orders, Arrive(o) PROVE RowsInv'
  <2> PICK s \in {"open", "rejected"} : ExMoves(o, [ex[o] EXCEPT !.state = s])
    BY <1>1 DEF Arrive
  <2>1. ex' = [ex EXCEPT ![o] = [ex[o] EXCEPT !.state = s]] /\ ex[o].state = "inflight"
    BY <1>1 DEF ExMoves, Arrive
  <2>2. ex[o] \in ExOrder /\ ex \in [Orders -> ExOrder]
    BY DEF TypeOK
  <2>3. FillFitsState' /\ ExGrows
    BY <2>1, <2>2 DEF RowsInv, FillFitsState, ExGrows, ExOrder
  <2> QED
    BY <2>3, ExStep DEF ExMoves
<1>2. ASSUME NEW o \in Orders, Match(o) PROVE RowsInv'
  <2> PICK r \in {[state |-> "open", fill |-> "part"],
                  [state |-> "filled", fill |-> "full"],
                  [state |-> "closed", fill |-> "full"],
                  [state |-> "cancelled", fill |-> ex[o].fill]} : ExMoves(o, r)
    BY <1>2 DEF Match
  <2>1. ex' = [ex EXCEPT ![o] = r] /\ ex[o].state = "open"
    BY <1>2 DEF ExMoves, Match
  <2>2. ex \in [Orders -> ExOrder]
    BY DEF TypeOK
  <2>3. FillFitsState' /\ ExGrows
    BY <2>1, <2>2 DEF RowsInv, FillFitsState, ExGrows, ExOrder
  <2> QED
    BY <2>3, ExStep DEF ExMoves
<1>3. CASE Boot
  BY <1>3, ProcessStep DEF Boot, RowsInv, OwnOrders
<1>4. CASE ListFails
  BY <1>4, ProcessStep DEF ListFails, RowsInv, OwnOrders
<1>5. CASE ListOrders
  BY <1>5 DEF ListOrders, RowsInv, FillFitsState, Grounded, ClosedIsCanceled, OwnOrders, InSession,
              OpenRows
<1>6. ASSUME NEW o \in Orders, Walk(o) PROVE RowsInv'
  <2>1. UNCHANGED <<ex, row, trade, mode, mine>> /\ mode = "walk" /\ todo' \subseteq todo
        /\ unseen \subseteq unseen' /\ o \in todo
    BY <1>6 DEF Walk
  <2>2. PICK v \in RowState : /\ work' = [work EXCEPT ![o] = v] \/ work' = work
                              /\ v = "filled" => ex[o].fill = "full"
                              /\ v = "canceled" => o \in unseen' \/ ex[o].state = "rejected"
    <3>1. CASE o \in listing
      <4>1. work' = [work EXCEPT ![o] = ListedState]
        BY <1>6, <3>1 DEF Walk
      <4> QED
        BY <4>1 DEF RowState, OpenRow
    <3>2. CASE o \notin listing
      <4> PICK s \in Fetched(o) :
            LET found == IF s \in {"error", "empty"} THEN "canceled" ELSE s IN
            /\ work' = IF Resolved(found) = "none" THEN work
                       ELSE [work EXCEPT ![o] = Resolved(found)]
            /\ unseen' = IF s \in {"error", "empty"} THEN unseen \union {o} ELSE unseen
        BY <1>6, <3>2 DEF Walk
      <4> DEFINE found == IF s \in {"error", "empty"} THEN "canceled" ELSE s
      <4>1. s \in {"error", "empty"} \/ s = ex[o].state
        BY DEF Fetched
      <4>2. ex[o].state # "canceled"
        BY DEF TypeOK, ExOrder, ExState
      <4>3. Resolved(found) = "filled" => ex[o].fill = "full"
        BY <4>1 DEF Resolved, RowsInv, FillFitsState
      <4>4. Resolved(found) = "canceled" => o \in unseen' \/ ex[o].state = "rejected"
        BY <4>1, <4>2 DEF Resolved
      <4>5. Resolved(found) \in RowState /\ (work' = [work EXCEPT ![o] = Resolved(found)] \/ work' = work)
        BY ResolvedType DEF RowState
      <4> QED
        BY <4>3, <4>4, <4>5
    <3> QED
      BY <3>1, <3>2
  <2>3. Grounded(work)'
    BY <2>1, <2>2 DEF Grounded, RowsInv, TypeOK
  <2>4. InSession'
    BY <2>1, <2>2 DEF InSession, RowsInv, TypeOK, OpenRows
  <2> QED
    BY <2>1, <2>3, <2>4 DEF RowsInv, FillFitsState, Grounded, ClosedIsCanceled, OwnOrders
<1>7. CASE Commit
  <2>1. Grounded(row)' /\ FillFitsState'
    BY <1>7 DEF Commit, RowsInv, Grounded, FillFitsState
  <2>2. ClosedIsCanceled'
    BY <1>7 DEF Commit, RowsInv, ClosedIsCanceled, InSession, OpenRows, OpenRow
  <2>3. OwnOrders'
    BY <1>7 DEF Commit, RowsInv, OwnOrders
  <2> QED
    BY <1>7, <2>1, <2>2, <2>3 DEF Commit, RowsInv, InSession
<1>8. CASE CheckLegs
  BY <1>8, ProcessStep DEF CheckLegs, RowsInv, OwnOrders
<1>9. CASE CloseTrades
  <2>1. UNCHANGED <<ex, row, unseen, mine>> /\ mine = {} /\ mode' # "walk"
    BY <1>9 DEF CloseTrades, RowsInv, OwnOrders
  <2>2. ClosedIsCanceled'
    <3> SUFFICES ASSUME NEW o \in Orders, trade'[TradeOf[o]] = "closed", row[o] # "none"
                 PROVE  row[o] = "canceled"
      BY <2>1 DEF ClosedIsCanceled
    <3>1. TradeOf[o] \in Trades
      OBVIOUS
    <3>2. trade[TradeOf[o]] = "closed" \/ AllCanceled(TradeOf[o])
      BY <1>9, <3>1 DEF CloseTrades, TypeOK
    <3> QED
      BY <3>2 DEF AllCanceled, RowsOf, RowsInv, ClosedIsCanceled
  <2> QED
    BY <2>1, <2>2 DEF RowsInv, FillFitsState, Grounded, OwnOrders, InSession
<1>10. ASSUME NEW o \in Orders, Send(o) PROVE RowsInv'
  <2>1. /\ ex' = [ex EXCEPT ![o].state = "inflight"] /\ ex[o].state = "absent"
        /\ row' = row \/ row' = [row EXCEPT ![o] = "pending"]
        /\ UNCHANGED <<trade, mode, unseen>> /\ mode = "trading" /\ mine' = mine \union {o}
        /\ trade[TradeOf[o]] = "open"
    BY <1>10 DEF Send, SessionMoves
  <2>2. FillFitsState' /\ ExGrows
    BY <2>1 DEF RowsInv, FillFitsState, ExGrows, TypeOK, ExOrder
  <2>3. Grounded(row)'
    BY <2>1, <2>2 DEF RowsInv, Grounded, ExGrows, TypeOK
  <2>4. ClosedIsCanceled' /\ OwnOrders'
    BY <2>1 DEF RowsInv, ClosedIsCanceled, OwnOrders, TypeOK
  <2> QED
    BY <2>1, <2>2, <2>3, <2>4 DEF RowsInv, InSession
<1>11. ASSUME NEW o \in Orders, StoreOrder(o) PROVE RowsInv'
  <2>1. /\ UNCHANGED <<ex, trade, mode, unseen, mine>> /\ mode = "trading" /\ o \in mine
        /\ \/ row' = [row EXCEPT ![o] = "open"]
           \/ row' = [row EXCEPT ![o] = "filled"] /\ ex[o].state = "filled"
    BY <1>11 DEF StoreOrder, SessionMoves
  <2>2. FillFitsState' /\ Grounded(row)'
    BY <2>1 DEF RowsInv, FillFitsState, Grounded, TypeOK
  <2>3. ClosedIsCanceled' /\ OwnOrders'
    BY <2>1 DEF RowsInv, ClosedIsCanceled, OwnOrders, TypeOK
  <2> QED
    BY <2>1, <2>2, <2>3 DEF RowsInv, InSession
<1>12. CASE Trip
  BY <1>12, ProcessStep DEF Trip, RowsInv, OwnOrders
<1>13. CASE StopTrading
  BY <1>13, ProcessStep DEF StopTrading, RowsInv, OwnOrders
<1>14. ASSUME NEW t \in Trades, SweepTrade(t) PROVE RowsInv'
  <2>1. ASSUME NEW o \in Orders
        PROVE  /\ ex'[o].fill = ex[o].fill
               /\ ex'[o].state = ex[o].state \/ (ex[o].state = "open" /\ ex'[o].state = "cancelled")
    <3>1. ex[o] \in ExOrder
      BY DEF TypeOK
    <3>2. ex' = SweptOrders \/ ex' = ex
      BY <1>14 DEF SweepTrade
    <3> QED
      BY <3>1, <3>2 DEF SweptOrders, ExOrder
  <2>2. FillFitsState' /\ ExGrows
    BY <2>1 DEF RowsInv, FillFitsState, ExGrows
  <2> QED
    BY <1>14, <2>2, ExStep DEF SweepTrade
<1>15. CASE SweepRaises
  BY <1>15, ProcessStep DEF SweepRaises, RowsInv, OwnOrders
<1>16. CASE PersistState
  BY <1>16, ProcessStep DEF PersistState, ProcessEnds
<1>17. CASE Crash
  BY <1>17, ProcessStep DEF Crash, ProcessEnds
<1>18. CASE HandOrder \/ UNCHANGED vars
  BY <1>18 DEF HandOrder, vars, RowsInv, FillFitsState, Grounded, ClosedIsCanceled, OwnOrders, InSession, OpenRows
<1> QED
  BY <1>1, <1>2, <1>3, <1>4, <1>5, <1>6, <1>7, <1>8, <1>9, <1>10, <1>11, <1>12, <1>13, <1>14,
     <1>15, <1>16, <1>17, <1>18 DEF Next, Reconcile

\* FillsAreReal of Recovery: neither the lookup of the reconciler nor a crash
\* inside its session makes a row claim a fill the exchange does not have.
THEOREM FillsAreTrue == Spec => []FillsAreReal
<1>1. RowsInv => FillsAreReal
  BY DEF RowsInv, Grounded, FillsAreReal
<1> QED
  BY <1>1, TypeInit, TypeStep, RowsInit, RowsStep, PTL DEF Spec

\* ClosedOnlyUnseen of Recovery: a trade the reconciler closed has no stored
\* order with a fill, except orders whose lookup showed nothing.
THEOREM ClosedIsUnfilled == Spec => []ClosedOnlyUnseen
<1>1. TypeOK /\ RowsInv => ClosedOnlyUnseen
  BY DEF RowsInv, Grounded, ClosedIsCanceled, FillFitsState, ClosedOnlyUnseen
<1> QED
  BY <1>1, TypeInit, TypeStep, RowsInit, RowsStep, PTL DEF Spec

-----------------------------------------------------------------------------
(* The clean report and the sweep *)

\* The listing exists only while run() uses it.
ListingLives == mode \notin {"walk", "check", "close"} => listing = {}

\* The rows the run knows are the open ones until its session commits.
KnownRows == mode \in {"list", "walk"} => known = OpenRows(row)

\* As long as there is no mismatch, every row that was walked is open exactly
\* if its order was listed; after the commit that is so for every row.
WalkedRows ==
    /\ mode = "walk" /\ report = {} =>
        /\ listing \subseteq known
        /\ \A o \in known \ todo : work[o] \in OpenRow <=> o \in listing
    /\ mode \in {"check", "close"} /\ report = {} => OpenRows(row) = listing

RunInv == ListingLives /\ KnownRows /\ WalkedRows /\ SweptStaysSwept

\* A step of the exchange or of the session, outside of run() or while it waits.
LEMMA AsideStep ==
  ASSUME RunInv, SweptStaysSwept',
         UNCHANGED <<mode, known, listing, work, todo, report>>,
         mode \in {"trading", "stopping"} \/ row' = row
  PROVE  RunInv'
BY DEF RunInv, ListingLives, KnownRows, WalkedRows, OpenRows

LEMMA RunInit == Init => RunInv
BY DEF Init, RunInv, ListingLives, KnownRows, WalkedRows, SweptStaysSwept, Working

LEMMA RunStep == TypeOK /\ RowsInv /\ RunInv /\ [Next]_vars => RunInv'
<1> SUFFICES ASSUME TypeOK, RowsInv, RunInv, [Next]_vars PROVE RunInv'
  OBVIOUS
<1> USE RecoveryAssumption DEF exchangeVars, runVars, killVars, ListedState
<1>1. ASSUME NEW o \in Orders, Arrive(o) PROVE RunInv'
  <2> PICK s \in {"open", "rejected"} : /\ ExMoves(o, [ex[o] EXCEPT !.state = s])
                                        /\ late' = IF s = "open" THEN late \union {o} ELSE late
    BY <1>1 DEF Arrive
  <2>1. ex' = [ex EXCEPT ![o] = [ex[o] EXCEPT !.state = s]]
    BY DEF ExMoves
  <2>2. Working' \subseteq Working \union (late' \ late) \union late /\ late \subseteq late'
    BY <2>1 DEF Working, TypeOK, ExOrder
  <2>3. SweptStaysSwept'
    BY <2>2 DEF ExMoves, RunInv, SweptStaysSwept
  <2> QED
    BY <2>3, AsideStep DEF ExMoves
<1>2. ASSUME NEW o \in Orders, Match(o) PROVE RunInv'
  <2> PICK r : ExMoves(o, r)
    BY <1>2 DEF Match
  <2>1. Working' \subseteq Working /\ late' = late
    BY <1>2 DEF Match, ExMoves, Working, TypeOK
  <2>2. SweptStaysSwept'
    BY <2>1 DEF ExMoves, RunInv, SweptStaysSwept
  <2> QED
    BY <2>2, AsideStep DEF ExMoves
<1>3. CASE Boot
  BY <1>3 DEF Boot, RunInv, ListingLives, KnownRows, WalkedRows, SweptStaysSwept, Working, OpenRows
<1>4. CASE ListFails
  BY <1>4 DEF ListFails, LocalsGone, RunInv, ListingLives, KnownRows, WalkedRows, SweptStaysSwept,
              Working
<1>5. CASE ListOrders
  <2>1. SweptStaysSwept'
    BY <1>5, LiveIsWorking DEF ListOrders, RunInv, SweptStaysSwept, Working
  <2>2. WalkedRows'
    BY <1>5, LiveIsWorking DEF ListOrders, RunInv, KnownRows, WalkedRows, OpenRows
  <2> QED
    BY <1>5, <2>1, <2>2 DEF ListOrders, RunInv, ListingLives, KnownRows, OpenRows
<1>6. ASSUME NEW o \in Orders, Walk(o) PROVE RunInv'
  <2>1. /\ UNCHANGED <<ex, late, row, mode, known, listing, file, cancelled>>
        /\ mode = "walk" /\ o \in todo /\ todo' = todo \ {o}
    BY <1>6 DEF Walk
  <2>2. report' = {} =>
            /\ report = {}
            /\ \E v \in RowState : /\ work' = [work EXCEPT ![o] = v]
                                   /\ v \in OpenRow <=> o \in listing
    <3>1. CASE o \in listing
      <4>1. work' = [work EXCEPT ![o] = ListedState] /\ report' = report
        BY <1>6, <3>1 DEF Walk
      <4> QED
        BY <3>1, <4>1 DEF RowState, OpenRow
    <3>2. CASE o \notin listing
      <4> PICK s \in Fetched(o) :
            LET found == IF s \in {"error", "empty"} THEN "canceled" ELSE s IN
            /\ work' = IF Resolved(found) = "none" THEN work
                       ELSE [work EXCEPT ![o] = Resolved(found)]
            /\ report' = IF Resolved(found) = "none"
                         THEN report \union {"fill_state_regression"} ELSE report
        BY <1>6, <3>2 DEF Walk
      <4> DEFINE found == IF s \in {"error", "empty"} THEN "canceled" ELSE s
      <4>1. Resolved(found) \in {"filled", "canceled", "none"}
        BY ResolvedType
      <4>2. ASSUME report' = {}
            PROVE  /\ report = {}
                   /\ Resolved(found) \in {"filled", "canceled"}
                   /\ work' = [work EXCEPT ![o] = Resolved(found)]
        BY <4>1, <4>2
      <4> QED
        BY <3>2, <4>2 DEF RowState, OpenRow
    <3> QED
      BY <3>1, <3>2
  <2>3. WalkedRows'
    BY <2>1, <2>2 DEF RunInv, WalkedRows, TypeOK
  <2>4. SweptStaysSwept'
    BY <2>1 DEF RunInv, SweptStaysSwept, Working
  <2> QED
    BY <2>1, <2>3, <2>4 DEF RunInv, ListingLives, KnownRows, OpenRows
<1>7. CASE Commit
  <2>1. WalkedRows'
    <3> SUFFICES ASSUME report = {} PROVE OpenRows(work) = listing
      BY <1>7 DEF Commit, WalkedRows, OpenRows
    <3>1. /\ listing \subseteq known /\ known = OpenRows(row)
          /\ \A o \in known : work[o] \in OpenRow <=> o \in listing
          /\ \A o \in Orders \ OpenRows(row) : work[o] = row[o]
      BY <1>7 DEF Commit, RunInv, WalkedRows, KnownRows, RowsInv, InSession
    <3> QED
      BY <3>1 DEF OpenRows
  <2>2. SweptStaysSwept'
    BY <1>7 DEF Commit, RunInv, SweptStaysSwept, Working
  <2> QED
    BY <1>7, <2>1, <2>2 DEF Commit, RunInv, ListingLives, KnownRows
<1>8. CASE CheckLegs
  <2>1. report' = {} => report = {}
    BY <1>8 DEF CheckLegs
  <2> QED
    BY <1>8, <2>1 DEF CheckLegs, RunInv, ListingLives, KnownRows, WalkedRows, SweptStaysSwept, Working,
                      OpenRows
<1>9. CASE CloseTrades
  <2>1. SweptStaysSwept'
    BY <1>9 DEF CloseTrades, LocalsGone, RunInv, SweptStaysSwept, Working
  <2> QED
    BY <1>9, <2>1 DEF CloseTrades, LocalsGone, RunInv, ListingLives, KnownRows, WalkedRows
<1>10. ASSUME NEW o \in Orders, Send(o) PROVE RunInv'
  <2>1. Working' \subseteq Working
    BY <1>10 DEF Send, Working, TypeOK, ExOrder
  <2>2. SweptStaysSwept'
    BY <1>10, <2>1 DEF Send, SessionMoves, RunInv, SweptStaysSwept
  <2> QED
    BY <1>10, <2>2, AsideStep DEF Send, SessionMoves
<1>11. ASSUME NEW o \in Orders, StoreOrder(o) PROVE RunInv'
  <2>1. SweptStaysSwept'
    BY <1>11 DEF StoreOrder, SessionMoves, RunInv, SweptStaysSwept, Working
  <2> QED
    BY <1>11, <2>1, AsideStep DEF StoreOrder, SessionMoves
<1>12. CASE Trip
  <2>1. SweptStaysSwept'
    BY <1>12 DEF Trip, RunInv, SweptStaysSwept, Working
  <2> QED
    BY <1>12, <2>1, AsideStep DEF Trip
<1>13. CASE StopTrading
  BY <1>13 DEF StopTrading, RunInv, ListingLives, KnownRows, WalkedRows, SweptStaysSwept, Working
<1>14. ASSUME NEW t \in Trades, SweepTrade(t) PROVE RunInv'
  <2> PICK answered \in BOOLEAN, done \in BOOLEAN :
        /\ answered => done
        /\ cancelled' = IF answered THEN cancelled \union {t} ELSE cancelled
        /\ ex' = IF done THEN SweptOrders ELSE ex
        /\ late' = IF cancelled' = cancelled THEN late ELSE {}
    BY <1>14 DEF SweepTrade, SweepResult
  <2>1. listing' = {} /\ UNCHANGED file
    BY <1>14 DEF SweepTrade, RunInv, ListingLives
  <2>2. done => Working' = {}
    BY DEF Working, SweptOrders, TypeOK, ExOrder
  <2>3. ~done => ex' = ex /\ cancelled' = cancelled /\ late' = late
    OBVIOUS
  <2>4. SweptStaysSwept'
    <3>1. CASE done
      BY <3>1, <2>1, <2>2 DEF SweptStaysSwept
    <3>2. CASE ~done
      BY <3>2, <2>1, <2>3 DEF RunInv, SweptStaysSwept, Working
    <3> QED
      BY <3>1, <3>2
  <2> QED
    BY <1>14, <2>4, AsideStep DEF SweepTrade
<1>15. CASE SweepRaises
  <2>1. SweptStaysSwept'
    BY <1>15 DEF SweepRaises, RunInv, SweptStaysSwept, Working
  <2> QED
    BY <1>15, <2>1, AsideStep DEF SweepRaises
<1>16. CASE PersistState
  <2>1. SweptStaysSwept'
    BY <1>16 DEF PersistState, ProcessEnds, LocalsGone, RunInv, SweptStaysSwept, Working
  <2> QED
    BY <1>16, <2>1 DEF PersistState, ProcessEnds, LocalsGone, RunInv, ListingLives, KnownRows, WalkedRows
<1>17. CASE Crash
  <2>1. SweptStaysSwept'
    BY <1>17 DEF Crash, ProcessEnds, LocalsGone, RunInv, SweptStaysSwept, Working
  <2> QED
    BY <1>17, <2>1 DEF Crash, ProcessEnds, LocalsGone, RunInv, ListingLives, KnownRows, WalkedRows
<1>18. CASE HandOrder \/ UNCHANGED vars
  BY <1>18 DEF HandOrder, vars, RunInv, ListingLives, KnownRows, WalkedRows, SweptStaysSwept, Working, OpenRows
<1> QED
  BY <1>1, <1>2, <1>3, <1>4, <1>5, <1>6, <1>7, <1>8, <1>9, <1>10, <1>11, <1>12, <1>13, <1>14,
     <1>15, <1>16, <1>17, <1>18 DEF Next, Reconcile

\* SweptStaysSwept of Recovery: after a successful cancel of the kill switch
\* nothing works, and nothing is called foreign, that was there before it.
THEOREM SweepHolds == Spec => []SweptStaysSwept
<1>1. RunInv => SweptStaysSwept
  BY DEF RunInv
<1> QED
  BY <1>1, TypeInit, TypeStep, RowsInit, RowsStep, RunInit, RunStep, PTL DEF Spec

\* CleanMeansListed of Recovery: the loop starts only with open rows that are exactly
\* the orders with a client order id that the exchange has listed.
THEOREM CleanStart == Spec => CleanMeansListed
<1>1. TypeOK /\ RunInv /\ [Next]_vars => [mode = "close" /\ mode' = "trading" => OpenRows(row') = listing]_vars
  <2> SUFFICES ASSUME TypeOK, RunInv, Next, mode = "close", mode' = "trading"
               PROVE  OpenRows(row') = listing
    OBVIOUS
  <2>1. CASE CloseTrades
    BY <2>1 DEF CloseTrades, RunInv, WalkedRows
  <2>2. CASE ~CloseTrades
    <3>1. mode' # "trading"
      BY <2>2 DEF Next, Reconcile, Boot, ListFails, ListOrders, Commit, CheckLegs, Walk, Trip, StopTrading,
                  HandOrder, SweepRaises, PersistState, Crash, ProcessEnds, Arrive, Match, ExMoves, Send, StoreOrder,
                  SweepTrade
    <3> QED
      BY <3>1
  <2> QED
    BY <2>1, <2>2
<1> QED
  BY <1>1, TypeInit, TypeStep, RowsInit, RowsStep, RunInit, RunStep, PTL DEF Spec, CleanMeansListed

-----------------------------------------------------------------------------
(* Reconciling once more *)

\* Two words for a row that step 3 and step 4 cannot tell apart.
SameWord(v, w) == v = w \/ (v \in OpenRow /\ w \in OpenRow)

\* Step 3 judges every trade that is still open.
ChecksOpen == mode \in {"list", "walk", "check", "close"} => checked = OpenTrades

\* After a clean report, and while nothing moves, the open rows are the orders that
\* work and no open trade is mixed, so another run finds every open row listed.
SettledRows ==
    settled =>
        /\ Working = OpenRows(row)
        /\ \A t \in OpenTrades : ~Mixed(t)
        /\ mode \in {"walk", "check", "close"} => report = {}
        /\ mode = "walk" => /\ listing = OpenRows(row)
                            /\ \A o \in Orders : SameWord(work[o], row[o])

\* A report that is clean after step 3 found no mixed trade.
CleanIsUnmixed == mode = "close" /\ report = {} => \A t \in checked : ~Mixed(t)

RerunInv == ChecksOpen /\ SettledRows /\ CleanIsUnmixed

\* Step 3 sees the same in rows that it cannot tell apart.
LEMMA MixedStays ==
  ASSUME NEW t, \A o \in Orders : SameWord(row'[o], row[o])
  PROVE  Mixed(t)' <=> Mixed(t)
<1>1. \A o \in Orders : /\ row'[o] = "none" <=> row[o] = "none"
                        /\ row'[o] = "filled" <=> row[o] = "filled"
                        /\ row'[o] \in {"filled", "canceled", "rejected"}
                             <=> row[o] \in {"filled", "canceled", "rejected"}
  BY DEF SameWord, OpenRow
<1>2. RowsOf(t)' = RowsOf(t)
  BY <1>1 DEF RowsOf
<1>3. Newest(t)' = Newest(t) /\ Newest(t) \subseteq Orders
  BY <1>2 DEF Newest, RowsOf
<1>4. LegStates(t)' = {row'[o] : o \in Newest(t)}
  BY <1>3 DEF LegStates
<1>5. ("filled" \in LegStates(t))' <=> "filled" \in LegStates(t)
  BY <1>1, <1>3, <1>4 DEF LegStates
<1>6. (LegStates(t) \ {"filled", "canceled", "rejected"} # {})'
        <=> LegStates(t) \ {"filled", "canceled", "rejected"} # {}
  BY <1>1, <1>3, <1>4 DEF LegStates
<1> QED
  BY <1>5, <1>6 DEF Mixed

\* In particular in rows that are the same.
LEMMA MixedSame == ASSUME NEW t, row' = row PROVE Mixed(t)' <=> Mixed(t)
BY MixedStays DEF SameWord

\* A step outside of run(), or the end of one, that leaves rows and trades alone.
LEMMA OutsideStep ==
  ASSUME RerunInv, UNCHANGED <<row, trade>>, settled' => settled /\ ex' = ex,
         mode' \notin {"list", "walk", "check", "close"}
  PROVE  RerunInv'
<1>1. SettledRows'
  <2> SUFFICES ASSUME settled'
               PROVE  (Working = OpenRows(row) /\ \A t \in OpenTrades : ~Mixed(t))'
    BY DEF SettledRows
  <2>1. Working' = Working /\ OpenRows(row)' = OpenRows(row) /\ OpenTrades' = OpenTrades
    BY DEF Working, OpenRows, OpenTrades
  <2>2. Working = OpenRows(row) /\ \A t \in OpenTrades : ~Mixed(t)
    BY DEF RerunInv, SettledRows
  <2> QED
    BY <2>1, <2>2, MixedSame
<1> QED
  BY <1>1 DEF RerunInv, ChecksOpen, CleanIsUnmixed

\* A step of the exchange.
LEMMA MovedStep ==
  ASSUME RerunInv, UNCHANGED <<row, trade, mode, checked, report>>, ~settled'
  PROVE  RerunInv'
<1>1. OpenTrades' = OpenTrades
  BY DEF OpenTrades
<1>2. CleanIsUnmixed'
  BY MixedSame DEF RerunInv, CleanIsUnmixed
<1> QED
  BY <1>1, <1>2 DEF RerunInv, ChecksOpen, SettledRows

LEMMA RerunInit == Init => RerunInv
BY DEF Init, RerunInv, ChecksOpen, SettledRows, CleanIsUnmixed

LEMMA RerunStep == TypeOK /\ RowsInv /\ RunInv /\ RerunInv /\ [Next]_vars => RerunInv'
<1> SUFFICES ASSUME TypeOK, RowsInv, RunInv, RerunInv, [Next]_vars PROVE RerunInv'
  OBVIOUS
<1> USE RecoveryAssumption DEF exchangeVars, runVars, killVars, ListedState
<1>1. ASSUME NEW o \in Orders, Arrive(o) \/ Match(o) PROVE RerunInv'
  BY <1>1, MovedStep DEF Arrive, Match, ExMoves
<1>2. CASE Boot
  <2>1. UNCHANGED <<ex, row, trade, settled>> /\ mode' = "list" /\ checked' = OpenTrades
    BY <1>2 DEF Boot
  <2>2. Working' = Working /\ OpenRows(row)' = OpenRows(row) /\ OpenTrades' = OpenTrades
    BY <2>1 DEF Working, OpenRows, OpenTrades
  <2>3. SettledRows'
    BY <2>1, <2>2, MixedSame DEF RerunInv, SettledRows
  <2> QED
    BY <2>1, <2>2, <2>3 DEF RerunInv, ChecksOpen, CleanIsUnmixed
<1>3. CASE ListFails
  BY <1>3, OutsideStep DEF ListFails
<1>4. CASE ListOrders
  <2>1. /\ UNCHANGED <<ex, row, trade, settled, checked>> /\ mode = "list" /\ mode' = "walk"
        /\ listing' = Working /\ work' = row
        /\ report' = IF Working \subseteq known THEN {} ELSE {"foreign_open"}
    BY <1>4, LiveIsWorking DEF ListOrders
  <2>2. Working' = Working /\ OpenRows(row)' = OpenRows(row) /\ OpenTrades' = OpenTrades
    BY <2>1 DEF Working, OpenRows, OpenTrades
  <2>3. known = OpenRows(row)
    BY <2>1 DEF RunInv, KnownRows
  <2>4. SettledRows'
    BY <2>1, <2>2, <2>3, MixedSame DEF RerunInv, SettledRows, SameWord
  <2> QED
    BY <2>1, <2>2, <2>4 DEF RerunInv, ChecksOpen, CleanIsUnmixed
<1>5. ASSUME NEW o \in Orders, Walk(o) PROVE RerunInv'
  <2>1. /\ UNCHANGED <<ex, row, trade, settled, checked, listing, mode>> /\ mode = "walk" /\ o \in todo
    BY <1>5 DEF Walk
  <2>2. Working' = Working /\ OpenRows(row)' = OpenRows(row) /\ OpenTrades' = OpenTrades
    BY <2>1 DEF Working, OpenRows, OpenTrades
  <2>3. SettledRows'
    <3> SUFFICES ASSUME settled PROVE SettledRows'
      BY <2>1 DEF SettledRows
    <3>1. o \in OpenRows(row)
      BY <2>1 DEF RowsInv, InSession
    <3>2. o \in listing
      BY <2>1, <3>1 DEF RerunInv, SettledRows
    <3>3. work' = [work EXCEPT ![o] = ListedState] /\ report' = report
      BY <1>5, <3>2 DEF Walk
    <3>4. \A p \in Orders : SameWord(work'[p], row[p])
      BY <2>1, <3>1, <3>3 DEF RerunInv, SettledRows, SameWord, OpenRow, OpenRows, TypeOK
    <3> QED
      BY <2>1, <2>2, <3>3, <3>4, MixedSame DEF RerunInv, SettledRows
  <2> QED
    BY <2>1, <2>2, <2>3 DEF RerunInv, ChecksOpen, CleanIsUnmixed
<1>6. CASE Commit
  <2>1. /\ UNCHANGED <<ex, trade, settled, checked, listing, report>> /\ mode = "walk"
        /\ mode' = "check" /\ row' = work
    BY <1>6 DEF Commit
  <2>2. Working' = Working /\ OpenTrades' = OpenTrades
    BY <2>1 DEF Working, OpenTrades
  <2>3. SettledRows'
    <3> SUFFICES ASSUME settled PROVE SettledRows'
      BY <2>1 DEF SettledRows
    <3>1. \A o \in Orders : SameWord(row'[o], row[o])
      BY <2>1 DEF RerunInv, SettledRows
    <3>2. OpenRows(row)' = OpenRows(row)
      BY <2>1, <3>1 DEF OpenRows, SameWord
    <3> QED
      BY <2>1, <2>2, <3>1, <3>2, MixedStays DEF RerunInv, SettledRows
  <2> QED
    BY <2>1, <2>2, <2>3 DEF RerunInv, ChecksOpen, CleanIsUnmixed
<1>7. CASE CheckLegs
  <2>1. /\ UNCHANGED <<ex, row, trade, settled, checked>> /\ mode = "check" /\ mode' = "close"
        /\ report' = IF \E t \in checked : Mixed(t)
                     THEN report \union {"partial_leg_group"} ELSE report
    BY <1>7 DEF CheckLegs
  <2>2. Working' = Working /\ OpenRows(row)' = OpenRows(row) /\ OpenTrades' = OpenTrades
        /\ checked = OpenTrades
    BY <2>1 DEF Working, OpenRows, OpenTrades, RerunInv, ChecksOpen
  <2>3. SettledRows'
    BY <2>1, <2>2, MixedSame DEF RerunInv, SettledRows
  <2>4. CleanIsUnmixed'
    BY <2>1, MixedSame DEF CleanIsUnmixed
  <2> QED
    BY <2>1, <2>2, <2>3, <2>4 DEF RerunInv, ChecksOpen
<1>8. CASE CloseTrades
  <2>1. /\ UNCHANGED <<ex, row>> /\ mode = "close" /\ mode' \in {"trading", "halted"}
        /\ settled' = (report = {} /\ Working = listing)
        /\ trade' = [t \in Trades |-> IF trade[t] = "open" /\ AllCanceled(t)
                                      THEN "closed" ELSE trade[t]]
    BY <1>8 DEF CloseTrades
  <2>2. OpenTrades' \subseteq OpenTrades
    BY <2>1 DEF OpenTrades
  <2>3. SettledRows'
    <3> SUFFICES ASSUME settled'
                 PROVE  (Working = OpenRows(row) /\ \A t \in OpenTrades : ~Mixed(t))'
      BY <2>1 DEF SettledRows
    <3>1. report = {} /\ Working = listing
      BY <2>1
    <3>2. OpenRows(row) = listing
      BY <2>1, <3>1 DEF RunInv, WalkedRows
    <3>3. \A t \in OpenTrades : ~Mixed(t)
      BY <2>1, <3>1 DEF RerunInv, ChecksOpen, CleanIsUnmixed
    <3>4. Working' = Working /\ OpenRows(row)' = OpenRows(row)
      BY <2>1 DEF Working, OpenRows
    <3> QED
      BY <2>1, <2>2, <3>1, <3>2, <3>3, <3>4, MixedSame
  <2> QED
    BY <2>1, <2>3 DEF RerunInv, ChecksOpen, CleanIsUnmixed
<1>9. ASSUME NEW o \in Orders, Send(o) \/ StoreOrder(o) PROVE RerunInv'
  <2>1. ~settled' /\ mode' = "trading"
    BY <1>9 DEF Send, StoreOrder, SessionMoves
  <2> QED
    BY <2>1 DEF RerunInv, ChecksOpen, SettledRows, CleanIsUnmixed
<1>10. CASE Trip
  BY <1>10, OutsideStep DEF Trip
<1>11. CASE StopTrading
  BY <1>11, OutsideStep DEF StopTrading
<1>12. ASSUME NEW t \in Trades, SweepTrade(t) PROVE RerunInv'
  <2>1. UNCHANGED <<row, trade>> /\ mode' = "stopping" /\ (settled' => settled /\ ex' = ex)
    BY <1>12 DEF SweepTrade
  <2> QED
    BY <2>1, OutsideStep
<1>13. CASE SweepRaises
  BY <1>13, OutsideStep DEF SweepRaises
<1>14. CASE PersistState
  BY <1>14, OutsideStep DEF PersistState, ProcessEnds
<1>15. CASE Crash
  BY <1>15, OutsideStep DEF Crash, ProcessEnds
<1>16. CASE HandOrder \/ UNCHANGED vars
  <2>1. /\ UNCHANGED <<ex, row, trade, mode, checked, listing, work, report, settled>>
    BY <1>16 DEF HandOrder, vars
  <2>2. Working' = Working /\ OpenRows(row)' = OpenRows(row) /\ OpenTrades' = OpenTrades
    BY <2>1 DEF Working, OpenRows, OpenTrades
  <2> QED
    BY <2>1, <2>2, MixedSame DEF RerunInv, ChecksOpen, SettledRows, CleanIsUnmixed
<1> QED
  BY <1>1, <1>2, <1>3, <1>4, <1>5, <1>6, <1>7, <1>8, <1>9, <1>10, <1>11, <1>12, <1>13, <1>14,
     <1>15, <1>16 DEF Next, Reconcile

\* RerunAgrees of Recovery: a reconcile after a clean one, with nothing moved in
\* between and whatever crashes and restarts came between, finds no mismatch.
THEOREM RerunIsClean == Spec => RerunAgrees
<1>1. RerunInv /\ [Next]_vars => [mode = "close" /\ mode' # "down" /\ settled => report = {}]_vars
  BY DEF RerunInv, SettledRows
<1> QED
  BY <1>1, TypeInit, TypeStep, RowsInit, RowsStep, RunInit, RunStep, RerunInit, RerunStep, PTL
  DEF Spec, RerunAgrees

=============================================================================
