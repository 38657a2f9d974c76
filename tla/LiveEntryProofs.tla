-------------------------- MODULE LiveEntryProofs --------------------------
(***************************************************************************)
(* LiveEntry's safety properties and its contract, for any number of legs  *)
(* and lots.  None is inductive: that a successful entry is filled needs   *)
(* to know that the LegFill a task holds never shows more than the         *)
(* exchange has executed, and that needs to know which orders exist at     *)
(* which point of the task (IInv).  What is left after the return needs to *)
(* know when a LegFill is final and how far _rollback has got (WorkInv).   *)
(***************************************************************************)
EXTENDS LiveEntry, TLAPS

\* A LegFill or a lookup result never shows more than its order has filled, and
\* only those made from an order can be in state "filled".
SnapshotInv(l, f) ==
    /\ f.coid \in Kinds => f.qty <= order[l][f.coid].filled
    /\ f.state = "filled" => f.coid \in Kinds

\* Which of the leg's orders exist at which point of its task.
OrderInv(l) ==
    /\ \A k \in Kinds : order[l][k].state = "absent" => order[l][k].filled = 0
    /\ order[l]["ioc"].state = "open" => order[l]["ioc"].filled = 0
    /\ pc[l] = "place" => order[l]["maker"].state = "absent"
    /\ pc[l] \in {"maker_reply", "maker_wait"} => order[l]["maker"].state # "absent"
    /\ pc[l] \in {"place", "maker_reply", "maker_wait", "cancel", "ioc"}
         => order[l]["ioc"].state = "absent"
    /\ pc[l] \in {"ioc_reply", "ioc_wait"} => order[l]["ioc"].state # "absent"

\* Nothing is closed before the rollback, nor more than was bought; the tasks are
\* over when the gather is; success is decided on complete fills and is final.
PhaseInv(l) ==
    /\ closed[l] <= Bought(l)
    /\ phase = "legs" => closed[l] = 0
    /\ phase # "legs" => pc[l] = "returned"
    /\ success => phase = "done" /\ closed[l] = 0 /\ IsComplete(fill[l])

LegInv(l) ==
    SnapshotInv(l, fill[l]) /\ SnapshotInv(l, last[l]) /\ OrderInv(l) /\ PhaseInv(l)

IInv == TypeOK /\ \A l \in Legs : LegInv(l)

-----------------------------------------------------------------------------

\* The placeholder before the first reply is a LegFill.
LEMMA NoFillTyped == NoFill \in LegFill
  BY EntryAssumption DEF NoFill, LegFill

\* Initially no order exists and nothing is held.
LEMMA InitEstablishes == Init => IInv
<1> USE EntryAssumption DEF Init
<1> HAVE Init
<1>1. TypeOK
  <2>1. [state |-> "absent", filled |-> 0] \in Order
    BY DEF Order, OrderState
  <2>2. order \in [Legs -> [Kinds -> Order]]
    BY <2>1
  <2>3. fill \in [Legs -> LegFill] /\ last \in [Legs -> LegFill]
    BY NoFillTyped
  <2>4. rb \in 1..(NLegs + 1)
    OBVIOUS
  <2>5. closed \in [Legs -> Nat]
    OBVIOUS
  <2>6. raised \in SUBSET Legs /\ unclosed \in SUBSET Legs
    OBVIOUS
  <2> QED
    BY <2>2, <2>3, <2>4, <2>5, <2>6 DEF TypeOK
<1>2. ASSUME NEW l \in Legs PROVE LegInv(l)
  BY DEF LegInv, SnapshotInv, OrderInv, PhaseInv, Bought, IsComplete, Kinds, NoFill
<1> QED
  BY <1>1, <1>2 DEF IInv

\* What a reply or a lookup shows of an existing order is a LegFill.
LEMMA ShownTyped ==
    ASSUME TypeOK, NEW l \in Legs, NEW k \in Kinds, order[l][k].state # "absent"
    PROVE  Shown(l, k) \in LegFill
  BY EntryAssumption DEF TypeOK, Shown, LegFill, Order, OrderState, Kinds

\* A step that leaves every variable of LegInv(m) at m alone preserves LegInv(m).
LEMMA OtherLeg ==
    ASSUME TypeOK, NEW m \in Legs, LegInv(m),
           order'[m] = order[m], closed'[m] = closed[m], pc'[m] = pc[m],
           fill'[m] = fill[m], last'[m] = last[m], phase' = phase, success' = success
    PROVE  LegInv(m)'
  BY DEF LegInv, SnapshotInv, OrderInv, PhaseInv, Bought, IsComplete, TypeOK

\* Every step of a leg's task preserves the invariant.
LEMMA LegStepPreserves ==
    ASSUME IInv, NEW l \in Legs, LegStep(l)
    PROVE  IInv'
<1> USE EntryAssumption
<1>0. TypeOK /\ LegInv(l)
  BY DEF IInv
<1>1. ASSUME TypeOK', LegInv(l)', phase' = phase, success' = success, closed' = closed,
             \A m \in Legs \ {l} : /\ order'[m] = order[m] /\ pc'[m] = pc[m]
                                   /\ fill'[m] = fill[m] /\ last'[m] = last[m]
      PROVE  IInv'
  BY <1>1, OtherLeg DEF IInv
<1>2. CASE MissingQuote(l)
  <2>1. TypeOK'
    BY <1>0, <1>2 DEF MissingQuote, Return, Goto, Rejected, TypeOK, LegFill
  <2>2. LegInv(l)'
    BY <1>0, <1>2 DEF MissingQuote, Return, Goto, Rejected, TypeOK, LegInv, SnapshotInv,
                      OrderInv, PhaseInv, Bought, IsComplete, Kinds
  <2> QED
    BY <1>0, <1>1, <1>2, <2>1, <2>2 DEF MissingQuote, Return, Goto, TypeOK
<1>3. CASE PlaceMaker(l)
  <2>1. TypeOK'
    BY <1>0, <1>3 DEF PlaceMaker, Accept, Goto, TypeOK, Order, OrderState, Kinds
  <2>2. LegInv(l)'
    BY <1>0, <1>3 DEF PlaceMaker, Accept, Goto, TypeOK, LegInv, SnapshotInv, OrderInv,
                      PhaseInv, Bought, IsComplete, Kinds, Order, LegFill
  <2> QED
    BY <1>0, <1>1, <1>3, <2>1, <2>2 DEF PlaceMaker, Accept, Goto, TypeOK
<1>4. CASE PlaceIoc(l)
  <2>1. TypeOK'
    BY <1>0, <1>4 DEF PlaceIoc, Accept, Goto, TypeOK, Order, OrderState, Kinds
  <2>2. LegInv(l)'
    BY <1>0, <1>4 DEF PlaceIoc, Accept, Goto, TypeOK, LegInv, SnapshotInv, OrderInv,
                      PhaseInv, Bought, IsComplete, Kinds, Order, LegFill
  <2> QED
    BY <1>0, <1>1, <1>4, <2>1, <2>2 DEF PlaceIoc, Accept, Goto, TypeOK
<1>5. ASSUME NEW k \in Kinds, Reply(l, k) PROVE IInv'
  <2>0. Shown(l, k) \in LegFill
    BY <1>0, <1>5, ShownTyped DEF Reply, LegInv, OrderInv, Kinds
  <2>1. TypeOK'
    BY <1>0, <1>5, <2>0 DEF Reply, Goto, TypeOK, NoFill, LegFill
  <2>2. LegInv(l)'
    BY <1>0, <1>5 DEF Reply, Goto, Shown, NoFill, TypeOK, LegInv, SnapshotInv, OrderInv,
                      PhaseInv, Bought, IsComplete, Kinds, Order, LegFill
  <2> QED
    BY <1>0, <1>1, <1>5, <2>1, <2>2 DEF Reply, Goto, TypeOK
<1>6. ASSUME NEW k \in Kinds, Poll(l, k) PROVE IInv'
  <2>0. Shown(l, k) \in LegFill
    BY <1>0, <1>6, ShownTyped DEF Poll, Waiting, LegInv, OrderInv, Kinds
  <2>1. TypeOK'
    <3>1. /\ fill' \in [Legs -> LegFill] /\ last' \in [Legs -> LegFill]
          /\ pc' \in [Legs -> {"place", "maker_reply", "maker_wait", "cancel", "ioc",
                              "ioc_reply", "ioc_wait", "returned"}]
      <4>1. CASE last' = [last EXCEPT ![l] = NoFill] /\ UNCHANGED <<fill, pc>>
        BY <1>0, <4>1, NoFillTyped DEF TypeOK
      <4>2. CASE last' = [last EXCEPT ![l] = Shown(l, k)] /\ UNCHANGED <<fill, pc>>
        BY <1>0, <2>0, <4>2 DEF TypeOK
      <4>3. CASE WaitEnds(l, k, Shown(l, k))
        BY <1>0, <2>0, <4>3, NoFillTyped DEF WaitEnds, Goto, TypeOK
      <4> QED
        BY <1>6, <4>1, <4>2, <4>3 DEF Poll
    <3> QED
      BY <1>0, <1>6, <3>1 DEF Poll, TypeOK
  <2>2. LegInv(l)'
    BY <1>0, <1>6 DEF Poll, Waiting, WaitEnds, Goto, Shown, NoFill, TypeOK, LegInv,
                      SnapshotInv, OrderInv, PhaseInv, Bought, IsComplete, Kinds, Order, LegFill
  <2> QED
    BY <1>0, <1>1, <1>6, <2>1, <2>2 DEF Poll, WaitEnds, Goto, TypeOK
<1>7. ASSUME NEW k \in Kinds, Timeout(l, k) PROVE IInv'
  <2>1. TypeOK'
    BY <1>0, <1>7 DEF Timeout, WaitEnds, Goto, TypeOK, NoFill, LegFill
  <2>2. LegInv(l)'
    BY <1>0, <1>7 DEF Timeout, Waiting, WaitEnds, Goto, NoFill, TypeOK, LegInv,
                      SnapshotInv, OrderInv, PhaseInv, Bought, IsComplete, Kinds, Order, LegFill
  <2> QED
    BY <1>0, <1>1, <1>7, <2>1, <2>2 DEF Timeout, WaitEnds, Goto, TypeOK
<1>8. CASE CancelOpenOrder(l)
  <2>1. TypeOK'
    BY <1>0, <1>8 DEF CancelOpenOrder, Cancelled, Goto, TypeOK, Order, OrderState, Kinds
  <2>2. LegInv(l)'
    BY <1>0, <1>8 DEF CancelOpenOrder, Cancelled, Goto, TypeOK, LegInv, SnapshotInv, OrderInv,
                      PhaseInv, Bought, IsComplete, Kinds, Order, LegFill
  <2> QED
    BY <1>0, <1>1, <1>8, <2>1, <2>2 DEF CancelOpenOrder, Goto, TypeOK
<1>9. CASE CancelFails(l)
  <2>1. TypeOK'
    BY <1>0, <1>9 DEF CancelFails, Goto, TypeOK
  <2>2. LegInv(l)'
    BY <1>0, <1>9 DEF CancelFails, Goto, TypeOK, LegInv, SnapshotInv, OrderInv, PhaseInv,
                      Bought, IsComplete, Kinds
  <2> QED
    BY <1>0, <1>1, <1>9, <2>1, <2>2 DEF CancelFails, Goto, TypeOK
<1>10. CASE LegRaises(l)
  <2>1. TypeOK'
    BY <1>0, <1>10 DEF LegRaises, Return, Goto, Rejected, NoFill, TypeOK, LegFill
  <2>2. LegInv(l)'
    BY <1>0, <1>10 DEF LegRaises, Return, Goto, Rejected, NoFill, TypeOK, LegInv, SnapshotInv,
                       OrderInv, PhaseInv, Bought, IsComplete, Kinds
  <2> QED
    BY <1>0, <1>1, <1>10, <2>1, <2>2 DEF LegRaises, Return, Goto, TypeOK
<1> QED
  BY <1>2, <1>3, <1>4, <1>5, <1>6, <1>7, <1>8, <1>9, <1>10 DEF LegStep

\* A cancelled order is an order.
LEMMA CancelledTyped == \A o \in Order : Cancelled(o) \in Order
  BY DEF Cancelled, Order, OrderState

\* Every step of the rollback preserves the invariant.
LEMMA RollbackPreserves ==
    ASSUME IInv, NEW l \in Legs, RollbackStep(l)
    PROVE  IInv'
<1> USE EntryAssumption
<1>0. TypeOK /\ \A m \in Legs : LegInv(m)
  BY DEF IInv
<1>1. RollbackAt(l)
  BY DEF RollbackStep, RollbackClose, RollbackCloseFails, RollbackCancel, RollbackSkip
<1>2. ~success /\ pc' = pc /\ fill' = fill /\ last' = last /\ success' = success
      /\ phase = "rollback" /\ phase' \in {"rollback", "done"} /\ rb' \in 1..(NLegs + 1)
  BY <1>0, <1>1 DEF RollbackAt, LegInv, PhaseInv, TypeOK, Legs
<1>3. ASSUME NEW m \in Legs, order' = order, closed' = closed
      PROVE  LegInv(m)'
  BY <1>0, <1>2, <1>3 DEF LegInv, SnapshotInv, OrderInv, PhaseInv, Bought, IsComplete, TypeOK
<1>4. CASE RollbackClose(l)
  <2>1. PICK c \in 0..Lots :
          /\ c <= Position(l)
          /\ closed' = [closed EXCEPT ![l] = @ + c]
    BY <1>4 DEF RollbackClose
  <2>2. TypeOK'
    BY <1>0, <1>2, <1>4, <2>1 DEF RollbackClose, TypeOK
  <2>3. ASSUME NEW m \in Legs PROVE LegInv(m)'
    BY <1>0, <1>2, <1>4, <2>1, <2>3
    DEF RollbackClose, LegInv, SnapshotInv, OrderInv, PhaseInv, Bought, Position, IsComplete,
        TypeOK, Order, Kinds
  <2> QED
    BY <2>2, <2>3 DEF IInv
<1>5. CASE RollbackCloseFails(l)
  <2>1. TypeOK'
    BY <1>0, <1>2, <1>5 DEF RollbackCloseFails, TypeOK
  <2> QED
    BY <1>3, <1>5, <2>1 DEF IInv, RollbackCloseFails
<1>6. CASE RollbackCancel(l)
  <2>1. TypeOK'
    <3>1. order' \in [Legs -> [Kinds -> Order]]
      BY <1>0, <1>6, CancelledTyped DEF RollbackCancel, TypeOK
    <3> QED
      BY <1>0, <1>2, <1>6, <3>1 DEF RollbackCancel, TypeOK
  <2>2. ASSUME NEW m \in Legs PROVE LegInv(m)'
    <3>2. ASSUME NEW k \in Kinds
          PROVE  /\ order'[m][k].filled = order[m][k].filled
                 /\ order'[m][k].state # order[m][k].state
                      => order[m][k].state = "open" /\ order'[m][k].state = "cancelled"
      <4>1. order[m] \in [Kinds -> Order] /\ order[m][k] \in Order
        BY <1>0 DEF TypeOK
      <4>2. order'[m][k] = order[m][k] \/ order'[m][k] = Cancelled(order[m][k])
        BY <1>0, <1>6, <4>1 DEF RollbackCancel, TypeOK
      <4> QED
        BY <4>1, <4>2 DEF Cancelled, Order
    <3>3. closed' = closed
      BY <1>6 DEF RollbackCancel
    <3>4. "maker" \in Kinds /\ "ioc" \in Kinds
      BY DEF Kinds
    <3> QED
      BY <1>0, <1>2, <3>2, <3>3, <3>4
      DEF LegInv, SnapshotInv, OrderInv, PhaseInv, Bought, IsComplete
  <2> QED
    BY <2>1, <2>2 DEF IInv
<1>7. CASE RollbackSkip(l)
  <2>1. TypeOK'
    BY <1>0, <1>2, <1>7 DEF RollbackSkip, TypeOK
  <2> QED
    BY <1>3, <1>7, <2>1 DEF IInv, RollbackSkip
<1> QED
  BY <1>4, <1>5, <1>6, <1>7 DEF RollbackStep

\* Matching adds to what an order has filled, neither creates nor forgets an order,
\* and never leaves an IOC order working with lots filled.
OrderGrows(m) ==
    /\ \A k \in Kinds :
        /\ order'[m][k].filled >= order[m][k].filled
        /\ (order'[m][k].state = "absent") <=> (order[m][k].state = "absent")
        /\ order'[m][k].state = "absent" => order'[m][k].filled = order[m][k].filled
    /\ order'[m]["ioc"].state = "open" => order'[m]["ioc"] = order[m]["ioc"]

\* It is enough that every order is left alone, or was working, still exists, has
\* filled no less, and is not an IOC order that still works.
LEMMA GrowsByOne ==
    ASSUME TypeOK, order' \in [Legs -> [Kinds -> Order]],
           \A m \in Legs, k \in Kinds :
              \/ order'[m][k] = order[m][k]
              \/ /\ order[m][k].state = "open" /\ order'[m][k].state # "absent"
                 /\ order'[m][k].filled >= order[m][k].filled
                 /\ k = "maker" \/ order'[m][k].state # "open"
    PROVE  \A m \in Legs : OrderGrows(m)
<1> TAKE m \in Legs
<1>1. "ioc" \in Kinds /\ "maker" # "ioc"
  BY DEF Kinds
<1>2. ASSUME NEW k \in Kinds
      PROVE  /\ order'[m][k].filled >= order[m][k].filled
             /\ order'[m][k].state = "absent" <=> order[m][k].state = "absent"
             /\ order'[m][k].state = "absent" => order'[m][k].filled = order[m][k].filled
             /\ k = "ioc" => (order'[m][k].state = "open" => order'[m][k] = order[m][k])
  <2>1. order[m] \in [Kinds -> Order] /\ order[m][k] \in Order
    BY DEF TypeOK
  <2>2. order[m][k].filled >= order[m][k].filled
    BY <2>1, EntryAssumption DEF Order
  <2> QED
    BY <2>2
<1> QED
  BY <1>1, <1>2 DEF OrderGrows

\* A step of the exchange changes the orders and nothing else, and only adds to them.
LEMMA ExchangeGrows ==
    ASSUME IInv, NEW l \in Legs, Exchange(l)
    PROVE  /\ closed' = closed /\ pc' = pc /\ fill' = fill /\ last' = last /\ phase' = phase
           /\ rb' = rb /\ success' = success /\ raised' = raised /\ unclosed' = unclosed
           /\ order' \in [Legs -> [Kinds -> Order]]
           /\ \A m \in Legs : OrderGrows(m)
<1> USE EntryAssumption
<1>0. TypeOK /\ \A m \in Legs : LegInv(m)
  BY DEF IInv
<1>1. /\ closed' = closed /\ pc' = pc /\ fill' = fill /\ last' = last /\ phase' = phase
      /\ rb' = rb /\ success' = success /\ raised' = raised /\ unclosed' = unclosed
  BY DEF Exchange, MakerFills, MakerKilled, IocMatches
<1>2. /\ order' \in [Legs -> [Kinds -> Order]]
      /\ \A m \in Legs : OrderGrows(m)
  <2>1. CASE MakerFills(l)
    <3>1. PICK q \in 1..Lots, s \in FilledAs :
            /\ q > order[l]["maker"].filled
            /\ order' = [order EXCEPT ![l]["maker"] =
                           [state |-> IF q = Lots THEN s ELSE "open", filled |-> q]]
      BY <2>1 DEF MakerFills
    <3>2. order[l]["maker"].state = "open"
      BY <2>1 DEF MakerFills
    <3>3. order' \in [Legs -> [Kinds -> Order]]
      BY <1>0, <3>1, <3>2 DEF FilledAs, TypeOK, Order, OrderState, Kinds
    <3>4. ASSUME NEW m \in Legs, NEW k \in Kinds
          PROVE  \/ order'[m][k] = order[m][k]
                 \/ /\ k = "maker" /\ order[m][k].state = "open" /\ order'[m][k].state # "absent"
                    /\ order'[m][k].filled >= order[m][k].filled
      BY <1>0, <3>1, <3>2 DEF FilledAs, TypeOK, Order, Kinds
    <3> QED
      BY <1>0, <3>3, <3>4, GrowsByOne
  <2>2. CASE MakerKilled(l)
    <3>1. order' \in [Legs -> [Kinds -> Order]]
      BY <1>0, <2>2 DEF MakerKilled, TypeOK, Order, OrderState, Kinds
    <3>2. ASSUME NEW m \in Legs, NEW k \in Kinds
          PROVE  \/ order'[m][k] = order[m][k]
                 \/ /\ k = "maker" /\ order[m][k].state = "open" /\ order'[m][k].state # "absent"
                    /\ order'[m][k].filled >= order[m][k].filled
      BY <1>0, <2>2 DEF MakerKilled, TypeOK, Order, Kinds
    <3> QED
      BY <1>0, <3>1, <3>2, GrowsByOne
  <2>3. CASE IocMatches(l)
    <3>1. PICK q \in 0..Lots, s \in FilledAs :
            order' = [order EXCEPT ![l]["ioc"] =
                        [state |-> IF q = Lots THEN s ELSE "cancelled", filled |-> q]]
      BY <2>3 DEF IocMatches
    <3>2. order[l]["ioc"].state = "open" /\ order[l]["ioc"].filled = 0
      BY <1>0, <2>3 DEF IocMatches, LegInv, OrderInv
    <3>3. order' \in [Legs -> [Kinds -> Order]]
      BY <1>0, <3>1 DEF FilledAs, TypeOK, Order, OrderState, Kinds
    <3>4. ASSUME NEW m \in Legs, NEW k \in Kinds
          PROVE  \/ order'[m][k] = order[m][k]
                 \/ /\ order[m][k].state = "open" /\ order'[m][k].state \notin {"absent", "open"}
                    /\ order'[m][k].filled >= order[m][k].filled
      BY <1>0, <3>1, <3>2 DEF FilledAs, TypeOK, Order, Kinds
    <3> QED
      BY <1>0, <3>3, <3>4, GrowsByOne
  <2> QED
    BY <2>1, <2>2, <2>3 DEF Exchange
<1> QED
  BY <1>1, <1>2

\* More filled lots are more lots bought.
LEMMA BoughtGrows ==
    ASSUME TypeOK, NEW m \in Legs, OrderGrows(m), order' \in [Legs -> [Kinds -> Order]]
    PROVE  Bought(m)' >= Bought(m) /\ Bought(m)' \in Int /\ Bought(m) \in Int
<1> USE EntryAssumption
<1>1. ASSUME NEW k \in Kinds
      PROVE  /\ order'[m][k].filled >= order[m][k].filled
             /\ order'[m][k].filled \in Int /\ order[m][k].filled \in Int
  <2>1. order[m] \in [Kinds -> Order] /\ order'[m] \in [Kinds -> Order]
    BY DEF TypeOK
  <2>2. order[m][k] \in Order /\ order'[m][k] \in Order
    BY <2>1
  <2> QED
    BY <2>2 DEF OrderGrows, Order
<1> QED
  BY <1>1 DEF Bought, Kinds

\* The exchange only adds to what an order has filled, so it preserves the invariant.
LEMMA ExchangePreserves ==
    ASSUME IInv, NEW l \in Legs, Exchange(l)
    PROVE  IInv'
<1> USE EntryAssumption
<1>0. TypeOK /\ \A m \in Legs : LegInv(m)
  BY DEF IInv
<1>1. /\ closed' = closed /\ pc' = pc /\ fill' = fill /\ last' = last /\ phase' = phase
      /\ rb' = rb /\ success' = success /\ raised' = raised /\ unclosed' = unclosed
  BY ExchangeGrows
<1>2. order' \in [Legs -> [Kinds -> Order]] /\ \A m \in Legs : OrderGrows(m)
  BY ExchangeGrows
<1>3. TypeOK'
  BY <1>0, <1>1, <1>2 DEF TypeOK
<1>4. ASSUME NEW m \in Legs PROVE LegInv(m)'
  <2>1. OrderGrows(m) /\ LegInv(m) /\ fill[m] \in LegFill /\ last[m] \in LegFill
    BY <1>0, <1>2 DEF TypeOK
  <2>2. SnapshotInv(m, fill[m])' /\ SnapshotInv(m, last[m])'
    <3>1. ASSUME NEW f \in LegFill, SnapshotInv(m, f) PROVE SnapshotInv(m, f)'
      <4>1. CASE f.coid \in Kinds
        <5>1. /\ order'[m][f.coid].filled >= order[m][f.coid].filled
              /\ order'[m][f.coid].filled \in Int /\ order[m][f.coid].filled \in Int
              /\ f.qty \in Int
          <6>1. /\ order[m] \in [Kinds -> Order] /\ order'[m] \in [Kinds -> Order]
                /\ order[m][f.coid] \in Order /\ order'[m][f.coid] \in Order
            BY <1>0, <1>2, <4>1 DEF TypeOK
          <6> QED
            BY <2>1, <4>1, <6>1 DEF OrderGrows, Order, LegFill
        <5> QED
          BY <3>1, <4>1, <5>1 DEF SnapshotInv
      <4> QED
        BY <3>1, <4>1 DEF SnapshotInv
    <3> QED
      BY <1>1, <2>1, <3>1 DEF LegInv, SnapshotInv
  <2>3. OrderInv(m)'
    <3>1. "maker" \in Kinds /\ "ioc" \in Kinds
      BY DEF Kinds
    <3> QED
      <4>1. /\ \A k \in Kinds : order[m][k].state = "absent" => order[m][k].filled = 0
            /\ \A k \in Kinds : order'[m][k].state = "absent" <=> order[m][k].state = "absent"
            /\ \A k \in Kinds : order'[m][k].state = "absent" => order'[m][k].filled = order[m][k].filled
            /\ order'[m]["ioc"].state = "open" => order'[m]["ioc"] = order[m]["ioc"]
            /\ pc'[m] = pc[m]
        BY <1>1, <2>1 DEF OrderGrows, LegInv, OrderInv
      <4> QED
        BY <2>1, <3>1, <4>1 DEF LegInv, OrderInv
  <2>4. PhaseInv(m)'
    <3>2. Bought(m)' >= Bought(m) /\ Bought(m)' \in Int /\ Bought(m) \in Int /\ closed[m] \in Nat
      BY <1>0, <1>2, BoughtGrows DEF TypeOK
    <3> QED
      BY <1>1, <2>1, <3>2 DEF LegInv, PhaseInv, IsComplete
  <2> QED
    BY <2>2, <2>3, <2>4 DEF LegInv
<1> QED
  BY <1>3, <1>4 DEF IInv

\* Deciding the outcome preserves the invariant: success means complete fills.
LEMMA JoinPreserves ==
    ASSUME IInv, JoinLegs
    PROVE  IInv'
<1>0. TypeOK /\ \A m \in Legs : LegInv(m)
  BY DEF IInv
<1>1. TypeOK'
  BY <1>0 DEF JoinLegs, TypeOK
<1>2. ASSUME NEW m \in Legs PROVE LegInv(m)'
  BY <1>0, <1>2
  DEF JoinLegs, LegInv, SnapshotInv, OrderInv, PhaseInv, Bought, IsComplete, TypeOK
<1> QED
  BY <1>1, <1>2 DEF IInv

\* The strengthened invariant holds in every reachable state of submit_entry.
THEOREM InductiveInvariant == Spec => []IInv
<1>1. IInv /\ [Next]_vars => IInv'
  <2> SUFFICES ASSUME IInv, [Next]_vars PROVE IInv'
    OBVIOUS
  <2>1. ASSUME NEW l \in Legs, LegStep(l) \/ RollbackStep(l) \/ Exchange(l) PROVE IInv'
    BY <2>1, LegStepPreserves, RollbackPreserves, ExchangePreserves
  <2>2. CASE JoinLegs
    BY <2>2, JoinPreserves
  <2>3. CASE UNCHANGED vars
    BY <2>3 DEF vars, IInv, TypeOK, LegInv, SnapshotInv, OrderInv, PhaseInv, Bought, IsComplete
  <2> QED
    BY <2>1, <2>2, <2>3 DEF Next
<1> QED
  BY <1>1, InitEstablishes, PTL DEF Spec

\* Every variable of the entry keeps its type: polls, fills, rollback actions.
THEOREM TypeCorrect == Spec => []TypeOK
<1>1. IInv => TypeOK
  BY DEF IInv
<1> QED
  BY <1>1, InductiveInvariant, PTL

\* A complete LegFill was made from an order that has filled the lots.
LEMMA FilledFromInv == IInv => SuccessIsFilled
<1> SUFFICES ASSUME IInv, success, NEW l \in Legs PROVE Position(l) >= Lots
  BY DEF SuccessIsFilled
<1>1. closed[l] = 0 /\ IsComplete(fill[l]) /\ SnapshotInv(l, fill[l]) /\ TypeOK
  BY DEF IInv, LegInv, PhaseInv
<1>2. fill[l].coid \in Kinds /\ order[l][fill[l].coid].filled >= Lots
  BY <1>1, EntryAssumption DEF IsComplete, SnapshotInv, TypeOK, LegFill, Order
<1>3. order[l]["maker"].filled \in Nat /\ order[l]["ioc"].filled \in Nat
  BY <1>1, EntryAssumption DEF TypeOK, Order, Kinds
<1> QED
  BY <1>1, <1>2, <1>3, EntryAssumption DEF Position, Bought, Kinds

\* Two orders of the full size are at most twice the lots.
LEMMA BoundFromInv == IInv => ExposureBound
<1> SUFFICES ASSUME IInv, NEW l \in Legs
             PROVE  0 <= Position(l) /\ Position(l) <= 2 * Lots
  BY DEF ExposureBound
<1>1. TypeOK /\ closed[l] <= Bought(l)
  BY DEF IInv, LegInv, PhaseInv
<1>2. order[l]["maker"].filled \in 0..Lots /\ order[l]["ioc"].filled \in 0..Lots
      /\ closed[l] \in Nat
  BY <1>1 DEF TypeOK, Order, Kinds
<1> QED
  BY <1>1, <1>2, EntryAssumption DEF Position, Bought

\* An entry that submit_entry reports as successful holds at least the requested
\* lots in every leg, for any number of legs and lots and any behaviour of the
\* exchange and of the REST transport.
THEOREM SuccessMeansFilled == Spec => []SuccessIsFilled
  BY FilledFromInv, InductiveInvariant, PTL

\* No leg ever holds less than nothing or more than twice the requested lots,
\* whatever late fills, lost replies and retries do.
THEOREM ExposureIsBounded == Spec => []ExposureBound
  BY BoundFromInv, InductiveInvariant, PTL

-----------------------------------------------------------------------------
(* LiveExecutor.submit_entry implements EntryContract. *)

\* The invariant bounds the holdings.
LEMMA HoldingTyped == IInv => Holding \in Contract!Holdings /\ ExposureBound /\ SuccessIsFilled
<1> SUFFICES ASSUME IInv PROVE Holding \in Contract!Holdings /\ ExposureBound /\ SuccessIsFilled
  OBVIOUS
<1>1. ExposureBound /\ SuccessIsFilled
  BY BoundFromInv, FilledFromInv
<1>2. ASSUME NEW l \in Legs PROVE Position(l) \in 0..(2 * Lots)
  <2>1. Position(l) \in Int
    <3>1. order[l]["maker"].filled \in Int /\ order[l]["ioc"].filled \in Int /\ closed[l] \in Int
      BY EntryAssumption DEF IInv, TypeOK, Order, Kinds
    <3> QED
      BY <3>1 DEF Position, Bought
  <2> QED
    BY <1>1, <2>1, EntryAssumption DEF ExposureBound
<1>3. Holding \in Contract!Holdings
  BY <1>2 DEF Holding, Contract!Holdings, Contract!Legs, Legs
<1> QED
  BY <1>1, <1>3

\* Once submit_entry has returned, the only steps left are the exchange's.
LEMMA AfterReturn ==
    ASSUME IInv, [Next]_vars, phase = "done"
    PROVE  /\ phase' = "done" /\ success' = success
           /\ \A m \in Legs : Position(m)' >= Position(m)
<1>1. ASSUME NEW l \in Legs, LegStep(l) PROVE FALSE
  <2>1. pc[l] = "returned"
    BY DEF IInv, LegInv, PhaseInv
  <2> QED
    BY <1>1, <2>1 DEF LegStep, MissingQuote, PlaceMaker, PlaceIoc, Reply, Poll, Timeout, Waiting,
       CancelOpenOrder, CancelFails, LegRaises
<1>2. ASSUME NEW l \in Legs, RollbackStep(l) PROVE FALSE
  BY <1>2 DEF RollbackStep, RollbackClose, RollbackCloseFails, RollbackCancel, RollbackSkip, RollbackAt
<1>3. ~JoinLegs
  BY DEF JoinLegs
<1>4. ASSUME NEW m \in Legs PROVE Position(m) \in Int
  <2>1. order[m]["maker"].filled \in Int /\ order[m]["ioc"].filled \in Int /\ closed[m] \in Int
    BY EntryAssumption DEF IInv, TypeOK, Order, Kinds
  <2> QED
    BY <2>1 DEF Position, Bought
<1>5. CASE UNCHANGED vars
  BY <1>4, <1>5 DEF vars, Position, Bought
<1>6. ASSUME NEW l \in Legs, Exchange(l)
      PROVE  /\ phase' = "done" /\ success' = success
             /\ \A m \in Legs : Position(m)' >= Position(m)
  <2>1. /\ closed' = closed /\ phase' = phase /\ success' = success
        /\ order' \in [Legs -> [Kinds -> Order]] /\ \A m \in Legs : OrderGrows(m)
    BY <1>6, ExchangeGrows
  <2>2. ASSUME NEW m \in Legs PROVE Position(m)' >= Position(m)
    <3>1. Bought(m)' >= Bought(m) /\ Bought(m)' \in Int /\ Bought(m) \in Int
      BY <2>1, BoughtGrows DEF IInv
    <3>2. closed'[m] = closed[m] /\ closed[m] \in Int
      BY <2>1 DEF IInv, TypeOK
    <3> QED
      BY <3>1, <3>2 DEF Position
  <2> QED
    BY <2>1, <2>2
<1> QED
  BY <1>1, <1>2, <1>3, <1>5, <1>6 DEF Next

\* Every step of submit_entry is a step of the contract, or changes nothing it shows.
LEMMA StepRefines ==
    IInv /\ IInv' /\ [Next]_vars => [Contract!Next]_<<Holding, Outcome>>
<1> SUFFICES ASSUME IInv, IInv', [Next]_vars
             PROVE  [Contract!Next]_<<Holding, Outcome>>
  OBVIOUS
<1>0. (Holding \in Contract!Holdings /\ ExposureBound /\ SuccessIsFilled)'
  BY HoldingTyped, PTL
<1>1. Holding' \in Contract!Holdings /\ SuccessIsFilled'
  BY <1>0 DEF Contract!Holdings, Contract!Legs
<1>2. CASE phase # "done" /\ phase' # "done"
  <2>1. Contract!Work
    BY <1>1, <1>2 DEF Contract!Work, Outcome, Done
  <2> QED
    BY <2>1 DEF Contract!Next
<1>3. CASE phase # "done" /\ phase' = "done" /\ ~success'
  <2>1. Contract!Fail
    BY <1>1, <1>3 DEF Contract!Fail, Outcome, Done
  <2> QED
    BY <2>1 DEF Contract!Next
<1>4. CASE phase # "done" /\ phase' = "done" /\ success'
  <2>1. ~success
    BY <1>4, EntryAssumption DEF IInv, LegInv, PhaseInv, Legs
  <2>2. ASSUME NEW l \in Legs, LegStep(l) \/ RollbackStep(l) \/ Exchange(l) PROVE success' = success
    BY <2>2 DEF LegStep, RollbackStep, Exchange, MissingQuote, PlaceMaker, PlaceIoc, Reply, Poll,
       Timeout, CancelOpenOrder, CancelFails, LegRaises, RollbackClose, RollbackCloseFails,
       RollbackCancel, RollbackSkip, RollbackAt, MakerFills, MakerKilled, IocMatches
  <2>3. JoinLegs
    BY <1>4, <2>1, <2>2 DEF Next, vars
  <2>4. Holding' = Holding
    BY <2>3 DEF JoinLegs, Holding, Position, Bought
  <2>5. \A l \in Legs : Holding[l] >= Lots
    BY <1>1, <1>4, <2>4 DEF SuccessIsFilled, Holding
  <2>6. Contract!Succeed
    BY <1>4, <2>4, <2>5 DEF Contract!Succeed, Contract!Legs, Legs, Outcome, Done
  <2> QED
    BY <2>6 DEF Contract!Next
<1>5. CASE phase = "done"
  <2>1. phase' = "done" /\ success' = success /\ \A m \in Legs : Position(m)' >= Position(m)
    BY <1>5, AfterReturn
  <2>2. \A m \in Legs : Holding'[m] >= Holding[m]
    BY <2>1 DEF Holding
  <2>3. Contract!LateFill
    BY <1>1, <1>5, <2>1, <2>2 DEF Contract!LateFill, Contract!Legs, Legs, Outcome, Done
  <2> QED
    BY <2>3 DEF Contract!Next
<1> QED
  BY <1>2, <1>3, <1>4, <1>5

\* LiveExecutor.submit_entry implements the contract of ExecutionRouter.submit_entry
\* for any number of legs and lots.
THEOREM ContractIsImplemented == Spec => ImplementsContract
<1>1. Init => Contract!Init
  BY EntryAssumption DEF Init, Contract!Init, Holding, Outcome, Done, Position, Bought, Legs,
     Contract!Legs, Kinds
<1> QED
  BY <1>1, StepRefines, InductiveInvariant, PTL DEF Spec, ImplementsContract, Contract!Spec

-----------------------------------------------------------------------------
(* What is left when submit_entry has returned.  That needs a second       *)
(* invariant on top of IInv: which orders may still work at which point of *)
(* a task none of whose calls raised, how far the LegFill it returns can   *)
(* be trusted, and what _rollback has done for the legs it has passed.     *)

\* A LegFill made from the IOC order is final, or shows an order that had matched
\* nothing yet.
Reported(l, f) ==
    /\ f.state = "open" => f.qty = 0
    /\ f.state # "open" => f = Shown(l, "ioc")

\* A poll remembers only what the order it waits for showed while it worked.
LastInv(l) ==
    \/ last[l] = NoFill
    \/ pc[l] = "maker_wait" /\ last[l].coid = "maker" /\ last[l].state = "open"
    \/ pc[l] = "ioc_wait" /\ last[l].coid = "ioc" /\ last[l].state = "open" /\ last[l].qty = 0

\* The maker order works only until its cancel; a task returns a missing quote, a
\* maker order filled in full, or what it saw of the IOC order.
FillInv(l) ==
    /\ order[l]["maker"].state = "open" => pc[l] \in {"maker_reply", "maker_wait", "cancel"}
    /\ pc[l] = "ioc_wait" => fill[l].coid = "ioc" /\ Reported(l, fill[l])
    /\ pc[l] = "returned" =>
        \/ fill[l] = Rejected("missing_quote") /\ \A k \in Kinds : order[l][k].state = "absent"
        \/ fill[l] = Shown(l, "maker") /\ IsComplete(fill[l]) /\ order[l]["ioc"].state = "absent"
        \/ fill[l].coid = "ioc" /\ Reported(l, fill[l])

\* _rollback has passed the leg.
RolledBack(l) == phase # "legs" /\ ~success /\ l < rb

\* _rollback leaves no leg out, closes what the LegFill reports and nothing else,
\* and cancels an IOC order that may still work.
RollbackInv(l) ==
    /\ phase = "legs" => rb = 1
    /\ phase = "done" => success \/ rb = NLegs + 1
    /\ ~RolledBack(l) => closed[l] = 0
    /\ RolledBack(l) /\ l \notin raised => order[l]["ioc"].state # "open"
    /\ RolledBack(l) /\ l \notin raised \union unclosed => closed[l] = fill[l].qty

LegWork(l) == LastInv(l) /\ (l \notin raised => FillInv(l)) /\ RollbackInv(l)

WorkInv == \A l \in Legs : LegWork(l)

\* Initially no task has done anything.
LEMMA InitWork == Init => WorkInv
<1> SUFFICES ASSUME Init, NEW l \in Legs PROVE LegWork(l)
  BY DEF WorkInv
<1>1. LastInv(l)
  BY DEF Init, LastInv
<1>2. FillInv(l)
  BY DEF Init, FillInv, Kinds
<1>3. RollbackInv(l)
  BY EntryAssumption DEF Init, RollbackInv, RolledBack, Legs
<1> QED
  BY <1>1, <1>2, <1>3 DEF LegWork

\* A step of a leg's task is taken before the gather ends, and leaves the other legs
\* and the rollback's state alone.
LEMMA LegStepFrame ==
    ASSUME IInv, NEW l \in Legs, LegStep(l)
    PROVE  /\ phase = "legs" /\ phase' = phase /\ rb' = rb /\ success' = success
           /\ closed' = closed /\ unclosed' = unclosed /\ raised \subseteq raised'
           /\ \A m \in Legs \ {l} : /\ order'[m] = order[m] /\ pc'[m] = pc[m]
                                    /\ fill'[m] = fill[m] /\ last'[m] = last[m]
                                    /\ m \in raised' => m \in raised
<1>0. TypeOK /\ PhaseInv(l)
  BY DEF IInv, LegInv
<1>1. pc[l] # "returned"
  BY DEF LegStep, MissingQuote, PlaceMaker, PlaceIoc, Reply, Poll, Timeout, Waiting,
     CancelOpenOrder, CancelFails, LegRaises
<1>2. phase = "legs"
  BY <1>0, <1>1 DEF PhaseInv
<1>3. phase' = phase /\ rb' = rb /\ success' = success /\ closed' = closed /\ unclosed' = unclosed
  BY DEF LegStep, MissingQuote, PlaceMaker, PlaceIoc, Reply, Poll, Timeout,
     CancelOpenOrder, CancelFails, LegRaises
<1>4. raised' = raised \/ raised' = raised \union {l}
  BY DEF LegStep, MissingQuote, PlaceMaker, PlaceIoc, Reply, Poll, Timeout,
     CancelOpenOrder, CancelFails, LegRaises
<1>5. ASSUME NEW m \in Legs \ {l}
      PROVE  order'[m] = order[m] /\ pc'[m] = pc[m] /\ fill'[m] = fill[m] /\ last'[m] = last[m]
  <2>1. order'[m] = order[m] /\ pc'[m] = pc[m]
    BY <1>0, <1>5 DEF LegStep, MissingQuote, PlaceMaker, PlaceIoc, Reply, Poll, Timeout, WaitEnds,
       CancelOpenOrder, CancelFails, LegRaises, Return, Goto, Accept, TypeOK
  <2>2. fill'[m] = fill[m] /\ last'[m] = last[m]
    BY <1>0, <1>5 DEF LegStep, MissingQuote, PlaceMaker, PlaceIoc, Reply, Poll, Timeout, WaitEnds,
       CancelOpenOrder, CancelFails, LegRaises, Return, Goto, TypeOK
  <2> QED
    BY <2>1, <2>2
<1> QED
  BY <1>2, <1>3, <1>4, <1>5

\* A leg whose state, phase and rollback position a step leaves alone keeps its part
\* of the invariant.
LEMMA OtherWork ==
    ASSUME NEW m \in Legs, LegWork(m), order'[m] = order[m], pc'[m] = pc[m],
           fill'[m] = fill[m], last'[m] = last[m], closed'[m] = closed[m],
           phase' = phase, rb' = rb, success' = success,
           m \in raised => m \in raised', m \in unclosed => m \in unclosed'
    PROVE  LegWork(m)'
<1>1. LastInv(m)'
  BY DEF LegWork, LastInv
<1>2. m \notin raised' => FillInv(m)'
  BY DEF LegWork, FillInv, Reported, Shown, IsComplete
<1>3. RollbackInv(m)'
  BY DEF LegWork, RollbackInv, RolledBack
<1> QED
  BY <1>1, <1>2, <1>3 DEF LegWork

\* The polls and replies of a leg's task keep `last` to what the task waits for.
LEMMA LastPreserved ==
    ASSUME IInv, NEW l \in Legs, LegWork(l), LegStep(l)
    PROVE  LastInv(l)'
<1> USE EntryAssumption
<1>0. TypeOK /\ OrderInv(l) /\ LastInv(l)
  BY DEF IInv, LegInv, LegWork
<1>1. CASE MissingQuote(l) \/ PlaceMaker(l) \/ PlaceIoc(l) \/ CancelOpenOrder(l) \/ CancelFails(l)
  <2>1. last' = last /\ pc[l] \notin {"maker_wait", "ioc_wait"}
    BY <1>1 DEF MissingQuote, PlaceMaker, PlaceIoc, CancelOpenOrder, CancelFails
  <2> QED
    BY <1>0, <2>1 DEF LastInv
<1>2. CASE LegRaises(l)
  BY <1>0, <1>2 DEF LegRaises, LastInv, TypeOK
<1>3. ASSUME NEW k \in Kinds, Reply(l, k) PROVE LastInv(l)'
  BY <1>0, <1>3 DEF Reply, LastInv, TypeOK
<1>4. ASSUME NEW k \in Kinds, Timeout(l, k) PROVE LastInv(l)'
  BY <1>0, <1>4 DEF Timeout, WaitEnds, LastInv, TypeOK
<1>5. ASSUME NEW k \in Kinds, Poll(l, k) PROVE LastInv(l)'
  <2>1. CASE last' = [last EXCEPT ![l] = NoFill]
    BY <1>0, <2>1 DEF LastInv, TypeOK
  <2>2. CASE ~Terminal(Shown(l, k)) /\ last' = [last EXCEPT ![l] = Shown(l, k)] /\ UNCHANGED <<fill, pc>>
    <3>1. order[l] \in [Kinds -> Order] /\ order[l][k] \in Order
      BY <1>0 DEF TypeOK
    <3>2. order[l][k].state # "absent" /\ pc[l] = IF k = "maker" THEN "maker_wait" ELSE "ioc_wait"
      BY <1>0, <1>5 DEF Poll, Waiting, OrderInv, Kinds
    <3>3. order[l][k].state = "open"
      BY <2>2, <3>1, <3>2 DEF Terminal, Shown, Order, OrderState
    <3>4. k = "ioc" => order[l][k].filled = 0
      BY <1>0, <3>3 DEF OrderInv
    <3>5. last'[l] = Shown(l, k) /\ pc'[l] = pc[l]
      BY <1>0, <2>2 DEF TypeOK
    <3> QED
      BY <3>2, <3>3, <3>4, <3>5 DEF LastInv, Shown, Kinds
  <2>3. CASE WaitEnds(l, k, Shown(l, k))
    BY <1>0, <2>3 DEF WaitEnds, LastInv, TypeOK
  <2> QED
    BY <1>5, <2>1, <2>2, <2>3 DEF Poll
<1> QED
  BY <1>1, <1>2, <1>3, <1>4, <1>5 DEF LegStep

\* A task none of whose calls has raised keeps the maker order working only up to its
\* cancel and returns a LegFill that can be trusted.
LEMMA FillPreserved ==
    ASSUME IInv, NEW l \in Legs, LegWork(l), LegStep(l), l \notin raised'
    PROVE  FillInv(l)'
<1> USE EntryAssumption
<1>0. TypeOK /\ OrderInv(l) /\ LastInv(l) /\ FillInv(l)
  BY LegStepFrame DEF IInv, LegInv, LegWork
<1>1. /\ order[l] \in [Kinds -> Order] /\ fill[l] \in LegFill /\ last[l] \in LegFill
      /\ order[l]["maker"] \in Order /\ order[l]["ioc"] \in Order
  BY <1>0 DEF TypeOK, Kinds
<1>2. CASE MissingQuote(l)
  <2>1. order'[l] = order[l] /\ pc'[l] = "returned" /\ fill'[l] = Rejected("missing_quote")
    BY <1>0, <1>2 DEF MissingQuote, Return, Goto, TypeOK
  <2>2. \A k \in Kinds : order[l][k].state = "absent"
    BY <1>0, <1>2 DEF MissingQuote, OrderInv, Kinds
  <2> QED
    BY <2>1, <2>2 DEF FillInv, Rejected, Kinds
<1>3. CASE PlaceMaker(l)
  <2>1. pc'[l] = "maker_reply"
    BY <1>0, <1>3 DEF PlaceMaker, Goto, TypeOK
  <2> QED
    BY <2>1 DEF FillInv
<1>4. CASE PlaceIoc(l)
  <2>1. pc'[l] = "ioc_reply" /\ order'[l]["maker"] = order[l]["maker"] /\ pc[l] = "ioc"
    BY <1>0, <1>4 DEF PlaceIoc, Accept, Goto, TypeOK, Kinds
  <2> QED
    BY <1>0, <2>1 DEF FillInv
<1>5. ASSUME NEW k \in Kinds, Reply(l, k) PROVE FillInv(l)'
  <2>1. /\ order' = order /\ fill'[l] = Shown(l, k)
        /\ pc'[l] = IF IsComplete(Shown(l, k)) THEN "returned"
                    ELSE IF k = "maker" THEN "maker_wait" ELSE "ioc_wait"
    BY <1>0, <1>5 DEF Reply, Goto, TypeOK
  <2>2. CASE k = "maker"
    <3>1. order[l]["ioc"].state = "absent"
      BY <1>0, <1>5, <2>2 DEF Reply, OrderInv
    <3>2. IsComplete(Shown(l, k)) => order[l]["maker"].state # "open"
      BY <2>2 DEF IsComplete, Shown
    <3> QED
      BY <2>1, <2>2, <3>1, <3>2 DEF FillInv, Shown, IsComplete
  <2>3. CASE k = "ioc"
    <3>1. order[l]["maker"].state # "open"
      BY <1>0, <1>5, <2>3 DEF Reply, FillInv
    <3>2. order[l]["ioc"].state = "open" => order[l]["ioc"].filled = 0
      BY <1>0 DEF OrderInv
    <3>3. fill'[l].coid = "ioc" /\ Reported(l, fill[l])'
      BY <2>1, <2>3, <3>2 DEF Reported, Shown
    <3> QED
      BY <2>1, <3>1, <3>3 DEF FillInv
  <2> QED
    BY <2>2, <2>3 DEF Kinds
<1>6. ASSUME NEW k \in Kinds, Poll(l, k) PROVE FillInv(l)'
  <2>1. CASE UNCHANGED <<fill, pc>>
    BY <1>0, <1>6, <2>1 DEF Poll, FillInv, Reported, Shown, IsComplete
  <2>2. CASE Terminal(Shown(l, k)) /\ WaitEnds(l, k, Shown(l, k))
    <3>1. /\ order' = order /\ fill'[l] = Shown(l, k) /\ order[l][k].state # "open"
          /\ pc'[l] = IF k = "maker" /\ ~IsComplete(Shown(l, k)) THEN "cancel" ELSE "returned"
      BY <1>0, <1>6, <2>2 DEF Poll, WaitEnds, Goto, Terminal, Shown, NoFill, TypeOK, Kinds
    <3>2. CASE k = "maker"
      <4>1. order[l]["ioc"].state = "absent"
        BY <1>0, <1>6, <3>2 DEF Poll, Waiting, OrderInv
      <4> QED
        BY <3>1, <3>2, <4>1 DEF FillInv, Shown, IsComplete
    <3>3. CASE k = "ioc"
      <4>1. order[l]["maker"].state # "open"
        BY <1>0, <1>6, <3>3 DEF Poll, Waiting, FillInv
      <4>2. fill'[l].coid = "ioc" /\ Reported(l, fill[l])'
        BY <3>1, <3>3 DEF Reported, Shown
      <4> QED
        BY <3>1, <3>3, <4>1, <4>2 DEF FillInv
    <3> QED
      BY <3>2, <3>3 DEF Kinds
  <2> QED
    BY <1>6, <2>1, <2>2 DEF Poll
<1>7. ASSUME NEW k \in Kinds, Timeout(l, k) PROVE FillInv(l)'
  <2>1. /\ order' = order /\ fill'[l] = IF last[l] = NoFill THEN fill[l] ELSE last[l]
        /\ pc'[l] = IF k = "maker" /\ ~IsComplete(last[l]) THEN "cancel" ELSE "returned"
        /\ pc[l] = IF k = "maker" THEN "maker_wait" ELSE "ioc_wait"
    BY <1>0, <1>7 DEF Timeout, Waiting, WaitEnds, Goto, TypeOK
  <2>2. ~IsComplete(last[l])
    BY <1>0 DEF LastInv, IsComplete, NoFill
  <2>3. CASE k = "maker"
    BY <2>1, <2>2, <2>3 DEF FillInv
  <2>4. CASE k = "ioc"
    <3>1. order[l]["maker"].state # "open" /\ fill[l].coid = "ioc" /\ Reported(l, fill[l])
      BY <1>0, <2>1, <2>4 DEF FillInv
    <3>2. last[l] = NoFill \/ (last[l].coid = "ioc" /\ last[l].state = "open" /\ last[l].qty = 0)
      BY <1>0, <2>1, <2>4 DEF LastInv
    <3>3. fill'[l].coid = "ioc" /\ Reported(l, fill[l])'
      BY <2>1, <3>1, <3>2 DEF Reported, Shown
    <3> QED
      BY <2>1, <2>4, <3>1, <3>3 DEF FillInv
  <2> QED
    BY <2>3, <2>4 DEF Kinds
<1>8. CASE CancelOpenOrder(l)
  <2>1. pc'[l] = "ioc" /\ order'[l]["maker"] = Cancelled(order[l]["maker"])
    BY <1>0, <1>8 DEF CancelOpenOrder, Goto, TypeOK, Kinds
  <2>2. Cancelled(order[l]["maker"]).state # "open"
    BY <1>1 DEF Cancelled, Order
  <2> QED
    BY <2>1, <2>2 DEF FillInv
<1>9. ~CancelFails(l) /\ ~LegRaises(l)
  BY DEF CancelFails, LegRaises
<1> QED
  BY <1>2, <1>3, <1>4, <1>5, <1>6, <1>7, <1>8, <1>9 DEF LegStep

\* The steps of the tasks preserve the second invariant.
LEMMA LegStepWork ==
    ASSUME IInv, WorkInv, NEW l \in Legs, LegStep(l)
    PROVE  WorkInv'
<1> SUFFICES ASSUME NEW m \in Legs PROVE LegWork(m)'
  BY DEF WorkInv
<1>0. LegWork(l) /\ LegWork(m)
  BY DEF WorkInv
<1>1. CASE m # l
  BY <1>0, <1>1, LegStepFrame, OtherWork
<1>2. CASE m = l
  <2>1. LastInv(l)' /\ (l \notin raised' => FillInv(l)')
    BY <1>0, LastPreserved, FillPreserved
  <2>2. RollbackInv(l)'
    BY <1>0, LegStepFrame DEF LegWork, RollbackInv, RolledBack
  <2> QED
    BY <1>2, <2>1, <2>2 DEF LegWork
<1> QED
  BY <1>1, <1>2

\* The exchange changes only orders that work, and an order that works never came
\* from one that does not.
LEMMA ExchangeMovesOpen ==
    ASSUME TypeOK, NEW l \in Legs, Exchange(l), NEW m \in Legs, NEW k \in Kinds
    PROVE  order'[m][k] = order[m][k] \/ order[m][k].state = "open"
<1>1. CASE MakerFills(l)
  BY <1>1 DEF MakerFills, TypeOK, Kinds
<1>2. CASE MakerKilled(l)
  BY <1>2 DEF MakerKilled, TypeOK, Kinds
<1>3. CASE IocMatches(l)
  BY <1>3 DEF IocMatches, TypeOK, Kinds
<1> QED
  BY <1>1, <1>2, <1>3 DEF Exchange

\* Late fills preserve the second invariant: what a LegFill reports as over stays so.
LEMMA ExchangeWork ==
    ASSUME IInv, WorkInv, NEW l \in Legs, Exchange(l)
    PROVE  WorkInv'
<1> SUFFICES ASSUME NEW m \in Legs PROVE LegWork(m)'
  BY DEF WorkInv
<1>0. LegWork(m) /\ TypeOK
  BY DEF WorkInv, IInv
<1>1. /\ closed' = closed /\ pc' = pc /\ fill' = fill /\ last' = last /\ phase' = phase
      /\ rb' = rb /\ success' = success /\ raised' = raised /\ unclosed' = unclosed
  BY ExchangeGrows
<1>2. \A k \in Kinds : order'[m][k] = order[m][k] \/ order[m][k].state = "open"
  BY <1>0, ExchangeMovesOpen
<1>3. "maker" \in Kinds /\ "ioc" \in Kinds
  BY DEF Kinds
<1>4. LastInv(m)'
  BY <1>0, <1>1 DEF LegWork, LastInv
<1>5. ASSUME FillInv(m) PROVE FillInv(m)'
  <2>1. ASSUME Reported(m, fill[m]) PROVE Reported(m, fill[m])'
    BY <1>1, <1>2, <1>3, <2>1 DEF Reported, Shown
  <2>2. order'[m]["maker"].state = "open" => order[m]["maker"].state = "open"
    BY <1>2, <1>3
  <2>3. CASE pc[m] = "returned" /\ fill[m] = Rejected("missing_quote")
             /\ \A k \in Kinds : order[m][k].state = "absent"
    <3>1. \A k \in Kinds : order'[m][k].state = "absent"
      BY <1>2, <2>3
    <3> QED
      BY <1>1, <1>3, <2>3, <3>1 DEF FillInv, Rejected
  <2>4. CASE pc[m] = "returned" /\ fill[m] = Shown(m, "maker") /\ IsComplete(fill[m])
             /\ order[m]["ioc"].state = "absent"
    <3>1. order'[m]["maker"] = order[m]["maker"] /\ order'[m]["ioc"].state = "absent"
      BY <1>2, <1>3, <2>4 DEF Shown, IsComplete
    <3> QED
      BY <1>1, <1>5, <2>2, <2>4, <3>1 DEF FillInv, Shown, IsComplete
  <2>5. CASE pc[m] = "returned" /\ fill[m].coid = "ioc" /\ Reported(m, fill[m])
    BY <1>1, <1>5, <2>1, <2>2, <2>5 DEF FillInv
  <2>6. CASE pc[m] # "returned"
    BY <1>1, <1>5, <2>1, <2>2, <2>6 DEF FillInv
  <2> QED
    BY <1>5, <2>3, <2>4, <2>5, <2>6 DEF FillInv
<1>6. RollbackInv(m)'
  <2>1. order'[m]["ioc"].state = "open" => order[m]["ioc"].state = "open"
    BY <1>2, <1>3
  <2> QED
    BY <1>0, <1>1, <2>1 DEF LegWork, RollbackInv, RolledBack
<1> QED
  BY <1>0, <1>1, <1>4, <1>5, <1>6 DEF LegWork

\* Deciding the outcome: nothing has been rolled back yet.
LEMMA JoinWork ==
    ASSUME IInv, WorkInv, JoinLegs
    PROVE  WorkInv'
<1> SUFFICES ASSUME NEW m \in Legs PROVE LegWork(m)'
  BY DEF WorkInv
<1>0. LegWork(m)
  BY DEF WorkInv
<1>1. LastInv(m)' /\ (m \notin raised' => FillInv(m)')
  BY <1>0 DEF LegWork, JoinLegs, LastInv, FillInv, Reported, Shown, IsComplete
<1>2. RollbackInv(m)'
  BY <1>0, EntryAssumption DEF LegWork, JoinLegs, RollbackInv, RolledBack, Legs
<1> QED
  BY <1>1, <1>2 DEF LegWork

\* _rollback's pass over a leg: it closes what the LegFill reports, cancels an IOC
\* order it saw working, and has nothing to do for a missing quote.
LEMMA RollbackWork ==
    ASSUME IInv, WorkInv, NEW l \in Legs, RollbackStep(l)
    PROVE  WorkInv'
<1> USE EntryAssumption
<1>0. TypeOK /\ RollbackAt(l)
  BY DEF IInv, RollbackStep, RollbackClose, RollbackCloseFails, RollbackCancel, RollbackSkip
<1>1. /\ pc' = pc /\ fill' = fill /\ last' = last /\ success' = success /\ ~success
      /\ phase = "rollback" /\ phase' = (IF l = NLegs THEN "done" ELSE "rollback")
      /\ rb = l /\ rb' = l + 1
  BY <1>0 DEF RollbackAt, IInv, LegInv, PhaseInv, TypeOK, Legs
<1>2. raised \subseteq raised' /\ unclosed \subseteq unclosed'
  BY DEF RollbackStep, RollbackClose, RollbackCloseFails, RollbackCancel, RollbackSkip
<1>3. \A m \in Legs \ {l} :
        order'[m] = order[m] /\ closed'[m] = closed[m]
  BY <1>0 DEF RollbackStep, RollbackClose, RollbackCloseFails, RollbackCancel, RollbackSkip, TypeOK
<1>4. ASSUME NEW m \in Legs, m # l PROVE LegWork(m)'
  <2>1. LegWork(m) /\ order'[m] = order[m] /\ closed'[m] = closed[m]
    BY <1>3, <1>4 DEF WorkInv
  <2>2. LastInv(m)'
    BY <1>1, <2>1 DEF LegWork, LastInv
  <2>3. m \notin raised' => FillInv(m)'
    BY <1>1, <1>2, <2>1 DEF LegWork, FillInv, Reported, Shown, IsComplete
  <2>4. RolledBack(m)' <=> RolledBack(m)
    BY <1>1, <1>4 DEF RolledBack, Legs
  <2>5. RollbackInv(m)'
    BY <1>1, <1>2, <2>1, <2>4 DEF LegWork, RollbackInv
  <2> QED
    BY <2>2, <2>3, <2>5 DEF LegWork
<1>5. LegWork(l)'
  <2>0. LegWork(l) /\ pc[l] = "returned" /\ OrderInv(l) /\ SnapshotInv(l, fill[l]) /\ closed[l] = 0
    <3>1. LegWork(l) /\ LegInv(l)
      BY DEF WorkInv, IInv
    <3>2. ~RolledBack(l)
      BY <1>1 DEF RolledBack, Legs
    <3> QED
      BY <1>1, <3>1, <3>2 DEF LegInv, PhaseInv, LegWork, RollbackInv
  <2>1. LastInv(l)'
    BY <1>1, <2>0 DEF LegWork, LastInv
  <2>2. /\ order[l] \in [Kinds -> Order] /\ fill[l] \in LegFill /\ closed[l] \in Nat
        /\ order[l]["maker"] \in Order /\ order[l]["ioc"] \in Order
    BY <1>0 DEF TypeOK, Kinds
  <2>3. phase' # "legs" /\ (phase' = "done" => rb' = NLegs + 1) /\ RolledBack(l)'
    BY <1>1 DEF RolledBack, Legs
  <2>4. ASSUME l \notin raised', order'[l] = order[l] PROVE FillInv(l)'
    BY <1>1, <1>2, <2>0, <2>4 DEF LegWork, FillInv, Reported, Shown, IsComplete
  <2>5. ASSUME l \notin raised' PROVE FillInv(l)
    BY <1>2, <2>0, <2>5 DEF LegWork
  <2>6. CASE RollbackClose(l)
    <3>1. PICK c \in 0..Lots :
            /\ closed' = [closed EXCEPT ![l] = @ + c] /\ c <= fill[l].qty
            /\ unclosed' = IF c < fill[l].qty THEN unclosed \union {l} ELSE unclosed
      BY <2>6 DEF RollbackClose
    <3>2. order' = order /\ raised' = raised /\ fill[l].qty > 0
      BY <2>6 DEF RollbackClose
    <3>3. l \notin unclosed' => closed'[l] = fill[l].qty
      <4>1. closed'[l] = c
        BY <1>0, <2>0, <3>1 DEF TypeOK
      <4>2. fill[l].qty \in Int
        BY <2>2 DEF LegFill
      <4>3. CASE c < fill[l].qty
        BY <3>1, <4>3
      <4> QED
        BY <3>1, <4>1, <4>2, <4>3
    <3>4. l \notin raised' => order[l]["ioc"].state # "open"
      BY <2>0, <2>5, <3>2 DEF FillInv, Reported, Rejected, Shown, OrderInv
    <3>5. RollbackInv(l)'
      BY <1>1, <2>3, <3>2, <3>3, <3>4 DEF RollbackInv
    <3> QED
      BY <2>1, <2>4, <3>2, <3>5 DEF LegWork
  <2>7. CASE RollbackCloseFails(l)
    <3>1. order' = order /\ raised' = raised /\ fill[l].qty > 0 /\ l \in unclosed'
      BY <2>7 DEF RollbackCloseFails
    <3>2. l \notin raised' => order[l]["ioc"].state # "open"
      BY <2>0, <2>5, <3>1 DEF FillInv, Reported, Rejected, Shown, OrderInv
    <3>3. RollbackInv(l)'
      BY <1>1, <2>3, <3>1, <3>2 DEF RollbackInv
    <3> QED
      BY <2>1, <2>4, <3>1, <3>3 DEF LegWork
  <2>8. CASE RollbackCancel(l)
    <3>1. closed' = closed /\ unclosed' = unclosed /\ fill[l].qty = 0 /\ fill[l].coid \in Kinds
      BY <2>8 DEF RollbackCancel
    <3>2. ASSUME l \notin raised'
          PROVE  FillInv(l)' /\ order'[l]["ioc"].state # "open"
      <4>1. order' = [order EXCEPT ![l][fill[l].coid] = Cancelled(@)]
        BY <2>8, <3>2 DEF RollbackCancel
      <4>2. fill[l].coid = "ioc" /\ Reported(l, fill[l]) /\ order[l]["maker"].state # "open"
        <5>1. fill[l] # Rejected("missing_quote")
          BY <3>1 DEF Rejected, Kinds
        <5>2. ~IsComplete(fill[l])
          BY <3>1 DEF IsComplete
        <5> QED
          BY <2>0, <2>5, <3>2, <5>1, <5>2 DEF FillInv
      <4>3. order'[l]["maker"] = order[l]["maker"] /\ order'[l]["ioc"] = Cancelled(order[l]["ioc"])
        BY <1>0, <4>1, <4>2 DEF TypeOK, Kinds
      <4>4. order'[l]["ioc"].state # "open"
        BY <2>2, <4>3 DEF Cancelled, Order
      <4>5. Reported(l, fill[l])'
        BY <1>1, <4>2, <4>3 DEF Reported, Shown, Cancelled
      <4> QED
        BY <1>1, <2>0, <4>2, <4>3, <4>4, <4>5 DEF FillInv
    <3>3. RollbackInv(l)'
      BY <1>1, <2>0, <2>3, <3>1, <3>2 DEF RollbackInv
    <3> QED
      BY <2>1, <3>2, <3>3 DEF LegWork
  <2>9. CASE RollbackSkip(l)
    <3>1. order' = order /\ raised' = raised /\ closed' = closed /\ unclosed' = unclosed
          /\ fill[l].qty = 0 /\ fill[l].coid \notin Kinds
      BY <2>9 DEF RollbackSkip
    <3>2. l \notin raised' => order[l]["ioc"].state # "open"
      BY <2>0, <2>5, <3>1 DEF FillInv, Shown, Kinds
    <3>3. RollbackInv(l)'
      BY <1>1, <2>0, <2>3, <3>1, <3>2 DEF RollbackInv
    <3> QED
      BY <2>1, <2>4, <3>1, <3>3 DEF LegWork
  <2> QED
    BY <2>6, <2>7, <2>8, <2>9 DEF RollbackStep
<1> QED
  BY <1>4, <1>5 DEF WorkInv

\* The second invariant holds in every reachable state of submit_entry.
THEOREM WorkInvariant == Spec => []WorkInv
<1>1. IInv /\ WorkInv /\ [Next]_vars => WorkInv'
  <2> SUFFICES ASSUME IInv, WorkInv, [Next]_vars PROVE WorkInv'
    OBVIOUS
  <2>1. ASSUME NEW l \in Legs, LegStep(l) \/ RollbackStep(l) \/ Exchange(l) PROVE WorkInv'
    BY <2>1, LegStepWork, RollbackWork, ExchangeWork
  <2>2. CASE JoinLegs
    BY <2>2, JoinWork
  <2>3. CASE UNCHANGED vars
    BY <2>3, OtherWork DEF vars, WorkInv
  <2> QED
    BY <2>1, <2>2, <2>3 DEF Next
<1> QED
  BY <1>1, InitWork, InductiveInvariant, PTL DEF Spec

\* A returned entry has no order working in a leg none of whose calls raised.
LEMMA NothingWorksFromInv == IInv /\ WorkInv => NoOrderLeftWorking
<1> SUFFICES ASSUME IInv, WorkInv, Done, NEW l \in Legs \ raised, NEW k \in Kinds
             PROVE  order[l][k].state # "open"
  BY DEF NoOrderLeftWorking
<1>1. TypeOK /\ PhaseInv(l) /\ FillInv(l) /\ RollbackInv(l)
  BY DEF IInv, LegInv, WorkInv, LegWork
<1>2. pc[l] = "returned"
  BY <1>1 DEF PhaseInv, Done
<1>3. order[l]["maker"].state # "open"
  BY <1>1, <1>2 DEF FillInv
<1>4. order[l]["ioc"].state # "open"
  <2>1. CASE success
    BY <1>1, <1>2, <2>1 DEF PhaseInv, FillInv, IsComplete, Rejected, Reported, Shown
  <2>2. CASE ~success
    <3>1. RolledBack(l)
      BY <1>1, <2>2, EntryAssumption DEF RollbackInv, RolledBack, Done, Legs
    <3> QED
      BY <1>1, <3>1 DEF RollbackInv
  <2> QED
    BY <2>1, <2>2
<1> QED
  BY <1>3, <1>4 DEF Kinds

\* What a rolled-back leg holds, from the orders its LegFill was made from.
LEMMA ResidueFromInv == IInv /\ WorkInv => ResidueIsMakerFill
<1> SUFFICES ASSUME IInv, WorkInv, Done, ~success, NEW l \in Legs \ (raised \union unclosed),
                    fill[l].state # "open"
             PROVE  Position(l) = IF fill[l].coid = "ioc" THEN order[l]["maker"].filled ELSE 0
  BY DEF ResidueIsMakerFill
<1>1. TypeOK /\ PhaseInv(l) /\ OrderInv(l) /\ FillInv(l) /\ RollbackInv(l)
  BY DEF IInv, LegInv, WorkInv, LegWork
<1>2. pc[l] = "returned"
  BY <1>1 DEF PhaseInv, Done
<1>3. closed[l] = fill[l].qty
  <2>1. RolledBack(l)
    BY <1>1, EntryAssumption DEF RollbackInv, RolledBack, Done, Legs
  <2> QED
    BY <1>1, <2>1 DEF RollbackInv
<1>4. order[l]["maker"].filled \in Int /\ order[l]["ioc"].filled \in Int
  BY <1>1, EntryAssumption DEF TypeOK, Order, Kinds
<1>5. \A k \in Kinds : order[l][k].state = "absent" => order[l][k].filled = 0
  BY <1>1 DEF OrderInv
<1>6. CASE fill[l] = Rejected("missing_quote") /\ \A k \in Kinds : order[l][k].state = "absent"
  BY <1>3, <1>5, <1>6 DEF Rejected, Position, Bought, Kinds
<1>7. CASE fill[l] = Shown(l, "maker") /\ order[l]["ioc"].state = "absent"
  BY <1>3, <1>4, <1>5, <1>7 DEF Shown, Position, Bought, Kinds
<1>8. CASE fill[l].coid = "ioc" /\ Reported(l, fill[l])
  BY <1>3, <1>4, <1>8 DEF Reported, Shown, Position, Bought
<1> QED
  BY <1>1, <1>2, <1>6, <1>7, <1>8 DEF FillInv

\* When submit_entry has returned, no order of a leg none of whose calls raised is
\* still working, for any number of legs and lots and whenever the exchange matches.
THEOREM NothingLeftWorking == Spec => []NoOrderLeftWorking
  BY NothingWorksFromInv, InductiveInvariant, WorkInvariant, PTL

\* A rolled-back leg holds exactly what its maker order filled before the IOC order
\* replaced it, when no call raised, the close executed and the IOC order was over.
THEOREM ResidueIsKnown == Spec => []ResidueIsMakerFill
  BY ResidueFromInv, InductiveInvariant, WorkInvariant, PTL

=============================================================================
