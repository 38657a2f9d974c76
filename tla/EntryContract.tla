--------------------------- MODULE EntryContract ---------------------------
(***************************************************************************)
(* What ExecutionRouter.submit_entry promises its caller, the trading      *)
(* engine: while it works, each leg holds at most twice the requested lots *)
(* (a maker order and an IOC order of the full size); it reports success   *)
(* only when every leg holds the requested lots; after it has returned, a  *)
(* leg can only gain lots, from an order that was left working.            *)
(***************************************************************************)
EXTENDS Integers

CONSTANTS NLegs, Lots

VARIABLES
    held,       \* lots of each leg the account holds because of this entry
    outcome     \* "pending" until the call returns

Legs == 1..NLegs
Holdings == [Legs -> 0..(2 * Lots)]

Init ==
    /\ held = [l \in Legs |-> 0]
    /\ outcome = "pending"

\* Orders are placed, filled, cancelled and rolled back.
Work ==
    /\ outcome = "pending"
    /\ held' \in Holdings
    /\ UNCHANGED outcome

Succeed ==
    /\ outcome = "pending"
    /\ \A l \in Legs : held[l] >= Lots
    /\ outcome' = "success"
    /\ UNCHANGED held

\* The last order of the rollback may still execute as the call returns.
Fail ==
    /\ outcome = "pending"
    /\ held' \in Holdings
    /\ outcome' = "failed"

LateFill ==
    /\ outcome # "pending"
    /\ held' \in Holdings
    /\ \A l \in Legs : held'[l] >= held[l]
    /\ UNCHANGED outcome

Next == Work \/ Succeed \/ Fail \/ LateFill

Spec == Init /\ [][Next]_<<held, outcome>>
=============================================================================
