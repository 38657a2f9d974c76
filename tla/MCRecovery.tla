----------------------------- MODULE MCRecovery -----------------------------
(***************************************************************************)
(* Recovery with a trade of two legs, one order for each.                  *)
(***************************************************************************)
EXTENDS Recovery

OneTrade == {1}
BothOfOne == [o \in 1..2 |-> 1]
TwoLegs == [o \in 1..2 |-> o]
=============================================================================
