---------------------------- MODULE MCExitEngine ----------------------------
(***************************************************************************)
(* ExitEngine with the ratios of config/strategies and an entry of 4: mids *)
(* at the drawdown stop (2), below the entry, at one times the risk (8)    *)
(* and beyond one and a half times (10), and spots one ATR and more from   *)
(* the spot at entry.                                                      *)
(***************************************************************************)
EXTENDS ExitEngine

AllKinds == {"call", "put", "vertical", "straddle"}
VerticalOnly == {"vertical"}

MCMids == {2, 3, 8, 10}
MCSpots == {19, 22}
MCExits ==
    [target |-> 150, drawdown |-> 50, atrStop |-> 1, trailAt |-> 100, chandelier |-> 2,
     take |-> 50, stopX |-> 200, straddleTake |-> 40, straddleStop |-> 40]
=============================================================================
