--------------------------- MODULE MCTradeEngine ---------------------------
(***************************************************************************)
(* TradeEngine with its three strategies.  The directional strategy, the   *)
(* straddle and the vertical meet on one BTC call, which the vertical      *)
(* sells; the put is the straddle's own.  The other legs of the vertical   *)
(* and of the ETH straddle are on contracts nobody shares and left out.    *)
(***************************************************************************)
EXTENDS TradeEngine, TLC

CONSTANTS directional, straddle, vertical, btc, eth, call, put, other

AllStrategies == {directional, straddle, vertical}
AllUnderlyings == {btc, eth}
AllProducts == {call, put, other}

Buy(p) == [product |-> p, side |-> 1]
Sell(p) == [product |-> p, side |-> -1]

AllPlans ==
    (<<directional, btc>> :> {<<Buy(call)>>})
 @@ (<<straddle, btc>> :> {<<Buy(call), Buy(put)>>})
 @@ (<<straddle, eth>> :> {<<Buy(other)>>})
 @@ (<<vertical, btc>> :> {<<Sell(call)>>})
=============================================================================
