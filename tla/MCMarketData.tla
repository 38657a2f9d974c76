---------------------------- MODULE MCMarketData ----------------------------
(***************************************************************************)
(* MarketData with half hours as the unit, a short period of one and a     *)
(* long one of two, on a host whose clock shows Indian time, eleven half   *)
(* hours ahead of UTC.                                                     *)
(***************************************************************************)
EXTENDS MarketData

MCPrices == {1, 2}
MCStart == {11}
=============================================================================
