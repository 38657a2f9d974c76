-------------------------- MODULE MCCircuitBreaker --------------------------
(***************************************************************************)
(* CircuitBreaker with the caps of config/global.yaml (3%, 6%, 15%), a NAV *)
(* of 200, losses of 15 (7.5%: beyond the daily and the weekly cap; two of *)
(* them are exactly the lifetime cap) and gains of 12.                     *)
(***************************************************************************)
EXTENDS CircuitBreaker

MCPnls == {-15, 12}
=============================================================================
