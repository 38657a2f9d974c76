---------------------------- MODULE MCLiveEntry ----------------------------
(***************************************************************************)
(* LiveEntry with two legs of two lots: the smallest instance in which one *)
(* leg fills while the other is rejected, and in which a fill is partial.  *)
(***************************************************************************)
EXTENDS LiveEntry
=============================================================================
