---------------------------- MODULE MCRestClient ----------------------------
(***************************************************************************)
(* RestClient with two order calls that compete for the order bucket.  The *)
(* general bucket is another object of the same class.                     *)
(***************************************************************************)
EXTENDS RestClient

CONSTANTS o1, o2

TwoOrders == {o1, o2}
=============================================================================
