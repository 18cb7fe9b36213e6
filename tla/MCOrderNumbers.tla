--------------------------- MODULE MCOrderNumbers --------------------------
(***************************************************************************)
(* A channel with two orders from before the counter.                      *)
(***************************************************************************)
EXTENDS OrderNumbers, TLC

CONSTANTS old1, old2

LegacyOrders == {old1, old2}
NumbersByCount == (old1 :> 0) @@ (old2 :> 1)
=============================================================================
