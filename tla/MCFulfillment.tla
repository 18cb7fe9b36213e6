--------------------------- MODULE MCFulfillment ---------------------------
(***************************************************************************)
(* A warehouse of the order's tenant and one of a cooperating tenant.      *)
(***************************************************************************)
EXTENDS Fulfillment

CONSTANTS own, partner

AllEnvironments == SUBSET OtherWriters
FormOnly == {{"form"}}
=============================================================================
