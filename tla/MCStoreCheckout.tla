-------------------------- MODULE MCStoreCheckout --------------------------
(***************************************************************************)
(* Small instances of StoreCheckout.  Calls are interchangeable, and so    *)
(* are items.                                                              *)
(***************************************************************************)
EXTENDS StoreCheckout, TLC

AllEnvironments == SUBSET OtherEffects
ServiceOnly == {{}}

OneTaken == {-1, 2}

Interchangeable == Permutations(Calls) \cup Permutations(Items)
=============================================================================
