--------------------------- MODULE MCStockLedger ---------------------------
(***************************************************************************)
(* Order o1 has two lines of one product, one of them with a quantity that *)
(* is edited.  The line of o2 is of the same product, but is about the     *)
(* paper it is printed on: a hybrid channel.                               *)
(***************************************************************************)
EXTENDS StockLedger, TLC

CONSTANTS l1, l2, l3, o1, o2, product, paper

SmallSubject == (l1 :> product) @@ (l2 :> product) @@ (l3 :> paper)
SmallProduct == (l1 :> product) @@ (l2 :> product) @@ (l3 :> product)
SmallOrder == (l1 :> o1) @@ (l2 :> o1) @@ (l3 :> o2)
SmallQuantities == (l1 :> {1, 2}) @@ (l2 :> {1}) @@ (l3 :> {1})
=============================================================================
