-------------------------- MODULE MCPaymentRefund --------------------------
(***************************************************************************)
(* A small instance of PaymentRefund: an order paid through either         *)
(* provider and one delivery at a time, with every failure and the payload *)
(* of the pinned API version, and with the provider's failures only and a  *)
(* payload that names the refund; and one whose deliveries overlap.        *)
(***************************************************************************)
EXTENDS PaymentRefund

CONSTANTS h1, h2

ProviderFaults == {"pending", "declined", "lost"}

EverySetting ==
    [provider : {"stripe", "p24"}, faults : {FaultKinds},
     deliveries : {{h1}}, namesRefund : {FALSE}]
    \cup [provider : {"stripe", "p24"}, faults : {ProviderFaults},
          deliveries : {{h1}}, namesRefund : {TRUE}]
    \cup [provider : {"stripe"}, faults : {{}},
          deliveries : {{h1, h2}}, namesRefund : {FALSE}]
=============================================================================
