----------------------------- MODULE MCWebhooks -----------------------------
(* Instances of Webhooks for TLC.                                           *)
EXTENDS Webhooks, TLC
CONSTANTS d1, d2, d3, ip1, ip2

MixedServices == d1 :> "review" @@ d2 :> "diagnosis" @@ d3 :> "review"
TwoAddresses == d1 :> ip1 @@ d2 :> ip1 @@ d3 :> ip2
=============================================================================
