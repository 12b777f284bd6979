------------------------- MODULE MCWebhookDelivery -------------------------
(* Small instances of WebhookDelivery over TenantBilling: requests are       *)
(* interchangeable.                                                          *)
EXTENDS WebhookDelivery, TLC

CONSTANTS r1, r2, d1, s1
ActorSymmetry == Permutations(Request)
=============================================================================
