------------------------------ MODULE MCWebhook ------------------------------
(* Two deliveries, all their retries. *)
EXTENDS Webhook

CONSTANTS d1, d2
=============================================================================
