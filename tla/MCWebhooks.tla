------------------------------- MODULE MCWebhooks -------------------------------
(* The small instances of WebhookDelivery that TLC checks. *)
EXTENDS WebhookDelivery, TLC

OneBackoff == <<1>>

MCSymmetry == Permutations(Instances) \cup Permutations(Subs)
=============================================================================
