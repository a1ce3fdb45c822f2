--------------------------- MODULE MCWebhookQueue ---------------------------
(* Small instances of the webhook queue for TLC. *)
EXTENDS WebhookQueue, TLC

\* Events and workers are interchangeable: nothing orders either.
Symmetry == Permutations(Events) \cup Permutations(Workers)
=============================================================================
