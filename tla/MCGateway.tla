------------------------------ MODULE MCGateway ------------------------------
(* A small instance of the webhook gateway.                                  *)
EXTENDS WebhookGateway, TLC

Symmetric == Permutations(Scans) \cup Permutations(Deliveries) \cup Permutations(Reqs)
=============================================================================
