-------------------------- MODULE MCWebhookHandler --------------------------
(* The instances of WebhookHandler that TLC checks.                         *)
EXTENDS WebhookHandler, TLC

CONSTANTS u1, planA

Symmetric == Permutations(Requests) \cup Permutations(Handlers)

Sends(op) == [user |-> u1, op |-> op, plan |-> planA, key |-> None]

SubscribeAndCancel == {Sends("subscribe"), Sends("cancel")}

JustSubscribe == {Sends("subscribe")}
=============================================================================
