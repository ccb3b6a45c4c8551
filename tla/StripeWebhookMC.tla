-------------------------- MODULE StripeWebhookMC --------------------------
(* One buyer's order, one seat, and one or two concurrent deliveries. *)
EXTENDS StripeWebhook, TLC

CONSTANTS o1, t1, u1, w1, w2

\* One buyer, one seat.
OneBuyer == u1 :> o1
OneSeat == u1 :> t1

\* The invocations are interchangeable.
Interchangeable == Permutations(Workers)

=============================================================================
