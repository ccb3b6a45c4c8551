--------------------------- MODULE PaidCheckoutMC ---------------------------
(* One buyer's order for one seat, two concurrent requests about it and two   *)
(* concurrent deliveries.                                                     *)
EXTENDS PaidCheckout, TLC

CONSTANTS o1, t1, u1, w1, w2, r1, r2

\* One buyer, one seat.
OneBuyer == u1 :> o1
OneSeat == u1 :> t1

\* The invocations are interchangeable.
Interchangeable == Permutations(Workers) \cup Permutations(Slots)

=============================================================================
