--------------------------- MODULE TicketSalesMC ---------------------------
(* Two buyers, three units and tiers of two seats, for TLC. *)
EXTENDS TicketSales, TLC

CONSTANTS o1, o2, t1, t2, u1, u2, u3

\* o1 wants both seats of t1, o2 one of them.
Buyers == (u1 :> o1) @@ (u2 :> o1) @@ (u3 :> o2)
OneTier == (u1 :> t1) @@ (u2 :> t1) @@ (u3 :> t1)

\* o1's cart spans both tiers, o2 wants one seat of the second.
TwoTiers == (u1 :> t1) @@ (u2 :> t2) @@ (u3 :> t2)
=============================================================================
