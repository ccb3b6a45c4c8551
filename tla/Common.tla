------------------------------- MODULE Common -------------------------------
(* What the modules about browser tabs and edge functions share. *)
EXTENDS Naturals, FiniteSets

CONSTANT None  \* no value: nothing stored, nothing running

=============================================================================
