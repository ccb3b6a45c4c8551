---------------------------- MODULE PaidCheckout ----------------------------
(***************************************************************************)
(* The two edge functions at once: buyers' create and cancel requests and  *)
(* Stripe's deliveries work on the same order, knowing nothing of each     *)
(* other but what the database and Stripe say.                             *)
(*                                                                         *)
(* HostedCheckout leaves the webhook to the transactions of TicketSales    *)
(* and StripeWebhook leaves the requests to them; here neither is left to  *)
(* anything, and the invariants each rests on hold next to the other.      *)
(***************************************************************************)
EXTENDS CheckoutProofs

paidVars == <<vars, hookVars, hostedVars>>

PaidInit == WebhookInit /\ HostedInit

PaidNext ==
    \/ Around /\ UNCHANGED <<hookVars, hostedVars>>
    \/ RequestStep /\ UNCHANGED hookVars
    \/ DeliveryStep /\ UNCHANGED hostedVars

PaidSpec == PaidInit /\ [][PaidNext]_paidVars

-----------------------------------------------------------------------------
(* What one side does is a step the other allows for *)

PaidInvariant == TypeOK /\ WebhookInvariant /\ HostedInvariant

\* To the requests, a delivery is one of the webhook's transactions, or none.
LEMMA RequestsAllowForDeliveries ==
  ASSUME WebhookInvariant, [PaidNext]_paidVars
  PROVE  [HostedNext]_hostVars
<1>1. CASE Around /\ UNCHANGED <<hookVars, hostedVars>>
  BY <1>1 DEF HostedNext
<1>2. CASE RequestStep
  BY <1>2 DEF HostedNext
<1>3. CASE DeliveryStep /\ UNCHANGED hostedVars
  BY <1>3, DeliveryAsks DEF HostedNext, hostVars
<1>4. CASE UNCHANGED paidVars
  BY <1>4 DEF paidVars, hostVars
<1>5. QED
  BY <1>1, <1>2, <1>3, <1>4 DEF PaidNext

\* The deliveries need not know what a request is: that it does nothing
\* TicketSales does not do is enough.
LEMMA DeliveriesAllowForRequests ==
  ASSUME PaidInvariant, [PaidNext]_paidVars, [Next]_vars
  PROVE  WebhookInvariant'
<1>1. CASE UNCHANGED hookVars
  BY <1>1, OthersKeepInvariant DEF PaidInvariant
<1>2. CASE DeliveryStep
  BY <1>2, NextKeepsInvariant DEF WebhookNext, PaidInvariant
<1>3. QED
  BY <1>1, <1>2 DEF PaidNext, paidVars

\* Each side's invariant is kept by both, and the database stays within
\* TicketSales.
LEMMA PaidStep ==
  ASSUME PaidInvariant, [PaidNext]_paidVars
  PROVE  [Next]_vars /\ PaidInvariant'
<1>1. [HostedNext]_hostVars
  BY RequestsAllowForDeliveries DEF PaidInvariant
<1>2. [Next]_vars
  BY <1>1, HostedStepImplements DEF PaidInvariant
<1>3. TypeOK' /\ HostedInvariant'
  BY <1>1, <1>2, NextTypeOK, NextHostedInvariant DEF PaidInvariant
<1>4. WebhookInvariant'
  BY <1>2, DeliveriesAllowForRequests
<1>5. QED
  BY <1>2, <1>3, <1>4 DEF PaidInvariant

LEMMA PaidStart ==
  ASSUME PaidInit
  PROVE  Init /\ PaidInvariant
  BY InitTypeOK, InitWebhookInvariant, InitHostedInvariant
     DEF PaidInit, WebhookInit, HostedInit, PaidInvariant

-----------------------------------------------------------------------------
(* The theorems *)

\* Whatever requests and deliveries do to one another by interleaving, being
\* late or dying, the database and Stripe go only through the behaviours that
\* TicketSales allows.
THEOREM PaidImplementsSales == PaidSpec => Spec
<1>1. PaidInit => Init /\ PaidInvariant
  BY PaidStart
<1>2. PaidInvariant /\ [PaidNext]_paidVars => [Next]_vars /\ PaidInvariant'
  BY PaidStep
<1>3. QED
  BY <1>1, <1>2, PTL DEF PaidSpec, Spec

LEMMA PaidInvariantHolds == PaidSpec => []PaidInvariant
<1>1. PaidInit => PaidInvariant
  BY PaidStart
<1>2. PaidInvariant /\ [PaidNext]_paidVars => PaidInvariant'
  BY PaidStep
<1>3. QED
  BY <1>1, <1>2, PTL DEF PaidSpec

\* What a delivery acts upon was true and confirms its event, though requests
\* create, attach and expire sessions meanwhile ...
THEOREM DeliveriesStayGrounded == PaidSpec => []WebhookInvariant
  BY PaidInvariantHolds, PTL DEF PaidInvariant

\* ... and what a request concluded holds when it acts upon it, though
\* deliveries change the order meanwhile.
THEOREM RequestsStayTrue == PaidSpec => []HostedInvariant
  BY PaidInvariantHolds, PTL DEF PaidInvariant

\* With both sides running, no money is collected for a reservation that a
\* request released ...
THEOREM PaidCancelledNeverPaid == PaidSpec => []CancelledIsNeverPaid
  BY PaidImplementsSales, CancelledNeverPaid, PTL

\* ... no ticket exists whose money was not ...
THEOREM PaidTicketsAreBacked == PaidSpec => []TicketsArePaidFor
  BY PaidImplementsSales, TicketsOnlyForMoney, PTL

\* ... and no tier is oversold.
THEOREM PaidNeverOversells == PaidSpec => []NoOversell
  BY PaidImplementsSales, NeverOversold, PTL

\* An acknowledged payment is accounted for beside the requests too, as long as
\* no call of a delivery fails and no charge is given back.
THEOREM PaidPaymentsAreAccounted == NoFailures => (PaidSpec => []HandledPaymentIsAccounted)
<1> SUFFICES ASSUME NoFailures PROVE PaidSpec => []HandledPaymentIsAccounted
  OBVIOUS
<1>1. PaidInit => PaidInvariant /\ PaymentInvariant
  BY PaidStart, InitPaymentInvariant DEF PaidInit
<1>2. PaidInvariant /\ PaymentInvariant /\ [PaidNext]_paidVars => PaidInvariant' /\ PaymentInvariant'
  <2> SUFFICES ASSUME PaidInvariant, PaymentInvariant, [PaidNext]_paidVars
               PROVE  PaidInvariant' /\ PaymentInvariant'
    OBVIOUS
  <2>1. [Next]_vars /\ PaidInvariant'
    BY PaidStep
  <2>2. UNCHANGED hookVars \/ DeliveryStep
    BY DEF PaidNext, paidVars
  <2>3. QED
    BY <2>1, <2>2, NextPaymentInvariant DEF PaidInvariant
<1>3. QED
  BY <1>1, <1>2, PaymentInvariantSuffices, PTL DEF PaidSpec

=============================================================================
