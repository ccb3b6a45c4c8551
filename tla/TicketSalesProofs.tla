------------------------- MODULE TicketSalesProofs -------------------------
(***************************************************************************)
(* Machine-checked proofs that the ticket sales transactions keep their    *)
(* promises for any number of orders, tiers and units, any capacity and    *)
(* any lock wait.                                                          *)
(***************************************************************************)
EXTENDS TicketSales, FiniteSetTheorems, TLAPS

-----------------------------------------------------------------------------
(* Type correctness *)

LEMMA InitTypeOK == Init => TypeOK
  BY ConstantsAssumption DEF Init, TypeOK, OrderStatus, Unfinished, Settled,
     Released, TicketStatus

\* Reservations move status and deadline within their types.
LEMMA CheckoutTypeOK ==
  ASSUME TypeOK, NEW o \in Orders, NEW now \in Instants,
         Checkout(o, now) \/ CancelReservation(o) \/ ExpireReservations(now)
  PROVE  TypeOK'
<1> USE ConstantsAssumption DEF TypeOK, OrderStatus, Unfinished, Settled, Released,
    eventVars, tierVars, orderVars
<1>0. now \in Nat
  BY DEF Instants
<1>1. CASE ReserveNew(o, now)
  BY <1>0, <1>1 DEF ReserveNew
<1>2. CASE ReserveAgain(o, now)
  BY <1>2 DEF ReserveAgain
<1>3. CASE Attach(o, now)
  BY <1>3 DEF Attach
<1>4. CASE CancelReservation(o)
  BY <1>4 DEF CancelReservation
<1>5. CASE ExpireReservations(now)
  BY <1>5 DEF ExpireReservations
<1>6. QED
  BY <1>1, <1>2, <1>3, <1>4, <1>5 DEF Checkout

\* So does everything the webhook asks for.
LEMMA HandlerTypeOK ==
  ASSUME TypeOK, NEW o \in Orders, NEW now \in Instants, Webhook(o, now)
  PROVE  TypeOK'
<1> USE ConstantsAssumption DEF TypeOK, OrderStatus, TicketStatus, Unfinished, Settled, Released,
    eventVars, tierVars, orderVars, ToReview, IssueTickets, Withdraw
<1>1. CASE MarkPaymentProcessing(o)
  BY <1>1 DEF MarkPaymentProcessing
<1>2. CASE MarkPaymentFailed(o)
  BY <1>2 DEF MarkPaymentFailed
<1>3. CASE FulfillPaidOrder(o, now)
  BY <1>3 DEF FulfillPaidOrder
<1>4. ASSUME NEW affected, ReconcileUnattached(o, affected, now) PROVE TypeOK'
  BY <1>4 DEF ReconcileUnattached
<1>5. CASE MarkPaymentRequiresReview(o)
  BY <1>5 DEF MarkPaymentRequiresReview
<1>6. CASE MarkReconciliationReview(o)
  BY <1>6 DEF MarkReconciliationReview
<1>7. CASE ApplyWholeRefund(o)
  BY <1>7 DEF ApplyWholeRefund
<1>8. CASE ApplyPartialRefund(o)
  BY <1>8 DEF ApplyPartialRefund
<1>9. CASE ApplyDispute(o)
  BY <1>9 DEF ApplyDispute
<1>10. QED
  BY <1>1, <1>2, <1>3, <1>4, <1>5, <1>6, <1>7, <1>8, <1>9 DEF Webhook, ReconcileAsRead

\* Any of Stripe's own steps for the order.
StripeStep(o) ==
    \/ StripeCreate(o) \/ StripePay(o) \/ StripeSettle(o)
    \/ StripeExpire(o) \/ StripeRefund(o) \/ StripeDispute(o)

\* And Stripe only ever adds facts.
LEMMA StripeTypeOK ==
  ASSUME TypeOK, NEW o \in Orders, StripeStep(o)
  PROVE  TypeOK'
<1>1. \E f \in SessionFacts \cup ChargeFacts : Observe(o, f)
  BY DEF StripeStep, StripeCreate, StripePay, StripeSettle, StripeExpire, StripeRefund,
     StripeDispute, SessionFacts, ChargeFacts
<1>2. QED
  BY <1>1 DEF Observe, TypeOK, eventVars, tierVars, orderVars

LEMMA NextTypeOK == TypeOK /\ [Next]_vars => TypeOK'
<1> SUFFICES ASSUME TypeOK, [Next]_vars PROVE TypeOK'
  OBVIOUS
<1> USE DEF TypeOK, eventVars, tierVars, orderVars
<1>1. CASE Tick
  BY <1>1 DEF Tick
<1>2. CASE ToggleSales \/ ToggleEligibility
  BY <1>2 DEF ToggleSales, ToggleEligibility
<1>3. ASSUME NEW now \in Instants, ExpireReservations(now) PROVE TypeOK'
  <2>1. PICK o \in Orders : Stale(o, now)
    BY <1>3 DEF ExpireReservations
  <2>2. QED
    BY <1>3, <2>1, CheckoutTypeOK
<1>4. ASSUME NEW now \in Instants, Organizer(now) PROVE TypeOK'
  <2>1. CASE CancelEvent
    BY <2>1 DEF CancelEvent, TicketStatus
  <2>2. ASSUME NEW listed \in (SUBSET Tiers) \ {{}}, NEW totals \in [Tiers -> 1..MaxCapacity],
               SaveTicketTiers(listed, totals, now)
        PROVE  TypeOK'
    BY <2>2 DEF SaveTicketTiers
  <2>3. QED
    BY <1>4, <2>1, <2>2 DEF Organizer
<1>5. ASSUME NEW now \in Instants, NEW o \in Orders, Checkout(o, now) PROVE TypeOK'
  BY <1>5, CheckoutTypeOK
<1>6. ASSUME NEW now \in Instants, NEW o \in Orders, Webhook(o, now) PROVE TypeOK'
  BY <1>6, HandlerTypeOK
<1>7. ASSUME NEW o \in Orders, CancelReservation(o) PROVE TypeOK'
  BY <1>7 DEF CancelReservation, OrderStatus, Released
<1>8. ASSUME NEW o \in Orders, StripeStep(o) PROVE TypeOK'
  BY <1>8, StripeTypeOK
<1>9. ASSUME NEW u \in Units, Redeem(u) PROVE TypeOK'
  BY <1>9 DEF Redeem, TicketStatus
<1>10. CASE UNCHANGED vars
  BY <1>10 DEF vars
<1>11. QED
  BY <1>1, <1>2, <1>3, <1>4, <1>5, <1>6, <1>7, <1>8, <1>9, <1>10 DEF Next, Around, Requests, StripeStep

\* Every variable stays in its column's domain, whatever the constants: no
\* handler stores a status, total or deadline the schema would refuse.
THEOREM TypeCorrect == Spec => []TypeOK
  BY InitTypeOK, NextTypeOK, PTL DEF Spec

-----------------------------------------------------------------------------
(* Valid tickets belong to settled orders.  The property is inductive on its *)
(* own: every writer that moves a paid order also withdraws its tickets.     *)

LEMMA InitSettled == Init => ValidTicketIsSettled
  BY DEF Init, ValidTicketIsSettled

\* A step that leaves tickets and the event alone, and every order that is
\* paid, cannot unsettle a valid ticket.
LEMMA KeepsSettled ==
  ASSUME TypeOK, ValidTicketIsSettled, UNCHANGED <<ticket, eventStatus>>,
         \A o \in Orders : status[o] = "paid" /\ attached[o] =>
            /\ status'[o] = "paid"
            /\ paidAt'[o] = paidAt[o] /\ recon'[o] = recon[o]
            /\ attached'[o] = attached[o]
  PROVE  ValidTicketIsSettled'
<1> SUFFICES ASSUME NEW u \in Units, ticket'[u] = "valid"
             PROVE  /\ status'[OrderOf[u]] = "paid" /\ paidAt'[OrderOf[u]]
                    /\ recon'[OrderOf[u]] = "reconciled" /\ attached'[OrderOf[u]]
                    /\ eventStatus' = "published"
  BY DEF ValidTicketIsSettled
<1>1. OrderOf[u] \in Orders
  BY ConstantsAssumption
<1>2. QED
  BY <1>1 DEF ValidTicketIsSettled

\* A step on one order that leaves it without a valid ticket, and the other
\* orders as they are, cannot either.
LEMMA WithdrawnKeepsSettled ==
  ASSUME TypeOK, ValidTicketIsSettled, UNCHANGED eventStatus, NEW o \in Orders,
         \A u \in Units : OrderOf[u] = o => ticket'[u] # "valid",
         \A u \in Units : OrderOf[u] # o => ticket'[u] = ticket[u],
         \A x \in Orders \ {o} :
            /\ status'[x] = status[x] /\ paidAt'[x] = paidAt[x]
            /\ recon'[x] = recon[x] /\ attached'[x] = attached[x]
  PROVE  ValidTicketIsSettled'
<1> SUFFICES ASSUME NEW u \in Units, ticket'[u] = "valid"
             PROVE  /\ status'[OrderOf[u]] = "paid" /\ paidAt'[OrderOf[u]]
                    /\ recon'[OrderOf[u]] = "reconciled" /\ attached'[OrderOf[u]]
                    /\ eventStatus' = "published"
  BY DEF ValidTicketIsSettled
<1>1. OrderOf[u] \in Orders \ {o} /\ ticket[u] = "valid"
  BY ConstantsAssumption
<1>2. QED
  BY <1>1 DEF ValidTicketIsSettled

\* Issuing an order's tickets settles the order they belong to.
LEMMA IssueKeepsSettled ==
  ASSUME TypeOK, ValidTicketIsSettled, NEW o \in Orders, IssueTickets(o),
         eventStatus = "published", UNCHANGED eventStatus,
         attached'[o] = TRUE, paidAt'[o] = TRUE,
         \A x \in Orders \ {o} : paidAt'[x] = paidAt[x] /\ attached'[x] = attached[x]
  PROVE  ValidTicketIsSettled'
<1> SUFFICES ASSUME NEW u \in Units, ticket'[u] = "valid"
             PROVE  /\ status'[OrderOf[u]] = "paid" /\ paidAt'[OrderOf[u]]
                    /\ recon'[OrderOf[u]] = "reconciled" /\ attached'[OrderOf[u]]
                    /\ eventStatus' = "published"
  BY DEF ValidTicketIsSettled
<1>1. OrderOf[u] \in Orders
  BY ConstantsAssumption
<1>2. CASE OrderOf[u] = o
  BY <1>2 DEF IssueTickets, TypeOK
<1>3. CASE OrderOf[u] # o
  BY <1>1, <1>3 DEF IssueTickets, TypeOK, ValidTicketIsSettled
<1>4. QED
  BY <1>2, <1>3

LEMMA WebhookKeepsSettled ==
  ASSUME TypeOK, ValidTicketIsSettled, NEW o \in Orders, NEW now \in Instants, Webhook(o, now)
  PROVE  ValidTicketIsSettled'
<1> USE DEF eventVars
<1>1. CASE MarkPaymentProcessing(o)
  BY <1>1, KeepsSettled DEF MarkPaymentProcessing, Unfinished, TypeOK
<1>2. CASE MarkPaymentFailed(o)
  BY <1>2, KeepsSettled DEF MarkPaymentFailed, Unfinished, TypeOK
<1>3. CASE FulfillPaidOrder(o, now)
  <2>1. CASE ToReview(o) /\ recon' = [recon EXCEPT ![o] = "requires_review"]
               /\ ticket' = Withdraw(o, "cancelled")
    BY <1>3, <2>1, WithdrawnKeepsSettled DEF FulfillPaidOrder, Withdraw, ToReview, TypeOK
  <2>2. CASE status[o] \notin Settled /\ ToReview(o) /\ UNCHANGED ticket
               /\ recon' = [recon EXCEPT ![o] = "requires_review"]
    BY <1>3, <2>2, KeepsSettled DEF FulfillPaidOrder, Settled, ToReview, TypeOK
  <2>3. CASE ~Invalidated(o, now) /\ IssueTickets(o)
    BY <1>3, <2>3, IssueKeepsSettled DEF FulfillPaidOrder, Invalidated, CurrentlyEligible, TypeOK
  <2>4. QED
    BY <1>3, <2>1, <2>2, <2>3 DEF FulfillPaidOrder
<1>4. ASSUME NEW affected, ReconcileUnattached(o, affected, now)
      PROVE  ValidTicketIsSettled'
  <2>1. CASE ~Invalidated(o, now) /\ IssueTickets(o)
               /\ attached' = [attached EXCEPT ![o] = TRUE]
               /\ paidAt' = [paidAt EXCEPT ![o] = TRUE]
    BY <1>4, <2>1, IssueKeepsSettled
       DEF ReconcileUnattached, Invalidated, CurrentlyEligible, TypeOK
  <2>2. CASE UNCHANGED <<attached, paidAt, ticket>>
               /\ status' = [status EXCEPT
                     ![o] = IF @ = "creating_checkout" THEN "requires_review" ELSE @]
               /\ recon' = [recon EXCEPT ![o] = "requires_review"]
    BY <1>4, <2>2, KeepsSettled DEF ReconcileUnattached, TypeOK
  <2>3. QED
    BY <1>4, <2>1, <2>2 DEF ReconcileUnattached
<1>5. CASE MarkPaymentRequiresReview(o)
  BY <1>5, WithdrawnKeepsSettled DEF MarkPaymentRequiresReview, Withdraw, TypeOK
<1>6. CASE MarkReconciliationReview(o)
  BY <1>6, WithdrawnKeepsSettled DEF MarkReconciliationReview, Withdraw, ToReview, TypeOK
<1>7. CASE ApplyWholeRefund(o)
  BY <1>7, WithdrawnKeepsSettled DEF ApplyWholeRefund, TypeOK
<1>8. CASE ApplyPartialRefund(o)
  BY <1>8, WithdrawnKeepsSettled DEF ApplyPartialRefund, Withdraw, ToReview, TypeOK
<1>9. CASE ApplyDispute(o)
  BY <1>9, WithdrawnKeepsSettled DEF ApplyDispute, Withdraw, ToReview, TypeOK
<1>10. QED
  BY <1>1, <1>2, <1>3, <1>4, <1>5, <1>6, <1>7, <1>8, <1>9 DEF Webhook, ReconcileAsRead

LEMMA NextKeepsSettled ==
  TypeOK /\ ValidTicketIsSettled /\ [Next]_vars => ValidTicketIsSettled'
<1> SUFFICES ASSUME TypeOK, ValidTicketIsSettled, [Next]_vars PROVE ValidTicketIsSettled'
  OBVIOUS
<1> USE DEF eventVars, tierVars, orderVars
<1>1. CASE Tick \/ ToggleSales \/ ToggleEligibility \/ UNCHANGED vars
  BY <1>1, KeepsSettled DEF Tick, ToggleSales, ToggleEligibility, vars
<1>2. ASSUME NEW now \in Instants, ExpireReservations(now) PROVE ValidTicketIsSettled'
  BY <1>2, KeepsSettled DEF ExpireReservations, Stale, Unfinished, TypeOK
<1>3. ASSUME NEW now \in Instants, Organizer(now) PROVE ValidTicketIsSettled'
  <2>1. CASE CancelEvent
    <3>1. \A u \in Units : ticket'[u] # "valid"
      BY <2>1 DEF CancelEvent, TypeOK
    <3>2. QED
      BY <3>1 DEF ValidTicketIsSettled
  <2>2. ASSUME NEW listed, NEW totals, SaveTicketTiers(listed, totals, now)
        PROVE  ValidTicketIsSettled'
    BY <2>2, KeepsSettled DEF SaveTicketTiers
  <2>3. QED
    BY <1>3, <2>1, <2>2 DEF Organizer
<1>4. ASSUME NEW now \in Instants, NEW o \in Orders, Checkout(o, now)
      PROVE  ValidTicketIsSettled'
  <2>1. CASE ReserveNew(o, now)
    BY <2>1, KeepsSettled DEF ReserveNew, Stale, Unfinished, TypeOK
  <2>2. CASE ReserveAgain(o, now)
    BY <2>2, KeepsSettled DEF ReserveAgain, Stale, Unfinished, TypeOK
  <2>3. CASE Attach(o, now)
    BY <2>3, KeepsSettled DEF Attach, TypeOK
  <2>4. QED
    BY <1>4, <2>1, <2>2, <2>3 DEF Checkout
<1>5. ASSUME NEW now \in Instants, NEW o \in Orders, Webhook(o, now)
      PROVE  ValidTicketIsSettled'
  BY <1>5, WebhookKeepsSettled
<1>6. ASSUME NEW o \in Orders, CancelReservation(o) PROVE ValidTicketIsSettled'
  BY <1>6, KeepsSettled DEF CancelReservation, Unfinished, TypeOK
<1>7. ASSUME NEW o \in Orders, StripeStep(o) PROVE ValidTicketIsSettled'
  BY <1>7, KeepsSettled DEF StripeStep, StripeCreate, StripePay, StripeSettle, StripeExpire,
     StripeRefund, StripeDispute, Observe
<1>8. ASSUME NEW u \in Units, Redeem(u) PROVE ValidTicketIsSettled'
  BY <1>8 DEF Redeem, ValidTicketIsSettled, TypeOK
<1>9. QED
  BY <1>1, <1>2, <1>3, <1>4, <1>5, <1>6, <1>7, <1>8 DEF Next, Around, Requests, StripeStep

\* No review, refund, dispute or cancellation leaves a ticket behind that
\* still opens the door, whatever the number of orders and units.
THEOREM SettledTickets == Spec => []ValidTicketIsSettled
  BY InitTypeOK, NextTypeOK, InitSettled, NextKeepsSettled, PTL DEF Spec

-----------------------------------------------------------------------------
(* No tier is oversold.  NoOversell alone is not inductive: a valid ticket    *)
(* whose order lost its paid status would be sold without being held, so the  *)
(* invariant is strengthened with TypeOK and ValidTicketIsSettled.            *)

SalesInvariant == TypeOK /\ ValidTicketIsSettled /\ NoOversell

PaidUnits(t) == {u \in Units : TierOf[u] = t /\ status[OrderOf[u]] = "paid"}

\* Beside settled tickets, what is sold is what paid orders bought.
LEMMA SoldIsPaid ==
  ASSUME ValidTicketIsSettled, NEW t \in Tiers
  PROVE  Sold(t) = PaidUnits(t)
  BY DEF ValidTicketIsSettled, Sold, PaidUnits

LEMMA InitNoOversell == Init => NoOversell
<1> SUFFICES ASSUME Init, NEW t \in Tiers PROVE Cardinality(Sold(t)) <= capacity[t]
  BY DEF NoOversell
<1>1. Sold(t) = {}
  BY ConstantsAssumption DEF Init, Sold
<1>2. QED
  BY <1>1, FS_EmptySet, ConstantsAssumption DEF Init

\* If no order becomes paid and no tier changes, nothing more is sold.
LEMMA NothingMoreSold ==
  ASSUME SalesInvariant, ValidTicketIsSettled', UNCHANGED capacity,
         \A o \in Orders : status'[o] = "paid" => status[o] = "paid"
  PROVE  NoOversell'
<1> SUFFICES ASSUME NEW t \in Tiers PROVE Cardinality(Sold(t)') <= capacity'[t]
  BY DEF NoOversell
<1>1. Sold(t)' = PaidUnits(t)' /\ Sold(t) = PaidUnits(t)
  BY SoldIsPaid DEF SalesInvariant, ValidTicketIsSettled, Sold, PaidUnits
<1>2. PaidUnits(t)' \in SUBSET PaidUnits(t)
  BY ConstantsAssumption DEF PaidUnits
<1>3. IsFiniteSet(PaidUnits(t))
  BY ConstantsAssumption, FS_Subset DEF PaidUnits
<1>4. Cardinality(PaidUnits(t)') <= Cardinality(PaidUnits(t))
  BY <1>2, <1>3, FS_Subset
<1>5. /\ Cardinality(PaidUnits(t)') \in Nat /\ Cardinality(PaidUnits(t)) \in Nat
      /\ capacity[t] \in Nat
  <2>1. IsFiniteSet(PaidUnits(t)')
    BY <1>2, <1>3, FS_Subset
  <2>2. QED
    BY <2>1, <1>3, FS_CardinalityType, ConstantsAssumption DEF SalesInvariant, TypeOK
<1>6. Cardinality(PaidUnits(t)) <= capacity[t]
  BY <1>1 DEF SalesInvariant, NoOversell
<1>7. QED
  BY <1>1, <1>4, <1>5, <1>6

\* What fits beside everything held fits beside everything paid: issuing the
\* tickets of an order that passed the second inventory check oversells
\* nothing, whatever instant the check was made for.
LEMMA IssueFits ==
  ASSUME SalesInvariant, ValidTicketIsSettled', NEW o \in Orders, NEW now \in Instants,
         Fits(o, now), IssueTickets(o), UNCHANGED capacity
  PROVE  NoOversell'
<1> SUFFICES ASSUME NEW t \in Tiers PROVE Cardinality(Sold(t)') <= capacity'[t]
  BY DEF NoOversell
<1> DEFINE others == {u \in HeldUnits(t, now) : OrderOf[u] # o}
           own == {u \in UnitsOf(o) : TierOf[u] = t}
<1>1. Sold(t)' = PaidUnits(t)' /\ Sold(t) = PaidUnits(t)
  BY SoldIsPaid DEF SalesInvariant, ValidTicketIsSettled, Sold, PaidUnits
<1>2. /\ IsFiniteSet(others) /\ IsFiniteSet(own) /\ IsFiniteSet(PaidUnits(t))
      /\ capacity[t] \in Nat
  BY ConstantsAssumption, FS_Subset
     DEF HeldUnits, UnitsOf, PaidUnits, SalesInvariant, TypeOK
<1>3. PaidUnits(t)' \in SUBSET (others \cup own)
  BY ConstantsAssumption
     DEF IssueTickets, PaidUnits, HeldUnits, Holds, Committed, UnitsOf, SalesInvariant, TypeOK
<1>4. CASE t \in TiersOf(o)
  <2>1. Cardinality(others) + Cardinality(own) <= capacity[t]
    BY <1>4 DEF Fits
  <2>2. /\ IsFiniteSet(others \cup own)
        /\ Cardinality(others \cup own)
             = Cardinality(others) + Cardinality(own) - Cardinality(others \cap own)
    BY <1>2, FS_Union
  <2>3. /\ Cardinality(others) \in Nat /\ Cardinality(own) \in Nat
        /\ Cardinality(others \cap own) \in Nat
    BY <1>2, FS_CardinalityType, FS_Subset
  <2>4. /\ Cardinality(PaidUnits(t)') \in Nat
        /\ Cardinality(PaidUnits(t)') <= Cardinality(others \cup own)
    BY <1>3, <2>2, FS_Subset, FS_CardinalityType
  <2>5. QED
    BY <1>1, <1>2, <2>1, <2>2, <2>3, <2>4
<1>5. CASE t \notin TiersOf(o)
  <2>1. PaidUnits(t)' \in SUBSET PaidUnits(t)
    BY <1>5, ConstantsAssumption
       DEF TiersOf, UnitsOf, PaidUnits, IssueTickets, SalesInvariant, TypeOK
  <2>2. /\ Cardinality(PaidUnits(t)') <= Cardinality(PaidUnits(t))
        /\ Cardinality(PaidUnits(t)') \in Nat /\ Cardinality(PaidUnits(t)) \in Nat
    BY <1>2, <2>1, FS_Subset, FS_CardinalityType
  <2>3. QED
    BY <1>1, <1>2, <2>2 DEF SalesInvariant, NoOversell
<1>6. QED
  BY <1>4, <1>5

\* The editor's count leaves orders under review out, but never a paid one.
LEMMA EditKeepsSold ==
  ASSUME SalesInvariant, ValidTicketIsSettled', NEW now \in Instants,
         NEW listed \in SUBSET Tiers, NEW totals \in [Tiers -> 1..MaxCapacity],
         SaveTicketTiers(listed, totals, now)
  PROVE  NoOversell'
<1> SUFFICES ASSUME NEW t \in Tiers PROVE Cardinality(Sold(t)') <= capacity'[t]
  BY DEF NoOversell
<1>1. Sold(t)' = Sold(t) /\ Sold(t) = PaidUnits(t)
  BY SoldIsPaid DEF SalesInvariant, Sold, SaveTicketTiers, orderVars
<1>2. IsFiniteSet(CommittedToTier(t, now)) /\ IsFiniteSet(PaidUnits(t))
  BY ConstantsAssumption, FS_Subset DEF CommittedToTier, PaidUnits
<1>3. PaidUnits(t) \in SUBSET CommittedToTier(t, now)
  BY DEF PaidUnits, CommittedToTier
<1>4. /\ Cardinality(PaidUnits(t)) <= Cardinality(CommittedToTier(t, now))
      /\ Cardinality(PaidUnits(t)) \in Nat /\ Cardinality(CommittedToTier(t, now)) \in Nat
  BY <1>2, <1>3, FS_Subset, FS_CardinalityType
<1>5. CASE t \in listed
  <2>1. capacity'[t] = totals[t] /\ totals[t] \in Nat
    BY <1>5, ConstantsAssumption DEF SaveTicketTiers
  <2>2. totals[t] >= Cardinality(CommittedToTier(t, now))
    BY <1>5 DEF SaveTicketTiers
  <2>3. QED
    BY <1>1, <1>4, <2>1, <2>2
<1>6. CASE t \notin listed
  BY <1>1, <1>6 DEF SaveTicketTiers, SalesInvariant, NoOversell
<1>7. QED
  BY <1>5, <1>6

LEMMA WebhookNoOversell ==
  ASSUME SalesInvariant, ValidTicketIsSettled', NEW o \in Orders, NEW now \in Instants,
         Webhook(o, now)
  PROVE  NoOversell'
<1> USE DEF eventVars, tierVars
<1>1. CASE MarkPaymentProcessing(o) \/ MarkPaymentFailed(o)
  BY <1>1, NothingMoreSold DEF MarkPaymentProcessing, MarkPaymentFailed, SalesInvariant, TypeOK
<1>2. CASE FulfillPaidOrder(o, now)
  <2>1. CASE ToReview(o)
    BY <1>2, <2>1, NothingMoreSold DEF FulfillPaidOrder, ToReview, SalesInvariant, TypeOK
  <2>2. CASE ~Invalidated(o, now) /\ IssueTickets(o)
    BY <1>2, <2>2, IssueFits DEF FulfillPaidOrder, Invalidated
  <2>3. QED
    BY <1>2, <2>1, <2>2 DEF FulfillPaidOrder
<1>3. ASSUME NEW affected, ReconcileUnattached(o, affected, now) PROVE NoOversell'
  <2>1. CASE ~Invalidated(o, now) /\ IssueTickets(o)
    BY <1>3, <2>1, IssueFits DEF ReconcileUnattached, Invalidated
  <2>2. CASE status' = [status EXCEPT
                ![o] = IF @ = "creating_checkout" THEN "requires_review" ELSE @]
    BY <1>3, <2>2, NothingMoreSold DEF ReconcileUnattached, SalesInvariant, TypeOK
  <2>3. QED
    BY <1>3, <2>1, <2>2 DEF ReconcileUnattached
<1>4. CASE MarkPaymentRequiresReview(o)
  BY <1>4, NothingMoreSold DEF MarkPaymentRequiresReview, SalesInvariant, TypeOK
<1>5. CASE MarkReconciliationReview(o) \/ ApplyPartialRefund(o) \/ ApplyDispute(o)
  BY <1>5, NothingMoreSold
     DEF MarkReconciliationReview, ApplyPartialRefund, ApplyDispute, ToReview, SalesInvariant, TypeOK
<1>6. CASE ApplyWholeRefund(o)
  BY <1>6, NothingMoreSold DEF ApplyWholeRefund, SalesInvariant, TypeOK
<1>7. QED
  BY <1>1, <1>2, <1>3, <1>4, <1>5, <1>6 DEF Webhook, ReconcileAsRead

LEMMA NextNoOversell ==
  SalesInvariant /\ ValidTicketIsSettled' /\ [Next]_vars => NoOversell'
<1> SUFFICES ASSUME SalesInvariant, ValidTicketIsSettled', [Next]_vars PROVE NoOversell'
  OBVIOUS
<1> USE DEF eventVars, tierVars, orderVars
<1>1. CASE Tick \/ ToggleSales \/ ToggleEligibility \/ UNCHANGED vars
  BY <1>1, NothingMoreSold DEF Tick, ToggleSales, ToggleEligibility, vars
<1>2. ASSUME NEW now \in Instants, ExpireReservations(now) PROVE NoOversell'
  BY <1>2, NothingMoreSold DEF ExpireReservations
<1>3. ASSUME NEW now \in Instants, Organizer(now) PROVE NoOversell'
  <2>1. CASE CancelEvent
    BY <2>1, NothingMoreSold DEF CancelEvent
  <2>2. ASSUME NEW listed \in (SUBSET Tiers) \ {{}}, NEW totals \in [Tiers -> 1..MaxCapacity],
               SaveTicketTiers(listed, totals, now)
        PROVE  NoOversell'
    BY <2>2, EditKeepsSold
  <2>3. QED
    BY <1>3, <2>1, <2>2 DEF Organizer
<1>4. ASSUME NEW now \in Instants, NEW o \in Orders, Checkout(o, now) PROVE NoOversell'
  <2>1. CASE ReserveNew(o, now)
    BY <2>1, NothingMoreSold DEF ReserveNew
  <2>2. CASE ReserveAgain(o, now) \/ Attach(o, now)
    BY <2>2, NothingMoreSold DEF ReserveAgain, Attach, SalesInvariant, TypeOK
  <2>3. QED
    BY <1>4, <2>1, <2>2 DEF Checkout
<1>5. ASSUME NEW now \in Instants, NEW o \in Orders, Webhook(o, now) PROVE NoOversell'
  BY <1>5, WebhookNoOversell
<1>6. ASSUME NEW o \in Orders, CancelReservation(o) PROVE NoOversell'
  BY <1>6, NothingMoreSold DEF CancelReservation, SalesInvariant, TypeOK
<1>7. ASSUME NEW o \in Orders, StripeStep(o) PROVE NoOversell'
  BY <1>7, NothingMoreSold DEF StripeStep, StripeCreate, StripePay, StripeSettle, StripeExpire,
     StripeRefund, StripeDispute, Observe
<1>8. ASSUME NEW u \in Units, Redeem(u) PROVE NoOversell'
  BY <1>8, NothingMoreSold DEF Redeem
<1>9. QED
  BY <1>1, <1>2, <1>3, <1>4, <1>5, <1>6, <1>7, <1>8 DEF Next, Around, Requests, StripeStep

\* No tier is ever oversold: for any carts, any number of buyers and tiers, any
\* lock wait and any order of reservations, payments, edits and refunds.
THEOREM NeverOversold == Spec => []NoOversell
<1>1. Init => SalesInvariant
  BY InitTypeOK, InitSettled, InitNoOversell DEF SalesInvariant
<1>2. SalesInvariant /\ [Next]_vars => SalesInvariant'
  BY NextTypeOK, NextKeepsSettled, NextNoOversell DEF SalesInvariant
<1>3. SalesInvariant => NoOversell
  BY DEF SalesInvariant
<1>4. QED
  BY <1>1, <1>2, <1>3, PTL DEF Spec

-----------------------------------------------------------------------------
(* Tickets and the money *)

\* A step that issues no ticket and takes no fact back keeps them paid for.
LEMMA NothingIssued ==
  ASSUME TicketsArePaidFor,
         \A u \in Units : ticket'[u] # "none" => ticket[u] # "none",
         \A u \in Units : "paid" \in facts[OrderOf[u]] => "paid" \in facts'[OrderOf[u]]
  PROVE  TicketsArePaidFor'
  BY DEF TicketsArePaidFor

\* Tickets are issued only by handlers of a collected payment.
LEMMA WebhookKeepsPaidFor ==
  ASSUME TypeOK, TicketsArePaidFor, NEW o \in Orders, NEW now \in Instants, Webhook(o, now)
  PROVE  TicketsArePaidFor'
<1> USE DEF eventVars, tierVars, orderVars
<1>1. CASE "paid" \in facts[o] /\ FulfillPaidOrder(o, now)
  BY <1>1, ConstantsAssumption
     DEF FulfillPaidOrder, IssueTickets, Withdraw, TicketsArePaidFor, TypeOK
<1>2. CASE ReconcileAsRead(o, now)
  BY <1>2, ConstantsAssumption
     DEF ReconcileAsRead, ReconcileUnattached, IssueTickets, TicketsArePaidFor, TypeOK
<1>3. CASE MarkPaymentProcessing(o) \/ MarkPaymentFailed(o)
  BY <1>3, NothingIssued DEF MarkPaymentProcessing, MarkPaymentFailed
<1>4. CASE \/ MarkPaymentRequiresReview(o) \/ MarkReconciliationReview(o)
           \/ ApplyPartialRefund(o) \/ ApplyDispute(o)
  BY <1>4, NothingIssued DEF MarkPaymentRequiresReview, MarkReconciliationReview,
     ApplyPartialRefund, ApplyDispute, Withdraw
<1>5. CASE ApplyWholeRefund(o)
  BY <1>5, NothingIssued DEF ApplyWholeRefund
<1>6. QED
  BY <1>1, <1>2, <1>3, <1>4, <1>5 DEF Webhook

LEMMA NextPaidFor == TypeOK /\ TicketsArePaidFor /\ [Next]_vars => TicketsArePaidFor'
<1> SUFFICES ASSUME TypeOK, TicketsArePaidFor, [Next]_vars PROVE TicketsArePaidFor'
  OBVIOUS
<1> USE DEF eventVars, tierVars, orderVars
<1>1. CASE Tick \/ ToggleSales \/ ToggleEligibility \/ UNCHANGED vars
  BY <1>1, NothingIssued DEF Tick, ToggleSales, ToggleEligibility, vars
<1>2. ASSUME NEW now \in Instants, ExpireReservations(now) \/ Organizer(now)
      PROVE  TicketsArePaidFor'
  BY <1>2, NothingIssued DEF ExpireReservations, Organizer, CancelEvent, SaveTicketTiers
<1>3. ASSUME NEW now \in Instants, NEW o \in Orders, Checkout(o, now)
      PROVE  TicketsArePaidFor'
  BY <1>3, NothingIssued DEF Checkout, ReserveNew, ReserveAgain, Attach
<1>4. ASSUME NEW now \in Instants, NEW o \in Orders, Webhook(o, now)
      PROVE  TicketsArePaidFor'
  BY <1>4, WebhookKeepsPaidFor
<1>5. ASSUME NEW o \in Orders, CancelReservation(o) PROVE TicketsArePaidFor'
  BY <1>5, NothingIssued DEF CancelReservation
<1>6. ASSUME NEW o \in Orders, StripeStep(o) PROVE TicketsArePaidFor'
  <2>1. \A x \in Orders : facts[x] \subseteq facts'[x]
    BY <1>6 DEF StripeStep, StripeCreate, StripePay, StripeSettle, StripeExpire,
       StripeRefund, StripeDispute, Observe, TypeOK
  <2>2. UNCHANGED ticket
    BY <1>6 DEF StripeStep, StripeCreate, StripePay, StripeSettle, StripeExpire,
       StripeRefund, StripeDispute, Observe
  <2>3. QED
    BY <2>1, <2>2, NothingIssued, ConstantsAssumption
<1>7. ASSUME NEW u \in Units, Redeem(u) PROVE TicketsArePaidFor'
  BY <1>7, NothingIssued DEF Redeem, TypeOK
<1>8. QED
  BY <1>1, <1>2, <1>3, <1>4, <1>5, <1>6, <1>7 DEF Next, Around, Requests, StripeStep

\* No ticket exists without a collected payment, whatever is delivered when.
THEOREM TicketsOnlyForMoney == Spec => []TicketsArePaidFor
<1>1. Init => TicketsArePaidFor
  BY ConstantsAssumption DEF Init, TicketsArePaidFor
<1>2. Init => TypeOK
  BY InitTypeOK
<1>3. TypeOK /\ TicketsArePaidFor /\ [Next]_vars => TypeOK' /\ TicketsArePaidFor'
  BY NextTypeOK, NextPaidFor
<1>4. QED
  BY <1>1, <1>2, <1>3, PTL DEF Spec

-----------------------------------------------------------------------------
(* What no step takes back *)

\* Stripe never takes a fact back.
LEMMA FactsOnlyGrow ==
  ASSUME TypeOK, [Next]_vars
  PROVE  \A o \in Orders : facts[o] \subseteq facts'[o]
<1> SUFFICES ASSUME NEW x \in Orders PROVE facts[x] \subseteq facts'[x]
  OBVIOUS
<1> USE DEF eventVars, tierVars, orderVars
<1>1. CASE UNCHANGED facts
  BY <1>1
<1>2. ASSUME NEW o \in Orders, StripeStep(o) PROVE facts[x] \subseteq facts'[x]
  BY <1>2 DEF StripeStep, StripeCreate, StripePay, StripeSettle, StripeExpire, StripeRefund,
     StripeDispute, Observe, TypeOK
<1>3. ASSUME NEW now \in Instants, Organizer(now) PROVE UNCHANGED facts
  BY <1>3 DEF Organizer, CancelEvent, SaveTicketTiers
<1>4. ASSUME NEW o \in Orders, NEW now \in Instants, Checkout(o, now) PROVE UNCHANGED facts
  BY <1>4 DEF Checkout, ReserveNew, ReserveAgain, Attach
<1>5. ASSUME NEW o \in Orders, NEW now \in Instants, Webhook(o, now) PROVE UNCHANGED facts
  BY <1>5 DEF Webhook, ReconcileAsRead, ReconcileUnattached, MarkPaymentProcessing,
     MarkPaymentFailed, FulfillPaidOrder, MarkPaymentRequiresReview,
     MarkReconciliationReview, ApplyWholeRefund, ApplyPartialRefund, ApplyDispute
<1>6. CASE Tick \/ ToggleSales \/ ToggleEligibility \/ UNCHANGED vars
  BY <1>1, <1>6 DEF Tick, ToggleSales, ToggleEligibility, vars
<1>7. ASSUME NEW now \in Instants, ExpireReservations(now) PROVE UNCHANGED facts
  BY <1>7 DEF ExpireReservations
<1>8. ASSUME NEW o \in Orders, CancelReservation(o) PROVE UNCHANGED facts
  BY <1>8 DEF CancelReservation
<1>9. ASSUME NEW u \in Units, Redeem(u) PROVE UNCHANGED facts
  BY <1>9 DEF Redeem
<1>10. QED
  BY <1>1, <1>2, <1>3, <1>4, <1>5, <1>6, <1>7, <1>8, <1>9
     DEF Next, Around, Requests, StripeStep

\* An order once reserved always has a status.
LEMMA ReservedStays ==
  ASSUME TypeOK, [Next]_vars
  PROVE  \A o \in Orders : status[o] # "none" => status'[o] # "none"
<1> SUFFICES ASSUME NEW x \in Orders, status[x] # "none" PROVE status'[x] # "none"
  OBVIOUS
<1> USE DEF eventVars, tierVars, orderVars
<1>1. CASE UNCHANGED status
  BY <1>1
<1>2. CASE Tick \/ ToggleSales \/ ToggleEligibility \/ UNCHANGED vars
  BY <1>1, <1>2 DEF Tick, ToggleSales, ToggleEligibility, vars
<1>3. ASSUME NEW o \in Orders, StripeStep(o) PROVE UNCHANGED status
  BY <1>3 DEF StripeStep, StripeCreate, StripePay, StripeSettle, StripeExpire, StripeRefund,
     StripeDispute, Observe
<1>4. ASSUME NEW now \in Instants, Organizer(now) PROVE UNCHANGED status
  BY <1>4 DEF Organizer, CancelEvent, SaveTicketTiers
<1>5. ASSUME NEW o \in Orders, NEW now \in Instants,
             Checkout(o, now)
      PROVE  status'[x] # "none"
  BY <1>5 DEF Checkout, ReserveNew, ReserveAgain, Attach, TypeOK
<1>6. ASSUME NEW o \in Orders, NEW now \in Instants, Webhook(o, now) PROVE status'[x] # "none"
  BY <1>6 DEF Webhook, ReconcileAsRead, ReconcileUnattached, MarkPaymentProcessing,
     MarkPaymentFailed, FulfillPaidOrder, MarkPaymentRequiresReview, MarkReconciliationReview,
     ApplyWholeRefund, ApplyPartialRefund, ApplyDispute, ToReview, IssueTickets, TypeOK
<1>7. ASSUME NEW u \in Units, Redeem(u) PROVE UNCHANGED status
  BY <1>7 DEF Redeem
<1>8. ASSUME NEW now \in Instants, ExpireReservations(now) PROVE status'[x] # "none"
  BY <1>8 DEF ExpireReservations
<1>9. ASSUME NEW o \in Orders, CancelReservation(o) PROVE status'[x] # "none"
  BY <1>9 DEF CancelReservation, TypeOK
<1>10. QED
  BY <1>1, <1>2, <1>3, <1>4, <1>5, <1>6, <1>7, <1>8, <1>9
     DEF Next, Around, Requests, StripeStep

-----------------------------------------------------------------------------
(* Tickets fit their order.  The property is inductive beside TypeOK: every  *)
(* writer that moves an order also moves the tickets it may have.            *)

LEMMA InitCoherent == Init => TicketSetsCoherent
  BY DEF Init, TicketSetsCoherent, TicketSetCoherent, Issued, UnitsOf, Unfinished

\* A step that keeps the order, its tickets and the event keeps them coherent.
LEMMA SameKeepsCoherent ==
  ASSUME TypeOK, NEW o \in Orders, TicketSetCoherent(o), UNCHANGED eventStatus,
         status'[o] = status[o], \A u \in UnitsOf(o) : ticket'[u] = ticket[u]
  PROVE  TicketSetCoherent(o)'
<1>1. Issued(o)' = Issued(o) /\ UnitsOf(o)' = UnitsOf(o)
  BY DEF Issued, UnitsOf
<1>2. QED
  BY <1>1 DEF TicketSetCoherent

\* An order that never had tickets may become anything but paid.
LEMMA NoTicketsCoherent ==
  ASSUME TypeOK, NEW o \in Orders, Issued(o) = {}, status'[o] # "paid",
         \A u \in UnitsOf(o) : ticket'[u] = ticket[u]
  PROVE  TicketSetCoherent(o)'
<1>1. Issued(o)' = {} /\ UnitsOf(o)' = UnitsOf(o)
  BY DEF Issued, UnitsOf
<1>2. \A u \in UnitsOf(o) : ticket'[u] = "none"
  BY <1>1 DEF Issued, UnitsOf
<1>3. QED
  BY <1>1, <1>2 DEF TicketSetCoherent

\* An order whose tickets were withdrawn may be one that is over or under review.
LEMMA WithdrawnCoherent ==
  ASSUME TypeOK, NEW o \in Orders, TicketSetCoherent(o),
         status'[o] \notin {"paid", "payment_processing", "none"} \cup Unfinished,
         \A u \in UnitsOf(o) : ticket'[u] # "valid" /\ (ticket'[u] = "none" <=> ticket[u] = "none")
  PROVE  TicketSetCoherent(o)'
<1>1. Issued(o)' = Issued(o) /\ UnitsOf(o)' = UnitsOf(o)
  BY DEF Issued, UnitsOf
<1>2. QED
  BY <1>1 DEF TicketSetCoherent

\* Issuing all of an order's tickets makes it a coherent paid one.
LEMMA IssuedCoherent ==
  ASSUME TypeOK, NEW o \in Orders, IssueTickets(o), eventStatus' # "cancelled"
  PROVE  TicketSetCoherent(o)'
<1>1. \A u \in UnitsOf(o) : ticket'[u] = "valid"
  BY DEF IssueTickets, UnitsOf
<1>2. Issued(o)' = UnitsOf(o)' /\ UnitsOf(o)' = UnitsOf(o)
  BY <1>1 DEF Issued, UnitsOf
<1>3. status'[o] = "paid"
  BY DEF IssueTickets, TypeOK
<1>4. QED
  BY <1>1, <1>2, <1>3 DEF TicketSetCoherent, Unfinished

\* Statuses of orders without tickets.
LEMMA BeforeTickets ==
  ASSUME NEW o \in Orders, TicketSetCoherent(o),
         status[o] \in Unfinished \cup {"payment_processing", "none"}
  PROVE  Issued(o) = {}
  BY DEF TicketSetCoherent, Unfinished

\* Withdrawing touches the order's own valid tickets and nothing else.
LEMMA WithdrawEffect ==
  ASSUME NEW o \in Orders, NEW s \in {"cancelled", "refunded"}, ticket' = Withdraw(o, s)
  PROVE  /\ \A u \in UnitsOf(o) : ticket'[u] # "valid" /\ (ticket'[u] = "none" <=> ticket[u] = "none")
         /\ \A x \in Orders \ {o} : \A u \in UnitsOf(x) : ticket'[u] = ticket[u]
  BY DEF Withdraw, UnitsOf

LEMMA WebhookKeepsCoherent ==
  ASSUME TypeOK, TicketSetsCoherent, NEW o \in Orders, NEW now \in Instants, Webhook(o, now)
  PROVE  TicketSetsCoherent'
<1> SUFFICES ASSUME NEW x \in Orders PROVE TicketSetCoherent(x)'
  BY DEF TicketSetsCoherent
<1> USE DEF eventVars, tierVars
<1>0. TicketSetCoherent(o) /\ TicketSetCoherent(x)
  BY DEF TicketSetsCoherent
<1>1. CASE MarkPaymentProcessing(o) \/ MarkPaymentFailed(o)
  <2>1. Issued(o) = {}
    BY <1>0, <1>1, BeforeTickets DEF MarkPaymentProcessing, MarkPaymentFailed
  <2>2. CASE x = o
    BY <1>1, <2>1, <2>2, NoTicketsCoherent DEF MarkPaymentProcessing, MarkPaymentFailed, TypeOK
  <2>3. CASE x # o
    BY <1>0, <1>1, <2>3, SameKeepsCoherent DEF MarkPaymentProcessing, MarkPaymentFailed, TypeOK
  <2>4. QED
    BY <2>2, <2>3
<1>2. CASE FulfillPaidOrder(o, now)
  <2>1. CASE status[o] \notin Settled /\ Invalidated(o, now) /\ ToReview(o) /\ UNCHANGED ticket
    <3>1. CASE x = o
      <4>1. status[o] # "paid" /\ status'[o] = "requires_review"
        BY <2>1 DEF ToReview, Settled, TypeOK
      <4>2. \A u \in UnitsOf(o) : ticket[u] # "valid"
        BY <1>0, <4>1 DEF TicketSetCoherent
      <4>3. QED
        BY <1>0, <2>1, <3>1, <4>1, <4>2, WithdrawnCoherent DEF Unfinished
    <3>2. CASE x # o
      BY <1>0, <1>2, <2>1, <3>2, SameKeepsCoherent DEF FulfillPaidOrder, ToReview, TypeOK
    <3>3. QED
      BY <3>1, <3>2
  <2>2. CASE ~Invalidated(o, now) /\ IssueTickets(o)
    <3>1. eventStatus' = "published" /\ eventStatus = "published"
      BY <1>2, <2>2 DEF FulfillPaidOrder, Invalidated, CurrentlyEligible
    <3>2. CASE x = o
      BY <2>2, <3>1, <3>2, IssuedCoherent
    <3>3. CASE x # o
      BY <1>0, <2>2, <3>1, <3>3, SameKeepsCoherent DEF IssueTickets, UnitsOf, TypeOK
    <3>4. QED
      BY <3>2, <3>3
  <2>3. QED
    BY <1>0, <1>2, <2>1, <2>2 DEF FulfillPaidOrder
<1>3. ASSUME NEW affected, ReconcileUnattached(o, affected, now) PROVE TicketSetCoherent(x)'
  <2>1. CASE ~Invalidated(o, now) /\ IssueTickets(o)
    <3>1. eventStatus' = "published" /\ eventStatus = "published"
      BY <1>3, <2>1 DEF ReconcileUnattached, Invalidated, CurrentlyEligible
    <3>2. CASE x = o
      BY <2>1, <3>1, <3>2, IssuedCoherent
    <3>3. CASE x # o
      BY <1>0, <2>1, <3>1, <3>3, SameKeepsCoherent DEF IssueTickets, UnitsOf, TypeOK
    <3>4. QED
      BY <3>2, <3>3
  <2>2. CASE /\ status' = [status EXCEPT
                    ![o] = IF @ = "creating_checkout" THEN "requires_review" ELSE @]
             /\ UNCHANGED ticket
    <3>1. CASE x = o /\ status[o] = "creating_checkout"
      <4>1. Issued(o) = {}
        BY <1>0, <3>1, BeforeTickets DEF Unfinished
      <4>2. QED
        BY <2>2, <3>1, <4>1, NoTicketsCoherent DEF TypeOK
    <3>2. CASE ~(x = o /\ status[o] = "creating_checkout")
      BY <1>0, <1>3, <2>2, <3>2, SameKeepsCoherent DEF ReconcileUnattached, TypeOK
    <3>3. QED
      BY <3>1, <3>2
  <2>3. QED
    BY <1>3, <2>1, <2>2 DEF ReconcileUnattached
<1>4. ASSUME NEW s \in {"cancelled", "refunded"}, ticket' = Withdraw(o, s), UNCHANGED eventStatus,
             status'[o] \in {"partially_refunded", "refunded", "requires_review"},
             \A y \in Orders \ {o} : status'[y] = status[y]
      PROVE  TicketSetCoherent(x)'
  <2>1. CASE x = o
    BY <1>0, <1>4, <2>1, WithdrawEffect, WithdrawnCoherent DEF Unfinished
  <2>2. CASE x # o
    BY <1>0, <1>4, <2>2, WithdrawEffect, SameKeepsCoherent
  <2>3. QED
    BY <2>1, <2>2
<1>5. CASE MarkPaymentRequiresReview(o)
  BY <1>4, <1>5 DEF MarkPaymentRequiresReview, TypeOK
<1>6. CASE MarkReconciliationReview(o) \/ ApplyPartialRefund(o) \/ ApplyDispute(o)
  BY <1>4, <1>6 DEF MarkReconciliationReview, ApplyPartialRefund, ApplyDispute, ToReview, TypeOK
<1>7. CASE ApplyWholeRefund(o)
  <2>1. CASE x = o
    <3>1. status'[o] = "refunded"
      BY <1>7 DEF ApplyWholeRefund, TypeOK
    <3>2. \A u \in UnitsOf(o) : ticket'[u] # "valid" /\ (ticket'[u] = "none" <=> ticket[u] = "none")
      BY <1>7 DEF ApplyWholeRefund, UnitsOf
    <3>3. QED
      BY <1>0, <2>1, <3>1, <3>2, WithdrawnCoherent DEF Unfinished
  <2>2. CASE x # o
    BY <1>0, <1>7, <2>2, SameKeepsCoherent DEF ApplyWholeRefund, UnitsOf, TypeOK
  <2>3. QED
    BY <2>1, <2>2
<1>8. QED
  BY <1>1, <1>2, <1>3, <1>5, <1>6, <1>7 DEF Webhook, ReconcileAsRead

\* Orders without tickets move between the statuses of a reservation and its end.
LEMMA CheckoutKeepsCoherent ==
  ASSUME TypeOK, TicketSetsCoherent, UNCHANGED <<ticket, eventStatus>>,
         \A x \in Orders : status'[x] # status[x] =>
            status[x] \in Unfinished \cup {"none"} /\ status'[x] # "paid"
  PROVE  TicketSetsCoherent'
<1> SUFFICES ASSUME NEW x \in Orders PROVE TicketSetCoherent(x)'
  BY DEF TicketSetsCoherent
<1>1. TicketSetCoherent(x)
  BY DEF TicketSetsCoherent
<1>2. CASE status'[x] = status[x]
  BY <1>1, <1>2, SameKeepsCoherent
<1>3. CASE status'[x] # status[x]
  BY <1>1, <1>3, BeforeTickets, NoTicketsCoherent
<1>4. QED
  BY <1>2, <1>3

\* At the door and at the end of the event, tickets of paid orders change.
LEMMA DoorKeepsCoherent ==
  ASSUME TypeOK, TicketSetsCoherent, CancelEvent \/ \E u \in Units : Redeem(u)
  PROVE  TicketSetsCoherent'
<1> SUFFICES ASSUME NEW x \in Orders PROVE TicketSetCoherent(x)'
  BY DEF TicketSetsCoherent
<1> USE DEF orderVars
<1>0. TicketSetCoherent(x)
  BY DEF TicketSetsCoherent
<1>1. CASE CancelEvent
  <2>1. Issued(x)' = Issued(x) /\ UnitsOf(x)' = UnitsOf(x)
    BY <1>1 DEF CancelEvent, Issued, UnitsOf, TypeOK
  <2>2. QED
    BY <1>0, <1>1, <2>1 DEF CancelEvent, TicketSetCoherent, UnitsOf, TypeOK
<1>2. ASSUME NEW u \in Units, Redeem(u) PROVE TicketSetCoherent(x)'
  <2>1. Issued(x)' = Issued(x) /\ UnitsOf(x)' = UnitsOf(x)
    BY <1>2 DEF Redeem, Issued, UnitsOf, TypeOK
  <2>2. UNCHANGED <<status, eventStatus>>
    BY <1>2 DEF Redeem, eventVars
  <2>3. \A v \in UnitsOf(x) : ticket'[v] = ticket[v] \/ (ticket'[v] = "used" /\ status[x] = "paid")
    BY <1>2 DEF Redeem, UnitsOf, TypeOK
  <2>4. QED
    BY <1>0, <2>1, <2>2, <2>3 DEF TicketSetCoherent
<1>3. QED
  BY <1>1, <1>2

LEMMA NextKeepsCoherent == TypeOK /\ TicketSetsCoherent /\ [Next]_vars => TicketSetsCoherent'
<1> SUFFICES ASSUME TypeOK, TicketSetsCoherent, [Next]_vars PROVE TicketSetsCoherent'
  OBVIOUS
<1> USE DEF eventVars, tierVars, orderVars
<1>1. CASE Tick \/ ToggleSales \/ ToggleEligibility \/ UNCHANGED vars
  BY <1>1, CheckoutKeepsCoherent DEF Tick, ToggleSales, ToggleEligibility, vars
<1>2. ASSUME NEW now \in Instants, ExpireReservations(now) PROVE TicketSetsCoherent'
  BY <1>2, CheckoutKeepsCoherent DEF ExpireReservations, Stale
<1>3. ASSUME NEW now \in Instants, Organizer(now) PROVE TicketSetsCoherent'
  <2>1. ASSUME NEW listed, NEW totals, SaveTicketTiers(listed, totals, now)
        PROVE  TicketSetsCoherent'
    BY <2>1, CheckoutKeepsCoherent DEF SaveTicketTiers
  <2>2. QED
    BY <1>3, <2>1, DoorKeepsCoherent DEF Organizer
<1>4. ASSUME NEW now \in Instants, NEW o \in Orders, Checkout(o, now) PROVE TicketSetsCoherent'
  <2>1. CASE ReserveNew(o, now)
    BY <2>1, CheckoutKeepsCoherent DEF ReserveNew, Stale
  <2>2. CASE ReserveAgain(o, now) \/ Attach(o, now)
    BY <2>2, CheckoutKeepsCoherent DEF ReserveAgain, Attach, Stale, Unfinished, TypeOK
  <2>3. QED
    BY <1>4, <2>1, <2>2 DEF Checkout
<1>5. ASSUME NEW now \in Instants, NEW o \in Orders, Webhook(o, now) PROVE TicketSetsCoherent'
  BY <1>5, WebhookKeepsCoherent
<1>6. ASSUME NEW o \in Orders, CancelReservation(o) PROVE TicketSetsCoherent'
  BY <1>6, CheckoutKeepsCoherent DEF CancelReservation, TypeOK
<1>7. ASSUME NEW o \in Orders, StripeStep(o) PROVE TicketSetsCoherent'
  BY <1>7, CheckoutKeepsCoherent DEF StripeStep, StripeCreate, StripePay, StripeSettle,
     StripeExpire, StripeRefund, StripeDispute, Observe
<1>8. ASSUME NEW u \in Units, Redeem(u) PROVE TicketSetsCoherent'
  BY <1>8, DoorKeepsCoherent
<1>9. QED
  BY <1>1, <1>2, <1>3, <1>4, <1>5, <1>6, <1>7, <1>8 DEF Next, Around, Requests, StripeStep

\* The tickets of every order fit its status after any transactions in any
\* order: the mismatch that fulfill_paid_order looks for first never arises.
THEOREM TicketSetsFit == Spec => []TicketSetsCoherent
  BY InitTypeOK, NextTypeOK, InitCoherent, NextKeepsCoherent, PTL DEF Spec

-----------------------------------------------------------------------------
(* What no step takes back *)

\* The moves the guard trigger on tickets allows.
TicketMoves ==
    \A u \in Units : ticket'[u] # ticket[u] =>
        <<ticket[u], ticket'[u]>> \in
           ({"none"} \X {"valid"}) \cup ({"valid"} \X {"used", "refunded", "cancelled"})
             \cup {<<"cancelled", "refunded">>}

\* Issuing gives tickets only where there were none.
LEMMA IssueMoves ==
  ASSUME TypeOK, NEW o \in Orders, TicketSetCoherent(o), IssueTickets(o),
         status[o] \notin Settled \cup Released
  PROVE  TicketMoves
<1>1. Issued(o) = {}
  BY BeforeTickets DEF TypeOK, OrderStatus, Settled, Released
<1>2. QED
  BY <1>1 DEF TicketMoves, IssueTickets, Issued, UnitsOf, TypeOK

LEMMA WebhookMoves ==
  ASSUME TypeOK, TicketSetsCoherent, NEW o \in Orders, NEW now \in Instants, Webhook(o, now)
  PROVE  TicketMoves
<1>0. TicketSetCoherent(o)
  BY DEF TicketSetsCoherent
<1>1. CASE UNCHANGED ticket
  BY <1>1 DEF TicketMoves
<1>2. ASSUME ticket' = Withdraw(o, "cancelled") PROVE TicketMoves
  BY <1>2 DEF Withdraw, TicketMoves, TypeOK
<1>3. CASE FulfillPaidOrder(o, now)
  <2>1. CASE ~Invalidated(o, now) /\ status[o] \notin Settled /\ IssueTickets(o)
    BY <1>0, <2>1, IssueMoves DEF Invalidated
  <2>2. QED
    BY <1>1, <1>2, <1>3, <2>1 DEF FulfillPaidOrder
<1>4. ASSUME NEW affected, ReconcileUnattached(o, affected, now) PROVE TicketMoves
  <2>1. CASE status[o] = "creating_checkout" /\ IssueTickets(o)
    BY <1>0, <2>1, IssueMoves DEF Settled, Released
  <2>2. QED
    BY <1>1, <1>4, <2>1 DEF ReconcileUnattached
<1>5. CASE ApplyWholeRefund(o)
  BY <1>5 DEF ApplyWholeRefund, TicketMoves, TypeOK
<1>6. CASE MarkPaymentProcessing(o) \/ MarkPaymentFailed(o)
  BY <1>1, <1>6 DEF MarkPaymentProcessing, MarkPaymentFailed
<1>7. CASE \/ MarkPaymentRequiresReview(o) \/ MarkReconciliationReview(o)
           \/ ApplyPartialRefund(o) \/ ApplyDispute(o)
  BY <1>2, <1>7 DEF MarkPaymentRequiresReview, MarkReconciliationReview, ApplyPartialRefund, ApplyDispute
<1>8. QED
  BY <1>3, <1>4, <1>5, <1>6, <1>7 DEF Webhook, ReconcileAsRead

LEMMA NextMoves == TypeOK /\ TicketSetsCoherent /\ [Next]_vars => TicketMoves
<1> SUFFICES ASSUME TypeOK, TicketSetsCoherent, [Next]_vars PROVE TicketMoves
  OBVIOUS
<1> USE DEF eventVars, tierVars, orderVars
<1>1. CASE UNCHANGED ticket
  BY <1>1 DEF TicketMoves
<1>2. CASE Tick \/ ToggleSales \/ ToggleEligibility \/ UNCHANGED vars
  BY <1>1, <1>2 DEF Tick, ToggleSales, ToggleEligibility, vars
<1>3. ASSUME NEW now \in Instants, ExpireReservations(now) PROVE TicketMoves
  BY <1>1, <1>3 DEF ExpireReservations
<1>4. ASSUME NEW now \in Instants, Organizer(now) PROVE TicketMoves
  <2>1. CASE CancelEvent
    BY <2>1 DEF CancelEvent, TicketMoves, TypeOK
  <2>2. ASSUME NEW listed, NEW totals, SaveTicketTiers(listed, totals, now) PROVE TicketMoves
    BY <1>1, <2>2 DEF SaveTicketTiers
  <2>3. QED
    BY <1>4, <2>1, <2>2 DEF Organizer
<1>5. ASSUME NEW now \in Instants, NEW o \in Orders, Checkout(o, now) \/ CancelReservation(o)
      PROVE  TicketMoves
  BY <1>1, <1>5 DEF Checkout, ReserveNew, ReserveAgain, Attach, CancelReservation
<1>6. ASSUME NEW now \in Instants, NEW o \in Orders, Webhook(o, now) PROVE TicketMoves
  BY <1>6, WebhookMoves
<1>7. ASSUME NEW o \in Orders, StripeStep(o) PROVE TicketMoves
  BY <1>1, <1>7 DEF StripeStep, StripeCreate, StripePay, StripeSettle, StripeExpire,
     StripeRefund, StripeDispute, Observe
<1>8. ASSUME NEW u \in Units, Redeem(u) PROVE TicketMoves
  BY <1>8 DEF Redeem, TicketMoves, TypeOK
<1>9. CASE \E o \in Orders : CancelReservation(o)
  BY <1>1, <1>9 DEF CancelReservation
<1>10. QED
  BY <1>2, <1>3, <1>4, <1>5, <1>6, <1>7, <1>8, <1>9 DEF Next, Around, Requests, StripeStep

-----------------------------------------------------------------------------
(* What may become of an order's status in one step *)

\* Released, refunded and expired orders, and those that were never reserved.
OrderMoves(o) ==
    /\ status[o] \in Released => status'[o] \in Released \cup {"requires_review", "refunded"}
    /\ status[o] = "refunded" => status'[o] = "refunded"
    /\ status[o] # "expired" /\ status'[o] = "expired" =>
           status[o] \in Unfinished /\ deadline[o] <= clock

LEMMA SameMoves ==
  ASSUME NEW x \in Orders, status'[x] = status[x]
  PROVE  OrderMoves(x)
  BY DEF OrderMoves, Released

LEMMA WebhookOrderMoves ==
  ASSUME TypeOK, NEW o \in Orders, NEW now \in Instants, Webhook(o, now), NEW x \in Orders
  PROVE  OrderMoves(x)
<1>1. CASE MarkPaymentProcessing(o) \/ MarkPaymentFailed(o)
  BY <1>1 DEF MarkPaymentProcessing, MarkPaymentFailed, OrderMoves, Unfinished, Released, TypeOK
<1>2. CASE ToReview(o)
  BY <1>2 DEF ToReview, OrderMoves, Released, TypeOK
<1>3. CASE IssueTickets(o) /\ status[o] \notin Settled \cup Released
  BY <1>3 DEF IssueTickets, OrderMoves, Settled, Released, TypeOK
<1>4. CASE FulfillPaidOrder(o, now)
  BY <1>2, <1>3, <1>4 DEF FulfillPaidOrder, Invalidated
<1>5. ASSUME NEW affected, ReconcileUnattached(o, affected, now) PROVE OrderMoves(x)
  <2>1. CASE status[o] = "creating_checkout" /\ IssueTickets(o)
    BY <1>3, <2>1 DEF Settled, Released
  <2>2. CASE status' = [status EXCEPT
                ![o] = IF @ = "creating_checkout" THEN "requires_review" ELSE @]
    BY <2>2 DEF OrderMoves, Released, TypeOK
  <2>3. QED
    BY <1>5, <2>1, <2>2 DEF ReconcileUnattached
<1>6. CASE MarkPaymentRequiresReview(o)
  BY <1>6 DEF MarkPaymentRequiresReview, OrderMoves, Released, TypeOK
<1>7. CASE ApplyWholeRefund(o)
  BY <1>7 DEF ApplyWholeRefund, OrderMoves, Released, TypeOK
<1>8. CASE MarkReconciliationReview(o) \/ ApplyPartialRefund(o) \/ ApplyDispute(o)
  BY <1>2, <1>8 DEF MarkReconciliationReview, ApplyPartialRefund, ApplyDispute
<1>9. QED
  BY <1>1, <1>4, <1>5, <1>6, <1>7, <1>8 DEF Webhook, ReconcileAsRead

\* A statement's instant is never later than the step that commits it.
LEMMA StaleIsOver ==
  ASSUME TypeOK, NEW now \in Instants, NEW x \in Orders, Stale(x, now)
  PROVE  status[x] \in Unfinished /\ deadline[x] <= clock
<1>1. now \in Nat /\ now <= clock /\ clock \in Nat /\ deadline[x] \in Nat
  BY DEF Instants, TypeOK
<1>2. QED
  BY <1>1 DEF Stale

LEMMA NextOrderMoves ==
  ASSUME TypeOK, [Next]_vars, NEW x \in Orders
  PROVE  OrderMoves(x)
<1> USE DEF eventVars, tierVars, orderVars
<1>1. CASE UNCHANGED status
  BY <1>1, SameMoves
<1>2. CASE Tick \/ ToggleSales \/ ToggleEligibility \/ UNCHANGED vars
  BY <1>1, <1>2 DEF Tick, ToggleSales, ToggleEligibility, vars
<1>3. ASSUME NEW now \in Instants, ExpireReservations(now) PROVE OrderMoves(x)
  <2>1. CASE Stale(x, now)
    BY <1>3, <2>1, StaleIsOver DEF ExpireReservations, OrderMoves, Unfinished, Released
  <2>2. CASE ~Stale(x, now)
    BY <1>3, <2>2, SameMoves DEF ExpireReservations
  <2>3. QED
    BY <2>1, <2>2
<1>4. ASSUME NEW now \in Instants, Organizer(now) PROVE OrderMoves(x)
  BY <1>1, <1>4 DEF Organizer, CancelEvent, SaveTicketTiers
<1>5. ASSUME NEW now \in Instants, NEW o \in Orders, Checkout(o, now) PROVE OrderMoves(x)
  <2>1. CASE ReserveNew(o, now)
    <3>1. CASE x = o
      BY <2>1, <3>1 DEF ReserveNew, OrderMoves, Released
    <3>2. CASE x # o /\ Stale(x, now)
      BY <2>1, <3>2, StaleIsOver DEF ReserveNew, OrderMoves, Unfinished, Released
    <3>3. CASE x # o /\ ~Stale(x, now)
      BY <2>1, <3>3, SameMoves DEF ReserveNew
    <3>4. QED
      BY <3>1, <3>2, <3>3
  <2>2. CASE ReserveAgain(o, now)
    <3>1. CASE x = o
      BY <2>2, <3>1, StaleIsOver DEF ReserveAgain, OrderMoves, Unfinished, Released, TypeOK
    <3>2. CASE x # o
      BY <2>2, <3>2, SameMoves DEF ReserveAgain, TypeOK
    <3>3. QED
      BY <3>1, <3>2
  <2>3. CASE Attach(o, now)
    BY <2>3 DEF Attach, OrderMoves, Released, TypeOK
  <2>4. QED
    BY <1>5, <2>1, <2>2, <2>3 DEF Checkout
<1>6. ASSUME NEW now \in Instants, NEW o \in Orders, Webhook(o, now) PROVE OrderMoves(x)
  BY <1>6, WebhookOrderMoves
<1>7. ASSUME NEW o \in Orders, CancelReservation(o) PROVE OrderMoves(x)
  BY <1>7 DEF CancelReservation, OrderMoves, Unfinished, Released, TypeOK
<1>8. ASSUME NEW o \in Orders, StripeStep(o) PROVE OrderMoves(x)
  BY <1>1, <1>8 DEF StripeStep, StripeCreate, StripePay, StripeSettle, StripeExpire,
     StripeRefund, StripeDispute, Observe
<1>9. ASSUME NEW u \in Units, Redeem(u) PROVE OrderMoves(x)
  BY <1>1, <1>9 DEF Redeem
<1>10. QED
  BY <1>2, <1>3, <1>4, <1>5, <1>6, <1>7, <1>8, <1>9 DEF Next, Around, Requests, StripeStep

\* A released reservation is never revived, and none is expired before its
\* deadline, however long its statements waited for locks.
THEOREM ReleasedForGood == Spec => OrderHistory
<1>1. TypeOK /\ [Next]_vars =>
        /\ [\A o \in Orders : status[o] \in Released =>
               status'[o] \in Released \cup {"requires_review", "refunded"}]_vars
        /\ [\A o \in Orders : status[o] # "expired" /\ status'[o] = "expired" =>
               status[o] \in Unfinished /\ deadline[o] <= clock]_vars
  BY NextOrderMoves DEF OrderMoves
<1>2. QED
  BY <1>1, InitTypeOK, NextTypeOK, PTL DEF Spec, OrderHistory, ReleasedIsNotRevived, OnlyStaleExpires

\* Tickets only ever move as the guard trigger on their table allows, so no
\* writer's transaction is aborted by it, and a refunded order stays refunded.
THEOREM HistoryIsKept == Spec => AfterSaleHistory
<1>1. TypeOK /\ TicketSetsCoherent /\ [Next]_vars =>
        /\ [\A u \in Units : ticket'[u] # ticket[u] =>
               <<ticket[u], ticket'[u]>> \in
                  ({"none"} \X {"valid"}) \cup ({"valid"} \X {"used", "refunded", "cancelled"})
                    \cup {<<"cancelled", "refunded">>}]_vars
        /\ [\A o \in Orders : status[o] = "refunded" => status'[o] = "refunded"]_vars
  BY NextMoves, NextOrderMoves DEF TicketMoves, OrderMoves
<1>2. QED
  BY <1>1, InitTypeOK, NextTypeOK, TicketSetsFit, PTL
     DEF Spec, AfterSaleHistory, TicketHistory, RefundedIsFinal

-----------------------------------------------------------------------------
(* Seats.  Only reserve_checkout for a request nobody has seen reserves.     *)

\* A session is attached to reserved orders only.
AttachedIsReserved == \A o \in Orders : attached[o] => status[o] # "none"

\* The only step that reserves for an order is its first reserve_checkout.
LEMMA OnlyReserveNewReserves ==
  ASSUME TypeOK, AttachedIsReserved, [Next]_vars,
         NEW o \in Orders, status[o] = "none", status'[o] # "none"
  PROVE  \E now \in Instants : ReserveNew(o, now)
<1> USE DEF eventVars, tierVars, orderVars
<1>1. CASE UNCHANGED status
  BY <1>1
<1>2. CASE Tick \/ ToggleSales \/ ToggleEligibility \/ UNCHANGED vars
  BY <1>1, <1>2 DEF Tick, ToggleSales, ToggleEligibility, vars
<1>3. ASSUME NEW now \in Instants, ExpireReservations(now) PROVE FALSE
  BY <1>3 DEF ExpireReservations, Stale, Unfinished
<1>4. ASSUME NEW now \in Instants, Organizer(now) PROVE FALSE
  BY <1>1, <1>4 DEF Organizer, CancelEvent, SaveTicketTiers
<1>5. ASSUME NEW x \in Orders, NEW now \in Instants, Checkout(x, now)
      PROVE  ReserveNew(o, now)
  <2>1. CASE ReserveNew(x, now)
    BY <1>5, <2>1 DEF ReserveNew, Stale, Unfinished
  <2>2. CASE ReserveAgain(x, now) \/ Attach(x, now)
    BY <1>5, <2>2 DEF ReserveAgain, Attach, Stale, Unfinished, TypeOK
  <2>3. QED
    BY <1>5, <2>1, <2>2 DEF Checkout
<1>6. ASSUME NEW x \in Orders, NEW now \in Instants, Webhook(x, now) PROVE FALSE
  <2>1. ASSUME status'[x] # status[x] PROVE status[x] # "none"
    BY <1>6, <2>1 DEF AttachedIsReserved, Webhook, ReconcileAsRead, ReconcileUnattached,
       MarkPaymentProcessing, MarkPaymentFailed, FulfillPaidOrder, MarkPaymentRequiresReview,
       MarkReconciliationReview, ApplyWholeRefund, ApplyPartialRefund, ApplyDispute, Released
  <2>2. \A y \in Orders \ {x} : status'[y] = status[y]
    BY <1>6 DEF Webhook, ReconcileAsRead, ReconcileUnattached,
       MarkPaymentProcessing, MarkPaymentFailed, FulfillPaidOrder, MarkPaymentRequiresReview,
       MarkReconciliationReview, ApplyWholeRefund, ApplyPartialRefund, ApplyDispute,
       ToReview, IssueTickets, TypeOK
  <2>3. QED
    BY <2>1, <2>2
<1>7. ASSUME NEW x \in Orders, CancelReservation(x) PROVE FALSE
  BY <1>7 DEF CancelReservation, Unfinished, TypeOK
<1>8. ASSUME NEW x \in Orders, StripeStep(x) PROVE FALSE
  BY <1>1, <1>8 DEF StripeStep, StripeCreate, StripePay, StripeSettle, StripeExpire,
     StripeRefund, StripeDispute, Observe
<1>9. ASSUME NEW u \in Units, Redeem(u) PROVE FALSE
  BY <1>1, <1>9 DEF Redeem
<1>10. QED
  BY <1>2, <1>3, <1>4, <1>5, <1>6, <1>7, <1>8, <1>9 DEF Next, Around, Requests, StripeStep

\* Only attach_checkout_session and the recovery of a paid session attach.
LEMMA NextAttachedIsReserved ==
  TypeOK /\ AttachedIsReserved /\ [Next]_vars => AttachedIsReserved'
<1> SUFFICES ASSUME TypeOK, AttachedIsReserved, [Next]_vars, NEW o \in Orders, attached'[o]
             PROVE  status'[o] # "none"
  BY DEF AttachedIsReserved
<1> USE DEF eventVars, tierVars, orderVars
<1>1. CASE attached[o]
  BY <1>1, ReservedStays DEF AttachedIsReserved
<1>2. CASE ~attached[o]
  <2>1. ASSUME UNCHANGED attached PROVE FALSE
    BY <1>2, <2>1
  <2>2. CASE Tick \/ ToggleSales \/ ToggleEligibility \/ UNCHANGED vars
    BY <2>1, <2>2 DEF Tick, ToggleSales, ToggleEligibility, vars
  <2>3. ASSUME NEW now \in Instants, ExpireReservations(now) \/ Organizer(now) PROVE FALSE
    BY <2>1, <2>3 DEF ExpireReservations, Organizer, CancelEvent, SaveTicketTiers
  <2>4. ASSUME NEW x \in Orders, NEW now \in Instants, Checkout(x, now)
        PROVE  status'[o] # "none"
    BY <1>2, <2>4 DEF Checkout, ReserveNew, ReserveAgain, Attach, TypeOK
  <2>5. ASSUME NEW x \in Orders, NEW now \in Instants, Webhook(x, now)
        PROVE  status'[o] # "none"
    BY <1>2, <2>5 DEF Webhook, ReconcileAsRead, ReconcileUnattached,
       MarkPaymentProcessing, MarkPaymentFailed, FulfillPaidOrder, MarkPaymentRequiresReview,
       MarkReconciliationReview, ApplyWholeRefund, ApplyPartialRefund, ApplyDispute,
       IssueTickets, TypeOK
  <2>6. ASSUME NEW x \in Orders, CancelReservation(x) \/ StripeStep(x) PROVE FALSE
    BY <2>1, <2>6 DEF CancelReservation, StripeStep, StripeCreate, StripePay, StripeSettle,
       StripeExpire, StripeRefund, StripeDispute, Observe
  <2>7. ASSUME NEW u \in Units, Redeem(u) PROVE FALSE
    BY <2>1, <2>7 DEF Redeem
  <2>8. QED
    BY <2>2, <2>3, <2>4, <2>5, <2>6, <2>7 DEF Next, Around, Requests, StripeStep
<1>3. QED
  BY <1>1, <1>2

\* Two disjoint or overlapping demands on a tier that fit it one beside the
\* other fit it together.
LEMMA TogetherTheyFit ==
  ASSUME NEW some, NEW others \in SUBSET Units, NEW own \in SUBSET Units,
         some \subseteq others \cup own,
         NEW room \in Nat, Cardinality(others) + Cardinality(own) <= room
  PROVE  Cardinality(some) <= room
<1>1. IsFiniteSet(others) /\ IsFiniteSet(own)
  BY ConstantsAssumption, FS_Subset
<1>2. /\ IsFiniteSet(others \cup own)
      /\ Cardinality(others \cup own)
           = Cardinality(others) + Cardinality(own) - Cardinality(others \cap own)
  BY <1>1, FS_Union
<1>3. /\ Cardinality(others) \in Nat /\ Cardinality(own) \in Nat
      /\ Cardinality(others \cap own) \in Nat
  BY <1>1, FS_CardinalityType, FS_Subset
<1>4. Cardinality(some) \in Nat /\ Cardinality(some) <= Cardinality(others \cup own)
  BY <1>2, FS_Subset, FS_CardinalityType
<1>5. QED
  BY <1>2, <1>3, <1>4

\* What the statement counted with its old clock is at least what is promised.
LEMMA ReserveNewFits ==
  ASSUME TypeOK, NEW o \in Orders, NEW now \in Instants, ReserveNew(o, now), NEW t \in TiersOf(o)
  PROVE  Cardinality(Promised(t)') <= capacity[t]
<1> DEFINE others == {u \in HeldUnits(t, now) : OrderOf[u] # o}
           own == {u \in UnitsOf(o) : TierOf[u] = t}
<1>1. others \subseteq Units /\ own \subseteq Units
  BY DEF HeldUnits, UnitsOf
<1>2. now \in Nat /\ clock \in Nat /\ now <= clock
  BY DEF Instants, TypeOK
<1>3. ASSUME NEW u \in Promised(t)', OrderOf[u] # o PROVE u \in others
  <2>1. u \in Units /\ TierOf[u] = t /\ OrderOf[u] \in Orders
    BY <1>3, ConstantsAssumption DEF Promised
  <2> DEFINE x == OrderOf[u]
  <2>2. status'[x] = status[x] /\ deadline'[x] = deadline[x] /\ clock' = clock
    BY <1>3, <2>1 DEF ReserveNew, Promised, Released, TypeOK
  <2>3. /\ status[x] \notin {"none", "refunded"} \cup Released
        /\ status[x] \in Unfinished => deadline[x] > clock
    BY <1>3, <2>2 DEF Promised
  <2>4. deadline[x] \in Nat /\ status[x] \in OrderStatus
    BY <2>1 DEF TypeOK
  <2>5. Holds(x, now)
    BY <1>2, <2>3, <2>4 DEF Holds, Committed, OrderStatus, Unfinished, Settled, Released
  <2>6. QED
    BY <1>3, <2>1, <2>5 DEF HeldUnits
<1>4. Promised(t)' \subseteq others \cup own
  BY <1>3 DEF Promised, UnitsOf
<1>5. t \in Tiers /\ capacity[t] \in Nat
  BY ConstantsAssumption DEF TiersOf, UnitsOf, TypeOK
<1>6. Cardinality(others) + Cardinality(own) <= capacity[t]
  BY DEF ReserveNew, Fits
<1>7. QED
  BY <1>1, <1>4, <1>5, <1>6, TogetherTheyFit

\* A reservation never promises a seat that another order holds when it
\* commits, for any carts and any lock wait.
THEOREM ReservationsFit == Spec => ReservationFits
<1>1. Init => AttachedIsReserved
  BY DEF Init, AttachedIsReserved
<1>2. TypeOK /\ AttachedIsReserved /\ [Next]_vars =>
        [\A o \in Orders : status[o] = "none" /\ status'[o] # "none" =>
            \A t \in TiersOf(o) : Cardinality(Promised(t)') <= capacity[t]]_vars
  BY OnlyReserveNewReserves, ReserveNewFits
<1>3. QED
  BY <1>1, <1>2, InitTypeOK, NextTypeOK, NextAttachedIsReserved, PTL DEF Spec, ReservationFits

-----------------------------------------------------------------------------
(* Payment on time.  While no tier is edited, the units of orders that may   *)
(* still be fulfilled, stale reservations included, fit every tier.          *)

\* Orders that hold seats without being under review.
Keeping == Unfinished \cup {"paid", "payment_processing", "partially_refunded"}

KeptUnits(t) == {u \in Units : TierOf[u] = t /\ status[OrderOf[u]] \in Keeping}

SeatsAreKept == \A t \in Tiers : Cardinality(KeptUnits(t)) <= capacity[t]

SeatInvariant ==
    /\ TypeOK /\ TicketSetsCoherent /\ AttachedIsReserved
    /\ tierActive = Tiers
    /\ SeatsAreKept

LEMMA InitSeatInvariant == Init => SeatInvariant
<1> SUFFICES ASSUME Init PROVE SeatInvariant
  OBVIOUS
<1>1. TypeOK /\ TicketSetsCoherent
  BY InitTypeOK, InitCoherent
<1>2. ASSUME NEW t \in Tiers PROVE Cardinality(KeptUnits(t)) <= capacity[t]
  <2>1. KeptUnits(t) = {}
    BY ConstantsAssumption DEF Init, KeptUnits, Keeping, Unfinished
  <2>2. capacity[t] \in 1..MaxCapacity
    BY <1>1 DEF TypeOK
  <2>3. QED
    BY <2>1, <2>2, FS_EmptySet, ConstantsAssumption
<1>3. QED
  BY <1>1, <1>2 DEF Init, SeatInvariant, SeatsAreKept, AttachedIsReserved

\* When no order joins those that keep seats, their seats still fit.
LEMMA NobodyJoins ==
  ASSUME TypeOK, SeatsAreKept, UNCHANGED capacity,
         NEW t \in Tiers, \A x \in Orders : t \in TiersOf(x) /\ status'[x] \in Keeping => status[x] \in Keeping
  PROVE  Cardinality(KeptUnits(t)') <= capacity'[t]
<1>1. KeptUnits(t)' \subseteq KeptUnits(t)
  BY ConstantsAssumption DEF KeptUnits, TiersOf, UnitsOf
<1>2. IsFiniteSet(KeptUnits(t))
  BY ConstantsAssumption, FS_Subset DEF KeptUnits
<1>3. /\ Cardinality(KeptUnits(t)') <= Cardinality(KeptUnits(t))
      /\ Cardinality(KeptUnits(t)') \in Nat /\ Cardinality(KeptUnits(t)) \in Nat
  BY <1>1, <1>2, FS_Subset, FS_CardinalityType
<1>4. Cardinality(KeptUnits(t)) <= capacity[t] /\ capacity[t] \in Nat
  BY DEF SeatsAreKept, TypeOK
<1>5. QED
  BY <1>3, <1>4

\* A new reservation counts every order that keeps seats on its tiers: those
\* it does not count it has just expired.
LEMMA ReserveNewKeepsSeats ==
  ASSUME TypeOK, SeatsAreKept, NEW o \in Orders, NEW now \in Instants, ReserveNew(o, now),
         NEW t \in Tiers
  PROVE  Cardinality(KeptUnits(t)') <= capacity'[t]
<1>0. capacity' = capacity
  BY DEF ReserveNew, tierVars
<1>1. CASE t \notin TiersOf(o)
  <2>1. \A x \in Orders : t \in TiersOf(x) /\ status'[x] \in Keeping => status[x] \in Keeping
    BY <1>1 DEF ReserveNew, Keeping, Unfinished
  <2>2. QED
    BY <1>0, <2>1, NobodyJoins
<1>2. CASE t \in TiersOf(o)
  <2> DEFINE others == {u \in HeldUnits(t, now) : OrderOf[u] # o}
             own == {u \in UnitsOf(o) : TierOf[u] = t}
  <2>1. others \subseteq Units /\ own \subseteq Units
    BY DEF HeldUnits, UnitsOf
  <2>2. ASSUME NEW u \in KeptUnits(t)', OrderOf[u] # o PROVE u \in others
    <3>1. u \in UnitsOf(OrderOf[u]) /\ TierOf[u] = t /\ OrderOf[u] \in Orders
      BY <2>2, ConstantsAssumption DEF KeptUnits, UnitsOf
    <3> DEFINE x == OrderOf[u]
    <3>2. t \in TiersOf(x)
      BY <3>1 DEF TiersOf
    <3>3. status'[x] = status[x] /\ status[x] \in Keeping /\ ~Stale(x, now)
      BY <1>2, <2>2, <3>1, <3>2 DEF ReserveNew, KeptUnits, Keeping, Unfinished, Stale
    <3>4. now \in Nat /\ deadline[x] \in Nat
      BY <3>1 DEF Instants, TypeOK
    <3>5. Holds(x, now)
      BY <3>3, <3>4 DEF Stale, Holds, Keeping, Committed
    <3>6. QED
      BY <2>2, <3>1, <3>5 DEF HeldUnits, UnitsOf
  <2>3. KeptUnits(t)' \subseteq others \cup own
    BY <2>2 DEF KeptUnits, UnitsOf
  <2>4. Cardinality(others) + Cardinality(own) <= capacity[t] /\ capacity[t] \in Nat
    BY <1>2 DEF ReserveNew, Fits, TypeOK
  <2>5. QED
    BY <1>0, <2>1, <2>3, <2>4, TogetherTheyFit
<1>3. QED
  BY <1>1, <1>2

LEMMA WebhookKeepsSeats ==
  ASSUME TypeOK, AttachedIsReserved, NEW o \in Orders, NEW now \in Instants, Webhook(o, now),
         NEW x \in Orders, status'[x] \in Keeping
  PROVE  status[x] \in Keeping
<1> USE DEF Keeping, Unfinished
<1>1. CASE MarkPaymentProcessing(o) \/ MarkPaymentFailed(o)
  BY <1>1 DEF MarkPaymentProcessing, MarkPaymentFailed, TypeOK
<1>2. CASE ToReview(o)
  BY <1>2 DEF ToReview, TypeOK
<1>3. CASE IssueTickets(o) /\ status[o] \notin Settled \cup Released \cup {"none"}
  <2>1. status[o] \in Keeping
    BY <1>3 DEF TypeOK, OrderStatus, Settled, Released
  <2>2. QED
    BY <1>3, <2>1 DEF IssueTickets, TypeOK
<1>4. CASE FulfillPaidOrder(o, now)
  BY <1>2, <1>3, <1>4 DEF FulfillPaidOrder, Invalidated, AttachedIsReserved
<1>5. ASSUME NEW affected, ReconcileUnattached(o, affected, now) PROVE status[x] \in Keeping
  BY <1>5 DEF ReconcileUnattached, IssueTickets, TypeOK
<1>6. CASE MarkPaymentRequiresReview(o)
  BY <1>6 DEF MarkPaymentRequiresReview, TypeOK
<1>7. CASE ApplyWholeRefund(o)
  BY <1>7 DEF ApplyWholeRefund, TypeOK
<1>8. CASE MarkReconciliationReview(o) \/ ApplyPartialRefund(o) \/ ApplyDispute(o)
  BY <1>2, <1>8 DEF MarkReconciliationReview, ApplyPartialRefund, ApplyDispute
<1>9. QED
  BY <1>1, <1>4, <1>5, <1>6, <1>7, <1>8 DEF Webhook, ReconcileAsRead

LEMMA NextSeatInvariant ==
  ASSUME "editor" \notin World, SeatInvariant, [Next]_vars
  PROVE  SeatInvariant'
<1> USE DEF eventVars, tierVars, orderVars
<1>1. TypeOK' /\ TicketSetsCoherent' /\ AttachedIsReserved'
  BY NextTypeOK, NextKeepsCoherent, NextAttachedIsReserved DEF SeatInvariant
<1>2. ASSUME UNCHANGED tierVars,
             \A x \in Orders : status'[x] \in Keeping => status[x] \in Keeping
      PROVE  SeatInvariant'
  BY <1>1, <1>2, NobodyJoins DEF SeatInvariant, SeatsAreKept
<1>3. CASE Tick \/ ToggleSales \/ ToggleEligibility \/ UNCHANGED vars
  BY <1>2, <1>3 DEF Tick, ToggleSales, ToggleEligibility, vars
<1>4. ASSUME NEW now \in Instants, ExpireReservations(now) PROVE SeatInvariant'
  BY <1>2, <1>4 DEF ExpireReservations, Keeping, Unfinished
<1>5. ASSUME NEW now \in Instants, Organizer(now) PROVE SeatInvariant'
  BY <1>2, <1>5 DEF Organizer, CancelEvent, SaveTicketTiers
<1>6. ASSUME NEW o \in Orders, NEW now \in Instants, Checkout(o, now) PROVE SeatInvariant'
  <2>1. CASE ReserveNew(o, now)
    BY <1>1, <2>1, ReserveNewKeepsSeats DEF SeatInvariant, SeatsAreKept, ReserveNew
  <2>2. CASE ReserveAgain(o, now)
    BY <1>2, <2>2 DEF ReserveAgain, Keeping, Unfinished, SeatInvariant, TypeOK
  <2>3. CASE Attach(o, now)
    BY <1>2, <2>3 DEF Attach, Keeping, Unfinished, SeatInvariant, TypeOK
  <2>4. QED
    BY <1>6, <2>1, <2>2, <2>3 DEF Checkout
<1>7. ASSUME NEW o \in Orders, NEW now \in Instants, Webhook(o, now) PROVE SeatInvariant'
  <2>1. UNCHANGED tierVars
    BY <1>7 DEF Webhook, ReconcileAsRead, ReconcileUnattached, MarkPaymentProcessing,
       MarkPaymentFailed, FulfillPaidOrder, MarkPaymentRequiresReview,
       MarkReconciliationReview, ApplyWholeRefund, ApplyPartialRefund, ApplyDispute
  <2>2. QED
    BY <1>2, <1>7, <2>1, WebhookKeepsSeats DEF SeatInvariant
<1>8. ASSUME NEW o \in Orders, CancelReservation(o) PROVE SeatInvariant'
  BY <1>2, <1>8 DEF CancelReservation, Keeping, Unfinished, SeatInvariant, TypeOK
<1>9. ASSUME NEW o \in Orders, StripeStep(o) PROVE SeatInvariant'
  BY <1>2, <1>9 DEF StripeStep, StripeCreate, StripePay, StripeSettle, StripeExpire,
     StripeRefund, StripeDispute, Observe
<1>10. ASSUME NEW u \in Units, Redeem(u) PROVE SeatInvariant'
  BY <1>2, <1>10 DEF Redeem
<1>11. QED
  BY <1>3, <1>4, <1>5, <1>6, <1>7, <1>8, <1>9, <1>10 DEF Next, Around, Requests, StripeStep

\* When the seats of the others are kept beside the order's own, and nobody
\* else is under review, the second look at the inventory finds room.
LEMMA KeptOrderFits ==
  ASSUME SeatInvariant, NEW o \in Orders, NEW now \in Instants, status[o] \in Keeping,
         \A x \in Orders \ {o} : status[x] # "requires_review"
  PROVE  Fits(o, now)
<1> SUFFICES ASSUME NEW t \in TiersOf(o)
             PROVE  Cardinality({u \in HeldUnits(t, now) : OrderOf[u] # o})
                      + Cardinality({u \in UnitsOf(o) : TierOf[u] = t}) <= capacity[t]
  BY DEF Fits
<1> DEFINE others == {u \in HeldUnits(t, now) : OrderOf[u] # o}
           own == {u \in UnitsOf(o) : TierOf[u] = t}
<1>1. IsFiniteSet(others) /\ IsFiniteSet(own) /\ IsFiniteSet(KeptUnits(t))
  BY ConstantsAssumption, FS_Subset DEF HeldUnits, UnitsOf, KeptUnits
<1>2. others \cap own = {}
  BY DEF UnitsOf
<1>3. Cardinality(others \cup own) = Cardinality(others) + Cardinality(own)
  <2>1. Cardinality(others \cap own) = 0
    BY <1>2, FS_EmptySet
  <2>2. Cardinality(others) \in Nat /\ Cardinality(own) \in Nat
    BY <1>1, FS_CardinalityType
  <2>3. Cardinality(others \cup own)
          = Cardinality(others) + Cardinality(own) - Cardinality(others \cap own)
    BY <1>1, FS_Union
  <2>4. QED
    BY <2>1, <2>2, <2>3
<1>4. others \cup own \subseteq KeptUnits(t)
  BY ConstantsAssumption DEF HeldUnits, Holds, Committed, Keeping, KeptUnits, UnitsOf
<1>5. /\ Cardinality(others \cup own) <= Cardinality(KeptUnits(t))
      /\ Cardinality(KeptUnits(t)) \in Nat /\ Cardinality(others \cup own) \in Nat
  BY <1>1, <1>4, FS_Subset, FS_CardinalityType
<1>6. t \in Tiers /\ capacity[t] \in Nat
  BY ConstantsAssumption DEF TiersOf, UnitsOf, SeatInvariant, TypeOK
<1>7. QED
  BY <1>3, <1>5, <1>6 DEF SeatInvariant, SeatsAreKept

\* Of the steps that move an unfinished order to review, only fulfilment and
\* recovery are open when all that is known of it is that it was paid.
LEMMA ReviewIsFromPayment ==
  ASSUME SeatInvariant, [Next]_vars, NEW o \in Orders,
         facts[o] \subseteq {"open", "processing", "paid"}, status[o] \in Unfinished,
         status'[o] = "requires_review"
  PROVE  \E now \in Instants : Invalidated(o, now)
<1> USE DEF eventVars, tierVars, orderVars, Unfinished
<1>0. TypeOK /\ TicketSetCoherent(o) /\ status[o] \notin Settled
  BY DEF SeatInvariant, TicketSetsCoherent, Settled
<1>1. ASSUME UNCHANGED status PROVE FALSE
  BY <1>1
<1>2. CASE Tick \/ ToggleSales \/ ToggleEligibility \/ UNCHANGED vars
  BY <1>1, <1>2 DEF Tick, ToggleSales, ToggleEligibility, vars
<1>3. ASSUME NEW now \in Instants, ExpireReservations(now) PROVE FALSE
  BY <1>3 DEF ExpireReservations
<1>4. ASSUME NEW now \in Instants, Organizer(now) PROVE FALSE
  BY <1>1, <1>4 DEF Organizer, CancelEvent, SaveTicketTiers
<1>5. ASSUME NEW x \in Orders, NEW now \in Instants, Checkout(x, now) PROVE FALSE
  BY <1>0, <1>5 DEF Checkout, ReserveNew, ReserveAgain, Attach, TypeOK
<1>6. ASSUME NEW x \in Orders, NEW now \in Instants, Webhook(x, now)
      PROVE  Invalidated(o, now)
  <2>1. x = o
    BY <1>0, <1>6 DEF Webhook, ReconcileAsRead, ReconcileUnattached, MarkPaymentProcessing,
       MarkPaymentFailed, FulfillPaidOrder, MarkPaymentRequiresReview,
       MarkReconciliationReview, ApplyWholeRefund, ApplyPartialRefund, ApplyDispute,
       ToReview, IssueTickets, TypeOK
  <2>2. facts[o] \cap ChargeFacts = {} /\ facts[o] \cap {"failed", "expired"} = {}
    BY DEF ChargeFacts
  <2>3. CASE MarkPaymentProcessing(o)
    BY <1>0, <2>3 DEF MarkPaymentProcessing, TypeOK
  <2>4. CASE FulfillPaidOrder(o, now)
    BY <1>0, <2>4 DEF FulfillPaidOrder, IssueTickets, TypeOK
  <2>5. CASE ReconcileAsRead(o, now)
    BY <1>0, <2>2, <2>5 DEF ReconcileAsRead, ReconcileUnattached, IssueTickets, TypeOK
  <2>6. QED
    BY <1>6, <2>1, <2>2, <2>3, <2>4, <2>5 DEF Webhook, ChargeFacts
<1>7. ASSUME NEW x \in Orders, CancelReservation(x) PROVE FALSE
  BY <1>0, <1>7 DEF CancelReservation, TypeOK
<1>8. ASSUME NEW x \in Orders, StripeStep(x) PROVE FALSE
  BY <1>1, <1>8 DEF StripeStep, StripeCreate, StripePay, StripeSettle, StripeExpire,
     StripeRefund, StripeDispute, Observe
<1>9. ASSUME NEW u \in Units, Redeem(u) PROVE FALSE
  BY <1>1, <1>9 DEF Redeem
<1>10. QED
  BY <1>2, <1>3, <1>4, <1>5, <1>6, <1>7, <1>8, <1>9 DEF Next, Around, Requests, StripeStep

LEMMA OnTimeStep ==
  ASSUME SeatInvariant, [Next]_vars, NEW o \in Orders,
         facts[o] \subseteq {"open", "processing", "paid"},
         status[o] \in Unfinished, deadline[o] > clock, status'[o] = "requires_review"
  PROVE  ~CurrentlyEligible \/ \E x \in Orders \ {o} : status[x] = "requires_review"
<1>1. PICK now \in Instants : Invalidated(o, now)
  BY ReviewIsFromPayment
<1>2. ~Stale(o, now)
  <2>1. now \in Nat /\ now <= clock /\ clock \in Nat /\ deadline[o] \in Nat
    BY DEF Instants, SeatInvariant, TypeOK
  <2>2. QED
    BY <2>1 DEF Stale
<1>3. status[o] \notin Released /\ status[o] \in Keeping
  BY DEF Unfinished, Released, Keeping
<1>4. TiersOf(o) \subseteq tierActive
  BY ConstantsAssumption DEF SeatInvariant, TiersOf, UnitsOf
<1>5. QED
  BY <1>1, <1>2, <1>3, <1>4, KeptOrderFits DEF Invalidated

\* Who pays within the deadline gets the tickets while no tier is edited,
\* unless the event was withdrawn or a late payment is under review.
THEOREM OnTimeIsHonoured == "editor" \notin World => (Spec => OnTimePaymentIsHonoured)
<1> SUFFICES ASSUME "editor" \notin World PROVE Spec => OnTimePaymentIsHonoured
  OBVIOUS
<1>1. SeatInvariant /\ [Next]_vars =>
        [\A o \in Orders :
          ( /\ "paid" \in facts[o] /\ facts[o] \subseteq {"open", "processing", "paid"}
            /\ status[o] \in Unfinished /\ deadline[o] > clock
            /\ status'[o] = "requires_review" )
          => \/ ~CurrentlyEligible
             \/ \E x \in Orders \ {o} : status[x] = "requires_review"]_vars
  BY OnTimeStep
<1>2. SeatInvariant /\ [Next]_vars => SeatInvariant'
  BY NextSeatInvariant
<1>3. QED
  BY <1>1, <1>2, InitSeatInvariant, PTL DEF Spec, OnTimePaymentIsHonoured

=============================================================================
