---------------------------- MODULE TicketSales ----------------------------
(***************************************************************************)
(* The database side of paid ticketing for one event: checkout             *)
(* reservations, inventory, fulfilment, tickets, refunds, disputes,        *)
(* admission and event cancellation.                                       *)
(*                                                                         *)
(* Every writer below is one Postgres transaction.  Those that touch       *)
(* inventory take the event's advisory lock, then the tier rows, the event *)
(* row and the order row (lock_payment_order), so each commits as one step. *)
(* What is NOT read under the lock is the time: plpgsql's                  *)
(* statement_timestamp() is fixed before the lock wait begins.  An action  *)
(* therefore takes the instant "now" at which its statement started, any   *)
(* of the last LockWait ticks, while its reads and writes happen at the    *)
(* current clock.                                                          *)
(*                                                                         *)
(* Stripe is external.  facts[o] is the set of things that have been true  *)
(* of the order's hosted session or charge at Stripe.  A webhook handler   *)
(* reads Stripe, then writes: it may be retried, duplicated, delayed or    *)
(* overtaken, so a handler for a fact stays enabled forever after the fact *)
(* became true.                                                            *)
(***************************************************************************)
EXTENDS Integers, FiniteSets

CONSTANTS
    Orders,      \* client request ids: a retried request is the same order
    Tiers,       \* the event's ticket tiers
    Units,       \* purchased units: an (order item, unit sequence) pair
    OrderOf,     \* the order a unit belongs to
    TierOf,      \* the tier a unit is sold from
    MaxCapacity, \* bound on quantity_total
    Hold,        \* ticks from the request to reservation_expires_at
    Grace,       \* how long before that the hosted session itself expires
    LockWait,    \* longest lock wait, in ticks: how old "now" may be
    EventEnd,    \* the event's ends_at
    MaxClock,    \* bound on the clock, for TLC
    World        \* bound on what the world outside does: the Stripe facts,
                 \* and which of "operator", "moderator", "editor" are about

ASSUME ConstantsAssumption ==
    /\ IsFiniteSet(Orders) /\ IsFiniteSet(Tiers) /\ IsFiniteSet(Units)
    /\ OrderOf \in [Units -> Orders]
    /\ TierOf \in [Units -> Tiers]
    /\ MaxCapacity \in Nat \ {0}
    /\ Hold \in Nat /\ Grace \in Nat /\ Grace <= Hold
    /\ LockWait \in Nat /\ EventEnd \in Nat /\ MaxClock \in Nat

VARIABLES
    clock,        \* the database clock
    eventStatus,  \* events.status of the published event
    eligible,     \* moderation's part of public eligibility
    salesOpen,    \* checkout_creation_enabled, Connect ready, fee rule set
    capacity,     \* ticket_tiers.quantity_total
    tierActive,   \* the tiers whose status is 'active'
    status,       \* orders.status
    deadline,     \* orders.reservation_expires_at
    attached,     \* whether orders.stripe_checkout_session_id is set
    paidAt,       \* whether orders.paid_at is set
    recon,        \* orders.reconciliation_status
    ticket,       \* tickets.status of each unit, "none" before issuance
    facts         \* what Stripe has said of the order

orderVars == <<status, deadline, attached, paidAt, recon>>
eventVars == <<eventStatus, eligible, salesOpen>>
tierVars  == <<capacity, tierActive>>
vars == <<clock, eventVars, tierVars, orderVars, ticket, facts>>

-----------------------------------------------------------------------------
(* Vocabulary *)

Unfinished == {"creating_checkout", "checkout_open"}
Settled    == {"paid", "partially_refunded", "refunded", "requires_review"}
Released   == {"expired", "payment_failed", "cancelled"}
Committed  == {"paid", "payment_processing", "requires_review", "partially_refunded"}

OrderStatus  == {"none", "payment_processing"} \cup Unfinished \cup Settled \cup Released
TicketStatus == {"none", "valid", "used", "refunded", "cancelled"}
SessionFacts == {"open", "processing", "paid", "failed", "expired"}
ChargeFacts  == {"refunded", "partly_refunded", "disputed"}

UnitsOf(o) == {u \in Units : OrderOf[u] = o}
TiersOf(o) == {TierOf[u] : u \in UnitsOf(o)}

\* The instants at which a statement committing now may have started.
Instants == {n \in 0..clock : n + LockWait >= clock}

\* Mutant: orders under review hold nothing.
HoldsWithoutReview(o, now) ==
    \/ status[o] \in Committed \ {"requires_review"}
    \/ status[o] \in Unfinished /\ deadline[o] > now

\* What orders.status and reservation_expires_at say of the tier's inventory.
Holds(o, now) ==
    \/ status[o] \in Committed
    \/ status[o] \in Unfinished /\ deadline[o] > now

HeldUnits(t, now) == {u \in Units : TierOf[u] = t /\ Holds(OrderOf[u], now)}

\* Every tier of the cart has room for it beside what the other orders hold.
Fits(o, now) ==
    \A t \in TiersOf(o) :
        Cardinality({u \in HeldUnits(t, now) : OrderOf[u] # o})
          + Cardinality({u \in UnitsOf(o) : TierOf[u] = t}) <= capacity[t]

\* Mutant: the reservation ends with the hosted session, Grace ticks early.
StaleWithSession(o, now) == status[o] \in Unfinished /\ deadline[o] <= now + Grace

Stale(o, now) == status[o] \in Unfinished /\ deadline[o] <= now

CurrentlyEligible == eventStatus = "published" /\ eligible

\* 'valid' tickets become s; every other ticket keeps its history.
Withdraw(o, s) ==
    [u \in Units |-> IF OrderOf[u] = o /\ ticket[u] = "valid" THEN s ELSE ticket[u]]

Issued(o) == {u \in UnitsOf(o) : ticket[u] # "none"}

\* The ticket set an order of this status may have (fulfilment checks it
\* before anything else and calls anything else a mismatch).
TicketSetCoherent(o) ==
    /\ Issued(o) \in {{}, UnitsOf(o)}
    /\ status[o] = "paid" =>
         \A u \in UnitsOf(o) :
            \/ ticket[u] = "used"
            \/ ticket[u] = "valid" /\ eventStatus # "cancelled"
            \/ ticket[u] = "cancelled" /\ eventStatus = "cancelled"
    /\ status[o] \in Unfinished \cup {"payment_processing", "none"} => Issued(o) = {}
    /\ status[o] # "paid" => \A u \in UnitsOf(o) : ticket[u] # "valid"

Init ==
    /\ clock = 0
    /\ eventStatus = "published" /\ eligible = TRUE /\ salesOpen = TRUE
    /\ capacity = [t \in Tiers |-> MaxCapacity]
    /\ tierActive = Tiers
    /\ status = [o \in Orders |-> "none"]
    /\ deadline = [o \in Orders |-> 0]
    /\ attached = [o \in Orders |-> FALSE]
    /\ paidAt = [o \in Orders |-> FALSE]
    /\ recon = [o \in Orders |-> "pending"]
    /\ ticket = [u \in Units |-> "none"]
    /\ facts = [o \in Orders |-> {}]

-----------------------------------------------------------------------------
(* Reservation *)

\* Mutant: the cart is reserved without counting what others hold.
ReserveUnchecked(o, now) ==
    /\ status[o] = "none" /\ salesOpen /\ CurrentlyEligible /\ EventEnd > clock
    /\ TiersOf(o) \subseteq tierActive
    /\ status' = [status EXCEPT ![o] = "creating_checkout"]
    /\ deadline' = [deadline EXCEPT ![o] = now + Hold]
    /\ UNCHANGED <<clock, eventVars, tierVars, attached, paidAt, recon, ticket, facts>>

\* reserve_checkout for a request id not seen before.  It first expires the
\* stale reservations on the cart's tiers, then counts what is left.
ReserveNew(o, now) ==
    /\ status[o] = "none"
    /\ salesOpen
    /\ CurrentlyEligible
    /\ EventEnd > clock
    /\ TiersOf(o) \subseteq tierActive
    /\ Fits(o, now)
    /\ status' = [x \in Orders |->
          IF x = o THEN "creating_checkout"
          ELSE IF Stale(x, now) /\ TiersOf(x) \cap TiersOf(o) # {} THEN "expired"
          ELSE status[x]]
    /\ deadline' = [deadline EXCEPT ![o] = now + Hold]
    /\ UNCHANGED <<clock, eventVars, tierVars, attached, paidAt, recon, ticket, facts>>

\* reserve_checkout for a request id it knows: a stale reservation is expired
\* and the buyer told so; any other status is returned or refused unchanged.
ReserveAgain(o, now) ==
    /\ Stale(o, now)
    /\ status' = [status EXCEPT ![o] = "expired"]
    /\ UNCHANGED <<clock, eventVars, tierVars, deadline, attached, paidAt, recon, ticket, facts>>

\* attach_checkout_session
Attach(o, now) ==
    /\ "open" \in facts[o]
    /\ ~attached[o]
    /\ status[o] = "creating_checkout"
    /\ deadline[o] > now
    /\ status' = [status EXCEPT ![o] = "checkout_open"]
    /\ attached' = [attached EXCEPT ![o] = TRUE]
    /\ UNCHANGED <<clock, eventVars, tierVars, deadline, paidAt, recon, ticket, facts>>

\* cancel_checkout_reservation: the edge function calls it once Stripe has no
\* session for the order or has expired the one it had.
CancelReservation(o) ==
    /\ status[o] \in Unfinished
    /\ "open" \notin facts[o] \/ "expired" \in facts[o]
    /\ status' = [status EXCEPT ![o] = "cancelled"]
    /\ UNCHANGED <<clock, eventVars, tierVars, deadline, attached, paidAt, recon, ticket, facts>>

\* Mutant: only reservations that never got a session are expired.
ExpireFirstStatus(now) ==
    /\ \E o \in Orders : Stale(o, now)
    /\ status' = [o \in Orders |->
          IF Stale(o, now) /\ status[o] = "creating_checkout" THEN "expired" ELSE status[o]]
    /\ UNCHANGED <<clock, eventVars, tierVars, deadline, attached, paidAt, recon, ticket, facts>>

\* expire_checkout_reservations(clock_timestamp()), once a minute by pg_cron.
ExpireReservations(now) ==
    /\ \E o \in Orders : Stale(o, now)
    /\ status' = [o \in Orders |-> IF Stale(o, now) THEN "expired" ELSE status[o]]
    /\ UNCHANGED <<clock, eventVars, tierVars, deadline, attached, paidAt, recon, ticket, facts>>

-----------------------------------------------------------------------------
(* Payment, as the webhook's database functions apply it *)

MarkPaymentProcessing(o) ==
    /\ attached[o]
    /\ status[o] \in Unfinished \cup {"payment_processing"}
    /\ status' = [status EXCEPT ![o] = "payment_processing"]
    /\ recon' = [recon EXCEPT ![o] = "pending"]
    /\ UNCHANGED <<clock, eventVars, tierVars, deadline, attached, paidAt, ticket, facts>>

MarkPaymentFailed(o) ==
    /\ attached[o]
    /\ status[o] \in Unfinished \cup {"payment_processing"}
    /\ status' = [status EXCEPT ![o] = "payment_failed"]
    /\ recon' = [recon EXCEPT ![o] = "reconciled"]
    /\ UNCHANGED <<clock, eventVars, tierVars, deadline, attached, paidAt, ticket, facts>>

\* Something happened between the reservation and the payment that means the
\* units can no longer be handed out.
Invalidated(o, now) ==
    \/ status[o] \in Released
    \/ Stale(o, now)
    \/ ~CurrentlyEligible
    \/ ~(TiersOf(o) \subseteq tierActive)
    \/ ~Fits(o, now)

ToReview(o) ==
    status' = [status EXCEPT ![o] = IF @ = "refunded" THEN @ ELSE "requires_review"]

IssueTickets(o) ==
    /\ status' = [status EXCEPT ![o] = "paid"]
    /\ recon' = [recon EXCEPT ![o] = "reconciled"]
    /\ ticket' = [u \in Units |-> IF OrderOf[u] = o THEN "valid" ELSE ticket[u]]

\* fulfill_paid_order: a mismatch is reviewed, a settled order left alone,
\* an invalidated one reviewed without tickets, and only then tickets issued.
FulfillPaidOrder(o, now) ==
    /\ attached[o]
    /\ \/ /\ ~TicketSetCoherent(o)
          /\ ToReview(o)
          /\ recon' = [recon EXCEPT ![o] = "requires_review"]
          /\ ticket' = Withdraw(o, "cancelled")
       \/ /\ TicketSetCoherent(o) /\ status[o] \notin Settled /\ Invalidated(o, now)
          /\ ToReview(o)
          /\ recon' = [recon EXCEPT ![o] = "requires_review"]
          /\ UNCHANGED ticket
       \/ /\ TicketSetCoherent(o) /\ status[o] \notin Settled /\ ~Invalidated(o, now)
          /\ IssueTickets(o)
    /\ paidAt' = [paidAt EXCEPT ![o] = TRUE]
    /\ UNCHANGED <<clock, eventVars, tierVars, deadline, attached, facts>>

\* reconcile_unattached_paid_checkout: a paid session the order never learnt
\* of is attached and fulfilled in one subtransaction, or reviewed as it is.
\* "affected" is whether the charge was refunded or disputed when it was read.
ReconcileUnattached(o, affected, now) ==
    /\ ~attached[o]
    /\ status[o] \in {"creating_checkout", "requires_review"} \cup Released
    /\ \/ /\ status[o] = "creating_checkout"
          /\ ~Invalidated(o, now)
          /\ ~affected
          /\ attached' = [attached EXCEPT ![o] = TRUE]
          /\ paidAt' = [paidAt EXCEPT ![o] = TRUE]
          /\ IssueTickets(o)
       \/ /\ \/ status[o] # "creating_checkout"
             \/ Invalidated(o, now)
             \/ affected
          /\ status' = [status EXCEPT
                ![o] = IF @ = "creating_checkout" THEN "requires_review" ELSE @]
          /\ recon' = [recon EXCEPT ![o] = "requires_review"]
          /\ UNCHANGED <<attached, paidAt, ticket>>
    /\ UNCHANGED <<clock, eventVars, tierVars, deadline, facts>>

\* mark_payment_requires_review: the charge is already refunded or disputed.
MarkPaymentRequiresReview(o) ==
    /\ attached[o]
    /\ status' = [status EXCEPT
          ![o] = IF @ \in {"partially_refunded", "refunded"} THEN @ ELSE "requires_review"]
    /\ recon' = [recon EXCEPT ![o] = "requires_review"]
    /\ paidAt' = [paidAt EXCEPT ![o] = TRUE]
    /\ ticket' = Withdraw(o, "cancelled")
    /\ UNCHANGED <<clock, eventVars, tierVars, deadline, attached, facts>>

\* mark_checkout_reconciliation_review: what Stripe says does not match.
MarkReconciliationReview(o) ==
    /\ attached[o]
    /\ ToReview(o)
    /\ recon' = [recon EXCEPT ![o] = "requires_review"]
    /\ ticket' = Withdraw(o, "cancelled")
    /\ UNCHANGED <<clock, eventVars, tierVars, deadline, attached, paidAt, facts>>

-----------------------------------------------------------------------------
(* After the sale *)

\* Mutant: the refund also rewrites the tickets that were used.
RefundUsedToo(o) ==
    /\ attached[o]
    /\ status' = [status EXCEPT ![o] = "refunded"]
    /\ recon' = [recon EXCEPT ![o] = IF paidAt[o] THEN "reconciled" ELSE "requires_review"]
    /\ ticket' = [u \in Units |->
          IF OrderOf[u] = o /\ ticket[u] # "none" THEN "refunded" ELSE ticket[u]]
    /\ UNCHANGED <<clock, eventVars, tierVars, deadline, attached, paidAt, facts>>

\* Mutant: the refund leaves the tickets to the caller.
RefundWithoutTickets(o) ==
    /\ attached[o]
    /\ status' = [status EXCEPT ![o] = "refunded"]
    /\ recon' = [recon EXCEPT ![o] = IF paidAt[o] THEN "reconciled" ELSE "requires_review"]
    /\ UNCHANGED <<clock, eventVars, tierVars, deadline, attached, paidAt, ticket, facts>>

\* apply_verified_refund when the verified refunds add up to the whole order,
\* with the ticket trigger that follows the status change.
ApplyWholeRefund(o) ==
    /\ attached[o]
    /\ status' = [status EXCEPT ![o] = "refunded"]
    /\ recon' = [recon EXCEPT ![o] = IF paidAt[o] THEN "reconciled" ELSE "requires_review"]
    /\ ticket' = [u \in Units |->
          IF OrderOf[u] = o /\ ticket[u] \in {"valid", "cancelled"}
          THEN "refunded" ELSE ticket[u]]
    /\ UNCHANGED <<clock, eventVars, tierVars, deadline, attached, paidAt, facts>>

\* apply_verified_refund when money has come back but not exactly all of it.
ApplyPartialRefund(o) ==
    /\ attached[o]
    /\ status[o] # "refunded"
    /\ ToReview(o)
    /\ recon' = [recon EXCEPT ![o] = "requires_review"]
    /\ ticket' = Withdraw(o, "cancelled")
    /\ UNCHANGED <<clock, eventVars, tierVars, deadline, attached, paidAt, facts>>

\* Mutant: a dispute moves the order but forgets its tickets.
DisputeWithoutTickets(o) ==
    /\ attached[o]
    /\ ToReview(o)
    /\ recon' = [recon EXCEPT ![o] = "requires_review"]
    /\ UNCHANGED <<clock, eventVars, tierVars, deadline, attached, paidAt, ticket, facts>>

\* apply_verified_dispute, when the dispute's status or recovery advances.
ApplyDispute(o) ==
    /\ attached[o]
    /\ ToReview(o)
    /\ recon' = [recon EXCEPT ![o] = "requires_review"]
    /\ ticket' = Withdraw(o, "cancelled")
    /\ UNCHANGED <<clock, eventVars, tierVars, deadline, attached, paidAt, facts>>

\* server_redeem_paid_ticket at the door.
Redeem(u) ==
    LET o == OrderOf[u] IN
    /\ ticket[u] = "valid"
    /\ Issued(o) = UnitsOf(o)
    /\ status[o] = "paid" /\ paidAt[o] /\ recon[o] = "reconciled"
    /\ eventStatus = "published" /\ EventEnd > clock
    /\ \A v \in UnitsOf(o) : ticket[v] \in {"valid", "used"}
    /\ ticket' = [ticket EXCEPT ![u] = "used"]
    /\ UNCHANGED <<clock, eventVars, tierVars, orderVars, facts>>

\* cancel_owned_event
CancelEvent ==
    /\ eventStatus = "published"
    /\ eventStatus' = "cancelled"
    /\ ticket' = [u \in Units |-> IF ticket[u] = "valid" THEN "cancelled" ELSE ticket[u]]
    /\ UNCHANGED <<clock, eligible, salesOpen, tierVars, orderVars, facts>>

-----------------------------------------------------------------------------
(* The organizer's tier editor *)

\* Mutant: only live reservations are counted, what was sold is not.
CommittedReservations(t, now) ==
    {u \in Units :
        TierOf[u] = t /\ status[OrderOf[u]] \in Unfinished /\ deadline[OrderOf[u]] > now}

\* What save_ticket_tiers counts before it lowers quantity_total.  It is not
\* Holds: orders under review are left out.
CommittedToTier(t, now) ==
    {u \in Units :
        /\ TierOf[u] = t
        /\ \/ status[OrderOf[u]] \in {"paid", "payment_processing"}
           \/ status[OrderOf[u]] \in Unfinished /\ deadline[OrderOf[u]] > now}

\* Mutant: what is left is stored where the total belongs.
SaveRemaining(listed, totals, now) ==
    /\ "editor" \in World
    /\ eventStatus = "published"
    /\ \A t \in listed : totals[t] >= Cardinality(CommittedToTier(t, now))
    /\ capacity' = [t \in Tiers |->
          IF t \in listed THEN totals[t] - Cardinality(CommittedToTier(t, now)) ELSE capacity[t]]
    /\ tierActive' = listed
    /\ UNCHANGED <<clock, eventVars, orderVars, ticket, facts>>

\* The tiers listed are saved as active with their new totals, the others
\* archived.
SaveTicketTiers(listed, totals, now) ==
    /\ "editor" \in World
    /\ eventStatus = "published"
    /\ \A t \in listed : totals[t] >= Cardinality(CommittedToTier(t, now))
    /\ capacity' = [t \in Tiers |-> IF t \in listed THEN totals[t] ELSE capacity[t]]
    /\ tierActive' = listed
    /\ UNCHANGED <<clock, eventVars, orderVars, ticket, facts>>

-----------------------------------------------------------------------------
(* Around the database: time, operators, moderation and Stripe *)

Tick ==
    /\ clock < MaxClock
    /\ clock' = clock + 1
    /\ UNCHANGED <<eventVars, tierVars, orderVars, ticket, facts>>

ToggleSales ==
    /\ "operator" \in World
    /\ salesOpen' = ~salesOpen
    /\ UNCHANGED <<clock, eventStatus, eligible, tierVars, orderVars, ticket, facts>>

ToggleEligibility ==
    /\ "moderator" \in World
    /\ eligible' = ~eligible
    /\ UNCHANGED <<clock, eventStatus, salesOpen, tierVars, orderVars, ticket, facts>>

Observe(o, f) ==
    /\ f \in World
    /\ facts' = [facts EXCEPT ![o] = @ \cup {f}]
    /\ UNCHANGED <<clock, eventVars, tierVars, orderVars, ticket>>

SessionUsable(o) ==
    /\ "open" \in facts[o] /\ facts[o] \cap {"processing", "paid", "expired"} = {}

\* The hosted session is created while the reservation is young enough.
StripeCreate(o) ==
    /\ status[o] = "creating_checkout"
    /\ facts[o] = {}
    /\ clock + Grace < deadline[o]
    /\ Observe(o, "open")

\* The buyer completes the session: paid at once, or by a delayed method.
StripePay(o) ==
    /\ SessionUsable(o) /\ clock + Grace < deadline[o]
    /\ Observe(o, "paid") \/ Observe(o, "processing")

StripeSettle(o) ==
    /\ "processing" \in facts[o] /\ facts[o] \cap {"paid", "failed"} = {}
    /\ Observe(o, "paid") \/ Observe(o, "failed")

\* The session runs out, or the edge function asks Stripe to expire it.
StripeExpire(o) == SessionUsable(o) /\ Observe(o, "expired")

StripeRefund(o) ==
    /\ "paid" \in facts[o] /\ "refunded" \notin facts[o]
    /\ Observe(o, "refunded") \/ ("partly_refunded" \notin facts[o] /\ Observe(o, "partly_refunded"))

StripeDispute(o) ==
    /\ "paid" \in facts[o] /\ "disputed" \notin facts[o]
    /\ Observe(o, "disputed")

-----------------------------------------------------------------------------
(* The system *)

\* The charge may have been refunded since it was read, never the reverse.
ReconcileAsRead(o, now) ==
    /\ "paid" \in facts[o]
    /\ \E affected \in {FALSE, facts[o] \cap ChargeFacts # {}} :
           ReconcileUnattached(o, affected, now)

\* A completed-session event whose session has since failed is a mismatch.
Webhook(o, now) ==
    \/ "processing" \in facts[o] /\ MarkPaymentProcessing(o)
    \/ facts[o] \cap {"failed", "expired"} # {} /\ MarkPaymentFailed(o)
    \/ "paid" \in facts[o] /\ FulfillPaidOrder(o, now)
    \/ ReconcileAsRead(o, now)
    \/ facts[o] \cap ChargeFacts # {} /\ MarkPaymentRequiresReview(o)
    \/ "failed" \in facts[o] /\ MarkReconciliationReview(o)
    \/ "refunded" \in facts[o] /\ ApplyWholeRefund(o)
    \/ "partly_refunded" \in facts[o] /\ ApplyPartialRefund(o)
    \/ "disputed" \in facts[o] /\ ApplyDispute(o)

Checkout(o, now) ==
    \/ ReserveNew(o, now)
    \/ ReserveAgain(o, now)
    \/ Attach(o, now)

Organizer(now) ==
    \/ CancelEvent
    \/ \E listed \in (SUBSET Tiers) \ {{}}, totals \in [Tiers -> 1..MaxCapacity] :
           SaveTicketTiers(listed, totals, now)

\* Everything that is not part of a checkout request or a webhook delivery.
Around ==
    \/ Tick \/ ToggleSales \/ ToggleEligibility
    \/ \E now \in Instants : ExpireReservations(now) \/ Organizer(now)
    \/ \E o \in Orders : StripePay(o) \/ StripeSettle(o) \/ StripeExpire(o)
                        \/ StripeRefund(o) \/ StripeDispute(o)
    \/ \E u \in Units : Redeem(u)

Requests ==
    \E o \in Orders :
        \/ StripeCreate(o) \/ CancelReservation(o)
        \/ \E now \in Instants : Checkout(o, now)

Next == Around \/ Requests \/ \E o \in Orders, now \in Instants : Webhook(o, now)

Spec == Init /\ [][Next]_vars

-----------------------------------------------------------------------------
(* Properties *)

\* Every variable stays within its column's domain.
TypeOK ==
    /\ clock \in Nat
    /\ eventStatus \in {"published", "cancelled"}
    /\ eligible \in BOOLEAN /\ salesOpen \in BOOLEAN
    /\ capacity \in [Tiers -> 1..MaxCapacity]
    /\ tierActive \subseteq Tiers
    /\ status \in [Orders -> OrderStatus]
    /\ deadline \in [Orders -> Nat]
    /\ attached \in [Orders -> BOOLEAN]
    /\ paidAt \in [Orders -> BOOLEAN]
    /\ recon \in [Orders -> {"pending", "reconciled", "mismatch", "requires_review"}]
    /\ ticket \in [Units -> TicketStatus]
    /\ facts \in [Orders -> SUBSET (SessionFacts \cup ChargeFacts)]

\* The units a tier has given away for good: those of its paid orders and
\* those whose ticket still opens the door.
Sold(t) ==
    {u \in Units : TierOf[u] = t /\ (status[OrderOf[u]] = "paid" \/ ticket[u] = "valid")}

\* No tier is ever oversold, whatever the interleaving of reservations, late
\* payments, tier edits and statements that waited for a lock with an old
\* clock (reserve_checkout, fulfill_paid_order, save_ticket_tiers).
NoOversell == \A t \in Tiers : Cardinality(Sold(t)) <= capacity[t]

\* Tickets exist only for orders whose money was collected: no unpaid
\* completed session, delayed method or overtaken event issues one (9.3).
TicketsArePaidFor ==
    \A u \in Units : ticket[u] # "none" => "paid" \in facts[OrderOf[u]]

\* A ticket that opens the door belongs to an order that is paid, reconciled
\* and whose event still stands: no review, refund, dispute or cancellation
\* leaves one behind (the withdrawals in every webhook writer).
ValidTicketIsSettled ==
    \A u \in Units : ticket[u] = "valid" =>
        LET o == OrderOf[u] IN
        /\ status[o] = "paid" /\ paidAt[o] /\ recon[o] = "reconciled"
        /\ attached[o]
        /\ eventStatus = "published"

\* The coherence check that fulfill_paid_order makes first, and that sends an
\* order to review as TICKET_SET_MISMATCH, never fires on a state the writers
\* can reach: issuance is all or nothing and every withdrawal is complete.
TicketSetsCoherent == \A o \in Orders : TicketSetCoherent(o)

\* A ticket's history is never rewritten: the guard trigger on tickets would
\* raise on any other transition and so abort the whole transaction.
TicketHistory ==
    [][\A u \in Units : ticket'[u] # ticket[u] =>
          <<ticket[u], ticket'[u]>> \in
             ({"none"} \X {"valid"}) \cup ({"valid"} \X {"used", "refunded", "cancelled"})
               \cup {<<"cancelled", "refunded">>}]_vars

\* An order whose reservation was released is never revived: a late payment
\* leads to review and from there at most to a refund (design, 12.3).
ReleasedIsNotRevived ==
    [][\A o \in Orders : status[o] \in Released =>
          status'[o] \in Released \cup {"requires_review", "refunded"}]_vars

\* A refunded order gives its units back for good.
RefundedIsFinal ==
    [][\A o \in Orders : status[o] = "refunded" => status'[o] = "refunded"]_vars

\* No reservation is expired before its deadline has really passed, however
\* old the expiring statement's clock (9.4: cleanup changes only eligible
\* orders and cannot release paid, processing or review inventory).
OnlyStaleExpires ==
    [][\A o \in Orders : status[o] # "expired" /\ status'[o] = "expired" =>
          status[o] \in Unfinished /\ deadline[o] <= clock]_vars

\* The units of the tier that somebody has been promised and not given back.
Promised(t) ==
    {u \in Units :
        /\ TierOf[u] = t
        /\ status[OrderOf[u]] \notin {"none", "refunded"} \cup Released
        /\ status[OrderOf[u]] \in Unfinished => deadline[OrderOf[u]] > clock}

\* A new reservation never promises a seat that, at the moment it commits,
\* another order holds: the older clock of a statement that waited can only
\* make it see more seats taken, never fewer.
ReservationFits ==
    [][\A o \in Orders : status[o] = "none" /\ status'[o] # "none" =>
          \A t \in TiersOf(o) : Cardinality(Promised(t)') <= capacity[t]]_vars

\* Who pays within the deadline gets the tickets: fulfilment's second look at
\* the inventory refuses such an order only when the event was withdrawn, or
\* when somebody else's late payment is under review and still holds seats.
OnTimePaymentIsHonoured ==
    [][\A o \in Orders :
          ( /\ "paid" \in facts[o] /\ facts[o] \subseteq {"open", "processing", "paid"}
            /\ status[o] \in Unfinished /\ deadline[o] > clock
            /\ status'[o] = "requires_review" )
          => \/ ~CurrentlyEligible
             \/ \E x \in Orders \ {o} : status[x] = "requires_review"]_vars

\* Under pg_cron's fairness an abandoned reservation stops being one.
StaleIsReleased ==
    \A o \in Orders :
        (status[o] \in Unfinished /\ deadline[o] <= clock) ~> (status[o] \notin Unfinished)

\* A collected payment is never lost: it ends in an order that is paid,
\* refunded or put before a human, even if the session was never attached.
PaymentIsAccountedFor ==
    \A o \in Orders :
        ("paid" \in facts[o]) ~> (paidAt[o] \/ recon[o] = "requires_review")

\* 9.3 of the checkout-integrity design: committed quantity includes orders
\* under review, and a tier edit may not go below it.
EditKeepsCommitted ==
    [][\A t \in Tiers : capacity'[t] < capacity[t] =>
          Cardinality(Promised(t)) <= capacity'[t]]_vars

\* What becomes of orders nobody paid for: they are released in time only, and
\* for good (design, 9.4 and 12.3).
OrderHistory == ReleasedIsNotRevived /\ OnlyStaleExpires

\* What becomes of what was paid: tickets move as the guard on the table says,
\* and a refund is the end of its order.
AfterSaleHistory == TicketHistory /\ RefundedIsFinal

=============================================================================
