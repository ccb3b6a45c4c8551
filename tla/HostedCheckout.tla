--------------------------- MODULE HostedCheckout ---------------------------
(***************************************************************************)
(* The stripe-create-checkout and stripe-cancel-checkout edge functions in *)
(* front of the ticket-sales transactions.                                 *)
(*                                                                         *)
(* A request is a sequence of calls to the database and to Stripe.  Two    *)
(* requests for the same order may interleave at any call, any call may    *)
(* fail with or without having taken effect, and the invocation may be     *)
(* killed.  TicketSales abstracts all this into the steps StripeCreate,    *)
(* Attach, CancelReservation and StripeExpire with guards; here nothing    *)
(* guards them but what the handlers have read.                            *)
(*                                                                         *)
(* Stripe is external: under the order's idempotency key it creates one    *)
(* session or refuses for good, a repeated request gets the first answer   *)
(* again (a session still described as open), and it expires a session     *)
(* only while nobody has completed it.                                     *)
(***************************************************************************)
EXTENDS TicketSales

CONSTANT Slots   \* concurrent requests

VARIABLES
    request,   \* what each request is doing
    refused,   \* orders whose session Stripe refused to create
    sent       \* orders whose buyer was given the session's URL

hostedVars == <<request, refused, sent>>
hostVars   == <<vars, hostedVars>>

Ended  == [pc |-> "ended"]
Calls  == {"envelope", "create", "attach", "reuse", "find", "expire", "release"}

\* What Checkout says of a session's status.
SessionStatus(o) ==
    CASE "expired" \in facts[o] -> "expired"
      [] "expired" \notin facts[o] /\ facts[o] \cap {"processing", "paid"} # {} -> "complete"
      [] OTHER -> "open"

HostedInit ==
    /\ Init
    /\ request = [r \in Slots |-> Ended]
    /\ refused = {}
    /\ sent = {}

Call(r, pc)    == request' = [request EXCEPT ![r].pc = pc]
Start(r, o, pc) == request' = [request EXCEPT ![r] = [pc |-> pc, order |-> o]]
End(r)         == request' = [request EXCEPT ![r] = Ended]

-----------------------------------------------------------------------------
(* Creating a session *)

\* The handler's first call, reserve_checkout: a new or an unfinished
\* reservation goes on, to its session if it has one.
CreateRequest(r, o, now) ==
    /\ request[r] = Ended
    /\ \/ ReserveNew(o, now) /\ Start(r, o, "envelope")
       \/ /\ status[o] \notin {"none", "requires_review"} \cup Released
          /\ ~Stale(o, now)
          /\ Start(r, o, IF attached[o] THEN "reuse" ELSE "envelope")
          /\ UNCHANGED vars
       \/ ReserveAgain(o, now) /\ UNCHANGED request
    /\ UNCHANGED <<refused, sent>>

\* Too close to the session's end to create one: the reservation is left to
\* the minute job.
Envelope(r) ==
    /\ request[r].pc = "envelope"
    /\ IF clock + Grace < deadline[request[r].order] THEN Call(r, "create") ELSE End(r)
    /\ UNCHANGED <<vars, refused, sent>>

\* Stripe's side of checkout.sessions.create for an order it has not seen.
SessionCreated(o) ==
    /\ facts[o] = {} /\ o \notin refused
    /\ clock + Grace < deadline[o]
    /\ Observe(o, "open")
    /\ UNCHANGED refused

\* Mutant: any failed call to Stripe is taken for a refusal.
CreateFailedIsRefused(r) ==
    LET o == request[r].order IN
    /\ request[r].pc = "create"
    /\ \/ SessionCreated(o) /\ (Call(r, "attach") \/ Call(r, "release"))
       \/ "open" \in facts[o] /\ Call(r, "attach") /\ UNCHANGED <<vars, refused>>
    /\ UNCHANGED sent

\* checkout.sessions.create: a session, an answer that proves there is none,
\* or a failure that proves nothing and leaves everything as it is.
CreateSession(r) ==
    LET o == request[r].order IN
    /\ request[r].pc = "create"
    /\ \/ SessionCreated(o) /\ (Call(r, "attach") \/ End(r))
       \/ "open" \in facts[o] /\ Call(r, "attach") /\ UNCHANGED <<vars, refused>>
       \/ /\ facts[o] = {}
          /\ refused' = refused \cup {o}
          /\ Call(r, "release") /\ UNCHANGED vars
    /\ UNCHANGED sent

\* attach_checkout_session: the buyer gets the URL once the order is known to
\* have the session.  If the call fails, committed or not, the session goes.
AttachSession(r, now) ==
    LET o == request[r].order IN
    /\ request[r].pc = "attach"
    /\ \/ /\ \/ Attach(o, now)
             \/ attached[o] /\ status[o] = "checkout_open" /\ UNCHANGED vars
          /\ sent' = sent \cup {o} /\ End(r)
       \/ (Attach(o, now) \/ UNCHANGED vars) /\ Call(r, "expire") /\ UNCHANGED sent
    /\ UNCHANGED refused

-----------------------------------------------------------------------------
(* Reusing and cancelling one *)

\* What is done about a session that is not to be used: a completed one is
\* the webhook's business.
Dispose(r) ==
    CASE SessionStatus(request[r].order) = "complete" -> End(r)
      [] SessionStatus(request[r].order) = "open" -> Call(r, "expire")
      [] OTHER -> Call(r, "release")

\* A repeated create request for an attached order: an open session is handed
\* out again.
Reuse(r) ==
    LET o == request[r].order IN
    /\ request[r].pc = "reuse"
    /\ IF SessionStatus(o) = "open"
       THEN sent' = sent \cup {o} /\ End(r)
       ELSE UNCHANGED sent /\ Dispose(r)
    /\ UNCHANGED <<vars, refused>>

\* The buyer asks to cancel.  An order that has no session yet cannot be, and
\* one already released is only reported on.
CancelRequest(r, o) ==
    /\ request[r] = Ended
    /\ attached[o]
    /\ status[o] \in Unfinished
    /\ Start(r, o, "find")
    /\ UNCHANGED <<vars, refused, sent>>

\* Mutant: the order is released whatever has become of its session.
CancelCompleted(r) ==
    /\ request[r].pc = "find"
    /\ Call(r, IF SessionStatus(request[r].order) = "open" THEN "expire" ELSE "release")
    /\ UNCHANGED <<vars, refused, sent>>

CancelRetrieve(r) ==
    /\ request[r].pc = "find"
    /\ Dispose(r)
    /\ UNCHANGED <<vars, refused, sent>>

\* Mutant: the answer to checkout.sessions.expire is not looked at.
ExpireUnchecked(r) ==
    /\ request[r].pc = "expire"
    /\ StripeExpire(request[r].order) \/ UNCHANGED vars
    /\ Call(r, "release")
    /\ UNCHANGED <<refused, sent>>

\* checkout.sessions.expire: unless Stripe confirms, nothing is released.
ExpireSession(r) ==
    LET o == request[r].order IN
    /\ request[r].pc = "expire"
    /\ \/ StripeExpire(o) /\ (Call(r, "release") \/ End(r))
       \/ UNCHANGED vars /\ End(r)
    /\ UNCHANGED <<refused, sent>>

\* cancel_checkout_reservation, which only looks at the order's status.
Release(r) ==
    LET o == request[r].order IN
    /\ request[r].pc = "release"
    /\ status' = [status EXCEPT ![o] = IF @ \in Unfinished THEN "cancelled" ELSE @]
    /\ End(r)
    /\ UNCHANGED <<clock, eventVars, tierVars, deadline, attached, paidAt, recon, ticket,
                   facts, refused, sent>>

\* The invocation is killed, or a call whose failure is only reported fails.
Killed(r) ==
    /\ request[r] # Ended
    /\ End(r)
    /\ UNCHANGED <<vars, refused, sent>>

-----------------------------------------------------------------------------

RequestStep ==
    \E r \in Slots :
       \/ \E o \in Orders :
             CancelRequest(r, o) \/ \E now \in Instants : CreateRequest(r, o, now)
       \/ Envelope(r) \/ CreateSession(r) \/ Reuse(r) \/ CancelRetrieve(r)
       \/ ExpireSession(r) \/ Release(r) \/ Killed(r)
       \/ \E now \in Instants : AttachSession(r, now)

HostedNext ==
    \/ /\ Around \/ \E o \in Orders, now \in Instants : Webhook(o, now)
       /\ UNCHANGED hostedVars
    \/ RequestStep

HostedSpec == HostedInit /\ [][HostedNext]_hostVars

-----------------------------------------------------------------------------
(* What the create and cancel handlers must keep *)

\* Every request is in a known call and the ghosts name orders.
HostedTypeOK ==
    /\ request \in [Slots -> {Ended} \cup [pc : Calls, order : Orders]]
    /\ refused \subseteq Orders
    /\ sent \subseteq Orders

\* What a request may conclude from the calls it has made: a session to be
\* attached or expired exists, and a reservation to be released has none
\* that could still be paid.
RequestsAreGrounded ==
    \A r \in Slots : request[r] # Ended =>
        LET o == request[r].order IN
        /\ status[o] # "none"
        /\ request[r].pc \in {"attach", "reuse", "find", "expire"} => "open" \in facts[o]
        /\ request[r].pc = "release" => "expired" \in facts[o] \/ o \in refused

\* A refused order has no session, and one Stripe never heard of is still
\* being created or ran out.
WithoutSession ==
    \A o \in Orders : facts[o] = {} =>
        \/ o \in refused
        \/ status[o] \in {"none", "creating_checkout"}
        \/ status[o] = "expired" /\ deadline[o] <= clock

RefusedHaveNone == \A o \in refused : facts[o] = {}

\* Whatever happens to a session, or attaches one, happens after its creation.
SessionsComeFirst ==
    \A o \in Orders : facts[o] # {} \/ attached[o] => "open" \in facts[o]

\* What the refinement proof rests on.
HostedInvariant ==
    /\ HostedTypeOK
    /\ RequestsAreGrounded
    /\ WithoutSession
    /\ RefusedHaveNone
    /\ SessionsComeFirst

\* "Inventory must never be released while a payable Session might still
\* exist" (13.3 of the checkout-integrity design): no money is ever collected
\* for a reservation that a request has released, whichever requests raced,
\* failed half way or were killed.
CancelledIsNeverPaid ==
    \A o \in Orders : status[o] = "cancelled" => facts[o] \cap {"processing", "paid"} = {}

=============================================================================
