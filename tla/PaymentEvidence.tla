--------------------------- MODULE PaymentEvidence ---------------------------
(***************************************************************************)
(* What the webhook takes as proof that an order was paid: an event names a *)
(* checkout session, the session is read again with its lines, its payment  *)
(* and its charge, compared with the order, and settled with the database.  *)
(* What Stripe returned is chosen where the code first looks at it.          *)
(***************************************************************************)
EXTENDS Common, Sequences
LOCAL INSTANCE FiniteSetsExt

CONSTANTS
    Tiers,       \* items an order may have
    MaxQuantity  \* tickets of one item

ASSUME PaymentEvidenceAssumption == IsFiniteSet(Tiers) /\ MaxQuantity \in Nat

VARIABLES
    order,     \* item -> quantity; every ticket costs one
    attached,  \* the database knows the session as the order's
    event,     \* type of the event
    rows,      \* lines of the session
    payment,   \* the session, its payment and its charge
    stage,
    row,       \* next line to look at
    seen,      \* items of the lines looked at
    units,     \* the manifest: one entry per ticket
    verdict

evidenceVars == <<order, attached, event, rows, payment, stage, row, seen, units, verdict>>

UpToMost == 1..MaxQuantity
Orders     == UNION {[items -> UpToMost] : items \in (SUBSET Tiers) \ {{}}}

\* A line names an item of the order, or none, through its product: the same
\* price or product twice is the same item twice.
Lines == [item : Tiers \cup {None}, quantity : UpToMost, unit : 1..2]

\* Sessions by what was paid.  A charge may be missing, not expanded, without its
\* transfer or fee yet, or already be refunded or disputed.
Unpaid == [paid : {FALSE}, session : {"open", "complete", "expired"},
           intent : {"none", "processing", "failed"}, charge : {"none"}]
Paid   == [paid : {TRUE}, session : {"complete"}, intent : {"succeeded"},
           charge : {"none", "unexpanded", "unsettled", "clean", "refunded", "disputed"}]
Absent == [paid : {TRUE}, session : {"complete"}, intent : {"none", "unexpanded"}, charge : {"none"}]

Completed   == "checkout.session.completed"
Succeeded   == "checkout.session.async_payment_succeeded"
AsyncFailed == "checkout.session.async_payment_failed"
Expired     == "checkout.session.expired"

EvidenceInit ==
    /\ order \in Orders /\ attached \in BOOLEAN
    /\ event = None /\ rows = <<>> /\ payment = None
    /\ stage = "receive" /\ row = 1 /\ seen = {} /\ units = {} /\ verdict = None

Ends(v)   == stage' = "done" /\ verdict' = v
GoesTo(s) == stage' = s /\ UNCHANGED verdict

\* reviewKnownCheckoutValidationFailure: an order that has the session goes to the
\* support, for its lines whatever the event, else only on completion.
Mismatch(lines) ==
    Ends(IF attached /\ (lines \/ event = Completed) THEN "review" ELSE "refused")

-----------------------------------------------------------------------------
(* currentSessionSnapshot *)

ReceiveEvent ==
    /\ stage = "receive"
    /\ \/ event' \in {Completed, Succeeded, AsyncFailed, Expired} /\ GoesTo("session")
       \/ UNCHANGED event /\ Ends("malformed")
    /\ UNCHANGED <<order, attached, rows, payment, row, seen, units>>

\* An order without a session is looked for only if a payment was made.
ReadSession ==
    /\ stage = "session"
    /\ payment' \in Unpaid \cup Paid \cup Absent
    /\ IF attached \/ (payment'.paid /\ event \in {Completed, Succeeded})
       THEN GoesTo("lines") /\ \E n \in 0..Cardinality(Tiers) : rows' \in [1..n -> Lines]
       ELSE Ends("refused") /\ UNCHANGED rows
    /\ UNCHANGED <<order, attached, event, row, seen, units>>

-----------------------------------------------------------------------------
(* validateCheckoutLines *)

\* Mutant: the quantities are left to the totals.
LineMatchesTotal(line) == line.unit = 1

LineMatches(line) == line.quantity = order[line.item] /\ line.unit = 1

CheckLine ==
    LET line == rows[row] IN
    /\ stage = "lines" /\ Len(rows) = Cardinality(DOMAIN order) /\ row <= Len(rows)
    /\ IF line.item \in DOMAIN order /\ line.item \notin seen /\ LineMatches(line)
       THEN GoesTo("lines") /\ row' = row + 1 /\ seen' = seen \cup {line.item}
       ELSE Mismatch(TRUE) /\ UNCHANGED <<row, seen>>
    /\ UNCHANGED <<order, attached, event, rows, payment, units>>

TotalsMatch ==
    MapThenSumSet(LAMBDA i : rows[i].quantity * rows[i].unit, DOMAIN rows)
        = MapThenSumSet(LAMBDA i : order[i], DOMAIN order)

CheckLines ==
    /\ stage = "lines"
    /\ \/ Len(rows) # Cardinality(DOMAIN order) /\ Mismatch(TRUE)
       \/ /\ Len(rows) = Cardinality(DOMAIN order) /\ row > Len(rows)
          /\ IF seen = DOMAIN order /\ TotalsMatch THEN GoesTo("payment") ELSE Mismatch(TRUE)
    /\ UNCHANGED <<order, attached, event, rows, payment, row, seen, units>>

-----------------------------------------------------------------------------
(* validatePaymentIntent, dispatchCheckout, dispatchUnattachedPaidCheckout *)

\* retryableProviderSnapshot: Stripe has not finished; it delivers again.
Incomplete == Ends("retry")

CheckPayment ==
    /\ stage = "payment"
    /\ IF payment.intent = "unexpanded" THEN Incomplete
       ELSE IF ~attached /\ payment.intent = "none" THEN Ends("refused")
       ELSE CASE event = Completed ->
                   IF payment.session # "complete" THEN Mismatch(FALSE)
                   ELSE IF payment.intent = "none" THEN Incomplete
                   ELSE IF payment.paid THEN GoesTo("charge")
                   ELSE IF payment.intent = "processing" THEN Ends("processing") ELSE Mismatch(FALSE)
              [] event = Succeeded ->
                   IF payment.session # "complete" \/ ~payment.paid THEN Ends("refused")
                   ELSE IF payment.intent = "none" THEN Incomplete ELSE GoesTo("charge")
              [] event \in {Expired, AsyncFailed} ->
                   IF ~payment.paid /\ payment.session = (IF event = Expired THEN "expired" ELSE "complete")
                   THEN Ends("failed") ELSE Ends("refused")
              [] OTHER -> GoesTo("charge")
    /\ UNCHANGED <<order, attached, event, rows, payment, row, seen, units>>

Affected == payment.charge \in {"refunded", "disputed"}

\* validateCharge; a refund or a dispute of an order that has the session is for
\* the support, of another one for the database to say.
CheckCharge ==
    /\ stage = "charge"
    /\ IF payment.charge \in {"none", "unexpanded", "unsettled"} THEN Incomplete
       ELSE IF attached /\ Affected THEN Ends("review") ELSE GoesTo("manifest")
    /\ UNCHANGED <<order, attached, event, rows, payment, row, seen, units>>

-----------------------------------------------------------------------------
(* createTicketManifest, and the answer of the database *)

MakeTickets ==
    /\ stage = "manifest"
    /\ units' = UNION {{<<i, u>> : u \in 1..order[i]} : i \in DOMAIN order}
    /\ GoesTo("settle")
    /\ UNCHANGED <<order, attached, event, rows, payment, row, seen>>

Bought == MapThenSumSet(LAMBDA i : order[i], DOMAIN order)

\* server_fulfill_paid_order: paid with all tickets, or what was settled before.
Fulfilments == [status : {"paid", "requires_review", "refunded"}, count : {0, Bought}]

\* server_reconcile_unattached_paid_checkout
Reconciliations ==
    {[how |-> "fulfilled", status |-> "paid", count |-> Bought] : x \in {~Affected} \ {FALSE}}
    \cup [how : {"replay"}, status : {"paid", "refunded"}, count : {Bought}]
    \cup [how : {"review"}, status : {"requires_review", "expired", "cancelled"}, count : {0}]
    \cup [how : {"review"}, status : {"requires_review"}, count : {Bought}]

\* validateUnattachedResult
Understood(r) ==
    CASE r.how = "fulfilled" -> r.status = "paid" /\ r.count = Cardinality(units)
      [] r.how = "replay" -> r.status \in {"paid", "refunded"} /\ r.count = Cardinality(units)
      [] OTHER -> r.count = 0 \/ (r.status = "requires_review" /\ r.count = Cardinality(units))

\* throwRpc: an error the code knows is final, except that a payment object
\* another order has is for the support; any other one may pass.
DatabaseFails ==
    \/ Ends(IF attached THEN "review" ELSE "refused")   \* PAYMENT_OBJECT_ALREADY_USED
    \/ Ends("refused")
    \/ Ends("retry")

Settle ==
    /\ stage = "settle"
    /\ \/ DatabaseFails
       \/ /\ attached
          /\ \/ \E r \in Fulfilments :
                   Ends(IF r.status = "paid" /\ r.count = Cardinality(units) THEN "fulfilled" ELSE "refused")
       \/ /\ ~attached
          /\ \E r \in Reconciliations :
                Ends(IF ~Understood(r) THEN "retry" ELSE IF r.how = "review" THEN "review" ELSE "fulfilled")
    /\ UNCHANGED <<order, attached, event, rows, payment, row, seen, units>>

PaymentEvidenceNext ==
    \/ ReceiveEvent \/ ReadSession \/ CheckLine \/ CheckLines \/ CheckPayment
    \/ CheckCharge \/ MakeTickets \/ Settle

PaymentEvidenceSpec == EvidenceInit /\ [][PaymentEvidenceNext]_evidenceVars

-----------------------------------------------------------------------------
(* Properties *)

\* The lines are the order's: one for each item.
Genuine ==
    \E line \in [DOMAIN order -> DOMAIN rows] :
        /\ Len(rows) = Cardinality(DOMAIN order)
        /\ \A i \in DOMAIN order :
              /\ rows[line[i]].item = i
              /\ rows[line[i]].quantity = order[i] /\ rows[line[i]].unit = 1

\* Looking at the lines one by one, in whatever order Stripe lists them, accepts
\* exactly the sessions whose lines are the order's; the others of an order that
\* has the session reach the support.
LinesAreTheOrder ==
    /\ stage \in {"payment", "charge", "manifest", "settle"} => Genuine
    /\ verdict \in {"fulfilled", "processing", "failed"} => Genuine
    /\ stage = "done" /\ rows # <<>> /\ ~Genuine => verdict = (IF attached THEN "review" ELSE "refused")

\* A buyer who paid for what the order says is never turned away by an event of
\* the payment: tickets, or the support, or another delivery while Stripe has not
\* finished; and no other session is fulfilled.  (A paid session without a payment,
\* which Stripe does not make, is turned away if the order has no session.)
PaidIsServed ==
    /\ (stage = "charge" /\ payment.charge = "clean") \/ verdict = "fulfilled"
          => payment.paid /\ event \in {Completed, Succeeded}
    /\ (stage = "done" /\ event \in {Completed, Succeeded} /\ payment.paid /\ Genuine /\ units = {}
       /\ (attached \/ payment.intent # "none"))
          => verdict = (IF Affected THEN "review" ELSE "retry")

\* Whatever the reconciliation of an order without a session may answer is
\* understood: an answer taken for a broken one would be asked for for ever.
AnswerIsUnderstood ==
    stage = "settle" /\ ~attached => \A r \in Reconciliations : Understood(r)

\* The webhook concludes from Stripe's payloads neither too much nor too little.
EvidenceInvariant == LinesAreTheOrder /\ PaidIsServed /\ AnswerIsUnderstood

=============================================================================
