--------------------------- MODULE StripeWebhook ---------------------------
(***************************************************************************)
(* The stripe-webhook edge function in front of the ticket-sales           *)
(* transactions: delivery receipts, the read of Stripe and of the order    *)
(* that precede every write, permanent and transient failures, and         *)
(* redelivery.                                                             *)
(*                                                                         *)
(* A delivery is handled by one worker, an invocation of the function.     *)
(* Between two of its awaits anything may happen: the same event may be    *)
(* handled by another worker, other events may overtake it, and the        *)
(* invocation may be killed.  What a worker read of Stripe ("seen") may    *)
(* therefore be old when it is used, but it was true: facts are only added. *)
(***************************************************************************)
EXTENDS TicketSales

CONSTANT Workers   \* concurrent invocations of the edge function

VARIABLES
    receipt,   \* stripe_webhook_events.processing_status, "none" before
    job        \* what each worker is doing

hookVars == <<receipt, job>>
allVars  == <<vars, hookVars>>

PaymentEvents == {"completed", "async_succeeded"}
Events  == PaymentEvents \cup {"async_failed", "expired", "refund", "dispute"}
Idle    == [pc |-> "idle"]
Stages  == {"retrieve", "lookup", "recover", "reconcile", "apply", "permanent", "transient"}
Receipt == {"none", "processing", "processed", "failed"}

\* The facts that make Stripe send, or would still confirm, an event.
Reported(e, fs) ==
    \/ e = "completed" /\ fs \cap {"processing", "paid"} # {}
    \/ e = "async_succeeded" /\ {"processing", "paid"} \subseteq fs
    \/ e = "async_failed" /\ {"processing", "failed"} \subseteq fs
    \/ e = "expired" /\ "expired" \in fs
    \/ e = "refund" /\ "refunded" \in fs
    \/ e = "dispute" /\ "disputed" \in fs

Affected(fs) == fs \cap ChargeFacts # {}

Recoverable == {"creating_checkout", "requires_review"} \cup Released

WebhookInit ==
    /\ Init
    /\ receipt = [o \in Orders |-> [e \in Events |-> "none"]]
    /\ job = [w \in Workers |-> Idle]

-----------------------------------------------------------------------------
(* A worker's own moves *)

Goto(w, stage) == job' = [job EXCEPT ![w].pc = stage]
Finish(w)      == job' = [job EXCEPT ![w] = Idle]
Record(w, s)   == receipt' = [receipt EXCEPT ![job[w].order][job[w].event] = s]
ReceiptOf(w)   == receipt[job[w].order][job[w].event]

\* The domain function marks the receipt in its own transaction.
Settle(w) == Record(w, "processed") /\ Finish(w)

\* Mutant: a delivery with a receipt is taken for a duplicate, handled or not.
ReceiveOnce(w, o, e) ==
    /\ job[w] = Idle
    /\ Reported(e, facts[o])
    /\ receipt[o][e] = "none"
    /\ receipt' = [receipt EXCEPT ![o][e] = "processing"]
    /\ job' = [job EXCEPT ![w] =
          [pc |-> "retrieve", order |-> o, event |-> e, seen |-> {}]]
    /\ UNCHANGED vars

\* record_webhook_receipt: unless it was processed, the delivery is taken on,
\* even if another worker is still busy with an earlier one.
Receive(w, o, e) ==
    /\ job[w] = Idle
    /\ Reported(e, facts[o])
    /\ receipt[o][e] # "processed"
    /\ receipt' = [receipt EXCEPT ![o][e] = "processing"]
    /\ job' = [job EXCEPT ![w] =
          [pc |-> "retrieve", order |-> o, event |-> e, seen |-> {}]]
    /\ UNCHANGED vars

\* Mutant: the event type is taken for the state of the payment.
RetrieveTrusting(w) ==
    /\ job[w].pc = "retrieve"
    /\ job' = [job EXCEPT ![w].pc = "lookup", ![w].seen = facts[job[w].order] \cup
          IF job[w].event \in PaymentEvents THEN {"paid"} ELSE {}]
    /\ UNCHANGED <<receipt, vars>>

\* The session, or the refund or dispute with its charge, as Stripe has it now.
Retrieve(w) ==
    /\ job[w].pc = "retrieve"
    /\ job' = [job EXCEPT ![w].pc = "lookup", ![w].seen = facts[job[w].order]]
    /\ UNCHANGED <<receipt, vars>>

\* Metadata and amounts bind what Stripe returned to an order that has it
\* attached: the others have no snapshot to compare with.
Known(w) == attached[job[w].order]

\* Mutant: no order attached to the session means the event is not ours.
LookupNoRecovery(w) ==
    /\ job[w].pc = "lookup"
    /\ Goto(w, IF Known(w) THEN "apply" ELSE "permanent")
    /\ UNCHANGED <<receipt, vars>>

\* getOrderSnapshot and getPaymentOrderSnapshot find attached orders only; a
\* payment for any other order is a candidate for recovery.
Lookup(w) ==
    /\ job[w].pc = "lookup"
    /\ Goto(w, IF Known(w) THEN "apply"
               ELSE IF job[w].event \in PaymentEvents /\ "paid" \in job[w].seen
                    THEN "recover" ELSE "permanent")
    /\ UNCHANGED <<receipt, vars>>

\* server_get_unattached_checkout_review_snapshot
ReadUnattached(w) ==
    LET o == job[w].order IN
    /\ job[w].pc = "recover"
    /\ Goto(w, IF ReceiptOf(w) = "processing" /\ (attached[o] \/ status[o] \in Recoverable)
               THEN "reconcile" ELSE "permanent")
    /\ UNCHANGED <<receipt, vars>>

\* fulfill_paid_order, which leaves a settled order alone.
Fulfil(o, now) ==
    \/ FulfillPaidOrder(o, now)
    \/ attached[o] /\ TicketSetCoherent(o) /\ status[o] \in Settled /\ UNCHANGED vars

\* reconcile_unattached_paid_checkout, which looks at the receipt and at the
\* attachment again under the order's lock.
Reconcile(w, now) ==
    LET o == job[w].order
        affected == Affected(job[w].seen) IN
    /\ job[w].pc = "reconcile"
    /\ \/ /\ ReceiptOf(w) # "processing"
          /\ Goto(w, "permanent") /\ UNCHANGED <<receipt, vars>>
       \/ /\ ReceiptOf(w) = "processing" /\ attached[o] /\ affected
          /\ Goto(w, "transient") /\ UNCHANGED <<receipt, vars>>
       \/ /\ ReceiptOf(w) = "processing" /\ attached[o] /\ ~affected
          /\ Fulfil(o, now) /\ Settle(w)
       \/ /\ ReceiptOf(w) = "processing"
          /\ ReconcileUnattached(o, affected, now) /\ Settle(w)

-----------------------------------------------------------------------------
(* What each event asks of the database, for an attached order *)

Pending(o) == status[o] \in Unfinished \cup {"payment_processing"}

\* Mutant: every completed session is fulfilled, collected or not.
CompletedIsPaid(w, now) ==
    LET o == job[w].order IN job[w].event = "completed" /\ Fulfil(o, now)

\* checkout.session.completed: still waiting for the money, collected, or by
\* now known to have failed, which is a mismatch put under review (once: a
\* processed receipt is returned as it is).
ApplyCompleted(w, now) ==
    LET o == job[w].order
        seen == job[w].seen IN
    /\ job[w].event = "completed"
    /\ \/ /\ seen \cap {"paid", "failed"} = {}
          /\ MarkPaymentProcessing(o) \/ (~Pending(o) /\ UNCHANGED vars)
       \/ /\ "paid" \in seen /\ Affected(seen) /\ MarkPaymentRequiresReview(o)
       \/ /\ "paid" \in seen /\ ~Affected(seen) /\ Fulfil(o, now)
       \/ /\ "failed" \in seen
          /\ IF ReceiptOf(w) = "processed" THEN UNCHANGED vars ELSE MarkReconciliationReview(o)

\* checkout.session.async_payment_succeeded
ApplySucceeded(w, now) ==
    LET o == job[w].order IN
    /\ job[w].event = "async_succeeded"
    /\ \/ Affected(job[w].seen) /\ MarkPaymentRequiresReview(o)
       \/ ~Affected(job[w].seen) /\ Fulfil(o, now)

\* checkout.session.async_payment_failed and checkout.session.expired
ApplyFailed(w) ==
    LET o == job[w].order IN
    /\ job[w].event \in {"async_failed", "expired"}
    /\ MarkPaymentFailed(o) \/ (~Pending(o) /\ UNCHANGED vars)

\* refund.*: the verified refunds add up to the order.
ApplyRefundEvent(w) == job[w].event = "refund" /\ ApplyWholeRefund(job[w].order)

\* charge.dispute.*: one that does not advance the recorded one is ignored.
ApplyDisputeEvent(w) ==
    /\ job[w].event = "dispute"
    /\ ApplyDispute(job[w].order) \/ UNCHANGED vars

Apply(w, now) ==
    /\ job[w].pc = "apply"
    /\ \/ ApplyCompleted(w, now)
       \/ ApplySucceeded(w, now)
       \/ ApplyFailed(w)
       \/ ApplyRefundEvent(w)
       \/ ApplyDisputeEvent(w)
    /\ Settle(w)

-----------------------------------------------------------------------------
(* Failure *)

\* A permanent mismatch is acknowledged: Stripe will not send it again.
Permanent(w) ==
    /\ job[w].pc = "permanent"
    /\ Settle(w)
    /\ UNCHANGED vars

\* Mutant: a late failure reopens a receipt somebody else has processed.
TransientAlways(w) ==
    /\ job[w].pc = "transient"
    /\ Record(w, "failed") /\ Finish(w)
    /\ UNCHANGED vars

\* A transient one is recorded unless it was processed meanwhile, and answered
\* with 503.
Transient(w) ==
    /\ job[w].pc = "transient"
    /\ IF ReceiptOf(w) = "processed" THEN UNCHANGED receipt ELSE Record(w, "failed")
    /\ Finish(w)
    /\ UNCHANGED vars

\* A call to Stripe or to the database fails.
Outage(w) ==
    /\ "outage" \in World
    /\ job[w].pc \in Stages \ {"permanent", "transient"}
    /\ Goto(w, "transient")
    /\ UNCHANGED <<receipt, vars>>

\* The invocation is killed, or cannot even record how it ended.
Crash(w) ==
    /\ "crash" \in World
    /\ job[w] # Idle
    /\ Finish(w)
    /\ UNCHANGED <<receipt, vars>>

-----------------------------------------------------------------------------

Work(w) ==
    \/ Retrieve(w) \/ Lookup(w) \/ ReadUnattached(w) \/ Permanent(w) \/ Transient(w)
    \/ \E now \in Instants : Reconcile(w, now) \/ Apply(w, now)

DeliveryStep ==
    \E w \in Workers :
       \/ \E o \in Orders, e \in Events : Receive(w, o, e)
       \/ Work(w) \/ Outage(w) \/ Crash(w)

WebhookNext ==
    \/ (Around \/ Requests) /\ UNCHANGED hookVars
    \/ DeliveryStep

WebhookSpec == WebhookInit /\ [][WebhookNext]_allVars

\* Worker w is about to take this step for a payment of the order.
PaymentStep(w, o, stage) ==
    /\ job[w].pc = stage
    /\ job[w].order = o /\ job[w].event \in PaymentEvents
    /\ Work(w)

\* Stripe redelivers an unacknowledged payment event; a worker that is left
\* alone ends; and though invocations are killed and calls fail, there is no
\* step at which every one of them ends.  Time passes, and pg_cron calls the
\* expiry every minute.
WebhookFairness ==
    /\ WF_allVars(Tick /\ UNCHANGED hookVars)
    /\ WF_allVars(ExpireReservations(clock) /\ UNCHANGED hookVars)
    /\ \A w \in Workers, o \in Orders :
          /\ WF_allVars(Work(w))
          /\ \A e \in PaymentEvents : SF_allVars(Receive(w, o, e))
          /\ \A stage \in Stages \ {"permanent", "transient"} :
                SF_allVars(PaymentStep(w, o, stage))

FairWebhookSpec == WebhookSpec /\ WebhookFairness

-----------------------------------------------------------------------------
(* What the webhook's receipts and its reads before writing must keep *)

\* Every receipt is in its column's domain and every worker in a known stage.
WebhookTypeOK ==
    /\ receipt \in [Orders -> [Events -> Receipt]]
    /\ job \in [Workers -> {Idle} \cup
          [pc : Stages, order : Orders, event : Events,
           seen : SUBSET (SessionFacts \cup ChargeFacts)]]

\* What a worker knows of Stripe may be old but was true, and confirms the
\* event it handles (facts never go away); only collected payments are
\* recovered.
JobsAreGrounded ==
    \A w \in Workers : job[w] # Idle =>
        LET j == job[w] IN
        /\ j.seen \subseteq facts[j.order]
        /\ Reported(j.event, facts[j.order])
        /\ j.pc \in {"lookup", "recover", "reconcile", "apply"} => Reported(j.event, j.seen)
        /\ j.pc \in {"recover", "reconcile"} => "paid" \in j.seen

\* What the refinement proof rests on.
WebhookInvariant == WebhookTypeOK /\ JobsAreGrounded

\* An event that says money was collected is acknowledged only when the order
\* has it: paid, or put before a human.  Nothing else would bring it back,
\* for Stripe does not resend what was acknowledged (13.4).
HandledPaymentIsAccounted ==
    \A o \in Orders, e \in PaymentEvents :
        receipt[o][e] = "processed" /\ "paid" \in facts[o]
          /\ (e = "completed" => "processing" \notin facts[o])
        => paidAt[o] \/ recon[o] = "requires_review"

\* A processed receipt stays processed, so that no redelivery is handled
\* twice one after the other (record and finalize, against workers that
\* fail late).
ReceiptIsFinal ==
    [][\A o \in Orders, e \in Events :
          receipt[o][e] = "processed" => receipt'[o][e] = "processed"]_allVars

=============================================================================
