---------------------------- MODULE CheckoutProofs ----------------------------
(***************************************************************************)
(* The edge functions of a paid checkout implement the ticket-sales         *)
(* transactions.  The webhook: whatever a worker read before an await,      *)
(* crash, retry or duplicate, what it finally asks of the database is one   *)
(* of the steps TicketSales allows.  The checkout handlers: however their   *)
(* calls interleave, fail or stop, a session is created only for a live     *)
(* reservation and a reservation released only when no session of it can    *)
(* be paid, although neither Stripe nor cancel_checkout_reservation looks   *)
(* at the other side.  So everything proved of TicketSales holds behind     *)
(* each of them.                                                            *)
(***************************************************************************)
EXTENDS StripeWebhook, HostedCheckout, TicketSalesProofs

Jobs == [pc : Stages, order : Orders, event : Events,
         seen : SUBSET (SessionFacts \cup ChargeFacts)]

\* A worker's job is idle or a record; the stage tells which.
LEMMA JobShape ==
  ASSUME WebhookTypeOK, NEW w \in Workers, job[w].pc \in Stages
  PROVE  job[w] \in Jobs /\ job[w] # Idle
  BY DEF WebhookTypeOK, Idle, Stages, Jobs

-----------------------------------------------------------------------------
(* The steps *)

\* Recovery asks for a reconciliation or a fulfilment of a collected payment.
LEMMA ReconcileImplements ==
  ASSUME WebhookInvariant, NEW w \in Workers, NEW now \in Instants, Reconcile(w, now)
  PROVE  UNCHANGED vars \/ \E o \in Orders : Webhook(o, now)
<1> DEFINE x == job[w].order
<1>1. job[w] \in Jobs /\ job[w] # Idle
  BY JobShape DEF WebhookInvariant, Reconcile, Stages
<1>2. x \in Orders /\ job[w].seen \subseteq facts[x] /\ "paid" \in facts[x]
  BY <1>1 DEF Jobs, WebhookInvariant, JobsAreGrounded, Reconcile
<1>3. CASE ReconcileUnattached(x, Affected(job[w].seen), now)
  <2>1. Affected(job[w].seen) \in {FALSE, facts[x] \cap ChargeFacts # {}}
    BY <1>2 DEF Affected
  <2>2. ReconcileAsRead(x, now)
    BY <1>2, <1>3, <2>1 DEF ReconcileAsRead
  <2>3. QED
    BY <1>2, <2>2 DEF Webhook
<1>4. CASE FulfillPaidOrder(x, now)
  BY <1>2, <1>4 DEF Webhook
<1>5. QED
  BY <1>3, <1>4 DEF Reconcile, Fulfil

\* What an attached order is asked for follows from facts that were true.
LEMMA ApplyImplements ==
  ASSUME WebhookInvariant, NEW w \in Workers, NEW now \in Instants, Apply(w, now)
  PROVE  UNCHANGED vars \/ \E o \in Orders : Webhook(o, now)
<1> DEFINE x == job[w].order
           seen == job[w].seen
<1>1. job[w] \in Jobs /\ job[w] # Idle
  BY JobShape DEF WebhookInvariant, Apply, Stages
<1>2. x \in Orders /\ seen \subseteq facts[x] /\ Reported(job[w].event, seen)
  BY <1>1 DEF Jobs, WebhookInvariant, JobsAreGrounded, Apply
<1>3. CASE ApplyCompleted(w, now)
  <2>1. CASE "paid" \in seen
    <3>1. \/ facts[x] \cap ChargeFacts # {} /\ MarkPaymentRequiresReview(x)
          \/ "paid" \in facts[x] /\ FulfillPaidOrder(x, now)
          \/ "failed" \in facts[x] /\ MarkReconciliationReview(x)
          \/ UNCHANGED vars
      BY <1>2, <1>3, <2>1 DEF ApplyCompleted, Affected, Fulfil
    <3>2. QED
      BY <1>2, <3>1 DEF Webhook
  <2>2. CASE "failed" \in seen /\ "paid" \notin seen
    <3>1. ("failed" \in facts[x] /\ MarkReconciliationReview(x)) \/ UNCHANGED vars
      BY <1>2, <1>3, <2>2 DEF ApplyCompleted
    <3>2. QED
      BY <1>2, <3>1 DEF Webhook
  <2>3. CASE seen \cap {"paid", "failed"} = {}
    <3>1. "processing" \in facts[x]
      BY <1>2, <1>3, <2>3 DEF ApplyCompleted, Reported
    <3>2. MarkPaymentProcessing(x) \/ UNCHANGED vars
      BY <1>3, <2>3 DEF ApplyCompleted
    <3>3. QED
      BY <1>2, <3>1, <3>2 DEF Webhook
  <2>4. QED
    BY <2>1, <2>2, <2>3
<1>4. CASE ApplySucceeded(w, now)
  <2>1. "paid" \in facts[x]
    BY <1>2, <1>4 DEF ApplySucceeded, Reported
  <2>2. \/ facts[x] \cap ChargeFacts # {} /\ MarkPaymentRequiresReview(x)
        \/ FulfillPaidOrder(x, now)
        \/ UNCHANGED vars
    BY <1>2, <1>4 DEF ApplySucceeded, Affected, Fulfil
  <2>3. QED
    BY <1>2, <2>1, <2>2 DEF Webhook
<1>5. CASE ApplyFailed(w)
  <2>1. facts[x] \cap {"failed", "expired"} # {}
    BY <1>2, <1>5 DEF ApplyFailed, Reported
  <2>2. MarkPaymentFailed(x) \/ UNCHANGED vars
    BY <1>5 DEF ApplyFailed
  <2>3. QED
    BY <1>2, <2>1, <2>2 DEF Webhook
<1>6. CASE ApplyRefundEvent(w) \/ ApplyDisputeEvent(w)
  <2>1. \/ "refunded" \in facts[x] /\ ApplyWholeRefund(x)
        \/ "disputed" \in facts[x] /\ ApplyDispute(x)
        \/ UNCHANGED vars
    BY <1>2, <1>6 DEF ApplyRefundEvent, ApplyDisputeEvent, Reported
  <2>2. QED
    BY <1>2, <2>1 DEF Webhook
<1>7. QED
  BY <1>3, <1>4, <1>5, <1>6 DEF Apply

\* A delivery asks for one of the webhook's transactions, or for none.
LEMMA DeliveryAsks ==
  ASSUME WebhookInvariant, DeliveryStep
  PROVE  UNCHANGED vars \/ \E o \in Orders, now \in Instants : Webhook(o, now)
<1>1. ASSUME NEW w \in Workers, NEW o \in Orders, NEW e \in Events, Receive(w, o, e)
      PROVE  UNCHANGED vars
  BY <1>1 DEF Receive
<1>2. ASSUME NEW w \in Workers, Outage(w) \/ Crash(w) PROVE UNCHANGED vars
  BY <1>2 DEF Outage, Crash
<1>3. ASSUME NEW w \in Workers, Work(w)
      PROVE  UNCHANGED vars \/ \E o \in Orders, now \in Instants : Webhook(o, now)
  <2>1. CASE Retrieve(w) \/ Lookup(w) \/ ReadUnattached(w) \/ Permanent(w) \/ Transient(w)
    BY <2>1 DEF Retrieve, Lookup, ReadUnattached, Permanent, Transient
  <2>2. QED
    BY <1>3, <2>1, ReconcileImplements, ApplyImplements DEF Work
<1>4. QED
  BY <1>1, <1>2, <1>3 DEF DeliveryStep

\* Every step of the composition is a step of TicketSales or none at all.
LEMMA StepImplements ==
  ASSUME WebhookInvariant, [WebhookNext]_allVars
  PROVE  [Next]_vars
<1>1. CASE Around \/ Requests
  BY <1>1 DEF Next
<1>2. CASE DeliveryStep
  BY <1>2, DeliveryAsks DEF Next
<1>3. CASE UNCHANGED allVars
  BY <1>3 DEF allVars
<1>4. QED
  BY <1>1, <1>2, <1>3 DEF WebhookNext

-----------------------------------------------------------------------------
(* The invariant: jobs keep their shape and stay grounded in facts *)

LEMMA InitWebhookInvariant == WebhookInit => WebhookInvariant
  BY DEF WebhookInit, WebhookInvariant, WebhookTypeOK, JobsAreGrounded, Receipt

\* What confirms an event goes on confirming it.
LEMMA ReportedIsMonotone ==
  ASSUME NEW e, NEW fs, NEW gs, fs \subseteq gs, Reported(e, fs)
  PROVE  Reported(e, gs)
  BY DEF Reported

\* One worker's job becoming idle, or grounded in today's facts, is enough.
LEMMA OneJobMoves ==
  ASSUME WebhookInvariant, NEW w \in Workers, NEW j,
         job' = [job EXCEPT ![w] = j],
         receipt' \in [Orders -> [Events -> Receipt]],
         \A o \in Orders : facts[o] \subseteq facts'[o],
         \/ j = Idle
         \/ /\ j \in Jobs
            /\ j.seen \subseteq facts[j.order] /\ Reported(j.event, facts[j.order])
            /\ j.pc \in {"lookup", "recover", "reconcile", "apply"} => Reported(j.event, j.seen)
            /\ j.pc \in {"recover", "reconcile"} => "paid" \in j.seen
  PROVE  WebhookInvariant'
<1>1. job' \in [Workers -> {Idle} \cup Jobs]
  BY DEF WebhookInvariant, WebhookTypeOK, Jobs
<1>2. JobsAreGrounded'
  <2> SUFFICES ASSUME NEW x \in Workers, job'[x] # Idle
               PROVE  /\ job'[x].seen \subseteq facts'[job'[x].order]
                      /\ Reported(job'[x].event, facts'[job'[x].order])
                      /\ job'[x].pc \in {"lookup", "recover", "reconcile", "apply"}
                           => Reported(job'[x].event, job'[x].seen)
                      /\ job'[x].pc \in {"recover", "reconcile"} => "paid" \in job'[x].seen
    BY DEF JobsAreGrounded
  <2>1. CASE x = w
    <3>1. job'[x] = j /\ j \in Jobs
      BY <2>1 DEF WebhookInvariant, WebhookTypeOK
    <3>2. j.order \in Orders /\ facts[j.order] \subseteq facts'[j.order]
      BY <3>1 DEF Jobs
    <3>3. QED
      BY <3>1, <3>2, ReportedIsMonotone
  <2>2. CASE x # w
    <3>1. job'[x] = job[x] /\ job[x] \in Jobs
      BY <2>2 DEF WebhookInvariant, WebhookTypeOK, Jobs
    <3>2. job[x].order \in Orders /\ facts[job[x].order] \subseteq facts'[job[x].order]
      BY <3>1 DEF Jobs
    <3>3. QED
      BY <3>1, <3>2, ReportedIsMonotone DEF WebhookInvariant, JobsAreGrounded
  <2>3. QED
    BY <2>1, <2>2
<1>3. QED
  BY <1>1, <1>2 DEF WebhookInvariant, WebhookTypeOK, Jobs

\* A worker that goes on to another stage knows what it knew.
LEMMA GotoKeepsInvariant ==
  ASSUME WebhookInvariant, NEW w \in Workers, job[w].pc \in Stages,
         NEW stage \in Stages, Goto(w, stage), UNCHANGED <<receipt, facts>>,
         stage \in {"lookup", "recover", "reconcile", "apply"}
            => Reported(job[w].event, job[w].seen),
         stage \in {"recover", "reconcile"} => "paid" \in job[w].seen
  PROVE  WebhookInvariant'
<1> DEFINE j == [job[w] EXCEPT !.pc = stage]
<1>1. job[w] \in Jobs /\ job[w] # Idle
  BY JobShape DEF WebhookInvariant
<1>2. /\ j \in Jobs /\ j.pc = stage
      /\ j.order = job[w].order /\ j.event = job[w].event /\ j.seen = job[w].seen
  BY <1>1 DEF Jobs
<1>3. job' = [job EXCEPT ![w] = j]
  BY DEF Goto
<1>4. j.seen \subseteq facts[j.order] /\ Reported(j.event, facts[j.order])
  BY <1>1, <1>2 DEF WebhookInvariant, JobsAreGrounded
<1>5. receipt' \in [Orders -> [Events -> Receipt]]
  BY DEF WebhookInvariant, WebhookTypeOK
<1> HIDE DEF j
<1>6. QED
  BY <1>2, <1>3, <1>4, <1>5, OneJobMoves

\* A worker that ends, with or without a mark on the receipt, leaves the
\* others as they are.
LEMMA FinishKeepsInvariant ==
  ASSUME WebhookInvariant, NEW w \in Workers, job[w].pc \in Stages, Finish(w),
         NEW s \in Receipt, Record(w, s) \/ UNCHANGED receipt,
         \A o \in Orders : facts[o] \subseteq facts'[o]
  PROVE  WebhookInvariant'
<1>1. job[w] \in Jobs /\ job[w] # Idle
  BY JobShape DEF WebhookInvariant
<1>2. receipt' \in [Orders -> [Events -> Receipt]]
  <2>1. receipt \in [Orders -> [Events -> Receipt]]
    BY DEF WebhookInvariant, WebhookTypeOK
  <2>2. CASE Record(w, s)
    <3> DEFINE o == job[w].order
    <3>1. o \in Orders
      BY <1>1 DEF Jobs
    <3>2. receipt[o] \in [Events -> Receipt]
      BY <2>1, <3>1
    <3>3. [receipt[o] EXCEPT ![job[w].event] = s] \in [Events -> Receipt]
      BY <3>2
    <3>4. receipt' = [receipt EXCEPT ![o] = [receipt[o] EXCEPT ![job[w].event] = s]]
      BY <2>2 DEF Record
    <3> HIDE DEF o
    <3>5. QED
      BY <2>1, <3>1, <3>3, <3>4
  <2>3. CASE UNCHANGED receipt
    BY <2>1, <2>3
  <2>4. QED
    BY <2>2, <2>3
<1>3. QED
  BY <1>2, OneJobMoves DEF Finish

\* So does every move a worker makes.
LEMMA WorkKeepsInvariant ==
  ASSUME TypeOK, WebhookInvariant, NEW w \in Workers, Work(w) \/ Outage(w),
         \A o \in Orders : facts[o] \subseteq facts'[o]
  PROVE  WebhookInvariant'
<1>0. UNCHANGED vars => UNCHANGED facts
  BY DEF vars
<1>1. CASE Retrieve(w)
  <2> DEFINE j == [job[w] EXCEPT !.pc = "lookup", !.seen = facts[job[w].order]]
  <2>1. job[w] \in Jobs /\ job[w] # Idle /\ job[w].pc = "retrieve"
    BY <1>1, JobShape DEF WebhookInvariant, Retrieve, Stages
  <2>2. job[w].order \in Orders /\ Reported(job[w].event, facts[job[w].order])
    BY <2>1 DEF WebhookInvariant, JobsAreGrounded, Jobs
  <2>3. facts[job[w].order] \in SUBSET (SessionFacts \cup ChargeFacts)
    BY <2>2 DEF TypeOK
  <2>4. /\ j \in Jobs /\ j.pc = "lookup" /\ j.order = job[w].order
        /\ j.event = job[w].event /\ j.seen = facts[job[w].order]
    BY <2>1, <2>3 DEF Jobs, Stages
  <2>5. job' = [job EXCEPT ![w] = j] /\ receipt' \in [Orders -> [Events -> Receipt]]
    BY <1>1 DEF Retrieve, WebhookInvariant, WebhookTypeOK
  <2> HIDE DEF j
  <2>6. QED
    BY <2>2, <2>4, <2>5, OneJobMoves
<1>2. CASE Lookup(w)
  <2>1. Reported(job[w].event, job[w].seen)
    BY <1>2, JobShape DEF Lookup, WebhookInvariant, JobsAreGrounded, Stages
  <2>2. QED
    BY <1>0, <1>2, <2>1, GotoKeepsInvariant DEF Lookup, Stages
<1>3. CASE ReadUnattached(w)
  <2>1. Reported(job[w].event, job[w].seen) /\ "paid" \in job[w].seen
    BY <1>3, JobShape DEF ReadUnattached, WebhookInvariant, JobsAreGrounded, Stages
  <2>2. QED
    BY <1>0, <1>3, <2>1, GotoKeepsInvariant DEF ReadUnattached, Stages
<1>4. CASE Permanent(w)
  BY <1>4, FinishKeepsInvariant DEF Permanent, Settle, Stages, Receipt
<1>5. CASE Transient(w)
  BY <1>5, FinishKeepsInvariant DEF Transient, Stages, Receipt
<1>6. ASSUME NEW now \in Instants, Reconcile(w, now) PROVE WebhookInvariant'
  BY <1>0, <1>6, FinishKeepsInvariant, GotoKeepsInvariant
     DEF Reconcile, Settle, Stages, Receipt
<1>7. ASSUME NEW now \in Instants, Apply(w, now) PROVE WebhookInvariant'
  BY <1>7, FinishKeepsInvariant DEF Apply, Settle, Stages, Receipt
<1>8. CASE Outage(w)
  BY <1>0, <1>8, GotoKeepsInvariant DEF Outage, Stages
<1>9. QED
  BY <1>1, <1>2, <1>3, <1>4, <1>5, <1>6, <1>7, <1>8 DEF Work

\* What was reported stays true while the deliveries do nothing.
LEMMA OthersKeepInvariant ==
  ASSUME TypeOK, WebhookInvariant, [Next]_vars, UNCHANGED hookVars
  PROVE  WebhookInvariant'
<1>1. \A o \in Orders : facts[o] \subseteq facts'[o]
  BY FactsOnlyGrow
<1> SUFFICES ASSUME NEW w \in Workers, job[w] # Idle
             PROVE  /\ job[w].seen \subseteq facts'[job[w].order]
                    /\ Reported(job[w].event, facts'[job[w].order])
  BY DEF hookVars, WebhookInvariant, WebhookTypeOK, JobsAreGrounded
<1>2. job[w].order \in Orders
  BY DEF WebhookInvariant, WebhookTypeOK
<1>3. /\ job[w].seen \subseteq facts[job[w].order]
      /\ Reported(job[w].event, facts[job[w].order])
  BY DEF WebhookInvariant, JobsAreGrounded
<1>4. QED
  BY <1>1, <1>2, <1>3, ReportedIsMonotone

LEMMA NextKeepsInvariant ==
  TypeOK /\ WebhookInvariant /\ [WebhookNext]_allVars => WebhookInvariant'
<1> SUFFICES ASSUME TypeOK, WebhookInvariant, [WebhookNext]_allVars
             PROVE  WebhookInvariant'
  OBVIOUS
<1>1. \A o \in Orders : facts[o] \subseteq facts'[o]
  BY StepImplements, FactsOnlyGrow
<1>2. CASE UNCHANGED hookVars
  BY <1>2, StepImplements, OthersKeepInvariant
<1>3. ASSUME NEW w \in Workers, NEW o \in Orders, NEW e \in Events, Receive(w, o, e)
      PROVE  WebhookInvariant'
  <2> DEFINE j == [pc |-> "retrieve", order |-> o, event |-> e, seen |-> {}]
  <2>1. /\ j \in Jobs /\ j.pc = "retrieve" /\ j.order = o /\ j.event = e /\ j.seen = {}
        /\ Reported(j.event, facts[j.order])
    BY <1>3 DEF Receive, Jobs, Stages
  <2>2. job' = [job EXCEPT ![w] = j] /\ receipt' \in [Orders -> [Events -> Receipt]]
    BY <1>3 DEF Receive, WebhookInvariant, WebhookTypeOK, Receipt
  <2> HIDE DEF j
  <2>3. QED
    BY <1>1, <2>1, <2>2, OneJobMoves
<1>4. ASSUME NEW w \in Workers, Work(w) \/ Outage(w) PROVE WebhookInvariant'
  BY <1>1, <1>4, WorkKeepsInvariant
<1>5. ASSUME NEW w \in Workers, Crash(w) PROVE WebhookInvariant'
  <2>1. receipt' \in [Orders -> [Events -> Receipt]]
    BY <1>5 DEF Crash, WebhookInvariant, WebhookTypeOK
  <2>2. QED
    BY <1>1, <1>5, <2>1, OneJobMoves DEF Crash, Finish
<1>6. QED
  BY <1>2, <1>3, <1>4, <1>5 DEF WebhookNext, DeliveryStep, allVars

-----------------------------------------------------------------------------
(* The theorems *)

\* Whatever workers crash, repeat, overtake or read too early, the database
\* goes only through the behaviours that TicketSales allows.
THEOREM WebhookImplementsSales == WebhookSpec => Spec
<1>1. WebhookInit => Init /\ TypeOK /\ WebhookInvariant
  BY InitTypeOK, InitWebhookInvariant DEF WebhookInit
<1>2. TypeOK /\ WebhookInvariant /\ [WebhookNext]_allVars
        => [Next]_vars /\ TypeOK' /\ WebhookInvariant'
  BY StepImplements, NextTypeOK, NextKeepsInvariant
<1>3. QED
  BY <1>1, <1>2, PTL DEF WebhookSpec, Spec

\* What a worker acts upon was true at Stripe and confirms its event.
THEOREM JobsStayGrounded == WebhookSpec => []WebhookInvariant
<1>1. WebhookInit => TypeOK /\ WebhookInvariant
  BY InitTypeOK, InitWebhookInvariant DEF WebhookInit
<1>2. TypeOK /\ WebhookInvariant /\ [WebhookNext]_allVars => TypeOK' /\ WebhookInvariant'
  BY StepImplements, NextTypeOK, NextKeepsInvariant
<1>3. QED
  BY <1>1, <1>2, PTL DEF WebhookSpec

\* No tier is oversold behind any number of concurrent deliveries.
THEOREM WebhookNeverOversells == WebhookSpec => []NoOversell
  BY WebhookImplementsSales, NeverOversold, PTL

\* Behind the webhook too, a ticket exists only if its money was collected:
\* neither a completed but unpaid session nor an old read issues one.
THEOREM WebhookTicketsAreBacked == WebhookSpec => []TicketsArePaidFor
  BY WebhookImplementsSales, TicketsOnlyForMoney, PTL

-----------------------------------------------------------------------------
(* Receipts *)

\* What a worker does to a receipt never undoes a processed one.
LEMMA ProcessedStays ==
  ASSUME WebhookInvariant, [WebhookNext]_allVars,
         NEW o \in Orders, NEW e \in Events, receipt[o][e] = "processed"
  PROVE  receipt'[o][e] = "processed"
<1>1. CASE UNCHANGED receipt
  BY <1>1
<1>2. ASSUME NEW w \in Workers, NEW x \in Orders, NEW f \in Events, Receive(w, x, f)
      PROVE  receipt'[o][e] = "processed"
  BY <1>2 DEF Receive, WebhookInvariant, WebhookTypeOK
<1>3. ASSUME NEW w \in Workers, Record(w, "processed") PROVE receipt'[o][e] = "processed"
  BY <1>3 DEF Record, WebhookInvariant, WebhookTypeOK
<1>4. ASSUME NEW w \in Workers, Transient(w) PROVE receipt'[o][e] = "processed"
  <2>1. job[w] \in Jobs
    BY <1>4, JobShape DEF Transient, Stages, WebhookInvariant
  <2>2. CASE Record(w, "failed") /\ ReceiptOf(w) # "processed"
    BY <2>1, <2>2 DEF Record, ReceiptOf, Jobs, WebhookInvariant, WebhookTypeOK
  <2>3. QED
    BY <1>1, <1>4, <2>2 DEF Transient
<1>5. ASSUME NEW w \in Workers, Work(w) PROVE receipt'[o][e] = "processed"
  BY <1>1, <1>3, <1>4, <1>5
     DEF Work, Retrieve, Lookup, ReadUnattached, Permanent, Reconcile, Apply, Settle
<1>6. ASSUME NEW w \in Workers, Outage(w) \/ Crash(w) PROVE receipt'[o][e] = "processed"
  BY <1>1, <1>6 DEF Outage, Crash
<1>7. QED
  BY <1>1, <1>2, <1>5, <1>6 DEF WebhookNext, DeliveryStep, allVars, hookVars

\* A processed receipt is never reopened, by any worker however late it fails.
THEOREM ReceiptsAreFinal == WebhookSpec => ReceiptIsFinal
<1>1. WebhookInvariant /\ [WebhookNext]_allVars
        => [\A o \in Orders, e \in Events :
              receipt[o][e] = "processed" => receipt'[o][e] = "processed"]_allVars
  BY ProcessedStays
<1>2. QED
  BY <1>1, JobsStayGrounded, PTL DEF WebhookSpec, ReceiptIsFinal

-----------------------------------------------------------------------------
(* Payments.  An acknowledged payment event is never sent again, so what the  *)
(* worker did, or found another had done, must account for the money.  Two     *)
(* workers share one receipt: this holds as long as nothing sets it to failed. *)

Accounted(o) == paidAt[o] \/ recon[o] = "requires_review"

\* The event says that money was collected.
Due(o, e) == "paid" \in facts[o] /\ (e = "completed" => "processing" \notin facts[o])

\* What the transactions say of an order: one that is settled is accounted for,
\* one that is not is under no review, and one without a session can be recovered.
OrdersAreAccounted ==
    \A o \in Orders :
        /\ status[o] \in Settled => Accounted(o)
        /\ status[o] \in {"none", "payment_processing"} \cup Unfinished => recon[o] # "requires_review"
        /\ status[o] = "none" => facts[o] = {}
        /\ ~attached[o] => status[o] \in {"none"} \cup Recoverable

\* No receipt fails, and whoever works has one.
NothingFails ==
    /\ \A o \in Orders : facts[o] \cap ChargeFacts = {}
    /\ \A o \in Orders, e \in Events : receipt[o][e] # "failed"
    /\ \A w \in Workers : job[w] # Idle => job[w].pc # "transient" /\ ReceiptOf(w) # "none"

ReceiptsAreAccounted ==
    \A o \in Orders, e \in PaymentEvents :
        receipt[o][e] = "processed" => Reported(e, facts[o]) /\ (Due(o, e) => Accounted(o))

\* A worker that will acknowledge its event without asking for anything more.
JobsAreAccounted ==
    \A w \in Workers, o \in Orders, e \in PaymentEvents :
        job[w].pc = "permanent" /\ job[w].order = o /\ job[w].event = e /\ Due(o, e) => Accounted(o)

PaymentInvariant ==
    OrdersAreAccounted /\ NothingFails /\ ReceiptsAreAccounted /\ JobsAreAccounted

NoFailures == World \cap ({"outage"} \cup ChargeFacts) = {}

\* An order is recorded for good, and only a new one is without a record.
LEMMA OrdersStayAccounted ==
  ASSUME TypeOK, OrdersAreAccounted, [Next]_vars
  PROVE  OrdersAreAccounted' /\ \A o \in Orders : Accounted(o) => Accounted(o)'
<1> SUFFICES ASSUME NEW x \in Orders
             PROVE  /\ status'[x] \in Settled => Accounted(x)'
                    /\ status'[x] \in {"none", "payment_processing"} \cup Unfinished
                         => recon'[x] # "requires_review"
                    /\ status'[x] = "none" => facts'[x] = {}
                    /\ ~attached'[x] => status'[x] \in {"none"} \cup Recoverable
                    /\ Accounted(x) => Accounted(x)'
  BY DEF OrdersAreAccounted
<1> USE DEF eventVars, tierVars, orderVars, Accounted
<1>0. /\ status[x] \in Settled => Accounted(x)
      /\ status[x] \in {"none", "payment_processing"} \cup Unfinished => recon[x] # "requires_review"
      /\ status[x] = "none" => facts[x] = {}
      /\ ~attached[x] => status[x] \in {"none"} \cup Recoverable
  BY DEF OrdersAreAccounted
<1>1. CASE UNCHANGED <<status, attached, paidAt, recon, facts>>
  BY <1>0, <1>1
<1>2. CASE Tick \/ ToggleSales \/ ToggleEligibility \/ UNCHANGED vars
  BY <1>1, <1>2 DEF Tick, ToggleSales, ToggleEligibility, vars
<1>3. ASSUME NEW now \in Instants, Organizer(now)
      PROVE  UNCHANGED <<status, attached, paidAt, recon, facts>>
  BY <1>3 DEF Organizer, CancelEvent, SaveTicketTiers
<1>4. ASSUME NEW u \in Units, Redeem(u) PROVE UNCHANGED <<status, attached, paidAt, recon, facts>>
  BY <1>4 DEF Redeem
<1>5. CASE \E o \in Orders : StripeStep(o)
  <2>1. PICK o \in Orders : StripeStep(o)
    BY <1>5
  <2>2. UNCHANGED orderVars /\ (facts'[x] = facts[x] \/ x = o)
    BY <2>1 DEF StripeStep, StripeCreate, StripePay, StripeSettle, StripeExpire, StripeRefund,
       StripeDispute, Observe, TypeOK
  <2>3. status[o] # "none"
    <3>1. status[o] = "creating_checkout" \/ facts[o] # {}
      BY <2>1 DEF StripeStep, StripeCreate, StripePay, StripeSettle, StripeExpire, StripeRefund,
         StripeDispute, SessionUsable
    <3>2. QED
      BY <3>1 DEF OrdersAreAccounted
  <2>4. QED
    BY <1>0, <2>2, <2>3
<1>6. ASSUME NEW now \in Instants, ExpireReservations(now)
      PROVE  /\ UNCHANGED <<attached, paidAt, recon, facts>>
             /\ status'[x] = status[x] \/ (status[x] \in Unfinished /\ status'[x] = "expired")
  BY <1>6 DEF ExpireReservations, Stale
<1>7. ASSUME NEW o \in Orders, CancelReservation(o) \/ \E now \in Instants : Checkout(o, now)
      PROVE  /\ UNCHANGED <<paidAt, recon, facts>>
             /\ attached[x] => attached'[x]
             /\ \/ status'[x] = status[x] /\ attached'[x] = attached[x]
                \/ status[x] = "none" /\ status'[x] = "creating_checkout"
                \/ status[x] \in Unfinished /\ status'[x] \in Released
                \/ status[x] \in Unfinished /\ status'[x] = "checkout_open" /\ attached'[x]
  BY <1>7 DEF Checkout, ReserveNew, ReserveAgain, Attach, CancelReservation, Stale, Unfinished,
     Released, TypeOK
<1>8. ASSUME NEW o \in Orders, NEW now \in Instants, Webhook(o, now)
      PROVE  /\ status'[x] \in Settled => Accounted(x)'
             /\ status'[x] \in {"none", "payment_processing"} \cup Unfinished
                  => recon'[x] # "requires_review"
             /\ status'[x] = "none" => facts'[x] = {}
             /\ ~attached'[x] => status'[x] \in {"none"} \cup Recoverable
             /\ Accounted(x) => Accounted(x)'
  <2> USE DEF Settled, Unfinished, Recoverable, Released
  <2>1. UNCHANGED facts
    BY <1>8 DEF Webhook, ReconcileAsRead, ReconcileUnattached, MarkPaymentProcessing,
       MarkPaymentFailed, FulfillPaidOrder, MarkPaymentRequiresReview,
       MarkReconciliationReview, ApplyWholeRefund, ApplyPartialRefund, ApplyDispute
  <2>2. CASE x # o
    <3>1. /\ status'[x] = status[x] /\ attached'[x] = attached[x]
          /\ paidAt'[x] = paidAt[x] /\ recon'[x] = recon[x]
      BY <1>8, <2>2 DEF Webhook, ReconcileAsRead, ReconcileUnattached, MarkPaymentProcessing,
         MarkPaymentFailed, FulfillPaidOrder, MarkPaymentRequiresReview, MarkReconciliationReview,
         ApplyWholeRefund, ApplyPartialRefund, ApplyDispute, ToReview, IssueTickets, TypeOK
    <3>2. QED
      BY <1>0, <2>1, <3>1
  <2>3. CASE x = o /\ (MarkPaymentProcessing(o) \/ MarkPaymentFailed(o))
    BY <1>0, <2>1, <2>3 DEF MarkPaymentProcessing, MarkPaymentFailed, TypeOK
  <2>4. CASE x = o /\ FulfillPaidOrder(o, now)
    BY <1>0, <2>1, <2>4 DEF FulfillPaidOrder, ToReview, IssueTickets, TypeOK
  <2>5. CASE x = o /\ ReconcileAsRead(o, now)
    BY <1>0, <2>1, <2>5 DEF ReconcileAsRead, ReconcileUnattached, IssueTickets, TypeOK
  <2>6. CASE x = o /\ (MarkPaymentRequiresReview(o) \/ MarkReconciliationReview(o))
    BY <1>0, <2>1, <2>6 DEF MarkPaymentRequiresReview, MarkReconciliationReview, ToReview, TypeOK
  <2>7. CASE x = o /\ (ApplyWholeRefund(o) \/ ApplyPartialRefund(o) \/ ApplyDispute(o))
    BY <1>0, <2>1, <2>7 DEF ApplyWholeRefund, ApplyPartialRefund, ApplyDispute, ToReview, TypeOK
  <2>8. QED
    BY <1>8, <2>2, <2>3, <2>4, <2>5, <2>6, <2>7 DEF Webhook
<1>9. CASE \E now \in Instants : ExpireReservations(now)
  BY <1>0, <1>6, <1>9 DEF Unfinished, Recoverable, Released, Settled
<1>10. CASE \E o \in Orders : CancelReservation(o) \/ \E now \in Instants : Checkout(o, now)
  BY <1>0, <1>7, <1>10 DEF Unfinished, Recoverable, Released, Settled
<1>11. QED
  BY <1>1, <1>2, <1>3, <1>4, <1>5, <1>8, <1>9, <1>10 DEF Next, Around, Requests, StripeStep

\* What Stripe says of an order stays among the world's facts.
LEMMA FactsAreOfTheWorld ==
  ASSUME TypeOK, [Next]_vars, NEW x \in Orders
  PROVE  facts'[x] \subseteq facts[x] \cup World
<1> USE DEF eventVars, tierVars, orderVars
<1>1. CASE UNCHANGED facts
  BY <1>1
<1>2. ASSUME NEW o \in Orders, StripeStep(o) PROVE facts'[x] \subseteq facts[x] \cup World
  BY <1>2 DEF StripeStep, StripeCreate, StripePay, StripeSettle, StripeExpire, StripeRefund,
     StripeDispute, Observe, TypeOK
<1>3. ASSUME ~\E o \in Orders : StripeStep(o) PROVE UNCHANGED facts
  BY <1>3 DEF Next, Around, Requests, StripeStep, Organizer, CancelEvent, SaveTicketTiers, Tick,
     ToggleSales, ToggleEligibility, vars, ExpireReservations, Redeem, CancelReservation, Checkout,
     ReserveNew, ReserveAgain, Attach, Webhook, ReconcileAsRead, ReconcileUnattached,
     MarkPaymentProcessing, MarkPaymentFailed, FulfillPaidOrder, MarkPaymentRequiresReview,
     MarkReconciliationReview, ApplyWholeRefund, ApplyPartialRefund, ApplyDispute
<1>4. QED
  BY <1>1, <1>2, <1>3

\* What became due while the event was known had been due before.
LEMMA DueIsOld ==
  ASSUME NEW e \in PaymentEvents, NEW o \in Orders, Reported(e, facts[o]), facts[o] \subseteq facts'[o],
         Due(o, e)'
  PROVE  Due(o, e)
  BY DEF Due, Reported, PaymentEvents

\* A receipt is marked by a worker whose event is accounted for, or not at all.
LEMMA OneReceiptMoves ==
  ASSUME TypeOK, WebhookInvariant, PaymentInvariant, [Next]_vars, NoFailures,
         \A o \in Orders, e \in Events :
            \/ receipt'[o][e] = receipt[o][e]
            \/ receipt[o][e] # "processed" /\ receipt'[o][e] = "processing"
            \/ /\ receipt'[o][e] = "processed" /\ Reported(e, facts[o])
               /\ e \in PaymentEvents /\ Due(o, e) => Accounted(o)',
         \A w \in Workers :
            \/ job'[w] = Idle
            \/ /\ job'[w].pc # "transient"
               /\ receipt'[job'[w].order][job'[w].event] # "none"
               /\ job'[w].order \in Orders /\ job'[w].event \in Events
               /\ Reported(job'[w].event, facts[job'[w].order])
               /\ \/ job'[w].pc # "permanent"
                  \/ job'[w] = job[w]
                  \/ \A o \in Orders, e \in PaymentEvents :
                        job'[w].order = o /\ job'[w].event = e /\ Due(o, e) => Accounted(o)'
  PROVE  PaymentInvariant'
<1>1. OrdersAreAccounted' /\ \A o \in Orders : Accounted(o) => Accounted(o)'
  BY OrdersStayAccounted DEF PaymentInvariant
<1>2. \A o \in Orders : facts[o] \subseteq facts'[o]
  BY FactsOnlyGrow
<1>3. \A o \in Orders, e \in PaymentEvents : Reported(e, facts[o]) =>
         Reported(e, facts'[o]) /\ (Due(o, e)' => Due(o, e))
  BY <1>2, ReportedIsMonotone, DueIsOld
<1>4. PaymentEvents \subseteq Events
  BY DEF Events
<1>5. ReceiptsAreAccounted'
  BY <1>1, <1>3, <1>4 DEF PaymentInvariant, ReceiptsAreAccounted
<1>6. NothingFails'
  <2>1. \A o \in Orders : facts'[o] \cap ChargeFacts = {}
    BY FactsAreOfTheWorld DEF PaymentInvariant, NothingFails, NoFailures
  <2>2. \A o \in Orders, e \in Events : receipt'[o][e] # "failed"
    BY DEF PaymentInvariant, NothingFails
  <2>3. QED
    BY <2>1, <2>2 DEF NothingFails, ReceiptOf
<1>7. JobsAreAccounted'
  <2> SUFFICES ASSUME NEW w \in Workers, NEW o \in Orders, NEW e \in PaymentEvents,
                      job'[w].pc = "permanent", job'[w].order = o, job'[w].event = e, Due(o, e)'
               PROVE  Accounted(o)'
    BY DEF JobsAreAccounted
  <2>1. job'[w] # Idle
    BY DEF Idle
  <2>2. Due(o, e)
    BY <1>3, <2>1
  <2>3. QED
    BY <1>1, <2>1, <2>2 DEF PaymentInvariant, JobsAreAccounted
<1>8. QED
  BY <1>1, <1>5, <1>6, <1>7 DEF PaymentInvariant

LEMMA FulfilledIsAccounted ==
  ASSUME TypeOK, PaymentInvariant, NEW o \in Orders, NEW now, Fulfil(o, now)
  PROVE  Accounted(o)'
<1>1. CASE FulfillPaidOrder(o, now)
  BY <1>1 DEF FulfillPaidOrder, Accounted, TypeOK
<1>2. CASE status[o] \in Settled /\ UNCHANGED vars
  BY <1>2 DEF PaymentInvariant, OrdersAreAccounted, Accounted, vars, orderVars
<1>3. QED
  BY <1>1, <1>2 DEF Fulfil

\* What a payment event asks of the database accounts for the payment.
LEMMA SettledIsAccounted ==
  ASSUME TypeOK, WebhookInvariant, PaymentInvariant, NEW w \in Workers, NEW now \in Instants,
         Apply(w, now) \/ (Reconcile(w, now) /\ Settle(w)),
         NEW o \in Orders, NEW e \in PaymentEvents, job[w].order = o, job[w].event = e, Due(o, e)
  PROVE  Accounted(o)'
<1>1. job[w].pc \in {"apply", "reconcile"}
  BY DEF Apply, Reconcile
<1>2. job[w] \in Jobs /\ job[w] # Idle
  BY <1>1, JobShape DEF WebhookInvariant, Stages
<1>3. job[w].seen \subseteq facts[o] /\ Reported(e, job[w].seen)
  BY <1>1, <1>2 DEF WebhookInvariant, JobsAreGrounded
<1>4. Events \cap {"async_failed", "expired", "refund", "dispute"} \cap PaymentEvents = {}
  BY DEF PaymentEvents
<1>5. CASE Reconcile(w, now) /\ Settle(w)
  <2>1. CASE Fulfil(o, now)
    BY <2>1, FulfilledIsAccounted
  <2>2. CASE ReconcileUnattached(o, Affected(job[w].seen), now)
    BY <2>2 DEF ReconcileUnattached, IssueTickets, Accounted, TypeOK
  <2>3. ASSUME NEW stage \in Stages PROVE ~Goto(w, stage)
    <3>1. job'[w].pc = "idle"
      BY <1>5 DEF Settle, Finish, Idle, WebhookInvariant, WebhookTypeOK
    <3>2. Goto(w, stage) => job'[w].pc = stage
      BY <1>2 DEF Goto, WebhookInvariant, WebhookTypeOK, Jobs
    <3>3. QED
      BY <3>1, <3>2 DEF Stages
  <2>4. QED
    BY <1>5, <2>1, <2>2, <2>3 DEF Reconcile, Stages
<1>6. CASE Apply(w, now)
  <2>1. CASE ApplyCompleted(w, now)
    <3>1. CASE MarkPaymentRequiresReview(o) \/ MarkReconciliationReview(o)
      BY <3>1 DEF MarkPaymentRequiresReview, MarkReconciliationReview, Accounted, TypeOK
    <3>2. CASE Fulfil(o, now)
      BY <3>2, FulfilledIsAccounted
    <3>3. CASE job[w].seen \cap {"paid", "failed"} = {}
      BY <1>3, <2>1, <3>3 DEF ApplyCompleted, Reported, Due
    <3>4. CASE ReceiptOf(w) = "processed" /\ UNCHANGED vars
      BY <3>4 DEF ReceiptOf, PaymentInvariant, ReceiptsAreAccounted, Accounted, vars, orderVars
    <3>5. QED
      BY <2>1, <3>1, <3>2, <3>3, <3>4 DEF ApplyCompleted
  <2>2. CASE ApplySucceeded(w, now)
    <3>1. CASE MarkPaymentRequiresReview(o)
      BY <3>1 DEF MarkPaymentRequiresReview, Accounted, TypeOK
    <3>2. QED
      BY <2>2, <3>1, FulfilledIsAccounted DEF ApplySucceeded
  <2>3. QED
    BY <1>6, <2>1, <2>2
       DEF Apply, ApplyFailed, ApplyRefundEvent, ApplyDisputeEvent, PaymentEvents
<1>7. QED
  BY <1>5, <1>6

\* One worker moves: what it marks, and what it goes on with.
LEMMA OneWorkerMoves ==
  ASSUME TypeOK, WebhookInvariant, PaymentInvariant, [Next]_vars, NoFailures,
         NEW w \in Workers, NEW j, job' = [job EXCEPT ![w] = j],
         NEW o \in Orders, NEW e \in Events,
         \/ UNCHANGED receipt /\ receipt[o][e] # "none"
         \/ /\ receipt[o][e] # "processed"
            /\ receipt' = [receipt EXCEPT ![o][e] = "processing"]
         \/ /\ receipt' = [receipt EXCEPT ![o][e] = "processed"] /\ Reported(e, facts[o])
            /\ e \in PaymentEvents /\ Due(o, e) => Accounted(o)',
         \/ j = Idle
         \/ /\ j.order = o /\ j.event = e /\ Reported(e, facts[o]) /\ j.pc # "transient"
            /\ j.pc = "permanent" /\ e \in PaymentEvents /\ Due(o, e) => Accounted(o)'
  PROVE  PaymentInvariant'
<1> USE DEF WebhookInvariant, WebhookTypeOK
<1>1. /\ \A x \in Orders, f \in Events : receipt'[x][f] = receipt[x][f] \/ (x = o /\ f = e)
      /\ receipt'[o][e] # "none"
      /\ \/ receipt'[o][e] = receipt[o][e]
         \/ receipt[o][e] # "processed" /\ receipt'[o][e] = "processing"
         \/ /\ receipt'[o][e] = "processed" /\ Reported(e, facts[o])
            /\ e \in PaymentEvents /\ Due(o, e) => Accounted(o)'
  OBVIOUS
<1>2. ASSUME NEW v \in Workers, v # w, job[v] # Idle
      PROVE  /\ job'[v] = job[v] /\ job[v].order \in Orders /\ job[v].event \in Events
             /\ Reported(job[v].event, facts[job[v].order])
             /\ job[v].pc # "transient" /\ receipt'[job[v].order][job[v].event] # "none"
  <2>1. job'[v] = job[v] /\ job[v].order \in Orders /\ job[v].event \in Events
    BY <1>2 DEF Idle
  <2>2. job[v].pc # "transient" /\ receipt[job[v].order][job[v].event] # "none"
    BY <1>2 DEF PaymentInvariant, NothingFails, ReceiptOf
  <2>3. Reported(job[v].event, facts[job[v].order])
    BY <1>2 DEF JobsAreGrounded
  <2>4. QED
    BY <1>1, <2>1, <2>2, <2>3
<1>3. job'[w] = j /\ \A v \in Workers \ {w} : job'[v] = job[v]
  OBVIOUS
<1>4. QED
  BY <1>1, <1>2, <1>3, OneReceiptMoves

\* A worker goes on; what it will acknowledge is accounted for.
LEMMA GotoIsAccounted ==
  ASSUME TypeOK, WebhookInvariant, PaymentInvariant, [Next]_vars, NoFailures,
         NEW w \in Workers, job[w] \in Jobs, job[w] # Idle, NEW o, NEW e,
         o = job[w].order, e = job[w].event, UNCHANGED receipt,
         NEW j, job' = [job EXCEPT ![w] = j],
         j.order = o, j.event = e, j.pc # "transient",
         j.pc = "permanent" /\ e \in PaymentEvents /\ Due(o, e) => Accounted(o)'
  PROVE  PaymentInvariant'
<1>1. o \in Orders /\ e \in Events
  BY DEF Jobs
<1>2. Reported(e, facts[o])
  BY DEF WebhookInvariant, JobsAreGrounded
<1>3. receipt[o][e] # "none"
  BY DEF PaymentInvariant, NothingFails, ReceiptOf
<1>4. QED
  BY <1>1, <1>2, <1>3, OneWorkerMoves

LEMMA SettleIsAccounted ==
  ASSUME TypeOK, WebhookInvariant, PaymentInvariant, [Next]_vars, NoFailures,
         NEW w \in Workers, job[w] \in Jobs, job[w] # Idle, NEW o, NEW e,
         o = job[w].order, e = job[w].event, Settle(w),
         e \in PaymentEvents /\ Due(o, e) => Accounted(o)'
  PROVE  PaymentInvariant'
<1>1. o \in Orders /\ e \in Events
  BY DEF Jobs
<1>2. Reported(e, facts[o])
  BY DEF WebhookInvariant, JobsAreGrounded
<1>3. job' = [job EXCEPT ![w] = Idle] /\ receipt' = [receipt EXCEPT ![o][e] = "processed"]
  BY DEF Settle, Finish, Record
<1>4. QED
  BY <1>1, <1>2, <1>3, OneWorkerMoves

LEMMA NextPaymentInvariant ==
  ASSUME TypeOK, WebhookInvariant, PaymentInvariant, NoFailures, [Next]_vars,
         UNCHANGED hookVars \/ DeliveryStep
  PROVE  PaymentInvariant'
<1>1. \A o \in Orders : Accounted(o) => Accounted(o)'
  BY OrdersStayAccounted DEF PaymentInvariant
<1>2. CASE UNCHANGED hookVars
  <2>1. UNCHANGED <<receipt, job>>
    BY <1>2 DEF hookVars
  <2>2. ASSUME NEW w \in Workers, job[w] # Idle
        PROVE  /\ job[w].order \in Orders /\ job[w].event \in Events
               /\ Reported(job[w].event, facts[job[w].order])
               /\ job[w].pc # "transient" /\ receipt[job[w].order][job[w].event] # "none"
    BY <2>2 DEF WebhookInvariant, WebhookTypeOK, JobsAreGrounded, PaymentInvariant, NothingFails,
       ReceiptOf
  <2>3. QED
    BY <2>1, <2>2, OneReceiptMoves
<1>3. ASSUME NEW w \in Workers, NEW o \in Orders, NEW e \in Events, Receive(w, o, e)
      PROVE  PaymentInvariant'
  <2> DEFINE j == [pc |-> "retrieve", order |-> o, event |-> e, seen |-> {}]
  <2>1. /\ j.pc = "retrieve" /\ j.order = o /\ j.event = e /\ Reported(e, facts[o])
        /\ job' = [job EXCEPT ![w] = j] /\ receipt[o][e] # "processed"
        /\ receipt' = [receipt EXCEPT ![o][e] = "processing"]
    BY <1>3 DEF Receive
  <2> HIDE DEF j
  <2>2. QED
    BY <2>1, OneWorkerMoves
<1>4. ASSUME NEW w \in Workers, Work(w) \/ Outage(w) \/ Crash(w) PROVE PaymentInvariant'
  <2>1. job[w] \in Jobs /\ job[w] # Idle
    <3>1. job[w] # Idle
      BY <1>4 DEF Work, Retrieve, Lookup, ReadUnattached, Permanent, Transient, Reconcile, Apply,
         Outage, Crash, Stages, Idle
    <3>2. QED
      BY <3>1 DEF WebhookInvariant, WebhookTypeOK, Jobs
  <2>0. PICK o \in Orders, e \in Events : o = job[w].order /\ e = job[w].event
    BY <2>1 DEF Jobs
  <2>2. /\ job[w].seen \subseteq facts[o]
        /\ Reported(e, facts[o]) /\ receipt[o][e] \in {"processing", "processed"}
        /\ job[w].pc \in {"lookup", "recover", "reconcile", "apply"} => Reported(e, job[w].seen)
        /\ job[w].pc # "transient" /\ facts[o] \cap ChargeFacts = {}
    BY <2>0, <2>1 DEF WebhookInvariant, WebhookTypeOK, Receipt, JobsAreGrounded, PaymentInvariant,
       NothingFails, ReceiptOf
  <2>3. ASSUME ReceiptOf(w) # "processing", e \in PaymentEvents, Due(o, e) PROVE Accounted(o)'
    BY <1>1, <2>0, <2>2, <2>3 DEF ReceiptOf, PaymentInvariant, ReceiptsAreAccounted
  <2>4. ASSUME NEW stage \in Stages \ {"transient"}, Goto(w, stage), UNCHANGED receipt,
               stage = "permanent" /\ e \in PaymentEvents /\ Due(o, e) => Accounted(o)'
        PROVE  PaymentInvariant'
    <3> DEFINE j == [job[w] EXCEPT !.pc = stage]
    <3>1. j.order = o /\ j.event = e /\ j.pc = stage /\ job' = [job EXCEPT ![w] = j]
      BY <2>0, <2>1, <2>4 DEF Goto, Jobs
    <3> HIDE DEF j
    <3>2. QED
      BY <2>0, <2>1, <2>4, <3>1, GotoIsAccounted
  <2>5. CASE Retrieve(w)
    <3> DEFINE j == [job[w] EXCEPT !.pc = "lookup", !.seen = facts[job[w].order]]
    <3>1. j.order = o /\ j.event = e /\ j.pc = "lookup" /\ job' = [job EXCEPT ![w] = j]
          /\ UNCHANGED receipt
      BY <2>0, <2>1, <2>5 DEF Retrieve, Jobs
    <3> HIDE DEF j
    <3>2. QED
      BY <2>0, <2>1, <3>1, GotoIsAccounted
  <2>6. CASE Lookup(w)
    <3>1. PICK stage \in {"apply", "recover", "permanent"} :
             /\ Goto(w, stage) /\ UNCHANGED receipt
             /\ stage = "permanent" => ~(e \in PaymentEvents /\ "paid" \in job[w].seen)
      BY <2>0, <2>6 DEF Lookup
    <3>2. stage = "permanent" => ~(e \in PaymentEvents /\ Due(o, e))
      BY <2>0, <2>2, <2>6, <3>1 DEF Lookup, Reported, Due, PaymentEvents
    <3>3. QED
      BY <2>4, <3>1, <3>2 DEF Stages
  <2>7. CASE ReadUnattached(w)
    <3>1. PICK stage \in {"reconcile", "permanent"} :
             /\ Goto(w, stage) /\ UNCHANGED receipt
             /\ stage = "permanent" =>
                  ReceiptOf(w) # "processing" \/ (~attached[o] /\ status[o] \notin Recoverable)
      BY <2>0, <2>7 DEF ReadUnattached
    <3>2. ~attached[o] /\ status[o] \notin Recoverable => facts[o] = {}
      BY <2>2 DEF PaymentInvariant, OrdersAreAccounted
    <3>3. stage = "permanent" /\ e \in PaymentEvents /\ Due(o, e) => Accounted(o)'
      BY <2>3, <3>1, <3>2 DEF Due
    <3>4. QED
      BY <2>4, <3>1, <3>3 DEF Stages
  <2>8. CASE Permanent(w)
    <3>1. e \in PaymentEvents /\ Due(o, e) => Accounted(o)'
      BY <1>1, <2>0, <2>2, <2>8 DEF Permanent, PaymentInvariant, JobsAreAccounted
    <3>2. QED
      BY <2>0, <2>1, <2>8, <3>1, SettleIsAccounted DEF Permanent
  <2>9. ASSUME NEW now \in Instants, Apply(w, now) \/ (Reconcile(w, now) /\ Settle(w))
        PROVE  PaymentInvariant'
    <3>1. Settle(w)
      BY <2>9 DEF Apply
    <3>2. e \in PaymentEvents /\ Due(o, e) => Accounted(o)'
      BY <2>0, <2>2, <2>9, SettledIsAccounted
    <3>3. QED
      BY <2>0, <2>1, <3>1, <3>2, SettleIsAccounted
  <2>10. ASSUME NEW now \in Instants, Reconcile(w, now), ~Settle(w) PROVE PaymentInvariant'
    <3>1. ReceiptOf(w) # "processing" /\ Goto(w, "permanent") /\ UNCHANGED receipt
      BY <2>2, <2>10 DEF Reconcile, Affected
    <3>2. QED
      BY <2>3, <2>4, <3>1 DEF Stages
  <2>11. CASE Crash(w)
    <3>1. job' = [job EXCEPT ![w] = Idle] /\ UNCHANGED receipt /\ receipt[o][e] # "none"
      BY <2>0, <2>2, <2>11 DEF Crash, Finish
    <3>2. QED
      BY <2>0, <2>2, <3>1, OneWorkerMoves
  <2>12. ~Transient(w) /\ ~Outage(w)
    BY <2>2 DEF Transient, Outage, NoFailures
  <2>13. QED
    BY <1>4, <2>5, <2>6, <2>7, <2>8, <2>9, <2>10, <2>11, <2>12 DEF Work
<1>5. QED
  BY <1>2, <1>3, <1>4 DEF DeliveryStep

LEMMA InitPaymentInvariant == WebhookInit => PaymentInvariant
<1> SUFFICES ASSUME WebhookInit PROVE PaymentInvariant
  OBVIOUS
<1>1. \A w \in Workers : job[w] = Idle /\ job[w].pc = "idle"
  BY DEF WebhookInit, Idle
<1>2. OrdersAreAccounted
  BY DEF WebhookInit, Init, OrdersAreAccounted, Settled
<1>3. NothingFails /\ ReceiptsAreAccounted /\ JobsAreAccounted
  BY <1>1 DEF WebhookInit, Init, NothingFails, ReceiptsAreAccounted, JobsAreAccounted, PaymentEvents,
     Events
<1>4. QED
  BY <1>2, <1>3 DEF PaymentInvariant

LEMMA PaymentInvariantSuffices == PaymentInvariant => HandledPaymentIsAccounted
  BY DEF PaymentInvariant, ReceiptsAreAccounted, Due, Accounted, HandledPaymentIsAccounted

\* As long as no call fails and no charge is given back, whatever workers die,
\* are overtaken or repeat one another, an event that says money was collected is
\* acknowledged only when the order has it.  A failed receipt is what can break it.
THEOREM PaymentsAreAccounted == NoFailures => (WebhookSpec => []HandledPaymentIsAccounted)
<1> SUFFICES ASSUME NoFailures PROVE WebhookSpec => []HandledPaymentIsAccounted
  OBVIOUS
<1>1. WebhookInit => TypeOK /\ WebhookInvariant /\ PaymentInvariant
  BY InitTypeOK, InitWebhookInvariant, InitPaymentInvariant DEF WebhookInit
<1>2. TypeOK /\ WebhookInvariant /\ PaymentInvariant /\ [WebhookNext]_allVars
        => TypeOK' /\ WebhookInvariant' /\ PaymentInvariant'
  <2> SUFFICES ASSUME TypeOK, WebhookInvariant, PaymentInvariant, [WebhookNext]_allVars
               PROVE  TypeOK' /\ WebhookInvariant' /\ PaymentInvariant'
    OBVIOUS
  <2>1. [Next]_vars /\ (UNCHANGED hookVars \/ DeliveryStep)
    BY StepImplements DEF WebhookNext, allVars
  <2>2. QED
    BY <2>1, NextTypeOK, NextKeepsInvariant, NextPaymentInvariant
<1>3. QED
  BY <1>1, <1>2, PaymentInvariantSuffices, PTL DEF WebhookSpec

-----------------------------------------------------------------------------
(* Create and cancel requests *)

Requested == [pc : Calls, order : Orders]

\* A request has ended or is a record; the call tells which.
LEMMA RequestShape ==
  ASSUME HostedTypeOK, NEW r \in Slots, request[r].pc \in Calls
  PROVE  /\ request[r] \in Requested /\ request[r] # Ended
         /\ request[r].order \in Orders
  BY DEF HostedTypeOK, Ended, Calls, Requested

-----------------------------------------------------------------------------
(* The steps *)

\* Stripe creates a session only while the reservation is still being made.
LEMMA CreateImplements ==
  ASSUME TypeOK, HostedInvariant, NEW r \in Slots, CreateSession(r)
  PROVE  [Next]_vars
<1> DEFINE o == request[r].order
<1>1. request[r] # Ended /\ o \in Orders
  BY RequestShape DEF CreateSession, HostedInvariant, Calls
<1>2. CASE SessionCreated(o)
  <2>1. clock \in Nat /\ Grace \in Nat /\ deadline[o] \in Nat
    BY <1>1, ConstantsAssumption DEF TypeOK
  <2>2. status[o] = "creating_checkout"
    BY <1>1, <1>2, <2>1 DEF SessionCreated, HostedInvariant, WithoutSession, RequestsAreGrounded
  <2>3. StripeCreate(o)
    BY <1>2, <2>2 DEF SessionCreated, StripeCreate
  <2>4. QED
    BY <1>1, <2>3 DEF Next, Requests
<1>3. QED
  BY <1>2 DEF CreateSession

\* A reservation is released only when its session cannot be paid any more.
LEMMA ReleaseImplements ==
  ASSUME TypeOK, HostedInvariant, NEW r \in Slots, Release(r)
  PROVE  [Next]_vars
<1> DEFINE o == request[r].order
<1>1. request[r] # Ended /\ o \in Orders
  BY RequestShape DEF Release, HostedInvariant, Calls
<1>2. "expired" \in facts[o] \/ facts[o] = {}
  BY <1>1 DEF Release, HostedInvariant, RequestsAreGrounded, RefusedHaveNone
<1>3. CASE status[o] \in Unfinished
  <2>1. CancelReservation(o)
    BY <1>2, <1>3 DEF Release, CancelReservation, TypeOK
  <2>2. QED
    BY <1>1, <2>1 DEF Next, Requests
<1>4. CASE status[o] \notin Unfinished
  <2>1. status' = status
    BY <1>1, <1>4 DEF Release, TypeOK
  <2>2. QED
    BY <2>1 DEF Release, vars, orderVars
<1>5. QED
  BY <1>3, <1>4

\* Every step of the composition is a step of TicketSales or none at all.
LEMMA HostedStepImplements ==
  ASSUME TypeOK, HostedInvariant, [HostedNext]_hostVars
  PROVE  [Next]_vars
<1>1. CASE Around \/ \E o \in Orders, now \in Instants : Webhook(o, now)
  BY <1>1 DEF Next
<1>2. ASSUME NEW r \in Slots, NEW o \in Orders, NEW now \in Instants, CreateRequest(r, o, now)
      PROVE  [Next]_vars
  BY <1>2 DEF CreateRequest, Checkout, Next, Requests
<1>3. ASSUME NEW r \in Slots, NEW o \in Orders, CancelRequest(r, o) PROVE [Next]_vars
  BY <1>3 DEF CancelRequest
<1>4. ASSUME NEW r \in Slots, Envelope(r) \/ Reuse(r) \/ CancelRetrieve(r) \/ Killed(r)
      PROVE  [Next]_vars
  BY <1>4 DEF Envelope, Reuse, CancelRetrieve, Killed
<1>5. ASSUME NEW r \in Slots, ExpireSession(r) PROVE [Next]_vars
  <2>1. request[r].order \in Orders
    BY <1>5, RequestShape DEF ExpireSession, HostedInvariant, Calls
  <2>2. QED
    BY <1>5, <2>1 DEF ExpireSession, Next, Around
<1>6. ASSUME NEW r \in Slots, NEW now \in Instants, AttachSession(r, now) PROVE [Next]_vars
  <2>1. request[r].order \in Orders
    BY <1>6, RequestShape DEF AttachSession, HostedInvariant, Calls
  <2>2. QED
    BY <1>6, <2>1 DEF AttachSession, Checkout, Next, Requests
<1>7. CASE UNCHANGED hostVars
  BY <1>7 DEF hostVars
<1>8. QED
  BY <1>1, <1>2, <1>3, <1>4, <1>5, <1>6, <1>7, CreateImplements, ReleaseImplements
     DEF HostedNext, RequestStep

-----------------------------------------------------------------------------
(* Orders that Stripe never heard of *)

\* Nothing but a reservation, its expiry or a step of the order's own handlers
\* happens to such an order.
LEMMA OutsideKeepsWithoutSession ==
  ASSUME TypeOK, WithoutSession, RefusedHaveNone, UNCHANGED refused, refused \subseteq Orders,
         Around \/ \E o \in Orders, now \in Instants : Webhook(o, now)
  PROVE  WithoutSession' /\ RefusedHaveNone'
<1> SUFFICES ASSUME NEW x \in Orders, facts[x] = {}
             PROVE  /\ facts'[x] = {}
                    /\ \/ x \in refused
                       \/ status'[x] \in {"none", "creating_checkout"}
                       \/ status'[x] = "expired" /\ deadline'[x] <= clock'
  <2>1. [Next]_vars
    BY DEF Next
  <2>2. \A x \in Orders : facts[x] \subseteq facts'[x]
    BY <2>1, FactsOnlyGrow
  <2>3. \A x \in Orders : facts'[x] = {} => facts[x] = {}
    BY <2>2
  <2>4. QED
    BY <2>3 DEF WithoutSession, RefusedHaveNone
<1> USE DEF eventVars, tierVars, orderVars
<1>0. clock \in Nat /\ deadline[x] \in Nat
  BY DEF TypeOK
<1>1. \/ x \in refused
      \/ status[x] \in {"none", "creating_checkout"}
      \/ status[x] = "expired" /\ deadline[x] <= clock
  BY DEF WithoutSession
<1>2. CASE Tick
  BY <1>0, <1>1, <1>2 DEF Tick
<1>3. CASE ToggleSales \/ ToggleEligibility \/ \E u \in Units : Redeem(u)
  BY <1>1, <1>3 DEF ToggleSales, ToggleEligibility, Redeem
<1>4. ASSUME NEW now \in Instants, Organizer(now)
      PROVE  UNCHANGED <<clock, facts, status, deadline>>
  BY <1>4 DEF Organizer, CancelEvent, SaveTicketTiers
<1>5. ASSUME NEW now \in Instants, ExpireReservations(now)
      PROVE  /\ UNCHANGED <<clock, facts, deadline>>
             /\ status'[x] = status[x] \/ (status'[x] = "expired" /\ deadline[x] <= clock)
  BY <1>0, <1>5 DEF ExpireReservations, Stale, Instants
<1>6. ASSUME NEW o \in Orders, StripePay(o) \/ StripeSettle(o) \/ StripeExpire(o)
                               \/ StripeRefund(o) \/ StripeDispute(o)
      PROVE  UNCHANGED <<clock, status, deadline>> /\ facts'[x] = {}
  <2>1. facts[o] # {}
    BY <1>6 DEF StripePay, StripeSettle, StripeExpire, StripeRefund, StripeDispute, SessionUsable
  <2>2. QED
    BY <1>6, <2>1 DEF StripePay, StripeSettle, StripeExpire, StripeRefund, StripeDispute,
       Observe, TypeOK
<1>7. ASSUME NEW o \in Orders, NEW now \in Instants, Webhook(o, now)
      PROVE  UNCHANGED <<clock, facts, deadline>> /\ status'[x] = status[x]
  <2>1. facts[o] # {}
    BY <1>7 DEF Webhook, ReconcileAsRead
  <2>2. QED
    BY SMTT(30), <1>7, <2>1 DEF Webhook, ReconcileAsRead, ReconcileUnattached, MarkPaymentProcessing,
       MarkPaymentFailed, FulfillPaidOrder, MarkPaymentRequiresReview,
       MarkReconciliationReview, ApplyWholeRefund, ApplyPartialRefund, ApplyDispute,
       ToReview, IssueTickets, TypeOK
<1>8. QED
  BY <1>1, <1>2, <1>3, <1>4, <1>5, <1>6, <1>7 DEF Around

-----------------------------------------------------------------------------
(* The invariant *)

\* Stripe reports on sessions it created, and only those are attached.
LEMMA NextSessionsComeFirst ==
  ASSUME TypeOK, SessionsComeFirst, [Next]_vars
  PROVE  SessionsComeFirst'
<1> SUFFICES ASSUME NEW x \in Orders, facts'[x] # {} \/ attached'[x]
             PROVE  "open" \in facts'[x]
  BY DEF SessionsComeFirst
<1> USE DEF eventVars, tierVars, orderVars
<1>0. facts[x] \subseteq facts'[x]
  BY FactsOnlyGrow
<1>1. CASE facts'[x] = facts[x] /\ attached'[x] = attached[x]
  BY <1>1 DEF SessionsComeFirst
<1>2. CASE Tick \/ ToggleSales \/ ToggleEligibility \/ UNCHANGED vars
  BY <1>1, <1>2 DEF Tick, ToggleSales, ToggleEligibility, vars
<1>3. ASSUME NEW now \in Instants, ExpireReservations(now) \/ Organizer(now)
      PROVE  UNCHANGED <<facts, attached>>
  BY <1>3 DEF ExpireReservations, Organizer, CancelEvent, SaveTicketTiers
<1>4. ASSUME NEW o \in Orders, StripeStep(o) PROVE "open" \in facts'[x]
  <2>1. UNCHANGED attached
    BY <1>4 DEF StripeStep, StripeCreate, StripePay, StripeSettle, StripeExpire,
       StripeRefund, StripeDispute, Observe
  <2>2. CASE x # o
    <3>1. facts'[x] = facts[x]
      BY <1>4, <2>2 DEF StripeStep, StripeCreate, StripePay, StripeSettle, StripeExpire,
         StripeRefund, StripeDispute, Observe, TypeOK
    <3>2. QED
      BY <1>1, <2>1, <3>1
  <2>3. CASE x = o
    <3>1. CASE StripeCreate(o)
      BY <2>3, <3>1 DEF StripeCreate, Observe, TypeOK
    <3>2. CASE ~StripeCreate(o)
      <4>1. facts[o] # {}
        BY <1>4, <3>2 DEF StripeStep, StripePay, StripeSettle, StripeExpire, StripeRefund,
           StripeDispute, SessionUsable
      <4>2. QED
        BY <1>0, <2>3, <4>1 DEF SessionsComeFirst
    <3>3. QED
      BY <3>1, <3>2
  <2>4. QED
    BY <2>2, <2>3
<1>5. ASSUME NEW o \in Orders, NEW now \in Instants, Checkout(o, now)
      PROVE  "open" \in facts'[x]
  <2>1. UNCHANGED facts
    BY <1>5 DEF Checkout, ReserveNew, ReserveAgain, Attach
  <2>2. attached'[x] = attached[x] \/ "open" \in facts[x]
    BY <1>5 DEF Checkout, ReserveNew, ReserveAgain, Attach, TypeOK
  <2>3. QED
    BY <1>1, <2>1, <2>2
<1>6. ASSUME NEW o \in Orders, NEW now \in Instants, Webhook(o, now)
      PROVE  "open" \in facts'[x]
  <2>1. UNCHANGED facts
    BY <1>6 DEF Webhook, ReconcileAsRead, ReconcileUnattached, MarkPaymentProcessing,
       MarkPaymentFailed, FulfillPaidOrder, MarkPaymentRequiresReview,
       MarkReconciliationReview, ApplyWholeRefund, ApplyPartialRefund, ApplyDispute
  <2>2. attached'[x] = attached[x] \/ facts[x] # {}
    BY <1>6 DEF Webhook, ReconcileAsRead, ReconcileUnattached, MarkPaymentProcessing,
       MarkPaymentFailed, FulfillPaidOrder, MarkPaymentRequiresReview,
       MarkReconciliationReview, ApplyWholeRefund, ApplyPartialRefund, ApplyDispute, TypeOK
  <2>3. QED
    BY <1>1, <2>1, <2>2 DEF SessionsComeFirst
<1>7. ASSUME NEW o \in Orders, CancelReservation(o) PROVE UNCHANGED <<facts, attached>>
  BY <1>7 DEF CancelReservation
<1>8. ASSUME NEW u \in Units, Redeem(u) PROVE UNCHANGED <<facts, attached>>
  BY <1>8 DEF Redeem
<1>9. QED
  BY <1>1, <1>2, <1>3, <1>4, <1>5, <1>6, <1>7, <1>8 DEF Next, Around, Requests, StripeStep

LEMMA InitHostedInvariant == HostedInit => HostedInvariant
  BY DEF HostedInit, HostedInvariant, HostedTypeOK, RequestsAreGrounded, WithoutSession,
     RefusedHaveNone, SessionsComeFirst, Init

\* One request moving, to a call its knowledge allows, is enough.
LEMMA OneRequestMoves ==
  ASSUME TypeOK, HostedInvariant, [Next]_vars, NEW r \in Slots, NEW j,
         request' = [request EXCEPT ![r] = j],
         refused \subseteq refused', refused' \subseteq Orders, sent' \subseteq Orders,
         WithoutSession', RefusedHaveNone',
         \/ j = Ended
         \/ /\ j \in Requested
            /\ status'[j.order] # "none"
            /\ j.pc \in {"attach", "reuse", "find", "expire"} => "open" \in facts'[j.order]
            /\ j.pc = "release" => "expired" \in facts'[j.order] \/ j.order \in refused'
  PROVE  HostedInvariant'
<1>1. HostedTypeOK'
  BY DEF HostedInvariant, HostedTypeOK, Requested
<1>2. ASSUME NEW x \in Slots, request'[x] # Ended
      PROVE  /\ status'[request'[x].order] # "none"
             /\ request'[x].pc \in {"attach", "reuse", "find", "expire"} =>
                   "open" \in facts'[request'[x].order]
             /\ request'[x].pc = "release" =>
                   "expired" \in facts'[request'[x].order] \/ request'[x].order \in refused'
  <2>1. CASE x = r
    <3>1. request'[x] = j
      BY <2>1 DEF HostedInvariant, HostedTypeOK
    <3>2. QED
      BY <1>2, <3>1
  <2>2. CASE x # r
    <3>1. request'[x] = request[x] /\ request[x] \in Requested
      BY <1>2, <2>2 DEF HostedInvariant, HostedTypeOK, Requested
    <3>2. request[x].order \in Orders
      BY <3>1 DEF Requested
    <3>3. /\ facts[request[x].order] \subseteq facts'[request[x].order]
          /\ status[request[x].order] # "none" => status'[request[x].order] # "none"
      BY <3>2, FactsOnlyGrow, ReservedStays
    <3>4. QED
      BY <1>2, <3>1, <3>3 DEF HostedInvariant, RequestsAreGrounded
  <2>3. QED
    BY <2>1, <2>2
<1>3. QED
  BY <1>1, <1>2, NextSessionsComeFirst DEF HostedInvariant, RequestsAreGrounded

\* A step in which no request takes part keeps what the requests know.
LEMMA OutsideKeepsInvariant ==
  ASSUME TypeOK, HostedInvariant, UNCHANGED hostedVars,
         Around \/ \E o \in Orders, now \in Instants : Webhook(o, now)
  PROVE  HostedInvariant'
<1>1. [Next]_vars
  BY DEF Next
<1>2. WithoutSession' /\ RefusedHaveNone'
  BY OutsideKeepsWithoutSession DEF hostedVars, HostedInvariant, HostedTypeOK
<1>3. ASSUME NEW r \in Slots, request[r] # Ended
      PROVE  /\ status'[request[r].order] # "none"
             /\ facts[request[r].order] \subseteq facts'[request[r].order]
  <2>1. request[r].order \in Orders
    BY <1>3 DEF HostedInvariant, HostedTypeOK
  <2>2. QED
    BY <1>1, <1>3, <2>1, FactsOnlyGrow, ReservedStays DEF HostedInvariant, RequestsAreGrounded
<1>4. RequestsAreGrounded'
  BY <1>3 DEF hostedVars, HostedInvariant, RequestsAreGrounded
<1>5. QED
  BY <1>1, <1>2, <1>4, NextSessionsComeFirst DEF hostedVars, HostedInvariant, HostedTypeOK

-----------------------------------------------------------------------------
(* The requests' own steps *)

\* A new reservation is being created; the stale ones it expires have run out.
LEMMA ReservingKeepsWithoutSession ==
  ASSUME TypeOK, WithoutSession, RefusedHaveNone, UNCHANGED refused, refused \subseteq Orders,
         NEW o \in Orders, NEW now \in Instants, ReserveNew(o, now) \/ ReserveAgain(o, now)
  PROVE  WithoutSession' /\ RefusedHaveNone' /\ status'[o] # "none"
<1> USE DEF eventVars, tierVars, orderVars
<1>1. UNCHANGED <<facts, clock>> /\ clock \in Nat /\ now \in Nat /\ now <= clock
  BY DEF ReserveNew, ReserveAgain, Instants, TypeOK
<1>2. ASSUME NEW x \in Orders
      PROVE  \/ status'[x] = status[x] /\ deadline'[x] = deadline[x]
             \/ status'[x] = "creating_checkout"
             \/ status'[x] = "expired" /\ deadline'[x] <= now
  BY DEF ReserveNew, ReserveAgain, Stale, TypeOK
<1>3. \A x \in Orders : deadline'[x] \in Nat
  BY CheckoutTypeOK DEF Checkout, TypeOK
<1>4. ASSUME NEW x \in Orders, facts'[x] = {}
      PROVE  \/ x \in refused'
             \/ status'[x] \in {"none", "creating_checkout"}
             \/ status'[x] = "expired" /\ deadline'[x] <= clock'
  BY <1>1, <1>2, <1>3, <1>4 DEF WithoutSession
<1>5. status'[o] # "none"
  BY DEF ReserveNew, ReserveAgain, TypeOK
<1>6. QED
  BY <1>1, <1>4, <1>5 DEF WithoutSession, RefusedHaveNone

LEMMA CreateRequestKeepsInvariant ==
  ASSUME TypeOK, HostedInvariant, [Next]_vars, NEW r \in Slots, NEW o \in Orders,
         NEW now \in Instants, CreateRequest(r, o, now)
  PROVE  HostedInvariant'
<1> DEFINE J(pc) == [pc |-> pc, order |-> o]
<1>1. \A pc \in Calls : J(pc) \in Requested /\ J(pc).pc = pc /\ J(pc).order = o
  BY DEF Requested
<1>2. UNCHANGED <<refused, sent>> /\ refused \subseteq Orders /\ sent \subseteq Orders
  BY DEF CreateRequest, HostedInvariant, HostedTypeOK
<1>3. CASE ReserveNew(o, now) /\ Start(r, o, "envelope")
  <2>1. WithoutSession' /\ RefusedHaveNone' /\ status'[o] # "none"
    BY <1>2, <1>3, ReservingKeepsWithoutSession DEF HostedInvariant
  <2>2. request' = [request EXCEPT ![r] = J("envelope")]
    BY <1>3 DEF Start
  <2> HIDE DEF J
  <2>3. QED
    BY <1>1, <1>2, <2>1, <2>2, OneRequestMoves DEF Calls
<1>4. CASE ReserveAgain(o, now) /\ UNCHANGED request
  <2>1. WithoutSession' /\ RefusedHaveNone'
    BY <1>2, <1>4, ReservingKeepsWithoutSession DEF HostedInvariant
  <2>2. request' = [request EXCEPT ![r] = Ended]
    BY <1>4 DEF CreateRequest, HostedInvariant, HostedTypeOK
  <2>3. QED
    BY <1>2, <2>1, <2>2, OneRequestMoves
<1>5. CASE /\ status[o] # "none" /\ UNCHANGED vars
           /\ Start(r, o, IF attached[o] THEN "reuse" ELSE "envelope")
  <2>1. WithoutSession' /\ RefusedHaveNone' /\ UNCHANGED <<status, facts>>
    BY <1>2, <1>5 DEF HostedInvariant, WithoutSession, RefusedHaveNone, vars, orderVars
  <2>2. request' = [request EXCEPT ![r] = J(IF attached[o] THEN "reuse" ELSE "envelope")]
    BY <1>5 DEF Start
  <2>3. attached[o] => "open" \in facts[o]
    BY DEF HostedInvariant, SessionsComeFirst
  <2> HIDE DEF J
  <2>4. CASE attached[o]
    BY <1>1, <1>2, <1>5, <2>1, <2>2, <2>3, <2>4, OneRequestMoves DEF Calls
  <2>5. CASE ~attached[o]
    BY <1>1, <1>2, <1>5, <2>1, <2>2, <2>5, OneRequestMoves DEF Calls
  <2>6. QED
    BY <2>4, <2>5
<1>6. QED
  BY <1>3, <1>4, <1>5 DEF CreateRequest

\* A request that makes another call about its order, or ends.
LEMMA CallKeepsInvariant ==
  ASSUME TypeOK, HostedInvariant, [Next]_vars, NEW r \in Slots, request[r].pc \in Calls,
         NEW pc \in Calls, Call(r, pc) \/ End(r),
         refused \subseteq refused', refused' \subseteq Orders, sent' \subseteq Orders,
         WithoutSession', RefusedHaveNone',
         Call(r, pc) =>
           /\ pc \in {"attach", "reuse", "find", "expire"} => "open" \in facts'[request[r].order]
           /\ pc = "release" =>
                "expired" \in facts'[request[r].order] \/ request[r].order \in refused'
  PROVE  HostedInvariant'
<1> DEFINE j == [request[r] EXCEPT !.pc = pc]
<1>1. request[r] \in Requested /\ request[r] # Ended /\ request[r].order \in Orders
  BY RequestShape DEF HostedInvariant
<1>2. status'[request[r].order] # "none"
  BY <1>1, ReservedStays DEF HostedInvariant, RequestsAreGrounded
<1>3. CASE Call(r, pc)
  <2>1. j \in Requested /\ j.pc = pc /\ j.order = request[r].order
    BY <1>1 DEF Requested
  <2>2. request' = [request EXCEPT ![r] = j]
    BY <1>3 DEF Call
  <2> HIDE DEF j
  <2>3. QED
    BY <1>2, <1>3, <2>1, <2>2, OneRequestMoves
<1>4. CASE End(r)
  BY <1>4, OneRequestMoves DEF End
<1>5. QED
  BY <1>3, <1>4

\* Stripe has heard of the one order that moves, or has just refused it.
LEMMA OneOrderMoves ==
  ASSUME WithoutSession, RefusedHaveNone, NEW o \in Orders, UNCHANGED clock,
         \A x \in Orders \ {o} : facts'[x] = facts[x] /\ status'[x] = status[x]
                                   /\ deadline'[x] = deadline[x],
         refused \subseteq refused', refused' \subseteq refused \cup {o},
         refused' \subseteq Orders,
         facts'[o] = {} <=> o \in refused'
  PROVE  WithoutSession' /\ RefusedHaveNone'
  BY DEF WithoutSession, RefusedHaveNone

LEMMA NothingMoves ==
  ASSUME WithoutSession, RefusedHaveNone, UNCHANGED <<vars, refused>>
  PROVE  WithoutSession' /\ RefusedHaveNone' /\ facts' = facts
  BY DEF WithoutSession, RefusedHaveNone, vars, orderVars

\* The handlers that leave the books alone.
LEMMA ReadingKeepsInvariant ==
  ASSUME TypeOK, HostedInvariant, [Next]_vars, NEW r \in Slots,
         Envelope(r) \/ Reuse(r) \/ CancelRetrieve(r) \/ Killed(r)
  PROVE  HostedInvariant'
<1>1. UNCHANGED <<vars, refused>>
  BY DEF Envelope, Reuse, CancelRetrieve, Killed
<1>2. WithoutSession' /\ RefusedHaveNone' /\ facts' = facts /\ refused' \subseteq Orders
  BY <1>1, NothingMoves DEF HostedInvariant, HostedTypeOK
<1>3. sent \subseteq Orders
  BY DEF HostedInvariant, HostedTypeOK
<1>4. CASE Envelope(r)
  BY <1>1, <1>2, <1>3, <1>4, CallKeepsInvariant DEF Envelope, Calls
<1>5. CASE Killed(r)
  BY <1>1, <1>2, <1>3, <1>5, OneRequestMoves DEF Killed, End
<1>6. CASE Reuse(r) \/ CancelRetrieve(r)
  <2> DEFINE o == request[r].order
  <2>1. /\ request[r].pc \in {"reuse", "find"} /\ request[r] # Ended /\ o \in Orders
        /\ request[r].pc \in Calls
    BY <1>6, RequestShape DEF Reuse, CancelRetrieve, HostedInvariant, Calls
  <2>2. "open" \in facts[o]
    BY <2>1 DEF HostedInvariant, RequestsAreGrounded
  <2>3. sent' \subseteq Orders
    BY <1>3, <1>6, <2>1 DEF Reuse, CancelRetrieve
  <2>4. SessionStatus(o) \in {"expired", "complete", "open"}
    BY DEF SessionStatus
  <2>5. SessionStatus(o) = "expired" => "expired" \in facts[o]
    BY DEF SessionStatus
  <2>6. \/ End(r)
        \/ Call(r, "expire")
        \/ Call(r, "release") /\ "expired" \in facts[o]
    BY <1>6, <2>4, <2>5 DEF Reuse, CancelRetrieve, Dispose
  <2>7. CASE End(r) \/ Call(r, "expire")
    BY <1>1, <1>2, <2>1, <2>2, <2>3, <2>7, CallKeepsInvariant DEF Calls
  <2>8. CASE Call(r, "release") /\ "expired" \in facts[o]
    BY <1>1, <1>2, <2>1, <2>3, <2>8, CallKeepsInvariant DEF Calls
  <2>9. QED
    BY <2>6, <2>7, <2>8
<1>7. QED
  BY <1>4, <1>5, <1>6

LEMMA CancelRequestKeepsInvariant ==
  ASSUME TypeOK, HostedInvariant, [Next]_vars, NEW r \in Slots, NEW o \in Orders,
         CancelRequest(r, o)
  PROVE  HostedInvariant'
<1> DEFINE j == [pc |-> "find", order |-> o]
<1>1. j \in Requested /\ j.pc = "find" /\ j.order = o
  BY DEF Requested, Calls
<1>2. request' = [request EXCEPT ![r] = j] /\ UNCHANGED <<vars, refused, sent>>
  BY DEF CancelRequest, Start
<1> HIDE DEF j
<1>3. WithoutSession' /\ RefusedHaveNone' /\ facts' = facts
  BY <1>2, NothingMoves DEF HostedInvariant
<1>4. "open" \in facts[o] /\ refused \subseteq Orders /\ sent \subseteq Orders
  BY DEF CancelRequest, HostedInvariant, SessionsComeFirst, HostedTypeOK
<1>5. status[o] # "none" /\ status' = status
  BY <1>2 DEF CancelRequest, Unfinished, vars, orderVars
<1>6. QED
  BY <1>1, <1>2, <1>3, <1>4, <1>5, OneRequestMoves

LEMMA CreateKeepsInvariant ==
  ASSUME TypeOK, HostedInvariant, [Next]_vars, NEW r \in Slots, CreateSession(r)
  PROVE  HostedInvariant'
<1> DEFINE o == request[r].order
<1> USE DEF orderVars
<1>1. request[r].pc \in Calls /\ o \in Orders
  BY RequestShape DEF CreateSession, HostedInvariant, Calls
<1>2. refused \subseteq Orders /\ sent' \subseteq Orders
  BY DEF CreateSession, HostedInvariant, HostedTypeOK
<1>3. CASE SessionCreated(o) /\ (Call(r, "attach") \/ End(r))
  <2>1. /\ facts'[o] = {"open"} /\ o \notin refused /\ UNCHANGED <<refused, clock>>
        /\ \A x \in Orders \ {o} : facts'[x] = facts[x] /\ status'[x] = status[x]
                                     /\ deadline'[x] = deadline[x]
    BY <1>1, <1>3 DEF SessionCreated, Observe, TypeOK
  <2>2. WithoutSession' /\ RefusedHaveNone'
    BY <1>1, <1>2, <2>1, OneOrderMoves DEF HostedInvariant
  <2>3. QED
    BY <1>1, <1>2, <1>3, <2>1, <2>2, CallKeepsInvariant DEF Calls
<1>4. CASE "open" \in facts[o] /\ Call(r, "attach") /\ UNCHANGED <<vars, refused>>
  <2>1. WithoutSession' /\ RefusedHaveNone' /\ facts' = facts
    BY <1>4, NothingMoves DEF HostedInvariant
  <2>2. QED
    BY <1>1, <1>2, <1>4, <2>1, CallKeepsInvariant DEF Calls
<1>5. CASE /\ facts[o] = {} /\ refused' = refused \cup {o}
           /\ Call(r, "release") /\ UNCHANGED vars
  <2>1. UNCHANGED <<facts, status, deadline, clock>>
    BY <1>5 DEF vars
  <2>2. WithoutSession' /\ RefusedHaveNone'
    BY <1>1, <1>2, <1>5, <2>1, OneOrderMoves DEF HostedInvariant
  <2>3. QED
    BY <1>1, <1>2, <1>5, <2>2, CallKeepsInvariant DEF Calls
<1>6. QED
  BY <1>3, <1>4, <1>5 DEF CreateSession

LEMMA AttachKeepsInvariant ==
  ASSUME TypeOK, HostedInvariant, [Next]_vars, NEW r \in Slots, NEW now \in Instants,
         AttachSession(r, now)
  PROVE  HostedInvariant'
<1> DEFINE o == request[r].order
<1>1. request[r].pc \in Calls /\ o \in Orders /\ request[r] # Ended
  BY RequestShape DEF AttachSession, HostedInvariant, Calls
<1>2. "open" \in facts[o]
  BY <1>1 DEF AttachSession, HostedInvariant, RequestsAreGrounded
<1>3. /\ UNCHANGED refused /\ refused \subseteq Orders
      /\ sent' \subseteq Orders
      /\ End(r) \/ Call(r, "expire")
  BY <1>1 DEF AttachSession, HostedInvariant, HostedTypeOK
<1>4. CASE UNCHANGED vars
  <2>1. WithoutSession' /\ RefusedHaveNone' /\ facts' = facts
    BY <1>3, <1>4, NothingMoves DEF HostedInvariant
  <2>2. QED
    BY <1>1, <1>2, <1>3, <2>1, CallKeepsInvariant DEF Calls
<1>5. CASE Attach(o, now)
  <2>1. /\ UNCHANGED <<facts, clock, deadline>>
        /\ \A x \in Orders \ {o} : status'[x] = status[x]
    BY <1>5 DEF Attach, TypeOK
  <2>2. facts[o] # {} /\ o \notin refused
    BY <1>2 DEF HostedInvariant, RefusedHaveNone
  <2>3. WithoutSession' /\ RefusedHaveNone'
    BY <1>1, <1>3, <2>1, <2>2, OneOrderMoves DEF HostedInvariant
  <2>4. QED
    BY <1>1, <1>2, <1>3, <2>1, <2>3, CallKeepsInvariant DEF Calls
<1>6. QED
  BY <1>4, <1>5 DEF AttachSession

LEMMA ExpireKeepsInvariant ==
  ASSUME TypeOK, HostedInvariant, [Next]_vars, NEW r \in Slots, ExpireSession(r)
  PROVE  HostedInvariant'
<1> DEFINE o == request[r].order
<1> USE DEF orderVars
<1>1. request[r].pc \in Calls /\ o \in Orders /\ request[r] # Ended
  BY RequestShape DEF ExpireSession, HostedInvariant, Calls
<1>2. /\ UNCHANGED <<refused, sent>> /\ refused \subseteq Orders /\ sent \subseteq Orders
  BY DEF ExpireSession, HostedInvariant, HostedTypeOK
<1>3. CASE UNCHANGED vars /\ End(r)
  <2>1. WithoutSession' /\ RefusedHaveNone' /\ facts' = facts
    BY <1>2, <1>3, NothingMoves DEF HostedInvariant
  <2>2. QED
    BY <1>1, <1>2, <1>3, <2>1, OneRequestMoves DEF End
<1>4. CASE StripeExpire(o) /\ (Call(r, "release") \/ End(r))
  <2>1. /\ "expired" \in facts'[o] /\ facts[o] # {} /\ UNCHANGED clock
        /\ \A x \in Orders \ {o} : facts'[x] = facts[x] /\ status'[x] = status[x]
                                     /\ deadline'[x] = deadline[x]
    BY <1>1, <1>4 DEF StripeExpire, SessionUsable, Observe, TypeOK
  <2>2. o \notin refused
    BY <2>1 DEF HostedInvariant, RefusedHaveNone
  <2>3. WithoutSession' /\ RefusedHaveNone'
    BY <1>1, <1>2, <2>1, <2>2, OneOrderMoves DEF HostedInvariant
  <2>4. QED
    BY <1>1, <1>2, <1>4, <2>1, <2>3, CallKeepsInvariant DEF Calls
<1>5. QED
  BY <1>3, <1>4 DEF ExpireSession

LEMMA ReleaseKeepsInvariant ==
  ASSUME TypeOK, HostedInvariant, [Next]_vars, NEW r \in Slots, Release(r)
  PROVE  HostedInvariant'
<1> DEFINE o == request[r].order
<1>1. request[r].pc \in Calls /\ o \in Orders /\ request[r] # Ended
  BY RequestShape DEF Release, HostedInvariant, Calls
<1>2. /\ UNCHANGED <<refused, sent>> /\ refused \subseteq Orders /\ sent \subseteq Orders
  BY DEF Release, HostedInvariant, HostedTypeOK
<1>3. "expired" \in facts[o] \/ o \in refused
  BY <1>1 DEF Release, HostedInvariant, RequestsAreGrounded
<1>4. /\ UNCHANGED <<facts, clock, deadline>>
      /\ \A x \in Orders \ {o} : status'[x] = status[x]
  BY DEF Release, TypeOK
<1>5. facts[o] = {} <=> o \in refused
  BY <1>3 DEF HostedInvariant, RefusedHaveNone
<1>6. WithoutSession' /\ RefusedHaveNone'
  BY <1>1, <1>2, <1>4, <1>5, OneOrderMoves DEF HostedInvariant
<1>7. QED
  BY <1>2, <1>6, OneRequestMoves DEF Release, End

-----------------------------------------------------------------------------
(* The theorems *)

LEMMA NextHostedInvariant ==
  TypeOK /\ HostedInvariant /\ [HostedNext]_hostVars => HostedInvariant'
<1> SUFFICES ASSUME TypeOK, HostedInvariant, [HostedNext]_hostVars PROVE HostedInvariant'
  OBVIOUS
<1>1. [Next]_vars
  BY HostedStepImplements
<1>2. CASE /\ Around \/ \E o \in Orders, now \in Instants : Webhook(o, now)
           /\ UNCHANGED hostedVars
  BY <1>2, OutsideKeepsInvariant
<1>3. CASE UNCHANGED hostVars
  BY <1>3 DEF hostVars, hostedVars, vars, orderVars, HostedInvariant, HostedTypeOK,
     RequestsAreGrounded, WithoutSession, RefusedHaveNone, SessionsComeFirst
<1>4. QED
  BY <1>1, <1>2, <1>3, CreateRequestKeepsInvariant, CancelRequestKeepsInvariant,
     ReadingKeepsInvariant, CreateKeepsInvariant, AttachKeepsInvariant,
     ExpireKeepsInvariant, ReleaseKeepsInvariant
     DEF HostedNext, RequestStep

\* What a request concludes from its calls is true when it acts upon it.
THEOREM RequestsStayGrounded == HostedSpec => []HostedInvariant
<1>1. HostedInit => TypeOK /\ HostedInvariant
  BY InitTypeOK, InitHostedInvariant DEF HostedInit
<1>2. TypeOK /\ HostedInvariant /\ [HostedNext]_hostVars => TypeOK' /\ HostedInvariant'
  BY HostedStepImplements, NextTypeOK, NextHostedInvariant
<1>3. QED
  BY <1>1, <1>2, PTL DEF HostedSpec

\* However requests race, fail or are killed, the database and Stripe go only
\* through the behaviours that TicketSales allows.
THEOREM HostedImplementsSales == HostedSpec => Spec
<1>1. HostedInit => Init /\ TypeOK /\ HostedInvariant
  BY InitTypeOK, InitHostedInvariant DEF HostedInit
<1>2. TypeOK /\ HostedInvariant /\ [HostedNext]_hostVars
        => [Next]_vars /\ TypeOK' /\ HostedInvariant'
  BY HostedStepImplements, NextTypeOK, NextHostedInvariant
<1>3. QED
  BY <1>1, <1>2, PTL DEF HostedSpec, Spec

-----------------------------------------------------------------------------
(* Money and released reservations *)

\* An expired session was never completed, and a cancelled order has no
\* session or an expired one.
CancelledIsClosed ==
    \A o \in Orders :
        /\ "expired" \in facts[o] => facts[o] \cap {"processing", "paid"} = {}
        /\ status[o] = "cancelled" => facts[o] = {} \/ "expired" \in facts[o]

\* Only the release of a reservation makes an order a cancelled one.
LEMMA OnlyReleaseCancels ==
  ASSUME TypeOK, [Next]_vars, NEW x \in Orders,
         status[x] # "cancelled", status'[x] = "cancelled"
  PROVE  CancelReservation(x)
<1> USE DEF eventVars, tierVars, orderVars
<1>1. status'[x] # status[x]
  OBVIOUS
<1>2. CASE Tick \/ ToggleSales \/ ToggleEligibility \/ UNCHANGED vars
  BY <1>1, <1>2 DEF Tick, ToggleSales, ToggleEligibility, vars
<1>3. ASSUME NEW now \in Instants, ExpireReservations(now) \/ Organizer(now) PROVE FALSE
  BY <1>1, <1>3 DEF ExpireReservations, Organizer, CancelEvent, SaveTicketTiers
<1>4. ASSUME NEW o \in Orders, StripeStep(o) PROVE FALSE
  BY <1>1, <1>4 DEF StripeStep, StripeCreate, StripePay, StripeSettle, StripeExpire,
     StripeRefund, StripeDispute, Observe
<1>5. ASSUME NEW o \in Orders, NEW now \in Instants, Checkout(o, now) PROVE FALSE
  BY <1>1, <1>5 DEF Checkout, ReserveNew, ReserveAgain, Attach, TypeOK
<1>6. ASSUME NEW o \in Orders, NEW now \in Instants, Webhook(o, now) PROVE FALSE
  BY <1>1, <1>6 DEF Webhook, ReconcileAsRead, ReconcileUnattached, MarkPaymentProcessing,
     MarkPaymentFailed, FulfillPaidOrder, MarkPaymentRequiresReview, MarkReconciliationReview,
     ApplyWholeRefund, ApplyPartialRefund, ApplyDispute, ToReview, IssueTickets, TypeOK
<1>7. ASSUME NEW u \in Units, Redeem(u) PROVE FALSE
  BY <1>1, <1>7 DEF Redeem
<1>8. ASSUME NEW o \in Orders, CancelReservation(o) PROVE CancelReservation(x)
  BY <1>1, <1>8 DEF CancelReservation, TypeOK
<1>9. QED
  BY <1>2, <1>3, <1>4, <1>5, <1>6, <1>7, <1>8 DEF Next, Around, Requests, StripeStep

\* Stripe neither pays an expired session nor creates one for a released order.
LEMMA NextCancelledIsClosed ==
  ASSUME TypeOK, SessionsComeFirst, CancelledIsClosed, [Next]_vars
  PROVE  CancelledIsClosed'
<1> SUFFICES ASSUME NEW x \in Orders
             PROVE  /\ "expired" \in facts'[x] => facts'[x] \cap {"processing", "paid"} = {}
                    /\ status'[x] = "cancelled" => facts'[x] = {} \/ "expired" \in facts'[x]
  BY DEF CancelledIsClosed
<1> USE DEF eventVars, tierVars, orderVars
<1>1. ASSUME facts'[x] = facts[x]
      PROVE  status'[x] = "cancelled" => facts'[x] = {} \/ "expired" \in facts'[x]
  <2>1. CASE status[x] = "cancelled"
    BY <1>1, <2>1 DEF CancelledIsClosed
  <2>2. ASSUME status[x] # "cancelled", status'[x] = "cancelled"
        PROVE  facts[x] = {} \/ "expired" \in facts[x]
    BY <2>2, OnlyReleaseCancels DEF CancelReservation, SessionsComeFirst
  <2>3. QED
    BY <1>1, <2>1, <2>2
<1>2. CASE facts'[x] = facts[x]
  BY <1>1, <1>2 DEF CancelledIsClosed
<1>3. ASSUME NEW o \in Orders, StripeStep(o), facts'[x] # facts[x]
      PROVE  /\ "expired" \in facts'[x] => facts'[x] \cap {"processing", "paid"} = {}
             /\ status'[x] = "cancelled" => facts'[x] = {} \/ "expired" \in facts'[x]
  <2>1. x = o /\ UNCHANGED status
    BY <1>3 DEF StripeStep, StripeCreate, StripePay, StripeSettle, StripeExpire,
       StripeRefund, StripeDispute, Observe, TypeOK
  <2>2. CASE StripeCreate(o)
    BY <2>1, <2>2 DEF StripeCreate, Observe, TypeOK
  <2>3. CASE StripePay(o)
    BY <2>1, <2>3 DEF StripePay, SessionUsable, Observe, TypeOK, CancelledIsClosed
  <2>4. CASE StripeExpire(o)
    BY <2>1, <2>4 DEF StripeExpire, SessionUsable, Observe, TypeOK
  <2>5. CASE StripeSettle(o)
    BY <2>1, <2>5 DEF StripeSettle, Observe, TypeOK, CancelledIsClosed
  <2>6. CASE StripeRefund(o) \/ StripeDispute(o)
    BY <2>1, <2>6 DEF StripeRefund, StripeDispute, Observe, TypeOK, CancelledIsClosed
  <2>7. QED
    BY <1>3, <2>2, <2>3, <2>4, <2>5, <2>6 DEF StripeStep
<1>4. CASE \E o \in Orders : StripeStep(o)
  BY <1>2, <1>3, <1>4
<1>5. CASE ~\E o \in Orders : StripeStep(o)
  <2>1. UNCHANGED facts
    BY <1>5 DEF Next, Around, Requests, StripeStep, Tick, ToggleSales, ToggleEligibility,
       vars, ExpireReservations, Organizer, CancelEvent, SaveTicketTiers, Checkout,
       ReserveNew, ReserveAgain, Attach, CancelReservation, Redeem, Webhook, ReconcileAsRead,
       ReconcileUnattached, MarkPaymentProcessing, MarkPaymentFailed, FulfillPaidOrder,
       MarkPaymentRequiresReview, MarkReconciliationReview, ApplyWholeRefund,
       ApplyPartialRefund, ApplyDispute
  <2>2. QED
    BY <1>2, <2>1
<1>6. QED
  BY <1>4, <1>5

\* No money is ever collected for a cancelled reservation ...
THEOREM CancelledNeverPaid == Spec => []CancelledIsNeverPaid
<1>1. Init => TypeOK /\ SessionsComeFirst /\ CancelledIsClosed
  BY InitTypeOK DEF Init, SessionsComeFirst, CancelledIsClosed
<1>2. TypeOK /\ SessionsComeFirst /\ CancelledIsClosed /\ [Next]_vars
        => TypeOK' /\ SessionsComeFirst' /\ CancelledIsClosed'
  BY NextTypeOK, NextSessionsComeFirst, NextCancelledIsClosed
<1>3. SessionsComeFirst /\ CancelledIsClosed => CancelledIsNeverPaid
  BY DEF SessionsComeFirst, CancelledIsClosed, CancelledIsNeverPaid
<1>4. QED
  BY <1>1, <1>2, <1>3, PTL DEF Spec

\* ... nor for one that a create or cancel request released, whatever it raced.
THEOREM ReleasedByRequestNeverPaid == HostedSpec => []CancelledIsNeverPaid
  BY HostedImplementsSales, CancelledNeverPaid, PTL

\* No tier is oversold behind any number of concurrent checkout requests.
THEOREM HostedNeverOversells == HostedSpec => []NoOversell
  BY HostedImplementsSales, NeverOversold, PTL

=============================================================================
