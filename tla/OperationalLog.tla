--------------------------- MODULE OperationalLog ---------------------------
(***************************************************************************)
(* What checkout, cancellation and the webhook report of themselves.  A record *)
(* is written only if lists kept apart from its type and from the code that    *)
(* emits it allow its fields, its codes and their combination; one that they   *)
(* do not allow disappears without a word.  Identifiers are their shapes.       *)
(***************************************************************************)
EXTENDS Common, TLC

CONSTANTS
    ItemCounts,   \* lines and tickets of an order
    Amounts       \* minor units

VARIABLES
    emitted,   \* the record handed to emitOperationalEvent last
    logged     \* what the sink was given for it, None when nothing

logVars == <<emitted, logged>>

-----------------------------------------------------------------------------
(* The lists of the types ... *)

OrderStatusType ==
    {"creating_checkout", "checkout_open", "payment_processing", "paid", "expired",
     "payment_failed", "cancelled", "partially_refunded", "refunded", "requires_review"}

RefundTicketStatusType == {"valid", "used", "cancelled", "refunded", "mixed", "none"}

CreateErrorType ==
    {"CHECKOUT_ALREADY_EXISTS", "CHECKOUT_DISABLED", "CHECKOUT_EXPIRED", "CHECKOUT_NOT_FOUND",
     "CHECKOUT_UNAVAILABLE", "CONNECT_ACTION_REQUIRED", "CONNECT_NOT_READY", "CORS_ORIGIN_DENIED",
     "EVENT_NOT_SELLABLE", "INTERNAL_ERROR", "IDEMPOTENCY_CONFLICT", "INVALID_REQUEST",
     "INVALID_STRIPE_SESSION", "METHOD_NOT_ALLOWED", "RATE_LIMITED", "STRIPE_REQUEST_FAILED",
     "TIER_NOT_ACTIVE", "TIER_NOT_FOUND", "TIER_SOLD_OUT"}

FailureStageType ==
    {"runtime_bootstrap", "request_validation", "connect_validation", "reservation", "request_integrity",
     "stripe_session_retrieval", "stripe_session_creation", "stripe_session_response", "session_attachment"}

ProviderResultType ==
    {"not_attempted", "provider_error_response", "network_failure", "runtime_failure", "session_returned"}

CheckoutReconciliationCode ==
    {"CHECKOUT_LINE_COUNT_MISMATCH", "CHECKOUT_ITEM_BINDING_MISSING", "CHECKOUT_ITEM_BINDING_DUPLICATE",
     "CHECKOUT_ITEM_BINDING_UNKNOWN", "CHECKOUT_LINE_TIER_MISMATCH", "CHECKOUT_LINE_QUANTITY_MISMATCH",
     "CHECKOUT_LINE_AMOUNT_MISMATCH", "CHECKOUT_LINE_CURRENCY_MISMATCH", "CHECKOUT_AGGREGATE_MISMATCH"}

MismatchType == CheckoutReconciliationCode \cup
    {"CHECKOUT_RECONCILIATION_REVIEW_MISMATCH", "DISPUTE_RECOVERY_MISMATCH", "DISPUTE_SNAPSHOT_MISMATCH",
     "INTERNAL_ERROR", "INVALID_EVENT_ENVELOPE", "INVALID_STRIPE_ACCOUNT", "LIVE_MODE_FORBIDDEN",
     "ORDER_NOT_FOUND", "PAYMENT_BINDING_MISMATCH", "PAYMENT_NOT_PAID", "PAYMENT_OBJECT_ALREADY_USED",
     "PAYMENT_SNAPSHOT_MISMATCH", "REFUND_POLICY_MISMATCH", "REFUND_SNAPSHOT_MISMATCH",
     "REFUND_TOTAL_INVALID", "STRIPE_OBJECT_INVALID", "WEBHOOK_EVENT_MISMATCH",
     "WEBHOOK_RECEIPT_INVALID", "WEBHOOK_RECEIPT_MISMATCH"}

(* ... and the types themselves: a record e that the compiler lets be emitted. *)

\* undefined, owned or not
Value(e, field) == IF field \in DOMAIN e THEN e[field] ELSE None
HasAll(e, fields) == \A f \in fields : Value(e, f) # None

Lacks(e, fields) == \A f \in fields : Value(e, f) = None

CheckoutOpenedType(e) ==
    /\ Value(e, "resultStatus") = "checkout_open" /\ Lacks(e, {"errorCode"})
    /\ Value(e, "priorStatus") = IF e.outcome = "reused" THEN "checkout_open" ELSE None

CheckoutFailedType(e) ==
    /\ Lacks(e, {"priorStatus", "resultStatus"}) /\ HasAll(e, {"errorCode", "failureStage", "providerResult"})
    /\ e.errorCode \in IF e.outcome = "failed" THEN CreateErrorType
                       ELSE {"INTERNAL_ERROR", "INVALID_STRIPE_SESSION", "STRIPE_REQUEST_FAILED"}
    /\ e.failureStage \in FailureStageType /\ e.providerResult \in ProviderResultType

CancellationDoneType(e) ==
    /\ Value(e, "orderId") # None /\ Lacks(e, {"errorCode"})
    /\ LET prior == Value(e, "priorStatus") IN
       IF e.outcome = "cancelled"
       THEN prior \in {"creating_checkout", "checkout_open"} /\ Value(e, "resultStatus") = "cancelled"
       ELSE {prior, Value(e, "resultStatus")} \subseteq {"cancelled", "expired", "payment_failed"}

CancellationNotDoneType(e) ==
    /\ Value(e, "orderId") # None /\ Lacks(e, {"resultStatus"}) /\ Value(e, "priorStatus") \in OrderStatusType
    /\ Value(e, "errorCode") \in IF e.outcome = "blocked" THEN {"CHECKOUT_UNAVAILABLE", "INVALID_STRIPE_SESSION"}
                                 ELSE {"INTERNAL_ERROR", "INVALID_STRIPE_SESSION", "STRIPE_REQUEST_FAILED"}

WebhookDeliveryType(e) ==
    IF e.outcome = "signature_failed" THEN Value(e, "errorCode") = "INVALID_WEBHOOK"
    ELSE /\ HasAll(e, {"stripeEventId", "providerObjectId"})
         /\ Value(e, "errorCode") = IF e.outcome = "retry" THEN "TRANSIENT_PROCESSING_FAILURE" ELSE None

WebhookReconciliationType(e) ==
    IF e.outcome = "mismatch" THEN Value(e, "errorCode") \in MismatchType /\ Lacks(e, {"resultStatus"})
    ELSE /\ HasAll(e, {"orderId", "stripeEventId", "providerObjectId"})
         /\ Value(e, "resultStatus") = "requires_review"
         /\ Value(e, "errorCode") \in {"PAYMENT_CHARGE_DISPUTED", "PAYMENT_CHARGE_REFUNDED"}

WebhookLifecycleType(e) ==
    /\ HasAll(e, {"orderId", "stripeEventId", "providerObjectId", "resultStatus"})
    /\ IF e.outcome = "processing"
       THEN Value(e, "priorStatus") = "checkout_open" /\ e.resultStatus = "payment_processing" /\ Lacks(e, {"errorCode"})
       ELSE /\ Lacks(e, {"priorStatus"}) /\ e.resultStatus \in {"expired", "payment_failed"}
            /\ Value(e, "errorCode") \in {"CHECKOUT_EXPIRED", "ASYNC_PAYMENT_FAILED"}

WebhookFulfillmentType(e) ==
    /\ HasAll(e, {"orderId", "stripeEventId", "providerObjectId", "actualTicketCount"})
    /\ Value(e, "resultStatus") = "paid" /\ Lacks(e, {"priorStatus", "errorCode"})

RefundReconciliationType(e) ==
    /\ HasAll(e, {"orderId", "stripeEventId", "providerObjectId", "currency", "amountMinor"}) /\ Lacks(e, {"priorStatus"})
    /\ LET status == Value(e, "resultStatus")  tickets == Value(e, "ticketStatus")  code == Value(e, "errorCode") IN
       IF e.outcome = "applied"
       THEN /\ code = None
            /\ \/ status \in {"checkout_open", "payment_processing"} /\ tickets = "none"
               \/ status = "paid" /\ tickets \in {"valid", "used", "cancelled", "mixed"}
               \/ status = "refunded" /\ tickets \in {"refunded", "used", "mixed"}
       ELSE /\ status \in OrderStatusType /\ tickets \in RefundTicketStatusType
            /\ status = "payment_processing" => tickets # "none"
            /\ \/ code = "REFUND_DURABLE_STATE_REVIEW"
               \/ status = "requires_review" /\ code = "REFUND_POLICY_MISMATCH"

OfItsType(e) ==
    CASE e.operation = "checkout.create" ->
            IF e.outcome \in {"created", "reused"} THEN CheckoutOpenedType(e) ELSE CheckoutFailedType(e)
      [] e.operation = "checkout.cancel" ->
            IF e.outcome \in {"cancelled", "no_transition"} THEN CancellationDoneType(e) ELSE CancellationNotDoneType(e)
      [] e.operation = "webhook.delivery"       -> WebhookDeliveryType(e)
      [] e.operation = "webhook.reconciliation" -> WebhookReconciliationType(e)
      [] e.operation = "webhook.lifecycle"      -> WebhookLifecycleType(e)
      [] e.operation = "webhook.fulfillment"    -> WebhookFulfillmentType(e)
      [] e.operation = "refund.reconcile"       -> RefundReconciliationType(e)

\* The validator's lists

OperationOutcomes ==
    [op \in {"checkout.create", "checkout.cancel", "webhook.delivery", "webhook.reconciliation",
             "webhook.lifecycle", "webhook.fulfillment", "refund.reconcile"} |->
        CASE op = "checkout.create"        -> {"created", "reused", "failed", "uncertain"}
          [] op = "checkout.cancel"        -> {"cancelled", "no_transition", "blocked", "ambiguous"}
          [] op = "webhook.delivery"       -> {"signature_failed", "duplicate", "retry"}
          [] op = "webhook.reconciliation" -> {"mismatch", "review"}
          [] op = "webhook.lifecycle"      -> {"processing", "failed"}
          [] op = "webhook.fulfillment"    -> {"fulfilled"}
          [] op = "refund.reconcile"       -> {"applied", "review"}]

OrderStatuses ==
    {"creating_checkout", "checkout_open", "payment_processing", "paid", "expired",
     "payment_failed", "cancelled", "partially_refunded", "refunded", "requires_review"}

OperationalStatuses == OrderStatuses \cup
    {"open", "complete", "unpaid", "processing", "processed", "pending", "succeeded", "failed",
     "requires_action", "not_applicable", "recovered"}

CreateErrorCodes ==
    {"CHECKOUT_ALREADY_EXISTS", "CHECKOUT_DISABLED", "CHECKOUT_EXPIRED", "CHECKOUT_NOT_FOUND",
     "CHECKOUT_UNAVAILABLE", "CONNECT_ACTION_REQUIRED", "CONNECT_NOT_READY", "CORS_ORIGIN_DENIED",
     "EVENT_NOT_SELLABLE", "INTERNAL_ERROR", "IDEMPOTENCY_CONFLICT", "INVALID_REQUEST",
     "INVALID_STRIPE_SESSION", "METHOD_NOT_ALLOWED", "RATE_LIMITED", "STRIPE_REQUEST_FAILED",
     "TIER_NOT_ACTIVE", "TIER_NOT_FOUND", "TIER_SOLD_OUT"}

UncertainErrorCodes == {"INTERNAL_ERROR", "INVALID_STRIPE_SESSION", "STRIPE_REQUEST_FAILED"}
BlockedErrorCodes   == {"CHECKOUT_UNAVAILABLE", "INVALID_STRIPE_SESSION"}
AmbiguousErrorCodes == {"INTERNAL_ERROR", "INVALID_STRIPE_SESSION", "STRIPE_REQUEST_FAILED"}

FailureStages ==
    {"runtime_bootstrap", "request_validation", "connect_validation", "reservation", "request_integrity",
     "stripe_session_retrieval", "stripe_session_creation", "stripe_session_response", "session_attachment"}

ProviderResults ==
    {"not_attempted", "provider_error_response", "network_failure", "runtime_failure", "session_returned"}

MismatchErrorCodes ==
    {"CHECKOUT_AGGREGATE_MISMATCH", "CHECKOUT_ITEM_BINDING_DUPLICATE", "CHECKOUT_ITEM_BINDING_MISSING",
     "CHECKOUT_ITEM_BINDING_UNKNOWN", "CHECKOUT_LINE_AMOUNT_MISMATCH", "CHECKOUT_LINE_COUNT_MISMATCH",
     "CHECKOUT_LINE_CURRENCY_MISMATCH", "CHECKOUT_LINE_QUANTITY_MISMATCH", "CHECKOUT_LINE_TIER_MISMATCH",
     "CHECKOUT_RECONCILIATION_REVIEW_MISMATCH", "DISPUTE_RECOVERY_MISMATCH", "DISPUTE_SNAPSHOT_MISMATCH",
     "INTERNAL_ERROR", "INVALID_EVENT_ENVELOPE", "INVALID_STRIPE_ACCOUNT", "LIVE_MODE_FORBIDDEN",
     "ORDER_NOT_FOUND", "PAYMENT_BINDING_MISMATCH", "PAYMENT_NOT_PAID", "PAYMENT_OBJECT_ALREADY_USED",
     "PAYMENT_SNAPSHOT_MISMATCH", "REFUND_POLICY_MISMATCH", "REFUND_SNAPSHOT_MISMATCH",
     "REFUND_TOTAL_INVALID", "STRIPE_OBJECT_INVALID", "WEBHOOK_EVENT_MISMATCH",
     "WEBHOOK_RECEIPT_INVALID", "WEBHOOK_RECEIPT_MISMATCH"}

OperationalErrorCodes == CreateErrorCodes \cup MismatchErrorCodes \cup
    {"ACCOUNT_STATUS_SYNCED", "ASYNC_PAYMENT_FAILED", "IGNORED_EVENT_TYPE", "INVALID_WEBHOOK",
     "PAYMENT_CHARGE_DISPUTED", "PAYMENT_CHARGE_REFUNDED", "PARTIAL_REFUND_REQUIRES_REVIEW",
     "REFUND_DURABLE_STATE_REVIEW", "TRANSIENT_PROCESSING_FAILURE", "WEBHOOK_RETRY"}

\* PROVIDER_OBJECT_PATTERN, by prefix
ProviderObjects ==
    {"acct", "ch", "cs_test", "cus", "dp", "du", "fee", "fr", "li", "obj", "pi", "price", "prod",
     "re", "tr", "trr", "txn"}

MaxMoney == 999999990

-----------------------------------------------------------------------------
(* validatedRecord *)

Discriminators == {"operation", "outcome"}

SummaryFields ==
    {"orderId", "eventId", "providerObjectId", "itemCount", "aggregateQuantity", "currency",
     "subtotalMinor", "totalMinor", "applicationFeeAmountMinor"}

SchemaFields(op, outcome) ==
    CASE op = "checkout.create" ->
            SummaryFields \cup (CASE outcome = "created" -> {"resultStatus"}
                                  [] outcome = "reused"  -> {"priorStatus", "resultStatus"}
                                  [] OTHER               -> {"errorCode", "failureStage", "providerResult"})
      [] op = "checkout.cancel" ->
            {"orderId", "providerObjectId", "priorStatus",
             IF outcome \in {"cancelled", "no_transition"} THEN "resultStatus" ELSE "errorCode"}
      [] op = "webhook.delivery" ->
            (IF outcome = "signature_failed" THEN {} ELSE {"stripeEventId", "providerObjectId", "attempt", "durationMs"})
            \cup (IF outcome = "duplicate" THEN {} ELSE {"errorCode"})
      [] op = "webhook.reconciliation" ->
            SummaryFields \cup {"stripeEventId", "errorCode"} \cup IF outcome = "review" THEN {"resultStatus"} ELSE {}
      [] op = "webhook.lifecycle" ->
            {"orderId", "stripeEventId", "providerObjectId", "resultStatus",
             IF outcome = "processing" THEN "priorStatus" ELSE "errorCode"}
      [] op = "webhook.fulfillment" ->
            SummaryFields \cup {"stripeEventId", "actualTicketCount", "resultStatus"}
      [] op = "refund.reconcile" ->
            {"orderId", "stripeEventId", "providerObjectId", "currency", "amountMinor", "resultStatus", "ticketStatus"}
            \cup IF outcome = "review" THEN {"errorCode"} ELSE {}

\* One field, when it is there at all.
FieldValid(field, v) ==
    CASE field \in {"orderId", "eventId"} -> v = "uuid"
      [] field = "stripeEventId"          -> v = "evt"
      [] field = "providerObjectId"       -> v \in ProviderObjects
      [] field \in {"itemCount", "aggregateQuantity", "actualTicketCount"} -> v \in 0..10
      [] field \in {"subtotalMinor", "totalMinor", "amountMinor", "applicationFeeAmountMinor"} -> v \in 0..MaxMoney
      [] field = "currency"       -> v = "usd"
      [] field = "attempt"        -> v \in 1..1000000
      [] field = "durationMs"     -> v \in 0..86400000
      [] field \in {"priorStatus", "resultStatus"} -> v \in OperationalStatuses
      [] field = "errorCode"      -> v \in OperationalErrorCodes
      [] field = "ticketStatus"   -> v \in {"valid", "used", "cancelled", "refunded", "mixed", "none"}
      [] field = "failureStage"   -> v \in FailureStages
      [] field = "providerResult" -> v \in ProviderResults

CreateCombination(e) ==
    CASE e.outcome = "created" -> Value(e, "resultStatus") = "checkout_open"
      [] e.outcome = "reused"  -> Value(e, "priorStatus") = "checkout_open" /\ Value(e, "resultStatus") = "checkout_open"
      [] OTHER ->
            /\ HasAll(e, {"errorCode", "failureStage", "providerResult"})
            /\ e.errorCode \in IF e.outcome = "failed" THEN CreateErrorCodes ELSE UncertainErrorCodes

CancelCombination(e) ==
    CASE e.outcome = "cancelled" ->
            /\ HasAll(e, {"orderId", "priorStatus", "resultStatus"})
            /\ e.priorStatus \in {"creating_checkout", "checkout_open"} /\ e.resultStatus = "cancelled"
      [] e.outcome = "no_transition" ->
            /\ HasAll(e, {"orderId", "priorStatus", "resultStatus"})
            /\ e.priorStatus \in {"cancelled", "expired", "payment_failed"} /\ e.resultStatus = e.priorStatus
      [] OTHER ->
            /\ HasAll(e, {"orderId", "priorStatus", "errorCode"}) /\ e.priorStatus \in OrderStatuses
            /\ e.errorCode \in IF e.outcome = "blocked" THEN BlockedErrorCodes ELSE AmbiguousErrorCodes

WebhookCombination(e) ==
    CASE e.operation = "webhook.delivery" ->
            \/ e.outcome = "signature_failed" /\ Value(e, "errorCode") = "INVALID_WEBHOOK"
            \/ /\ e.outcome # "signature_failed" /\ HasAll(e, {"stripeEventId", "providerObjectId"})
               /\ e.outcome = "retry" => Value(e, "errorCode") = "TRANSIENT_PROCESSING_FAILURE"
      [] e.operation = "webhook.reconciliation" ->
            IF e.outcome = "mismatch" THEN Value(e, "errorCode") \in MismatchErrorCodes
            ELSE /\ HasAll(e, {"orderId", "stripeEventId", "providerObjectId"})
                 /\ Value(e, "resultStatus") = "requires_review"
                 /\ Value(e, "errorCode") \in {"PAYMENT_CHARGE_DISPUTED", "PAYMENT_CHARGE_REFUNDED"}
      [] e.operation = "webhook.lifecycle" ->
            /\ HasAll(e, {"orderId", "stripeEventId", "providerObjectId"})
            /\ IF e.outcome = "processing"
               THEN Value(e, "priorStatus") = "checkout_open" /\ Value(e, "resultStatus") = "payment_processing"
               ELSE <<Value(e, "resultStatus"), Value(e, "errorCode")>>
                       \in {<<"expired", "CHECKOUT_EXPIRED">>, <<"payment_failed", "ASYNC_PAYMENT_FAILED">>}
      [] e.operation = "webhook.fulfillment" ->
            /\ HasAll(e, {"orderId", "stripeEventId", "providerObjectId", "actualTicketCount"})
            /\ Value(e, "resultStatus") = "paid"

RefundFields == {"orderId", "stripeEventId", "providerObjectId", "currency", "amountMinor", "resultStatus", "ticketStatus"}

\* Mutant: tickets cancelled one by one were thought of later elsewhere.
AppliedWithoutCancelled(status, tickets) ==
    \/ status \in {"checkout_open", "payment_processing"} /\ tickets = "none"
    \/ status = "paid" /\ tickets \in {"valid", "used", "mixed"}
    \/ status = "refunded" /\ tickets \in {"refunded", "used", "mixed"}

AppliedCombination(status, tickets) ==
    \/ status \in {"checkout_open", "payment_processing"} /\ tickets = "none"
    \/ status = "paid" /\ tickets \in {"valid", "used", "cancelled", "mixed"}
    \/ status = "refunded" /\ tickets \in {"refunded", "used", "mixed"}

RefundCombination(e) ==
    /\ HasAll(e, RefundFields)
    /\ IF e.outcome = "applied" THEN AppliedCombination(e.resultStatus, e.ticketStatus)
       ELSE CASE e.resultStatus = "requires_review" ->
                    Value(e, "errorCode") \in {"REFUND_DURABLE_STATE_REVIEW", "REFUND_POLICY_MISMATCH"}
              [] e.resultStatus = "payment_processing" ->
                    e.ticketStatus # "none" /\ Value(e, "errorCode") = "REFUND_DURABLE_STATE_REVIEW"
              [] OTHER ->
                    e.resultStatus \in OrderStatuses /\ Value(e, "errorCode") = "REFUND_DURABLE_STATE_REVIEW"

ValidCombination(e) ==
    CASE e.operation = "checkout.create"  -> CreateCombination(e)
      [] e.operation = "checkout.cancel"  -> CancelCombination(e)
      [] e.operation = "refund.reconcile" -> RefundCombination(e)
      [] OTHER                            -> WebhookCombination(e)

Accepts(e) ==
    /\ e.operation \in DOMAIN OperationOutcomes /\ e.outcome \in OperationOutcomes[e.operation]
    /\ DOMAIN e \ Discriminators \subseteq SchemaFields(e.operation, e.outcome)
    /\ \A f \in DOMAIN e \ Discriminators : e[f] # None => FieldValid(f, e[f])
    /\ ValidCombination(e)

\* What of it is serialized: undefined fields are not.
Defined(e) == [f \in {g \in DOMAIN e : e[g] # None} |-> e[f]]

\* emitOperationalEvent
Emit(e) ==
    /\ emitted' = e
    /\ logged' = IF Accepts(e) THEN Defined(e) ELSE None

-----------------------------------------------------------------------------
(* Who emits *)

Event(op, outcome, fields) == [operation |-> op, outcome |-> outcome] @@ fields

NoSummary == [f \in SummaryFields |-> None]
EventOnly == [NoSummary EXCEPT !.eventId = "uuid"]

\* An order as its summary; n lines of n tickets are as good as any.
Summary(object) ==
    {[orderId |-> "uuid", eventId |-> "uuid", providerObjectId |-> object, itemCount |-> n, aggregateQuantity |-> n,
      currency |-> "usd", subtotalMinor |-> m, totalMinor |-> m, applicationFeeAmountMinor |-> fee] :
        n \in ItemCounts, m \in Amounts, fee \in {0} \cup Amounts}

Checkout == "cs_test"

\* stripe-create-checkout: a new session, and one that is open already
CheckoutCreated ==
    \E s \in Summary(Checkout) : Emit(Event("checkout.create", "created", s @@ [resultStatus |-> "checkout_open"]))

CheckoutReused ==
    \E s \in Summary(Checkout) :
        Emit(Event("checkout.create", "reused", s @@ [priorStatus |-> "checkout_open", resultStatus |-> "checkout_open"]))

\* ... a failure, before or after the reservation; uncertain when Stripe may have a session
CheckoutFailed ==
    \E stage \in FailureStageType, result \in ProviderResultType, code \in CreateErrorType, unknown \in BOOLEAN,
       s \in {NoSummary, EventOnly} \cup Summary(None) \cup Summary(Checkout) :
        /\ s \in {NoSummary, EventOnly} <=> stage \in {"request_validation", "connect_validation", "reservation"}
        /\ stage # "runtime_bootstrap"
        /\ result # "not_attempted" => stage \in {"stripe_session_retrieval", "stripe_session_creation",
                                                  "stripe_session_response", "session_attachment"}
        /\ unknown => result # "not_attempted"
        /\ Emit(Event("checkout.create", IF unknown THEN "uncertain" ELSE "failed",
                      s @@ [errorCode |-> IF unknown /\ code \notin {"STRIPE_REQUEST_FAILED", "INVALID_STRIPE_SESSION"}
                                          THEN "INTERNAL_ERROR" ELSE code,
                            failureStage |-> stage, providerResult |-> result]))

BootstrapFailed ==
    Emit(Event("checkout.create", "failed",
               [errorCode |-> "INTERNAL_ERROR", failureStage |-> "runtime_bootstrap", providerResult |-> "not_attempted"]))

\* stripe-cancel-checkout
CancelReported ==
    \E prior \in {"creating_checkout", "checkout_open"} :
        Emit(Event("checkout.cancel", "cancelled",
                   [orderId |-> "uuid", providerObjectId |-> Checkout, priorStatus |-> prior, resultStatus |-> "cancelled"]))

AlreadyReleased ==
    \E prior \in {"cancelled", "expired", "payment_failed"} :
        Emit(Event("checkout.cancel", "no_transition",
                   [orderId |-> "uuid", providerObjectId |-> Checkout, priorStatus |-> prior, resultStatus |-> prior]))

\* Codes that nobody cares about when nothing was asked of Stripe are not reported.
CancelNotDone ==
    \E prior \in OrderStatusType, object \in {None, Checkout}, code \in CreateErrorType, ambiguous \in BOOLEAN :
        /\ ~ambiguous => code \in {"CHECKOUT_UNAVAILABLE", "INVALID_STRIPE_SESSION"}
        /\ Emit(Event("checkout.cancel", IF ambiguous THEN "ambiguous" ELSE "blocked",
                      [orderId |-> "uuid", providerObjectId |-> object, priorStatus |-> prior,
                       errorCode |-> IF ambiguous /\ code \notin {"INVALID_STRIPE_SESSION", "STRIPE_REQUEST_FAILED"}
                                     THEN "INTERNAL_ERROR" ELSE code]))

\* stripe-webhook: the delivery itself; its object may be one the log does not know
DeliveryReported ==
    \E object \in ProviderObjects \cup {"other"} :
        \/ Emit(Event("webhook.delivery", "signature_failed", [errorCode |-> "INVALID_WEBHOOK"]))
        \/ Emit(Event("webhook.delivery", "duplicate", [stripeEventId |-> "evt", providerObjectId |-> object]))
        \/ Emit(Event("webhook.delivery", "retry", [stripeEventId |-> "evt", providerObjectId |-> object,
                                                    errorCode |-> "TRANSIENT_PROCESSING_FAILURE"]))

\* safeWebhookErrorCode: codes of permanent errors that are reported as they are
SafeWebhookErrorCodes == MismatchType \ {"INTERNAL_ERROR"}

\* A permanent error, of whatever code
MismatchReported ==
    \/ Emit(Event("webhook.reconciliation", "mismatch", [errorCode |-> "INVALID_EVENT_ENVELOPE"]))
    \/ \E code \in SafeWebhookErrorCodes \cup {"another"}, object \in ProviderObjects \cup {"other"} :
          Emit(Event("webhook.reconciliation", "mismatch",
                     [stripeEventId |-> "evt", providerObjectId |-> object,
                      errorCode |-> IF code \in SafeWebhookErrorCodes THEN code ELSE "INTERNAL_ERROR"]))

\* markCheckoutReview, markPaymentRequiresReview
ReviewReported ==
    \E s \in Summary(Checkout) :
        LET known == [f \in DOMAIN s \ {"eventId", "applicationFeeAmountMinor"} |-> s[f]] @@ [stripeEventId |-> "evt"]
            money == [f \in DOMAIN known \ {"itemCount", "aggregateQuantity"} |-> known[f]] IN
        \/ \E code \in CheckoutReconciliationCode \cup {"PAYMENT_OBJECT_ALREADY_USED", "PAYMENT_SNAPSHOT_MISMATCH"} :
              Emit(Event("webhook.reconciliation", "mismatch", known @@ [errorCode |-> code]))
        \/ \E code \in {"PAYMENT_CHARGE_DISPUTED", "PAYMENT_CHARGE_REFUNDED"} :
              Emit(Event("webhook.reconciliation", "review",
                         money @@ [resultStatus |-> "requires_review", errorCode |-> code]))

LifecycleReported ==
    LET base == [orderId |-> "uuid", stripeEventId |-> "evt", providerObjectId |-> Checkout] IN
    \/ Emit(Event("webhook.lifecycle", "processing",
                  base @@ [priorStatus |-> "checkout_open", resultStatus |-> "payment_processing"]))
    \/ \E expired \in BOOLEAN :
          Emit(Event("webhook.lifecycle", "failed",
                     base @@ [resultStatus |-> IF expired THEN "expired" ELSE "payment_failed",
                              errorCode |-> IF expired THEN "CHECKOUT_EXPIRED" ELSE "ASYNC_PAYMENT_FAILED"]))

FulfillmentReported ==
    \E s \in Summary(Checkout) :
        Emit(Event("webhook.fulfillment", "fulfilled",
                   [f \in DOMAIN s \ {"eventId"} |-> s[f]]
                   @@ [stripeEventId |-> "evt", actualTicketCount |-> s.aggregateQuantity, resultStatus |-> "paid"]))

\* dispatchRefund, by what the database made of the refund
RefundReported ==
    \E status \in OrderStatusType, tickets \in RefundTicketStatusType, verified \in BOOLEAN, m \in Amounts :
        LET base == [orderId |-> "uuid", stripeEventId |-> "evt", providerObjectId |-> "re", currency |-> "usd",
                     amountMinor |-> m, resultStatus |-> status, ticketStatus |-> tickets]
            applied == \/ status \in {"payment_processing", "checkout_open"} /\ tickets = "none"
                       \/ status = "paid" /\ tickets \in {"valid", "used", "cancelled", "mixed"}
                       \/ status = "refunded" /\ tickets \in {"refunded", "used", "mixed"} IN
        Emit(IF applied THEN Event("refund.reconcile", "applied", base)
             ELSE Event("refund.reconcile", "review",
                        base @@ [errorCode |-> IF status = "requires_review" /\ ~verified
                                               THEN "REFUND_POLICY_MISMATCH" ELSE "REFUND_DURABLE_STATE_REVIEW"]))

LogInit == emitted = None /\ logged = None

\* A record is judged by itself: a behaviour has one.
OperationalLogNext ==
    /\ emitted = None
    /\ \/ CheckoutCreated \/ CheckoutReused \/ CheckoutFailed \/ BootstrapFailed
       \/ CancelReported \/ AlreadyReleased \/ CancelNotDone
       \/ DeliveryReported \/ MismatchReported \/ ReviewReported
       \/ LifecycleReported \/ FulfillmentReported \/ RefundReported

OperationalLogSpec == LogInit /\ [][OperationalLogNext]_logVars

-----------------------------------------------------------------------------
(* Properties *)

\* Whatever checkout, cancellation and the webhook report has its type and is
\* written as they report it: codes, statuses and combinations are listed three
\* times, for the compiler, for the validator and where they are emitted, and the
\* lists agree.  Only an object of a kind the log does not know keeps its record
\* out of it.
NothingIsDropped ==
    emitted # None =>
        /\ OfItsType(emitted)
        /\ Value(emitted, "providerObjectId") # "other" => logged = Defined(emitted)

=============================================================================
