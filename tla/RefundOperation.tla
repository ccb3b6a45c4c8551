--------------------------- MODULE RefundOperation ---------------------------
(***************************************************************************)
(* An organizer refunds one whole order: the panel that offers it,          *)
(* organizer-refund-order, Stripe, and the webhook that alone moves the     *)
(* order.  Stripe's reversal of the transfer and its refund of the fee may  *)
(* show later than the refund; every call may be the last of its handler.   *)
(***************************************************************************)
EXTENDS Common

CONSTANTS
    Panels,    \* open pages of the order, each with at most one call
    Hooks,     \* webhook deliveries handled at once
    MaxEvents  \* deliveries that wait

\* The rows of the operation and of the refund, and Stripe's refund.
Operations ==
    [state : {"submitting", "processing", "unknown", "review", "failed", "completed"},
     recent : BOOLEAN]
Entries == [status : {"pending", "succeeded", "failed"}, verified : BOOLEAN, reversal : BOOLEAN]
Refunds == [status : {"pending", "succeeded", "failed"}, enriched : BOOLEAN,
            reversal : BOOLEAN, fee : BOOLEAN, sent : BOOLEAN]

ASSUME RefundAssumption ==
    /\ MaxEvents \in Nat
    /\ None \notin Operations \cup Entries \cup Refunds

VARIABLES
    operation,  \* private.order_refund_operations: state and "is recent"
    status,     \* the order: paid, requires_review, refunded
    entry,      \* its row in public.refunds
    refund,     \* Stripe's refund
    asked,      \* history: requests to create it
    calls,      \* organizer-refund-order, by panel
    hooks,      \* webhook handlers
    events      \* deliveries that wait

refundVars == <<operation, status, entry, refund, asked, calls, hooks, events>>

NoCall == [pc |-> "idle", note |-> "none"]

NoHook == [pc |-> "idle", status |-> "none", enriched |-> FALSE, reversal |-> FALSE]

RefundInit ==
    /\ operation = None /\ status = "paid" /\ entry = None
    /\ refund = None /\ asked = 0
    /\ calls = [p \in Panels |-> NoCall] /\ hooks = [h \in Hooks |-> NoHook]
    /\ events = 0

OpIn(states)    == operation # None /\ operation.state \in states
EntryIn(states) == entry # None /\ entry.status \in states

\* private.order_refund_state
OrderRefundState ==
    IF status = "refunded" THEN "completed"
    ELSE IF status = "requires_review" THEN "review"
    ELSE IF OpIn({"review", "failed"}) THEN operation.state
    ELSE IF EntryIn({"requires_action", "succeeded"}) THEN "review"
    ELSE IF EntryIn({"pending"}) THEN "processing"
    ELSE IF EntryIn({"failed"}) THEN "failed"
    ELSE IF OpIn({"submitting"}) /\ ~operation.recent THEN "unknown"
    ELSE IF operation # None THEN operation.state ELSE "eligible"

\* private.organizer_refund_state = 'recoverable'
PolicyReview == status = "requires_review" /\ EntryIn({"succeeded"}) /\ ~entry.verified

\* server_read_owned_refund_operation
CanRecover == (operation # None /\ status = "paid") \/ PolicyReview

Checkable == {"submitting", "processing", "unknown", "review"}

Go(p, pc)      == calls' = [calls EXCEPT ![p].pc = pc]
Say(p, state)  == calls' = [calls EXCEPT ![p] = [pc |-> "note", note |-> state]]
Over(p)        == calls' = [calls EXCEPT ![p] = NoCall]

-----------------------------------------------------------------------------
(* The panel *)

\* What the page last read says what it offers; by the time the request arrives
\* that may no longer be so.
Press(p) ==
    /\ calls[p] = NoCall
    /\ \/ OrderRefundState = "eligible" /\ Go(p, "submit")
       \/ OrderRefundState \in Checkable /\ Go(p, "reconcile")
    /\ UNCHANGED <<operation, status, entry, refund, asked, hooks, events>>

-----------------------------------------------------------------------------
(* executeOwnedRefund *)

\* Mutant: what was read before the lock decides.
ClaimAsRead(p) ==
    /\ calls[p].pc = "submit"
    /\ operation' = [state |-> "submitting", recent |-> TRUE]
    /\ Go(p, "create")
    /\ UNCHANGED <<status, entry, refund, asked, hooks, events>>

\* server_claim_owned_refund: one row per order, and so one dispatch.
ClaimRefund(p) ==
    /\ calls[p].pc = "submit"
    /\ IF OrderRefundState = "eligible"
       THEN operation' = [state |-> "submitting", recent |-> TRUE] /\ Go(p, "create")
       ELSE UNCHANGED operation /\ Over(p)
    /\ UNCHANGED <<status, entry, refund, asked, hooks, events>>

\* A call that is refused or gets no answer.
Failed(p) ==
    /\ calls[p].pc \in {"create", "evidence", "enrich", "observe", "recover"}
    /\ Say(p, "unknown")
    /\ UNCHANGED <<operation, status, entry, refund, asked, hooks, events>>

NewRefund(s) == [status |-> s, enriched |-> FALSE, reversal |-> FALSE, fee |-> FALSE, sent |-> s = "succeeded"]
Wake == events' = IF events < MaxEvents THEN events + 1 ELSE events

\* createWholeOrderRefund: the order is prepared once more; Stripe may make the
\* refund and the answer get lost.
CreateRefund(p) ==
    /\ calls[p].pc = "create"
    /\ asked' = asked + 1
    /\ \E s \in {"pending", "succeeded"} :
          refund' = IF refund = None THEN NewRefund(s) ELSE refund
    /\ Go(p, "evidence") \/ Say(p, "unknown")
    /\ Wake
    /\ UNCHANGED <<operation, status, entry, hooks>>

\* retrieveRefundEvidence: both parts, whole, or nothing.
GatherEvidence(p) ==
    /\ calls[p].pc = "evidence"
    /\ IF refund.reversal /\ refund.fee THEN Go(p, "enrich") ELSE Say(p, "unknown")
    /\ UNCHANGED <<operation, status, entry, refund, asked, hooks, events>>

\* The evidence goes into the refund's metadata; a change is an event.
Enrich(p) ==
    /\ calls[p].pc = "enrich"
    /\ refund' = [refund EXCEPT !.enriched = TRUE]
    /\ (IF refund.enriched THEN UNCHANGED events ELSE Wake)
    /\ Say(p, "processing") \/ Say(p, "unknown")
    /\ UNCHANGED <<operation, status, entry, asked, hooks>>

Shown(s) == refund # None /\ refund.status = s

\* observeRefund: nothing is ever created here.
ObserveRefund(p) ==
    /\ \/ calls[p].pc = "reconcile" /\ ~(CanRecover /\ OrderRefundState \in Checkable) /\ Over(p)
       \/ calls[p].pc = "reconcile" /\ CanRecover /\ OrderRefundState \in Checkable /\ Go(p, "observe")
       \/ calls[p].pc = "observe" /\ refund = None /\ Say(p, "unknown")
       \/ calls[p].pc = "observe" /\ Shown("pending") /\ Say(p, "processing")
       \/ calls[p].pc = "observe" /\ Shown("failed") /\ Say(p, "failed")
       \/ calls[p].pc = "observe" /\ Shown("succeeded") /\ Go(p, "recover")
    /\ UNCHANGED <<operation, status, entry, refund, asked, hooks, events>>

\* recoverExistingRefundEvidence reads until all of it is there; evidence that
\* contradicts itself, as it may while it appears, is a conflict.
RecoverEvidence(p) ==
    /\ calls[p].pc = "recover"
    /\ \/ refund.status = "succeeded" /\ refund.reversal /\ refund.fee /\ Go(p, "enrich")
       \/ Say(p, "review")
    /\ UNCHANGED <<operation, status, entry, refund, asked, hooks, events>>

\* server_note_refund_observation
NoteObservation(p) ==
    /\ calls[p].pc = "note"
    /\ \/ /\ operation' = IF operation = None \/ OpIn({"completed", "review", "failed"}) THEN operation
                          ELSE [operation EXCEPT !.state = calls[p].note]
       \/ UNCHANGED operation
    /\ Over(p)
    /\ UNCHANGED <<status, entry, refund, asked, hooks, events>>

CallDies(p) ==
    /\ calls[p] # NoCall /\ Over(p)
    /\ UNCHANGED <<operation, status, entry, refund, asked, hooks, events>>

-----------------------------------------------------------------------------
(* The webhook *)

\* retrieveRefund, then the rest of the evidence: what is in the metadata must
\* be what Stripe says of the transfer and of the fee.
ReadRefund(h) ==
    /\ hooks[h].pc = "idle" /\ events > 0 /\ refund # None
    /\ events' = events - 1
    /\ hooks' = [hooks EXCEPT ![h] =
          [pc |-> "apply", status |-> refund.status, enriched |-> refund.enriched,
           reversal |-> refund.reversal]]
    /\ UNCHANGED <<operation, status, entry, refund, asked, calls>>

\* validateRefundPolicy
PolicyVerified(h) == hooks[h].enriched /\ hooks[h].reversal /\ refund.fee

\* apply_verified_refund: an entry only ever changes from unverified to
\* verified, and its final status is kept; what contradicts it is refused.
Snapshot(h) == [status |-> hooks[h].status, verified |-> PolicyVerified(h), reversal |-> hooks[h].reversal]

Agrees(s)    == entry.verified = s.verified /\ entry.reversal = s.reversal
Completes(s) == s.status = "succeeded" /\ s.verified
                 /\ entry.status \in {"pending", "requires_action"} \cup
                      (IF entry.verified THEN {} ELSE {"succeeded"})
NewEntry(s) ==
    IF entry = None THEN s
    ELSE IF entry.status \in {"succeeded", "failed"} /\ Agrees(s) THEN entry
    ELSE [s EXCEPT !.status = IF entry.status = "succeeded" THEN "succeeded" ELSE s.status]

ApplyRefund(h) ==
    LET s == Snapshot(h)
        e == NewEntry(s) IN
    /\ hooks[h].pc = "apply"
    /\ IF entry = None \/ Agrees(s) \/ Completes(s)
       THEN /\ entry' = e
            /\ status' = IF status = "refunded" \/ e.status # "succeeded" THEN status
                         ELSE IF e.verified THEN "refunded" ELSE "requires_review"
            /\ operation' = IF status' = "refunded" /\ operation # None
                            THEN [operation EXCEPT !.state = "completed"] ELSE operation
       ELSE UNCHANGED <<entry, status, operation>>
    /\ hooks' = [hooks EXCEPT ![h] = NoHook]
    /\ UNCHANGED <<refund, asked, calls, events>>

\* A delivery that could not be handled comes again.
Redeliver(h) ==
    /\ hooks[h] # NoHook
    /\ hooks' = [hooks EXCEPT ![h] = NoHook]
    /\ Wake
    /\ UNCHANGED <<operation, status, entry, refund, asked, calls>>

-----------------------------------------------------------------------------
(* Stripe, and time *)

\* A refund may still fail after it succeeded.
RefundMoves ==
    /\ refund # None
    /\ \/ refund.status = "pending" /\ refund' = [refund EXCEPT !.status = "succeeded", !.sent = TRUE]
       \/ refund.status \in {"pending", "succeeded"} /\ refund' = [refund EXCEPT !.status = "failed"]
    /\ Wake
    /\ UNCHANGED <<operation, status, entry, asked, calls, hooks>>

EvidenceAppears ==
    /\ refund # None
    /\ \/ ~refund.reversal /\ refund' = [refund EXCEPT !.reversal = TRUE]
       \/ ~refund.fee /\ refund' = [refund EXCEPT !.fee = TRUE]
    /\ UNCHANGED <<operation, status, entry, asked, calls, hooks, events>>

\* Five minutes since the claim.
FiveMinutes ==
    /\ operation # None /\ operation.recent
    /\ operation' = [operation EXCEPT !.recent = FALSE]
    /\ UNCHANGED <<status, entry, refund, asked, calls, hooks, events>>

RefundOperationNext ==
    \/ \E p \in Panels :
          \/ Press(p)
          \/ ClaimRefund(p) \/ Failed(p) \/ CreateRefund(p) \/ GatherEvidence(p) \/ Enrich(p)
          \/ ObserveRefund(p) \/ RecoverEvidence(p) \/ NoteObservation(p) \/ CallDies(p)
    \/ \E h \in Hooks : ReadRefund(h) \/ ApplyRefund(h) \/ Redeliver(h)
    \/ RefundMoves \/ EvidenceAppears \/ FiveMinutes

RefundOperationSpec == RefundInit /\ [][RefundOperationNext]_refundVars

-----------------------------------------------------------------------------
(* Properties *)

\* However many pages press "Refund order", and whatever answers get lost, Stripe
\* is asked once to create a refund.
AskedOnce == asked <= 1

\* What an organizer reads as final is what Stripe did: the money went out and
\* both the transfer and the fee came back, or the refund failed.
FinalIsTrue ==
    /\ OrderRefundState = "completed" =>
          refund # None /\ refund.sent /\ refund.reversal /\ refund.fee /\ refund.enriched
    /\ OrderRefundState = "failed" => refund # None /\ refund.status = "failed"

\* A refund that succeeded and is not recorded, with nothing under way that could
\* record it, can be checked from the page, which then finds it.
NeverStuck ==
    (/\ refund # None /\ refund.status = "succeeded"
     /\ events = 0 /\ \A h \in Hooks : hooks[h] = NoHook
     /\ \A p \in Panels : calls[p] = NoCall)
    => status = "refunded" \/ (CanRecover /\ OrderRefundState \in Checkable)

\* An order is refunded once, what is recorded of it is true, and no panel is left
\* without a way on.
RefundInvariant == AskedOnce /\ FinalIsTrue /\ NeverStuck

=============================================================================
