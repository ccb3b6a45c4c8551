--------------------------- MODULE CheckoutAttempt ---------------------------
(***************************************************************************)
(* A buyer's tab at the checkout of one event: the attempt it keeps in the *)
(* session storage, the operations that run in it, the page over them, and *)
(* requests that travel, get lost or arrive late.  What the server does to  *)
(* an order is in TicketSales and HostedCheckout; here an order is live,    *)
(* processing, over, or a purchase.                                        *)
(***************************************************************************)
EXTENDS Common

CONSTANTS
    Details,      \* canonical submissions: buyer details and cart
    MaxAttempts   \* how many request ids the buyer draws

Ids == 1 .. MaxAttempts

\* What is stored of an attempt, and what runs of it.
Attempts == [id : Ids, details : Details, stage : {"prepared", "submitted", "rejected"}]
Submissions == [id : Ids, details : Details, replay : BOOLEAN, first : BOOLEAN,
                stage : {"asking", "checking"}, answer : {"none", "url", "refused"}]

ASSUME AttemptAssumption ==
    /\ MaxAttempts \in Nat
    /\ None \notin Attempts \cup Submissions

VARIABLES
    stored,      \* the attempt record of the event
    marker,      \* its ":seen" key
    submission,  \* the running submitCheckoutAttempt
    cancelling,  \* the running cancelCheckoutAttempt
    told,        \* what the page shows
    drawn,       \* how many ids were drawn
    net,         \* create requests that have not arrived
    orders       \* the orders, by request id

checkoutVars == <<stored, marker, submission, cancelling, told, drawn, net, orders>>
server == <<net, orders>>

Form == [kind |-> "form"]
Ended == "ended"   \* cancelled, expired or failed

CheckoutInit ==
    /\ stored = None /\ marker = FALSE
    /\ submission = None /\ cancelling = None
    /\ told = Form
    /\ drawn = 0 /\ net = {}
    /\ orders = [i \in Ids |-> [status |-> "none", details |-> None]]

-----------------------------------------------------------------------------
(* The stored attempt *)

Status(i) == orders[i].status

\* A result reaches the page that asked, if it is still there.
Tell(what) == told' = what \/ UNCHANGED told

\* clearCheckoutAttemptForConfirmation
Clear(i) ==
    IF stored # None /\ stored.id = i THEN stored' = None /\ marker' = FALSE
    ELSE UNCHANGED <<stored, marker>>

\* writeAttempt sets the marker first; the quota may refuse either.
Write(record) == stored' = record /\ marker' = TRUE
Unwritten     == UNCHANGED stored /\ (marker' = TRUE \/ UNCHANGED marker)

\* What a page finds when it is mounted.
Found ==
    IF stored = None THEN IF marker THEN [kind |-> "lost"] ELSE Form
    ELSE IF stored.stage = "prepared" THEN Form
    ELSE [kind |-> IF stored.stage = "rejected" THEN "refused" ELSE "unknown", id |-> stored.id]

\* What the page offers to do.
Offered ==
    IF told.kind = "form" THEN {"submit"}
    ELSE IF told.kind = "unknown" THEN {"check"}
    ELSE IF told.kind = "refused" THEN {"release"}
    ELSE IF told.kind # "order" THEN {}
    ELSE IF told.status = "processing" THEN {"poll", "replay"}
    ELSE IF told.status = Ended THEN {"poll", "cancel"}
    ELSE {"poll"}

-----------------------------------------------------------------------------
(* Submitting *)

Running(record, replay, first, stage) ==
    [id |-> record.id, details |-> record.details, replay |-> replay, first |-> first,
     stage |-> stage, answer |-> "none"]

\* The record says so before the request leaves; when the write fails a new one may
\* stay as it was prepared.
SendRequest(record, replay, first) ==
    \/ /\ Write([record EXCEPT !.stage = "submitted"])
       /\ net' = net \cup {[id |-> record.id, details |-> record.details]}
       /\ submission' = Running(record, replay, first, "asking")
    \/ /\ Write(record) \/ Unwritten
       /\ submission' = None /\ UNCHANGED net

\* submitCheckoutAttempt up to its first request.  One runs per event; other
\* details than the stored ones, or a record that should be there and is not,
\* are errors that leave the page as it is.
Submit(d, replay) ==
    LET fresh == [id |-> drawn + 1, details |-> d, stage |-> "prepared"]
        usable == stored # None /\ stored.details = d /\ (replay => stored.id = told.id) IN
    /\ (IF replay THEN "replay" ELSE "submit") \in Offered
    /\ submission = None
    /\ \/ /\ stored = None /\ ~marker /\ ~replay /\ drawn < MaxAttempts
          /\ drawn' = drawn + 1
          /\ SendRequest(fresh, replay, TRUE)
          /\ UNCHANGED told
       \/ /\ usable /\ cancelling # None /\ cancelling.id = stored.id
          /\ Tell([kind |-> "unknown", id |-> stored.id])
          /\ UNCHANGED <<stored, marker, submission, drawn, net>>
       \/ /\ usable /\ ~(cancelling # None /\ cancelling.id = stored.id)
          /\ UNCHANGED drawn
          /\ IF stored.stage = "rejected"
             THEN /\ Tell([kind |-> "refused", id |-> stored.id])
                  /\ UNCHANGED <<stored, marker, submission, net>>
             ELSE IF stored.stage = "prepared"
             THEN SendRequest(stored, replay, TRUE) /\ UNCHANGED told
             ELSE /\ submission' = Running(stored, replay, FALSE, "checking")
                  /\ UNCHANGED <<stored, marker, net, told>>
    /\ UNCHANGED <<cancelling, orders>>

\* checkCheckoutAttempt: the order's status, or that nothing is known.
Answers(i) ==
    {[kind |-> "unknown", id |-> i]} \cup
    IF Status(i) = "none" THEN {}
    ELSE {[kind |-> "order", id |-> i,
           status |-> IF Status(i) = "live" THEN "processing" ELSE Status(i)]}

\* A repetition is sent only of an order known to be processing, and only if
\* the record is still there.
CheckBeforeReplay ==
    /\ submission # None /\ submission.stage = "checking"
    /\ \E answer \in Answers(submission.id) :
          IF answer.kind = "order" /\ answer.status = "processing" /\ submission.replay
          THEN /\ UNCHANGED told
               /\ IF stored # None /\ stored.id = submission.id /\ stored.stage # "rejected"
                  THEN SendRequest(stored, TRUE, FALSE)
                  ELSE submission' = None /\ UNCHANGED <<stored, marker, net>>
          ELSE submission' = None /\ Tell(answer) /\ UNCHANGED <<stored, marker, net>>
    /\ UNCHANGED <<cancelling, drawn, orders>>

\* The answer, or none: only the refusal of the first request proves that there
\* is no order.
Answered ==
    LET i == submission.id IN
    /\ submission # None /\ submission.stage = "asking"
    /\ \/ submission.answer = "url" /\ Tell([kind |-> "hosted", id |-> i])
            /\ UNCHANGED <<stored, marker>>
       \/ submission.answer = "refused" /\ submission.first
            /\ \/ /\ stored # None /\ stored.id = i
                  /\ Write([stored EXCEPT !.stage = "rejected"])
                  /\ Tell([kind |-> "refused", id |-> i])
               \/ UNCHANGED <<stored, marker, told>>
       \/ ~(submission.answer = "refused" /\ submission.first)
            /\ Tell([kind |-> "unknown", id |-> i])
            /\ UNCHANGED <<stored, marker>>
    /\ submission' = None
    /\ UNCHANGED <<cancelling, drawn, net, orders>>

-----------------------------------------------------------------------------
(* Cancelling, checking, polling *)

\* cancelCheckoutAttempt, from the order's page or from "verify".
Cancel(i) ==
    /\ cancelling = None
    /\ "cancel" \in Offered /\ told.id = i
    /\ cancelling' = [id |-> i, stage |->
          IF stored # None /\ stored.id = i /\ submission # None THEN "waiting" ELSE "asking"]
    /\ UNCHANGED <<stored, marker, submission, told, drawn, server>>

Waited ==
    /\ cancelling # None /\ cancelling.stage = "waiting" /\ submission = None
    /\ cancelling' = [cancelling EXCEPT !.stage = "asking"]
    /\ UNCHANGED <<stored, marker, submission, told, drawn, server>>

\* Mutant: an answer that does not come counts as done.
CancelAnsweredAnyway ==
    /\ cancelling # None /\ cancelling.stage = "asking"
    /\ Clear(cancelling.id)
    /\ Tell([kind |-> "cancelled", id |-> cancelling.id])
    /\ cancelling' = None
    /\ UNCHANGED <<submission, drawn, net, orders>>

\* stripe-cancel-checkout ends a live order or finds it ended; without its word
\* the attempt is kept and its order looked up.
CancelAnswered ==
    LET i == cancelling.id
        cancels == Status(i) \in {"live", Ended}
        over == [orders EXCEPT ![i].status = Ended] IN
    /\ cancelling # None /\ cancelling.stage = "asking"
    /\ \/ /\ cancels /\ orders' = over
          /\ Clear(i) /\ Tell([kind |-> "cancelled", id |-> i])
          /\ cancelling' = None
       \/ /\ (cancels /\ orders' = over) \/ UNCHANGED orders
          /\ cancelling' = [cancelling EXCEPT !.stage = "checking"]
          /\ UNCHANGED <<stored, marker, told>>
    /\ UNCHANGED <<submission, drawn, net>>

CancelChecked ==
    /\ cancelling # None /\ cancelling.stage = "checking"
    /\ \E answer \in Answers(cancelling.id) : Tell(answer)
    /\ cancelling' = None
    /\ UNCHANGED <<stored, marker, submission, drawn, server>>

\* "Check status", and the polling of the order's status, which clears what was
\* bought.
Poll ==
    /\ {"check", "poll"} \cap Offered # {}
    /\ \E answer \in Answers(told.id) :
          /\ told' = answer
          /\ IF answer.kind = "order" /\ answer.status \in {"paid", "refunded"}
             THEN Clear(told.id) ELSE UNCHANGED <<stored, marker>>
    /\ UNCHANGED <<submission, cancelling, drawn, server>>

\* releaseRejectedCheckoutAttempt
ReleaseRejected ==
    /\ "release" \in Offered
    /\ stored # None /\ stored.id = told.id /\ stored.stage = "rejected"
    /\ Clear(told.id)
    /\ told' = Form
    /\ UNCHANGED <<submission, cancelling, drawn, server>>

-----------------------------------------------------------------------------
(* Pages come and go *)

\* Another route of the application and back: what runs goes on.
Remount ==
    /\ told' = Found
    /\ UNCHANGED <<stored, marker, submission, cancelling, drawn, server>>

\* The browser loads the page anew, or returns to it from the payment page with
\* what it showed: what ran is gone, not what it sent.
Load ==
    /\ submission' = None /\ cancelling' = None
    /\ told' = Found \/ (told.kind = "hosted" /\ told' = Form)
    /\ UNCHANGED <<stored, marker, drawn, server>>

\* The payment page's two ways back: the order's page and the link that cancels.
Return(i) ==
    /\ Status(i) # "none"
    /\ submission' = None
    /\ \/ cancelling' = None /\ told' \in Answers(i)
       \/ cancelling' = [id |-> i, stage |-> "asking"] /\ told' = [kind |-> "busy", id |-> i]
    /\ UNCHANGED <<stored, marker, drawn, server>>

-----------------------------------------------------------------------------
(* The server, as the tab can see it *)

Reply(r, answers) ==
    IF submission # None /\ submission.stage = "asking" /\ submission.id = r.id
    THEN \E a \in answers : submission' = [submission EXCEPT !.answer = a]
    ELSE UNCHANGED submission

\* stripe-create-checkout: a known id is only repeated; a refusal may come from
\* what is looked at before the id is.
CreateArrives(r) ==
    /\ r \in net
    /\ net' = net \ {r}
    /\ \/ /\ Status(r.id) = "none"
          /\ \E s \in {"live", Ended} :
                /\ orders' = [orders EXCEPT ![r.id] = [status |-> s, details |-> r.details]]
                /\ Reply(r, IF s = "live" THEN {"url", "none"} ELSE {"none"})
       \/ Status(r.id) = "none" /\ Reply(r, {"refused", "none"}) /\ UNCHANGED orders
       \/ Status(r.id) # "none" /\ UNCHANGED orders
            /\ Reply(r, {"refused", "none"} \cup IF Status(r.id) = "live" THEN {"url"} ELSE {})
    /\ UNCHANGED <<stored, marker, cancelling, told, drawn>>

\* Payment, expiry and refunds.
OrderMoves(i) ==
    /\ \E s \in (IF Status(i) = "live" THEN {"processing", "paid", Ended} ELSE {})
                \cup (IF Status(i) = "processing" THEN {"paid", Ended} ELSE {})
                \cup (IF Status(i) = "paid" THEN {"refunded"} ELSE {}) :
          orders' = [orders EXCEPT ![i].status = s]
    /\ UNCHANGED <<stored, marker, submission, cancelling, told, drawn, net>>

CheckoutAttemptNext ==
    \/ \E d \in Details, replay \in BOOLEAN : Submit(d, replay)
    \/ CheckBeforeReplay \/ Answered
    \/ \E i \in Ids : Cancel(i) \/ Return(i) \/ OrderMoves(i)
    \/ Waited \/ CancelAnswered \/ CancelChecked
    \/ Poll \/ ReleaseRejected \/ Remount \/ Load
    \/ \E r \in net : CreateArrives(r)

CheckoutAttemptSpec == CheckoutInit /\ [][CheckoutAttemptNext]_checkoutVars

-----------------------------------------------------------------------------
(* Properties *)

\* An order that may still be paid, or a request that may still make one.
OpenIds == {i \in Ids : Status(i) \in {"live", "processing"}
                        \/ (Status(i) = "none" /\ \E r \in net : r.id = i)}

\* While a request or its order is open the tab keeps the attempt, across lost
\* answers, reloads and races of cancel, replay and polling: so the buyer cannot
\* be led to a second order beside it, and can find it again.
OpenAttemptIsKept == \A i \in OpenIds : stored # None /\ stored.id = i

\* "Checkout cancelled" and "tickets no longer available" are only said of an
\* attempt that can not take the buyer's money any more.
EndIsTrue == told.kind \in {"cancelled", "refused"} => told.id \notin OpenIds

\* A repeated request carries the details its order was made of.
ReplayIsSame ==
    \A r \in net : orders[r.id].details \in {None, r.details}

\* What the buyer's browser owes the buyer: an attempt that may have been paid is
\* not forgotten, what it says of its end is true, and a repeated submission is
\* the same one.
AttemptInvariant == OpenAttemptIsKept /\ EndIsTrue /\ ReplayIsSame

=============================================================================
