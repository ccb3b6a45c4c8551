---------------------------- MODULE WaitlistMail ----------------------------
(***************************************************************************)
(* The outbox of the waitlist's confirmations and restock notices:         *)
(* processWaitlistDelivery over its transactions.  The transactions never   *)
(* wait for the ticketing lock: they return null, and the sender gives its  *)
(* unused lease back.  What they look at (the enrollment, the event, the    *)
(* tier's inventory, the quotas) may be found either way.                   *)
(***************************************************************************)
EXTENDS Mail

\* server_claim_waitlist_delivery takes one row and ends it if it is exhausted.
ClaimDelivery(w) ==
    /\ job[w] = Idle
    /\ \E a \in Mails :
          /\ Waiting(row[a])
          /\ \/ /\ Exhausted(row[a])
                /\ Put(a, Stopped([row[a] EXCEPT !.state = "unknown"]))
                /\ UNCHANGED job
             \/ /\ ~Exhausted(row[a])
                /\ Put(a, Leased(row[a], w))
                /\ job' = [job EXCEPT ![w] = Job(w, a)]
    /\ UNCHANGED box

\* server_stop_waitlist_delivery
StopDelivery(w) ==
    LET a == job[w].mail IN
    /\ job[w].pc = "stop"
    /\ IF Live(w) THEN Put(a, Stopped(row[a])) ELSE UNCHANGED row
    /\ Done(w)
    /\ UNCHANGED box

\* server_defer_waitlist_delivery: only an unsent lease is given back.
Defer(w) ==
    LET a == job[w].mail
        r == row[a] IN
    /\ job[w].pc = "defer"
    /\ IF Live(w) /\ r.state \in {"queued", "unknown"} /\ ~r.stopped
       THEN Put(a, Released(r)) ELSE UNCHANGED row
    /\ Done(w)
    /\ UNCHANGED box

\* What private.waitlist_delivery_reason and the quotas may do to a mail:
\* nothing, wait, or end it.
Ruled(w) ==
    LET a == job[w].mail IN
    \/ UNCHANGED row
    \/ Put(a, [Released(row[a]) EXCEPT !.wait = Backoff])
    \/ Put(a, Stopped(row[a]))

\* server_prepare_waitlist_delivery; a projection that is not the one expected
\* stops the delivery.
PrepareDelivery(w) ==
    LET r == row[job[w].mail]
        ready == Live(w) /\ r.state \in {"queued", "unknown"} /\ ~r.stopped IN
    /\ job[w].pc = "prepare"
    /\ \/ (IF ready THEN Ruled(w) ELSE UNCHANGED row) /\ Goto(w, "defer")
       \/ ready /\ UNCHANGED row /\ Goto(w, "stop")
       \/ ready /\ UNCHANGED row /\ r.content = Nobody /\ Goto(w, "save")
       \/ ready /\ UNCHANGED row /\ r.content # Nobody
            /\ job' = [job EXCEPT ![w].pc = "begin", ![w].content = r.content]
    /\ UNCHANGED box

\* A save whose answer is lost keeps the lease and the bytes: it is Killed.
SaveDelivery(w) ==
    LET a == job[w].mail
        savable == Live(w) /\ row[a].state = "queued" /\ ~row[a].stopped
                     /\ row[a].content = Nobody IN
    /\ job[w].pc = "save"
    /\ \/ UNCHANGED row /\ Goto(w, "stop")
       \/ UNCHANGED row /\ Goto(w, "defer")
       \/ savable /\ Put(a, [row[a] EXCEPT !.content = w])
            /\ job' = [job EXCEPT ![w].pc = "begin", ![w].content = w]
    /\ UNCHANGED box

\* server_begin_waitlist_dispatch, or stored bytes that do not decrypt.
BeginDelivery(w) ==
    LET a == job[w].mail
        r == row[a]
        ready == Live(w) /\ r.state \in {"queued", "unknown"} /\ r.content # Nobody
                   /\ ~r.stopped IN
    /\ job[w].pc = "begin"
    /\ \/ UNCHANGED row /\ Goto(w, "stop")
       \/ ~ready /\ UNCHANGED row /\ Goto(w, "defer")
       \/ ready /\ Exhausted(r) /\ Goto(w, "defer")
            /\ Put(a, Stopped([r EXCEPT !.state = "unknown"]))
       \/ ready /\ ~Exhausted(r) /\ Ruled(w) /\ Goto(w, "defer")
       \/ ready /\ ~Exhausted(r) /\ Put(a, Sending(r))
            /\ job' = [job EXCEPT ![w].pc = "send", ![w].count = r.count + 1]
    /\ UNCHANGED box

\* Here alone is looked at what is left of the lease.
SendDelivery(w) ==
    LET r == row[job[w].mail]
        sendable == /\ job[w].content = r.content /\ job[w].left >= Margin
                    /\ r.age < Window /\ job[w].count <= MaxDispatch IN
    /\ job[w].pc = "send"
    /\ \/ /\ ~sendable
          /\ Goto(w, "finish") /\ UNCHANGED box
       \/ /\ sendable
          /\ \E outcome \in Outcomes, id \in 0 .. box[job[w].mail].copies + 1 :
                /\ SendProviderEmail(job[w].mail, job[w].content, outcome, id)
                /\ job' = [job EXCEPT ![w].pc = "finish", ![w].id = id, ![w].outcome =
                      IF outcome = "failed" /\ job[w].count > 1 THEN "unknown" ELSE outcome]
    /\ UNCHANGED row

\* server_finish_waitlist_dispatch, which does not ask whether the row is still
\* sending: with a live lease it is, or the webhook has had it accepted.
FinishDelivery(w) ==
    LET a == job[w].mail
        r == row[a] IN
    /\ job[w].pc = "finish"
    /\ IF ~Live(w) \/ r.count = 0 \/ r.state = "accepted" THEN UNCHANGED row
       ELSE Put(a, Ended(r, IF job[w].outcome = "failed" /\ r.count > 1 THEN "unknown"
                            ELSE job[w].outcome, job[w].id))
    /\ Done(w)
    /\ UNCHANGED box

\* The same webhook, over server_observe_waitlist_email.
ObserveDelivery(a) == \E id \in 1 .. box[a].copies : Observed(a, id)

WorkOnDelivery(w) ==
    \/ StopDelivery(w) \/ Defer(w) \/ PrepareDelivery(w) \/ SaveDelivery(w)
    \/ BeginDelivery(w) \/ SendDelivery(w) \/ FinishDelivery(w)

WaitlistMailNext ==
    \/ Tick
    \/ \E w \in Senders : ClaimDelivery(w) \/ WorkOnDelivery(w) \/ Killed(w)
    \/ \E a \in Mails : ObserveDelivery(a)

WaitlistMailSpec == MailInit /\ [][WaitlistMailNext]_mailVars

=============================================================================
