---------------------------- MODULE TicketEmail ----------------------------
(***************************************************************************)
(* The ticket e-mail outbox: processTicketEmail, call by call, over the    *)
(* transactions it calls.  Whether the source of a mail is still eligible,  *)
(* the recipient blocked or the worker switched off may change at any time, *)
(* so the calls that look at it may see either.                             *)
(***************************************************************************)
EXTENDS Mail

\* Mutant: leases that ran out in the middle of a dispatch are not looked at.
ClaimUnswept(w) ==
    /\ job[w] = Idle
    /\ \E a \in Mails :
          /\ Claimable(row[a])
          /\ Put(a, Leased(row[a], w))
          /\ job' = [job EXCEPT ![w] = Job(w, a)]
    /\ UNCHANGED box

\* server_claim_ticket_email first gives up what is exhausted, then leases one
\* row to the caller.
Claim(w) ==
    LET swept == [a \in Mails |->
            IF row[a].state \in {"sending", "unknown"} /\ ~row[a].stopped
                 /\ row[a].left = 0 /\ Exhausted(row[a])
            THEN [row[a] EXCEPT !.state = "unknown", !.stopped = TRUE] ELSE row[a]] IN
    /\ job[w] = Idle
    /\ \/ \E a \in Mails :
             /\ Claimable(swept[a])
             /\ row' = [swept EXCEPT ![a] = Leased(@, w)]
             /\ job' = [job EXCEPT ![w] = Job(w, a)]
       \/ (\A a \in Mails : ~Claimable(swept[a])) /\ row' = swept /\ UNCHANGED job
    /\ UNCHANGED box

\* The support address is missing, the recovery request or the stored payload
\* does not decrypt, or the projection is not the one expected.
Unusable(w) ==
    /\ job[w].pc \in {"prepare", "save", "begin"}
    /\ Goto(w, "stop")
    /\ UNCHANGED <<row, box>>

\* server_stop_ticket_email
Stop(w) ==
    LET a == job[w].mail IN
    /\ job[w].pc = "stop"
    /\ IF Live(w) THEN Put(a, Stopped(row[a])) ELSE UNCHANGED row
    /\ Done(w)
    /\ UNCHANGED box

\* server_prepare_ticket_email_context: without eligible sources nothing is
\* ever sent; a payload that was saved before is used as it is.
Prepare(w) ==
    LET a == job[w].mail
        saved == row[a].content # Nobody IN
    /\ job[w].pc = "prepare"
    /\ \/ ~Live(w) /\ Done(w) /\ UNCHANGED row
       \/ Live(w) /\ ~saved /\ Put(a, Stopped(row[a])) /\ Done(w)
       \/ Live(w) /\ saved /\ UNCHANGED row
            /\ job' = [job EXCEPT ![w].pc = "begin", ![w].content = row[a].content]
       \/ Live(w) /\ ~saved /\ Goto(w, "save") /\ UNCHANGED row
    /\ UNCHANGED box

\* Mutant: whoever renders last is saved.
SaveOver(w) ==
    LET a == job[w].mail IN
    /\ job[w].pc = "save"
    /\ Put(a, [row[a] EXCEPT !.content = w])
    /\ job' = [job EXCEPT ![w].pc = "begin", ![w].content = w]
    /\ UNCHANGED box

\* Rendering draws a fresh access token, so every rendering differs.  A call
\* that throws stops the attempt, even if the payload was saved.
Save(w) ==
    LET a == job[w].mail
        savable == Live(w) /\ row[a].state = "queued" /\ ~row[a].stopped
                     /\ row[a].content = Nobody
        saved == Put(a, [row[a] EXCEPT !.content = w]) IN
    /\ job[w].pc = "save"
    /\ \/ savable /\ saved
            /\ job' = [job EXCEPT ![w].pc = "begin", ![w].content = w]
       \/ savable /\ saved /\ Goto(w, "stop")
       \/ UNCHANGED row /\ Goto(w, "stop")
       \/ ~savable /\ UNCHANGED row /\ Done(w)
    /\ UNCHANGED box

\* server_begin_ticket_email_dispatch: nothing if the worker is off or the
\* lease too short, a stop if the mail is blocked, or the recorded dispatch.
Begin(w) ==
    LET a == job[w].mail
        r == row[a]
        ready == /\ Live(w) /\ r.left > Margin
                 /\ r.state \in {"queued", "unknown"} /\ r.content # Nobody /\ ~r.stopped IN
    /\ job[w].pc = "begin"
    /\ \/ UNCHANGED row /\ Done(w)
       \/ ready /\ Put(a, Stopped(r)) /\ Done(w)
       \/ ready /\ ~Exhausted(r) /\ Put(a, Sending(r))
            /\ job' = [job EXCEPT ![w].pc = "send", ![w].count = r.count + 1]
    /\ UNCHANGED box

\* What is sent is what was decrypted before the dispatch was recorded, if
\* enough of the lease and of the window is left.
Sendable(w) ==
    LET r == row[job[w].mail] IN
    /\ job[w].content = r.content
    /\ job[w].left >= Margin /\ r.age < Window /\ job[w].count <= MaxDispatch

\* The refusal of a repetition says nothing about the first request.
Send(w) ==
    /\ job[w].pc = "send"
    /\ \/ /\ ~Sendable(w)
          /\ Goto(w, "finish") /\ UNCHANGED box
       \/ /\ Sendable(w)
          /\ \E outcome \in Outcomes, id \in 0 .. box[job[w].mail].copies + 1 :
                /\ SendProviderEmail(job[w].mail, job[w].content, outcome, id)
                /\ job' = [job EXCEPT ![w].pc = "finish", ![w].id = id, ![w].outcome =
                      IF outcome = "failed" /\ job[w].count > 1 THEN "unknown" ELSE outcome]
    /\ UNCHANGED row

\* server_finish_ticket_email_dispatch: evidence the webhook brought earlier
\* wins, and only the lease holder may say how a dispatch ended.
Finish(w) ==
    LET a == job[w].mail
        r == row[a]
        mine == Live(w) /\ (r.provider = 0 \/ job[w].id \in {0, r.provider}) IN
    /\ job[w].pc = "finish"
    /\ IF ~mine \/ r.state \notin {"sending", "accepted"} THEN UNCHANGED row
       ELSE IF r.state = "accepted" THEN Put(a, Released(r))
       ELSE Put(a, Ended(r, IF job[w].outcome = "failed" /\ r.count > 1 THEN "unknown"
                            ELSE job[w].outcome, job[w].id))
    /\ Done(w)
    /\ UNCHANGED box

\* The ticket-email-webhook handler, over server_observe_ticket_email.
Observe(a) == \E id \in 1 .. box[a].copies : Observed(a, id)

Work(w) ==
    \/ Unusable(w) \/ Stop(w) \/ Prepare(w) \/ Save(w) \/ Begin(w)
    \/ Send(w) \/ Finish(w)

TicketEmailNext ==
    \/ Tick
    \/ \E w \in Senders : Claim(w) \/ Work(w) \/ Killed(w)
    \/ \E a \in Mails : Observe(a)

TicketEmailSpec == MailInit /\ [][TicketEmailNext]_mailVars

=============================================================================
