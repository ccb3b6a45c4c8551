--------------------------- MODULE OrganizerMail ---------------------------
(***************************************************************************)
(* The outbox of organizers' messages: processOrganizerMessage over its    *)
(* transactions.  One mail is leased at a time, ticket mail goes first and  *)
(* the dispatches are counted against quotas; a call that looks at any of   *)
(* these may find it either way.                                           *)
(***************************************************************************)
EXTENDS Mail

\* server_claim_organizer_message_recipient: not while anything is leased.
ClaimMessage(w) ==
    LET swept == [a \in Mails |->
            IF row[a].state \in {"sending", "unknown"} /\ ~row[a].stopped /\ Exhausted(row[a])
            THEN Stopped(row[a]) ELSE row[a]] IN
    /\ job[w] = Idle
    /\ \A a \in Mails : row[a].left = 0
    /\ \/ \E a \in Mails :
             /\ Claimable(swept[a])
             /\ row' = [swept EXCEPT ![a] = Leased(@, w)]
             /\ job' = [job EXCEPT ![w] = Job(w, a)]
       \/ (\A a \in Mails : ~Claimable(swept[a])) /\ row' = swept /\ UNCHANGED job
    /\ UNCHANGED box

\* The projection or the stored payload cannot be used.
UnusableMessage(w) ==
    /\ job[w].pc \in {"save", "begin"}
    /\ Goto(w, "stop")
    /\ UNCHANGED <<row, box>>

\* server_stop_organizer_message_recipient
StopMessage(w) ==
    LET a == job[w].mail IN
    /\ job[w].pc = "stop"
    /\ IF Live(w) THEN Put(a, Stopped(row[a])) ELSE UNCHANGED row
    /\ Done(w)
    /\ UNCHANGED box

\* server_prepare_organizer_message_recipient: message and recipient are as
\* they were submitted, so nothing is left to decide.
PrepareMessage(w) ==
    LET r == row[job[w].mail]
        ready == Live(w) /\ r.state \in {"queued", "unknown"} /\ ~r.stopped IN
    /\ job[w].pc = "prepare"
    /\ \/ ~ready /\ Done(w)
       \/ ready /\ r.content = Nobody /\ Goto(w, "save")
       \/ ready /\ r.content # Nobody
            /\ job' = [job EXCEPT ![w].pc = "begin", ![w].content = r.content]
    /\ UNCHANGED <<row, box>>

\* Encryption makes every rendering differ.  A call that throws stops the
\* attempt, even if the payload was saved.
SaveMessage(w) ==
    LET a == job[w].mail
        savable == Live(w) /\ row[a].state = "queued" /\ ~row[a].stopped
                     /\ row[a].content = Nobody
        saved == Put(a, [row[a] EXCEPT !.content = w]) IN
    /\ job[w].pc = "save"
    /\ \/ savable /\ saved
            /\ job' = [job EXCEPT ![w].pc = "begin", ![w].content = w]
       \/ savable /\ saved /\ Goto(w, "stop")
       \/ UNCHANGED row /\ Goto(w, "stop")
       \/ ~savable /\ UNCHANGED row /\ Done(w)
    /\ UNCHANGED box

\* server_begin_organizer_message_dispatch: a quota that is used up, or ticket
\* mail that is waiting, sends the mail back to the queue for a minute.
BeginMessage(w) ==
    LET a == job[w].mail
        r == row[a]
        ready == /\ Live(w) /\ r.left > Margin
                 /\ r.state \in {"queued", "unknown"} /\ r.content # Nobody /\ ~r.stopped IN
    /\ job[w].pc = "begin"
    /\ \/ UNCHANGED row /\ Done(w)
       \/ ready /\ Put(a, Stopped(r)) /\ Done(w)
       \/ ready /\ ~Exhausted(r) /\ Put(a, [Released(r) EXCEPT !.wait = Backoff]) /\ Done(w)
       \/ ready /\ ~Exhausted(r) /\ Put(a, Sending(r))
            /\ job' = [job EXCEPT ![w].pc = "send", ![w].count = r.count + 1]
    /\ UNCHANGED box

\* The recorded dispatch must be the one prepared, early enough to be safe.
SendMessage(w) ==
    LET r == row[job[w].mail]
        sendable == /\ job[w].content = r.content /\ job[w].left >= Margin
                    /\ r.age < Window /\ job[w].count <= MaxDispatch IN
    /\ job[w].pc = "send"
    /\ \/ /\ ~sendable
          /\ Goto(w, "finish") /\ UNCHANGED box
       \/ /\ sendable
          /\ \E outcome \in Outcomes, id \in 0 .. box[job[w].mail].copies + 1 :
                /\ SendProviderEmail(job[w].mail, job[w].content, outcome, id)
                /\ job' = [job EXCEPT ![w].pc = "finish", ![w].id = id, ![w].outcome =
                      IF outcome = "failed" /\ job[w].count > 1 THEN "unknown" ELSE outcome]
    /\ UNCHANGED row

\* server_finish_organizer_message_dispatch
FinishMessage(w) ==
    LET a == job[w].mail
        r == row[a]
        mine == Live(w) /\ (r.provider = 0 \/ job[w].id \in {0, r.provider}) IN
    /\ job[w].pc = "finish"
    /\ IF ~mine \/ r.state \notin {"sending", "accepted"} THEN UNCHANGED row
       ELSE IF r.state = "accepted" THEN Put(a, Released(r))
       ELSE Put(a, Ended(r, IF job[w].outcome = "failed" /\ r.count > 1 THEN "unknown"
                            ELSE job[w].outcome, job[w].id))
    /\ Done(w)
    /\ UNCHANGED box

\* The same webhook, over server_observe_organizer_message.
ObserveMessage(a) == \E id \in 1 .. box[a].copies : Observed(a, id)

WorkOnMessage(w) ==
    \/ UnusableMessage(w) \/ StopMessage(w) \/ PrepareMessage(w) \/ SaveMessage(w)
    \/ BeginMessage(w) \/ SendMessage(w) \/ FinishMessage(w)

OrganizerMailNext ==
    \/ Tick
    \/ \E w \in Senders : ClaimMessage(w) \/ WorkOnMessage(w) \/ Killed(w)
    \/ \E a \in Mails : ObserveMessage(a)

OrganizerMailSpec == MailInit /\ [][OrganizerMailNext]_mailVars

=============================================================================
