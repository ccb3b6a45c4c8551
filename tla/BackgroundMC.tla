---------------------------- MODULE BackgroundMC ----------------------------
(* The workers that run behind the pages: the three outboxes, which share     *)
(* their tables' shape and never rows, and the cover generator.  One run, in  *)
(* which every behaviour stays with one of them.                              *)
EXTENDS TicketEmail, OrganizerMail, WaitlistMail, EventCover

CONSTANTS a1, w1, w2

VARIABLE focus   \* the part a behaviour stays with

backgroundVars == <<focus, mailVars, coverVars>>

BackgroundInit ==
    /\ focus \in {"tickets", "messages", "waitlist", "covers"}
    /\ MailInit /\ CoverInit

BackgroundNext ==
    /\ UNCHANGED focus
    /\ \/ focus = "tickets" /\ TicketEmailNext /\ UNCHANGED coverVars
       \/ focus = "messages" /\ OrganizerMailNext /\ UNCHANGED coverVars
       \/ focus = "waitlist" /\ WaitlistMailNext /\ UNCHANGED coverVars
       \/ focus = "covers" /\ EventCoverNext /\ UNCHANGED mailVars

\* A sender's next claim, the scheduler's sweep being part of it.
Claims(w) ==
    /\ UNCHANGED <<focus, coverVars>>
    /\ \/ focus = "tickets" /\ Claim(w)
       \/ focus = "messages" /\ ClaimMessage(w)
       \/ focus = "waitlist" /\ ClaimDelivery(w)

\* What a sender does next with the mail it claimed.
Works(w) ==
    /\ UNCHANGED <<focus, coverVars>>
    /\ \/ Killed(w)
       \/ focus = "tickets" /\ Work(w)
       \/ focus = "messages" /\ WorkOnMessage(w)
       \/ focus = "waitlist" /\ WorkOnDelivery(w)

Passes == UNCHANGED <<focus, coverVars>> /\ focus # "covers" /\ Tick

\* An open page asks every two seconds, and time passes for lease and generation.
Polls(g) == focus = "covers" /\ PollGeneration(g) /\ UNCHANGED <<focus, mailVars>>
Lapses(g, s) == focus = "covers" /\ LeaseEnds(g, s) /\ UNCHANGED <<focus, mailVars>>
Grows(g) == focus = "covers" /\ Ages(g) /\ UNCHANGED <<focus, mailVars>>

BackgroundSpec ==
    /\ BackgroundInit /\ [][BackgroundNext]_backgroundVars
    /\ WF_backgroundVars(Passes)
    /\ \A w \in Senders : SF_backgroundVars(Claims(w)) /\ WF_backgroundVars(Works(w))
    /\ \A g \in Gens : WF_backgroundVars(Polls(g)) /\ WF_backgroundVars(Grows(g))
    /\ \A g \in Gens, s \in Slots : WF_backgroundVars(Lapses(g, s))

=============================================================================
