----------------------------- MODULE Moderation -----------------------------
(***************************************************************************)
(* The moderation of one event: the organizer's edits queue evaluations, a     *)
(* scheduled worker has each judged by a provider, visitors report, the         *)
(* organizer asks for a review, and staff decide from a page that may show an   *)
(* older event than the one there is.                                            *)
(***************************************************************************)
EXTENDS Common

CONSTANTS
    Workers,      \* runs of the moderation worker at one time
    Addresses,    \* the addresses visitors are seen at, however spelled
    HostOf(_),    \* the host behind an address
    Threshold,    \* distinct reporters that call for an evaluation (3 in the code)
    Attempts,     \* how often an evaluation is tried (3 in the code)
    MaxRevision, MaxVersion, MaxEvaluations   \* bounds of the exploration

ASSUME ModerationAssumption ==
    /\ IsFiniteSet(Addresses)
    /\ {Threshold, Attempts, MaxRevision, MaxVersion, MaxEvaluations} \subseteq Nat
    /\ None \notin {"clear", "under_review", "blocked", "removed"}

Ids == 1 .. MaxEvaluations

VARIABLES
    moderated,   \* the event: content revision, moderation version, status, ...
    evaluations, \* its evaluations, in the order they were queued
    judging,     \* what each worker is doing
    reporters,   \* the reporters whose reports of this revision are open
    review,      \* the revision the open review request is about, None
    console,        \* the staff page: the case it shows, the decision under way
    accepted     \* history: revisions someone found acceptable; the version of the last staff decision

moderationVars == <<moderated, evaluations, judging, reporters, review, console, accepted>>

NoEvaluation == [status |-> "none", source |-> "none", revision |-> 0, version |-> 0, attempt |-> 0, old |-> FALSE]
Idle      == [stage |-> "idle", id |-> 0, job |-> NoEvaluation, result |-> "none"]
EmptyDesk == [shown |-> None, stage |-> "reading", conflict |-> FALSE]

ModerationInit ==
    /\ moderated \in [revision : {1}, version : {0}, disclosed : BOOLEAN, accepted : {0}, public : {FALSE},
                      status : {"not_evaluated"}, history : {"never_public"}]
                \cup [revision : {1}, version : {0}, disclosed : {TRUE}, accepted : {0}, public : {FALSE},
                      status : {"under_review"}, history : {"unknown"}]
                \cup [revision : {1}, version : {0}, disclosed : {TRUE}, accepted : {1}, public : {TRUE},
                      status : {"clear"}, history : {"previously_public"}]
    /\ evaluations = [i \in Ids |-> NoEvaluation]
    /\ judging = [w \in Workers |-> Idle]
    /\ reporters = {} /\ review = None /\ console = EmptyDesk
    /\ accepted = [revisions |-> {moderated.accepted} \ {0}, version |-> 0]

UnderWay == {"queued", "processing"}

\* Whoever changes the event's standing supersedes the evaluations under way.
Superseded(except) ==
    [i \in Ids |-> IF i # except /\ evaluations[i].status \in UnderWay
                   THEN [evaluations[i] EXCEPT !.status = "superseded"] ELSE evaluations[i]]

NextId == {i \in Ids : evaluations[i].status = "none" /\ \A j \in Ids : j < i => evaluations[j].status # "none"}

\* A clearance may make the event public, for the first time even.
Standing(event, status) ==
    {[event EXCEPT !.status = status, !.version = @ + 1,
        !.accepted = IF status = "clear" THEN event.revision ELSE 0, !.public = p,
        !.history = IF p THEN "previously_public" ELSE @] : p \in IF status = "clear" THEN BOOLEAN ELSE {FALSE}}

-----------------------------------------------------------------------------
(* The organizer *)

EditedStatus(kind, valid) ==
    IF kind = "deterministic_only" /\ moderated.status = "clear" /\ valid THEN "clear"
    ELSE IF moderated.status \in {"not_evaluated", "clear"} THEN "under_review" ELSE moderated.status

ReviewAfterEdit == None

\* invalidate_event_public_revision: a small change of a cleared event is judged
\* on the spot, any other is evaluated once the disclosures are there.
Edit(kind, valid, disclosed) ==
    LET e == moderated
        status == EditedStatus(kind, valid)
        onTheSpot == kind = "deterministic_only" /\ e.status = "clear"
        queued == /\ disclosed /\ ~onTheSpot
                  /\ kind = "full_review" \/ e.status \in {"not_evaluated", "under_review"} IN
    /\ e.revision < MaxRevision /\ e.version < MaxVersion
    /\ e.history # "unknown"                       \* EVENT_PUBLIC_HISTORY_UNKNOWN
    /\ disclosed = e.disclosed \/ disclosed
    /\ valid => disclosed
    /\ moderated' = [e EXCEPT !.revision = @ + 1, !.version = @ + 1, !.status = status, !.public = FALSE,
           !.disclosed = disclosed,
           !.accepted = IF status = "clear" THEN e.revision + 1 ELSE IF status = e.status THEN @ ELSE 0]
    /\ IF queued
       THEN \E i \in NextId : evaluations' = [Superseded(0) EXCEPT ![i] =
                [NoEvaluation EXCEPT !.status = "queued", !.source = "contextual",
                    !.revision = e.revision + 1, !.version = e.version + 1]]
       ELSE evaluations' = Superseded(0)
    /\ reporters' = {}
    /\ review' = ReviewAfterEdit
    /\ accepted' = [accepted EXCEPT !.revisions = IF status = "clear" THEN @ \cup {e.revision + 1} ELSE @]
    /\ UNCHANGED <<judging, console>>

\* request_event_review: at most one is open.
RequestReview ==
    /\ moderated.status \in {"under_review", "blocked", "removed"}
    /\ review' = moderated.revision
    /\ UNCHANGED <<moderated, evaluations, judging, reporters, console, accepted>>

WithdrawReview ==
    /\ review # None /\ review' = None
    /\ UNCHANGED <<moderated, evaluations, judging, reporters, console, accepted>>

-----------------------------------------------------------------------------
(* report-event and server_submit_event_report *)

\* canonicalizeClientAddress: one host, one reporter.
Fingerprint(address) == HostOf(address)

\* The daily limits, per reporter and per network, may refuse any report; they
\* are not counted here.
Report(address) ==
    LET open == reporters \cup {Fingerprint(address)} IN
    /\ moderated.public /\ Fingerprint(address) \notin reporters
    /\ reporters' = open
    /\ IF Cardinality(open) >= Threshold
          /\ ~\E i \in Ids : /\ evaluations[i].source = "report" /\ evaluations[i].version = moderated.version
                             /\ evaluations[i].revision = moderated.revision
       THEN \E i \in NextId : evaluations' = [evaluations EXCEPT ![i] =
                [NoEvaluation EXCEPT !.status = "queued", !.source = "report",
                    !.revision = moderated.revision, !.version = moderated.version]]
       ELSE UNCHANGED evaluations
    /\ UNCHANGED <<moderated, judging, review, console, accepted>>

-----------------------------------------------------------------------------
(* moderate-event-queue *)

LeaseEnds(i) ==
    /\ evaluations[i].status = "processing" /\ ~evaluations[i].old
    /\ evaluations' = [evaluations EXCEPT ![i].old = TRUE]
    /\ UNCHANGED <<moderated, judging, reporters, review, console, accepted>>

\* What was tried often enough and left alone has failed.
GivenUp == [i \in Ids |-> LET v == evaluations[i] IN
    IF v.status = "processing" /\ v.old /\ v.attempt >= Attempts THEN [v EXCEPT !.status = "failed"] ELSE v]

Claimable(i) ==
    /\ evaluations[i].status = "queued" \/ (evaluations[i].status = "processing" /\ evaluations[i].old)
    /\ evaluations[i].attempt < Attempts

\* server_claim_moderation_evaluation: the oldest one.
Claim(w) ==
    /\ judging[w].stage = "idle"
    /\ \/ \E i \in Ids :
             /\ Claimable(i) /\ \A j \in Ids : j < i => ~Claimable(j)
             /\ LET taken == [evaluations[i] EXCEPT !.status = "processing", !.attempt = @ + 1, !.old = FALSE] IN
                /\ evaluations' = [GivenUp EXCEPT ![i] = taken]
                /\ judging' = [judging EXCEPT ![w] =
                      [Idle EXCEPT !.stage = IF moderated.disclosed THEN "judging" ELSE "unreadable", !.id = i, !.job = taken]]
       \/ /\ ~\E i \in Ids : Claimable(i)
          /\ GivenUp # evaluations /\ evaluations' = GivenUp
          /\ UNCHANGED judging
    /\ UNCHANGED <<moderated, reporters, review, console, accepted>>

\* contextualModerationProviderResultSchema: a clearance is of low risk and without
\* reasons, anything else of high risk and with some.
ValidResult(r) == IF r.outcome = "clear" THEN r.risk = "low" /\ ~r.reasons ELSE r.risk = "high" /\ r.reasons

Results == [outcome : {"clear", "hold"}, risk : {"low", "high"}, reasons : BOOLEAN]

\* createContextualModerator: an answer, or a failure: none, late, not understood.
Judge(w) ==
    /\ judging[w].stage = "judging"
    /\ \/ \E r \in Results :
             judging' = [judging EXCEPT ![w].stage = "judged",
                            ![w].result = IF ValidResult(r) THEN r.outcome ELSE "failure"]
       \/ judging' = [judging EXCEPT ![w].stage = "judged", ![w].result = "failure"]
    /\ UNCHANGED <<moderated, evaluations, reporters, review, console, accepted>>

\* The worker dies, or its call is lost; the lease runs on.
WorkerDies(w) ==
    /\ judging[w].stage # "idle"
    /\ judging' = [judging EXCEPT ![w] = Idle]
    /\ UNCHANGED <<moderated, evaluations, reporters, review, console, accepted>>

\* Read again under the event's lock: under way, and about the event as it is.
Applicable(job, i) ==
    /\ evaluations[i].status = "processing"
    /\ moderated.revision = job.revision /\ moderated.version = job.version

Rest(w) == judging' = [judging EXCEPT ![w] = Idle]

\* server_apply_moderation_evaluation
ApplyVerdict(w) ==
    LET i == judging[w].id
        job == judging[w].job
        status == IF judging[w].result = "clear" THEN "clear" ELSE "under_review" IN
    /\ judging[w].stage = "judged" /\ judging[w].result # "failure"
    /\ Rest(w)
    /\ IF Applicable(job, i) /\ moderated.status \notin {"blocked", "removed"} /\ moderated.history # "unknown"
       THEN /\ IF status = "clear" /\ moderated.status = "clear" /\ moderated.accepted = moderated.revision
               THEN evaluations' = [evaluations EXCEPT ![i].status = "succeeded"] /\ UNCHANGED moderated
               ELSE /\ moderated.version < MaxVersion
                    /\ evaluations' = [Superseded(i) EXCEPT ![i].status = "succeeded"]
                    /\ moderated' \in Standing(moderated, status)
            /\ accepted' = [accepted EXCEPT !.revisions = IF status = "clear" THEN @ \cup {job.revision} ELSE @]
       ELSE /\ evaluations' = [evaluations EXCEPT ![i].status = IF @ = "processing" THEN "superseded" ELSE @]
            /\ UNCHANGED <<moderated, accepted>>
    /\ UNCHANGED <<reporters, review, console>>

\* server_fail_moderation_evaluation
Fail(w) ==
    LET i == judging[w].id IN
    /\ judging[w].stage = "judged" /\ judging[w].result = "failure"
    /\ Rest(w)
    /\ evaluations' = [evaluations EXCEPT ![i].status =
          IF @ # "processing" THEN @
          ELSE IF ~Applicable(judging[w].job, i) THEN "superseded"
          ELSE IF evaluations[i].attempt >= Attempts THEN "failed" ELSE "queued"]
    /\ UNCHANGED <<moderated, reporters, review, console, accepted>>

\* server_reject_moderation_evaluation_input: only what has no disclosures is retired.
Reject(w) ==
    LET i == judging[w].id
        job == judging[w].job IN
    /\ judging[w].stage = "unreadable"
    /\ Rest(w)
    /\ evaluations' = [evaluations EXCEPT ![i].status =
          IF @ = "processing" /\ evaluations[i].attempt = job.attempt
             /\ (~Applicable(job, i) \/ ~moderated.disclosed) THEN "superseded" ELSE @]
    /\ UNCHANGED <<moderated, reporters, review, console, accepted>>

-----------------------------------------------------------------------------
(* The staff's case page *)

\* moderate_event: what each decision makes of the event, None if it may not be taken.
NextStatus(action, e) ==
    IF e.history = "unknown" THEN None
    ELSE IF action = "hold" /\ e.status \in {"not_evaluated", "clear", "under_review"} THEN "under_review"
    ELSE IF action = "block" /\ e.status \in {"not_evaluated", "clear", "under_review"} /\ e.history = "never_public" THEN "blocked"
    ELSE IF action = "remove" /\ e.status \in {"clear", "under_review"} /\ e.history = "previously_public" THEN "removed"
    ELSE IF action = "clear" /\ (\/ e.status \in {"not_evaluated", "under_review"}
                                 \/ e.status = "blocked" /\ e.history = "never_public") THEN "clear"
    ELSE IF action = "restore" /\ e.status = "removed" /\ e.history = "previously_public" THEN "clear"
    ELSE None

Decisions == {"hold", "block", "remove", "clear", "restore"}

\* availableActions, the page's own table
AvailableActions(c) ==
    LET down == IF c.history = "never_public" THEN {"block"} ELSE {"remove"} IN
    IF c.history = "unknown" THEN {}
    ELSE IF c.status = "removed" THEN IF c.history = "previously_public" THEN {"restore"} ELSE {}
    ELSE IF c.status = "blocked" THEN IF c.history = "never_public" THEN {"clear"} ELSE {}
    ELSE IF c.status = "under_review" THEN {"clear", "hold"} \cup down
    ELSE IF c.status = "not_evaluated" THEN {"clear", "hold"} \cup (down \ {"remove"})
    ELSE {"hold"} \cup down

\* get_moderation_case; also on its own, when the window gets the focus back.
ReadCase ==
    /\ console.stage = "reading" \/ (console.stage = "shown" /\ ~console.conflict)
    /\ console' = [EmptyDesk EXCEPT !.shown = moderated, !.stage = "shown"]
    /\ UNCHANGED <<moderated, evaluations, judging, reporters, review, accepted>>

Decide(action) ==
    /\ console.stage = "shown" /\ ~console.conflict
    /\ action \in AvailableActions(console.shown) \/ (action = "history" /\ console.shown.history = "unknown")
    /\ console' = [console EXCEPT !.stage = action]
    /\ UNCHANGED <<moderated, evaluations, judging, reporters, review, accepted>>

\* Mutant: the decision is about whatever there is.
ExpectedAny(c) == TRUE

\* The decision is about the very event the page showed.
Expected(c) == c.revision = moderated.revision /\ c.version = moderated.version

\* Recorded, and the review that was asked for is answered; or refused.  The answer
\* may be lost, and then the page says so and stays.
Decided ==
    LET next == NextStatus(console.stage, moderated) IN
    /\ console.stage \in Decisions
    /\ IF Expected(console.shown) /\ next # None
       THEN /\ moderated.version < MaxVersion
            /\ moderated' \in Standing(moderated, next)
            /\ evaluations' = Superseded(0)
            /\ review' = IF review = moderated.revision THEN None ELSE review
            /\ accepted' = [revisions |-> IF next = "clear" THEN accepted.revisions \cup {console.shown.revision}
                                          ELSE accepted.revisions, version |-> moderated.version + 1]
            /\ console' \in {EmptyDesk, [console EXCEPT !.stage = "shown"]}
       ELSE /\ console' = [console EXCEPT !.stage = "shown", !.conflict = ~Expected(console.shown)]
            /\ UNCHANGED <<moderated, evaluations, review, accepted>>
    /\ UNCHANGED <<judging, reporters>>

\* resolve_legacy_public_history, by an admin: the event stays under review.
HistoryResolved ==
    /\ console.stage = "history"
    /\ IF Expected(console.shown) /\ moderated.history = "unknown" /\ moderated.status = "under_review"
       THEN /\ moderated.version < MaxVersion
            /\ \E h \in {"never_public", "previously_public"} :
                  moderated' = [moderated EXCEPT !.history = h, !.version = @ + 1, !.accepted = 0]
            /\ evaluations' = Superseded(0)
            /\ console' \in {EmptyDesk, [console EXCEPT !.stage = "shown"]}
       ELSE /\ console' = [console EXCEPT !.stage = "shown", !.conflict = ~Expected(console.shown)]
            /\ UNCHANGED <<moderated, evaluations>>
    /\ UNCHANGED <<judging, reporters, review, accepted>>

\* "Reload case", after a conflict
ReloadCase ==
    /\ console.stage = "shown" /\ console.conflict
    /\ console' = EmptyDesk
    /\ UNCHANGED <<moderated, evaluations, judging, reporters, review, accepted>>

ModerationNext ==
    \/ \E kind \in {"full_review", "deterministic_only"}, valid, disclosed \in BOOLEAN : Edit(kind, valid, disclosed)
    \/ RequestReview \/ WithdrawReview
    \/ \E a \in Addresses : Report(a)
    \/ \E i \in Ids : LeaseEnds(i)
    \/ \E w \in Workers : Claim(w) \/ Judge(w) \/ WorkerDies(w) \/ ApplyVerdict(w) \/ Fail(w) \/ Reject(w)
    \/ ReadCase \/ Decided \/ HistoryResolved \/ ReloadCase
    \/ \E a \in Decisions \cup {"history"} : Decide(a)

ModerationSpec == ModerationInit /\ [][ModerationNext]_moderationVars

-----------------------------------------------------------------------------
(* Properties *)

\* A cleared event was found acceptable as it is now: not in the words it had when
\* a worker took it, or when a page showed it to the staff.
ClearIsForThisContent ==
    moderated.status = "clear" => moderated.accepted = moderated.revision /\ moderated.revision \in accepted.revisions

\* What a person decided stands: nothing a worker began before it changes it, and
\* only a person lifts a block or a removal, whatever is edited meanwhile.
DecisionsStand ==
    [][LET staff == console.stage \in Decisions /\ console'.stage # console.stage IN
       /\ moderated'.status # moderated.status /\ moderated'.revision = moderated.revision /\ ~staff
             => \E i \in Ids : evaluations'[i].status = "succeeded" /\ evaluations[i].status = "processing"
                               /\ evaluations[i].version >= accepted.version
       /\ moderated.status \in {"blocked", "removed"} /\ moderated'.status # moderated.status => staff]_moderationVars

\* The decisions the page offers are exactly those the database will take.
OffersAreTaken ==
    AvailableActions(moderated) = {a \in Decisions : NextStatus(a, moderated) # None}

\* An evaluation the visitors' reports call for stands on so many hosts, however
\* they write their addresses.
ReportersAreHosts == Cardinality(reporters) <= Cardinality({HostOf(a) : a \in Addresses})

\* An open request for review is about the event as it is: a decision will answer it.
ReviewIsCurrent == review # None => review = moderated.revision

\* What workers, staff, visitors and the organizer's edits leave of an event's
\* standing.
ModerationPromise ==
    /\ [](ClearIsForThisContent /\ OffersAreTaken /\ ReportersAreHosts /\ ReviewIsCurrent)
    /\ DecisionsStand

=============================================================================
