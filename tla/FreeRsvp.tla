------------------------------- MODULE FreeRsvp -------------------------------
(***************************************************************************)
(* Free registration for one event: the tabs of one browser, which share    *)
(* the saved attempt and a Web Lock, the two functions they call, and the   *)
(* registrations other people make meanwhile.  A tab may be closed at any   *)
(* moment: its lock is freed, its request may still arrive.                 *)
(***************************************************************************)
EXTENDS Common

CONSTANTS
    Tabs,        \* tabs of one browser at the event's RSVP page
    Quantities,  \* submissions, told apart by the places they ask for
    Capacity,    \* the event's capacity
    MaxRsvps     \* how many request ids the browser draws

RsvpIds == 1 .. MaxRsvps

\* RsvpAttempt: what the local storage keeps
RsvpAttempts == [id : RsvpIds, details : Quantities, state : {"unresolved", "confirmed", "rejected"}]

ASSUME RsvpAssumption == MaxRsvps \in Nat /\ None \notin RsvpAttempts

VARIABLES
    saved,     \* the attempt in the local storage
    minted,    \* how many request ids were minted
    view,      \* per tab: attempt shown, newIntent, the "#attempt" marker, blocked
    work,      \* per tab: the operation that runs, or None
    asked,     \* create requests that have not arrived
    receipts,  \* free_registration_requests, by id
    taken      \* places other people hold

rsvpVars == <<saved, minted, view, work, asked, receipts, taken>>

NoView == [shown |-> None, intent |-> FALSE, marker |-> 0, blocked |-> FALSE]

RsvpInit ==
    /\ saved = None /\ minted = 0
    /\ view = [t \in Tabs |-> NoView] /\ work = [t \in Tabs |-> None]
    /\ asked = {} /\ receipts = [i \in RsvpIds |-> "none"] /\ taken = 0

-----------------------------------------------------------------------------
(* The saved attempt *)

\* navigator.locks: one operation of the event at a time.
RsvpUnlocked == \A t \in Tabs : work[t] # None => work[t].stage = "lock"
HasLock(t) == work[t] # None /\ work[t].stage = "lock" /\ RsvpUnlocked

StartWork(t, kind, d) ==
    work' = [work EXCEPT ![t] = [kind |-> kind, stage |-> "lock", details |-> d, id |-> 0]]
FinishWork(t)    == work' = [work EXCEPT ![t] = None]
ToStage(t, s, i) == work' = [work EXCEPT ![t].stage = s, ![t].id = i]

NewAttempt(i, d) == [id |-> i, details |-> d, state |-> "unresolved"]

\* Mutant: a rejected or uncertain attempt is replaced alike.
PreparedOver(d, intent) ==
    IF saved # None /\ saved.state = "confirmed" THEN {saved} ELSE {NewAttempt(minted + 1, d)}

\* prepareAttempt: the attempt to go on with; empty if it throws.  Only what was
\* rejected is replaced, or what was confirmed if the buyer says so.
Prepared(d, intent) ==
    IF saved = None \/ saved.state = "rejected" \/ (saved.state = "confirmed" /\ intent)
    THEN {NewAttempt(minted + 1, d)}
    ELSE IF saved.details # d \/ intent THEN {} ELSE {saved}

\* recordResult and acceptResult: the answer must be the saved attempt's, whose
\* end is final.
RecordResult(t, i, kind) ==
    IF saved = None \/ saved.id # i THEN UNCHANGED <<saved, view>>
    ELSE /\ saved' = IF saved.state = "unresolved" /\ kind \in {"confirmed", "rejected"}
                     THEN [saved EXCEPT !.state = kind] ELSE saved
         /\ view' = [view EXCEPT ![t].shown = saved']

-----------------------------------------------------------------------------
(* The page *)

\* A page is loaded, or its tab is opened again: an attempt is resolved at once
\* unless the address names another one.
OpenRsvp(t) ==
    LET lost == view[t].marker # 0 /\ (saved = None \/ saved.id # view[t].marker) IN
    /\ view' = [view EXCEPT ![t] = [NoView EXCEPT !.marker = view[t].marker, !.blocked = lost,
                                    !.shown = IF lost THEN None ELSE saved]]
    /\ IF ~lost /\ saved # None /\ saved.state = "unresolved"
       THEN StartWork(t, "resolve", saved.details) ELSE FinishWork(t)
    /\ UNCHANGED <<saved, minted, asked, receipts, taken>>

\* The storage event tells the tab what another one saved.
RsvpNoticed(t) ==
    /\ saved # None /\ view[t].shown # saved
    /\ view' = [view EXCEPT ![t].shown = saved]
    /\ UNCHANGED <<saved, minted, work, asked, receipts, taken>>

RsvpForm(t) == ~view[t].blocked /\ (view[t].shown # None => view[t].shown.state = "rejected")

StartAnother(t) ==
    /\ ~view[t].blocked /\ view[t].shown # None /\ view[t].shown.state = "confirmed"
    /\ view' = [view EXCEPT ![t] = [NoView EXCEPT !.intent = TRUE]]
    /\ UNCHANGED <<saved, minted, work, asked, receipts, taken>>

SubmitRsvp(t, d) ==
    /\ RsvpForm(t) /\ work[t] = None
    /\ StartWork(t, "submit", d)
    /\ UNCHANGED <<saved, minted, view, asked, receipts, taken>>

CheckRsvp(t) ==
    /\ ~view[t].blocked /\ view[t].shown # None /\ view[t].shown.state = "unresolved"
    /\ work[t] = None
    /\ StartWork(t, "replay", view[t].shown.details)
    /\ UNCHANGED <<saved, minted, view, asked, receipts, taken>>

\* With the lock: a submission is saved before it is sent, and an attempt that
\* was there already is looked up first.
RunSubmit(t) ==
    LET intent == view[t].intent
        lost == view[t].marker # 0 /\ (saved = None \/ saved.id # view[t].marker) IN
    /\ HasLock(t) /\ work[t].kind = "submit"
    /\ \/ /\ lost
          /\ view' = [view EXCEPT ![t].blocked = TRUE, ![t].shown = saved]
          /\ FinishWork(t) /\ UNCHANGED <<saved, minted, asked>>
       \/ /\ ~lost \* it throws, or the storage refuses
          /\ view' = [view EXCEPT ![t].shown = saved]
          /\ FinishWork(t) /\ UNCHANGED <<saved, minted, asked>>
       \/ /\ ~lost
          /\ \E attempt \in Prepared(work[t].details, intent) :
                /\ attempt.id <= MaxRsvps
                /\ saved' = attempt
                /\ minted' = IF attempt.id > minted THEN attempt.id ELSE minted
                /\ view' = [view EXCEPT ![t] = [NoView EXCEPT !.shown = attempt,
                                                              !.marker = attempt.id]]
                /\ CASE attempt.state = "confirmed" -> FinishWork(t) /\ UNCHANGED asked
                     [] attempt.state # "confirmed" /\ saved = attempt -> ToStage(t, "looking", attempt.id) /\ UNCHANGED asked
                     [] OTHER -> /\ ToStage(t, "asking", attempt.id)
                                 /\ asked' = asked \cup {attempt}
    /\ UNCHANGED <<receipts, taken>>

\* With the lock: the attempt shown must still be the saved one.
RunResolve(t) ==
    /\ HasLock(t) /\ work[t].kind \in {"resolve", "replay"}
    /\ IF saved # None /\ view[t].shown # None /\ saved.id = view[t].shown.id
       THEN ToStage(t, "looking", saved.id) ELSE FinishWork(t)
    /\ UNCHANGED <<saved, minted, view, asked, receipts, taken>>

\* free-rsvp-status: the receipt, that there is none, or no answer.
RsvpLooked(t) ==
    LET i == work[t].id IN
    /\ work[t] # None /\ work[t].stage = "looking"
    /\ \/ /\ receipts[i] = "none" /\ work[t].kind \in {"submit", "replay"} /\ saved # None
          /\ ToStage(t, "asking", i)
          /\ asked' = asked \cup {saved}
          /\ UNCHANGED <<saved, view>>
       \/ /\ receipts[i] = "none" => work[t].kind = "resolve"
          /\ RecordResult(t, i, receipts[i])
          /\ FinishWork(t) /\ UNCHANGED asked
       \/ FinishWork(t) /\ UNCHANGED <<saved, view, asked>>
    /\ UNCHANGED <<minted, receipts, taken>>

\* free-rsvp: its answer, or none within fifteen seconds, or that it cannot tell.
RsvpAnswered(t) ==
    LET i == work[t].id IN
    /\ work[t] # None /\ work[t].stage = "asking"
    /\ \/ receipts[i] # "none" /\ RecordResult(t, i, receipts[i])
       \/ UNCHANGED <<saved, view>>
    /\ FinishWork(t)
    /\ UNCHANGED <<minted, asked, receipts, taken>>

CloseTab(t) ==
    /\ view' = [view EXCEPT ![t] = [NoView EXCEPT !.marker = view[t].marker]]
    /\ FinishWork(t)
    /\ UNCHANGED <<saved, minted, asked, receipts, taken>>

-----------------------------------------------------------------------------
(* The server *)

\* A request is lost, or refused by the rate limit before it is looked at.
RsvpLost(r) == asked' = asked \ {r} /\ UNCHANGED <<saved, minted, view, work, receipts, taken>>

\* server_confirm_free_registration under the event's lock: a request id is
\* answered once and for all.
RsvpArrives(r) ==
    /\ asked' = asked \ {r}
    /\ \/ receipts[r.id] = "none"
            /\ \/ /\ taken + r.details <= Capacity
                  /\ receipts' = [receipts EXCEPT ![r.id] = "confirmed"]
                  /\ taken' = taken + r.details
               \/ receipts' = [receipts EXCEPT ![r.id] = "rejected"] /\ UNCHANGED taken
       \/ receipts[r.id] # "none" /\ UNCHANGED <<receipts, taken>>
    /\ UNCHANGED <<saved, minted, view, work>>

SomebodyRegisters ==
    /\ taken + 1 <= Capacity /\ taken' = taken + 1
    /\ UNCHANGED <<saved, minted, view, work, asked, receipts>>

FreeRsvpNext ==
    \/ \E t \in Tabs :
          \/ OpenRsvp(t) \/ RsvpNoticed(t) \/ StartAnother(t) \/ CheckRsvp(t)
          \/ RunSubmit(t) \/ RunResolve(t) \/ RsvpLooked(t) \/ RsvpAnswered(t) \/ CloseTab(t)
          \/ \E d \in Quantities : SubmitRsvp(t, d)
    \/ \E r \in asked : RsvpArrives(r) \/ RsvpLost(r)
    \/ SomebodyRegisters

FreeRsvpSpec == RsvpInit /\ [][FreeRsvpNext]_rsvpVars

-----------------------------------------------------------------------------
(* Properties *)

\* A request that may still register somebody is the saved, unresolved attempt,
\* whatever tabs were closed or raced: so no tab begins a second registration
\* beside it, and the buyer can still learn how it ended.
OpenRequestIsSaved ==
    \A r \in asked : receipts[r.id] = "none" =>
        saved # None /\ saved.id = r.id /\ saved.state = "unresolved"

\* What the browser keeps as the end of an attempt is what the server decided,
\* once and for all: "not found" and silence are no rejection.
SavedEndIsTrue ==
    saved # None /\ saved.state # "unresolved" => receipts[saved.id] = saved.state

\* The guest's browser keeps the request that may have been served, and says of a
\* saved one only what became of it.
RsvpInvariant == OpenRequestIsSaved /\ SavedEndIsTrue

=============================================================================
