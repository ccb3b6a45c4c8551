---------------------------- MODULE DoorAdmission ----------------------------
(***************************************************************************)
(* The door of one event: devices that scan tickets, a desk that admits    *)
(* guests by name, and the requests they send.  A request whose page is    *)
(* gone, or that was aborted or timed out, may still arrive and be served;  *)
(* nobody waits for its answer then.  A ticket is a pass here.             *)
(***************************************************************************)
EXTENDS Common

CONSTANTS
    Passes,     \* tickets of the event
    Scanners,   \* devices at the scanner page
    MaxCalls    \* how many requests are sent

\* What the door is told of a ticket
Verdicts == {"admitted", "already_used", "refunded", "cancelled", "invalid", "retry", "closed",
             "network_error"}

ASSUME DoorAssumption == None \notin Verdicts \cup Passes

VARIABLES
    passes,     \* status of each ticket
    doorsOpen,  \* the event is published and has not ended
    scanner,    \* per device: reduceScanner's state, and the request it awaits
    desk,       \* the manual admission dialog, or None
    doubts,     \* pendingByClient: tickets whose admission was not confirmed
    calls,      \* requests and answers under way
    rounds,     \* how many requests were sent
    welcomed,   \* history: how often each ticket was shown as admitted
    unsettled   \* history: admissions the desk asked for and knows nothing of

doorVars == <<passes, doorsOpen, scanner, desk, doubts, calls, rounds, welcomed, unsettled>>
pages == <<scanner, desk, doubts, welcomed, unsettled>>

Starting == [kind |-> "starting", pass |-> None, round |-> 0, verdict |-> None]

DoorInit ==
    /\ passes = [p \in Passes |-> "valid"] /\ doorsOpen = TRUE
    /\ scanner = [s \in Scanners |-> Starting]
    /\ desk = None /\ doubts = {}
    /\ calls = {} /\ rounds = 0
    /\ welcomed = [p \in Passes |-> 0] /\ unsettled = {}

-----------------------------------------------------------------------------
(* Requests *)

Ask(what, p) ==
    /\ rounds < MaxCalls
    /\ rounds' = rounds + 1
    /\ calls' = calls \cup {[round |-> rounds + 1, ask |-> what, pass |-> p, answer |-> None]}

\* server_redeem_organizer_ticket, over a paid or a free ticket.
RedeemVerdict(p) ==
    CASE passes[p] = "used" -> "already_used"
      [] passes[p] \in {"refunded", "cancelled"} -> passes[p]
      [] OTHER -> IF doorsOpen THEN "admitted" ELSE "invalid"

\* What the order or registration says of the ticket.
ReadVerdict(p) ==
    CASE passes[p] = "used" -> "already_used"
      [] passes[p] = "valid" -> IF doorsOpen THEN "retry" ELSE "closed"
      [] OTHER -> passes[p]

Served(c) ==
    LET v == IF c.ask = "read" THEN ReadVerdict(c.pass) ELSE RedeemVerdict(c.pass) IN
    /\ c \in calls /\ c.answer = None
    /\ passes' = IF v = "admitted" THEN [passes EXCEPT ![c.pass] = "used"] ELSE passes
    /\ calls' = (calls \ {c}) \cup {[c EXCEPT !.answer = v]}
    /\ UNCHANGED <<doorsOpen, rounds, pages>>

\* A request or an answer is lost, or the answer is not one the page accepts.
Dropped(c) ==
    /\ c \in calls /\ c.answer # "network_error"
    /\ calls' = (calls \ {c}) \cup {[c EXCEPT !.answer = "network_error"]}
    /\ UNCHANGED <<passes, doorsOpen, rounds, pages>>

ShowsVerdict(p, verdict) ==
    welcomed' = IF verdict = "admitted" THEN [welcomed EXCEPT ![p] = @ + 1] ELSE welcomed

-----------------------------------------------------------------------------
(* The scanner *)

\* The camera starts, or does not; only a running one decodes.
CameraStarts(s) ==
    /\ scanner[s].kind = "starting"
    /\ \E k \in {"ready", "no camera"} : scanner' = [scanner EXCEPT ![s].kind = k]
    /\ UNCHANGED <<passes, doorsOpen, desk, doubts, calls, rounds, welcomed, unsettled>>

\* The first code decoded stops the camera and is checked.
Scan(s, p) ==
    /\ scanner[s].kind = "ready"
    /\ Ask("redeem", p)
    /\ scanner' = [scanner EXCEPT ![s] =
          [kind |-> "checking", pass |-> p, round |-> rounds', verdict |-> None]]
    /\ UNCHANGED <<passes, doorsOpen, desk, doubts, welcomed, unsettled>>

\* "Retry check-in" asks again for the ticket whose check failed.
RetryScan(s) ==
    /\ scanner[s].kind = "result" /\ scanner[s].verdict = "network_error"
    /\ Ask("redeem", scanner[s].pass)
    /\ scanner' = [scanner EXCEPT ![s].kind = "checking", ![s].round = rounds',
                                  ![s].verdict = None]
    /\ UNCHANGED <<passes, doorsOpen, desk, doubts, welcomed, unsettled>>

\* "Scan next", "return to scanning", "try the camera again"; or the page is
\* left, or gives way because admission closed, in the middle of a check.
ScanNext(s) ==
    /\ scanner[s].kind # "starting"
    /\ scanner' = [scanner EXCEPT ![s] = Starting]
    /\ UNCHANGED <<passes, doorsOpen, desk, doubts, calls, rounds, welcomed, unsettled>>

\* Mutant: an answer is taken for whatever check runs.
CheckedLate(s, c) ==
    /\ c \in calls /\ c.answer # None
    /\ scanner[s].kind = "checking"
    /\ calls' = calls \ {c}
    /\ scanner' = [scanner EXCEPT ![s].kind = "result", ![s].verdict = c.answer]
    /\ ShowsVerdict(c.pass, c.answer)
    /\ UNCHANGED <<passes, doorsOpen, desk, doubts, rounds, unsettled>>

\* The answer to the check that runs.
Checked(s, c) ==
    /\ c \in calls /\ c.answer # None
    /\ scanner[s].kind = "checking" /\ scanner[s].round = c.round
    /\ calls' = calls \ {c}
    /\ scanner' = [scanner EXCEPT ![s].kind = "result", ![s].verdict = c.answer]
    /\ ShowsVerdict(c.pass, c.answer)
    /\ UNCHANGED <<passes, doorsOpen, desk, doubts, rounds, unsettled>>

-----------------------------------------------------------------------------
(* The desk *)

\* The dialog opens for a ticket: with doubt where there is some.
OpenDesk(p) ==
    /\ desk = None
    /\ desk' = [pass |-> p, phase |-> IF p \in doubts THEN "uncertain" ELSE "confirm",
                round |-> 0, verdict |-> None]
    /\ UNCHANGED <<passes, doorsOpen, scanner, doubts, calls, rounds, welcomed, unsettled>>

\* It is dismissed, or another page is opened while it waits.
LeaveDesk ==
    /\ desk # None
    /\ desk' = None
    /\ UNCHANGED <<passes, doorsOpen, scanner, doubts, calls, rounds, welcomed, unsettled>>

\* Only a reload of the application forgets the doubts.
ReloadDesk ==
    /\ desk' = None /\ doubts' = {} /\ unsettled' = {}
    /\ UNCHANGED <<passes, doorsOpen, scanner, calls, rounds, welcomed>>

\* "Admit guest", at first or after a status check.
AdmitGuest ==
    /\ desk # None /\ desk.phase \in {"confirm", "retry"}
    /\ Ask("redeem", desk.pass)
    /\ doubts' = doubts \cup {desk.pass} /\ unsettled' = unsettled \cup {desk.pass}
    /\ desk' = [desk EXCEPT !.phase = "submitting", !.round = rounds']
    /\ UNCHANGED <<passes, doorsOpen, scanner, welcomed>>

Recheck ==
    /\ desk # None /\ desk.phase = "uncertain"
    /\ Ask("read", desk.pass)
    /\ doubts' = doubts \cup {desk.pass}
    /\ desk' = [desk EXCEPT !.phase = "rechecking", !.round = rounds']
    /\ UNCHANGED <<passes, doorsOpen, scanner, welcomed, unsettled>>

\* After 15 seconds the request is aborted, which proves nothing.
TimeOut ==
    /\ desk # None /\ desk.phase \in {"submitting", "rechecking"}
    /\ desk' = [desk EXCEPT !.phase = "uncertain", !.round = 0]
    /\ UNCHANGED <<passes, doorsOpen, scanner, doubts, calls, rounds, welcomed, unsettled>>

DeskAnswered(c) ==
    /\ c \in calls /\ c.answer # None
    /\ desk # None /\ desk.phase \in {"submitting", "rechecking"} /\ desk.round = c.round
    /\ calls' = calls \ {c}
    /\ IF c.answer = "network_error"
       THEN desk' = [desk EXCEPT !.phase = "uncertain"] /\ UNCHANGED <<doubts, unsettled>>
       ELSE /\ desk' = IF c.answer = "retry" THEN [desk EXCEPT !.phase = "retry"]
                       ELSE [desk EXCEPT !.phase = "closed", !.verdict = c.answer]
            /\ doubts' = doubts \ {c.pass} /\ unsettled' = unsettled \ {c.pass}
    /\ ShowsVerdict(c.pass, c.answer)
    /\ UNCHANGED <<passes, doorsOpen, scanner, rounds>>

-----------------------------------------------------------------------------
(* What else happens to tickets *)

Withdrawn(p) ==
    /\ passes[p] = "valid"
    /\ \E s \in {"refunded", "cancelled"} : passes' = [passes EXCEPT ![p] = s]
    /\ UNCHANGED <<doorsOpen, calls, rounds, pages>>

DoorsClose ==
    /\ doorsOpen /\ doorsOpen' = FALSE
    /\ UNCHANGED <<passes, calls, rounds, pages>>

DoorAdmissionNext ==
    \/ \E s \in Scanners :
          \/ CameraStarts(s) \/ RetryScan(s) \/ ScanNext(s)
          \/ \E p \in Passes : Scan(s, p)
          \/ \E c \in calls : Checked(s, c)
    \/ LeaveDesk \/ ReloadDesk \/ AdmitGuest \/ Recheck \/ TimeOut
    \/ \E c \in calls : Served(c) \/ Dropped(c) \/ DeskAnswered(c)
    \/ \E p \in Passes : OpenDesk(p) \/ Withdrawn(p)
    \/ DoorsClose

DoorAdmissionSpec == DoorInit /\ [][DoorAdmissionNext]_doorVars

-----------------------------------------------------------------------------
(* Properties *)

\* However many devices scan one ticket, retry, and lose answers, "admitted" is
\* shown at most once for it.
AdmittedOnce == \A p \in Passes : welcomed[p] <= 1

\* What a device shows is true of the ticket it names: an answer that comes late
\* is not shown for the guest who is next.
VerdictIsTrue ==
    \A shown \in {scanner[s] : s \in Scanners} \cup ({desk} \ {None}) :
        /\ shown.verdict \in {"admitted", "already_used"} => passes[shown.pass] = "used"
        /\ shown.verdict \in {"refunded", "cancelled"} => passes[shown.pass] = shown.verdict

\* The desk offers to admit a guest as if nothing had happened only if nothing
\* it asked for is undecided: a dismissed or interrupted request is not repeated
\* before the ticket was looked up.
FirstAskIsFirst == desk # None /\ desk.phase = "confirm" => desk.pass \notin unsettled

\* One admission per ticket, and what a device or the desk shows is what happened.
DoorInvariant == AdmittedOnce /\ VerdictIsTrue /\ FirstAskIsFirst

=============================================================================
