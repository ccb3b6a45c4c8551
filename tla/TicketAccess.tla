---------------------------- MODULE TicketAccess ----------------------------
(***************************************************************************)
(* A guest's tickets, behind the bearer of an order or registration and behind *)
(* the link of an e-mail.  What the database finds coherent is checked again by *)
(* the function and once more by the page, each by its own rules; the page      *)
(* shows one admission code at a time.                                          *)
(***************************************************************************)
EXTENDS Common

CONSTANTS
    Counts,        \* [Sources -> number of tickets]
    LinkLife,     \* when the grant of the e-mail expires
    SessionLife,  \* how long the page itself keeps a link
    MaxNow,       \* bound on time
    MaxTurns,   \* bound on what happens to orders, registrations and events
    MaxReads      \* bound on requests of the page

Sources == {"paid_order", "free_registration"}

ASSUME AccessAssumption ==
    LET rows(T) == [source : Sources, event : {"published", "cancelled"}, facts : {None, 1, 2},
                    status : {"paid", "refunded", "confirmed", "cancelled"},
                    tickets : UNION {[1..Counts[s] -> T] : s \in Sources}]
        states  == {"valid", "used", "cancelled", "refunded"} IN
    /\ Counts \in [Sources -> 1..10]
    /\ {LinkLife, SessionLife, MaxNow, MaxTurns, MaxReads} \subseteq Nat
    /\ None \notin Nat \cup Sources \cup [answer : {None}]
                  \cup [selector : (Sources \X Nat) \cup {None}, url : BOOLEAN]
    /\ None \notin rows(states) \cup rows([status : states, code : Nat \cup {None}])

VARIABLES
    ledger,   \* the database: orders, registrations, events, tickets, the grant
    now,
    tab       \* the guest's page

accessVars == <<ledger, now, tab>>

-----------------------------------------------------------------------------
(* The database.  `facts` is the number of the snapshot of the event that was  *)
(* approved last, None while there is none.                                     *)

Tickets(s) == ledger.tickets[s]

NoTab ==
    [at |-> "away", source |-> None, route |-> None, visible |-> None, pending |-> None, shown |-> None,
     call |-> None, session |-> None, index |-> None, indexCall |-> None, expired |-> FALSE, failed |-> None, reads |-> 0]

AccessInit ==
    /\ ledger = [order |-> "paid", event |-> [s \in Sources |-> "published"], facts |-> [s \in Sources |-> 1],
                 tickets |-> [s \in Sources |-> [u \in 1..Counts[s] |-> "valid"]], changes |-> 0]
    /\ now = 0
    /\ tab = NoTab

Happens(l) ==
    /\ ledger.changes < MaxTurns
    /\ ledger' = [l EXCEPT !.changes = @ + 1]
    /\ UNCHANGED <<now, tab>>

\* A ticket is used at the door, if all of its order still may be.
AdmitTicket(s, u) ==
    /\ Tickets(s)[u] = "valid" /\ ledger.event[s] = "published"
    /\ s = "paid_order" => ledger.order = "paid" /\ \A v \in DOMAIN Tickets(s) : Tickets(s)[v] \in {"valid", "used"}
    /\ Happens([ledger EXCEPT !.tickets[s][u] = "used"])

Unused(s, from, to) == [u \in DOMAIN Tickets(s) |-> IF Tickets(s)[u] \in from THEN to ELSE Tickets(s)[u]]

\* cancel_owned_event, and the trigger for registrations
CancelsEvent(s) ==
    /\ ledger.event[s] = "published"
    /\ Happens([ledger EXCEPT !.event[s] = "cancelled", !.tickets[s] = Unused(s, {"valid"}, "cancelled")])

\* A refund is verified: of the whole order, or of less.
RefundsOrder ==
    /\ ledger.order \in {"paid", "requires_review"}
    /\ Happens([ledger EXCEPT !.order = "refunded",
                              !.tickets["paid_order"] = Unused("paid_order", {"valid", "cancelled"}, "refunded")])

ReviewsOrder ==
    /\ ledger.order = "paid"
    /\ Happens([ledger EXCEPT !.order = "requires_review",
                              !.tickets["paid_order"] = Unused("paid_order", {"valid"}, "cancelled")])

\* A change of the event is approved, or its last public snapshot is withdrawn.
ApproveFacts(s) ==
    /\ ledger.facts[s] = 1
    /\ \E f \in {None, 2} : Happens([ledger EXCEPT !.facts[s] = f])

\* server_lookup_paid_ticket_collection: nothing unless every ticket fits the order and the event
PaidLookup ==
    LET fits(t) == \/ t = "used"
                   \/ ledger.order = "refunded" /\ t = "refunded"
                   \/ ledger.order = "paid" /\ ledger.event["paid_order"] = "cancelled" /\ t = "cancelled"
                   \/ ledger.order = "paid" /\ ledger.event["paid_order"] = "published" /\ t = "valid" IN
    IF ledger.order \in {"paid", "refunded"} /\ \A u \in DOMAIN Tickets("paid_order") : fits(Tickets("paid_order")[u])
    THEN [source |-> "paid_order", status |-> ledger.order, event |-> ledger.event["paid_order"],
          facts |-> ledger.facts["paid_order"], tickets |-> Tickets("paid_order")]
    ELSE None

\* server_lookup_free_ticket_collection; registrations are cancelled with their event
FreeLookup ==
    LET status == IF ledger.event["free_registration"] = "cancelled" THEN "cancelled" ELSE "confirmed"
        fits(t) == t = "used" \/ t = (IF status = "cancelled" THEN "cancelled" ELSE "valid") IN
    IF \A u \in DOMAIN Tickets("free_registration") : fits(Tickets("free_registration")[u])
    THEN [source |-> "free_registration", status |-> status, event |-> ledger.event["free_registration"],
          facts |-> ledger.facts["free_registration"], tickets |-> Tickets("free_registration")]
    ELSE None

Lookup(s) == IF s = "paid_order" THEN PaidLookup ELSE FreeLookup

-----------------------------------------------------------------------------
(* The function: every ticket is checked before one is given out.  A code is   *)
(* derived for each; the ticket's own is given for a valid one only.            *)

Display(p) ==
    [source |-> p.source, event |-> p.event, facts |-> p.facts, status |-> p.status,
     tickets |-> [u \in DOMAIN p.tickets |-> [status |-> p.tickets[u],
                                             code |-> IF p.tickets[u] = "valid" THEN u ELSE None]]]

\* Mutant: an event that is cancelled is thought of for registrations alone.
PaidCollectionUncancelled(p) ==
    LET unused == IF p.status = "refunded" THEN "refunded" ELSE "valid" IN
    IF /\ p.status \in {"paid", "refunded"} /\ p.event \in {"published", "cancelled"}
       /\ \A u \in DOMAIN p.tickets : p.tickets[u] \in {"used", unused}
    THEN Display(p) ELSE None

PaidCollection(p) ==
    LET unused == IF p.status = "refunded" THEN "refunded"
                  ELSE IF p.event = "cancelled" THEN "cancelled" ELSE "valid" IN
    IF /\ p.status \in {"paid", "refunded"} /\ p.event \in {"published", "cancelled"}
       /\ \A u \in DOMAIN p.tickets : p.tickets[u] \in {"used", unused}
    THEN Display(p) ELSE None

FreeCollection(p) ==
    IF /\ p.status \in {"confirmed", "cancelled"} /\ p.event \in {"published", "cancelled"}
       /\ p.status = "cancelled" <=> p.event = "cancelled"
       /\ \A u \in DOMAIN p.tickets : p.tickets[u] \in {"used", IF p.status = "cancelled" THEN "cancelled" ELSE "valid"}
    THEN Display(p) ELSE None

Collection(s) ==
    IF Lookup(s) = None THEN None
    ELSE IF s = "paid_order" THEN PaidCollection(Lookup(s)) ELSE FreeCollection(Lookup(s))

\* server_read_ticket_email_access: by then a grant may be revoked, and is over some time
Granted == now < LinkLife

Answer(kind, value) == [kind |-> kind, value |-> value]
Unavailable == Answer("unavailable", None)

\* ticket-email-access: the collections of the link, or one of them; it may be busy or out of order
Refusals == {Answer("rate_limited", None), Answer("temporary", None)}
IndexAnswers == Refusals \cup {Unavailable} \cup (IF Granted THEN {Answer("ready", ledger.facts)} ELSE {})
MemberAnswers(s) ==
    Refusals \cup {Unavailable}
             \cup (IF Granted /\ Collection(s) # None THEN {Answer("ready", Collection(s))} ELSE {})

\* ticket-collection tells one failure from another to nobody.
BearerAnswers(s) == {Unavailable} \cup (IF Collection(s) = None THEN {} ELSE {Answer("ready", Collection(s))})

-----------------------------------------------------------------------------
(* The page *)

\* What the reader makes of a collection: the page has its own schema for it.
Readable(c, s) ==
    /\ c.source = s
    /\ \A u \in DOMAIN c.tickets :
          /\ c.tickets[u].status = "valid" <=> c.tickets[u].code # None
          /\ c.event = "cancelled" => c.tickets[u].status # "valid"
          /\ s = "free_registration" =>
                c.tickets[u].status \in {"used", IF c.status = "cancelled" THEN "cancelled" ELSE "valid"}
    /\ \A u, v \in DOMAIN c.tickets : u # v /\ c.tickets[u].code # None => c.tickets[u].code # c.tickets[v].code

AskingTickets == [answer |-> None]
Sooner(a, b) == IF a < b THEN a ELSE b

Shows == tab.at # "away" /\ tab.shown # None /\ tab.shown.kind = "ready"
HeldTickets  == tab.shown.value

\* The tickets of the page by their selectors; one that is alone needs no choice.
Selectors == IF Shows THEN {<<HeldTickets.source, u>> : u \in DOMAIN HeldTickets.tickets} ELSE {}
OnlyOne   == IF Cardinality(Selectors) = 1 THEN CHOOSE x \in Selectors : TRUE ELSE None
Wanted    == IF tab.route # None THEN tab.route ELSE OnlyOne

\* readTicketAccess: a session that is over is forgotten
LinkOpen == tab.session # None /\ now < tab.session
BadLink  == tab.at = "access" /\ (tab.session = None \/ tab.expired)

\* The ticket on the screen, and the code on it.
Focused ==
    IF ~Shows \/ BadLink \/ tab.pending # None \/ tab.visible = None THEN None
    ELSE IF tab.visible \in Selectors THEN tab.visible ELSE OnlyOne

Qr ==
    IF Focused = None \/ HeldTickets.facts = None THEN None
    ELSE IF HeldTickets.tickets[Focused[2]].status = "valid" THEN Focused ELSE None

Asked(t) == [t EXCEPT !.call = IF t.reads < MaxReads THEN AskingTickets ELSE None, !.reads = Sooner(@ + 1, MaxReads),
                      !.shown = None]

\* The page opens, or the address bar goes to another ticket, collection or page of it.
OpenTickets(s, r) ==
    /\ tab' = IF tab.at = "tickets" /\ tab.source = s THEN [tab EXCEPT !.route = r]
              ELSE IF tab.at = "tickets" THEN Asked([tab EXCEPT !.source = s, !.route = r])
              ELSE Asked([NoTab EXCEPT !.at = "tickets", !.source = s, !.route = r, !.visible = r, !.reads = tab.reads])
    /\ tab' # tab /\ UNCHANGED <<ledger, now>>

\* captureTicketAccess, and the page of the link
OpenAccess ==
    /\ tab.at # "access" /\ tab.reads < MaxReads
    /\ tab' = [NoTab EXCEPT !.at = "access", !.session = now + SessionLife, !.indexCall = AskingTickets, !.reads = tab.reads + 1]
    /\ UNCHANGED <<ledger, now>>

\* A link of the list; the page of a collection is a new one.
OpenMember(s, r) ==
    /\ tab.at = "access" /\ tab.index # None /\ ~BadLink /\ tab.index.kind = "ready"
    /\ tab' = IF tab.source = s THEN [tab EXCEPT !.route = r]
              ELSE Asked([tab EXCEPT !.source = s, !.route = r, !.visible = r, !.pending = None])
    /\ tab' # tab /\ UNCHANGED <<ledger, now>>

BackToList ==
    /\ tab.at = "access" /\ tab.source # None
    /\ tab' = [tab EXCEPT !.source = None, !.route = None, !.visible = None, !.pending = None, !.shown = None, !.call = None]
    /\ UNCHANGED <<ledger, now>>

RefreshList ==
    /\ tab.at = "access" /\ ~BadLink /\ tab.reads < MaxReads
    /\ tab.source = None \/ tab.index \in Refusals
    /\ tab.index # None
    /\ tab' = [tab EXCEPT !.indexCall = AskingTickets, !.index = None, !.shown = None, !.call = None, !.reads = @ + 1]
    /\ UNCHANGED <<ledger, now>>

\* "Try this link again": the page of the collection mounts anew
RetryMember ==
    /\ tab.failed \in Refusals
    /\ tab.source # None /\ ~BadLink
    /\ tab' = Asked([tab EXCEPT !.failed = None, !.visible = tab.route, !.pending = None])
    /\ UNCHANGED <<ledger, now>>

\* The server answers what was asked; the answer travels.
Serve ==
    \/ /\ tab.call = AskingTickets
       /\ \E a \in IF tab.at = "access" THEN MemberAnswers(tab.source) ELSE BearerAnswers(tab.source) :
             tab' = [tab EXCEPT !.call = [answer |-> a]]
       /\ UNCHANGED <<ledger, now>>
    \/ /\ tab.indexCall = AskingTickets
       /\ \E a \in IndexAnswers : tab' = [tab EXCEPT !.indexCall = [answer |-> a]]
       /\ UNCHANGED <<ledger, now>>

Shortened == IF tab.session = None THEN None ELSE Sooner(tab.session, LinkLife)

ReceiveIndex ==
    /\ tab.indexCall \notin {None, AskingTickets}
    /\ LET a == tab.indexCall.answer
           read == [tab EXCEPT !.index = a, !.indexCall = None] IN
       tab' = IF a.kind # "ready" THEN read
              ELSE LET kept == [read EXCEPT !.session = Shortened] IN
                   IF tab.source = None THEN kept ELSE Asked([kept EXCEPT !.visible = tab.route, !.pending = None])
    /\ UNCHANGED <<ledger, now>>

\* A collection by its bearer ...
ReceiveTickets ==
    /\ tab.at = "tickets" /\ tab.call \notin {None, AskingTickets}
    /\ LET a == tab.call.answer IN
       tab' = [tab EXCEPT !.call = None,
                          !.shown = IF a.kind = "ready" => Readable(a.value, tab.source) THEN a ELSE Unavailable]
    /\ UNCHANGED <<ledger, now>>

\* ... and by the link, which must be what the list said it is
ReceiveMember ==
    /\ tab.at = "access" /\ tab.call \notin {None, AskingTickets}
    /\ LET a == tab.call.answer
           read == [tab EXCEPT !.call = None, !.shown = Unavailable] IN
       tab' = IF a.kind # "ready" THEN [read EXCEPT !.failed = a]
              ELSE IF ~Readable(a.value, tab.source) THEN [read EXCEPT !.failed = Unavailable]
              ELSE IF ~LinkOpen \/ a.value.facts # tab.index.value[tab.source] THEN read
              ELSE [read EXCEPT !.shown = a, !.session = Shortened]
    /\ UNCHANGED <<ledger, now>>

\* requestSelection: nothing is on the screen before the other ticket is
SelectTicket(u) ==
    /\ Focused # None \/ (Shows /\ tab.pending = None /\ tab.visible = None)
    /\ u \in Selectors /\ u # Focused
    /\ tab' = [tab EXCEPT !.pending = [selector |-> u, url |-> TRUE], !.visible = None]
    /\ UNCHANGED <<ledger, now>>

\* The first effect: the address and the screen differ
BlankCommit ==
    /\ tab.at # "away" /\ tab.pending = None /\ Wanted # tab.visible
    /\ tab' = [tab EXCEPT !.pending = [selector |-> Wanted, url |-> FALSE], !.visible = None]
    /\ UNCHANGED <<ledger, now>>

\* The second: the address follows the choice, then the ticket is mounted
MountSelected ==
    /\ tab.at # "away" /\ tab.pending # None /\ tab.visible = None
    /\ tab' = IF tab.pending.url /\ Wanted # tab.pending.selector
              THEN [tab EXCEPT !.route = tab.pending.selector]
              ELSE [tab EXCEPT !.visible = tab.pending.selector, !.pending = None]
    /\ UNCHANGED <<ledger, now>>

\* Its timer
LinkDue == tab.at = "access" /\ tab.session # None /\ ~LinkOpen /\ ~tab.expired

LinkExpires ==
    /\ LinkDue
    /\ tab' = [tab EXCEPT !.expired = TRUE, !.call = None, !.indexCall = None]
    /\ UNCHANGED <<ledger, now>>

LeaveTickets == tab.at # "away" /\ tab' = [NoTab EXCEPT !.reads = tab.reads] /\ UNCHANGED <<ledger, now>>

\* Timers are on time.
AccessTick ==
    /\ now < MaxNow /\ ~LinkDue
    /\ now' = now + 1 /\ UNCHANGED <<ledger, tab>>

Routes(s) == {None} \cup {<<s, u>> : u \in 1..Counts[s]}

TicketAccessNext ==
    \/ \E s \in Sources : \/ CancelsEvent(s) \/ ApproveFacts(s)
                          \/ \E u \in 1..Counts[s] : AdmitTicket(s, u) \/ SelectTicket(<<s, u>>)
                          \/ \E r \in Routes(s) : OpenTickets(s, r) \/ OpenMember(s, r)
    \/ RefundsOrder \/ ReviewsOrder
    \/ OpenAccess \/ BackToList \/ RefreshList \/ RetryMember \/ Serve
    \/ ReceiveIndex \/ ReceiveTickets \/ ReceiveMember
    \/ BlankCommit \/ MountSelected \/ LinkExpires \/ LeaveTickets \/ AccessTick

TicketAccessSpec == AccessInit /\ [][TicketAccessNext]_accessVars

-----------------------------------------------------------------------------
(* Properties *)

\* Whatever happens to an order or a registration, its holder can see it: the
\* database, the function and the page each decide by their own rules whether a
\* collection is coherent, and agree, in every order of admission, cancellation
\* of the event, refund and review.  Only an order under review is not shown.
CollectionIsReadable ==
    \A s \in Sources : ~(s = "paid_order" /\ ledger.order = "requires_review") =>
        /\ Collection(s) # None
        /\ Readable(Collection(s), s)
        /\ \A u \in DOMAIN Tickets(s) : Collection(s).tickets[u].status = Tickets(s)[u]

\* The code on the screen is that of a ticket of the collection the address asks
\* for, and a link's are only shown while the link is good for the page.
QrIsAsked ==
    Qr # None =>
        /\ Qr[1] = tab.source /\ HeldTickets.tickets[Qr[2]].code = Qr[2]
        /\ tab.at = "access" => tab.session # None /\ tab.session <= LinkLife

\* One code is never replaced by another at once: the screen is without a code
\* between two, however the address, the choice and the answers interleave.
BlankBetween == Qr # None /\ Qr' # None => Qr' = Qr

TicketAccessPromise ==
    /\ [](CollectionIsReadable /\ QrIsAsked)
    /\ [][BlankBetween]_accessVars

=============================================================================
