-------------------------------- MODULE Mail --------------------------------
(***************************************************************************)
(* The state and the moves that the three e-mail outboxes (tickets,        *)
(* organizers' messages, waitlist) have in common, and the e-mail provider. *)
(* A sender is one invocation of a worker function.  Times are ages and     *)
(* remaining times that Tick moves on, so that no clock is needed.          *)
(***************************************************************************)
EXTENDS Naturals, FiniteSets

CONSTANTS
    Mails,       \* attempt ids; also the idempotency keys
    Senders,     \* concurrent worker invocations
    Lease,       \* length of a lease, in ticks (2 minutes)
    Margin,      \* what must be left of it to ask the provider (20 seconds)
    Backoff,     \* how long a mail waits before it is tried again
    Window,      \* how long after the first dispatch it may be repeated (23 h)
    KeyLife,     \* how long the provider remembers an idempotency key (24 h)
    MaxDispatch, \* how often a dispatch is authorized
    Nobody       \* no sender

ASSUME MailAssumption ==
    /\ Lease \in Nat /\ Margin \in Nat \ {0} /\ Backoff \in Nat
    /\ Window \in Nat \ {0} /\ KeyLife \in Nat /\ Window <= KeyLife
    /\ MaxDispatch \in Nat \ {0}
    /\ Nobody \notin Senders

VARIABLES
    row,   \* the outbox rows
    job,   \* what each sender is doing
    box    \* the provider: copies accepted, age of the first, contents asked

mailVars == <<row, job, box>>

States   == {"queued", "sending", "unknown", "accepted", "failed", "suppressed"}
Open     == {"queued", "sending", "unknown"}
Outcomes == {"accepted", "failed", "unknown"}

\* holder and left: lease_id and what remains until lease_until; age: since
\* first_possible_dispatch_at, which is set with the first count; wait: until
\* next_attempt_at; content: the sender that rendered the saved payload.
NewRow == [state |-> "queued", holder |-> Nobody, left |-> 0, count |-> 0, age |-> 0,
           wait |-> 0, stopped |-> FALSE, content |-> Nobody, provider |-> 0]
NewBox == [copies |-> 0, age |-> 0, contents |-> {}]
Idle   == [pc |-> "idle"]

MailInit ==
    /\ row = [a \in Mails |-> NewRow]
    /\ job = [w \in Senders |-> Idle]
    /\ box = [a \in Mails |-> NewBox]

-----------------------------------------------------------------------------
(* Rows *)

Less(n)     == IF n = 0 THEN 0 ELSE n - 1
More(n, to) == IF n < to THEN n + 1 ELSE n

Put(a, r)   == row' = [row EXCEPT ![a] = r]
Goto(w, pc) == job' = [job EXCEPT ![w].pc = pc]
Done(w)     == job' = [job EXCEPT ![w] = Idle]

\* The sender's lease is the row's and has not run out.
Live(w)      == row[job[w].mail].holder = w /\ row[job[w].mail].left > 0
Settled(r)   == r.stopped \/ r.state \notin Open
\* The retry budget, or the time in which a retry is safe, is used up.
Exhausted(r) == r.count > 0 /\ (r.count >= MaxDispatch \/ r.age >= Window)
Waiting(r)   == r.state \in Open /\ ~r.stopped /\ r.wait = 0 /\ r.left = 0
Claimable(r) == Waiting(r) /\ ~Exhausted(r)

Uncertain(state) == IF state = "sending" THEN "unknown" ELSE state
Released(r) == [r EXCEPT !.left = 0]
\* Dispatch ends for good; what was never dispatched was never received.
Stopped(r) == [Released(r) EXCEPT !.stopped = TRUE,
                 !.state = IF r.count = 0 THEN "suppressed" ELSE Uncertain(@)]
Leased(r, w) == [r EXCEPT !.holder = w, !.left = Lease, !.state = Uncertain(@)]
\* The dispatch is recorded before the provider is asked.
Sending(r) == [r EXCEPT !.state = "sending", !.count = @ + 1]
\* How a dispatch ended, for a sender whose lease is live.
Ended(r, outcome, id) ==
    [Released(r) EXCEPT !.state = outcome, !.wait = Backoff,
        !.provider = IF outcome = "accepted" THEN id ELSE @,
        !.stopped = @ \/ (outcome = "unknown" /\ Exhausted(r))]

Job(w, a) == [pc |-> "prepare", mail |-> a, left |-> Lease, content |-> Nobody,
              count |-> 0, outcome |-> "unknown", id |-> 0]

-----------------------------------------------------------------------------
(* The provider *)

Remembered(b) == b.copies > 0 /\ b.age < KeyLife
Asked(b, c)   == [b EXCEPT !.contents = @ \cup {c}]
\* A key it remembers is answered with the mail it stands for.
Kept(b)       == IF Remembered(b) THEN b ELSE [b EXCEPT !.copies = @ + 1, !.age = 0]

\* Mutant: a response without a usable id counts as a refusal.
SendBodyless(a, c, outcome, id) ==
    \/ /\ box' = [box EXCEPT ![a] = Asked(Kept(@), c)]
       /\ \/ outcome = "accepted" /\ id = box'[a].copies
          \/ outcome \in {"unknown", "failed"} /\ id = 0
    \/ /\ box' = [box EXCEPT ![a] = Asked(@, c)]
       /\ outcome \in {"failed", "unknown"} /\ id = 0

\* sendProviderEmail: one request without retries.  Only a refusal in so many
\* words (400, 401, 403, 404, 422) is a failure; a conflict, throttling, a
\* server error, a timeout or an unusable answer proves nothing.
SendProviderEmail(a, c, outcome, id) ==
    \/ /\ box' = [box EXCEPT ![a] = Asked(Kept(@), c)]
       /\ \/ outcome = "accepted" /\ id = box'[a].copies
          \/ outcome = "unknown" /\ id = 0
    \/ /\ box' = [box EXCEPT ![a] = Asked(@, c)]
       /\ outcome \in {"failed", "unknown"} /\ id = 0

\* verifyProviderObservation accepts what the provider signed about a mail it
\* holds; the attempt is named by the mail's tag.  Deliveries repeat.
Observation(a, id) == id \in 1 .. box[a].copies

\* An observation of a dispatched row is evidence of acceptance, whatever its
\* kind; another mail's id is refused.
Observed(a, id) ==
    /\ Observation(a, id) /\ row[a].count > 0 /\ row[a].provider \in {0, id}
    /\ Put(a, [row[a] EXCEPT !.state = "accepted", !.provider = id])
    /\ UNCHANGED <<job, box>>

-----------------------------------------------------------------------------
(* Time, and invocations that end at any moment *)

Tick ==
    /\ row' = [a \in Mails |-> [row[a] EXCEPT !.left = Less(@), !.wait = Less(@),
                  !.age = IF row[a].count = 0 THEN 0 ELSE More(@, Window)]]
    /\ box' = [a \in Mails |-> [box[a] EXCEPT
                  !.age = IF box[a].copies = 0 THEN 0 ELSE More(@, KeyLife)]]
    /\ job' = [w \in Senders |->
                  IF job[w] = Idle THEN Idle ELSE [job[w] EXCEPT !.left = Less(@)]]

\* The runtime kills the invocation, or a call to the database throws: the
\* handler answers 503 and the lease is left to run out.
Killed(w) ==
    /\ job[w] # Idle
    /\ Done(w)
    /\ UNCHANGED <<row, box>>

-----------------------------------------------------------------------------
(* What the three outboxes must keep, and the promise they implement *)

Rows == [state : States, holder : Senders \cup {Nobody}, left : 0 .. Lease,
         count : 0 .. MaxDispatch, age : 0 .. Window, wait : 0 .. Backoff,
         stopped : BOOLEAN, content : Senders \cup {Nobody}, provider : Nat]
Jobs == [pc : {"prepare", "save", "begin", "send", "finish", "stop", "defer"}, mail : Mails,
         left : 0 .. Lease, content : Senders \cup {Nobody}, count : 0 .. MaxDispatch,
         outcome : Outcomes, id : Nat]
Boxes == [copies : Nat, age : 0 .. KeyLife, contents : SUBSET (Senders \cup {Nobody})]

\* Every row in its columns' domains, every sender in a known stage.
MailTypeOK ==
    /\ row \in [Mails -> Rows]
    /\ job \in [Senders -> {Idle} \cup Jobs]
    /\ box \in [Mails -> Boxes]

\* Whoever is about to ask the provider, and believes in the lease, still has
\* it, for the dispatch recorded last: no two senders ask for a mail at once,
\* and the answer is recorded for the request it belongs to.
SendIsCurrent ==
    \A w \in Senders : job[w] # Idle /\ job[w].pc \in {"send", "finish"} /\ job[w].left > 0 =>
        LET r == row[job[w].mail] IN
        /\ r.count = job[w].count
        /\ r.state = "accepted" \/ (r.holder = w /\ r.left = job[w].left /\ r.state = "sending")

\* All requests for a mail carry the same bytes: who renders it again after a
\* lost lease must not be able to replace what was sent, or a link the buyer
\* received would not open (payload and token_hash are set once, together).
OneContent == \A a \in Mails : Cardinality(box[a].contents) <= 1

\* The invariant behind the outboxes: senders that share rows stay consistent
\* with them, and with what the provider was told, across killed invocations
\* and leases that run out.
MailInvariant == MailTypeOK /\ SendIsCurrent /\ OneContent

\* The outbox implements its promise: a bounded number of dispatches, at most
\* one copy at the provider, "failed" only of a mail nobody received,
\* "accepted" only of one that was, and no dispatch after the end.
PhaseOf(r) ==
    IF r.state \in {"accepted", "failed"} THEN r.state
    ELSE IF Settled(r) THEN "given up"
    ELSE IF r.count = 0 THEN "waiting" ELSE "uncertain"

phase == [a \in Mails |-> PhaseOf(row[a])]

Abstract == INSTANCE MailPromise WITH
    tries <- [a \in Mails |-> row[a].count],
    copies <- [a \in Mails |-> box[a].copies]

KeepsPromise == Abstract!Promise

\* A dispatch whose outcome is not known does not stay so: lost leases are
\* found, the window closes, and the row says how it ended.
DispatchSettles == \A a \in Mails : row[a].count > 0 ~> Settled(row[a])

=============================================================================
