-------------------------- MODULE BackgroundProofs --------------------------
(***************************************************************************)
(* What the jobs behind the pages keep: an outbox sends no mail twice and   *)
(* agrees with its senders; the cover of an event is in the storage, and a  *)
(* picture is billed once for each attempt.                                *)
(***************************************************************************)
EXTENDS TicketEmail, OrganizerMail, WaitlistMail, EventCover, FiniteSetTheorems, SequenceTheorems, TLAPS

\* A row and what the provider holds of its mail.
RowFits(r, b) ==
    /\ r.count = 0 => /\ r.state \in {"queued", "suppressed"} /\ r.age = 0
                      /\ b.copies = 0 /\ b.contents = {}
    /\ r.count > 0 => r.content # Nobody /\ r.state # "suppressed"
    /\ b.copies <= 1
    /\ b.copies = 1 /\ r.age < Window => b.age <= r.age
    /\ b.contents \subseteq {r.content}
    /\ r.state = "accepted" => b.copies = 1
    /\ r.state = "failed" => b.copies = 0
    /\ r.provider \in 0 .. b.copies

\* A sender's job, the row it claimed and the provider.  A lease is believed in
\* only while it is held, and the outcome it will record is what happened.
JobFits(w, j, r, b) ==
    /\ r.holder = w /\ r.left > 0 => j.left = r.left
    /\ j.pc \notin {"stop", "defer"} /\ j.left > 0 => r.holder = w /\ r.left = j.left
    /\ j.pc \in {"send", "finish"} /\ j.left > 0 =>
          /\ r.count = j.count /\ j.count > 0
          /\ ~r.stopped /\ r.state \in {"sending", "accepted"}
    /\ j.pc = "send" /\ j.left > 0 /\ j.count = 1 => b.copies = 0
    /\ j.pc # "finish" => j.outcome = "unknown"
    /\ j.pc = "finish" =>
          /\ j.outcome = "accepted" => b.copies = 1 /\ j.id = 1
          /\ j.outcome = "failed" /\ j.left > 0 => j.count = 1 /\ b.copies = 0

MailKept ==
    /\ MailTypeOK
    /\ \A a \in Mails : RowFits(row[a], box[a])
    /\ \A w \in Senders : job[w] # Idle =>
          JobFits(w, job[w], row[job[w].mail], box[job[w].mail])

-----------------------------------------------------------------------------
(* Moves of one row *)

\* What a move of a row says of its mail, in the words of the promise.
RowMove(r, s, b) ==
    \/ s.count = r.count /\ PhaseOf(s) = PhaseOf(r)
    \/ /\ s.count = r.count + 1 /\ r.count < MaxDispatch
       /\ PhaseOf(r) \in {"waiting", "uncertain"} /\ PhaseOf(s) = "uncertain"
    \/ /\ s.count = r.count /\ b.copies = 1
       /\ PhaseOf(r) \in {"uncertain", "given up"} /\ PhaseOf(s) = "accepted"
    \/ /\ s.count = r.count /\ b.copies = 0
       /\ PhaseOf(r) = "uncertain" /\ PhaseOf(s) = "failed"
    \/ /\ s.count = r.count
       /\ PhaseOf(r) \in {"waiting", "uncertain"} /\ PhaseOf(s) = "given up"

Promised == [Abstract!PromiseNext]_(Abstract!vars)

\* A row may move to another state that fits the provider's record.
Moves(r, s, b) == s \in Rows /\ RowFits(s, b) /\ RowMove(r, s, b)

LEMMA RowMovePromised ==
  ASSUME MailTypeOK, NEW a \in Mails, NEW s \in Rows, row' = [row EXCEPT ![a] = s],
         box' = box, RowMove(row[a], s, box[a])
  PROVE  Promised
<1>1. /\ phase' = [phase EXCEPT ![a] = PhaseOf(s)]
      /\ phase[a] = PhaseOf(row[a])
  BY DEF phase, MailTypeOK
<1>2. /\ [x \in Mails |-> row[x].count]' = [[x \in Mails |-> row[x].count] EXCEPT ![a] = s.count]
      /\ [x \in Mails |-> row[x].count][a] = row[a].count
  BY DEF MailTypeOK
<1>8. row[a].count \in Nat
  BY MailAssumption DEF MailTypeOK, Rows
<1>3. /\ [x \in Mails |-> box[x].copies]' = [x \in Mails |-> box[x].copies]
      /\ [x \in Mails |-> box[x].copies][a] = box[a].copies
  OBVIOUS
<1> DEFINE tries == [x \in Mails |-> row[x].count]
<1> DEFINE copies == [x \in Mails |-> box[x].copies]
<1>4. CASE s.count = row[a].count /\ PhaseOf(s) = PhaseOf(row[a])
  <2>1. phase' = phase /\ tries' = tries
    BY <1>1, <1>2, <1>4 DEF phase
  <2>2. QED
    BY <1>3, <2>1 DEF Promised, Abstract!vars
<1>5. CASE /\ s.count = row[a].count + 1 /\ row[a].count < MaxDispatch
           /\ PhaseOf(row[a]) \in {"waiting", "uncertain"} /\ PhaseOf(s) = "uncertain"
  <2>1. Abstract!Dispatch(a)
    BY <1>1, <1>2, <1>3, <1>5, <1>8 DEF Abstract!Dispatch
  <2>2. QED
    BY <2>1 DEF Promised, Abstract!PromiseNext
<1>6. CASE s.count = row[a].count /\ PhaseOf(s) # PhaseOf(row[a])
  <2>1. tries' = tries
    BY <1>2, <1>6
  <2>2. CASE /\ box[a].copies = 1 /\ PhaseOf(row[a]) \in {"uncertain", "given up"}
             /\ PhaseOf(s) = "accepted"
    <3>1. Abstract!Accept(a)
      BY <1>1, <1>3, <2>1, <2>2 DEF Abstract!Accept
    <3>2. QED
      BY <3>1 DEF Promised, Abstract!PromiseNext
  <2>3. CASE box[a].copies = 0 /\ PhaseOf(row[a]) = "uncertain" /\ PhaseOf(s) = "failed"
    <3>1. Abstract!Reject(a)
      BY <1>1, <1>3, <2>1, <2>3 DEF Abstract!Reject
    <3>2. QED
      BY <3>1 DEF Promised, Abstract!PromiseNext
  <2>4. CASE PhaseOf(row[a]) \in {"waiting", "uncertain"} /\ PhaseOf(s) = "given up"
    <3>1. Abstract!GiveUp(a)
      BY <1>1, <1>3, <2>1, <2>4 DEF Abstract!GiveUp
    <3>2. QED
      BY <3>1 DEF Promised, Abstract!PromiseNext
  <2>5. s.count # row[a].count + 1
    BY <1>6, <1>8
  <2>6. QED
    BY <1>6, <2>2, <2>3, <2>4, <2>5 DEF RowMove
<1>7. QED
  BY <1>4, <1>5, <1>6 DEF RowMove

LEMMA RowUpdates ==
  /\ \A r \in Rows, t \in States : [r EXCEPT !.state = t] \in Rows
  /\ \A r \in Rows, w \in Senders :
        [r EXCEPT !.holder = w] \in Rows /\ [r EXCEPT !.content = w] \in Rows
  /\ \A r \in Rows, n \in 0 .. Lease : [r EXCEPT !.left = n] \in Rows
  /\ \A r \in Rows, n \in 0 .. MaxDispatch : [r EXCEPT !.count = n] \in Rows
  /\ \A r \in Rows, n \in 0 .. Window : [r EXCEPT !.age = n] \in Rows
  /\ \A r \in Rows, n \in 0 .. Backoff : [r EXCEPT !.wait = n] \in Rows
  /\ \A r \in Rows, n \in BOOLEAN : [r EXCEPT !.stopped = n] \in Rows
  /\ \A r \in Rows, n \in Nat : [r EXCEPT !.provider = n] \in Rows
<1>1. \A r \in Rows, t \in States : [r EXCEPT !.state = t] \in Rows
  BY DEF Rows
<1>2. \A r \in Rows, w \in Senders :
        [r EXCEPT !.holder = w] \in Rows /\ [r EXCEPT !.content = w] \in Rows
  BY DEF Rows
<1>3. \A r \in Rows, n \in 0 .. Lease : [r EXCEPT !.left = n] \in Rows
  BY DEF Rows
<1>4. \A r \in Rows, n \in 0 .. MaxDispatch : [r EXCEPT !.count = n] \in Rows
  BY DEF Rows
<1>5. \A r \in Rows, n \in 0 .. Window : [r EXCEPT !.age = n] \in Rows
  BY DEF Rows
<1>6. \A r \in Rows, n \in 0 .. Backoff : [r EXCEPT !.wait = n] \in Rows
  BY DEF Rows
<1>7. \A r \in Rows, n \in BOOLEAN : [r EXCEPT !.stopped = n] \in Rows
  BY DEF Rows
<1>8. \A r \in Rows, n \in Nat : [r EXCEPT !.provider = n] \in Rows
  BY DEF Rows
<1>9. QED
  BY <1>1, <1>2, <1>3, <1>4, <1>5, <1>6, <1>7, <1>8

LEMMA StoppedMoves ==
  ASSUME NEW r \in Rows, NEW b \in Boxes, RowFits(r, b)
  PROVE  Moves(r, Stopped(r), b)
<1> DEFINE s == Stopped(r)
<1>0. s \in Rows
  <2>1. 0 \in 0 .. Lease /\ Uncertain(r.state) \in States /\ "suppressed" \in States
    BY MailAssumption DEF Rows, States, Uncertain
  <2>2. Released(r) \in Rows /\ Released(r).state = r.state
    BY <2>1, RowUpdates DEF Released, Rows
  <2>3. QED
    BY <2>1, <2>2, RowUpdates DEF Stopped
<1>1. /\ s.stopped /\ s.holder = r.holder /\ s.count = r.count /\ s.age = r.age
      /\ s.content = r.content /\ s.provider = r.provider
      /\ s.state = IF r.count = 0 THEN "suppressed" ELSE Uncertain(r.state)
  BY DEF Stopped, Released, Rows
<1> HIDE DEF s
<1>2. RowFits(s, b)
  BY <1>0, <1>1 DEF RowFits, Uncertain, Rows, States, Boxes
<1>3. RowMove(r, s, b)
  BY <1>0, <1>1 DEF RowMove, RowFits, Uncertain, PhaseOf, Settled, Open, Rows, States, Boxes
<1>4. QED
  BY <1>0, <1>2, <1>3 DEF Moves, s

LEMMA ReleasedMoves ==
  ASSUME NEW r \in Rows, NEW b \in Boxes, RowFits(r, b), NEW n \in 0 .. Backoff
  PROVE  Moves(r, Released(r), b) /\ Moves(r, [Released(r) EXCEPT !.wait = n], b)
<1> SUFFICES ASSUME NEW s \in {Released(r), [Released(r) EXCEPT !.wait = n]}
             PROVE  Moves(r, s, b)
  OBVIOUS
<1>0. s \in Rows
  <2>1. 0 \in 0 .. Lease
    BY MailAssumption
  <2>2. Released(r) \in Rows
    BY <2>1, RowUpdates DEF Released
  <2>3. [Released(r) EXCEPT !.wait = n] \in Rows
    BY <2>2, RowUpdates
  <2>4. QED
    BY <2>2, <2>3
<1>1. /\ s.state = r.state /\ s.stopped = r.stopped
      /\ s.holder = r.holder /\ s.count = r.count /\ s.age = r.age
      /\ s.content = r.content /\ s.provider = r.provider
  BY DEF Released, Rows
<1>2. RowFits(s, b)
  BY <1>0, <1>1 DEF RowFits
<1>3. RowMove(r, s, b)
  BY <1>0, <1>1 DEF RowMove, PhaseOf, Settled
<1>4. QED
  BY <1>0, <1>2, <1>3 DEF Moves

LEMMA LeasedMoves ==
  ASSUME NEW r \in Rows, NEW b \in Boxes, RowFits(r, b), NEW w \in Senders
  PROVE  Moves(r, Leased(r, w), b)
<1> DEFINE s == Leased(r, w)
<1>0. s \in Rows
  <2>1. Lease \in 0 .. Lease /\ Uncertain(r.state) \in States
    BY MailAssumption DEF Rows, States, Uncertain
  <2>2. QED
    BY <2>1, RowUpdates DEF Leased
<1>1. /\ s.stopped = r.stopped
      /\ s.holder = w /\ s.count = r.count /\ s.age = r.age
      /\ s.content = r.content /\ s.provider = r.provider
      /\ s.state = Uncertain(r.state)
  BY DEF Leased, Rows
<1> HIDE DEF s
<1>2. RowFits(s, b)
  BY <1>0, <1>1 DEF RowFits, Uncertain, Rows, States, Boxes
<1>3. RowMove(r, s, b)
  BY <1>0, <1>1 DEF RowMove, RowFits, Uncertain, PhaseOf, Settled, Open, Rows, States
<1>4. QED
  BY <1>0, <1>2, <1>3 DEF Moves, s

LEMMA SendingMoves ==
  ASSUME NEW r \in Rows, NEW b \in Boxes, RowFits(r, b), ~Exhausted(r), r.content # Nobody,
         r.state \in {"queued", "unknown"}, ~r.stopped
  PROVE  Moves(r, Sending(r), b)
<1> DEFINE s == Sending(r)
<1>0. s \in Rows /\ r.count < MaxDispatch
  <2>1. /\ r.count < MaxDispatch
        /\ r.count + 1 \in 0 .. MaxDispatch /\ "sending" \in States
    BY MailAssumption DEF Exhausted, Rows, States
  <2>2. QED
    BY <2>1, RowUpdates DEF Sending
<1>1. /\ s.stopped = r.stopped
      /\ s.holder = r.holder /\ s.count = r.count + 1 /\ s.age = r.age
      /\ s.content = r.content /\ s.provider = r.provider /\ s.state = "sending"
  BY DEF Sending, Rows
<1> HIDE DEF s
<1>2. RowFits(s, b)
  BY <1>0, <1>1 DEF RowFits, Rows, States, Boxes
<1>3. RowMove(r, s, b)
  <2>1. PhaseOf(r) \in {"waiting", "uncertain"}
    BY DEF PhaseOf, Settled, Open
  <2>2. s.count # 0
    BY <1>1 DEF Rows
  <2>3. PhaseOf(s) = "uncertain"
    BY <1>1, <2>2 DEF PhaseOf, Settled, Open
  <2>4. QED
    BY <1>0, <1>1, <2>1, <2>3 DEF RowMove
<1>4. QED
  BY <1>0, <1>2, <1>3 DEF Moves, s

LEMMA SavedMoves ==
  ASSUME NEW r \in Rows, NEW b \in Boxes, RowFits(r, b), NEW w \in Senders,
         r.content = Nobody
  PROVE  Moves(r, [r EXCEPT !.content = w], b)
  BY MailAssumption
  DEF Moves, RowMove, RowFits, PhaseOf, Settled, Open, Rows, States, Boxes

LEMMA EndedMoves ==
  ASSUME NEW r \in Rows, NEW b \in Boxes, RowFits(r, b), NEW outcome \in Outcomes, NEW id \in Nat,
         r.state = "sending", ~r.stopped, r.count > 0,
         outcome = "accepted" => b.copies = 1 /\ id = 1,
         outcome = "failed" => b.copies = 0
  PROVE  Moves(r, Ended(r, outcome, id), b)
<1> DEFINE s == Ended(r, outcome, id)
<1> DEFINE q == [[[Released(r) EXCEPT !.state = outcome] EXCEPT !.wait = Backoff]
                   EXCEPT !.provider = IF outcome = "accepted" THEN id ELSE r.provider]
<1> DEFINE ends == r.stopped \/ (outcome = "unknown" /\ Exhausted(r))
<1>0. s = [q EXCEPT !.stopped = ends] /\ Released(r) \in Rows
  <2>1. /\ 0 \in 0 .. Lease
        /\ Released(r).stopped = r.stopped /\ Released(r).provider = r.provider
    BY MailAssumption DEF Released, Rows
  <2>2. QED
    BY <2>1, RowUpdates DEF Ended, Released
<1>1. q \in Rows /\ ends \in BOOLEAN
  <2>1. /\ Backoff \in 0 .. Backoff /\ outcome \in States /\ r.provider \in Nat
        /\ r.stopped \in BOOLEAN
    BY MailAssumption DEF Rows, States, Outcomes
  <2>2. QED
    BY <1>0, <2>1, RowUpdates
<1>2. s \in Rows
  <2> HIDE DEF q, ends, s
  <2>1. QED
    BY <1>0, <1>1, RowUpdates
<1>5. /\ q.state = outcome /\ q.holder = r.holder /\ q.count = r.count /\ q.age = r.age
      /\ q.content = r.content
      /\ q.provider = IF outcome = "accepted" THEN id ELSE r.provider
  BY DEF Released, Rows
<1> HIDE DEF q
<1>6. /\ s.state = outcome /\ s.holder = r.holder /\ s.count = r.count /\ s.age = r.age
      /\ s.content = r.content
      /\ s.provider = IF outcome = "accepted" THEN id ELSE r.provider
      /\ s.stopped = ends
  BY <1>0, <1>1, <1>5 DEF Rows
<1> HIDE DEF s
<1>3. RowFits(s, b)
  BY <1>2, <1>6 DEF RowFits, Rows, States, Boxes, Outcomes
<1>4. RowMove(r, s, b)
  <2>1. PhaseOf(r) = "uncertain"
    BY DEF PhaseOf, Settled, Open
  <2>2. CASE outcome = "unknown"
    <3>1. PhaseOf(s) \in {"uncertain", "given up"}
      BY <1>6, <2>2 DEF PhaseOf, Settled, Open
    <3>2. QED
      BY <1>6, <2>1, <3>1 DEF RowMove
  <2>3. CASE outcome \in {"accepted", "failed"}
    <3>1. PhaseOf(s) = outcome
      BY <1>6, <2>3 DEF PhaseOf
    <3>2. QED
      BY <1>6, <2>1, <2>3, <3>1 DEF RowMove
  <2>4. QED
    BY <2>2, <2>3 DEF Outcomes
<1>7. QED
  BY <1>2, <1>3, <1>4 DEF Moves, s

\* Exhausted rows of the waitlist are stopped as unknown, whatever they said.
LEMMA UnknownStoppedMoves ==
  ASSUME NEW r \in Rows, NEW b \in Boxes, RowFits(r, b), Exhausted(r), ~Settled(r)
  PROVE  Moves(r, Stopped([r EXCEPT !.state = "unknown"]), b)
<1> DEFINE s == Stopped([r EXCEPT !.state = "unknown"])
<1> DEFINE q == [r EXCEPT !.state = "unknown"]
<1>5. /\ q \in Rows /\ q.state = "unknown" /\ q.count = r.count /\ q.holder = r.holder
      /\ q.age = r.age /\ q.content = r.content /\ q.provider = r.provider
  <2>1. "unknown" \in States
    BY DEF States
  <2>2. q \in Rows
    BY <2>1, RowUpdates
  <2>3. QED
    BY <2>2 DEF Rows
<1> HIDE DEF q
<1>0. s \in Rows
  <2>1. 0 \in 0 .. Lease /\ "unknown" \in States /\ "suppressed" \in States
    BY MailAssumption DEF States
  <2>2. Released(q) \in Rows /\ Released(q).state = "unknown"
    BY <1>5, <2>1, RowUpdates DEF Released, Rows
  <2>3. QED
    BY <1>5, <2>1, <2>2, RowUpdates DEF Stopped, Uncertain, q
<1>1. /\ s.stopped /\ s.state = "unknown" /\ r.count > 0
      /\ s.holder = r.holder /\ s.count = r.count /\ s.age = r.age
      /\ s.content = r.content /\ s.provider = r.provider
  BY <1>5 DEF Stopped, Released, Uncertain, Exhausted, Rows, q
<1> HIDE DEF s
<1>2. RowFits(s, b)
  BY <1>0, <1>1 DEF RowFits, Settled, Open, Rows, States, Boxes
<1>3. RowMove(r, s, b)
  BY <1>0, <1>1 DEF RowMove, PhaseOf, Settled, Open, Rows, States
<1>4. QED
  BY <1>0, <1>2, <1>3 DEF Moves, s

-----------------------------------------------------------------------------
(* Moves of one sender *)

Stages == {"prepare", "save", "begin", "send", "finish", "stop", "defer"}

LEMMA JobUpdates ==
  /\ \A j \in Jobs, pc \in Stages : [j EXCEPT !.pc = pc] \in Jobs
  /\ \A j \in Jobs, n \in 0 .. Lease : [j EXCEPT !.left = n] \in Jobs
  /\ \A j \in Jobs, c \in Senders \cup {Nobody} : [j EXCEPT !.content = c] \in Jobs
  /\ \A j \in Jobs, n \in 0 .. MaxDispatch : [j EXCEPT !.count = n] \in Jobs
  /\ \A j \in Jobs, o \in Outcomes : [j EXCEPT !.outcome = o] \in Jobs
  /\ \A j \in Jobs, n \in Nat : [j EXCEPT !.id = n] \in Jobs
<1>1. \A j \in Jobs, pc \in Stages : [j EXCEPT !.pc = pc] \in Jobs
  BY DEF Jobs, Stages
<1>2. \A j \in Jobs, n \in 0 .. Lease : [j EXCEPT !.left = n] \in Jobs
  BY DEF Jobs
<1>3. \A j \in Jobs, c \in Senders \cup {Nobody} : [j EXCEPT !.content = c] \in Jobs
  BY DEF Jobs
<1>4. \A j \in Jobs, n \in 0 .. MaxDispatch : [j EXCEPT !.count = n] \in Jobs
  BY DEF Jobs
<1>5. \A j \in Jobs, o \in Outcomes : [j EXCEPT !.outcome = o] \in Jobs
  BY DEF Jobs
<1>6. \A j \in Jobs, n \in Nat : [j EXCEPT !.id = n] \in Jobs
  BY DEF Jobs
<1>7. QED
  BY <1>1, <1>2, <1>3, <1>4, <1>5, <1>6

LEMMA NotIdle ==
  ASSUME MailKept, NEW w \in Senders, job[w].pc \in Stages
  PROVE  /\ job[w] # Idle /\ job[w] \in Jobs /\ job[w].mail \in Mails
         /\ row[job[w].mail] \in Rows /\ box[job[w].mail] \in Boxes
         /\ RowFits(row[job[w].mail], box[job[w].mail])
         /\ JobFits(w, job[w], row[job[w].mail], box[job[w].mail])
<1>1. job[w] # Idle
  BY DEF Idle, Stages
<1>2. job[w] \in Jobs
  BY <1>1 DEF MailKept, MailTypeOK
<1>3. job[w].mail \in Mails
  BY <1>2 DEF Jobs
<1>4. QED
  BY <1>1, <1>2, <1>3 DEF MailKept, MailTypeOK

\* A row that one sender does not hold may be moved by another: what the one
\* knows of it is no longer believed.
LEMMA OthersFit ==
  ASSUME NEW v \in Senders, NEW j \in Jobs, NEW r \in Rows, NEW s \in Rows, NEW b, NEW c,
         JobFits(v, j, r, b), b.copies = 1 => c.copies = 1,
         r.holder # v \/ r.left = 0, s.holder # v \/ s.left = 0
  PROVE  JobFits(v, j, s, c)
<1>1. j.left \in Nat /\ r.left \in Nat /\ s.left \in Nat
  BY MailAssumption DEF Jobs, Rows
<1>2. j.left > 0 => j.pc \in {"stop", "defer"}
  BY <1>1 DEF JobFits
<1>3. QED
  BY <1>1, <1>2 DEF JobFits

\* What a step must do to keep the invariant: move rows only of mails the other
\* senders do not hold, and leave its sender with a job that fits.
LEMMA KeptByMove ==
  ASSUME MailKept, NEW w \in Senders, NEW j \in {Idle} \cup Jobs,
         row' \in [Mails -> Rows], box' \in [Mails -> Boxes], job' = [job EXCEPT ![w] = j],
         \A a \in Mails : RowFits(row[a], box[a])' /\ (box[a].copies = 1 => box'[a].copies = 1),
         \A v \in Senders \ {w}, a \in Mails :
             \/ row'[a] = row[a] /\ box'[a] = box[a]
             \/ /\ row[a].holder # v \/ row[a].left = 0
                /\ row'[a].holder # v \/ row'[a].left = 0,
         j # Idle => JobFits(w, j, row'[j.mail], box'[j.mail])
  PROVE  MailKept'
<1>1. MailTypeOK'
  BY DEF MailKept, MailTypeOK
<1>2. ASSUME NEW v \in Senders, job'[v] # Idle
      PROVE  JobFits(v, job'[v], row'[job'[v].mail], box'[job'[v].mail])
  <2>1. CASE v = w
    BY <1>2, <2>1 DEF MailKept, MailTypeOK
  <2>2. CASE v # w
    <3>1. job'[v] = job[v] /\ job[v] \in Jobs
      BY <1>2, <2>2 DEF MailKept, MailTypeOK
    <3> DEFINE a == job[v].mail
    <3>2. a \in Mails /\ JobFits(v, job[v], row[a], box[a])
      BY <1>2, <3>1 DEF MailKept, Jobs
    <3>3. /\ row[a] \in Rows /\ row'[a] \in Rows
          /\ box[a].copies = 1 => box'[a].copies = 1
      BY <3>2 DEF MailKept, MailTypeOK
    <3> HIDE DEF a
    <3>4. CASE row'[a] = row[a] /\ box'[a] = box[a]
      BY <3>1, <3>2, <3>4 DEF a
    <3>5. CASE /\ row[a].holder # v \/ row[a].left = 0
               /\ row'[a].holder # v \/ row'[a].left = 0
      <4>1. JobFits(v, job[v], row'[a], box'[a])
        BY <3>1, <3>2, <3>3, <3>5, OthersFit
      <4>2. QED
        BY <3>1, <4>1 DEF a
    <3>6. QED
      BY <2>2, <3>2, <3>4, <3>5
  <2>3. QED
    BY <2>1, <2>2
<1>3. QED
  BY <1>1, <1>2 DEF MailKept

\* The job alone changes.
LEMMA JobMoves ==
  ASSUME MailKept, NEW w \in Senders, NEW j \in {Idle} \cup Jobs,
         UNCHANGED <<row, box>>, job' = [job EXCEPT ![w] = j],
         j # Idle => JobFits(w, j, row[j.mail], box[j.mail])
  PROVE  MailKept' /\ Promised
<1>1. MailKept'
  BY KeptByMove DEF MailKept, MailTypeOK
<1>2. UNCHANGED Abstract!vars
  BY DEF Abstract!vars, phase
<1>3. QED
  BY <1>1, <1>2 DEF Promised

\* The holder of a lease moves the row it leased.
LEMMA OwnerMoves ==
  ASSUME MailKept, NEW w \in Senders, job[w].pc \in Stages, Live(w),
         NEW s, Moves(row[job[w].mail], s, box[job[w].mail]), s.holder = w,
         NEW j \in {Idle} \cup Jobs,
         Put(job[w].mail, s), UNCHANGED box, job' = [job EXCEPT ![w] = j],
         j # Idle => j.mail = job[w].mail /\ JobFits(w, j, s, box[job[w].mail])
  PROVE  MailKept' /\ Promised
<1> DEFINE a == job[w].mail
<1>1. a \in Mails /\ s \in Rows /\ row[a].holder = w
  BY NotIdle DEF Moves, Live
<1>2. /\ row' = [row EXCEPT ![a] = s] /\ row' \in [Mails -> Rows] /\ row'[a] = s
      /\ box' \in [Mails -> Boxes]
  BY <1>1 DEF Put, MailKept, MailTypeOK
<1> HIDE DEF a
<1>3. \A x \in Mails : RowFits(row[x], box[x])'
                        /\ (box[x].copies = 1 => box'[x].copies = 1)
  BY <1>1, <1>2 DEF MailKept, MailTypeOK, Moves, a
<1>4. ASSUME NEW v \in Senders \ {w}, NEW x \in Mails
      PROVE  \/ row'[x] = row[x] /\ box'[x] = box[x]
             \/ /\ row[x].holder # v \/ row[x].left = 0
                /\ row'[x].holder # v \/ row'[x].left = 0
  BY <1>1, <1>2 DEF MailKept, MailTypeOK
<1>5. j # Idle => JobFits(w, j, row'[j.mail], box'[j.mail])
  BY <1>2 DEF a
<1>6. MailKept'
  BY <1>2, <1>3, <1>4, <1>5, KeptByMove
<1>7. Promised
  BY <1>1, <1>2, RowMovePromised DEF MailKept, Moves, a
<1>8. QED
  BY <1>6, <1>7

LEMMA KilledKeeps ==
  ASSUME MailKept, NEW w \in Senders, Killed(w)
  PROVE  MailKept' /\ Promised
  BY JobMoves DEF Killed, Done

\* A sender goes on to its next call; nothing else changes.
LEMMA TurnMoves ==
  ASSUME MailKept, NEW w \in Senders, job[w].pc \in {"prepare", "save", "begin", "send"},
         NEW pc, \/ pc \in {"stop", "defer", "finish"}
                 \/ pc \in {"save", "begin"} /\ job[w].pc \in {"prepare", "save"},
         pc = "finish" => job[w].pc = "send",
         Goto(w, pc), UNCHANGED <<row, box>>
  PROVE  MailKept' /\ Promised
<1> DEFINE k == [job[w] EXCEPT !.pc = pc]
<1>1. /\ job[w] \in Jobs /\ job[w].mail \in Mails /\ pc \in Stages
      /\ JobFits(w, job[w], row[job[w].mail], box[job[w].mail])
  BY NotIdle DEF Stages
<1>2. k \in Jobs
  BY <1>1, JobUpdates
<1>3. /\ k.pc = pc /\ k.mail = job[w].mail /\ k.left = job[w].left
      /\ k.count = job[w].count /\ k.outcome = job[w].outcome
  BY <1>1 DEF Jobs
<1>4. job' = [job EXCEPT ![w] = k]
  BY DEF Goto
<1> HIDE DEF k
<1>5. JobFits(w, k, row[k.mail], box[k.mail])
  BY <1>1, <1>3 DEF JobFits
<1>6. QED
  BY <1>2, <1>4, <1>5, JobMoves

\* The saved bytes are taken.
LEMMA TakenMoves ==
  ASSUME MailKept, NEW w \in Senders, job[w].pc = "prepare", UNCHANGED <<row, box>>,
         job' = [job EXCEPT ![w].pc = "begin", ![w].content = row[job[w].mail].content]
  PROVE  MailKept' /\ Promised
<1> DEFINE c == row[job[w].mail].content
<1> DEFINE j == [job[w] EXCEPT !.pc = "begin"]
<1> DEFINE k == [j EXCEPT !.content = c]
<1>1. /\ job[w] \in Jobs /\ job[w].mail \in Mails /\ c \in Senders \cup {Nobody}
      /\ JobFits(w, job[w], row[job[w].mail], box[job[w].mail]) /\ "begin" \in Stages
  BY NotIdle DEF Stages, Rows
<1>2. job' = [job EXCEPT ![w] = k]
  BY DEF MailKept, MailTypeOK
<1> HIDE DEF c
<1>3. k \in Jobs
  BY <1>1, JobUpdates
<1>4. /\ k.pc = "begin" /\ k.mail = job[w].mail /\ k.left = job[w].left
      /\ k.count = job[w].count /\ k.outcome = job[w].outcome
  BY <1>1 DEF Jobs
<1> HIDE DEF k, j
<1>5. JobFits(w, k, row[k.mail], box[k.mail])
  BY <1>1, <1>4 DEF JobFits
<1>6. QED
  BY <1>2, <1>3, <1>5, JobMoves

\* The lease's holder ends its work on a row it moved.
LEMMA HolderEnds ==
  ASSUME MailKept, NEW w \in Senders, job[w].pc \in Stages, Live(w),
         NEW s, Moves(row[job[w].mail], s, box[job[w].mail]), s.holder = w,
         Put(job[w].mail, s), UNCHANGED box, Done(w)
  PROVE  MailKept' /\ Promised
  BY OwnerMoves DEF Done

\* What it rendered is saved; the call may fail all the same.
LEMMA SaveMoves ==
  ASSUME MailKept, NEW w \in Senders, job[w].pc = "save", Live(w),
         row[job[w].mail].content = Nobody, UNCHANGED box,
         Put(job[w].mail, [row[job[w].mail] EXCEPT !.content = w]),
         \/ job' = [job EXCEPT ![w].pc = "begin", ![w].content = w]
         \/ Goto(w, "stop")
  PROVE  MailKept' /\ Promised
<1> DEFINE r == row[job[w].mail]
<1> DEFINE s == [r EXCEPT !.content = w]
<1>1. /\ job[w] \in Jobs /\ job[w].mail \in Mails /\ r \in Rows
      /\ box[job[w].mail] \in Boxes /\ RowFits(r, box[job[w].mail])
      /\ JobFits(w, job[w], r, box[job[w].mail])
      /\ "begin" \in Stages /\ "stop" \in Stages /\ r.holder = w
  BY NotIdle DEF Stages, Live
<1>2. /\ Moves(r, s, box[job[w].mail])
      /\ s.holder = w /\ s.left = r.left
  <2>1. Moves(r, s, box[job[w].mail])
    BY <1>1, SavedMoves
  <2>2. QED
    BY <1>1, <2>1 DEF Rows
<1>3. PICK k \in Jobs : /\ job' = [job EXCEPT ![w] = k]
                        /\ k.pc \in {"begin", "stop"} /\ k.mail = job[w].mail
                        /\ k.left = job[w].left /\ k.outcome = job[w].outcome
  <2> DEFINE i == [job[w] EXCEPT !.pc = "begin"]
  <2> DEFINE k == [i EXCEPT !.content = w]
  <2> DEFINE l == [job[w] EXCEPT !.pc = "stop"]
  <2>1. k \in Jobs /\ l \in Jobs
    BY <1>1, JobUpdates
  <2>2. /\ k.pc = "begin" /\ k.mail = job[w].mail
        /\ k.left = job[w].left /\ k.outcome = job[w].outcome
        /\ l.pc = "stop" /\ l.mail = job[w].mail
        /\ l.left = job[w].left /\ l.outcome = job[w].outcome
    BY <1>1 DEF Jobs
  <2>3. job' = [job EXCEPT ![w] = k] \/ job' = [job EXCEPT ![w] = l]
    BY DEF Goto, MailKept, MailTypeOK
  <2> HIDE DEF k, l
  <2>4. QED
    BY <2>1, <2>2, <2>3
<1>4. JobFits(w, k, s, box[job[w].mail])
  BY <1>1, <1>2, <1>3 DEF JobFits
<1>5. job[w].pc \in Stages
  BY DEF Stages
<1> HIDE DEF s
<1>6. Put(job[w].mail, s)
  BY DEF s
<1>7. QED
  BY <1>2, <1>3, <1>4, <1>5, <1>6, OwnerMoves

\* A dispatch is recorded: its number is the sender's, and the first of them
\* finds nothing at the provider.
LEMMA DispatchMoves ==
  ASSUME MailKept, NEW w \in Senders, job[w].pc = "begin", Live(w),
         row[job[w].mail].state \in {"queued", "unknown"}, ~row[job[w].mail].stopped,
         row[job[w].mail].content # Nobody, ~Exhausted(row[job[w].mail]),
         Put(job[w].mail, Sending(row[job[w].mail])), UNCHANGED box,
         job' = [job EXCEPT ![w].pc = "send", ![w].count = row[job[w].mail].count + 1]
  PROVE  MailKept' /\ Promised
<1> DEFINE r == row[job[w].mail]
<1> DEFINE b == box[job[w].mail]
<1> DEFINE s == Sending(r)
<1>1. /\ job[w] \in Jobs /\ job[w].mail \in Mails /\ r \in Rows /\ b \in Boxes
      /\ RowFits(r, b) /\ JobFits(w, job[w], r, b) /\ "send" \in Stages
      /\ r.holder = w /\ job[w].pc \in Stages
  BY NotIdle DEF Stages, Live
<1>2. Moves(r, s, b)
  BY <1>1, SendingMoves
<1>3. /\ s.holder = w /\ s.left = r.left /\ s.count = r.count + 1
      /\ s.state = "sending" /\ s.stopped = r.stopped
  BY <1>1 DEF Sending, Rows
<1>4. r.count + 1 \in 0 .. MaxDispatch /\ r.count \in Nat
  BY <1>1, MailAssumption DEF Exhausted, Rows
<1> DEFINE i == [job[w] EXCEPT !.pc = "send"]
<1> DEFINE k == [i EXCEPT !.count = r.count + 1]
<1>5. k \in Jobs
  <2> HIDE DEF r
  <2>1. QED
    BY <1>1, <1>4, JobUpdates
<1>6. /\ k.pc = "send" /\ k.mail = job[w].mail /\ k.left = job[w].left
      /\ k.outcome = job[w].outcome /\ k.count = r.count + 1
  BY <1>1 DEF Jobs
<1>7. job' = [job EXCEPT ![w] = k]
  BY DEF MailKept, MailTypeOK
<1> HIDE DEF r, b, s, k, i
<1>8. JobFits(w, k, s, b)
  <2>1. ~s.stopped
    BY <1>3 DEF r
  <2>2. k.count = 1 => b.copies = 0
    BY <1>1, <1>4, <1>6 DEF RowFits
  <2>3. QED
    BY <1>1, <1>3, <1>4, <1>6, <2>1, <2>2 DEF JobFits
<1>9. Put(job[w].mail, s)
  BY DEF r, s
<1>10. QED
  BY <1>1, <1>2, <1>3, <1>5, <1>6, <1>7, <1>8, <1>9, OwnerMoves DEF r, b

\* How the dispatch ended is recorded.
LEMMA EndedKeeps ==
  ASSUME MailKept, NEW w \in Senders, job[w].pc = "finish", Live(w),
         row[job[w].mail].state # "accepted", UNCHANGED box, Done(w),
         Put(job[w].mail,
             Ended(row[job[w].mail],
                   IF job[w].outcome = "failed" /\ row[job[w].mail].count > 1 THEN "unknown"
                   ELSE job[w].outcome,
                   job[w].id))
  PROVE  MailKept' /\ Promised
<1> DEFINE r == row[job[w].mail]
<1> DEFINE b == box[job[w].mail]
<1> DEFINE outcome == IF job[w].outcome = "failed" /\ row[job[w].mail].count > 1
                      THEN "unknown" ELSE job[w].outcome
<1> DEFINE s == Ended(r, outcome, job[w].id)
<1>1. /\ job[w] \in Jobs /\ job[w].mail \in Mails /\ r \in Rows /\ b \in Boxes
      /\ RowFits(r, b) /\ JobFits(w, job[w], r, b) /\ r.holder = w /\ job[w].pc \in Stages
  BY NotIdle DEF Stages, Live
<1>2. /\ job[w].left > 0 /\ r.count > 0 /\ ~r.stopped /\ r.state = "sending"
      /\ job[w].id \in Nat
  BY <1>1 DEF JobFits, Live, Jobs
<1>3. /\ outcome \in Outcomes
      /\ outcome = "accepted" => b.copies = 1 /\ job[w].id = 1
      /\ outcome = "failed" => b.copies = 0
  BY <1>1, <1>2 DEF JobFits, Outcomes, Jobs
<1> HIDE DEF outcome
<1>4. Moves(r, s, b)
  BY <1>1, <1>2, <1>3, EndedMoves
<1>5. s.holder = w
  BY <1>1 DEF Ended, Released, Rows
<1> HIDE DEF s
<1>6. Put(job[w].mail, s)
  BY DEF s, outcome
<1>7. QED
  BY <1>1, <1>4, <1>5, <1>6, HolderEnds

LEMMA StopEnds ==
  ASSUME MailKept, NEW w \in Senders, job[w].pc \in Stages, Live(w), UNCHANGED box,
         Put(job[w].mail, Stopped(row[job[w].mail])), Done(w)
  PROVE  MailKept' /\ Promised
<1> DEFINE r == row[job[w].mail]
<1>1. r \in Rows /\ box[job[w].mail] \in Boxes /\ RowFits(r, box[job[w].mail])
  BY NotIdle
<1>2. Moves(r, Stopped(r), box[job[w].mail])
  BY <1>1, StoppedMoves
<1>3. Stopped(r).holder = w
  BY <1>1 DEF Live, Stopped, Released, Rows
<1>4. QED
  BY <1>2, <1>3, HolderEnds

LEMMA ReleaseEnds ==
  ASSUME MailKept, NEW w \in Senders, job[w].pc \in Stages, Live(w), UNCHANGED box, Done(w),
         \/ Put(job[w].mail, Released(row[job[w].mail]))
         \/ Put(job[w].mail, [Released(row[job[w].mail]) EXCEPT !.wait = Backoff])
  PROVE  MailKept' /\ Promised
<1> DEFINE r == row[job[w].mail]
<1> DEFINE s == [Released(r) EXCEPT !.wait = Backoff]
<1>1. /\ r \in Rows /\ box[job[w].mail] \in Boxes /\ RowFits(r, box[job[w].mail])
      /\ r.holder = w /\ Backoff \in 0 .. Backoff
  BY NotIdle, MailAssumption DEF Live
<1>2. /\ Moves(r, Released(r), box[job[w].mail])
      /\ Moves(r, s, box[job[w].mail])
  BY <1>1, ReleasedMoves
<1>3. Released(r).holder = w /\ s.holder = w
  BY <1>1 DEF Released, Rows
<1>4. QED
  BY <1>2, <1>3, HolderEnds

\* A sender ends, having found nothing to do.
LEMMA NothingDone ==
  ASSUME MailKept, NEW w \in Senders, job[w].pc \in Stages, UNCHANGED <<row, box>>, Done(w)
  PROVE  MailKept' /\ Promised
  BY JobMoves DEF Done

-----------------------------------------------------------------------------
(* The provider, and time *)

\* The row of a mail the provider just took is uncertain or accepted, and what
\* it keeps is one copy: a repetition comes while the key is remembered.
LEMMA KeptOnce ==
  ASSUME NEW r \in Rows, NEW b \in Boxes, RowFits(r, b), r.count > 0, r.age < Window,
         r.content \in Senders \cup {Nobody},
         NEW c, c \in {Asked(b, r.content), Asked(Kept(b), r.content)},
         r.state \in {"sending", "accepted"}
  PROVE  /\ c \in Boxes /\ RowFits(r, c) /\ (b.copies = 1 => c.copies = 1)
         /\ c.copies = b.copies \/ (b.copies = 0 /\ c.copies = 1 /\ r.state = "sending")
         /\ c = Asked(Kept(b), r.content) => c.copies = 1
<1>1. /\ b.copies \in Nat /\ b.age \in Nat /\ b.copies <= 1 /\ r.age \in Nat
      /\ 0 \in 0 .. KeyLife
  BY MailAssumption DEF Boxes, RowFits, Rows
<1>2. b.copies = 1 => Remembered(b)
  BY <1>1, MailAssumption DEF RowFits, Remembered
<1>3. /\ Kept(b) \in Boxes /\ Kept(b).copies = 1 /\ Kept(b).contents = b.contents
      /\ b.copies = 1 => Kept(b) = b
      /\ b.copies = 0 => Kept(b).age = 0
  <2>1. CASE b.copies = 1
    BY <1>2, <2>1 DEF Kept
  <2>2. CASE b.copies = 0
    <3>1. Kept(b) = [[b EXCEPT !.copies = 1] EXCEPT !.age = 0]
      BY <1>1, <2>2 DEF Kept, Remembered
    <3>2. [b EXCEPT !.copies = 1] \in Boxes
      BY DEF Boxes
    <3>3. [[b EXCEPT !.copies = 1] EXCEPT !.age = 0] \in Boxes
      BY <1>1, <3>2 DEF Boxes
    <3>4. QED
      BY <2>2, <3>1, <3>3 DEF Boxes
  <2>3. QED
    BY <1>1, <2>1, <2>2
<1>4. PICK k \in {b, Kept(b)} : c = Asked(k, r.content)
  OBVIOUS
<1>5. k \in Boxes /\ k.contents = b.contents
  BY <1>3
<1>6. /\ c \in Boxes /\ c.copies = k.copies /\ c.age = k.age
      /\ c.contents = b.contents \cup {r.content}
  BY <1>4, <1>5 DEF Asked, Boxes
<1>7. RowFits(r, c)
  <2>1. /\ c.copies <= 1 /\ c.contents \subseteq {r.content}
        /\ c.copies = 1 /\ r.age < Window => c.age <= r.age
    BY <1>1, <1>3, <1>4, <1>6 DEF RowFits
  <2>2. r.state = "accepted" => c.copies = 1
    BY <1>3, <1>4, <1>6 DEF RowFits
  <2>3. r.provider \in 0 .. c.copies
    BY <1>1, <1>3, <1>4, <1>6 DEF RowFits
  <2>4. QED
    BY <2>1, <2>2, <2>3 DEF RowFits
<1>8. b.copies = 1 => c.copies = 1
  BY <1>3, <1>4, <1>6
<1>9. c.copies = b.copies \/ (b.copies = 0 /\ c.copies = 1 /\ r.state = "sending")
  BY <1>1, <1>3, <1>4, <1>6 DEF RowFits
<1>10. c = Asked(Kept(b), r.content) => c.copies = 1
  <2>1. ASSUME c = Asked(Kept(b), r.content) PROVE c.copies = 1
    BY <1>3, <2>1 DEF Asked, Boxes
  <2>2. QED
    BY <2>1
<1>11. QED
  BY <1>6, <1>7, <1>8, <1>9, <1>10

\* The provider is asked, and answers what it did, or not at all.
LEMMA AskedMoves ==
  ASSUME MailKept, NEW w \in Senders, job[w].pc = "send",
         job[w].content = row[job[w].mail].content, job[w].left >= Margin,
         row[job[w].mail].age < Window, NEW outcome \in Outcomes, NEW id \in Nat,
         SendProviderEmail(job[w].mail, job[w].content, outcome, id), UNCHANGED row,
         job' = [job EXCEPT ![w].pc = "finish", ![w].id = id, ![w].outcome =
                   IF outcome = "failed" /\ job[w].count > 1 THEN "unknown" ELSE outcome]
  PROVE  MailKept' /\ Promised
<1>0. PICK a \in Mails : a = job[w].mail
  BY NotIdle DEF Stages
<1> DEFINE r == row[a]
<1> DEFINE b == box[a]
<1> DEFINE o == IF outcome = "failed" /\ job[w].count > 1 THEN "unknown" ELSE outcome
<1>1. /\ job[w] \in Jobs /\ a \in Mails /\ r \in Rows /\ b \in Boxes
      /\ RowFits(r, b) /\ JobFits(w, job[w], r, b) /\ job[w] # Idle
  BY <1>0, NotIdle DEF Stages
<1>2. job[w].left > 0 /\ job[w].count \in Nat
  BY <1>1, MailAssumption DEF Jobs
<1>3. /\ r.holder = w /\ r.left = job[w].left /\ r.count = job[w].count /\ r.count > 0
      /\ ~r.stopped /\ r.state \in {"sending", "accepted"}
      /\ job[w].count = 1 => b.copies = 0
  BY <1>1, <1>2 DEF JobFits
<1>4. r.content \in Senders \cup {Nobody}
  BY <1>1 DEF Rows
<1>5. PICK c : /\ c \in {Asked(b, r.content), Asked(Kept(b), r.content)}
               /\ box' = [box EXCEPT ![a] = c]
               /\ \/ /\ c = Asked(Kept(b), r.content)
                     /\ (outcome = "accepted" /\ id = c.copies) \/ outcome = "unknown"
                  \/ c = Asked(b, r.content) /\ outcome \in {"failed", "unknown"}
  <2>1. CASE /\ box' = [box EXCEPT ![a] = Asked(Kept(b), job[w].content)]
             /\ \/ outcome = "accepted" /\ id = box'[a].copies
                \/ outcome = "unknown" /\ id = 0
    <3>1. box'[a] = Asked(Kept(b), r.content)
      BY <1>0, <1>1, <2>1 DEF MailKept, MailTypeOK
    <3>2. QED
      BY <1>0, <2>1, <3>1
  <2>2. CASE /\ box' = [box EXCEPT ![a] = Asked(b, job[w].content)]
             /\ outcome \in {"failed", "unknown"} /\ id = 0
    BY <1>0, <2>2
  <2>3. QED
    BY <1>0, <2>1, <2>2 DEF SendProviderEmail
<1>6. /\ c \in Boxes /\ RowFits(r, c) /\ (b.copies = 1 => c.copies = 1)
      /\ c.copies = b.copies \/ (b.copies = 0 /\ c.copies = 1 /\ r.state = "sending")
      /\ c = Asked(Kept(b), r.content) => c.copies = 1
  <2> HIDE DEF r, b
  <2>1. r.age < Window
    BY <1>0, <1>0 DEF r
  <2>2. QED
    BY <1>1, <1>3, <1>4, <1>5, <2>1, KeptOnce
<1>7. o \in Outcomes /\ "finish" \in Stages
  BY DEF Outcomes, Stages
<1> DEFINE i == [job[w] EXCEPT !.pc = "finish"]
<1> DEFINE j == [i EXCEPT !.id = id]
<1> DEFINE k == [j EXCEPT !.outcome = o]
<1>8. k \in Jobs
  <2> HIDE DEF o
  <2>1. i \in Jobs
    BY <1>1, <1>7, JobUpdates
  <2>2. j \in Jobs
    BY <2>1, JobUpdates
  <2>3. QED
    BY <1>7, <2>2, JobUpdates
<1>9. /\ k.pc = "finish" /\ k.mail = a /\ k.left = job[w].left /\ k.count = job[w].count
      /\ k.id = id /\ k.outcome = o
  <2> HIDE DEF o
  <2>1. QED
    BY <1>0, <1>1 DEF Jobs
<1>10. job' = [job EXCEPT ![w] = k]
  BY <1>0, <1>0 DEF MailKept, MailTypeOK
<1> HIDE DEF k, j, i
<1>11. JobFits(w, k, r, c)
  <2>1. k.outcome = "accepted" => c.copies = 1 /\ k.id = 1
    BY <1>5, <1>6, <1>9
  <2>2. k.outcome = "failed" => k.count = 1 /\ c.copies = 0
    <3>1. ASSUME k.outcome = "failed" PROVE k.count = 1 /\ c.copies = 0
      <4>1. outcome = "failed" /\ job[w].count = 1
        BY <1>2, <1>3, <1>9, <3>1
      <4>2. c = Asked(b, r.content)
        <5> HIDE DEF r, b
        <5>1. QED
          BY <1>5, <4>1
      <4>3. c.copies = b.copies
        BY <1>1, <4>2 DEF Asked, Boxes
      <4>4. QED
        BY <1>3, <1>9, <4>1, <4>3
    <3>2. QED
      BY <3>1
  <2>3. QED
    BY <1>1, <1>2, <1>3, <1>9, <2>1, <2>2 DEF JobFits
<1> HIDE DEF o, r, b
<1>12. MailKept'
  <2>0. /\ box \in [Mails -> Boxes] /\ row' \in [Mails -> Rows]
        /\ box' = [box EXCEPT ![a] = c]
    <3>1. box' = [box EXCEPT ![a] = c]
      BY <1>5
    <3>2. box \in [Mails -> Boxes] /\ row \in [Mails -> Rows]
      BY DEF MailKept, MailTypeOK
    <3>3. QED
      BY <3>1, <3>2
  <2>1. box' \in [Mails -> Boxes] /\ row' \in [Mails -> Rows]
    BY <1>6, <2>0
  <2>2. box'[a] = c /\ row'[a] = r /\ \A x \in Mails \ {a} : box'[x] = box[x]
    BY <2>0 DEF r
  <2>3. ASSUME NEW x \in Mails
        PROVE  RowFits(row[x], box[x])' /\ (box[x].copies = 1 => box'[x].copies = 1)
    <3>1. CASE x = a
      <4>1. /\ RowFits(r, c) /\ (box[a].copies = 1 => c.copies = 1)
            /\ row'[x] = r /\ box'[x] = c
        BY <1>6, <2>2, <3>1 DEF b
      <4>2. QED
        BY <3>1, <4>1
    <3>2. CASE x # a
      BY <2>2, <3>2 DEF MailKept
    <3>3. QED
      BY <3>1, <3>2
  <2>4. \A v \in Senders \ {w}, x \in Mails :
             \/ row'[x] = row[x] /\ box'[x] = box[x]
             \/ /\ row[x].holder # v \/ row[x].left = 0
                /\ row'[x].holder # v \/ row'[x].left = 0
    BY <1>3, <2>2 DEF r
  <2>5. JobFits(w, k, row'[k.mail], box'[k.mail])
    BY <1>9, <1>11, <2>2
  <2>6. QED
    BY <1>8, <1>10, <2>1, <2>3, <2>4, <2>5, KeptByMove
<1>13. Promised
  <2>1. phase' = phase /\ [x \in Mails |-> row[x].count]' = [x \in Mails |-> row[x].count]
    BY DEF phase
  <2>2. [x \in Mails |-> box[x].copies]' = [[x \in Mails |-> box[x].copies] EXCEPT ![a] = c.copies]
    BY <1>0, <1>1, <1>5 DEF MailKept, MailTypeOK
  <2>3. CASE c.copies = b.copies
    <3>1. [x \in Mails |-> box[x].copies]' = [x \in Mails |-> box[x].copies]
      BY <2>2, <2>3 DEF b
    <3>2. QED
      BY <2>1, <3>1 DEF Promised, Abstract!vars
  <2>4. CASE b.copies = 0 /\ c.copies = 1 /\ r.state = "sending"
    <3>1. phase[a] = "uncertain"
      BY <1>1, <1>3, <2>4 DEF phase, PhaseOf, Settled, Open, r
    <3>2. Abstract!Hold(a)
      BY <1>1, <2>1, <2>2, <2>4, <3>1 DEF Abstract!Hold, b
    <3>3. \E x \in Mails : Abstract!Hold(x)
      BY <1>1, <3>2
    <3>4. QED
      BY <3>3 DEF Promised, Abstract!PromiseNext
  <2>5. QED
    BY <1>6, <2>3, <2>4
<1>14. QED
  BY <1>12, <1>13

LEMMA ObservedMoves ==
  ASSUME MailKept, NEW a \in Mails, NEW id, Observed(a, id)
  PROVE  MailKept' /\ Promised
<1> DEFINE r == row[a]
<1> DEFINE b == box[a]
<1> DEFINE q == [r EXCEPT !.state = "accepted"]
<1> DEFINE s == [q EXCEPT !.provider = id]
<1>1. /\ r \in Rows /\ b \in Boxes /\ RowFits(r, b) /\ r.count > 0
      /\ row' = [row EXCEPT ![a] = s] /\ job' = job /\ box' = box
      /\ id \in 1 .. b.copies
  BY DEF MailKept, MailTypeOK, Observed, Observation, Put
<1>2. b.copies = 1 /\ id = 1
  BY <1>1 DEF Boxes, RowFits
<1>3. s \in Rows
  <2>1. id \in Nat /\ "accepted" \in States
    BY <1>2 DEF States
  <2>2. QED
    BY <1>1, <2>1, RowUpdates
<1>4. /\ s.state = "accepted" /\ s.provider = id /\ s.holder = r.holder /\ s.left = r.left
      /\ s.count = r.count /\ s.age = r.age /\ s.stopped = r.stopped /\ s.content = r.content
  BY <1>1 DEF Rows
<1> HIDE DEF s, q
<1>5. RowFits(s, b)
  BY <1>1, <1>2, <1>4 DEF RowFits
<1>6. RowMove(r, s, b)
  <2>1. PhaseOf(s) = "accepted"
    BY <1>4 DEF PhaseOf
  <2>2. PhaseOf(r) \in {"accepted", "uncertain", "given up"}
    <3>1. r.state # "failed" /\ r.count # 0
      BY <1>1, <1>2 DEF RowFits, Rows
    <3> HIDE DEF r
    <3>2. QED
      BY <3>1 DEF PhaseOf
  <2>3. QED
    BY <1>2, <1>4, <2>1, <2>2 DEF RowMove
<1> HIDE DEF b
<1>7. row' \in [Mails -> Rows] /\ row'[a] = s /\ \A x \in Mails \ {a} : row'[x] = row[x]
  BY <1>1, <1>3 DEF MailKept, MailTypeOK
<1>8. \A x \in Mails : RowFits(row'[x], box'[x])
  BY <1>1, <1>5, <1>7 DEF MailKept, b
<1>9. ASSUME NEW w \in Senders, job'[w] # Idle
      PROVE  JobFits(w, job'[w], row'[job'[w].mail], box'[job'[w].mail])
  <2>1. /\ job[w] \in Jobs /\ job[w].mail \in Mails
        /\ JobFits(w, job[w], row[job[w].mail], box[job[w].mail])
    BY <1>1, <1>9 DEF MailKept, MailTypeOK, Jobs
  <2>2. CASE job[w].mail = a
    <3>1. JobFits(w, job[w], r, b)
      BY <2>1, <2>2 DEF b
    <3>2. JobFits(w, job[w], s, b)
      BY <1>4, <3>1 DEF JobFits
    <3>3. QED
      BY <1>1, <1>7, <2>2, <3>2 DEF b
  <2>3. CASE job[w].mail # a
    BY <1>1, <1>7, <2>1, <2>3
  <2>4. QED
    BY <2>2, <2>3
<1>10. MailKept'
  BY <1>1, <1>7, <1>8, <1>9 DEF MailKept, MailTypeOK
<1>11. Promised
  BY <1>1, <1>3, <1>6, RowMovePromised DEF MailKept, b
<1>12. QED
  BY <1>10, <1>11

LEMMA TickMoves ==
  ASSUME MailKept, Tick
  PROVE  MailKept' /\ Promised
<1> DEFINE aged(r) == [r EXCEPT !.left = Less(@), !.wait = Less(@),
                         !.age = IF r.count = 0 THEN 0 ELSE More(@, Window)]
<1> DEFINE kept(b) == [b EXCEPT !.age = IF b.copies = 0 THEN 0 ELSE More(@, KeyLife)]
<1>1. /\ row' = [a \in Mails |-> aged(row[a])]
      /\ box' = [a \in Mails |-> kept(box[a])]
      /\ job' = [w \in Senders |->
                   IF job[w] = Idle THEN Idle ELSE [job[w] EXCEPT !.left = Less(@)]]
  BY DEF Tick
<1>2. ASSUME NEW r \in Rows
      PROVE  /\ aged(r) \in Rows /\ aged(r).left = Less(r.left)
             /\ aged(r).age = IF r.count = 0 THEN 0 ELSE More(r.age, Window)
             /\ aged(r).state = r.state /\ aged(r).stopped = r.stopped
             /\ aged(r).holder = r.holder /\ aged(r).count = r.count
             /\ aged(r).content = r.content /\ aged(r).provider = r.provider
  <2> DEFINE age == IF r.count = 0 THEN 0 ELSE More(r.age, Window)
  <2>1. Less(r.left) \in 0 .. Lease /\ Less(r.wait) \in 0 .. Backoff /\ age \in 0 .. Window
    BY MailAssumption DEF Rows, Less, More
  <2> DEFINE p == [r EXCEPT !.left = Less(r.left)]
  <2> DEFINE q == [p EXCEPT !.wait = Less(r.wait)]
  <2> DEFINE s == [q EXCEPT !.age = age]
  <2>2. aged(r) = s
    BY DEF Rows
  <2>3. /\ s.left = Less(r.left) /\ s.age = age /\ s.state = r.state /\ s.stopped = r.stopped
        /\ s.holder = r.holder /\ s.count = r.count
        /\ s.content = r.content /\ s.provider = r.provider
    <3> HIDE DEF age
    <3>1. QED
      BY DEF Rows
  <2>4. s \in Rows
    <3> HIDE DEF age
    <3>1. p \in Rows
      BY <2>1, RowUpdates
    <3>2. q \in Rows
      BY <2>1, <3>1, RowUpdates
    <3>3. QED
      BY <2>1, <3>2, RowUpdates
  <2> HIDE DEF s, aged
  <2>5. QED
    BY <2>2, <2>3, <2>4
<1>3. ASSUME NEW b \in Boxes
      PROVE  /\ kept(b) \in Boxes /\ kept(b).copies = b.copies
             /\ kept(b).age = IF b.copies = 0 THEN 0 ELSE More(b.age, KeyLife)
             /\ kept(b).contents = b.contents
  <2>1. (IF b.copies = 0 THEN 0 ELSE More(b.age, KeyLife)) \in 0 .. KeyLife
    BY MailAssumption DEF Boxes, More
  <2>2. QED
    BY <2>1 DEF Boxes
<1> HIDE DEF aged, kept
<1>4. ASSUME NEW r \in Rows, NEW b \in Boxes, RowFits(r, b)
      PROVE  RowFits(aged(r), kept(b)) /\ PhaseOf(aged(r)) = PhaseOf(r)
  <2>1. /\ r.count \in Nat /\ r.age \in Nat /\ b.age \in Nat /\ b.copies \in Nat
    BY MailAssumption DEF Rows, Boxes
  <2>2. kept(b).copies = 1 /\ aged(r).age < Window => kept(b).age <= aged(r).age
    <3>1. SUFFICES ASSUME b.copies = 1, aged(r).age < Window
                   PROVE  kept(b).age <= aged(r).age
      BY <1>3
    <3>2. r.count > 0
      BY <1>4, <2>1, <3>1 DEF RowFits
    <3>3. aged(r).age = More(r.age, Window) /\ kept(b).age = More(b.age, KeyLife)
      BY <1>2, <1>3, <2>1, <3>1, <3>2
    <3>4. r.age < Window /\ aged(r).age = r.age + 1
      BY <2>1, <3>1, <3>3, MailAssumption DEF More
    <3>5. b.age <= r.age
      BY <1>4, <3>1, <3>4 DEF RowFits
    <3>6. QED
      BY <2>1, <3>3, <3>4, <3>5, MailAssumption DEF More
  <2>3. RowFits(aged(r), kept(b))
    BY <1>2, <1>3, <1>4, <2>2 DEF RowFits
  <2>4. PhaseOf(aged(r)) = PhaseOf(r)
    BY <1>2 DEF PhaseOf, Settled
  <2>5. QED
    BY <2>3, <2>4
<1>5. ASSUME NEW w \in Senders, job'[w] # Idle
      PROVE  JobFits(w, job'[w], row'[job'[w].mail], box'[job'[w].mail])
  <2> DEFINE j == job[w]
  <2> DEFINE k == [j EXCEPT !.left = Less(@)]
  <2>1. /\ j \in Jobs /\ j # Idle /\ j.mail \in Mails /\ job'[w] = k
        /\ JobFits(w, j, row[j.mail], box[j.mail])
    BY <1>1, <1>5 DEF MailKept, MailTypeOK, Jobs
  <2> DEFINE r == row[j.mail]
  <2> DEFINE b == box[j.mail]
  <2>2. /\ k.left = Less(j.left) /\ k.pc = j.pc /\ k.mail = j.mail /\ k.count = j.count
        /\ k.outcome = j.outcome /\ k.id = j.id
    BY <2>1 DEF Jobs
  <2>3. /\ r \in Rows /\ b \in Boxes /\ row'[j.mail] = aged(r) /\ box'[j.mail] = kept(b)
    BY <1>1, <2>1 DEF MailKept, MailTypeOK
  <2> HIDE DEF k
  <2>4. /\ r.left \in Nat /\ j.left \in Nat
        /\ Less(j.left) > 0 => j.left > 0 /\ Less(j.left) = j.left - 1
        /\ Less(r.left) > 0 => r.left > 0 /\ Less(r.left) = r.left - 1
        /\ r.left = j.left => Less(r.left) = Less(j.left)
    BY <2>1, <2>3, MailAssumption DEF Rows, Jobs, Less
  <2> HIDE DEF r, b, j
  <2>5. JobFits(w, k, aged(r), kept(b))
    BY <1>2, <1>3, <2>1, <2>2, <2>3, <2>4 DEF JobFits, r, b
  <2>6. QED
    BY <2>1, <2>2, <2>3, <2>5
<1>6. MailTypeOK'
  <2>1. row' \in [Mails -> Rows] /\ box' \in [Mails -> Boxes]
    BY <1>1, <1>2, <1>3 DEF MailKept, MailTypeOK
  <2>2. ASSUME NEW w \in Senders PROVE job'[w] \in {Idle} \cup Jobs
    <3>1. CASE job[w] = Idle
      BY <1>1, <3>1
    <3>2. CASE job[w] # Idle
      <4>1. job[w] \in Jobs /\ job'[w] = [job[w] EXCEPT !.left = Less(@)]
        BY <1>1, <3>2 DEF MailKept, MailTypeOK
      <4>2. Less(job[w].left) \in 0 .. Lease
        BY <4>1, MailAssumption DEF Jobs, Less
      <4>3. QED
        BY <4>1, <4>2, JobUpdates
    <3>3. QED
      BY <3>1, <3>2
  <2>3. job' \in [Senders -> {Idle} \cup Jobs]
    BY <1>1, <2>2
  <2>4. QED
    BY <2>1, <2>3 DEF MailTypeOK
<1>7. ASSUME NEW a \in Mails
      PROVE  /\ RowFits(row[a], box[a])' /\ PhaseOf(row[a])' = PhaseOf(row[a])
             /\ row'[a].count = row[a].count /\ box'[a].copies = box[a].copies
  <2>1. row[a] \in Rows /\ box[a] \in Boxes /\ RowFits(row[a], box[a])
    BY DEF MailKept, MailTypeOK
  <2>2. row'[a] = aged(row[a]) /\ box'[a] = kept(box[a])
    BY <1>1
  <2>3. QED
    BY <1>2, <1>3, <1>4, <2>1, <2>2
<1>8. MailKept'
  BY <1>5, <1>6, <1>7 DEF MailKept
<1>9. UNCHANGED Abstract!vars
  BY <1>7 DEF Abstract!vars, phase
<1>10. QED
  BY <1>8, <1>9 DEF Promised

-----------------------------------------------------------------------------
(* Claims *)

\* What is given up when a sender claims a mail: a row nobody holds, after a
\* dispatch of which no more is known.
GivenUp(r, s, b) ==
    /\ s \in Rows /\ RowFits(s, b) /\ s.count = r.count /\ r.left = 0 /\ s.left = 0
    /\ s.stopped /\ PhaseOf(r) = "uncertain" /\ PhaseOf(s) = "given up"

\* What a claim does: rows that nobody holds are leased to the sender or given up.
Claiming(w) ==
    /\ row' \in [Mails -> Rows]
    /\ \E j \in {Idle} \cup Jobs :
           /\ job' = [job EXCEPT ![w] = j]
           /\ j # Idle => JobFits(w, j, row'[j.mail], box'[j.mail])
    /\ \A a \in Mails :
           /\ RowFits(row[a], box[a])' /\ row'[a].count = row[a].count
           /\ \/ PhaseOf(row'[a]) = PhaseOf(row[a])
              \/ PhaseOf(row[a]) = "uncertain" /\ PhaseOf(row'[a]) = "given up"
           /\ \/ row'[a] = row[a]
              \/ row[a].left = 0 /\ (row'[a].left = 0 \/ row'[a].holder = w)

LEMMA SweptKeeps ==
  ASSUME MailKept, NEW w \in Senders, job[w] = Idle, NEW f \in [Mails -> Rows],
         \A a \in Mails : f[a] = row[a] \/ GivenUp(row[a], f[a], box[a]),
         UNCHANGED box,
         \/ row' = f /\ UNCHANGED job
         \/ \E a \in Mails : /\ Claimable(f[a]) /\ row' = [f EXCEPT ![a] = Leased(f[a], w)]
                             /\ job' = [job EXCEPT ![w] = Job(w, a)]
  PROVE  MailKept' /\ Promised
<1>1. ASSUME NEW a \in Mails
      PROVE  /\ row[a] \in Rows /\ f[a] \in Rows /\ box[a] \in Boxes
             /\ RowFits(row[a], box[a]) /\ RowFits(f[a], box[a])
             /\ f[a].count = row[a].count
             /\ \/ PhaseOf(f[a]) = PhaseOf(row[a])
                \/ PhaseOf(row[a]) = "uncertain" /\ PhaseOf(f[a]) = "given up"
             /\ f[a] = row[a] \/ (row[a].left = 0 /\ f[a].left = 0 /\ f[a].stopped)
  BY DEF MailKept, MailTypeOK, GivenUp
<1>2. Claiming(w)
  <2>1. CASE row' = f /\ UNCHANGED job
    <3>1. job' = [job EXCEPT ![w] = Idle]
      BY <2>1 DEF MailKept, MailTypeOK
    <3>2. \E j \in {Idle} \cup Jobs :
             /\ job' = [job EXCEPT ![w] = j]
             /\ j # Idle => JobFits(w, j, row'[j.mail], box'[j.mail])
      BY <3>1
    <3>3. QED
      BY <1>1, <2>1, <3>2 DEF Claiming
  <2>2. ASSUME NEW a \in Mails, Claimable(f[a]), row' = [f EXCEPT ![a] = Leased(f[a], w)],
               job' = [job EXCEPT ![w] = Job(w, a)]
        PROVE  Claiming(w)
    <3>1. f[a] = row[a] /\ row[a].left = 0
      BY <1>1, <2>2 DEF Claimable, Waiting
    <3> DEFINE s == Leased(row[a], w)
    <3>2. Moves(row[a], s, box[a])
      BY <1>1, LeasedMoves
    <3>3. /\ s.holder = w /\ s.left = Lease /\ s.count = row[a].count
          /\ s.stopped = row[a].stopped /\ s.state = Uncertain(row[a].state)
      BY <1>1 DEF Leased, Rows
    <3>4. PhaseOf(s) = PhaseOf(row[a])
      BY ZenonT(60), <1>1, <3>3 DEF PhaseOf, Settled, Uncertain, Open, Rows, States
    <3> HIDE DEF s
    <3>5. /\ row' = [f EXCEPT ![a] = s] /\ row'[a] = s /\ s \in Rows /\ RowFits(s, box[a])
          /\ \A x \in Mails \ {a} : row'[x] = f[x]
      BY <2>2, <3>1, <3>2 DEF s, Moves
    <3>6. row' \in [Mails -> Rows]
      BY <3>5
    <3>7. Job(w, a) \in Jobs
      <4>1. /\ Lease \in 0 .. Lease /\ 0 \in 0 .. MaxDispatch /\ "unknown" \in Outcomes
            /\ 0 \in Nat
        BY MailAssumption DEF Outcomes
      <4>2. QED
        BY <4>1 DEF Job, Jobs
    <3>8. Job(w, a).mail = a /\ JobFits(w, Job(w, a), s, box[a])
      BY <3>3 DEF JobFits, Job
    <3> DEFINE j == Job(w, a)
    <3>9. \E i \in {Idle} \cup Jobs :
             /\ job' = [job EXCEPT ![w] = i]
             /\ i # Idle => JobFits(w, i, row'[i.mail], box'[i.mail])
      <4>1. j \in Jobs /\ job' = [job EXCEPT ![w] = j] /\ j.mail = a
        BY <2>2, <3>7, <3>8
      <4>2. JobFits(w, j, row'[j.mail], box'[j.mail])
        BY <3>5, <3>8
      <4> HIDE DEF j
      <4>3. QED
        BY <4>1, <4>2
    <3>10. ASSUME NEW x \in Mails
           PROVE  /\ RowFits(row[x], box[x])' /\ row'[x].count = row[x].count
                  /\ \/ PhaseOf(row'[x]) = PhaseOf(row[x])
                     \/ PhaseOf(row[x]) = "uncertain" /\ PhaseOf(row'[x]) = "given up"
                  /\ \/ row'[x] = row[x]
                     \/ row[x].left = 0 /\ (row'[x].left = 0 \/ row'[x].holder = w)
      <4>1. CASE x = a
        BY <3>1, <3>3, <3>4, <3>5, <4>1
      <4>2. CASE x # a
        BY <1>1, <3>5, <4>2
      <4>3. QED
        BY <4>1, <4>2
    <3>11. QED
      BY <3>6, <3>9, <3>10 DEF Claiming
  <2>3. QED
    BY <2>1, <2>2
<1>3. PICK j \in {Idle} \cup Jobs :
             /\ job' = [job EXCEPT ![w] = j]
             /\ j # Idle => JobFits(w, j, row'[j.mail], box'[j.mail])
  BY <1>2 DEF Claiming
<1>4. MailKept'
  <2>1. box' \in [Mails -> Boxes]
    BY DEF MailKept, MailTypeOK
  <2>2. \A a \in Mails : RowFits(row[a], box[a])' /\ (box[a].copies = 1 => box'[a].copies = 1)
    BY <1>2 DEF Claiming
  <2>3. \A v \in Senders \ {w}, a \in Mails :
             \/ row'[a] = row[a] /\ box'[a] = box[a]
             \/ /\ row[a].holder # v \/ row[a].left = 0
                /\ row'[a].holder # v \/ row'[a].left = 0
    BY <1>2 DEF Claiming
  <2>4. QED
    BY <1>2, <1>3, <2>1, <2>2, <2>3, KeptByMove DEF Claiming
<1>5. Promised
  <2> DEFINE as == {a \in Mails : PhaseOf(row[a]) = "uncertain" /\ PhaseOf(row'[a]) = "given up"}
  <2>1. as \in SUBSET Mails /\ \A a \in as : phase[a] = "uncertain"
    BY DEF phase
  <2>2. phase' = [a \in Mails |-> IF a \in as THEN "given up" ELSE phase[a]]
    BY <1>2 DEF phase, Claiming
  <2>3. /\ [a \in Mails |-> row[a].count]' = [a \in Mails |-> row[a].count]
        /\ [a \in Mails |-> box[a].copies]' = [a \in Mails |-> box[a].copies]
    BY <1>2 DEF Claiming
  <2> HIDE DEF as
  <2>4. Abstract!GiveUpSome
    BY <2>1, <2>2, <2>3 DEF Abstract!GiveUpSome
  <2>5. QED
    BY <2>4 DEF Promised, Abstract!PromiseNext
<1>6. QED
  BY <1>4, <1>5

LEMMA StoppedGivesUp ==
  ASSUME NEW r \in Rows, NEW b \in Boxes, RowFits(r, b), Exhausted(r), r.left = 0, ~r.stopped,
         r.state \in {"queued", "sending", "unknown"}
  PROVE  /\ r.state # "queued" => GivenUp(r, Stopped(r), b)
         /\ GivenUp(r, Stopped([r EXCEPT !.state = "unknown"]), b)
         /\ r.state # "queued" => GivenUp(r, [r EXCEPT !.state = "unknown", !.stopped = TRUE], b)
<1> DEFINE q == [r EXCEPT !.state = "unknown"]
<1> DEFINE s == Stopped(r)
<1> DEFINE t == Stopped(q)
<1> DEFINE u == [q EXCEPT !.stopped = TRUE]
<1>1. r.count > 0 /\ PhaseOf(r) = "uncertain"
  BY DEF Exhausted, PhaseOf, Settled, Open, Rows
<1>2. s \in Rows /\ RowFits(s, b)
  BY StoppedMoves DEF Moves
<1>3. t \in Rows /\ RowFits(t, b)
  BY UnknownStoppedMoves DEF Moves, Settled, Open
<1>4. q \in Rows /\ u \in Rows
  <2>1. "unknown" \in States /\ TRUE \in BOOLEAN
    BY DEF States
  <2>2. QED
    BY <2>1, RowUpdates
<1>5. /\ q.state = "unknown" /\ q.left = 0 /\ q.count = r.count
      /\ u.state = "unknown" /\ u.stopped /\ u.left = 0 /\ u.count = r.count /\ u.age = r.age
      /\ u.content = r.content /\ u.provider = r.provider
  BY DEF Rows
<1>6. /\ s.stopped /\ s.left = 0 /\ s.count = r.count
      /\ r.state # "queued" => s.state = "unknown"
  BY <1>1 DEF Stopped, Released, Uncertain, Rows
<1>7. t.stopped /\ t.left = 0 /\ t.count = r.count /\ t.state = "unknown"
  <2> HIDE DEF q
  <2>1. QED
    BY <1>1, <1>4, <1>5 DEF Stopped, Released, Uncertain, Rows
<1> HIDE DEF q, s, t, u
<1>8. RowFits(u, b)
  BY <1>1, <1>5 DEF RowFits, Rows
<1>9. /\ PhaseOf(t) = "given up" /\ PhaseOf(u) = "given up"
      /\ r.state # "queued" => PhaseOf(s) = "given up"
  BY <1>5, <1>6, <1>7 DEF PhaseOf, Settled
<1>10. /\ GivenUp(r, t, b) /\ GivenUp(r, u, b)
       /\ r.state # "queued" => GivenUp(r, s, b)
  BY <1>1, <1>2, <1>3, <1>4, <1>5, <1>6, <1>7, <1>8, <1>9 DEF GivenUp
<1>11. QED
  BY <1>10 DEF q, s, t, u

-----------------------------------------------------------------------------
(* What two or three of the outboxes do alike *)

LEMMA IdsAreNaturals == \A n \in Nat : \A id \in 0 .. n + 1 : id \in Nat
  OBVIOUS

LEMMA SendKeeps ==
  ASSUME MailKept, NEW w \in Senders, job[w].pc = "send", UNCHANGED row,
         \/ Goto(w, "finish") /\ UNCHANGED box
         \/ /\ job[w].content = row[job[w].mail].content /\ job[w].left >= Margin
            /\ row[job[w].mail].age < Window
            /\ \E outcome \in Outcomes, id \in 0 .. box[job[w].mail].copies + 1 :
                  /\ SendProviderEmail(job[w].mail, job[w].content, outcome, id)
                  /\ job' = [job EXCEPT ![w].pc = "finish", ![w].id = id, ![w].outcome =
                        IF outcome = "failed" /\ job[w].count > 1 THEN "unknown" ELSE outcome]
  PROVE  MailKept' /\ Promised
<1>1. CASE Goto(w, "finish") /\ UNCHANGED box
  BY <1>1, TurnMoves
<1>2. ASSUME job[w].content = row[job[w].mail].content, job[w].left >= Margin,
             row[job[w].mail].age < Window,
             NEW outcome \in Outcomes, NEW id \in 0 .. box[job[w].mail].copies + 1,
             SendProviderEmail(job[w].mail, job[w].content, outcome, id),
             job' = [job EXCEPT ![w].pc = "finish", ![w].id = id, ![w].outcome =
                      IF outcome = "failed" /\ job[w].count > 1 THEN "unknown" ELSE outcome]
      PROVE  MailKept' /\ Promised
  <2>1. job[w].pc \in Stages
    BY DEF Stages
  <2>2. box[job[w].mail].copies \in Nat
    BY <2>1, NotIdle DEF Boxes
  <2>3. id \in Nat
    BY <2>2, IdsAreNaturals, Zenon
  <2>4. QED
    BY <1>2, <2>3, AskedMoves
<1>3. QED
  BY <1>1, <1>2

\* Tickets and messages.
LEMMA SaveKeeps ==
  ASSUME MailKept, NEW w \in Senders, job[w].pc = "save", UNCHANGED box,
         \/ /\ Live(w) /\ row[job[w].mail].content = Nobody
            /\ Put(job[w].mail, [row[job[w].mail] EXCEPT !.content = w])
            /\ \/ job' = [job EXCEPT ![w].pc = "begin", ![w].content = w]
               \/ Goto(w, "stop")
         \/ UNCHANGED row /\ (Goto(w, "stop") \/ Goto(w, "defer") \/ Done(w))
  PROVE  MailKept' /\ Promised
<1>1. CASE /\ Live(w) /\ row[job[w].mail].content = Nobody
           /\ Put(job[w].mail, [row[job[w].mail] EXCEPT !.content = w])
           /\ \/ job' = [job EXCEPT ![w].pc = "begin", ![w].content = w]
              \/ Goto(w, "stop")
  BY <1>1, SaveMoves
<1>2. CASE UNCHANGED row /\ (Goto(w, "stop") \/ Goto(w, "defer"))
  BY <1>2, TurnMoves
<1>3. CASE UNCHANGED row /\ Done(w)
  BY <1>3, NothingDone DEF Stages
<1>4. QED
  BY <1>1, <1>2, <1>3

LEMMA FinishKeeps ==
  ASSUME MailKept, NEW w \in Senders, job[w].pc = "finish", Done(w), UNCHANGED box,
         \/ UNCHANGED row
         \/ Live(w) /\ Put(job[w].mail, Released(row[job[w].mail]))
         \/ /\ Live(w) /\ row[job[w].mail].state # "accepted"
            /\ Put(job[w].mail,
                   Ended(row[job[w].mail],
                         IF job[w].outcome = "failed" /\ row[job[w].mail].count > 1
                         THEN "unknown" ELSE job[w].outcome,
                         job[w].id))
  PROVE  MailKept' /\ Promised
<1>1. job[w].pc \in Stages
  BY DEF Stages
<1>2. QED
  BY <1>1, NothingDone, ReleaseEnds, EndedKeeps

LEMMA StopKeeps ==
  ASSUME MailKept, NEW w \in Senders, job[w].pc \in Stages, Done(w), UNCHANGED box,
         IF Live(w) THEN Put(job[w].mail, Stopped(row[job[w].mail])) ELSE UNCHANGED row
  PROVE  MailKept' /\ Promised
  BY StopEnds, NothingDone

-----------------------------------------------------------------------------
(* The ticket outbox *)

LEMMA ClaimKeeps ==
  ASSUME MailKept, NEW w \in Senders, Claim(w)
  PROVE  MailKept' /\ Promised
<1> DEFINE f == [a \in Mails |->
            IF row[a].state \in {"sending", "unknown"} /\ ~row[a].stopped
                 /\ row[a].left = 0 /\ Exhausted(row[a])
            THEN [row[a] EXCEPT !.state = "unknown", !.stopped = TRUE] ELSE row[a]]
<1>1. ASSUME NEW a \in Mails PROVE f[a] = row[a] \/ GivenUp(row[a], f[a], box[a])
  <2>1. row[a] \in Rows /\ box[a] \in Boxes /\ RowFits(row[a], box[a])
    BY DEF MailKept, MailTypeOK
  <2>2. QED
    BY <2>1, StoppedGivesUp
<1>2. f \in [Mails -> Rows]
  <2>1. \A a \in Mails : f[a] \in Rows
    BY ZenonT(60), <1>1 DEF GivenUp, MailKept, MailTypeOK
  <2>2. QED
    BY <2>1
<1>3. /\ job[w] = Idle /\ UNCHANGED box
      /\ \/ row' = f /\ UNCHANGED job
         \/ \E a \in Mails : /\ Claimable(f[a]) /\ row' = [f EXCEPT ![a] = Leased(f[a], w)]
                             /\ job' = [job EXCEPT ![w] = Job(w, a)]
  BY DEF Claim
<1> HIDE DEF f
<1>4. QED
  BY <1>1, <1>2, <1>3, SweptKeeps

LEMMA WorkKeeps ==
  ASSUME MailKept, NEW w \in Senders, Work(w)
  PROVE  MailKept' /\ Promised
<1>1. CASE Unusable(w)
  BY <1>1, TurnMoves DEF Unusable
<1>2. CASE Stop(w)
  <2>1. job[w].pc \in Stages
    BY <1>2 DEF Stop, Stages
  <2>2. QED
    BY <1>2, <2>1, StopKeeps DEF Stop
<1>3. CASE Prepare(w)
  <2>1. job[w].pc = "prepare" /\ job[w].pc \in Stages /\ UNCHANGED box
    BY <1>3 DEF Prepare, Stages
  <2>2. \/ UNCHANGED row /\ Done(w)
        \/ Live(w) /\ Put(job[w].mail, Stopped(row[job[w].mail])) /\ Done(w)
        \/ UNCHANGED row
              /\ job' = [job EXCEPT ![w].pc = "begin", ![w].content = row[job[w].mail].content]
        \/ Goto(w, "save") /\ UNCHANGED row
    BY <1>3 DEF Prepare
  <2>3. QED
    BY <2>1, <2>2, NothingDone, StopEnds, TakenMoves, TurnMoves
<1>4. CASE Save(w)
  BY <1>4, SaveKeeps DEF Save
<1>5. CASE Begin(w)
  <2>1. job[w].pc = "begin" /\ job[w].pc \in Stages /\ UNCHANGED box
    BY <1>5 DEF Begin, Stages
  <2>2. CASE UNCHANGED row /\ Done(w)
    BY <2>1, <2>2, NothingDone
  <2>3. CASE Live(w) /\ Put(job[w].mail, Stopped(row[job[w].mail])) /\ Done(w)
    BY <2>1, <2>3, StopEnds
  <2>4. CASE ~(UNCHANGED row /\ Done(w))
             /\ ~(Live(w) /\ Put(job[w].mail, Stopped(row[job[w].mail])) /\ Done(w))
    BY <1>5, <2>1, <2>4, DispatchMoves DEF Begin
  <2>5. QED
    BY <2>2, <2>3, <2>4
<1>6. CASE Send(w)
  BY <1>6, SendKeeps DEF Send, Sendable
<1>7. CASE Finish(w)
  BY <1>7, FinishKeeps DEF Finish
<1>8. QED
  BY <1>1, <1>2, <1>3, <1>4, <1>5, <1>6, <1>7 DEF Work

LEMMA TicketEmailKeeps ==
  MailKept /\ [TicketEmailNext]_mailVars => MailKept' /\ Promised
<1> SUFFICES ASSUME MailKept, [TicketEmailNext]_mailVars
             PROVE  MailKept' /\ Promised
  OBVIOUS
<1>1. CASE Tick
  BY <1>1, TickMoves
<1>2. ASSUME NEW w \in Senders, Claim(w) \/ Work(w) \/ Killed(w)
      PROVE  MailKept' /\ Promised
  BY <1>2, ClaimKeeps, WorkKeeps, KilledKeeps
<1>3. ASSUME NEW a \in Mails, Observe(a) PROVE MailKept' /\ Promised
  BY <1>3, ObservedMoves DEF Observe
<1>4. CASE UNCHANGED mailVars
  <2>1. MailKept'
    BY <1>4 DEF mailVars, MailKept, MailTypeOK
  <2>2. UNCHANGED Abstract!vars
    BY <1>4 DEF mailVars, Abstract!vars, phase
  <2>3. QED
    BY <2>1, <2>2 DEF Promised
<1>5. QED
  BY <1>1, <1>2, <1>3, <1>4 DEF TicketEmailNext

-----------------------------------------------------------------------------
(* Organizers' messages *)

LEMMA ClaimMessageKeeps ==
  ASSUME MailKept, NEW w \in Senders, ClaimMessage(w)
  PROVE  MailKept' /\ Promised
<1> DEFINE f == [a \in Mails |->
            IF row[a].state \in {"sending", "unknown"} /\ ~row[a].stopped /\ Exhausted(row[a])
            THEN Stopped(row[a]) ELSE row[a]]
<1>1. ASSUME NEW a \in Mails PROVE f[a] = row[a] \/ GivenUp(row[a], f[a], box[a])
  <2>1. /\ row[a] \in Rows /\ box[a] \in Boxes /\ RowFits(row[a], box[a]) /\ row[a].left = 0
    BY DEF MailKept, MailTypeOK, ClaimMessage
  <2>2. QED
    BY <2>1, StoppedGivesUp
<1>2. f \in [Mails -> Rows]
  <2>1. \A a \in Mails : f[a] \in Rows
    BY <1>1 DEF GivenUp, MailKept, MailTypeOK
  <2>2. QED
    BY <2>1
<1>3. /\ job[w] = Idle /\ UNCHANGED box
      /\ \/ row' = f /\ UNCHANGED job
         \/ \E a \in Mails : /\ Claimable(f[a]) /\ row' = [f EXCEPT ![a] = Leased(f[a], w)]
                             /\ job' = [job EXCEPT ![w] = Job(w, a)]
  BY DEF ClaimMessage
<1> HIDE DEF f
<1>4. QED
  BY <1>1, <1>2, <1>3, SweptKeeps

LEMMA WorkOnMessageKeeps ==
  ASSUME MailKept, NEW w \in Senders, WorkOnMessage(w)
  PROVE  MailKept' /\ Promised
<1>1. CASE UnusableMessage(w)
  BY <1>1, TurnMoves DEF UnusableMessage
<1>2. CASE StopMessage(w)
  <2>1. job[w].pc \in Stages
    BY <1>2 DEF StopMessage, Stages
  <2>2. QED
    BY <1>2, <2>1, StopKeeps DEF StopMessage
<1>3. CASE PrepareMessage(w)
  <2>1. job[w].pc = "prepare" /\ job[w].pc \in Stages /\ UNCHANGED <<row, box>>
    BY <1>3 DEF PrepareMessage, Stages
  <2>2. \/ Done(w)
        \/ job' = [job EXCEPT ![w].pc = "begin", ![w].content = row[job[w].mail].content]
        \/ Goto(w, "save")
    BY <1>3 DEF PrepareMessage
  <2>3. QED
    BY <2>1, <2>2, NothingDone, TakenMoves, TurnMoves
<1>4. CASE SaveMessage(w)
  BY <1>4, SaveKeeps DEF SaveMessage
<1>5. CASE BeginMessage(w)
  <2>1. job[w].pc = "begin" /\ job[w].pc \in Stages /\ UNCHANGED box
    BY <1>5 DEF BeginMessage, Stages
  <2>2. CASE UNCHANGED row /\ Done(w)
    BY <2>1, <2>2, NothingDone
  <2>3. CASE Live(w) /\ Put(job[w].mail, Stopped(row[job[w].mail])) /\ Done(w)
    BY <2>1, <2>3, StopEnds
  <2>4. CASE /\ Live(w) /\ Put(job[w].mail, [Released(row[job[w].mail]) EXCEPT !.wait = Backoff])
             /\ Done(w)
    BY <2>1, <2>4, ReleaseEnds
  <2>5. CASE /\ ~(UNCHANGED row /\ Done(w))
             /\ ~(Live(w) /\ Put(job[w].mail, Stopped(row[job[w].mail])) /\ Done(w))
             /\ ~(/\ Live(w) /\ Put(job[w].mail, [Released(row[job[w].mail]) EXCEPT !.wait = Backoff])
                  /\ Done(w))
    BY <1>5, <2>1, <2>5, DispatchMoves DEF BeginMessage
  <2>6. QED
    BY <2>2, <2>3, <2>4, <2>5
<1>6. CASE SendMessage(w)
  BY <1>6, SendKeeps DEF SendMessage
<1>7. CASE FinishMessage(w)
  BY <1>7, FinishKeeps DEF FinishMessage
<1>8. QED
  BY <1>1, <1>2, <1>3, <1>4, <1>5, <1>6, <1>7 DEF WorkOnMessage

LEMMA OrganizerMailKeeps ==
  MailKept /\ [OrganizerMailNext]_mailVars => MailKept' /\ Promised
<1> SUFFICES ASSUME MailKept, [OrganizerMailNext]_mailVars
             PROVE  MailKept' /\ Promised
  OBVIOUS
<1>1. CASE Tick
  BY <1>1, TickMoves
<1>2. ASSUME NEW w \in Senders, ClaimMessage(w) \/ WorkOnMessage(w) \/ Killed(w)
      PROVE  MailKept' /\ Promised
  BY <1>2, ClaimMessageKeeps, WorkOnMessageKeeps, KilledKeeps
<1>3. ASSUME NEW a \in Mails, ObserveMessage(a) PROVE MailKept' /\ Promised
  BY <1>3, ObservedMoves DEF ObserveMessage
<1>4. CASE UNCHANGED mailVars
  <2>1. MailKept'
    BY <1>4 DEF mailVars, MailKept, MailTypeOK
  <2>2. UNCHANGED Abstract!vars
    BY <1>4 DEF mailVars, Abstract!vars, phase
  <2>3. QED
    BY <2>1, <2>2 DEF Promised
<1>5. QED
  BY <1>1, <1>2, <1>3, <1>4 DEF OrganizerMailNext

-----------------------------------------------------------------------------
(* The waitlist *)

LEMMA ClaimDeliveryKeeps ==
  ASSUME MailKept, NEW w \in Senders, ClaimDelivery(w)
  PROVE  MailKept' /\ Promised
<1>1. PICK a \in Mails :
        /\ job[w] = Idle /\ UNCHANGED box /\ Waiting(row[a])
        /\ \/ /\ Exhausted(row[a])
              /\ Put(a, Stopped([row[a] EXCEPT !.state = "unknown"]))
              /\ UNCHANGED job
           \/ /\ ~Exhausted(row[a]) /\ Put(a, Leased(row[a], w))
              /\ job' = [job EXCEPT ![w] = Job(w, a)]
  BY DEF ClaimDelivery
<1>2. row[a] \in Rows /\ box[a] \in Boxes /\ RowFits(row[a], box[a]) /\ row \in [Mails -> Rows]
  BY DEF MailKept, MailTypeOK
<1>3. CASE Exhausted(row[a]) /\ UNCHANGED job
  <2> DEFINE s == Stopped([row[a] EXCEPT !.state = "unknown"])
  <2>1. GivenUp(row[a], s, box[a])
    BY <1>1, <1>2, <1>3, StoppedGivesUp DEF Waiting, Open
  <2>2. row' = [row EXCEPT ![a] = s]
    BY <1>1, <1>3 DEF Put
  <2> DEFINE f == [row EXCEPT ![a] = s]
  <2> HIDE DEF s
  <2>3. f \in [Mails -> Rows]
    BY <1>2, <2>1 DEF GivenUp
  <2>4. \A x \in Mails : f[x] = row[x] \/ GivenUp(row[x], f[x], box[x])
    BY <1>2, <2>1
  <2> HIDE DEF f
  <2>5. row' = f
    BY <2>2 DEF f
  <2>6. QED
    BY <1>1, <1>3, <2>3, <2>4, <2>5, SweptKeeps
<1>4. CASE ~Exhausted(row[a])
  <2>1. /\ Claimable(row[a]) /\ row' = [row EXCEPT ![a] = Leased(row[a], w)]
        /\ job' = [job EXCEPT ![w] = Job(w, a)]
    BY <1>1, <1>4 DEF Claimable, Put
  <2>2. QED
    BY <1>1, <1>2, <2>1, SweptKeeps
<1>5. QED
  BY <1>1, <1>3, <1>4

\* The holder of a lease moves its row and gives the delivery back.
LEMMA DeferMoves ==
  ASSUME MailKept, NEW w \in Senders, job[w].pc \in {"prepare", "begin"}, Live(w),
         NEW s, Moves(row[job[w].mail], s, box[job[w].mail]), s.holder = w, s.left = 0,
         Put(job[w].mail, s), UNCHANGED box, Goto(w, "defer")
  PROVE  MailKept' /\ Promised
<1> DEFINE k == [job[w] EXCEPT !.pc = "defer"]
<1>1. /\ job[w] \in Jobs /\ job[w].pc \in Stages /\ "defer" \in Stages
      /\ JobFits(w, job[w], row[job[w].mail], box[job[w].mail])
  BY NotIdle DEF Stages
<1>2. k \in Jobs /\ job' = [job EXCEPT ![w] = k]
  BY <1>1, JobUpdates DEF Goto
<1>3. k.pc = "defer" /\ k.mail = job[w].mail /\ k.left = job[w].left /\ k.outcome = job[w].outcome
  BY <1>1 DEF Jobs
<1> HIDE DEF k
<1>4. JobFits(w, k, s, box[job[w].mail])
  BY <1>1, <1>3 DEF JobFits
<1>5. QED
  BY <1>1, <1>2, <1>3, <1>4, OwnerMoves

LEMMA RuledKeeps ==
  ASSUME MailKept, NEW w \in Senders, job[w].pc \in {"prepare", "begin"}, Live(w), Ruled(w),
         UNCHANGED box, Goto(w, "defer")
  PROVE  MailKept' /\ Promised
<1> DEFINE r == row[job[w].mail]
<1> DEFINE b == box[job[w].mail]
<1> DEFINE s == [Released(r) EXCEPT !.wait = Backoff]
<1>1. r \in Rows /\ b \in Boxes /\ RowFits(r, b) /\ Backoff \in 0 .. Backoff
  BY NotIdle, MailAssumption DEF Stages
<1>2. CASE UNCHANGED row
  BY <1>2, TurnMoves
<1>3. CASE Put(job[w].mail, s)
  <2>1. Moves(r, s, b)
    BY <1>1, ReleasedMoves
  <2>2. s.holder = w /\ s.left = 0
    BY <1>1 DEF Released, Rows, Live
  <2> HIDE DEF s
  <2>3. QED
    BY <1>3, <2>1, <2>2, DeferMoves
<1>4. CASE Put(job[w].mail, Stopped(r))
  <2>1. Moves(r, Stopped(r), b)
    BY <1>1, StoppedMoves
  <2>2. Stopped(r).holder = w /\ Stopped(r).left = 0
    BY <1>1 DEF Stopped, Released, Rows, Live
  <2>3. QED
    BY <1>4, <2>1, <2>2, DeferMoves
<1>5. QED
  BY <1>2, <1>3, <1>4 DEF Ruled

LEMMA WorkOnDeliveryKeeps ==
  ASSUME MailKept, NEW w \in Senders, WorkOnDelivery(w)
  PROVE  MailKept' /\ Promised
<1>1. CASE StopDelivery(w)
  <2>1. job[w].pc \in Stages
    BY <1>1 DEF StopDelivery, Stages
  <2>2. QED
    BY <1>1, <2>1, StopKeeps DEF StopDelivery
<1>2. CASE Defer(w)
  <2>1. job[w].pc \in Stages /\ UNCHANGED box /\ Done(w)
    BY <1>2 DEF Defer, Stages
  <2>2. UNCHANGED row \/ (Live(w) /\ Put(job[w].mail, Released(row[job[w].mail])))
    BY <1>2 DEF Defer
  <2>3. QED
    BY <2>1, <2>2, NothingDone, ReleaseEnds
<1>3. CASE PrepareDelivery(w)
  <2>1. job[w].pc = "prepare" /\ UNCHANGED box
    BY <1>3 DEF PrepareDelivery
  <2>2. \/ Live(w) /\ Ruled(w) /\ Goto(w, "defer")
        \/ UNCHANGED row /\ (Goto(w, "defer") \/ Goto(w, "stop") \/ Goto(w, "save"))
        \/ UNCHANGED row
              /\ job' = [job EXCEPT ![w].pc = "begin", ![w].content = row[job[w].mail].content]
    BY <1>3 DEF PrepareDelivery
  <2>3. QED
    BY <2>1, <2>2, RuledKeeps, TurnMoves, TakenMoves
<1>4. CASE SaveDelivery(w)
  BY <1>4, SaveKeeps DEF SaveDelivery
<1>5. CASE BeginDelivery(w)
  <2> DEFINE r == row[job[w].mail]
  <2>1. job[w].pc = "begin" /\ UNCHANGED box
    BY <1>5 DEF BeginDelivery
  <2>2. CASE UNCHANGED row /\ (Goto(w, "defer") \/ Goto(w, "stop"))
    BY <2>1, <2>2, TurnMoves
  <2>3. CASE Live(w) /\ Ruled(w) /\ Goto(w, "defer")
    BY <2>1, <2>3, RuledKeeps
  <2>4. CASE /\ Live(w) /\ Exhausted(r) /\ ~Settled(r) /\ Goto(w, "defer")
             /\ Put(job[w].mail, Stopped([r EXCEPT !.state = "unknown"]))
    <3> DEFINE q == [r EXCEPT !.state = "unknown"]
    <3>1. r \in Rows /\ box[job[w].mail] \in Boxes /\ RowFits(r, box[job[w].mail])
      BY <2>1, NotIdle DEF Stages
    <3>2. Moves(r, Stopped(q), box[job[w].mail])
      BY <2>4, <3>1, UnknownStoppedMoves
    <3>3. q \in Rows /\ q.holder = w
      BY <2>4, <3>1 DEF Rows, States, Live
    <3> HIDE DEF q
    <3>4. Stopped(q).holder = w /\ Stopped(q).left = 0
      BY <3>3 DEF Stopped, Released, Rows
    <3>5. Put(job[w].mail, Stopped(q))
      BY <2>4 DEF q
    <3>6. QED
      BY <2>1, <2>4, <3>2, <3>4, <3>5, DeferMoves
  <2>5. CASE /\ Live(w) /\ r.state \in {"queued", "unknown"} /\ r.content # Nobody
             /\ ~r.stopped /\ ~Exhausted(r) /\ Put(job[w].mail, Sending(r))
             /\ job' = [job EXCEPT ![w].pc = "send", ![w].count = r.count + 1]
    BY <2>1, <2>5, DispatchMoves
  <2>6. QED
    BY <1>5, <2>2, <2>3, <2>4, <2>5 DEF BeginDelivery, Settled, Open
<1>6. CASE SendDelivery(w)
  BY <1>6, SendKeeps DEF SendDelivery
<1>7. CASE FinishDelivery(w)
  BY <1>7, FinishKeeps DEF FinishDelivery
<1>8. QED
  BY <1>1, <1>2, <1>3, <1>4, <1>5, <1>6, <1>7 DEF WorkOnDelivery

LEMMA WaitlistMailKeeps ==
  MailKept /\ [WaitlistMailNext]_mailVars => MailKept' /\ Promised
<1> SUFFICES ASSUME MailKept, [WaitlistMailNext]_mailVars
             PROVE  MailKept' /\ Promised
  OBVIOUS
<1>1. CASE Tick
  BY <1>1, TickMoves
<1>2. ASSUME NEW w \in Senders, ClaimDelivery(w) \/ WorkOnDelivery(w) \/ Killed(w)
      PROVE  MailKept' /\ Promised
  BY <1>2, ClaimDeliveryKeeps, WorkOnDeliveryKeeps, KilledKeeps
<1>3. ASSUME NEW a \in Mails, ObserveDelivery(a) PROVE MailKept' /\ Promised
  BY <1>3, ObservedMoves DEF ObserveDelivery
<1>4. CASE UNCHANGED mailVars
  <2>1. MailKept'
    BY <1>4 DEF mailVars, MailKept, MailTypeOK
  <2>2. UNCHANGED Abstract!vars
    BY <1>4 DEF mailVars, Abstract!vars, phase
  <2>3. QED
    BY <2>1, <2>2 DEF Promised
<1>5. QED
  BY <1>1, <1>2, <1>3, <1>4 DEF WaitlistMailNext

-----------------------------------------------------------------------------
(* The theorems *)

LEMMA MailStarts == MailInit => MailKept /\ Abstract!PromiseInit
<1> SUFFICES ASSUME MailInit PROVE MailKept /\ Abstract!PromiseInit
  OBVIOUS
<1>1. NewRow \in Rows
  BY MailAssumption DEF NewRow, Rows, States
<1>2. NewBox \in Boxes
  BY MailAssumption DEF NewBox, Boxes
<1>3. MailTypeOK
  BY <1>1, <1>2 DEF MailInit, MailTypeOK
<1>4. RowFits(NewRow, NewBox) /\ PhaseOf(NewRow) = "waiting"
  BY DEF RowFits, NewRow, NewBox, PhaseOf, Settled, Open
<1>5. MailKept
  BY <1>3, <1>4 DEF MailInit, MailKept
<1>6. /\ phase = [a \in Mails |-> "waiting"]
      /\ [a \in Mails |-> row[a].count] = [a \in Mails |-> 0]
      /\ [a \in Mails |-> box[a].copies] = [a \in Mails |-> 0]
  BY <1>4 DEF MailInit, phase, NewRow, NewBox
<1>7. QED
  BY <1>5, <1>6 DEF Abstract!PromiseInit

LEMMA KeptIsEnough == MailKept => MailInvariant
<1> SUFFICES ASSUME MailKept PROVE MailInvariant
  OBVIOUS
<1>1. SendIsCurrent
  <2> SUFFICES ASSUME NEW w \in Senders, job[w] # Idle, job[w].pc \in {"send", "finish"},
                      job[w].left > 0
               PROVE  LET r == row[job[w].mail] IN
                      /\ r.count = job[w].count
                      /\ r.state = "accepted"
                           \/ (r.holder = w /\ r.left = job[w].left /\ r.state = "sending")
    BY DEF SendIsCurrent
  <2>1. JobFits(w, job[w], row[job[w].mail], box[job[w].mail])
    BY DEF MailKept
  <2>2. QED
    BY <2>1 DEF JobFits
<1>2. OneContent
  <2> SUFFICES ASSUME NEW a \in Mails PROVE Cardinality(box[a].contents) <= 1
    BY DEF OneContent
  <2>1. box[a].contents \subseteq {row[a].content}
    BY DEF MailKept, RowFits
  <2>2. /\ IsFiniteSet({row[a].content}) /\ Cardinality({row[a].content}) = 1
    BY FS_Singleton
  <2>3. QED
    BY <2>1, <2>2, FS_Subset
<1>3. QED
  BY <1>1, <1>2 DEF MailInvariant, MailKept

\* Two workers that both believe they own a ticket e-mail, a dispatch recorded
\* against another worker's request, a second rendering with another link in it:
\* none of it happens, whatever runs out or is killed on the way.
THEOREM TicketMailIsConsistent == TicketEmailSpec => []MailInvariant
<1>1. TicketEmailSpec => []MailKept
  BY MailStarts, TicketEmailKeeps, PTL DEF TicketEmailSpec
<1>2. QED
  BY <1>1, KeptIsEnough, PTL

\* The same of an organizer's messages.
THEOREM MessagesAreConsistent == OrganizerMailSpec => []MailInvariant
<1>1. OrganizerMailSpec => []MailKept
  BY MailStarts, OrganizerMailKeeps, PTL DEF OrganizerMailSpec
<1>2. QED
  BY <1>1, KeptIsEnough, PTL

\* The same of the waitlist, which gives its leases back.
THEOREM WaitlistMailIsConsistent == WaitlistMailSpec => []MailInvariant
<1>1. WaitlistMailSpec => []MailKept
  BY MailStarts, WaitlistMailKeeps, PTL DEF WaitlistMailSpec
<1>2. QED
  BY <1>1, KeptIsEnough, PTL

\* The ticket outbox implements the promise of one copy, sent within its budget,
\* of which no more is said than is known.
THEOREM TicketMailKeepsPromise == TicketEmailSpec => KeepsPromise
<1>1. MailKept /\ [TicketEmailNext]_mailVars => [Abstract!PromiseNext]_(Abstract!vars)
  BY TicketEmailKeeps DEF Promised
<1>2. TicketEmailSpec => Abstract!PromiseInit /\ [][Abstract!PromiseNext]_(Abstract!vars)
  BY <1>1, MailStarts, TicketEmailKeeps, PTL DEF TicketEmailSpec
<1>3. QED
  BY <1>2 DEF KeepsPromise, Abstract!Promise

\* So does the outbox of the organizers' messages.
THEOREM MessagesKeepPromise == OrganizerMailSpec => KeepsPromise
<1>1. MailKept /\ [OrganizerMailNext]_mailVars => [Abstract!PromiseNext]_(Abstract!vars)
  BY OrganizerMailKeeps DEF Promised
<1>2. OrganizerMailSpec => Abstract!PromiseInit /\ [][Abstract!PromiseNext]_(Abstract!vars)
  BY <1>1, MailStarts, OrganizerMailKeeps, PTL DEF OrganizerMailSpec
<1>3. QED
  BY <1>2 DEF KeepsPromise, Abstract!Promise

\* And the waitlist's.
THEOREM WaitlistMailKeepsPromise == WaitlistMailSpec => KeepsPromise
<1>1. MailKept /\ [WaitlistMailNext]_mailVars => [Abstract!PromiseNext]_(Abstract!vars)
  BY WaitlistMailKeeps DEF Promised
<1>2. WaitlistMailSpec => Abstract!PromiseInit /\ [][Abstract!PromiseNext]_(Abstract!vars)
  BY <1>1, MailStarts, WaitlistMailKeeps, PTL DEF WaitlistMailSpec
<1>3. QED
  BY <1>2 DEF KeepsPromise, Abstract!Promise

-----------------------------------------------------------------------------
(* The cover of an event *)

Statuses == {"none", "pending", "failed", "ready"}
Shots == [status : Statuses, again : BOOLEAN, attempts : Nat, token : Nat, leased : BOOLEAN]
Sets  == [rev : Nat, selected : Slots \cup {0}, live : BOOLEAN, active : BOOLEAN, clean : BOOLEAN]
Steps == [gen : Gens, slot : Slots, seen : {0, 1}, token : Nat,
          pc : {"look", "draw", "ready", "again", "blocked"}]
Edits == [id : Nat, kind : {"upload", "remove", "select"}, rev : Nat, obj : Objects \cup {None},
          pc : {"commit", "clean"}, old : SUBSET Objects]

DrawTypeOK ==
    /\ shots \in [Gens -> [Slots -> Shots]]
    /\ steps \subseteq Steps
    /\ drawn \in [Gens -> [Slots -> [{0, 1} -> Nat]]]

AttachTypeOK ==
    /\ covers \in Seq(Objects \cup {None}) /\ Len(covers) # 0
    /\ gens \in [Gens -> Sets]
    /\ edits \subseteq Edits
    /\ serial \in Nat

\* What was drawn was drawn for an attempt that is over; nothing is claimed of
\* a generation nobody asked for.
DrawsAreCounted ==
    \A g \in Gens, s \in Slots :
        /\ \A a \in {0, 1} : drawn[g][s][a] <= 1 /\ (drawn[g][s][a] # 0 => a < shots[g][s].attempts)
        /\ g > latest => shots[g][s].attempts = 0

\* A request that may still draw is the only one of its attempt, and the attempt
\* has not been drawn.
StepsAreClaims ==
    \A j \in steps :
        /\ j.seen < shots[j.gen][j.slot].attempts
        /\ j.pc \in {"look", "draw"} => drawn[j.gen][j.slot][j.seen] = 0
        /\ \A k \in steps : k.gen = j.gen /\ k.slot = j.slot /\ k.seen = j.seen => k = j

DrawKept == latest \in 0 .. MaxGens /\ DrawTypeOK /\ DrawsAreCounted /\ StepsAreClaims

\* A cover drawn by a generation is the option it says was selected, once.
OptionsAreSelected ==
    \A i \in DOMAIN covers : covers[i] # None /\ covers[i][1] \in Gens =>
        /\ covers[i][1] <= latest
        /\ gens[covers[i][1]].selected = covers[i][2]
        /\ \A k \in DOMAIN covers : covers[k] # None /\ covers[k][1] = covers[i][1] => k = i

\* An uploaded object has the number of its request.
UploadsAreNumbered ==
    \A i \in DOMAIN covers : covers[i] # None /\ covers[i][1] = 0 => covers[i][2] <= serial

\* A request under way: what it would attach was never attached, what it may
\* remove was, and is not now.
EditsAreNew ==
    \A e \in edits :
        /\ e.id <= serial
        /\ \A d \in edits : d.id = e.id => d = e
        /\ e.kind = "remove" => e.obj = None
        /\ e.kind = "select" => e.obj \in Gens \X Slots /\ e.obj[1] <= latest
        /\ e.kind = "upload" => e.obj = <<0, e.id>>
        /\ e.pc = "commit" => /\ e.old = {}
                              /\ e.kind = "upload" => \A i \in DOMAIN covers : covers[i] # e.obj
        /\ \A x \in e.old : \E i \in DOMAIN covers : covers[i] = x
        /\ Cover \notin e.old

AttachKept ==
    /\ latest \in 0 .. MaxGens /\ AttachTypeOK
    /\ OptionsAreSelected /\ UploadsAreNumbered /\ EditsAreNew /\ CoverIsStored

CoverKept == DrawKept /\ AttachKept

-----------------------------------------------------------------------------

LEMMA AppendFacts ==
  ASSUME NEW S, NEW q \in Seq(S), NEW x \in S
  PROVE  /\ Append(q, x) \in Seq(S) /\ Len(Append(q, x)) = Len(q) + 1
         /\ DOMAIN Append(q, x) = DOMAIN q \cup {Len(q) + 1} /\ Len(q) + 1 \notin DOMAIN q
         /\ \A i \in DOMAIN q : Append(q, x)[i] = q[i]
         /\ Append(q, x)[Len(q) + 1] = x
<1>1. Len(q) \in Nat /\ DOMAIN q = 1 .. Len(q)
  BY LenProperties
<1>2. Append(q, x) \in Seq(S) /\ Len(Append(q, x)) = Len(q) + 1
  BY AppendProperties
<1>3. DOMAIN Append(q, x) = 1 .. Len(q) + 1
  BY <1>2, LenProperties
<1>4. Append(q, x)[Len(q) + 1] = x /\ \A i \in 1 .. Len(q) : Append(q, x)[i] = q[i]
  BY AppendProperties
<1>5. QED
  BY <1>1, <1>2, <1>3, <1>4

-----------------------------------------------------------------------------
(* Drawing *)

\* What the transactions make of a candidate.
LEMMA NumberedShot ==
  ASSUME NEW c \in Shots, NEW k \in Nat
  PROVE  LET d == [c EXCEPT !.status = "pending", !.attempts = k, !.token = k, !.leased = TRUE] IN
         d \in Shots /\ d.attempts = k
<1> DEFINE m == [c EXCEPT !.status = "pending", !.attempts = k]
           n == [m EXCEPT !.token = k, !.leased = TRUE]
<1>1. m \in Shots /\ m.attempts = k
  BY DEF Shots, Statuses
<1>2. n \in Shots /\ n.attempts = k
  <2> HIDE DEF m
  <2>1. QED
    BY <1>1 DEF Shots
<1>3. [c EXCEPT !.status = "pending", !.attempts = k, !.token = k, !.leased = TRUE] = n
  OBVIOUS
<1>4. QED
  BY <1>2, <1>3

LEMMA ClaimedShot ==
  ASSUME NEW c \in Shots
  PROVE  LET d == [c EXCEPT !.status = "pending", !.attempts = @ + 1, !.token = c.attempts + 1,
                            !.leased = TRUE] IN
         d \in Shots /\ d.attempts = c.attempts + 1
<1>1. c.attempts + 1 \in Nat
  BY DEF Shots
<1>2. [c EXCEPT !.status = "pending", !.attempts = @ + 1, !.token = c.attempts + 1, !.leased = TRUE]
      = [c EXCEPT !.status = "pending", !.attempts = c.attempts + 1, !.token = c.attempts + 1,
                  !.leased = TRUE]
  OBVIOUS
<1>3. QED
  BY <1>1, <1>2, NumberedShot

LEMMA EndedShot ==
  ASSUME NEW c \in Shots, NEW st \in Statuses, NEW ag \in BOOLEAN
  PROVE  LET d == [c EXCEPT !.status = st, !.again = ag, !.token = 0, !.leased = FALSE] IN
         d \in Shots /\ d.attempts = c.attempts
<1> DEFINE m == [c EXCEPT !.status = st, !.again = ag]
           n == [m EXCEPT !.token = 0, !.leased = FALSE]
<1>1. m \in Shots /\ m.attempts = c.attempts
  BY DEF Shots
<1>2. n \in Shots /\ n.attempts = c.attempts
  <2> HIDE DEF m
  <2>1. QED
    BY <1>1 DEF Shots
<1>3. [c EXCEPT !.status = st, !.again = ag, !.token = 0, !.leased = FALSE] = n
  OBVIOUS
<1>4. QED
  BY <1>2, <1>3

LEMMA ChangedShot ==
  ASSUME NEW c \in Shots
  PROVE  /\ [c EXCEPT !.status = "failed", !.again = FALSE, !.token = 0] \in Shots
         /\ [c EXCEPT !.status = "failed", !.again = FALSE, !.token = 0].attempts = c.attempts
         /\ [c EXCEPT !.status = "failed", !.token = 0] \in Shots
         /\ [c EXCEPT !.status = "failed", !.token = 0].attempts = c.attempts
         /\ [c EXCEPT !.status = "ready", !.token = 0] \in Shots
         /\ [c EXCEPT !.status = "ready", !.token = 0].attempts = c.attempts
         /\ [c EXCEPT !.leased = FALSE] \in Shots
         /\ [c EXCEPT !.leased = FALSE].attempts = c.attempts
  BY DEF Shots, Statuses

LEMMA RecoveredSame ==
  ASSUME DrawTypeOK
  PROVE  /\ AllRecovered \in [Gens -> [Slots -> Shots]]
         /\ \A g \in Gens, s \in Slots : AllRecovered[g][s].attempts = shots[g][s].attempts
<1>1. ASSUME NEW g \in Gens, NEW c \in Shots
      PROVE  Recovered(g, c) \in Shots /\ Recovered(g, c).attempts = c.attempts
  BY <1>1, ChangedShot DEF Recovered
<1>2. QED
  BY <1>1 DEF AllRecovered, DrawTypeOK

\* What leaves the attempts alone and starts nothing.
LEMMA SameAttempts ==
  ASSUME DrawKept, shots' \in [Gens -> [Slots -> Shots]],
         \A g \in Gens, s \in Slots : shots'[g][s].attempts = shots[g][s].attempts,
         steps' \subseteq steps, UNCHANGED <<latest, drawn>>
  PROVE  DrawKept'
<1> USE DEF DrawKept
<1>1. DrawTypeOK'
  BY DEF DrawTypeOK
<1>2. DrawsAreCounted'
  BY DEF DrawsAreCounted
<1>3. StepsAreClaims'
  BY DEF StepsAreClaims, DrawTypeOK, Steps
<1>4. QED
  BY <1>1, <1>2, <1>3

LEMMA StartKeepsDraw == DrawKept /\ StartGeneration => DrawKept'
<1> SUFFICES ASSUME DrawKept, StartGeneration PROVE DrawKept'
  OBVIOUS
<1> USE CoverAssumption DEF DrawKept
<1>1. latest' \in Gens /\ latest' = latest + 1 /\ latest' \in 0 .. MaxGens
  BY DEF StartGeneration, Gens
<1>2. [NoShot EXCEPT !.status = "pending"] \in Shots /\ [NoShot EXCEPT !.status = "pending"].attempts = 0
  BY DEF NoShot, Shots, Statuses
<1>3. /\ shots' = [AllRecovered EXCEPT ![latest'] = [s \in Slots |-> [NoShot EXCEPT !.status = "pending"]]]
      /\ UNCHANGED <<steps, drawn>>
  BY DEF StartGeneration
<1>4. AllRecovered \in [Gens -> [Slots -> Shots]]
  BY RecoveredSame
<1>5. shots' \in [Gens -> [Slots -> Shots]]
  BY <1>1, <1>2, <1>3, <1>4
<1>6. \A g \in Gens, s \in Slots : shots'[g][s].attempts = shots[g][s].attempts
  <2> SUFFICES ASSUME NEW g \in Gens, NEW s \in Slots
               PROVE  shots'[g][s].attempts = shots[g][s].attempts
    OBVIOUS
  <2>1. CASE g = latest'
    <3>1. shots'[g][s] = [NoShot EXCEPT !.status = "pending"]
      BY <2>1, <1>1, <1>3, <1>4
    <3>2. shots[g][s].attempts = 0
      BY <2>1, <1>1 DEF DrawsAreCounted
    <3>3. QED
      BY <3>1, <3>2, <1>2
  <2>2. CASE g # latest'
    <3>1. shots'[g][s] = AllRecovered[g][s]
      BY <2>2, <1>1, <1>3, <1>4
    <3>2. QED
      BY <3>1, RecoveredSame
  <2>3. QED
    BY <2>1, <2>2
<1>7. DrawTypeOK'
  BY <1>3, <1>5 DEF DrawTypeOK
<1>8. DrawsAreCounted'
  BY <1>1, <1>3, <1>6 DEF DrawsAreCounted, Gens
<1>9. StepsAreClaims'
  BY <1>3, <1>6 DEF StepsAreClaims, DrawTypeOK, Steps
<1>10. QED
  BY <1>1, <1>7, <1>8, <1>9

\* A claim takes the next attempt, which nobody has drawn or claimed.
LEMMA ClaimKeepsDraw ==
  ASSUME DrawKept, NEW g \in Gens, NEW s \in Slots, NEW seen \in {0, 1}, ClaimShot(g, s, seen)
  PROVE  DrawKept'
<1> USE CoverAssumption DEF DrawKept
<1> DEFINE c == AllRecovered[g][s]
           d == [c EXCEPT !.status = "pending", !.attempts = @ + 1, !.token = c.attempts + 1,
                          !.leased = TRUE]
           new == [gen |-> g, slot |-> s, seen |-> c.attempts, token |-> c.attempts + 1, pc |-> "look"]
<1>1. /\ AllRecovered \in [Gens -> [Slots -> Shots]]
      /\ c \in Shots /\ c.attempts = seen /\ shots[g][s].attempts = seen /\ g <= latest
  BY RecoveredSame DEF ClaimShot, Used
<1>2. d \in Shots /\ d.attempts = seen + 1
  <2> HIDE DEF c
  <2>1. QED
    BY <1>1, ClaimedShot
<1>3. /\ shots' = [AllRecovered EXCEPT ![g][s] = d] /\ steps' = steps \cup {new}
      /\ UNCHANGED <<latest, drawn>>
  BY DEF ClaimShot, Claimed
<1> HIDE DEF c, d
<1>4. shots' \in [Gens -> [Slots -> Shots]]
  BY <1>1, <1>2, <1>3
<1>5. \A h \in Gens, t \in Slots :
         shots'[h][t].attempts = IF h = g /\ t = s THEN seen + 1 ELSE shots[h][t].attempts
  BY <1>1, <1>2, <1>3, RecoveredSame
<1>6. new \in Steps /\ new.seen = seen /\ new.gen = g /\ new.slot = s
  BY <1>1 DEF Steps
<1>7. DrawTypeOK'
  BY <1>3, <1>4, <1>6 DEF DrawTypeOK
<1>8. DrawsAreCounted'
  <2> SUFFICES ASSUME NEW h \in Gens, NEW t \in Slots
               PROVE  /\ \A a \in {0, 1} : drawn[h][t][a] <= 1
                                           /\ (drawn[h][t][a] # 0 => a < shots'[h][t].attempts)
                      /\ h > latest => shots'[h][t].attempts = 0
    BY <1>3 DEF DrawsAreCounted
  <2>1. /\ \A a \in {0, 1} : drawn[h][t][a] <= 1
                               /\ (drawn[h][t][a] # 0 => a < shots[h][t].attempts)
        /\ h > latest => shots[h][t].attempts = 0
    BY DEF DrawsAreCounted
  <2>2. CASE h = g /\ t = s
    BY <1>1, <1>5, <2>1, <2>2 DEF Gens
  <2>3. CASE ~(h = g /\ t = s)
    BY <1>5, <2>1, <2>3
  <2>4. QED
    BY <2>2, <2>3
<1>9. drawn[g][s][seen] = 0
  BY <1>1 DEF DrawsAreCounted, DrawTypeOK
<1>10. \A j \in steps : ~(j.gen = g /\ j.slot = s /\ j.seen = seen)
  BY <1>1 DEF StepsAreClaims
<1> HIDE DEF new
<1>11. StepsAreClaims'
  <2> SUFFICES ASSUME NEW j \in steps'
               PROVE  /\ j.seen < shots'[j.gen][j.slot].attempts
                      /\ j.pc \in {"look", "draw"} => drawn[j.gen][j.slot][j.seen] = 0
                      /\ \A k \in steps' : k.gen = j.gen /\ k.slot = j.slot /\ k.seen = j.seen => k = j
    BY <1>3 DEF StepsAreClaims
  <2>1. CASE j = new
    BY <2>1, <1>3, <1>5, <1>6, <1>9, <1>10
  <2>2. CASE j \in steps
    <3>1. j \in Steps
      BY <2>2 DEF DrawTypeOK
    <3>2. j.seen < shots'[j.gen][j.slot].attempts
      BY <2>2, <3>1, <1>1, <1>5 DEF StepsAreClaims, Steps
    <3>3. QED
      BY <2>2, <3>2, <1>3, <1>6, <1>10 DEF StepsAreClaims
  <2>3. QED
    BY <2>1, <2>2, <1>3
<1>12. QED
  BY <1>3, <1>7, <1>8, <1>11

\* A request goes on: nothing else about it changes.
LEMMA StepToKeepsClaims ==
  ASSUME DrawKept, NEW j \in steps, NEW pc \in {"look", "draw", "ready", "again", "blocked"}, StepTo(j, pc),
         UNCHANGED <<latest, shots>>, drawn' \in [Gens -> [Slots -> [{0, 1} -> Nat]]],
         DrawsAreCounted', pc = "draw" => drawn'[j.gen][j.slot][j.seen] = 0, pc # "look",
         \A k \in steps \ {j} : drawn'[k.gen][k.slot][k.seen] = drawn[k.gen][k.slot][k.seen]
  PROVE  DrawKept'
<1> USE DEF DrawKept
<1> DEFINE next == [j EXCEPT !.pc = pc]
<1>1. j \in Steps
  BY DEF DrawTypeOK
<1>2. /\ next \in Steps /\ next.gen = j.gen /\ next.slot = j.slot /\ next.seen = j.seen /\ next.pc = pc
      /\ steps' = (steps \ {j}) \cup {next}
  BY <1>1 DEF Steps, StepTo
<1> HIDE DEF next
<1>3. DrawTypeOK'
  BY <1>2 DEF DrawTypeOK
<1>4. StepsAreClaims'
  <2> SUFFICES ASSUME NEW i \in steps'
               PROVE  /\ i.seen < shots[i.gen][i.slot].attempts
                      /\ i.pc \in {"look", "draw"} => drawn'[i.gen][i.slot][i.seen] = 0
                      /\ \A k \in steps' : k.gen = i.gen /\ k.slot = i.slot /\ k.seen = i.seen => k = i
    BY DEF StepsAreClaims
  <2>1. CASE i = next
    BY <2>1, <1>2 DEF StepsAreClaims
  <2>2. CASE i \in steps \ {j}
    BY <2>2, <1>2 DEF StepsAreClaims
  <2>3. QED
    BY <2>1, <2>2, <1>2
<1>5. QED
  BY <1>3, <1>4

LEMMA LookKeepsDraw == ASSUME DrawKept, NEW j \in steps, LookForShot(j) PROVE DrawKept'
<1> USE DEF DrawKept
<1>1. /\ UNCHANGED <<latest, shots, drawn>> /\ DrawsAreCounted'
      /\ drawn' \in [Gens -> [Slots -> [{0, 1} -> Nat]]]
      /\ drawn'[j.gen][j.slot][j.seen] = 0
  BY DEF LookForShot, DrawsAreCounted, StepsAreClaims, DrawTypeOK
<1>2. PICK pc \in {"ready", "draw", "again"} : StepTo(j, pc)
  BY DEF LookForShot
<1>3. QED
  BY <1>1, <1>2, StepToKeepsClaims

LEMMA DrawKeepsDraw == ASSUME DrawKept, NEW j \in steps, Draw(j) PROVE DrawKept'
<1> USE DEF DrawKept
<1>1. /\ UNCHANGED <<latest, shots>> /\ j \in Steps
      /\ drawn' = [drawn EXCEPT ![j.gen][j.slot][j.seen] = @ + 1]
      /\ drawn[j.gen][j.slot][j.seen] = 0 /\ j.seen < shots[j.gen][j.slot].attempts
  BY DEF Draw, StepsAreClaims, DrawTypeOK
<1>2. /\ drawn' \in [Gens -> [Slots -> [{0, 1} -> Nat]]]
      /\ \A g \in Gens, s \in Slots, a \in {0, 1} :
            drawn'[g][s][a] = IF g = j.gen /\ s = j.slot /\ a = j.seen THEN 1 ELSE drawn[g][s][a]
  BY <1>1 DEF DrawTypeOK, Steps
<1>3. DrawsAreCounted'
  BY SMTT(30), <1>1, <1>2 DEF DrawsAreCounted
<1>4. ASSUME NEW k \in steps \ {j}
      PROVE  drawn'[k.gen][k.slot][k.seen] = drawn[k.gen][k.slot][k.seen]
  <2>1. k \in Steps /\ ~(k.gen = j.gen /\ k.slot = j.slot /\ k.seen = j.seen)
    BY DEF StepsAreClaims, DrawTypeOK
  <2>2. k.gen \in Gens /\ k.slot \in Slots /\ k.seen \in {0, 1}
    BY <2>1 DEF Steps
  <2>3. QED
    BY <1>2, <2>1, <2>2
<1>5. PICK pc \in {"ready", "again", "blocked"} : StepTo(j, pc)
  BY DEF Draw
<1>6. QED
  <2>1. pc \in {"look", "draw", "ready", "again", "blocked"} /\ ~(pc \in {"look", "draw"})
    OBVIOUS
  <2>2. QED
    BY ZenonT(60), <1>1, <1>2, <1>3, <1>4, <1>5, <2>1, StepToKeepsClaims

\* The rest of the generation's steps change no attempt.
LEMMA OthersKeepDraw ==
  ASSUME DrawKept,
         \/ \E j \in steps : FinishShot(j) \/ StepKilled(j)
         \/ \E g \in Gens : PollGeneration(g) \/ CleanUp(g) \/ Ages(g) \/ \E s \in Slots : LeaseEnds(g, s)
         \/ \E e \in edits : Commit(e) \/ RemoveRetired(e)
         \/ \E k, r, o : Edit(k, r, o)
         \/ UNCHANGED coverVars
  PROVE  DrawKept'
<1>1. DrawTypeOK /\ shots \in [Gens -> [Slots -> Shots]] /\ steps \subseteq Steps
  BY DEF DrawKept, DrawTypeOK
<1>2. CASE UNCHANGED shots /\ steps' \subseteq steps /\ UNCHANGED <<latest, drawn>>
  BY <1>1, <1>2, SameAttempts
<1>3. ASSUME NEW j \in steps, FinishShot(j) PROVE DrawKept'
  <2> DEFINE c == shots[j.gen][j.slot]
             st == IF j.pc = "ready" THEN "ready" ELSE "failed"
             d == [c EXCEPT !.status = st, !.again = j.pc # "blocked", !.token = 0, !.leased = FALSE]
  <2>1. /\ j \in Steps /\ c \in Shots /\ UNCHANGED <<latest, drawn>> /\ steps' \subseteq steps
        /\ shots' = [shots EXCEPT ![j.gen][j.slot] = d] \/ UNCHANGED shots
    BY <1>1, <1>3 DEF FinishShot, Steps
  <2>2. st \in Statuses /\ (j.pc # "blocked") \in BOOLEAN
    BY DEF Statuses
  <2>3. d \in Shots /\ d.attempts = c.attempts
    <3> HIDE DEF c, st
    <3>1. QED
      BY <2>1, <2>2, EndedShot
  <2> HIDE DEF d
  <2>4. CASE shots' = [shots EXCEPT ![j.gen][j.slot] = d]
    <3>1. /\ shots' \in [Gens -> [Slots -> Shots]]
          /\ \A g \in Gens, s \in Slots : shots'[g][s].attempts = shots[g][s].attempts
      BY <1>1, <2>1, <2>3, <2>4 DEF Steps
    <3>2. QED
      BY <2>1, <3>1, SameAttempts
  <2>5. QED
    BY <1>2, <2>1, <2>4
<1>4. ASSUME NEW g \in Gens, PollGeneration(g) PROVE DrawKept'
  <2> DEFINE found(s) == /\ AllRecovered[g][s].attempts > 0 /\ AllRecovered[g][s].status # "ready"
                         /\ ~AllRecovered[g][s].leased /\ <<g, s>> \in shelf
             kept(s) == IF gens[g].live /\ ~Stale(g) /\ found(s)
                        THEN [AllRecovered[g][s] EXCEPT !.status = "ready", !.token = 0]
                        ELSE AllRecovered[g][s]
  <2>1. /\ shots' = [AllRecovered EXCEPT ![g] = [s \in Slots |-> kept(s)]]
        /\ UNCHANGED <<latest, drawn, steps>>
    BY <1>4, <1>1, RecoveredSame DEF PollGeneration
  <2>2. ASSUME NEW s \in Slots
        PROVE  kept(s) \in Shots /\ kept(s).attempts = shots[g][s].attempts
    <3>1. AllRecovered[g][s] \in Shots /\ AllRecovered[g][s].attempts = shots[g][s].attempts
      BY <1>1, RecoveredSame
    <3>2. QED
      BY <3>1, ChangedShot
  <2> HIDE DEF kept
  <2>3. /\ shots' \in [Gens -> [Slots -> Shots]]
        /\ \A h \in Gens, s \in Slots : shots'[h][s].attempts = shots[h][s].attempts
    BY <1>1, <2>1, <2>2, RecoveredSame
  <2>4. QED
    BY <2>1, <2>3, SameAttempts
<1>5. ASSUME NEW g \in Gens, CleanUp(g) PROVE DrawKept'
  <2> DEFINE over(s) == [shots[g][s] EXCEPT !.status = "failed", !.again = FALSE, !.token = 0]
  <2>1. /\ shots' = [shots EXCEPT ![g] = [s \in Slots |-> over(s)]]
        /\ UNCHANGED <<latest, drawn, steps>>
    BY <1>5 DEF CleanUp
  <2>2. ASSUME NEW s \in Slots PROVE over(s) \in Shots /\ over(s).attempts = shots[g][s].attempts
    <3>1. shots[g][s] \in Shots
      BY <1>1
    <3>2. QED
      BY <3>1, ChangedShot
  <2> HIDE DEF over
  <2>3. /\ shots' \in [Gens -> [Slots -> Shots]]
        /\ \A h \in Gens, s \in Slots : shots'[h][s].attempts = shots[h][s].attempts
    BY <1>1, <2>1, <2>2
  <2>4. QED
    BY <2>1, <2>3, SameAttempts
<1>6. ASSUME NEW g \in Gens, NEW s \in Slots, LeaseEnds(g, s) PROVE DrawKept'
  <2>1. /\ shots' = [shots EXCEPT ![g][s].leased = FALSE]
        /\ UNCHANGED <<latest, drawn, steps>>
    BY <1>6 DEF LeaseEnds
  <2>2. /\ [shots[g][s] EXCEPT !.leased = FALSE] \in Shots
        /\ [shots[g][s] EXCEPT !.leased = FALSE].attempts = shots[g][s].attempts
    <3>1. shots[g][s] \in Shots
      BY <1>1
    <3>2. QED
      BY <3>1, ChangedShot
  <2>3. /\ shots' \in [Gens -> [Slots -> Shots]]
        /\ \A h \in Gens, t \in Slots : shots'[h][t].attempts = shots[h][t].attempts
    BY <1>1, <2>1, <2>2
  <2>4. QED
    BY <2>1, <2>3, SameAttempts
<1>7. QED
  BY <1>2, <1>3, <1>4, <1>5, <1>6 DEF StepKilled, Ages, Commit, Attached, RemoveRetired, Edit, coverVars

-----------------------------------------------------------------------------
(* Attaching *)

\* What gives nobody a new cover or request.
LEMMA SameCovers ==
  ASSUME AttachKept, latest' \in latest .. MaxGens, gens' \in [Gens -> Sets],
         \A g \in Gens : g <= latest => gens'[g].selected = gens[g].selected,
         edits' \subseteq edits, UNCHANGED <<covers, images, serial>>
  PROVE  AttachKept'
<1> USE CoverAssumption DEF AttachKept
<1>1. Cover' = Cover
  BY DEF Cover
<1>2. AttachTypeOK' /\ CoverIsStored' /\ UploadsAreNumbered'
  BY <1>1 DEF AttachTypeOK, CoverIsStored, UploadsAreNumbered
<1>3. OptionsAreSelected'
  BY DEF OptionsAreSelected, Gens
<1>4. EditsAreNew'
  BY <1>1 DEF EditsAreNew, AttachTypeOK, Edits, Objects, Gens
<1>5. latest' \in 0 .. MaxGens
  OBVIOUS
<1>6. QED
  BY <1>2, <1>3, <1>4, <1>5

\* Generations that are started, claimed, polled, cleaned or grow old.
LEMMA GenerationsKeepAttach ==
  ASSUME AttachKept,
         \/ StartGeneration
         \/ \E g \in Gens, s \in Slots : LeaseEnds(g, s) \/ \E seen \in {0, 1} : ClaimShot(g, s, seen)
         \/ \E j \in steps : LookForShot(j) \/ Draw(j) \/ FinishShot(j) \/ StepKilled(j)
         \/ \E g \in Gens : PollGeneration(g) \/ CleanUp(g) \/ Ages(g)
         \/ UNCHANGED coverVars
  PROVE  AttachKept'
<1> USE CoverAssumption DEF AttachKept
<1>1. gens \in [Gens -> Sets] /\ latest \in 0 .. MaxGens
  BY DEF AttachTypeOK
<1>2. CASE UNCHANGED <<latest, covers, gens, edits, images, serial>>
  BY <1>1, <1>2, SameCovers
<1>3. CASE StartGeneration
  <2> DEFINE new == [rev |-> Revision, selected |-> 0, live |-> TRUE, active |-> TRUE, clean |-> FALSE]
  <2>1. Revision \in Nat
    BY LenProperties DEF AttachTypeOK, Revision
  <2>2. new \in Sets
    BY <2>1 DEF Sets
  <2>3. latest' = latest + 1 /\ latest' \in Gens /\ gens' = [gens EXCEPT ![latest'] = new]
    BY <1>1, <1>3 DEF StartGeneration, Gens
  <2> HIDE DEF new
  <2>4. /\ gens' \in [Gens -> Sets] /\ latest' \in latest .. MaxGens
        /\ \A g \in Gens : g <= latest => gens'[g].selected = gens[g].selected
    BY <1>1, <2>2, <2>3 DEF Gens
  <2>5. UNCHANGED <<covers, edits, images, serial>>
    BY <1>3 DEF StartGeneration
  <2>6. QED
    BY <2>4, <2>5, SameCovers
<1>4. ASSUME NEW g \in Gens, gens' = [gens EXCEPT ![g].active = TRUE] \/ gens' = [gens EXCEPT ![g].active = FALSE]
                \/ gens' = [gens EXCEPT ![g].live = FALSE] \/ gens' = [gens EXCEPT ![g].clean = TRUE],
             UNCHANGED <<latest, covers, edits, images, serial>>
      PROVE  AttachKept'
  <2>1. /\ [gens[g] EXCEPT !.active = TRUE] \in Sets /\ [gens[g] EXCEPT !.active = FALSE] \in Sets
        /\ [gens[g] EXCEPT !.live = FALSE] \in Sets /\ [gens[g] EXCEPT !.clean = TRUE] \in Sets
    BY <1>1 DEF Sets
  <2>2. PICK r \in Sets : gens' = [gens EXCEPT ![g] = r] /\ r.selected = gens[g].selected
    BY <1>1, <1>4, <2>1 DEF Sets
  <2>3. /\ gens' \in [Gens -> Sets]
        /\ \A h \in Gens : gens'[h].selected = gens[h].selected
    BY <1>1, <2>2
  <2>4. QED
    BY <1>1, <1>4, <2>3, SameCovers
<1>5. ASSUME NEW g \in Gens, NEW s \in Slots, NEW seen \in {0, 1}, ClaimShot(g, s, seen)
      PROVE  AttachKept'
  BY <1>5, <1>4 DEF ClaimShot, Claimed
<1>6. ASSUME NEW g \in Gens, CleanUp(g) PROVE AttachKept'
  BY <1>6, <1>2, <1>4 DEF CleanUp
<1>7. ASSUME NEW g \in Gens, Ages(g) PROVE AttachKept'
  BY <1>7, <1>4 DEF Ages
<1>8. QED
  BY <1>2, <1>3, <1>5, <1>6, <1>7
     DEF LeaseEnds, LookForShot, Draw, FinishShot, StepKilled, PollGeneration, coverVars

\* A request names an object nobody attached.
LEMMA EditKeepsAttach ==
  ASSUME AttachKept, NEW rev \in Nat,
         UploadCover(rev) \/ RemoveCover(rev) \/ \E g \in Gens, s \in Slots : SelectCover(rev, g, s)
  PROVE  AttachKept'
<1> USE CoverAssumption DEF AttachKept
<1>1. PICK kind \in {"upload", "remove", "select"}, obj \in Objects \cup {None} :
         /\ Edit(kind, rev, obj)
         /\ kind = "remove" => obj = None
         /\ kind = "select" => obj \in Gens \X Slots /\ obj[1] <= latest
         /\ kind = "upload" => obj = <<0, serial + 1>>
  <2>1. CASE UploadCover(rev)
    BY <2>1 DEF UploadCover, AttachTypeOK, Objects
  <2>2. CASE RemoveCover(rev)
    BY <2>2 DEF RemoveCover
  <2>3. ASSUME NEW g \in Gens, NEW s \in Slots, SelectCover(rev, g, s)
        PROVE  /\ Edit("select", rev, <<g, s>>) /\ <<g, s>> \in Gens \X Slots
               /\ <<g, s>>[1] <= latest /\ <<g, s>> \in Objects
    BY <2>3 DEF SelectCover, Used, Objects
  <2>4. QED
    BY <2>1, <2>2, <2>3
<1> DEFINE new == [id |-> serial + 1, kind |-> kind, rev |-> rev, obj |-> obj, pc |-> "commit", old |-> {}]
<1>2. /\ edits' = edits \cup {new} /\ serial' = serial + 1 /\ images' = images \cup ({obj} \ {None})
      /\ UNCHANGED <<covers, gens, latest>>
  BY <1>1 DEF Edit
<1>3. /\ new \in Edits /\ serial \in Nat
      /\ new.id = serial + 1 /\ new.kind = kind /\ new.obj = obj /\ new.pc = "commit" /\ new.old = {}
  BY <1>1 DEF Edits, AttachTypeOK
<1> HIDE DEF new
<1>4. Cover' = Cover
  BY <1>2 DEF Cover
<1>5. AttachTypeOK'
  BY <1>2, <1>3 DEF AttachTypeOK
<1>6. OptionsAreSelected' /\ CoverIsStored'
  BY <1>2, <1>4 DEF OptionsAreSelected, CoverIsStored
<1>7. \A i \in DOMAIN covers : covers[i] # None /\ covers[i][1] = 0 => covers[i][2] \in Nat /\ covers[i][2] <= serial
  BY DEF UploadsAreNumbered, AttachTypeOK, Objects, Gens
<1>8. UploadsAreNumbered'
  BY <1>2, <1>3, <1>7 DEF UploadsAreNumbered
<1>9. kind = "upload" => \A i \in DOMAIN covers : covers[i] # obj
  BY <1>1, <1>3, <1>7 DEF Objects
<1>10. EditsAreNew'
  <2>1. \A e \in edits : e.id \in Nat /\ e.id <= serial
    BY DEF EditsAreNew, AttachTypeOK, Edits
  <2>2. \A e \in edits' : e.id <= serial' /\ \A d \in edits' : d.id = e.id => d = e
    BY <1>2, <1>3, <2>1 DEF EditsAreNew
  <2> SUFFICES ASSUME NEW e \in edits'
               PROVE  /\ e.kind = "remove" => e.obj = None
                      /\ e.kind = "select" => e.obj \in Gens \X Slots /\ e.obj[1] <= latest
                      /\ e.kind = "upload" => e.obj = <<0, e.id>>
                      /\ e.pc = "commit" => /\ e.old = {}
                                            /\ e.kind = "upload" => \A i \in DOMAIN covers : covers[i] # e.obj
                      /\ \A x \in e.old : \E i \in DOMAIN covers : covers[i] = x
                      /\ Cover \notin e.old
    BY <1>2, <1>4, <2>2 DEF EditsAreNew
  <2>3. CASE e \in edits
    BY <2>3 DEF EditsAreNew
  <2>4. CASE e = new
    BY <2>4, <1>1, <1>3, <1>9
  <2>5. QED
    BY <1>2, <2>3, <2>4
<1>11. QED
  BY <1>2, <1>5, <1>6, <1>8, <1>10

\* The object of an accepted request was never attached before.
LEMMA AcceptedIsNew ==
  ASSUME AttachKept, NEW e \in edits, e.pc = "commit",
         e.kind = "select" => gens[e.obj[1]].selected = 0
  PROVE  e.obj # None => \A i \in DOMAIN covers : covers[i] # e.obj
<1> USE CoverAssumption DEF AttachKept
<1>1. e \in Edits
  BY DEF AttachTypeOK
<1>2. CASE e.kind = "select"
  <2>1. e.obj \in Gens \X Slots /\ e.obj[1] \in Gens /\ e.obj[2] \in Slots
    BY <1>2 DEF EditsAreNew
  <2>2. ASSUME NEW i \in DOMAIN covers, covers[i] = e.obj, e.obj # None PROVE FALSE
    BY <1>2, <2>1, <2>2 DEF OptionsAreSelected
  <2>3. QED
    BY <2>2
<1>3. QED
  BY <1>1, <1>2 DEF EditsAreNew, Edits

LEMMA AttachedKeepsAttach ==
  ASSUME AttachKept, NEW e \in edits, e.pc = "commit", Attached(e),
         e.kind = "select" => gens[e.obj[1]].selected = 0,
         e.kind # "remove" => e.obj \in images,
         UNCHANGED <<latest, images, serial>>
  PROVE  AttachKept'
<1> USE CoverAssumption DEF AttachKept
<1> DEFINE x == e.obj
           n == Len(covers) + 1
           after == [e EXCEPT !.pc = "clean", !.old = {Cover} \ {None}]
<1>1. /\ e \in Edits /\ x \in Objects \cup {None} /\ e.id \in Nat /\ e.id <= serial
      /\ e.kind = "remove" => x = None
      /\ e.kind = "select" => x \in Gens \X Slots /\ x[1] \in Gens /\ x[1] <= latest /\ x[2] \in Slots
      /\ e.kind = "upload" => x = <<0, e.id>> /\ x \in Objects
      /\ e.kind \in {"upload", "remove", "select"}
  BY DEF AttachTypeOK, EditsAreNew, Edits, Objects
<1>2. /\ covers' \in Seq(Objects \cup {None}) /\ Len(covers') = n
      /\ DOMAIN covers' = DOMAIN covers \cup {n} /\ n \notin DOMAIN covers
      /\ \A i \in DOMAIN covers : covers'[i] = covers[i]
      /\ covers'[n] = x
  BY <1>1, AppendFacts DEF Attached, AttachTypeOK
<1>3. /\ Len(covers) \in DOMAIN covers /\ Cover = covers[Len(covers)] /\ Cover \in Objects \cup {None}
      /\ Cover' = x
  BY <1>2, LenProperties DEF AttachTypeOK, Cover
<1>4. x # None => \A i \in DOMAIN covers : covers[i] # x
  BY AcceptedIsNew
<1>5. gens' = IF e.kind = "select" THEN [gens EXCEPT ![x[1]].selected = x[2]] ELSE gens
  BY DEF Attached
<1>6. /\ gens' \in [Gens -> Sets]
      /\ \A g \in Gens : gens'[g].selected = IF e.kind = "select" /\ g = x[1] THEN x[2] ELSE gens[g].selected
  <2>1. CASE e.kind = "select"
    <3>1. [gens[x[1]] EXCEPT !.selected = x[2]] \in Sets
      BY SMTT(30), <1>1, <2>1 DEF AttachTypeOK, Sets
    <3>2. QED
      BY <1>1, <1>5, <2>1, <3>1 DEF AttachTypeOK, Sets
  <2>2. QED
    BY <1>5, <2>1 DEF AttachTypeOK
<1>7. /\ edits' = (edits \ {e}) \cup {after}
      /\ after \in Edits /\ after.id = e.id /\ after.kind = e.kind /\ after.obj = x
      /\ after.pc = "clean" /\ after.old = {Cover} \ {None}
  BY <1>1, <1>3 DEF Attached, Edits
<1> HIDE DEF x, n, after
<1>8. AttachTypeOK'
  BY <1>2, <1>3, <1>6, <1>7 DEF AttachTypeOK
<1>9. \A i \in DOMAIN covers : covers[i] # None /\ covers[i][1] \in Gens =>
         ~(e.kind = "select" /\ covers[i][1] = x[1])
  <2> SUFFICES ASSUME NEW i \in DOMAIN covers, covers[i] # None, covers[i][1] \in Gens,
                      e.kind = "select", covers[i][1] = x[1]
               PROVE  FALSE
    OBVIOUS
  <2>1. gens[x[1]].selected = covers[i][2] /\ gens[x[1]].selected = 0
    BY DEF OptionsAreSelected, x
  <2>2. covers[i] \in Objects
    BY DEF AttachTypeOK
  <2>3. covers[i][2] \in Slots
    BY <2>2 DEF Objects, Gens
  <2>4. QED
    BY <2>1, <2>3
<1>10. x # None /\ x[1] \in Gens => e.kind = "select"
  BY <1>1 DEF Gens
<1>11. x # None /\ x[1] = 0 => e.kind = "upload"
  BY <1>1 DEF Gens
<1>12. OptionsAreSelected'
  <2> SUFFICES ASSUME NEW i \in DOMAIN covers', covers'[i] # None, covers'[i][1] \in Gens
               PROVE  /\ covers'[i][1] <= latest
                      /\ gens'[covers'[i][1]].selected = covers'[i][2]
                      /\ \A k \in DOMAIN covers' : covers'[k] # None /\ covers'[k][1] = covers'[i][1] => k = i
    BY DEF OptionsAreSelected
  <2>1. CASE i = n
    <3>1. e.kind = "select"
      BY <2>1, <1>2, <1>10
    <3>2. QED
      BY <2>1, <3>1, <1>1, <1>2, <1>6, <1>9
  <2>2. CASE i \in DOMAIN covers
    <3>1. /\ covers[i][1] <= latest /\ gens[covers[i][1]].selected = covers[i][2]
          /\ \A k \in DOMAIN covers : covers[k] # None /\ covers[k][1] = covers[i][1] => k = i
      BY <2>2, <1>2 DEF OptionsAreSelected
    <3>2. ~(e.kind = "select" /\ covers[i][1] = x[1])
      BY <2>2, <1>2, <1>9
    <3>3. QED
      BY <2>2, <3>1, <3>2, <1>2, <1>6, <1>10
  <2>3. QED
    BY <2>1, <2>2, <1>2
<1>13. UploadsAreNumbered'
  BY <1>1, <1>2, <1>11 DEF UploadsAreNumbered
<1>14. CoverIsStored'
  BY <1>1, <1>3 DEF CoverIsStored, x
<1>15. EditsAreNew'
  <2> SUFFICES ASSUME NEW d \in edits'
               PROVE  /\ d.id <= serial
                      /\ \A f \in edits' : f.id = d.id => f = d
                      /\ d.kind = "remove" => d.obj = None
                      /\ d.kind = "select" => d.obj \in Gens \X Slots /\ d.obj[1] <= latest
                      /\ d.kind = "upload" => d.obj = <<0, d.id>>
                      /\ d.pc = "commit" => /\ d.old = {}
                                            /\ d.kind = "upload" => \A i \in DOMAIN covers' : covers'[i] # d.obj
                      /\ \A y \in d.old : \E i \in DOMAIN covers' : covers'[i] = y
                      /\ x \notin d.old
    BY <1>3 DEF EditsAreNew
  <2>1. CASE d = after
    <3>1. \A f \in edits' : f.id = d.id => f = d
      BY <2>1, <1>7 DEF EditsAreNew
    <3>2. x \notin d.old /\ \A y \in d.old : \E i \in DOMAIN covers' : covers'[i] = y
      BY <2>1, <1>2, <1>3, <1>4, <1>7
    <3>3. QED
      BY <2>1, <3>1, <3>2, <1>1, <1>7
  <2>2. CASE d \in edits \ {e}
    <3>1. d \in Edits
      BY <2>2 DEF AttachTypeOK
    <3>2. \A f \in edits' : f.id = d.id => f = d
      BY <2>2, <1>7 DEF EditsAreNew
    <3>3. \A y \in d.old : \E i \in DOMAIN covers' : covers'[i] = y
      BY <2>2, <1>2 DEF EditsAreNew
    <3>4. x \notin d.old
      <4>1. CASE x = None
        BY <3>1, <4>1 DEF Edits, Objects
      <4>2. CASE x # None
        BY <2>2, <4>2, <1>4 DEF EditsAreNew
      <4>3. QED
        BY <4>1, <4>2
    <3>5. d.kind = "upload" => x # d.obj
      <4> SUFFICES ASSUME d.kind = "upload", x = d.obj PROVE FALSE
        OBVIOUS
      <4>1. d.obj = <<0, d.id>> /\ d.id # e.id /\ d.id \in Nat
        BY <2>2, <3>1 DEF EditsAreNew, Edits
      <4>2. x # None /\ x[1] = 0 /\ x[2] = d.id
        BY <4>1 DEF Objects
      <4>3. QED
        BY <4>1, <4>2, <1>1, <1>11
    <3>6. QED
      BY <2>2, <3>2, <3>3, <3>4, <3>5, <1>2 DEF EditsAreNew
  <2>3. QED
    BY <2>1, <2>2, <1>7
<1>16. QED
  BY <1>8, <1>12, <1>13, <1>14, <1>15

\* A late removal takes what was attached once, and never is again.
LEMMA CommitKeepsAttach ==
  ASSUME AttachKept, NEW e \in edits, Commit(e) \/ RemoveRetired(e)
  PROVE  AttachKept'
<1>1. CASE /\ e.pc = "commit" /\ Attached(e) /\ UNCHANGED <<latest, images, serial>>
           /\ e.kind = "select" => Selectable(e.rev, e.obj[1], e.obj[2])
           /\ e.kind = "remove" \/ e.obj \in images
  <2>1. e.kind = "select" => gens[e.obj[1]].selected = 0
    BY <1>1 DEF Selectable, Stale
  <2>2. QED
    BY <1>1, <2>1, AttachedKeepsAttach
<1>2. CASE edits' = edits \ {e} /\ UNCHANGED <<covers, gens, latest, serial, images>>
  <2>1. gens' \in [Gens -> Sets] /\ latest' \in latest .. MaxGens /\ edits' \subseteq edits
    BY <1>2, CoverAssumption DEF AttachKept, AttachTypeOK
  <2>2. QED
    BY <1>2, <2>1, SameCovers
<1>3. CASE RemoveRetired(e)
  <2>1. /\ edits' = edits \ {e} /\ UNCHANGED <<covers, gens, latest, serial>>
        /\ images' = images \ e.old \/ UNCHANGED images
    BY <1>3 DEF RemoveRetired
  <2>2. Cover \notin e.old
    BY DEF AttachKept, EditsAreNew
  <2>3. Cover' = Cover
    BY <2>1 DEF Cover
  <2>4. CoverIsStored'
    BY <2>1, <2>2, <2>3 DEF AttachKept, CoverIsStored
  <2>5. AttachTypeOK' /\ OptionsAreSelected' /\ UploadsAreNumbered' /\ EditsAreNew'
    BY <2>1, <2>3
       DEF AttachKept, AttachTypeOK, OptionsAreSelected, UploadsAreNumbered, EditsAreNew
  <2>6. QED
    BY <2>1, <2>4, <2>5 DEF AttachKept
<1>4. QED
  BY <1>1, <1>2, <1>3 DEF Commit

-----------------------------------------------------------------------------

LEMMA InitCoverKept == CoverInit => CoverKept
<1> SUFFICES ASSUME CoverInit PROVE CoverKept
  OBVIOUS
<1> USE CoverAssumption DEF CoverInit
<1>1. DrawTypeOK
  BY DEF DrawTypeOK, NoShot, Shots, Statuses
<1>2. DrawsAreCounted /\ StepsAreClaims
  BY DEF DrawsAreCounted, StepsAreClaims, NoShot
<1>3. /\ covers \in Seq(Objects \cup {None}) /\ Len(covers) = 1 /\ DOMAIN covers = {1} /\ covers[1] = None
  OBVIOUS
<1>4. AttachTypeOK
  BY <1>3 DEF AttachTypeOK, NoGen, Sets
<1>5. OptionsAreSelected /\ UploadsAreNumbered /\ EditsAreNew /\ CoverIsStored
  BY <1>3 DEF OptionsAreSelected, UploadsAreNumbered, EditsAreNew, CoverIsStored, Cover
<1>6. QED
  BY <1>1, <1>2, <1>4, <1>5 DEF CoverKept, DrawKept, AttachKept

LEMMA NextCoverKept == CoverKept /\ [EventCoverNext]_coverVars => CoverKept'
<1> SUFFICES ASSUME DrawKept, AttachKept, [EventCoverNext]_coverVars PROVE DrawKept' /\ AttachKept'
  BY DEF CoverKept
<1>1. CASE StartGeneration
  BY <1>1, StartKeepsDraw, GenerationsKeepAttach
<1>2. ASSUME NEW g \in Gens, NEW s \in Slots, LeaseEnds(g, s) PROVE DrawKept' /\ AttachKept'
  BY <1>2, OthersKeepDraw, GenerationsKeepAttach
<1>3. ASSUME NEW g \in Gens, NEW s \in Slots, NEW seen \in {0, 1}, ClaimShot(g, s, seen)
      PROVE  DrawKept' /\ AttachKept'
  BY <1>3, ClaimKeepsDraw, GenerationsKeepAttach
<1>4. ASSUME NEW j \in steps, LookForShot(j) \/ Draw(j) \/ FinishShot(j) \/ StepKilled(j)
      PROVE  DrawKept' /\ AttachKept'
  BY <1>4, LookKeepsDraw, DrawKeepsDraw, OthersKeepDraw, GenerationsKeepAttach
<1>5. ASSUME NEW g \in Gens, PollGeneration(g) \/ CleanUp(g) \/ Ages(g)
      PROVE  DrawKept' /\ AttachKept'
  BY <1>5, OthersKeepDraw, GenerationsKeepAttach
<1>6. ASSUME NEW rev \in 0 .. Revision,
             UploadCover(rev) \/ RemoveCover(rev) \/ \E g \in Gens, s \in Slots : SelectCover(rev, g, s)
      PROVE  DrawKept' /\ AttachKept'
  <2>1. rev \in Nat
    BY LenProperties DEF Revision, AttachKept, AttachTypeOK
  <2>2. AttachKept'
    BY <1>6, <2>1, EditKeepsAttach
  <2>3. UNCHANGED <<shots, steps, drawn, latest>>
    BY <1>6 DEF UploadCover, RemoveCover, SelectCover, Edit
  <2>4. DrawKept'
    BY <2>3, SameAttempts DEF DrawKept, DrawTypeOK
  <2>5. QED
    BY <2>2, <2>4
<1>7. ASSUME NEW e \in edits, Commit(e) \/ RemoveRetired(e) PROVE DrawKept' /\ AttachKept'
  BY <1>7, OthersKeepDraw, CommitKeepsAttach
<1>8. CASE UNCHANGED coverVars
  BY <1>8, OthersKeepDraw, GenerationsKeepAttach
<1>9. QED
  BY <1>1, <1>2, <1>3, <1>4, <1>5, <1>6, <1>7, <1>8 DEF EventCoverNext

LEMMA KeptIsPromised == CoverKept => CoverInvariant
<1> SUFFICES ASSUME CoverKept PROVE CoverInvariant
  OBVIOUS
<1> USE DEF CoverKept, DrawKept, AttachKept
<1>1. BilledOnce
  BY DEF BilledOnce, DrawsAreCounted
<1>2. ASSUME NEW g \in Gens
      PROVE  LET chosen == {i \in DOMAIN covers : covers[i] # None /\ covers[i][1] = g} IN
             /\ Cardinality(chosen) <= 1
             /\ \A i \in chosen : covers[i][2] = gens[g].selected
  <2> DEFINE chosen == {i \in DOMAIN covers : covers[i] # None /\ covers[i][1] = g}
  <2>1. \A i \in chosen : covers[i][2] = gens[g].selected
    BY <1>2 DEF OptionsAreSelected
  <2>2. \A i, k \in chosen : k = i
    BY <1>2 DEF OptionsAreSelected
  <2> HIDE DEF chosen
  <2>3. CASE chosen = {}
    BY <2>1, <2>3, FS_EmptySet DEF chosen
  <2>4. CASE chosen # {}
    <3>1. PICK i \in chosen : TRUE
      BY <2>4
    <3>2. chosen = {i}
      BY <2>2, <3>1
    <3>3. Cardinality(chosen) = 1
      BY <3>2, FS_Singleton
    <3>4. QED
      BY <2>1, <3>3 DEF chosen
  <2>5. QED
    BY <2>3, <2>4
<1>3. OneIsSelected
  BY <1>2 DEF OneIsSelected
<1>4. QED
  BY <1>1, <1>3 DEF CoverInvariant

\* What an organizer chose as cover is in the storage whatever was removed after
\* its transaction, of a set one option is chosen, and a picture is billed once for
\* every attempt that was asked for, however many pages, polls and killed requests.
THEOREM CoverIsKept == EventCoverSpec => []CoverInvariant
<1>1. EventCoverSpec => []CoverKept
  BY InitCoverKept, NextCoverKept, PTL DEF EventCoverSpec
<1>2. QED
  BY <1>1, KeptIsPromised, PTL

=============================================================================
