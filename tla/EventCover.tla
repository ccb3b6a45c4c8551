----------------------------- MODULE EventCover -----------------------------
(***************************************************************************)
(* The cover of one event: what event-images attaches, and the options that *)
(* event-cover-generation has a paid provider draw.  Transactions take the  *)
(* event's lock; uploads to and removals from the storage happen between    *)
(* them.  Pages may be any number of revisions behind.                      *)
(***************************************************************************)
EXTENDS Common, Sequences

CONSTANTS
    Slots,      \* options of a generation (three)
    MaxGens,    \* generations asked for
    MaxCovers,  \* changes of the cover
    MaxBusy     \* requests handled at once

Gens == 1 .. MaxGens

\* What may be attached: the upload of a request, an option of a generation.
Objects == ({0} \X Nat) \cup (Gens \X Slots)

ASSUME CoverAssumption == MaxGens \in Nat /\ 0 \notin Slots /\ None \notin Objects

VARIABLES
    covers,  \* the attached image of every revision, the last one now
    gens,    \* generations: base revision, selected slot, live, active, cleaned
    latest,  \* latest_generation_id
    shots,   \* candidates of each generation
    shelf,   \* objects in event-cover-candidates
    images,  \* objects in event-images
    steps,   \* "step" requests being handled
    edits,   \* cover mutations being handled
    drawn,   \* history: provider calls, by generation, slot and observed attempt
    serial   \* request ids used

coverVars == <<covers, gens, latest, shots, shelf, images, steps, edits, drawn, serial>>

NoGen  == [rev |-> 0, selected |-> 0, live |-> FALSE, active |-> FALSE, clean |-> FALSE]
NoShot == [status |-> "none", again |-> TRUE, attempts |-> 0, token |-> 0, leased |-> FALSE]

CoverInit ==
    /\ covers = <<None>> /\ gens = [g \in Gens |-> NoGen] /\ latest = 0
    /\ shots = [g \in Gens |-> [s \in Slots |-> NoShot]]
    /\ shelf = {} /\ images = {} /\ steps = {} /\ edits = {}
    /\ drawn = [g \in Gens |-> [s \in Slots |-> [a \in {0, 1} |-> 0]]]
    /\ serial = 0

Revision == Len(covers) - 1
Cover    == covers[Len(covers)]
Used(g)  == g <= latest
Stale(g) == gens[g].rev # Revision \/ latest # g \/ gens[g].selected # 0
Slack    == Cardinality(steps) + Cardinality(edits) < MaxBusy

-----------------------------------------------------------------------------
(* Generations *)

\* Mutant: what was never started is not looked at.
RecoveredStarted(g, c) ==
    IF c.status # "pending" THEN c
    ELSE IF Stale(g) THEN [c EXCEPT !.status = "failed", !.again = FALSE, !.token = 0]
    ELSE IF c.token # 0 /\ ~c.leased THEN [c EXCEPT !.status = "failed", !.token = 0]
    ELSE c

\* private.recover_cover_work, for one candidate: the cover moved on, a lease
\* ran out, or nothing happened for a quarter of an hour.
Recovered(g, c) ==
    IF c.status # "pending" THEN c
    ELSE IF Stale(g) THEN [c EXCEPT !.status = "failed", !.again = FALSE, !.token = 0]
    ELSE IF ~gens[g].active \/ (c.token # 0 /\ ~c.leased)
    THEN [c EXCEPT !.status = "failed", !.token = 0] ELSE c
AllRecovered == [g \in Gens |-> [s \in Slots |-> Recovered(g, shots[g][s])]]
Pending(all, g) == \E s \in Slots : all[g][s].status = "pending"

\* "start": create_event_cover_generation, if the page is up to date and no
\* other set is being drawn.
StartGeneration ==
    /\ latest < MaxGens
    /\ \A g \in Gens : ~Pending(AllRecovered, g)
    /\ latest' = latest + 1
    /\ gens' = [gens EXCEPT ![latest'] =
                  [rev |-> Revision, selected |-> 0, live |-> TRUE, active |-> TRUE, clean |-> FALSE]]
    /\ shots' = [AllRecovered EXCEPT ![latest'] =
                  [s \in Slots |-> [NoShot EXCEPT !.status = "pending"]]]
    /\ UNCHANGED <<covers, shelf, images, steps, edits, drawn, serial>>

Claimed(g, s, c) ==
    /\ shots' = [AllRecovered EXCEPT ![g][s] =
           [c EXCEPT !.status = "pending", !.attempts = @ + 1, !.token = c.attempts + 1,
                     !.leased = TRUE]]
    /\ gens' = [gens EXCEPT ![g].active = TRUE]
    /\ steps' = steps \cup
           {[gen |-> g, slot |-> s, seen |-> c.attempts, token |-> c.attempts + 1, pc |-> "look"]}

\* Mutant: the attempt that the page saw is not compared.
ClaimShotAnyway(g, s, seen) ==
    LET c == AllRecovered[g][s] IN
    /\ Used(g) /\ Slack /\ gens[g].live /\ ~Stale(g)
    /\ c.status # "ready" /\ c.token = 0 /\ c.attempts < 2 /\ (c.status = "failed" => c.again)
    /\ shots' = [AllRecovered EXCEPT ![g][s] =
           [c EXCEPT !.status = "pending", !.attempts = @ + 1, !.token = c.attempts + 1,
                     !.leased = TRUE]]
    /\ gens' = [gens EXCEPT ![g].active = TRUE]
    /\ steps' = steps \cup
           {[gen |-> g, slot |-> s, seen |-> seen, token |-> c.attempts + 1, pc |-> "look"]}
    /\ UNCHANGED <<covers, latest, shelf, images, edits, drawn, serial>>

\* "step", sent by every page that sees a slot that was never started, or on
\* request for one that failed: server_claim_cover_candidate.
ClaimShot(g, s, seen) ==
    LET c == AllRecovered[g][s] IN
    /\ Used(g) /\ Slack /\ gens[g].live /\ ~Stale(g)
    /\ c.attempts = seen /\ c.attempts < 2
    /\ c.status # "ready" /\ c.token = 0 /\ (c.status = "failed" => c.again)
    /\ \A h \in Gens \ {g} : ~Pending(AllRecovered, h)
    /\ Claimed(g, s, c)
    /\ UNCHANGED <<covers, latest, shelf, images, edits, drawn, serial>>

-----------------------------------------------------------------------------
(* Drawing one option *)

StepTo(j, pc) == steps' = (steps \ {j}) \cup {[j EXCEPT !.pc = pc]}
Shot(j) == <<j.gen, j.slot>>

\* existingCandidate: only an object that is certainly absent is drawn again.
LookForShot(j) ==
    /\ j \in steps /\ j.pc = "look"
    /\ \/ StepTo(j, IF Shot(j) \in shelf THEN "ready" ELSE "draw")
       \/ StepTo(j, "again")
    /\ UNCHANGED <<covers, gens, latest, shots, shelf, images, edits, drawn, serial>>

\* generateCover bills, whatever becomes of it, and some refusals are final; the
\* upload may succeed without saying so, and never replaces an object.
Draw(j) ==
    /\ j \in steps /\ j.pc = "draw"
    /\ drawn' = [drawn EXCEPT ![j.gen][j.slot][j.seen] = @ + 1]
    /\ \/ Shot(j) \notin shelf /\ shelf' = shelf \cup {Shot(j)}
            /\ (StepTo(j, "ready") \/ StepTo(j, "again"))
       \/ UNCHANGED shelf /\ (StepTo(j, "again") \/ StepTo(j, "blocked"))
    /\ UNCHANGED <<covers, gens, latest, shots, images, edits, serial>>

\* server_finish_cover_candidate: only under the claim, which may be lost.
FinishShot(j) ==
    LET c == shots[j.gen][j.slot] IN
    /\ j \in steps /\ j.pc \in {"ready", "again", "blocked"}
    /\ IF c.token = j.token /\ c.leased /\ c.status = "pending"
          /\ (j.pc = "ready" => Shot(j) \in shelf)
       THEN shots' = [shots EXCEPT ![j.gen][j.slot] =
              [c EXCEPT !.status = IF j.pc = "ready" THEN "ready" ELSE "failed",
                        !.again = j.pc # "blocked", !.token = 0, !.leased = FALSE]]
       ELSE UNCHANGED shots
    /\ steps' = steps \ {j}
    /\ UNCHANGED <<covers, gens, latest, shelf, images, edits, drawn, serial>>

StepKilled(j) ==
    /\ j \in steps /\ steps' = steps \ {j}
    /\ UNCHANGED <<covers, gens, latest, shots, shelf, images, edits, drawn, serial>>

\* "state": the page polls; lost work is failed, and what was uploaded before
\* its worker died is taken without a new attempt.
PollGeneration(g) ==
    LET found(s) == /\ AllRecovered[g][s].attempts > 0 /\ AllRecovered[g][s].status # "ready"
                    /\ ~AllRecovered[g][s].leased /\ <<g, s>> \in shelf IN
    /\ Used(g)
    /\ shots' = [AllRecovered EXCEPT ![g] = [s \in Slots |->
           IF gens[g].live /\ ~Stale(g) /\ found(s)
           THEN [@[s] EXCEPT !.status = "ready", !.token = 0] ELSE @[s]]]
    /\ UNCHANGED <<covers, gens, latest, shelf, images, steps, edits, drawn, serial>>

\* server_expire_cover_candidates, the removal and its acknowledgement; the
\* removal may fail.
CleanUp(g) ==
    /\ Used(g) /\ ~gens[g].live /\ ~gens[g].clean
    /\ shots' = [shots EXCEPT ![g] = [s \in Slots |->
           [shots[g][s] EXCEPT !.status = "failed", !.again = FALSE, !.token = 0]]]
    /\ \/ shelf' = {x \in shelf : x[1] # g} /\ gens' = [gens EXCEPT ![g].clean = TRUE]
       \/ UNCHANGED <<shelf, gens>>
    /\ UNCHANGED <<covers, latest, images, steps, edits, drawn, serial>>

\* 140 seconds, 15 minutes, 7 days.
LeaseEnds(g, s) ==
    /\ shots[g][s].leased
    /\ shots' = [shots EXCEPT ![g][s].leased = FALSE]
    /\ UNCHANGED <<covers, gens, latest, shelf, images, steps, edits, drawn, serial>>

Ages(g) ==
    /\ gens[g].live
    /\ gens' = IF gens[g].active THEN [gens EXCEPT ![g].active = FALSE]
               ELSE [gens EXCEPT ![g].live = FALSE]
    /\ UNCHANGED <<covers, latest, shots, shelf, images, steps, edits, drawn, serial>>

-----------------------------------------------------------------------------
(* Changing the cover *)

\* A page that saw some revision uploads an image, removes the cover or selects
\* an option; the request names what it saw.  Its own object is staged before
\* its transaction, which may never come.
Edit(kind, rev, obj) ==
    /\ Slack /\ serial < MaxCovers /\ serial' = serial + 1
    /\ edits' = edits \cup {[id |-> serial', kind |-> kind, rev |-> rev, obj |-> obj, pc |-> "commit", old |-> {}]}
    /\ images' = images \cup ({obj} \ {None})
    /\ UNCHANGED <<covers, gens, latest, shots, shelf, steps, drawn>>

UploadCover(rev) == Edit("upload", rev, <<0, serial + 1>>)
RemoveCover(rev) == Edit("remove", rev, None)

\* server_get_event_cover_candidate, then the download of the option; an object
\* that is there already must hold the same bytes.
Selectable(rev, g, s) ==
    gens[g].live /\ ~Stale(g) /\ rev = Revision /\ shots[g][s].status = "ready"

SelectCover(rev, g, s) ==
    /\ Used(g) /\ Selectable(rev, g, s) /\ <<g, s>> \in shelf
    /\ Edit("select", rev, <<g, s>>)

Attached(e) ==
    /\ covers' = Append(covers, e.obj)
    /\ gens' = IF e.kind = "select" THEN [gens EXCEPT ![e.obj[1]].selected = e.obj[2]] ELSE gens
    /\ edits' = (edits \ {e}) \cup {[e EXCEPT !.pc = "clean", !.old = {Cover} \ {None}]}

\* server_commit_event_cover and server_remove_event_cover; a refusal, or
\* a request that dies.
Commit(e) ==
    LET valid == IF e.kind = "select" THEN Selectable(e.rev, e.obj[1], e.obj[2])
                 ELSE e.rev = Revision IN
    /\ e \in edits /\ e.pc = "commit"
    /\ \/ valid /\ (e.kind = "remove" \/ e.obj \in images) /\ Attached(e)
       \/ edits' = edits \ {e} /\ UNCHANGED <<covers, gens>>
    /\ UNCHANGED <<latest, shots, shelf, images, steps, drawn, serial>>

\* After the commit the retired objects are removed, or not.
RemoveRetired(e) ==
    /\ e \in edits /\ e.pc = "clean"
    /\ images' = images \ e.old \/ UNCHANGED images
    /\ edits' = edits \ {e}
    /\ UNCHANGED <<covers, gens, latest, shots, shelf, steps, drawn, serial>>

EventCoverNext ==
    \/ StartGeneration
    \/ \E g \in Gens, s \in Slots : LeaseEnds(g, s) \/ \E seen \in {0, 1} : ClaimShot(g, s, seen)
    \/ \E j \in steps : LookForShot(j) \/ Draw(j) \/ FinishShot(j) \/ StepKilled(j)
    \/ \E g \in Gens : PollGeneration(g) \/ CleanUp(g) \/ Ages(g)
    \/ \E rev \in 0 .. Revision :
          \/ UploadCover(rev) \/ RemoveCover(rev)
          \/ \E g \in Gens, s \in Slots : SelectCover(rev, g, s)
    \/ \E e \in edits : Commit(e) \/ RemoveRetired(e)

EventCoverSpec == CoverInit /\ [][EventCoverNext]_coverVars

-----------------------------------------------------------------------------
(* Properties *)

\* The attached image is in the storage: removing what was retired, after the
\* commit and without its lock, never takes what is attached by then.
CoverIsStored == Cover # None => Cover \in images

\* However many pages start a slot, and however their answers get lost, a slot
\* is drawn and billed once for each attempt somebody asked for.
BilledOnce == \A g \in Gens, s \in Slots, a \in {0, 1} : drawn[g][s][a] <= 1

\* Of a generation one option at most becomes the cover, and it is the one the
\* generation says was selected.
OneIsSelected ==
    \A g \in Gens : LET chosen == {i \in DOMAIN covers : covers[i] # None /\ covers[i][1] = g} IN
        /\ Cardinality(chosen) <= 1
        /\ \A i \in chosen : covers[i][2] = gens[g].selected

\* While a page polls, no option stays "generating": it would keep every other
\* set of the organizer from being drawn.
ShotsSettle == \A g \in Gens, s \in Slots :
    shots[g][s].status = "pending" ~> shots[g][s].status # "pending"

\* What the organizer chose is stored, one cover is selected, and no picture is
\* paid for twice.
CoverInvariant == CoverIsStored /\ BilledOnce /\ OneIsSelected

=============================================================================
