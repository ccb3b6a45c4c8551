---------------------------- MODULE EventImport ----------------------------
(***************************************************************************)
(* Staff import free events from a CSV file: the upload makes a batch of     *)
(* rows, the edge function has their addresses looked up under leases and a   *)
(* budget, and the rows an administrator selects become drafts.  Calls may    *)
(* outlive the page that made them, and a page may show a batch as it was.    *)
(***************************************************************************)
EXTENDS Common, Sequences

CONSTANTS
    Files,        \* a file is the number of its rows
    MaxRows,      \* rows there may be in all batches together
    MaxRequests,  \* uploads asked for under a request id of their own
    Leases,       \* rows being looked up at once
    Budget,       \* lookups paid for
    MaxTries      \* lookups of one row

ASSUME ImportAssumption ==
    /\ Files \subseteq Nat \ {0} /\ IsFiniteSet(Files)
    /\ {MaxRows, MaxRequests, Leases, Budget, MaxTries} \subseteq Nat

VARIABLES
    batches,  \* event_import_batches: the sequence of them
    rows,     \* event_import_rows, by <<batch, number>>; history: the warnings answered with "Import anyway"
    made,     \* events made of rows
    lookups,  \* event_import_settings: those paid for, and whether they are paused
    upload,   \* the page that uploads a file
    staffPage,  \* the page of a batch
    working   \* the page's call of event-import-process

importVars == <<batches, rows, made, lookups, upload, staffPage, working>>

-----------------------------------------------------------------------------
(* The database.  All rows are alike: one title, one place, one hour.  A digest *)
(* of candidates is the set of them.                                            *)

Final == {"imported", "skipped"}
ClosedStates == {"cancelled", "failed", "completed", "completed_with_skips"}

RowsOf(b) == {r \in DOMAIN rows : r[1] = b}

\* import_refresh: what a batch's state says of its rows
Refreshed(b, rs) ==
    LET states == {rs[r].state : r \in {q \in DOMAIN rs : q[1] = b}} IN
    IF batches[b].state \in {"failed", "cancelled"} THEN batches[b].state
    ELSE IF states \subseteq Final THEN IF "skipped" \in states THEN "completed_with_skips" ELSE "completed"
    ELSE IF \E r \in DOMAIN rs : r[1] = b /\ rs[r].requested /\ rs[r].state = "ready" THEN "importing"
    ELSE IF states \cap {"pending", "geocoding"} # {} THEN "validating" ELSE "ready"

\* Rows of a batch are written, and its state after them.
Write(b, rs) == rows' = rs /\ batches' = [batches EXCEPT ![b].state = Refreshed(b, rs)]

\* import_candidates: the events there are, and earlier rows of the batch that may become one
Candidates(r) ==
    {[kind |-> "event", id |-> d.row] : d \in made}
    \cup {[kind |-> "row", id |-> q] :
             q \in {p \in RowsOf(r[1]) : /\ p[2] < r[2] /\ rows[p].located
                                         /\ rows[p].state \notin {"skipped", "invalid", "imported"}}}

\* Mutant: once a warning has been answered, later ones are not raised.
CheckedUnlessAnswered(r, row) ==
    IF row.state \in Final \cup {"invalid", "needs_review"} THEN row
    ELSE [row EXCEPT !.digest = Candidates(r),
                     !.state = IF Candidates(r) # {} /\ row.override = {} THEN "duplicate_possible" ELSE "ready"]

\* import_check_duplicates
Rechecked(r, row) ==
    LET digest == Candidates(r) IN
    IF row.state \in Final \cup {"invalid", "needs_review"} THEN row
    ELSE [row EXCEPT !.digest = digest,
                     !.state = IF digest # {} /\ row.override # digest THEN "duplicate_possible" ELSE "ready"]

\* import_lock for a write
Open(b) == batches[b].state \notin {"cancelled", "failed"} /\ ~batches[b].pruned

\* No warning is overridden: the digest of no candidates.
NewRow == [state |-> "pending", located |-> FALSE, digest |-> None, override |-> {}, requested |-> FALSE,
           token |-> 0, until |-> "now", tries |-> 0, warned |-> {}]

\* Of a row that is imported or skipped nothing else is read again.
SettledRow(state) == [NewRow EXCEPT !.state = state]

-----------------------------------------------------------------------------
(* The upload: its request id is kept in the tab's storage until an answer. *)

ImportInit ==
    /\ batches = <<>> /\ rows = [r \in {} |-> None] /\ made = {}
    /\ lookups = [used |-> 0, paused |-> FALSE]
    /\ upload = [key |-> [f \in Files |-> 0], call |-> None, last |-> 0, settled |-> 0]
    /\ staffPage = None
    /\ working = None

\* The pages of an upload and of a batch share a tab.
UploadFile(f) ==
    /\ upload.call = None /\ staffPage' = None
    /\ LET request == IF upload.key[f] = 0 THEN upload.last + 1 ELSE upload.key[f] IN
       /\ request <= MaxRequests
       /\ upload' = [upload EXCEPT !.key[f] = request, !.last = IF request > upload.last THEN request ELSE upload.last,
                                   !.call = [file |-> f, request |-> request, batch |-> 0]]
    /\ UNCHANGED <<batches, rows, made, lookups, working>>

\* A file parseImportCsv cannot read makes a batch that has failed; of one it can, each row is
\* valid or not.
Unreadable(request) == [state |-> "failed", request |-> request, pruned |-> FALSE]
Readings(b, file) ==
    {[r \in {b} \X (1 .. file) |-> IF r \in invalid THEN [NewRow EXCEPT !.state = "invalid"] ELSE NewRow] :
        invalid \in SUBSET ({b} \X (1 .. file))}

\* server_create_event_import_batch: a request already known gives the batch it made.
CreateBatch ==
    /\ upload.call # None /\ upload.call.batch = 0
    /\ LET request == upload.call.request
           known == {b \in DOMAIN batches : batches[b].request = request}
           b == IF known # {} THEN CHOOSE k \in known : TRUE ELSE Len(batches) + 1 IN
       /\ upload' = [upload EXCEPT !.call.batch = b]
       /\ \/ known # {} /\ UNCHANGED <<batches, rows>>
          \/ known = {} /\ batches' = Append(batches, Unreadable(request)) /\ UNCHANGED rows
          \/ /\ known = {} /\ Cardinality(DOMAIN rows) + upload.call.file <= MaxRows
             /\ \E new \in Readings(b, upload.call.file) :
                  /\ rows' = [r \in DOMAIN new \cup DOMAIN rows |-> IF r \in DOMAIN new THEN new[r] ELSE rows[r]]
                  /\ batches' = Append(batches, [Unreadable(request) EXCEPT !.state =
                        IF \E r \in DOMAIN new : new[r].state = "pending" THEN "validating" ELSE "ready"])
    /\ UNCHANGED <<made, lookups, staffPage, working>>

\* What a page of the batch shows when it has read it
Seen(row) == [state |-> IF row.state \in Final \cup {"ready", "duplicate_possible", "failed"} THEN row.state ELSE "waiting",
              digest |-> row.digest]
View(b) == [closed |-> batches[b].state \in ClosedStates, rows |-> [n \in {r[2] : r \in RowsOf(b)} |-> Seen(rows[<<b, n>>])]]

Showing(b) == [batch |-> b, view |-> View(b), selected |-> {}, waits |-> FALSE]

UploadAnswered ==
    /\ upload.call # None /\ upload.call.batch # 0
    /\ upload' = [upload EXCEPT !.call = None, !.key[upload.call.file] = 0,
                              !.settled = upload.settled + 1]
    /\ staffPage' = Showing(upload.call.batch)
    /\ UNCHANGED <<batches, rows, made, lookups, working>>

UploadUnanswered ==
    /\ upload.call # None
    /\ upload' = [upload EXCEPT !.call = None]
    /\ UNCHANGED <<batches, rows, made, lookups, staffPage, working>>

-----------------------------------------------------------------------------
(* The page of a batch shows what it last read, and makes one call at a time. *)

OpenBatch ==
    /\ upload.call = None
    /\ \E b \in DOMAIN batches : staffPage' = Showing(b)
    /\ UNCHANGED <<batches, rows, made, lookups, upload, working>>

Refetch ==
    /\ staffPage # None /\ ~staffPage.waits /\ staffPage' = [staffPage EXCEPT !.view = View(staffPage.batch)]
    /\ UNCHANGED <<batches, rows, made, lookups, upload, working>>

CanAct == staffPage # None /\ ~staffPage.waits /\ ~staffPage.view.closed
Shown(states) == {n \in DOMAIN staffPage.view.rows : staffPage.view.rows[n].state \in states}

SelectRow ==
    /\ CanAct
    /\ \E n \in Shown({"ready"}) :
         staffPage' = [staffPage EXCEPT !.selected =
             IF n \in staffPage.selected THEN staffPage.selected \ {n} ELSE staffPage.selected \cup {n}]
    /\ UNCHANGED <<batches, rows, made, lookups, upload, working>>

\* run: a call is sent, and the page waits for it
Run(step, pairs) ==
    /\ working = None
    /\ working' = [step |-> step, batch |-> staffPage.batch, pairs |-> pairs, token |-> 0, todo |-> {}]
    /\ staffPage' = [staffPage EXCEPT !.waits = TRUE]
    /\ UNCHANGED <<batches, made, lookups, upload>>

Pairs(ns) == {[row |-> n, digest |-> staffPage.view.rows[n].digest] : n \in ns}
\* The page's answer to a warning, on the row as long as there is one
Warned(r, digest) == rows' = [q \in DOMAIN rows |->
    IF q = r /\ rows[q].state \notin Final THEN [rows[q] EXCEPT !.warned = rows[q].warned \cup {digest}] ELSE rows[q]]

Continue == CanAct /\ Run("claim", {}) /\ UNCHANGED rows
Cancel   == CanAct /\ Run("cancel", {}) /\ UNCHANGED rows
Skip     == CanAct /\ (\E n \in DOMAIN staffPage.view.rows \ Shown(Final) : Run("skip", Pairs({n}))) /\ UNCHANGED rows
Retry    == CanAct /\ (\E n \in Shown({"failed"}) : Run("retry", Pairs({n}))) /\ UNCHANGED rows

ImportAnyway ==
    /\ CanAct
    /\ \E n \in Shown({"duplicate_possible"}) :
         Run("override", Pairs({n})) /\ Warned(<<staffPage.batch, n>>, staffPage.view.rows[n].digest)

ImportSelected ==
    /\ CanAct
    /\ LET ns == {n \in staffPage.selected \cap DOMAIN staffPage.view.rows : staffPage.view.rows[n].digest # None} IN
       ns # {} /\ Run("select", Pairs(ns))
    /\ UNCHANGED rows

-----------------------------------------------------------------------------
(* The transactions of event-import-process *)

\* server_claim_event_import_work: the first row that is due and under no live lease
LookupsDue(b) == {r \in RowsOf(b) : rows[r].state \in {"pending", "geocoding"} /\ rows[r].until = "now"}
First(rs) == CHOOSE r \in rs : \A q \in rs : r[2] <= q[2]
MayClaim(b) ==
    /\ Open(b) /\ ~lookups.paused /\ lookups.used < Budget /\ LookupsDue(b) # {}
    /\ Cardinality({r \in DOMAIN rows : rows[r].until = "lease"}) < Leases
GiveUp(r) == Write(r[1], [rows EXCEPT ![r] = [rows[r] EXCEPT !.state = "failed", !.token = 0]]) /\ UNCHANGED lookups
TakeLease(r) ==
    /\ rows' = [rows EXCEPT ![r] = [rows[r] EXCEPT !.state = "geocoding", !.tries = rows[r].tries + 1,
                                             !.token = lookups.used + 1, !.until = "lease"]]
    /\ lookups' = [lookups EXCEPT !.used = lookups.used + 1]
    /\ UNCHANGED batches

\* server_complete_event_import_geocode: what geocodeImportAddress made of the answer, if the lease still stands
Outcomes == {"verified", "needs_review", "retryable", "configuration_error"}
Located(r, row, outcome) ==
    CASE outcome = "verified" -> Rechecked(r, [row EXCEPT !.located = TRUE, !.state = "ready"])
      [] outcome = "retryable" ->
           IF row.tries >= MaxTries THEN [row EXCEPT !.state = "failed"] ELSE [row EXCEPT !.state = "pending", !.until = "later"]
      [] outcome = "configuration_error" -> [row EXCEPT !.state = "pending"]
      [] OTHER -> [row EXCEPT !.state = outcome]
Holds(r, token) == r \in DOMAIN rows /\ rows[r].state = "geocoding" /\ rows[r].token = token /\ rows[r].until = "lease"
Record(r, token, outcome) ==
    IF Holds(r, token)
    THEN /\ Write(r[1], [rows EXCEPT ![r] = Located(r, [rows[r] EXCEPT !.token = 0, !.until = "now"], outcome)])
         /\ lookups' = IF outcome = "configuration_error" THEN [lookups EXCEPT !.paused = TRUE] ELSE lookups
    ELSE UNCHANGED <<batches, rows, lookups>>

\* server_resolve_event_import_row: the row after it; None when the action does not fit the row
Resolved(step, r, digest) ==
    LET row == rows[r]  checked == Rechecked(r, row) IN
    CASE row.state \in Final -> row
      [] row.state \notin Final /\ step = "skip" -> SettledRow("skipped")
      [] row.state = "failed" /\ step = "retry" ->
           [row EXCEPT !.state = IF row.located THEN "ready" ELSE "pending", !.tries = 0, !.until = "now"]
      [] row.state \in {"ready", "duplicate_possible"} /\ row.located /\ step = "override" ->
           IF checked.digest # digest THEN checked ELSE [checked EXCEPT !.override = digest, !.state = "ready"]
      [] OTHER -> None

\* server_cancel_event_import_batch
CancelBatch(b) ==
    /\ batches' = [batches EXCEPT ![b].state = "cancelled"]
    /\ rows' = [r \in DOMAIN rows |-> IF r[1] # b \/ rows[r].state \in Final THEN rows[r] ELSE SettledRow("skipped")]

\* server_request_event_import_rows: all of the rows are as they were reviewed, or none is requested
AsReviewed(b, p) ==
    LET r == <<b, p.row>> IN r \in DOMAIN rows /\
        (rows[r].state = "imported" \/ (Open(b) /\ rows[r].state = "ready" /\ rows[r].digest = p.digest))
RequestAll(b, pairs) ==
    Write(b, [r \in DOMAIN rows |-> IF rows[r].state # "imported" /\ r \in {<<b, p.row>> : p \in pairs}
                                    THEN [rows[r] EXCEPT !.requested = TRUE] ELSE rows[r]])

\* server_import_event_row: the event and the row's receipt are written together, or the row has failed.
\* The row's hour may have come since it was selected.
MayImport(r) == r \in DOMAIN rows /\ Open(r[1]) /\ rows[r].requested /\ rows[r].state \in {"ready", "duplicate_possible"}
Unwarned(r) == Candidates(r) # {} /\ Candidates(r) \notin rows[r].warned
ImportRow(r) ==
    LET checked == Rechecked(r, rows[r]) IN
    \/ /\ Write(r[1], [rows EXCEPT ![r] = [rows[r] EXCEPT !.state = "invalid", !.requested = FALSE]])
       /\ UNCHANGED made
    \/ /\ checked.state # "ready"
       /\ Write(r[1], [rows EXCEPT ![r] = [checked EXCEPT !.requested = FALSE]])
       /\ UNCHANGED made
    \/ /\ checked.state = "ready"
       /\ Write(r[1], [rows EXCEPT ![r] = SettledRow("imported")])
       /\ made' = made \cup {[row |-> r, no |-> Cardinality(made), unwarned |-> Unwarned(r)]}
    \/ /\ checked.state = "ready"
       /\ Write(r[1], [rows EXCEPT ![r] = [checked EXCEPT !.state = "failed"]])
       /\ UNCHANGED made

-----------------------------------------------------------------------------
(* The page's call *)

At(step) == working # None /\ working.step = step
Goes(step, token, todo) == working' = [working EXCEPT !.step = step, !.pairs = {}, !.token = token, !.todo = todo] /\ UNCHANGED staffPage

\* The handler answers, or fails: the page, if it still waits, learns of it.
Replies(ok) ==
    /\ working' = None
    /\ staffPage' = IF staffPage # None /\ staffPage.waits
                 THEN [staffPage EXCEPT !.waits = FALSE, !.selected = IF ok THEN {} ELSE staffPage.selected] ELSE staffPage

ClaimLookup ==
    LET r == First(LookupsDue(working.batch)) IN
    /\ At("claim") /\ UNCHANGED <<made, upload>>
    /\ \/ ~Open(working.batch) /\ Replies(FALSE) /\ UNCHANGED <<batches, rows, lookups>>
       \/ Open(working.batch) /\ ~MayClaim(working.batch) /\ Goes("progress", 0, {}) /\ UNCHANGED <<batches, rows, lookups>>
       \/ MayClaim(working.batch) /\ rows[r].tries >= MaxTries /\ GiveUp(r) /\ Goes("progress", 0, {})
       \/ MayClaim(working.batch) /\ rows[r].tries < MaxTries /\ TakeLease(r) /\ Goes("complete", lookups.used + 1, {r})

\* The loop ends when its time is up, or the provider has to be configured.
Complete ==
    /\ At("complete") /\ UNCHANGED <<made, upload>>
    /\ \/ ~Open(working.batch) /\ Replies(FALSE) /\ UNCHANGED <<batches, rows, lookups>>
       \/ /\ Open(working.batch)
          /\ \E outcome \in Outcomes, r \in working.todo, step \in {"claim", "progress"} :
                /\ outcome = "configuration_error" => step = "progress"
                /\ Record(r, working.token, outcome) /\ Goes(step, 0, {})

Resolve ==
    /\ working # None /\ working.step \in {"skip", "retry", "override"}
    /\ \E p \in working.pairs :
         LET r == <<working.batch, p.row>>
             row == IF Open(working.batch) THEN Resolved(working.step, r, p.digest) ELSE None IN
         /\ Replies(row # None)
         /\ IF row = None THEN UNCHANGED <<batches, rows>> ELSE Write(working.batch, [rows EXCEPT ![r] = row])
    /\ UNCHANGED <<made, lookups, upload>>

CancelAll ==
    /\ At("cancel") /\ CancelBatch(working.batch) /\ Replies(TRUE)
    /\ UNCHANGED <<made, lookups, upload>>

RequestRows ==
    /\ At("select") /\ UNCHANGED <<made, lookups, upload>>
    /\ IF \A p \in working.pairs : AsReviewed(working.batch, p)
       THEN RequestAll(working.batch, working.pairs) /\ Goes("progress", 0, {})
       ELSE Replies(FALSE) /\ UNCHANGED <<batches, rows>>

\* server_get_event_import_progress
ReadProgress ==
    /\ At("progress")
    /\ Goes("import", 0, {r \in RowsOf(working.batch) : rows[r].requested /\ rows[r].state = "ready"})
    /\ UNCHANGED <<batches, rows, made, lookups, upload>>

ImportNext ==
    LET r == First(working.todo) IN
    /\ At("import") /\ working.todo # {} /\ UNCHANGED <<lookups, upload>>
    /\ \/ /\ r \in DOMAIN rows /\ rows[r].state = "imported"
          /\ Goes("import", 0, working.todo \ {r}) /\ UNCHANGED <<batches, rows, made>>
       \/ MayImport(r) /\ ImportRow(r) /\ Goes("import", 0, working.todo \ {r})
       \/ /\ ~MayImport(r) /\ (r \in DOMAIN rows => rows[r].state # "imported")
          /\ Replies(FALSE) /\ UNCHANGED <<batches, rows, made>>

\* Rows left when the time is up are left to another call.
Finish ==
    /\ At("import") /\ Replies(TRUE)
    /\ UNCHANGED <<batches, rows, made, lookups, upload>>

\* The connection is lost, and the call goes on without the page.
CallUnanswered ==
    /\ staffPage # None /\ staffPage.waits
    /\ staffPage' = [staffPage EXCEPT !.waits = FALSE]
    /\ UNCHANGED <<batches, rows, made, lookups, upload, working>>

HandlerDies ==
    /\ working # None /\ Replies(FALSE)
    /\ UNCHANGED <<batches, rows, made, lookups, upload>>

-----------------------------------------------------------------------------
(* Other administrators, and other calls of this one: any of their transactions *)
(* may come at any time, with what a page of theirs may show.                    *)

Colleague ==
    /\ \E b \in DOMAIN batches :
         \/ /\ MayClaim(b) /\ rows[First(LookupsDue(b))].tries < MaxTries /\ TakeLease(First(LookupsDue(b)))
            /\ UNCHANGED <<made>>
         \/ /\ Open(b) /\ UNCHANGED <<made>>
            /\ \E r \in RowsOf(b), outcome \in Outcomes :
                 /\ rows[r].until = "lease" /\ (working # None => rows[r].token # working.token)
                 /\ Record(r, rows[r].token, outcome)
         \/ /\ Open(b) /\ UNCHANGED <<made, lookups>>
            /\ \E r \in RowsOf(b) :
                 /\ rows[r].state = "duplicate_possible"
                 /\ Write(b, [rows EXCEPT ![r] =
                      [Resolved("override", r, rows[r].digest) EXCEPT !.warned = rows[r].warned \cup {rows[r].digest}]])
         \/ /\ Open(b) /\ (\E r \in RowsOf(b) : Write(b, [rows EXCEPT ![r] = Resolved("skip", r, None)]))
            /\ UNCHANGED <<made, lookups>>
         \/ /\ \E r \in RowsOf(b) : /\ AsReviewed(b, [row |-> r[2], digest |-> rows[r].digest])
                                    /\ RequestAll(b, {[row |-> r[2], digest |-> rows[r].digest]})
            /\ UNCHANGED <<made, lookups>>
         \/ (\E r \in RowsOf(b) : MayImport(r) /\ ImportRow(r)) /\ UNCHANGED <<lookups>>
         \/ CancelBatch(b) /\ UNCHANGED <<made, lookups>>
    /\ UNCHANGED <<upload, staffPage, working>>

TimePasses ==
    /\ \E r \in DOMAIN rows : rows[r].until # "now" /\ rows' = [rows EXCEPT ![r] = [rows[r] EXCEPT !.until = "now"]]
    /\ UNCHANGED <<batches, made, lookups, upload, staffPage, working>>

ResumeProvider ==
    /\ lookups.paused /\ lookups' = [lookups EXCEPT !.paused = FALSE]
    /\ UNCHANGED <<batches, rows, made, upload, staffPage, working>>

\* server_prune_event_imports, ninety days later: rows that made no event are deleted.
Prune ==
    /\ \E b \in DOMAIN batches :
         /\ ~batches[b].pruned
         /\ batches' = [batches EXCEPT ![b] = [batches[b] EXCEPT !.pruned = TRUE,
                            !.state = IF batches[b].state \in ClosedStates THEN batches[b].state ELSE "cancelled"]]
         /\ rows' = [r \in {q \in DOMAIN rows : q[1] # b \/ rows[q].state = "imported"} |-> rows[r]]
    /\ UNCHANGED <<made, lookups, upload, staffPage, working>>

EventImportNext ==
    \/ \E f \in Files : UploadFile(f)
    \/ CreateBatch \/ UploadAnswered \/ UploadUnanswered
    \/ OpenBatch \/ Refetch \/ SelectRow
    \/ Continue \/ Cancel \/ Skip \/ Retry \/ ImportAnyway \/ ImportSelected
    \/ ClaimLookup \/ Complete \/ Resolve \/ CancelAll \/ RequestRows \/ ReadProgress \/ ImportNext \/ Finish
    \/ CallUnanswered \/ HandlerDies
    \/ Colleague \/ TimePasses \/ ResumeProvider \/ Prune

EventImportSpec == ImportInit /\ [][EventImportNext]_importVars

-----------------------------------------------------------------------------
(* Properties *)

\* A row becomes one event, whoever continues the batch and however often.
OneEventPerRow ==
    /\ \A d, e \in made : d.row = e.row => d = e
    /\ {d.row : d \in made} = {r \in DOMAIN rows : rows[r].state = "imported"}

\* If something like an event existed when it was made, an administrator had been
\* shown exactly that, and imported the row anyway.
NothingBehindTheirBacks == \A d \in made : ~d.unwarned

\* The batch's state is what its rows make it, whichever call wrote last.
StateOfTheBatch ==
    \A b \in DOMAIN batches : ~batches[b].pruned => batches[b].state = Refreshed(b, rows)

\* A file uploaded again without an answer, in the same tab, makes no second batch.
UploadedOnce == Len(batches) <= upload.settled + Cardinality({f \in Files : upload.key[f] # 0})

\* A lookup's answer is used only by the call that holds the row's lease.
LeasesHold ==
    /\ Cardinality({r \in DOMAIN rows : rows[r].until = "lease"}) <= Leases
    /\ \A r \in DOMAIN rows : rows[r].until = "lease" => rows[r].state = "geocoding"

\* What was imported or skipped stays so, until the batch is pruned.
RowsStaySettled ==
    [][\A r \in DOMAIN rows \cap DOMAIN rows' : rows[r].state \in Final => rows'[r] = rows[r]]_rows

ImportPromise ==
    /\ [](OneEventPerRow /\ NothingBehindTheirBacks /\ StateOfTheBatch /\ UploadedOnce /\ LeasesHold)
    /\ RowsStaySettled

=============================================================================
