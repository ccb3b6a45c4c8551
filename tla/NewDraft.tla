------------------------------ MODULE NewDraft ------------------------------
(***************************************************************************)
(* The page of a new event saves it as a draft, for its own buttons and for    *)
(* an image that needs an event to belong to, and asks again when no answer     *)
(* came; and a draft is made of an event that exists already.                   *)
(***************************************************************************)
EXTENDS Common

CONSTANTS
    FormTexts,    \* what the new event's form may say
    MaxEdits, MaxPages

\* A form's text with its request id, a draft, and a request under way.
Nonces   == [text : FormTexts, id : Nat]
Requests == [page : Nat, id : Nat, text : FormTexts, edits : Nat]
Creates  == [page : Nat, id : Nat, text : FormTexts, edits : Nat, answer : {"none", "made", "failed"}]

ASSUME NewDraftAssumption ==
    FormTexts # {} /\ MaxPages \in Nat /\ None \notin Nonces \cup Creates \cup Nat

VARIABLES
    drafts,   \* the drafts made from the form: request id, page, form
    page,     \* the page of the new event
    create,   \* its request under way
    late      \* requests nobody waits for any more

draftVars == <<drafts, page, create, late>>

NoPage == [open |-> FALSE]

NewDraftInit == drafts = {} /\ page = NoPage /\ create = None /\ late = {}

-----------------------------------------------------------------------------
(* EventEditorPage of a new event *)

NewPage(n) == [open |-> TRUE, number |-> n, text |-> CHOOSE x \in FormTexts : TRUE, edits |-> 0,
               nonce |-> None, ids |-> 0, doing |-> "none", artwork |-> None]

OpenNewEvent ==
    /\ ~page.open /\ create = None
    /\ \E n \in 1 .. MaxPages :
        /\ n > Cardinality({d.page : d \in drafts \cup late}) /\ \A d \in drafts \cup late : d.page # n
        /\ page' = NewPage(n)
    /\ UNCHANGED <<drafts, create, late>>

Writes(text) ==
    /\ page.open /\ page.doing = "none" /\ page.edits < MaxEdits /\ text # page.text
    /\ page' = [page EXCEPT !.text = text, !.edits = @ + 1]
    /\ UNCHANGED <<drafts, create, late>>

\* mutant: every press is a request of its own
NonceAnew(p) == [text |-> p.text, id |-> p.ids + 1]

\* persistForCurrentLifecycle: a request is asked again with its id, unless the form changed.
Nonce(p) ==
    IF p.nonce # None /\ p.nonce.text = p.text THEN p.nonce ELSE [text |-> p.text, id |-> p.ids + 1]

\* "Save draft", "Continue", "Generate" and, through ensureArtworkDraft, "Upload image".
PressCreate(purpose) ==
    /\ page.open /\ page.doing = "none"
    /\ IF purpose = "upload" /\ page.artwork # None
       THEN page' = [page EXCEPT !.doing = "image"] /\ create' = create
       ELSE LET nonce == Nonce(page) IN
            /\ page' = [page EXCEPT !.doing = purpose, !.nonce = nonce,
                                    !.ids = IF nonce.id > @ THEN nonce.id ELSE @]
            /\ create' = [page |-> page.number, id |-> nonce.id, text |-> page.text,
                          edits |-> page.edits, answer |-> "none"]
    /\ UNCHANGED <<drafts, late>>

Draft(c) == [page |-> c.page, id |-> c.id, text |-> c.text, edits |-> c.edits]

\* save_owned_event_draft: the request id makes the draft once; other details under an
\* id that was used are refused.
Made(c) == \E d \in drafts : d.page = c.page /\ d.id = c.id
Saves(c) == IF Made(c) THEN drafts ELSE drafts \cup {Draft(c)}
SameDetails(c) == \A d \in drafts : d.page = c.page /\ d.id = c.id => d.text = c.text

CreateArrives ==
    /\ create # None /\ create.answer = "none"
    /\ IF SameDetails(create) THEN drafts' = Saves(create) /\ create' = [create EXCEPT !.answer = "made"]
                              ELSE drafts' = drafts /\ create' = [create EXCEPT !.answer = "failed"]
    /\ UNCHANGED <<page, late>>

LateArrives ==
    \E c \in late :
        /\ drafts' = (IF \E d \in drafts : d.page = c.page /\ d.id = c.id THEN drafts ELSE drafts \cup {c})
        /\ late' = late \ {c}
        /\ UNCHANGED <<page, create>>

CreateLost ==
    /\ create # None /\ create.answer # "failed"
    /\ late' = IF create.answer = "none" THEN late \cup {Draft(create)} ELSE late
    /\ create' = [create EXCEPT !.answer = "failed"]
    /\ UNCHANGED <<drafts, page>>

CreateAnswered ==
    /\ page.open /\ create # None /\ create.answer # "none"
    /\ create' = None
    /\ page' = IF create.answer = "failed" THEN [page EXCEPT !.doing = "none"]
               ELSE IF page.doing = "upload"
               THEN [page EXCEPT !.nonce = None, !.doing = "image", !.artwork = create.id]
               ELSE NoPage   \* the draft's own editor opens
    /\ UNCHANGED <<drafts, late>>

\* The image was stored, or was not, or nobody knows: on to the draft it belongs to.
ImageSettled ==
    /\ page.open /\ page.doing = "image"
    /\ page' = NoPage
    /\ UNCHANGED <<drafts, create, late>>

LeaveNewEvent ==
    /\ page.open
    /\ page' = NoPage /\ create' = None
    /\ late' = IF create # None /\ create.answer = "none" THEN late \cup {Draft(create)} ELSE late
    /\ UNCHANGED <<drafts>>

NewDraftNext ==
    \/ OpenNewEvent \/ CreateArrives \/ LateArrives \/ CreateLost \/ CreateAnswered
    \/ ImageSettled \/ LeaveNewEvent
    \/ \E x \in FormTexts : Writes(x)
    \/ \E p \in {"save", "upload"} : PressCreate(p)

NewDraftSpec == NewDraftInit /\ [][NewDraftNext]_draftVars

-----------------------------------------------------------------------------
(* A form that is submitted again unchanged makes no second draft, however many answers
   were lost, and whichever button was pressed; nor does an image whose upload failed. *)
FormMakesOneDraft ==
    \A d, e \in drafts : d.page = e.page /\ d.edits = e.edits => d = e

-----------------------------------------------------------------------------
(* "Duplicate event": an edge function reads the source, stages a copy of its   *)
(* flyer and makes the draft in one transaction, while the source may change,    *)
(* each step may fail and answers may be lost.                                    *)

CONSTANTS
    MaxVersions,  \* versions of the event that is duplicated
    Copies        \* duplications, in the order in which they are asked for

VARIABLES
    source,   \* the version of the event that is duplicated, and whether it has a flyer
    list,     \* the page "My Events"
    copies,   \* the duplications: the edge function's progress
    objects,  \* staged flyers in storage: of which duplication, showing which version
    copied    \* the drafts they made

copyVars == <<source, list, copies, objects, copied>>

DuplicateInit ==
    /\ source \in [version : {1}, flyer : BOOLEAN]
    /\ list = [asking |-> None, unknown |-> FALSE]
    /\ copies = [c \in Copies |-> [stage |-> "idle", seen |-> None, answer |-> "none"]]
    /\ objects = {} /\ copied = {}

-----------------------------------------------------------------------------
(* OrganizerEventsPage and the edge function duplicate-event *)

SourceChanges ==
    /\ source.version < MaxVersions
    /\ \E b \in BOOLEAN : source' = [version |-> source.version + 1, flyer |-> b]
    /\ UNCHANGED <<list, copies, objects, copied>>

Next1(c) == copies[c].stage = "idle" /\ \A d \in Copies : d < c => copies[d].stage # "idle"

\* One at a time, and none while the outcome of the last is unknown.
AskCopy(c) ==
    /\ list.asking = None /\ ~list.unknown /\ Next1(c)
    /\ list' = [list EXCEPT !.asking = c]
    /\ copies' = [copies EXCEPT ![c].stage = "context"]
    /\ UNCHANGED <<source, objects, copied>>

\* get_owned_event_duplicate_context: a digest of all that will be copied
ReadSource(c) ==
    /\ copies[c].stage = "context"
    /\ copies' = [copies EXCEPT ![c].seen = source, ![c].stage = IF source.flyer THEN "stage" ELSE "finalize"]
    /\ UNCHANGED <<source, list, objects, copied>>

Rejects(c, code) == copies' = [copies EXCEPT ![c].stage = "over", ![c].answer = code]

\* The flyer's bytes are read and uploaded under the new event's id; the upload's trigger
\* refuses them when the source has changed. An upload that failed is removed again.
StageFlyer(c) ==
    /\ copies[c].stage = "stage"
    /\ \/ /\ source = copies[c].seen
          /\ objects' = objects \cup {[copy |-> c, version |-> source.version]}
          /\ copies' = [copies EXCEPT ![c].stage = "finalize"]
       \/ Rejects(c, "refused") /\ objects' = objects
    /\ UNCHANGED <<source, list, copied>>

\* duplicate_owned_event: the digest again, and the staged flyer must be of this copy.
Finalizes(c) == source = copies[c].seen

FinalizeCopy(c) ==
    /\ copies[c].stage = "finalize"
    /\ IF Finalizes(c)
       THEN /\ copied' = copied \cup {[copy |-> c, version |-> source.version, flyer |-> source.flyer]}
            /\ copies' = [copies EXCEPT ![c].stage = "made"]
       ELSE copied' = copied /\ copies' = [copies EXCEPT ![c].stage = "refused"]
    /\ UNCHANGED <<source, list, objects>>

WithoutFlyer(c) == {o \in objects : o.copy # c}

\* Only a structured failure proves that nothing was made; then the flyer is removed.
Cleaned(c, known) == IF known THEN WithoutFlyer(c) ELSE objects

FinalizeKnown(c) ==
    /\ copies[c].stage \in {"made", "refused"}
    /\ \/ /\ copies[c].stage = "made" /\ Rejects(c, "made") /\ objects' = objects
       \/ /\ copies[c].stage = "refused" /\ Rejects(c, "refused")
          /\ objects' \in {Cleaned(c, TRUE), objects}   \* the removal may fail, and is left
       \/ Rejects(c, "unknown") /\ objects' = Cleaned(c, FALSE)   \* the answer was lost on the way
    /\ UNCHANGED <<source, list, copied>>

\* The function dies, or its answer does not reach the page.
CopyUnanswered(c) ==
    /\ list.asking = c /\ copies[c].stage # "idle"
    /\ list' = [asking |-> None, unknown |-> TRUE]
    /\ \/ copies' = copies
       \/ copies' = [copies EXCEPT ![c].stage = "over", ![c].answer = "unknown"]
    /\ UNCHANGED <<source, objects, copied>>

CopyAnswered(c) ==
    /\ list.asking = c /\ copies[c].stage = "over"
    /\ list' = [asking |-> None, unknown |-> copies[c].answer = "unknown"]
    /\ UNCHANGED <<source, copies, objects, copied>>

\* "Check My Events"
CheckList ==
    /\ list.unknown
    /\ list' = [list EXCEPT !.unknown = FALSE]
    /\ UNCHANGED <<source, copies, objects, copied>>

DuplicateEventNext ==
    \/ SourceChanges \/ CheckList
    \/ \E c \in Copies : AskCopy(c) \/ ReadSource(c) \/ StageFlyer(c) \/ FinalizeCopy(c)
                         \/ FinalizeKnown(c) \/ CopyUnanswered(c) \/ CopyAnswered(c)

DuplicateEventSpec == DuplicateInit /\ [][DuplicateEventNext]_copyVars

-----------------------------------------------------------------------------
(* A duplicate is a copy of one version of the event, and its flyer is that version's
   and is there: no change during the copying mixes two versions, and no cleaning up
   after a failure takes the flyer of a draft that was made. *)
CopyIsWhole ==
    \A d \in copied : d.flyer => [copy |-> d.copy, version |-> d.version] \in objects

\* A form makes one draft and a duplication one whole copy.
DraftsAreMadeOnce == FormMakesOneDraft /\ CopyIsWhole

=============================================================================
