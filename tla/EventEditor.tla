----------------------------- MODULE EventEditor -----------------------------
(***************************************************************************)
(* One organizer tab that edits a saved event, has its policies accepted and *)
(* publishes it from the preview, while other tabs, the ticket page and the   *)
(* staff change the same event. Every write of the tab names the version of    *)
(* the event the tab last adopted (the context token, a digest of the event);  *)
(* the database refuses it when the event is another one by then.              *)
(***************************************************************************)
EXTENDS Common, Sequences

CONSTANTS
    Texts,        \* what the event's form may say
    Answers,      \* the answers to the disclosure questions
    MaxEdition,  \* revisions of the content
    MaxTiers,     \* changes of the tiers; one taken back between the preview's two reads
                  \* (of the event, then of the tiers) would pass its checks and is left out
    MaxSaves      \* writes of the tab

ASSUME EditorAssumption ==
    LET contents == [text : Texts, answers : Answers \cup {None}] IN
    /\ MaxTiers \in Nat /\ MaxEdition \in Nat \ {0}
    /\ None \notin [action : {"save", "requirements", "agreement", "accept"},
                   left : {<<>>, <<"answers">>, <<"answers", "accept">>, <<"accept">>},
                   revised : BOOLEAN, current : BOOLEAN, agreed : contents \cup {None}, shown : contents]

VARIABLES
    event,     \* the saved event: what its context token is a digest of
    consents,  \* history: what was displayed when the policies of a revision were accepted
    editor,    \* the editor page: baseline, form, what it does
    preview,   \* the preview page
    call,      \* the tab's write under way
    strays,    \* writes the tab no longer waits for; they may still arrive
    reviewed,  \* history: what the preview showed when the event was published
    saves      \* writes begun so far

editorVars == <<event, consents, editor, preview, call, strays, reviewed, saves>>

Tiers == 0 .. MaxTiers

Content(e) == [text |-> e.text, answers |-> e.answers]
Reviewed(e, tiers) == [text |-> e.text, answers |-> e.answers, tiers |-> tiers]

NeedsAcceptance(e) == e.accepted # e.revision

EditorInit ==
    /\ event \in [text : Texts, answers : Answers \cup {None}, tiers : {0}, revision : {1},
                  accepted : {0}, status : {"draft"}]
    /\ consents = [r \in 1 .. MaxEdition |-> None]
    /\ editor = [open |-> FALSE] /\ preview = [open |-> FALSE]
    /\ call = None /\ strays = {} /\ reviewed = None /\ saves = 0

-----------------------------------------------------------------------------
(* The database: each write locks the event and compares the whole context first. *)

Matches(token) == token = event

\* A change of what the public reads makes a new revision, which no acceptance covers.
Revised(e) == IF Content(e) = Content(event) THEN e ELSE [e EXCEPT !.revision = e.revision + 1]

Written(c) ==
    CASE c.kind = "text" -> Revised([event EXCEPT !.text = c.text])
      [] c.kind = "answers" -> Revised([event EXCEPT !.answers = c.answers])
      [] c.kind = "accept" -> [event EXCEPT !.accepted = event.revision]
      [] c.kind = "publish" -> [event EXCEPT !.status = "published"]

Performs(c) ==
    /\ c.kind = "publish" => ~NeedsAcceptance(event)
    /\ Written(c).revision <= MaxEdition
    /\ event' = Written(c)
    /\ consents' = IF c.kind = "accept" /\ NeedsAcceptance(event)
                   THEN [consents EXCEPT ![event.revision] = c.agreed] ELSE consents
    /\ reviewed' = IF c.kind = "publish" /\ event.status = "draft" THEN c.shown ELSE reviewed

CallArrives ==
    /\ call # None /\ call.answer = "none"
    /\ \/ /\ Matches(call.token) /\ Performs(call)
          /\ call' = [call EXCEPT !.answer = "ok", !.context = event']
       \/ /\ ~Matches(call.token)
          /\ call' = [call EXCEPT !.answer = "conflict"]
          /\ UNCHANGED <<event, consents, reviewed>>
       \/ /\ Matches(call.token) /\ call.kind = "publish" /\ NeedsAcceptance(event)
          /\ call' = [call EXCEPT !.answer = "refused"]
          /\ UNCHANGED <<event, consents, reviewed>>
    /\ UNCHANGED <<editor, preview, strays, saves>>

\* The connection fails before the write arrives, or after: the tab cannot tell.
CallLost ==
    /\ call # None /\ call.answer \notin {"unknown", "conflict", "refused"}
    /\ strays' = IF call.answer = "none" THEN strays \cup {call} ELSE strays
    /\ call' = [call EXCEPT !.answer = "unknown"]
    /\ UNCHANGED <<event, consents, editor, preview, reviewed, saves>>

StrayArrives ==
    \E c \in strays :
        /\ IF Matches(c.token) /\ (c.kind = "publish" => ~NeedsAcceptance(event)) THEN Performs(c)
           ELSE UNCHANGED <<event, consents, reviewed>>
        /\ strays' = strays \ {c}
        /\ UNCHANGED <<editor, preview, call, saves>>

\* Another tab saves and accepts what it shows; the ticket page changes the tiers.
OthersWrite ==
    /\ \/ \E e \in {[event EXCEPT !.text = x] : x \in Texts}
              \cup {[event EXCEPT !.answers = a] : a \in Answers} :
            /\ e # event /\ Revised(e).revision <= MaxEdition
            /\ event' = Revised(e) /\ consents' = consents
       \/ /\ event.answers # None /\ NeedsAcceptance(event)
          /\ event' = [event EXCEPT !.accepted = event.revision]
          /\ consents' = [consents EXCEPT ![event.revision] = Content(event)]
       \/ /\ event.tiers + 1 \in Tiers
          /\ event' = [event EXCEPT !.tiers = event.tiers + 1] /\ consents' = consents
    /\ UNCHANGED <<editor, preview, call, strays, reviewed, saves>>

-----------------------------------------------------------------------------
(* EventEditorPage: the form *)

\* The answers' form as it is set from a context: the box is ticked when the policies
\* are accepted for this version. agreed is history: what the tick in the box stands for.
Requirements(page, e, box, agreed) ==
    [page EXCEPT !.answers = e.answers, !.box = box, !.boxWas = box, !.invalidated = ~box,
                 !.agreed = agreed]

Hydrated(flow, step, e) ==
    LET accepted == ~NeedsAcceptance(e) IN
    [open |-> TRUE, flow |-> flow, step |-> step, base |-> e, text |-> e.text, answers |-> e.answers,
     box |-> accepted, boxWas |-> accepted, invalidated |-> FALSE,
     agreed |-> IF accepted THEN Content(e) ELSE None, write |-> "ready", doing |-> None]

OpenEditor ==
    /\ ~editor.open /\ ~preview.open
    /\ \E flow \in {"creation", "plain"} : editor' = Hydrated(flow, 3, event)
    /\ UNCHANGED <<event, consents, preview, call, strays, reviewed, saves>>

\* Leaving, another event, another account: what was sent stays sent.
LeaveEditor ==
    /\ editor.open \/ preview.open
    /\ editor' = [open |-> FALSE] /\ preview' = [open |-> FALSE]
    /\ strays' = IF call # None /\ call.answer = "none" THEN strays \cup {call} ELSE strays
    /\ call' = None
    /\ UNCHANGED <<event, consents, reviewed, saves>>

TextIsDirty == editor.text # editor.base.text
AnswersAreDirty == editor.answers # editor.base.answers \/ editor.box # editor.boxWas

\* The creation form is disabled while the page writes; the editor's is not.
Editable == editor.open /\ (editor.flow = "creation" => editor.doing = None /\ editor.write = "ready")

Type ==
    /\ Editable /\ editor.step = 3
    /\ \E x \in Texts \ {editor.text} : editor' = [editor EXCEPT !.text = x]
    /\ UNCHANGED <<event, consents, preview, call, strays, reviewed, saves>>

\* resetDisplayedAgreement: what is displayed is no longer what was agreed to.
WithoutAgreement(page) == [page EXCEPT !.invalidated = TRUE, !.box = FALSE, !.agreed = None]

AnswerQuestion ==
    /\ Editable /\ editor.step = 4
    /\ \E a \in Answers \ {editor.answers} :
        editor' = WithoutAgreement([editor EXCEPT !.answers = a])
    /\ UNCHANGED <<event, consents, preview, call, strays, reviewed, saves>>

\* The creation flow reviews answers and agreement on one page (step 4).
AgreementShows == editor.step = IF editor.flow = "creation" THEN 4 ELSE 5

TickBox ==
    /\ Editable /\ AgreementShows
    /\ editor' = [editor EXCEPT !.box = ~editor.box,
           !.agreed = IF editor.box THEN None ELSE [text |-> editor.text, answers |-> editor.answers]]
    /\ UNCHANGED <<event, consents, preview, call, strays, reviewed, saves>>

MayWrite == editor.open /\ editor.doing = None /\ editor.write = "ready"

Back ==
    /\ MayWrite /\ editor.step > 3
    /\ editor' = [editor EXCEPT !.step = editor.step - 1]
    /\ UNCHANGED <<event, consents, preview, call, strays, reviewed, saves>>

-----------------------------------------------------------------------------
(* EventEditorPage: writing. A page's action is a chain of writes; each names the *)
(* context that the write before it returned.                                   *)

Token(page) == page.base

Request(kind, page, text) ==
    [kind |-> kind, token |-> Token(page), text |-> text, answers |-> page.answers,
     agreed |-> page.agreed, shown |-> None, before |-> page.doing.shown, answer |-> "none", context |-> None]

\* what the handlers close over when the button is pressed
AgreementWasCurrent(textChanged) ==
    ~NeedsAcceptance(editor.base) /\ ~textChanged /\ ~AnswersAreDirty /\ ~editor.invalidated

Starts(action, chain, current) ==
    /\ saves < MaxSaves /\ saves' = saves + 1
    /\ editor' = [editor EXCEPT !.doing =
           [action |-> action, left |-> Tail(chain), revised |-> TextIsDirty, current |-> current,
            agreed |-> editor.agreed, shown |-> Content(editor.base)]]
    /\ call' = Request(Head(chain), editor', editor.text)
    /\ UNCHANGED <<event, consents, preview, strays, reviewed>>

SaveEvent ==
    /\ MayWrite
    /\ LET withAnswers == editor.step >= 4 \/ AnswersAreDirty IN
       /\ withAnswers => editor.answers # None
       /\ Starts("save", IF withAnswers THEN <<"text", "answers">> ELSE <<"text">>,
                 AgreementWasCurrent(TextIsDirty))

ContinueToRequirements ==
    MayWrite /\ editor.step = 3 /\ Starts("requirements", <<"text">>, FALSE)

ContinueToAgreement ==
    /\ MayWrite /\ editor.flow = "plain" /\ editor.step = 4 /\ editor.answers # None
    /\ Starts("agreement", <<"answers">>, AgreementWasCurrent(FALSE))

SubmitAgreement ==
    /\ MayWrite /\ AgreementShows /\ editor.box /\ editor.answers # None
    /\ Starts("accept", <<"text", "answers", "accept">>, FALSE)

\* adoptContext: the returned context is the baseline of what follows; the event's
\* form is set from it.
Adopted(c) == [editor EXCEPT !.base = c.context, !.text = IF c.kind = "text" THEN c.context.text ELSE editor.text]

\* the chain is done: resetRequirements, resetDisplayedAgreement and the next page
Done(page) ==
    LET d == page.doing
        still == [page EXCEPT !.doing = None] IN
    CASE d.action = "requirements" ->
            [(IF d.revised THEN WithoutAgreement(still) ELSE still) EXCEPT !.step = 4]
      [] d.action = "agreement" ->
            [Requirements(still, page.base, d.current, IF d.current THEN d.agreed ELSE None) EXCEPT !.step = 5]
      [] d.action = "save" ->
            IF call.kind = "answers"
            THEN Requirements(still, page.base, d.current, IF d.current THEN page.agreed ELSE None)
            ELSE IF d.revised THEN WithoutAgreement(still) ELSE still

EditorAnswered ==
    /\ editor.open /\ editor.doing # None /\ call.answer # "none"
    /\ IF call.answer # "ok"
       THEN /\ editor' = [editor EXCEPT !.doing = None,
                  !.write = IF call.answer = "conflict" THEN "conflict" ELSE "unknown"]
            /\ call' = None /\ UNCHANGED preview
       ELSE IF editor.doing.left # <<>>
       THEN LET next == Head(editor.doing.left)
                page == [Adopted(call) EXCEPT !.doing.left = Tail(editor.doing.left)] IN
            /\ editor' = page
            /\ call' = [Request(next, page, page.text) EXCEPT !.agreed = page.doing.agreed]
            /\ UNCHANGED preview
       ELSE /\ call' = None
            /\ IF editor.doing.action = "accept"
               THEN editor' = [open |-> FALSE] /\ preview' = [open |-> TRUE, base |-> None]
               ELSE editor' = Done(Adopted(call)) /\ UNCHANGED preview
    /\ UNCHANGED <<event, consents, strays, reviewed, saves>>

\* "Reload saved event": the inputs give way to what is saved.
ReloadBaseline ==
    /\ editor.open /\ editor.doing = None /\ editor.write # "ready"
    /\ editor' = Hydrated(editor.flow, editor.step, event)
    /\ UNCHANGED <<event, consents, preview, call, strays, reviewed, saves>>

-----------------------------------------------------------------------------
(* EventPreviewPage: a draft is published from the version that is displayed. *)

OpenPreview ==
    /\ ~editor.open /\ ~preview.open
    /\ preview' = [open |-> TRUE, base |-> None]
    /\ UNCHANGED <<event, consents, editor, call, strays, reviewed, saves>>

\* The context is read anew; the tiers may come from the cache.
PreviewLoads ==
    /\ preview.open /\ preview.base = None
    /\ \E x \in 0 .. event.tiers :
            preview' = [open |-> TRUE, base |-> event, tiers |-> x, confirming |-> FALSE,
                        publish |-> "ready", doing |-> "none", fresh |-> None]
    /\ UNCHANGED <<event, consents, editor, call, strays, reviewed, saves>>

Shows == preview.open /\ preview.base # None

TiersRefetched ==
    /\ Shows /\ preview.doing = "none" /\ preview.tiers # event.tiers
    /\ preview' = [preview EXCEPT !.tiers = event.tiers]
    /\ UNCHANGED <<event, consents, editor, call, strays, reviewed, saves>>

PressPublish ==
    /\ Shows /\ preview.doing = "none" /\ preview.publish = "ready"
    /\ preview.base.status = "draft" /\ preview.base.answers # None /\ ~NeedsAcceptance(preview.base)
    /\ preview' = IF preview.confirming THEN [preview EXCEPT !.doing = "context"]
                  ELSE [preview EXCEPT !.confirming = TRUE]
    /\ UNCHANGED <<event, consents, editor, call, strays, reviewed, saves>>

ContextChecked ==
    /\ Shows /\ preview.doing = "context"
    /\ preview' = [preview EXCEPT !.fresh = event, !.doing = "tiers"]
    /\ UNCHANGED <<event, consents, editor, call, strays, reviewed, saves>>

\* mutant: the tiers on display are not compared
UnchangedEvent(freshTiers) == preview.fresh = preview.base

\* The displayed version and tiers, or the organizer looks again.
Unchanged(freshTiers) == preview.fresh = preview.base /\ freshTiers = preview.tiers

TiersChecked ==
    /\ Shows /\ preview.doing = "tiers"
    /\ IF ~Unchanged(event.tiers)
       THEN /\ preview' = [preview EXCEPT !.base = preview.fresh, !.tiers = event.tiers,
                                          !.confirming = FALSE, !.doing = "none", !.fresh = None]
            /\ UNCHANGED <<call, saves>>
       ELSE \/ /\ saves < MaxSaves /\ saves' = saves + 1
               /\ preview' = [preview EXCEPT !.doing = "publish"]
               /\ call' = [kind |-> "publish", token |-> preview.fresh, text |-> None, answers |-> None,
                           agreed |-> None, shown |-> Reviewed(preview.base, preview.tiers),
                           before |-> None, answer |-> "none", context |-> None]
            \/ /\ preview' = [preview EXCEPT !.doing = "none", !.fresh = None]  \* payments are not set up
               /\ UNCHANGED <<call, saves>>
    /\ UNCHANGED <<event, consents, editor, strays, reviewed>>

PublishAnswered ==
    /\ Shows /\ preview.doing = "publish" /\ call.answer # "none"
    /\ call' = None
    /\ LET rested == [preview EXCEPT !.doing = "none", !.fresh = None] IN
       \/ /\ call.answer = "ok" /\ preview' = [open |-> FALSE]
       \/ /\ call.answer = "conflict" /\ preview' = [rested EXCEPT !.publish = "conflict"]
       \/ /\ call.answer \in {"unknown", "refused"}  \* what did happen is read
          /\ \/ preview' = IF event.status = "published" THEN [open |-> FALSE]
                           ELSE [rested EXCEPT !.base = event, !.confirming = FALSE]
             \/ preview' = [rested EXCEPT !.publish = "unknown"]
    /\ UNCHANGED <<event, consents, editor, strays, reviewed, saves>>

ReloadPreview ==
    /\ Shows /\ preview.doing = "none" /\ preview.publish # "ready"
    /\ preview' = [preview EXCEPT !.base = event, !.publish = "ready"]
    /\ UNCHANGED <<event, consents, editor, call, strays, reviewed, saves>>

EventEditorNext ==
    \/ CallArrives \/ CallLost \/ StrayArrives \/ OthersWrite
    \/ OpenEditor \/ LeaveEditor \/ Type \/ AnswerQuestion \/ TickBox \/ Back
    \/ SaveEvent \/ ContinueToRequirements \/ ContinueToAgreement \/ SubmitAgreement
    \/ EditorAnswered \/ ReloadBaseline
    \/ OpenPreview \/ PreviewLoads \/ TiersRefetched \/ PressPublish
    \/ ContextChecked \/ TiersChecked \/ PublishAnswered \/ ReloadPreview

EventEditorSpec == EditorInit /\ [][EventEditorNext]_editorVars

-----------------------------------------------------------------------------
(* Policies are accepted for a version of the event only while the box was ticked on
   that very version: not on an earlier text, on other answers, or on a version that
   somebody else saved between the writes of "Save agreement and preview". *)
AcceptedIsWhatWasTicked ==
    event.accepted = event.revision => consents[event.revision] = Content(event)

(* A draft goes public as the organizer saw it in the preview: the same text, answers
   and tiers, whatever changed between the checks and the publication. *)
PublishedIsWhatWasReviewed ==
    [][event.status # event'.status => reviewed' = Reviewed(event', event'.tiers)]_editorVars

(* What a write of this tab replaces is what the organizer had before them when they
   pressed the button: nobody's change is overwritten unseen, not even between the
   writes of one chain. *)
NothingUnseenIsReplaced ==
    [][\A c \in strays \cup ({call} \ {None}) :
         /\ (c.kind = "text" /\ CallArrives /\ c = call /\ event'.text # event.text)
                => event.text = c.before.text
         /\ (c.kind = "answers" /\ CallArrives /\ c = call /\ event'.answers # event.answers)
                => event.answers = c.before.answers]_editorVars

\* Nothing is accepted, published or replaced that the organizer did not see.
EditorPromise ==
    []AcceptedIsWhatWasTicked /\ PublishedIsWhatWasReviewed /\ NothingUnseenIsReplaced

=============================================================================
