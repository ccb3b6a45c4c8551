-------------------------- MODULE MessageComposer --------------------------
(***************************************************************************)
(* An organizer writes to the attendees: options, preview, review, send.  A  *)
(* send whose answer is unknown must not be followed by another: the page     *)
(* keeps its request id in the tab's storage, and asks for its receipt.       *)
(***************************************************************************)
EXTENDS Common

CONSTANTS
    Drafts,      \* what may be written: a function of "to", "words" and "padded"
    MaxFacts,    \* audiences there are, the empty one apart
    MaxSends,    \* bound on dispatches of a send
    HourLimit    \* messages the event may send

\* What a dispatch is answered, and what the page waits for.
SendCodes   == {"none", "UNAUTHORIZED", "SUBMISSION_UNKNOWN", "REQUEST_CONFLICT", "MODERATION_BLOCKED",
                "PREVIEW_CHANGED", "NO_RECIPIENTS", "LIMIT_REACHED"}
SendAnswers == [kind : {"receipt", "unknown", "not_queued"}, id : Nat \cup {None}, code : SendCodes]
SendCalls   == [kind : {"preview", "submit", "receipt"}, no : Nat, answer : SendAnswers \cup {None}]

ASSUME ComposerAssumption ==
    /\ None \notin Nat \cup SendAnswers \cup SendCalls
    /\ \A d \in Drafts : DOMAIN d = {"to", "words", "padded"} /\ d.padded \in BOOLEAN
    /\ {MaxFacts, MaxSends, HourLimit} \subseteq Nat

VARIABLES
    outreach,  \* the database: what decides a preview, and the messages queued
    composer,  \* the page
    kept,      \* the tab's session storage
    sends,     \* submissions that are on their way or being processed
    pressed    \* history: what the organizer reviewed and sent

messageVars == <<outreach, composer, kept, sends, pressed>>

-----------------------------------------------------------------------------
(* The database.  The audience and what a mail says of the event are one number, *)
(* 0 while nobody is eligible.                                                   *)

\* messageSubjectSchema, messageBodySchema and organizer_message_text agree on this.
Trimmed(d) == [d EXCEPT !.padded = FALSE]

\* organizer_message_preview: who would get it, and what of the event it says
PreviewFingerprint(d) == [draft |-> Trimmed(d), facts |-> outreach.facts, open |-> outreach.open]

Reason == IF ~outreach.open THEN "MODERATION_BLOCKED" ELSE "none"

Receipt(id) == [kind |-> "receipt", id |-> id, code |-> "none"]
Failure(code, outcome) == [kind |-> outcome, id |-> None, code |-> code]
Unknown == Failure("SUBMISSION_UNKNOWN", "unknown")

\* submit_owned_organizer_message: the answer, and the messages after it
Submitted(i) ==
    LET queued == {m \in outreach.messages : m.id = i.id}
        message == [id |-> i.id, fingerprint |-> i.fingerprint, facts |-> outreach.facts] IN
    IF queued # {}
    THEN [answer |-> IF \A m \in queued : m.fingerprint = i.fingerprint THEN Receipt(i.id)
                     ELSE Failure("REQUEST_CONFLICT", "not_queued"),
          messages |-> outreach.messages]
    ELSE LET refusal ==
                IF Reason # "none" THEN Reason
                ELSE IF PreviewFingerprint(i.fingerprint.draft) # i.fingerprint THEN "PREVIEW_CHANGED"
                ELSE IF outreach.facts = 0 THEN "NO_RECIPIENTS"
                ELSE IF Cardinality(outreach.messages) >= HourLimit THEN "LIMIT_REACHED"
                ELSE "none" IN
         IF refusal # "none" THEN [answer |-> Failure(refusal, "not_queued"), messages |-> outreach.messages]
         ELSE [answer |-> Receipt(i.id), messages |-> outreach.messages \cup {message}]

-----------------------------------------------------------------------------
(* The page *)

Composing ==
    [at |-> "composer", pending |-> None, intent |-> None, unknown |-> FALSE, blocked |-> FALSE, options |-> FALSE,
     draft |-> None, review |-> None, receipt |-> None, call |-> None]
Gone == [Composing EXCEPT !.at = "away"]

MessageInit ==
    /\ outreach = [facts |-> 1, open |-> TRUE, messages |-> {}]
    /\ composer = Gone /\ kept = None /\ sends = {}
    /\ pressed = {}

Calling(kind, no) == [kind |-> kind, no |-> no, answer |-> None]
MessageIdle == composer.at = "composer" /\ composer.call = None

\* Storage that cannot be read or is another's blocks the page.
OpenComposer ==
    /\ composer = Gone
    /\ \/ composer' = [Composing EXCEPT !.pending = kept, !.unknown = kept # None]
       \/ composer' = [Composing EXCEPT !.blocked = TRUE]
    /\ UNCHANGED <<outreach, kept, sends, pressed>>

LeaveComposer ==
    /\ composer # Gone /\ composer' = Gone
    /\ UNCHANGED <<outreach, kept, sends, pressed>>

\* The options are read once, and say whether the event may send.
ReadOptions ==
    /\ composer.at = "composer" /\ ~composer.options /\ outreach.open
    /\ composer' = [composer EXCEPT !.options = TRUE]
    /\ UNCHANGED <<outreach, kept, sends, pressed>>

Form   == MessageIdle /\ composer.options /\ composer.pending = None /\ composer.receipt = None /\ composer.review = None
Review == MessageIdle /\ composer.options /\ composer.pending = None /\ composer.receipt = None /\ composer.review # None

\* The audience, the subject and the text are typed, and the preview is asked for.
AskPreview ==
    /\ Form /\ ~composer.blocked
    /\ \E d \in Drafts : composer' = [composer EXCEPT !.draft = d, !.call = Calling("preview", 0)]
    /\ UNCHANGED <<outreach, kept, sends, pressed>>

\* The review shows what the answer says, or an error.
ReceivePreview ==
    /\ composer.call = Calling("preview", 0)
    /\ composer' = [composer EXCEPT !.call = None, !.review = None]
    /\ UNCHANGED <<outreach, kept, sends, pressed>>

AnswerPreview ==
    /\ composer.call = Calling("preview", 0) /\ Reason = "none"
    /\ composer' = [composer EXCEPT !.call = None, !.review = [fingerprint |-> PreviewFingerprint(composer.draft), canSend |-> outreach.facts > 0]]
    /\ UNCHANGED <<outreach, kept, sends, pressed>>

EditMessage ==
    /\ Review
    /\ composer' = [composer EXCEPT !.review = None]
    /\ UNCHANGED <<outreach, kept, sends, pressed>>

NextSend == 1 + Cardinality({p.no : p \in pressed})

\* The request goes out, or is not dispatched: nobody, or somebody else, is signed in.
Dispatched(page, i, no) ==
    \/ /\ composer' = [page EXCEPT !.call = Calling("submit", no)]
       /\ sends' = sends \cup {[no |-> no, intent |-> i]}
    \/ /\ composer' = [page EXCEPT !.call = [Calling("submit", no) EXCEPT !.answer = Failure("UNAUTHORIZED", "not_queued")]]
       /\ UNCHANGED sends

\* The id is stored before anything is sent.
SendMessageNow ==
    /\ Review /\ composer.review.canSend /\ ~composer.blocked
    /\ NextSend <= MaxSends
    /\ LET i == [id |-> NextSend, fingerprint |-> composer.review.fingerprint] IN
       /\ kept' = i.id
       /\ pressed' = pressed \cup {[no |-> NextSend, intent |-> i]}
       /\ Dispatched([composer EXCEPT !.pending = i.id, !.intent = i], i, NextSend)
    /\ UNCHANGED outreach

\* "Retry same send", while the page has the content
RetrySend ==
    /\ MessageIdle /\ composer.pending # None /\ composer.receipt = None /\ composer.intent # None
    /\ NextSend <= MaxSends
    /\ pressed' = pressed \cup {[no |-> NextSend, intent |-> composer.intent]}
    /\ Dispatched(composer, composer.intent, NextSend)
    /\ UNCHANGED <<outreach, kept>>

CheckStatus ==
    /\ MessageIdle /\ composer.pending # None /\ composer.receipt = None
    /\ composer' = [composer EXCEPT !.call = Calling("receipt", 0)]
    /\ UNCHANGED <<outreach, kept, sends, pressed>>

\* The page of a dispatch, if it still waits for it
Awaited(no, answer) ==
    IF composer.call = Calling("submit", no)
    THEN composer' = [composer EXCEPT !.call.answer = answer]
    ELSE UNCHANGED composer

\* A submission is processed, sooner or later; its answer may be lost on the way.
ProcessSend ==
    /\ \E s \in sends :
          LET r == Submitted(s.intent) IN
          /\ outreach' = [outreach EXCEPT !.messages = r.messages]
          /\ sends' = sends \ {s}
          /\ Awaited(s.no, r.answer) \/ UNCHANGED composer
    /\ UNCHANGED <<kept, pressed>>

\* It is lost, or the function is killed, or the session is refused.
LoseSend ==
    /\ \E s \in sends : sends' = sends \ {s} /\ Awaited(s.no, Unknown)
    /\ UNCHANGED <<outreach, kept, pressed>>

\* The page hears nothing, or nothing it understands, while the request may go on.
SendUnanswered ==
    /\ composer.at = "composer" /\ composer.call # None /\ composer.call.kind = "submit" /\ composer.call.answer = None
    /\ composer' = [composer EXCEPT !.call.answer = Unknown]
    /\ UNCHANGED <<outreach, kept, sends, pressed>>

\* complete; an entry that cannot be removed is checked again after a reload.
Completed(id) ==
    /\ composer' = [composer EXCEPT !.call = None, !.receipt = id, !.pending = None, !.intent = None, !.review = None, !.draft = None]
    /\ kept' \in {None, kept}

Unresolved == composer' = [composer EXCEPT !.call = None, !.unknown = TRUE] /\ UNCHANGED kept

\* Refused for sure: the send is over, if its entry can be removed.
Refused ==
    \/ /\ kept' = None
       /\ composer' = [composer EXCEPT !.call = None, !.pending = None, !.intent = None, !.review = None]
    \/ UNCHANGED kept /\ composer' = [composer EXCEPT !.call = None]

\* Mutant: a refusal is taken for the end of the send, though an earlier attempt of it is unanswered.
ReceiveSentAnyway ==
    /\ composer.call # None /\ composer.call.kind = "submit" /\ composer.call.answer # None
    /\ LET a == composer.call.answer IN
       IF a.kind = "receipt" /\ a.id = composer.intent.id THEN Completed(a.id)
       ELSE IF a.kind = "not_queued" /\ a.code # "REQUEST_CONFLICT" THEN Refused
       ELSE Unresolved
    /\ UNCHANGED <<outreach, sends, pressed>>

ReceiveSent ==
    /\ composer.call # None /\ composer.call.kind = "submit" /\ composer.call.answer # None
    /\ LET a == composer.call.answer IN
       IF a.kind = "receipt" /\ a.id = composer.intent.id THEN Completed(a.id)
       ELSE IF ~composer.unknown /\ a.kind = "not_queued" /\ a.code # "REQUEST_CONFLICT" THEN Refused
       ELSE Unresolved
    /\ UNCHANGED <<outreach, sends, pressed>>

\* get_owned_organizer_message_receipt: there is one, or none yet, or the check fails.
ReceiveStatus ==
    /\ composer.call = Calling("receipt", 0)
    /\ \/ /\ composer.pending \in {m.id : m \in outreach.messages}
          /\ Completed(composer.pending)
       \/ composer' = [composer EXCEPT !.call = None] /\ UNCHANGED kept
    /\ UNCHANGED <<outreach, sends, pressed>>

-----------------------------------------------------------------------------
(* Tickets are bought, refunded and blocked; the event is edited and moderated. *)

AudienceChanges ==
    /\ \E f \in 0 .. MaxFacts \ {outreach.facts} : outreach' = [outreach EXCEPT !.facts = f]
    /\ UNCHANGED <<composer, kept, sends, pressed>>

Moderated ==
    /\ outreach' = [outreach EXCEPT !.open = ~@]
    /\ UNCHANGED <<composer, kept, sends, pressed>>

MessageComposerNext ==
    \/ OpenComposer \/ LeaveComposer \/ ReadOptions
    \/ AskPreview \/ AnswerPreview \/ ReceivePreview \/ EditMessage
    \/ SendMessageNow \/ RetrySend \/ CheckStatus
    \/ ProcessSend \/ LoseSend \/ SendUnanswered
    \/ ReceiveSent \/ ReceiveStatus
    \/ AudienceChanges \/ Moderated

MessageComposerSpec == MessageInit /\ [][MessageComposerNext]_messageVars

-----------------------------------------------------------------------------
(* Properties *)

\* A page that offers to write or to send a message has no earlier send of the
\* tab behind it that may yet be queued: attempts are lost, answered late, refused
\* on a retry, and the page is left and reloaded meanwhile.
NothingBehindTheForm ==
    (composer.at = "composer" /\ composer.pending = None /\ ~composer.blocked)
    => \A s \in sends : s.intent.id \in {m.id : m \in outreach.messages}

\* However often a send is retried, one message is queued for it: what was
\* reviewed, to the audience it was reviewed for.
SentAsReviewed ==
    /\ \A m, n \in outreach.messages : m.id = n.id => m = n
    /\ \A m \in outreach.messages :
          /\ \E p \in pressed : p.intent.id = m.id /\ p.intent.fingerprint = m.fingerprint
          /\ m.facts = m.fingerprint.facts

\* The receipt on the page is that of a message.
ReceiptIsOfAMessage ==
    composer.receipt # None => composer.receipt \in {m.id : m \in outreach.messages}

MessagePromise == NothingBehindTheForm /\ SentAsReviewed /\ ReceiptIsOfAMessage

=============================================================================
