---------------------------- MODULE PagesProofs -----------------------------
(***************************************************************************)
(* What the pages of an organizer keep, whatever answers are lost and late. *)
(***************************************************************************)
EXTENDS NewDraft, MessageComposer, OrganizerSession, Storefront, EventEditor,
        FiniteSetTheorems, SequenceTheorems, TLAPS

-----------------------------------------------------------------------------
(* A new event: one form, one draft *)

Pages == [open : {TRUE}, number : Nat, text : FormTexts, edits : Nat,
          nonce : Nonces \cup {None}, ids : Nat, doing : {"none", "save", "upload", "image"},
          artwork : Nat \cup {None}]

\* Every request that was ever sent and may still make, or made, a draft.
AskedFor == drafts \cup late \cup (IF create = None THEN {} ELSE {Draft(create)})

DraftTypeOK ==
    /\ drafts \subseteq Requests /\ late \subseteq Requests
    /\ create \in Creates \cup {None}
    /\ page \in Pages \cup {NoPage}

\* A form between two edits has one request id, and an id makes one draft.
OneIdPerForm ==
    \A r, s \in AskedFor : r.page = s.page /\ r.edits = s.edits => r.id = s.id
OneDraftPerId ==
    \A d, e \in drafts : d.page = e.page /\ d.id = e.id => d = e

\* The open page knows the id of what it asked since the last edit; while it
\* stores an image it asks nothing any more.
PageKnows ==
    /\ create # None => page.open /\ create.page = page.number /\ page.doing \in {"save", "upload"}
    /\ page.open /\ page.doing # "image" => \A r \in AskedFor : r.page = page.number =>
          /\ r.edits <= page.edits
          /\ r.edits = page.edits =>
                page.nonce # None /\ page.nonce.text = page.text /\ r.id = page.nonce.id

DraftKept == DraftTypeOK /\ OneIdPerForm /\ OneDraftPerId /\ PageKnows

LEMMA PageEdited ==
  ASSUME NEW p \in Pages, NEW x \in FormTexts
  PROVE  LET q == [p EXCEPT !.text = x, !.edits = @ + 1] IN
         /\ q \in Pages /\ q.open /\ q.number = p.number /\ q.edits = p.edits + 1
         /\ p.edits \in Nat
<1> DEFINE m == [p EXCEPT !.text = x]
           n == [m EXCEPT !.edits = p.edits + 1]
<1>1. p.edits \in Nat /\ p.edits + 1 \in Nat
  BY DEF Pages
<1>. m \in Pages /\ m.number = p.number
  BY DEF Pages
<1>2. n \in Pages /\ n.open /\ n.number = p.number /\ n.edits = p.edits + 1
  <2> HIDE DEF m
  <2>1. QED
    BY <1>1 DEF Pages
<1>3. [p EXCEPT !.text = x, !.edits = @ + 1] = [p EXCEPT !.text = x, !.edits = p.edits + 1]
  OBVIOUS
<1>4. [p EXCEPT !.text = x, !.edits = p.edits + 1] = n
  OBVIOUS
<1>5. QED
  BY <1>1, <1>2, <1>3, <1>4

LEMMA DraftOfCreate ==
  ASSUME NEW c \in Creates
  PROVE  /\ Draft(c) \in Requests /\ Draft(c).page = c.page /\ Draft(c).id = c.id
         /\ Draft(c).edits = c.edits
  BY DEF Draft, Creates, Requests

LEMMA InitDraftKept == NewDraftInit => DraftKept
  BY NewDraftAssumption
     DEF NewDraftInit, DraftKept, DraftTypeOK, OneIdPerForm, OneDraftPerId, PageKnows, AskedFor, NoPage

\* Requests get lost, arrive late, or their page is left: none is new.
LEMMA NothingAsked ==
  ASSUME DraftKept, DraftTypeOK', AskedFor' \subseteq AskedFor, OneDraftPerId',
         create' # None => UNCHANGED page /\ create # None /\ create'.page = create.page,
         page'.open /\ page'.doing # "image" =>
            /\ page.open /\ page.doing # "image" /\ page'.number = page.number
            /\ page'.edits = page.edits /\ page'.nonce = page.nonce /\ page'.text = page.text
  PROVE  DraftKept'
<1>1. OneIdPerForm'
  BY DEF DraftKept, OneIdPerForm
<1>2. PageKnows'
  BY DEF DraftKept, PageKnows
<1>3. QED
  BY <1>1, <1>2 DEF DraftKept

LEMMA OpenKeeps == ASSUME DraftKept, OpenNewEvent PROVE DraftKept'
<1> USE NewDraftAssumption DEF DraftKept
<1>1. PICK n \in 1 .. MaxPages :
         page' = NewPage(n) /\ \A d \in drafts \cup late : d.page # n
  BY DEF OpenNewEvent
<1>2. create = None /\ UNCHANGED <<drafts, create, late>>
  BY DEF OpenNewEvent
<1>3. page' \in Pages /\ page'.number = n
  <2>1. (CHOOSE x \in FormTexts : TRUE) \in FormTexts
    OBVIOUS
  <2>2. QED
    BY <1>1, <2>1 DEF NewPage, Pages
<1>4. DraftTypeOK' /\ OneDraftPerId'
  BY <1>2, <1>3 DEF DraftTypeOK, OneDraftPerId
<1>5. AskedFor' = AskedFor /\ \A r \in AskedFor : r.page # n
  BY <1>1, <1>2 DEF AskedFor
<1>6. OneIdPerForm' /\ PageKnows'
  BY <1>2, <1>3, <1>5 DEF OneIdPerForm, PageKnows
<1>7. QED
  BY <1>4, <1>6

\* An edit is a later form than every request of the page.
LEMMA WritesKeeps == ASSUME DraftKept, NEW x \in FormTexts, Writes(x) PROVE DraftKept'
<1> USE DEF DraftKept
<1>1. page \in Pages /\ page.open /\ page.doing = "none"
  BY DEF Writes, DraftTypeOK, NoPage
<1>2. /\ page' = [page EXCEPT !.text = x, !.edits = @ + 1]
      /\ UNCHANGED <<drafts, create, late>>
  BY DEF Writes
<1>3. /\ page' \in Pages /\ page'.open /\ page'.number = page.number
      /\ page'.edits = page.edits + 1 /\ page.edits \in Nat
  BY <1>1, <1>2, PageEdited
<1>4. DraftTypeOK' /\ OneDraftPerId'
  BY <1>2, <1>3 DEF DraftTypeOK, OneDraftPerId
<1>5. AskedFor' = AskedFor /\ \A r \in AskedFor : r.edits \in Nat
  BY <1>2, DraftOfCreate DEF AskedFor, DraftTypeOK, Requests
<1>6. OneIdPerForm' /\ PageKnows'
  BY <1>1, <1>2, <1>3, <1>5 DEF OneIdPerForm, PageKnows
<1>7. QED
  BY <1>4, <1>6

LEMMA PressKeeps ==
  ASSUME DraftKept, NEW purpose \in {"save", "upload"}, PressCreate(purpose)
  PROVE  DraftKept'
<1> USE NewDraftAssumption DEF DraftKept
<1>1. page \in Pages /\ page.open /\ page.doing = "none" /\ UNCHANGED <<drafts, late>>
  BY DEF PressCreate, DraftTypeOK, NoPage
<1>2. CASE page' = [page EXCEPT !.doing = "image"] /\ create' = create
  <2>1. /\ page' \in Pages /\ page'.doing = "image" /\ page'.open
        /\ page'.number = page.number
    BY <1>1, <1>2 DEF Pages
  <2>2. DraftTypeOK' /\ OneDraftPerId' /\ AskedFor' = AskedFor
    BY <1>1, <1>2, <2>1 DEF DraftTypeOK, OneDraftPerId, AskedFor
  <2>3. create = None
    BY <1>1 DEF PageKnows
  <2>4. OneIdPerForm' /\ PageKnows'
    BY <1>2, <2>1, <2>2, <2>3 DEF OneIdPerForm, PageKnows
  <2>5. QED
    BY <2>2, <2>4
<1> DEFINE nonce == Nonce(page)
           ids == IF nonce.id > page.ids THEN nonce.id ELSE page.ids
           c == [page |-> page.number, id |-> nonce.id, text |-> page.text,
                 edits |-> page.edits, answer |-> "none"]
<1>3. /\ nonce \in Nonces /\ nonce.text = page.text
      /\ page.nonce # None /\ page.nonce.text = page.text => nonce = page.nonce
  BY <1>1 DEF Nonce, Nonces, Pages
<1>4. CASE /\ page' = [page EXCEPT !.doing = purpose, !.nonce = nonce,
                                   !.ids = IF nonce.id > @ THEN nonce.id ELSE @]
           /\ create' = c
  <2>1. c \in Creates /\ c.page = page.number /\ c.id = nonce.id /\ c.edits = page.edits /\ c # None
    BY <1>1, <1>3 DEF Pages, Creates, Nonces
  <2>2. /\ page' \in Pages /\ page'.open /\ page'.number = page.number
        /\ page'.edits = page.edits /\ page'.text = page.text /\ page'.nonce = nonce
    <3> DEFINE p == [page EXCEPT !.doing = purpose]
               q == [p EXCEPT !.nonce = nonce]
    <3> HIDE DEF nonce
    <3>1. /\ p \in Pages /\ p.open /\ p.number = page.number /\ p.edits = page.edits
          /\ p.text = page.text /\ p.ids = page.ids
      BY <1>1 DEF Pages
    <3>2. /\ q \in Pages /\ q.open /\ q.number = page.number /\ q.edits = page.edits
          /\ q.text = page.text /\ q.nonce = nonce /\ q.ids = page.ids
      <4> HIDE DEF p
      <4>1. QED
        BY <1>3, <3>1 DEF Pages
    <3>3. ids \in Nat
      BY <1>1, <1>3 DEF Pages, Nonces
    <3>4. page' = [q EXCEPT !.ids = ids]
      BY <1>4, <3>2
    <3> HIDE DEF q, ids
    <3>5. QED
      BY <3>2, <3>3, <3>4 DEF Pages
  <2> HIDE DEF c, nonce
  <2>3. DraftTypeOK' /\ OneDraftPerId'
    BY <1>1, <1>4, <2>1, <2>2 DEF DraftTypeOK, OneDraftPerId
  <2>4. Draft(c).page = page.number /\ Draft(c).id = nonce.id /\ Draft(c).edits = page.edits
    BY <2>1, DraftOfCreate
  <2>5. AskedFor' \subseteq AskedFor \cup {Draft(c)}
    BY <1>1, <1>4, <2>1 DEF AskedFor
  <2>6. \A r \in AskedFor : r.page = page.number =>
           r.edits <= page.edits /\ (r.edits = page.edits => r.id = nonce.id)
    BY <1>1, <1>3 DEF PageKnows
  <2>7. OneIdPerForm'
    BY <2>4, <2>5, <2>6 DEF OneIdPerForm
  <2>8. PageKnows'
    BY <1>1, <1>3, <1>4, <2>1, <2>2, <2>4, <2>5, <2>6 DEF PageKnows, Pages, Nonces
  <2>9. QED
    BY <2>3, <2>7, <2>8
<1>5. QED
  BY <1>2, <1>4 DEF PressCreate

LEMMA ArrivalKeeps == ASSUME DraftKept, CreateArrives \/ LateArrives PROVE DraftKept'
<1> USE NewDraftAssumption DEF DraftKept
<1>1. CASE CreateArrives
  <2>1. create \in Creates /\ create # None /\ UNCHANGED <<page, late>>
    BY <1>1 DEF CreateArrives, DraftTypeOK
  <2>2. PICK a \in {"made", "failed"} : create' = [create EXCEPT !.answer = a]
    BY <1>1 DEF CreateArrives
  <2>3. /\ create' \in Creates /\ create' # None /\ create'.page = create.page
        /\ Draft(create') = Draft(create)
    BY <2>1, <2>2 DEF Creates, Draft
  <2>4. drafts' = drafts \/ (~Made(create) /\ drafts' = drafts \cup {Draft(create)})
    BY <1>1 DEF CreateArrives, Saves
  <2>5. Draft(create) \in Requests /\ Draft(create).page = create.page /\ Draft(create).id = create.id
    BY <2>1, DraftOfCreate
  <2>6. DraftTypeOK' /\ AskedFor' \subseteq AskedFor
    BY <2>1, <2>3, <2>4, <2>5 DEF DraftTypeOK, AskedFor
  <2>7. OneDraftPerId'
    BY <2>4, <2>5 DEF OneDraftPerId, Made
  <2>8. QED
    BY <2>1, <2>3, <2>6, <2>7, NothingAsked
<1>2. CASE LateArrives
  <2>1. PICK c \in late :
           /\ drafts' = (IF \E d \in drafts : d.page = c.page /\ d.id = c.id THEN drafts
                         ELSE drafts \cup {c})
           /\ late' = late \ {c} /\ UNCHANGED <<page, create>>
    BY <1>2 DEF LateArrives
  <2>2. DraftTypeOK' /\ AskedFor' \subseteq AskedFor
    BY <2>1 DEF DraftTypeOK, AskedFor
  <2>3. OneDraftPerId'
    BY <2>1 DEF OneDraftPerId
  <2>4. QED
    BY <2>1, <2>2, <2>3, NothingAsked
<1>3. QED
  BY <1>1, <1>2

LEMMA AnswersKeep ==
  ASSUME DraftKept, CreateLost \/ CreateAnswered \/ ImageSettled \/ LeaveNewEvent
  PROVE  DraftKept'
<1> USE NewDraftAssumption DEF DraftKept
<1>1. UNCHANGED drafts /\ OneDraftPerId' /\ create \in Creates \cup {None}
  BY DEF CreateLost, CreateAnswered, ImageSettled, LeaveNewEvent, OneDraftPerId, DraftTypeOK
<1>2. CASE CreateLost
  <2>1. create \in Creates /\ create # None /\ UNCHANGED page
    BY <1>1, <1>2 DEF CreateLost
  <2>2. create' \in Creates /\ create'.page = create.page /\ Draft(create') = Draft(create) /\ create' # None
    BY <1>2, <2>1 DEF CreateLost, Creates, Draft
  <2>3. late' \subseteq late \cup {Draft(create)} /\ Draft(create) \in Requests
    BY <1>2, <2>1, DraftOfCreate DEF CreateLost
  <2>4. DraftTypeOK' /\ AskedFor' \subseteq AskedFor
    BY <1>1, <2>1, <2>2, <2>3 DEF DraftTypeOK, AskedFor
  <2>5. QED
    BY <1>1, <2>1, <2>2, <2>4, NothingAsked
<1>3. CASE CreateAnswered
  <2>1. page \in Pages /\ create' = None /\ UNCHANGED <<drafts, late>>
    BY <1>3 DEF CreateAnswered, DraftTypeOK, NoPage
  <2>2. page' \in Pages \cup {NoPage}
        /\ (page'.open /\ page'.doing # "image" =>
              /\ page' = [page EXCEPT !.doing = "none"] /\ create.answer = "failed")
    <3>1. CASE create.answer = "failed"
      BY <1>3, <2>1, <3>1 DEF CreateAnswered, Pages
    <3>2. CASE create.answer # "failed" /\ page.doing = "upload"
      <4>1. create.id \in Nat
        BY <1>1, <1>3 DEF CreateAnswered, Creates
      <4> DEFINE p == [page EXCEPT !.nonce = None]
                 q == [p EXCEPT !.doing = "image"]
      <4>2. p \in Pages
        BY <2>1 DEF Pages
      <4>3. q \in Pages /\ q.doing = "image"
        <5> HIDE DEF p
        <5>1. QED
          BY <4>2 DEF Pages
      <4>4. page' = [q EXCEPT !.artwork = create.id]
        BY <1>3, <3>2 DEF CreateAnswered
      <4> HIDE DEF q
      <4>5. QED
        BY <4>1, <4>3, <4>4 DEF Pages
    <3>3. CASE page' = NoPage
      BY <3>3 DEF NoPage
    <3>4. QED
      BY <1>3, <3>1, <3>2, <3>3 DEF CreateAnswered
  <2>3. DraftTypeOK' /\ AskedFor' \subseteq AskedFor
    BY <2>1, <2>2 DEF DraftTypeOK, AskedFor
  <2>4. page.open /\ page.doing # "image"
    BY <1>3 DEF CreateAnswered, PageKnows
  <2>5. QED
    BY <1>1, <2>1, <2>2, <2>3, <2>4, NothingAsked DEF Pages
<1>4. CASE ImageSettled
  <2>1. DraftTypeOK' /\ AskedFor' \subseteq AskedFor /\ create = None
    BY <1>4 DEF ImageSettled, DraftTypeOK, AskedFor, PageKnows
  <2>2. QED
    BY <1>1, <1>4, <2>1, NothingAsked DEF ImageSettled, NoPage
<1>5. CASE LeaveNewEvent
  <2>1. late' \subseteq late \cup (IF create = None THEN {} ELSE {Draft(create)})
        /\ create' = None /\ page' = NoPage
    BY <1>5 DEF LeaveNewEvent
  <2>2. DraftTypeOK' /\ AskedFor' \subseteq AskedFor
    BY <1>1, <2>1, DraftOfCreate DEF DraftTypeOK, AskedFor
  <2>3. QED
    BY <1>1, <2>1, <2>2, NothingAsked DEF NoPage
<1>6. QED
  BY <1>2, <1>3, <1>4, <1>5

LEMMA NextDraftKept == DraftKept /\ [NewDraftNext]_draftVars => DraftKept'
<1>1. DraftKept /\ UNCHANGED draftVars => DraftKept'
  BY DEF draftVars, DraftKept, DraftTypeOK, OneIdPerForm, OneDraftPerId, PageKnows, AskedFor
<1>2. QED
  BY <1>1, OpenKeeps, WritesKeeps, PressKeeps, ArrivalKeeps, AnswersKeep DEF NewDraftNext

LEMMA DraftKeptSuffices == DraftKept => FormMakesOneDraft
  BY DEF DraftKept, OneIdPerForm, OneDraftPerId, AskedFor, FormMakesOneDraft

-----------------------------------------------------------------------------
(* "Duplicate event": a copy is of one version, and keeps its flyer *)

Versions == [version : Nat, flyer : BOOLEAN]
CopyStages == {"idle", "context", "stage", "finalize", "made", "refused", "over"}
CopyCalls == [stage : CopyStages, seen : Versions \cup {None},
              answer : {"none", "made", "refused", "unknown"}]

CopyTypeOK == source \in Versions /\ copies \in [Copies -> CopyCalls]

\* What a duplication that may be finished has staged, and which ones made a draft.
CopiesFit ==
    /\ \A c \in Copies :
          /\ copies[c].stage \in {"stage", "finalize"} => copies[c].seen \in Versions
          /\ copies[c].stage = "finalize" /\ copies[c].seen.flyer =>
                [copy |-> c, version |-> copies[c].seen.version] \in objects
    /\ \A d \in copied : d.copy \in Copies /\ copies[d.copy].stage \in {"made", "over"}

CopyKept == CopyTypeOK /\ CopiesFit /\ CopyIsWhole

LEMMA InitCopyKept == DuplicateInit => CopyKept
  BY DEF DuplicateInit, CopyKept, CopyTypeOK, CopiesFit, CopyIsWhole, Versions, CopyCalls, CopyStages

\* One duplication moves on; the staged flyers of the others stay.
LEMMA OneCopyMoves ==
  ASSUME CopyKept, NEW c \in Copies, NEW k \in CopyCalls, UNCHANGED <<source, copied>>,
         copies' = [copies EXCEPT ![c] = k],
         objects \subseteq objects' \/ objects' = WithoutFlyer(c),
         k.stage \in {"stage", "finalize"} => k.seen \in Versions,
         k.stage = "finalize" /\ k.seen.flyer => [copy |-> c, version |-> k.seen.version] \in objects',
         copies[c].stage \in {"made", "over"} => objects \subseteq objects' /\ k.stage = "over"
  PROVE  CopyKept'
<1> USE DEF CopyKept
<1>1. CopyTypeOK'
  BY DEF CopyTypeOK
<1>2. \A e \in Copies : copies'[e] = IF e = c THEN k ELSE copies[e]
  BY DEF CopyTypeOK
<1>3. \A d \in Copies \ {c} : \A v : [copy |-> d, version |-> v] \in objects
         => [copy |-> d, version |-> v] \in objects'
  BY DEF WithoutFlyer
<1>4. CopiesFit'
  BY <1>2, <1>3 DEF CopiesFit
<1>5. CopyIsWhole'
  BY <1>3 DEF CopyIsWhole, CopiesFit
<1>6. QED
  BY <1>1, <1>4, <1>5

LEMMA CopyRejected ==
  ASSUME CopyKept, NEW c \in Copies, NEW code \in {"made", "refused", "unknown"},
         Rejects(c, code), UNCHANGED <<source, copied>>,
         objects' = objects \/ (copies[c].stage = "refused" /\ objects' = WithoutFlyer(c))
  PROVE  CopyKept'
<1> DEFINE k == [copies[c] EXCEPT !.stage = "over", !.answer = code]
<1>1. copies \in [Copies -> CopyCalls]
  BY DEF CopyKept, CopyTypeOK
<1>2. k \in CopyCalls /\ k.stage = "over"
  BY <1>1 DEF CopyCalls, CopyStages
<1>3. copies' = [copies EXCEPT ![c] = k]
  <2>1. copies' = [[copies EXCEPT ![c].stage = "over"] EXCEPT ![c].answer = code]
    BY DEF Rejects
  <2>2. QED
    BY <1>1, <2>1 DEF CopyCalls
<1> HIDE DEF k
<1>4. QED
  BY <1>2, <1>3, OneCopyMoves

LEMMA NextCopyKept == CopyKept /\ [DuplicateEventNext]_copyVars => CopyKept'
<1> SUFFICES ASSUME CopyKept, [DuplicateEventNext]_copyVars PROVE CopyKept'
  OBVIOUS
<1> USE DEF CopyKept
<1>1. CASE UNCHANGED copyVars \/ CheckList
  BY <1>1 DEF copyVars, CheckList, CopyTypeOK, CopiesFit, CopyIsWhole
<1>2. CASE SourceChanges
  <2>1. source' \in Versions /\ UNCHANGED <<copies, objects, copied>>
    BY <1>2 DEF SourceChanges, CopyTypeOK, Versions
  <2>2. QED
    BY <2>1 DEF CopyTypeOK, CopiesFit, CopyIsWhole
<1>3. ASSUME NEW c \in Copies, CopyAnswered(c) PROVE CopyKept'
  BY <1>3 DEF CopyAnswered, CopyTypeOK, CopiesFit, CopyIsWhole
<1>4. ASSUME NEW c \in Copies, FinalizeCopy(c) PROVE CopyKept'
  <2>1. /\ copies[c] \in CopyCalls /\ copies[c].stage = "finalize" /\ copies[c].seen \in Versions
        /\ UNCHANGED <<source, objects>>
    BY <1>4 DEF FinalizeCopy, CopyTypeOK, CopiesFit
  <2>2. PICK s \in {"made", "refused"} :
           /\ copies' = [copies EXCEPT ![c].stage = s]
           /\ \/ copied' = copied
              \/ /\ s = "made" /\ source = copies[c].seen
                 /\ copied' = copied \cup
                      {[copy |-> c, version |-> source.version, flyer |-> source.flyer]}
    BY <1>4 DEF FinalizeCopy, Finalizes
  <2>3. /\ CopyTypeOK'
        /\ \A e \in Copies : copies'[e].stage = (IF e = c THEN s ELSE copies[e].stage)
        /\ \A e \in Copies \ {c} : copies'[e] = copies[e]
    BY <2>1, <2>2 DEF CopyTypeOK, CopyCalls, CopyStages
  <2>4. CopiesFit'
    BY <2>1, <2>2, <2>3 DEF CopiesFit
  <2>5. CopyIsWhole'
    BY <2>1, <2>2 DEF CopiesFit, CopyIsWhole
  <2>6. QED
    BY <2>3, <2>4, <2>5
<1>5. ASSUME NEW c \in Copies,
             AskCopy(c) \/ ReadSource(c) \/ StageFlyer(c) \/ FinalizeKnown(c) \/ CopyUnanswered(c)
      PROVE  CopyKept'
  <2>1. copies \in [Copies -> CopyCalls] /\ copies[c] \in CopyCalls /\ source \in Versions
    BY DEF CopyTypeOK
  <2>2. UNCHANGED <<source, copied>>
    BY <1>5 DEF AskCopy, ReadSource, StageFlyer, FinalizeKnown, CopyUnanswered
  <2>3. CASE AskCopy(c)
    <3>1. [copies[c] EXCEPT !.stage = "context"] \in CopyCalls
      BY <2>1 DEF CopyCalls, CopyStages
    <3>2. copies' = [copies EXCEPT ![c] = [copies[c] EXCEPT !.stage = "context"]] /\ UNCHANGED objects
          /\ copies[c].stage = "idle"
      BY <2>3, <2>1 DEF AskCopy, Next1
    <3>3. QED
      BY <2>1, <2>2, <3>1, <3>2, OneCopyMoves DEF CopyCalls
  <2>4. CASE ReadSource(c)
    <3> DEFINE to == IF source.flyer THEN "stage" ELSE "finalize"
               k == [stage |-> to, seen |-> source, answer |-> copies[c].answer]
    <3>1. k \in CopyCalls /\ k.stage = to /\ k.seen = source
      BY <2>1 DEF CopyCalls, CopyStages
    <3>2. copies' = [copies EXCEPT ![c] = k] /\ UNCHANGED objects /\ copies[c].stage = "context"
      BY <2>4, <2>1 DEF ReadSource, CopyCalls
    <3> HIDE DEF k
    <3>3. QED
      BY <2>1, <2>2, <3>1, <3>2, OneCopyMoves
  <2>5. CASE StageFlyer(c)
    <3>1. CASE /\ source = copies[c].seen
               /\ objects' = objects \cup {[copy |-> c, version |-> source.version]}
               /\ copies' = [copies EXCEPT ![c].stage = "finalize"]
      <4>1. [copies[c] EXCEPT !.stage = "finalize"] \in CopyCalls
        BY <2>1 DEF CopyCalls, CopyStages
      <4>2. copies' = [copies EXCEPT ![c] = [copies[c] EXCEPT !.stage = "finalize"]]
            /\ copies[c].stage = "stage"
        BY <2>5, <3>1, <2>1 DEF StageFlyer
      <4>3. QED
        BY <2>1, <2>2, <3>1, <4>1, <4>2, OneCopyMoves DEF CopyCalls
    <3>2. CASE Rejects(c, "refused") /\ objects' = objects
      BY <2>2, <2>5, <3>2, CopyRejected DEF StageFlyer
    <3>3. QED
      BY <2>5, <3>1, <3>2 DEF StageFlyer
  <2>6. CASE FinalizeKnown(c)
    <3>1. PICK code \in {"made", "refused", "unknown"} :
             /\ Rejects(c, code)
             /\ objects' = objects \/ (copies[c].stage = "refused" /\ objects' = WithoutFlyer(c))
      BY <2>6 DEF FinalizeKnown, Cleaned
    <3>2. QED
      BY <2>2, <3>1, CopyRejected
  <2>7. CASE CopyUnanswered(c)
    <3>1. CASE copies' = copies
      BY <2>2, <2>7, <3>1 DEF CopyUnanswered, CopyTypeOK, CopiesFit, CopyIsWhole
    <3>2. CASE copies' = [copies EXCEPT ![c].stage = "over", ![c].answer = "unknown"]
      BY <2>2, <2>7, <3>2, CopyRejected DEF CopyUnanswered, Rejects
    <3>3. QED
      BY <2>7, <3>1, <3>2 DEF CopyUnanswered
  <2>8. QED
    BY <1>5, <2>3, <2>4, <2>5, <2>6, <2>7
<1>6. QED
  BY <1>1, <1>2, <1>3, <1>4, <1>5 DEF DuplicateEventNext

LEMMA CopyKeptSuffices == CopyKept => CopyIsWhole
  BY DEF CopyKept

\* A form submitted again, after whatever lost or late answer and with whichever
\* button, makes one draft; and a duplicate is a copy of one version, whose flyer
\* no cleaning up takes, however the source changed and the function failed.
THEOREM DraftsAreOne ==
  NewDraftSpec /\ DuplicateEventSpec => []DraftsAreMadeOnce
<1>1. NewDraftSpec => []DraftKept
  BY InitDraftKept, NextDraftKept, PTL DEF NewDraftSpec
<1>2. DuplicateEventSpec => []CopyKept
  BY InitCopyKept, NextCopyKept, PTL DEF DuplicateEventSpec
<1>3. DraftKept /\ CopyKept => DraftsAreMadeOnce
  BY DraftKeptSuffices, CopyKeptSuffices DEF DraftsAreMadeOnce
<1>4. QED
  BY <1>1, <1>2, <1>3, PTL

-----------------------------------------------------------------------------
(* Writing to the attendees: nothing behind the form *)

Queued(id) == \E m \in outreach.messages : m.id = id
Numbers    == {p.no : p \in pressed}

ComposerShape ==
    /\ DOMAIN composer = {"at", "pending", "intent", "unknown", "blocked", "options", "draft",
                           "review", "receipt", "call"}
    /\ composer.unknown \in BOOLEAN /\ composer.blocked \in BOOLEAN
    /\ composer.pending \in Nat \cup {None} /\ composer.call \in SendCalls \cup {None}
    /\ DOMAIN outreach = {"facts", "open", "messages"}
    /\ kept \in Nat \cup {None}

\* Every dispatch has a number of its own.
DispatchesAreNumbered ==
    /\ IsFiniteSet(Numbers)
    /\ \A p \in pressed : p.no \in Nat /\ p.no <= Cardinality(Numbers) /\ p.intent.id \in Nat
    /\ sends \subseteq pressed
    /\ \A s, t \in sends : s.no = t.no => s = t

\* Only the send whose id the tab stores may still be queued.
OnlyKeptMayCome ==
    \A s \in sends : Queued(s.intent.id) \/ s.intent.id = kept

\* The page is about the stored send; an answer that says "queued" is right.
PageIsOfKept ==
    /\ composer.pending # None => composer.at = "composer" /\ composer.pending = kept
    /\ composer.intent # None => composer.pending # None /\ composer.intent.id = composer.pending
    /\ composer.receipt # None => Queued(composer.receipt)
    /\ composer.call # None /\ composer.call.kind # "preview" => composer.pending # None
    /\ composer.call # None /\ composer.call.kind = "submit" =>
          /\ composer.intent.id = composer.pending
          /\ composer.call.answer # None /\ composer.call.answer.kind = "receipt" =>
                Queued(composer.call.answer.id)

\* What the page has not given up on is what it waits for: before the first
\* unknown outcome there is one attempt of a send, whose answer decides.
Awaiting(s) ==
    /\ composer.call # None /\ composer.call.kind = "submit" /\ composer.call.no = s.no
    /\ composer.call.answer = None \/ composer.call.answer.kind = "unknown"

KnownIsOne ==
    ~composer.unknown /\ composer.pending # None =>
        \A s \in sends : Queued(s.intent.id) \/ Awaiting(s)

FormIsFree ==
    composer.at = "composer" /\ composer.pending = None /\ ~composer.blocked =>
        \A s \in sends : Queued(s.intent.id)

MessageKept ==
    /\ ComposerShape /\ DispatchesAreNumbered /\ OnlyKeptMayCome
    /\ PageIsOfKept /\ KnownIsOne /\ FormIsFree /\ SentAsReviewed

LEMMA InitMessageKept == MessageInit => MessageKept
<1> SUFFICES ASSUME MessageInit PROVE MessageKept
  OBVIOUS
<1> USE ComposerAssumption DEF MessageInit
<1>1. /\ composer.at = "away" /\ composer.pending = None /\ composer.intent = None
      /\ composer.receipt = None /\ composer.call = None /\ composer.unknown = FALSE
      /\ composer.blocked = FALSE
      /\ DOMAIN composer = {"at", "pending", "intent", "unknown", "blocked", "options", "draft",
                             "review", "receipt", "call"}
  BY DEF Gone, Composing
<1>2. ComposerShape
  BY <1>1 DEF ComposerShape
<1>3. DispatchesAreNumbered
  BY FS_EmptySet DEF DispatchesAreNumbered, Numbers
<1>4. OnlyKeptMayCome /\ PageIsOfKept /\ KnownIsOne /\ FormIsFree /\ SentAsReviewed
  BY <1>1 DEF OnlyKeptMayCome, PageIsOfKept, KnownIsOne, FormIsFree, SentAsReviewed
<1>5. QED
  BY <1>2, <1>3, <1>4 DEF MessageKept

\* The page moves and nothing else does.
LEMMA PageMoves ==
  ASSUME MessageKept, UNCHANGED <<outreach, sends, pressed, kept>>, ComposerShape',
         PageIsOfKept', KnownIsOne', FormIsFree'
  PROVE  MessageKept'
  BY DEF MessageKept, DispatchesAreNumbered, Numbers, OnlyKeptMayCome, SentAsReviewed, Queued

\* What is typed, previewed and edited.
LEMMA FormKeeps ==
  ASSUME MessageKept, ReadOptions \/ AskPreview \/ ReceivePreview \/ AnswerPreview \/ EditMessage
                      \/ CheckStatus
  PROVE  MessageKept'
<1> USE ComposerAssumption DEF MessageKept
<1>1. UNCHANGED <<outreach, sends, pressed, kept>>
  BY DEF ReadOptions, AskPreview, ReceivePreview, AnswerPreview, EditMessage, CheckStatus
<1>2. /\ DOMAIN composer' = DOMAIN composer
      /\ composer'.at = composer.at /\ composer'.pending = composer.pending
      /\ composer'.intent = composer.intent /\ composer'.unknown = composer.unknown
      /\ composer'.blocked = composer.blocked /\ composer'.receipt = composer.receipt
  BY ZenonT(60) DEF ComposerShape, ReadOptions, AskPreview, ReceivePreview, AnswerPreview, EditMessage, CheckStatus
<1>3. \/ composer'.call = composer.call
      \/ /\ composer.call = None \/ composer.call.kind = "preview"
         /\ composer'.call = None \/ composer'.call \in {Calling("preview", 0), Calling("receipt", 0)}
         /\ composer'.call = Calling("receipt", 0) => composer.pending # None
  <2>. DOMAIN composer = {"at", "pending", "intent", "unknown", "blocked", "options", "draft",
                          "review", "receipt", "call"}
    BY DEF ComposerShape
  <2>1. ReadOptions \/ EditMessage => composer'.call = composer.call
    BY DEF ReadOptions, EditMessage
  <2>2. AskPreview => composer.call = None /\ composer'.call = Calling("preview", 0)
    BY DEF AskPreview, Form, MessageIdle
  <2>3. CheckStatus => composer.call = None /\ composer'.call = Calling("receipt", 0)
    BY DEF CheckStatus, MessageIdle
  <2>4. ReceivePreview \/ AnswerPreview => composer.call = Calling("preview", 0) /\ composer'.call = None
    BY DEF ReceivePreview, AnswerPreview
  <2>5. CheckStatus => composer.pending # None
    BY DEF CheckStatus
  <2>6. Calling("preview", 0) # Calling("receipt", 0) /\ Calling("receipt", 0) # None
        /\ Calling("preview", 0).kind = "preview"
    BY DEF Calling, SendCalls
  <2>7. QED
    BY <2>1, <2>2, <2>3, <2>4, <2>5, <2>6
<1>4. \A k \in {"preview", "receipt"} : Calling(k, 0) \in SendCalls /\ Calling(k, 0).kind = k
  BY DEF Calling, SendCalls
<1>5. ComposerShape'
  BY <1>1, <1>2, <1>3, <1>4 DEF ComposerShape
<1>6. PageIsOfKept'
  BY <1>1, <1>2, <1>3, <1>4 DEF PageIsOfKept, Queued
<1>7. KnownIsOne' /\ FormIsFree'
  BY <1>1, <1>2, <1>3, <1>4 DEF KnownIsOne, FormIsFree, Queued, Awaiting
<1>8. QED
  BY <1>1, <1>5, <1>6, <1>7, PageMoves

\* The page is left, and opened on what the tab stored.
LEMMA OpenLeaveKeeps == ASSUME MessageKept, OpenComposer \/ LeaveComposer PROVE MessageKept'
<1> USE ComposerAssumption DEF MessageKept
<1>1. UNCHANGED <<outreach, sends, pressed, kept>>
  BY DEF OpenComposer, LeaveComposer
<1>2. /\ DOMAIN composer' = {"at", "pending", "intent", "unknown", "blocked", "options", "draft",
                              "review", "receipt", "call"}
      /\ composer'.intent = None /\ composer'.receipt = None /\ composer'.call = None
      /\ \/ composer'.at = "away" /\ composer'.pending = None /\ composer'.unknown = FALSE
               /\ composer'.blocked = FALSE
         \/ composer'.at = "composer" /\ composer'.pending = None /\ composer'.unknown = FALSE
               /\ composer'.blocked = TRUE
         \/ composer'.at = "composer" /\ composer'.pending = kept /\ composer'.unknown = (kept # None)
               /\ composer'.blocked = FALSE
  BY DEF OpenComposer, LeaveComposer, Gone, Composing
<1>3. ComposerShape' /\ PageIsOfKept' /\ KnownIsOne'
  BY <1>1, <1>2 DEF ComposerShape, PageIsOfKept, KnownIsOne
<1>4. FormIsFree'
  <2>1. \A s \in sends : s.intent.id \in Nat
    BY DEF DispatchesAreNumbered
  <2>2. QED
    BY <1>1, <1>2, <2>1 DEF FormIsFree, OnlyKeptMayCome, Queued
<1>5. QED
  BY <1>1, <1>3, <1>4, PageMoves

\* A new send, or another attempt of the stored one, goes out or does not.
LEMMA DispatchKeeps ==
  ASSUME MessageKept, NEW i, i.id \in Nat, kept' = i.id, UNCHANGED outreach,
         NEW no, no = NextSend, pressed' = pressed \cup {[no |-> no, intent |-> i]},
         \/ sends' = sends \cup {[no |-> no, intent |-> i]} /\ composer'.call.answer = None
         \/ sends' = sends /\ composer'.call.answer.kind = "not_queued",
         composer'.call \in SendCalls, composer'.call.kind = "submit", composer'.call.no = no,
         DOMAIN composer' = DOMAIN composer,
         composer'.at = "composer", composer'.pending = i.id, composer'.intent.id = i.id,
         composer'.receipt = None, UNCHANGED <<composer.unknown, composer.blocked>>,
         \A s \in sends : Queued(s.intent.id) \/ (s.intent.id = i.id /\ composer.unknown)
  PROVE  MessageKept'
<1> USE ComposerAssumption DEF MessageKept
<1> DEFINE new == [no |-> no, intent |-> i]
<1>1. /\ Numbers' = Numbers \cup {no} /\ IsFiniteSet(Numbers)
      /\ Cardinality(Numbers) \in Nat /\ no = Cardinality(Numbers) + 1
  <2>1. /\ Numbers' = {p.no : p \in pressed \cup {new}} /\ Numbers = {p.no : p \in pressed}
        /\ new.no = no
    BY DEF Numbers
  <2> HIDE DEF new
  <2>6. Numbers' = Numbers \cup {no}
    BY <2>1
  <2>2. no = 1 + Cardinality(Numbers)
    BY DEF Numbers, NextSend
  <2>3. IsFiniteSet(Numbers)
    BY DEF DispatchesAreNumbered
  <2>4. Cardinality(Numbers) \in Nat
    BY <2>3, FS_CardinalityType
  <2>5. QED
    BY <2>2, <2>3, <2>4, <2>6
<1>2. /\ no \notin Numbers /\ \A p \in pressed : p.no \in Nat /\ p.no <= Cardinality(Numbers)
  BY <1>1 DEF DispatchesAreNumbered, Numbers
<1>3. IsFiniteSet(Numbers') /\ Cardinality(Numbers') = Cardinality(Numbers) + 1
  BY <1>1, <1>2, FS_AddElement
<1>4. DispatchesAreNumbered'
  <2>1. \A p \in pressed' : p.no \in Nat /\ p.no <= Cardinality(Numbers') /\ p.intent.id \in Nat
    BY <1>1, <1>2, <1>3 DEF DispatchesAreNumbered
  <2>2. sends' \subseteq sends \cup {new} /\ sends' \subseteq pressed'
    BY DEF DispatchesAreNumbered
  <2>3. \A s \in sends : s.no # no
    BY <1>2 DEF DispatchesAreNumbered, Numbers
  <2>4. \A s, t \in sends' : s.no = t.no => s = t
    BY <2>2, <2>3 DEF DispatchesAreNumbered
  <2>5. QED
    BY <1>3, <2>1, <2>2, <2>4 DEF DispatchesAreNumbered
<1>5. ComposerShape'
  BY DEF ComposerShape
<1>6. OnlyKeptMayCome'
  BY DEF OnlyKeptMayCome, Queued
<1>7. PageIsOfKept'
  BY DEF PageIsOfKept
<1>8. KnownIsOne' /\ FormIsFree'
  BY DEF KnownIsOne, FormIsFree, Awaiting, Queued
<1>9. SentAsReviewed'
  BY DEF SentAsReviewed
<1>10. QED
  BY <1>4, <1>5, <1>6, <1>7, <1>8, <1>9

LEMMA FailureIsAnswer ==
  ASSUME NEW code \in SendCodes, NEW outcome \in {"unknown", "not_queued"}
  PROVE  Failure(code, outcome) \in SendAnswers /\ Failure(code, outcome).kind = outcome
  BY DEF Failure, SendAnswers

LEMMA SendKeeps == ASSUME MessageKept, SendMessageNow \/ RetrySend PROVE MessageKept'
<1> USE ComposerAssumption DEF MessageKept
<1>. DOMAIN composer = {"at", "pending", "intent", "unknown", "blocked", "options", "draft",
                        "review", "receipt", "call"}
  BY DEF ComposerShape
<1>1. NextSend \in Nat
  BY FS_CardinalityType DEF NextSend, DispatchesAreNumbered, Numbers
<1> DEFINE no == NextSend
           refused == [Calling("submit", no) EXCEPT !.answer = Failure("UNAUTHORIZED", "not_queued")]
<1>2. /\ Calling("submit", no) \in SendCalls /\ Calling("submit", no).kind = "submit"
      /\ Calling("submit", no).no = no /\ Calling("submit", no).answer = None
      /\ refused \in SendCalls /\ refused.kind = "submit" /\ refused.no = no
      /\ refused.answer.kind = "not_queued"
  <2>1. no \in Nat
    BY <1>1 DEF no
  <2> HIDE DEF no
  <2>2. Failure("UNAUTHORIZED", "not_queued") \in SendAnswers
        /\ Failure("UNAUTHORIZED", "not_queued").kind = "not_queued"
    BY FailureIsAnswer DEF SendCodes
  <2>3. refused = [kind |-> "submit", no |-> no, answer |-> Failure("UNAUTHORIZED", "not_queued")]
    BY DEF Calling
  <2> HIDE DEF refused
  <2>4. refused \in SendCalls /\ refused.answer.kind = "not_queued"
    BY <2>1, <2>2, <2>3 DEF SendCalls
  <2>5. QED
    BY <2>1, <2>3, <2>4 DEF Calling, SendCalls
<1> HIDE DEF no, refused
<1>3. CASE SendMessageNow
  <2> DEFINE i == [id |-> no, fingerprint |-> composer.review.fingerprint]
             page1 == [composer EXCEPT !.pending = i.id, !.intent = i]
  <2>1. /\ MessageIdle /\ composer.pending = None /\ composer.receipt = None /\ ~composer.blocked
        /\ kept' = i.id /\ pressed' = pressed \cup {[no |-> no, intent |-> i]} /\ UNCHANGED outreach
        /\ Dispatched(page1, i, no)
    BY <1>3 DEF SendMessageNow, Review, no
  <2>2. i.id = no /\ i.id \in Nat
    BY <1>1 DEF no
  <2> HIDE DEF i
  <2>3. /\ DOMAIN page1 = DOMAIN composer /\ page1.at = "composer" /\ page1.pending = i.id
        /\ page1.intent = i /\ page1.receipt = None /\ page1.unknown = composer.unknown
        /\ page1.blocked = composer.blocked
    BY <2>1 DEF MessageIdle
  <2> HIDE DEF page1
  <2>4. \A s \in sends : Queued(s.intent.id)
    BY <2>1 DEF FormIsFree, MessageIdle
  <2>5. \E k \in SendCalls :
           /\ composer' = [page1 EXCEPT !.call = k] /\ k.kind = "submit" /\ k.no = no
           /\ \/ sends' = sends \cup {[no |-> no, intent |-> i]} /\ k.answer = None
              \/ sends' = sends /\ k.answer.kind = "not_queued"
    BY <2>1, <1>2 DEF Dispatched, refused
  <2>6. QED
    BY <2>1, <2>2, <2>3, <2>4, <2>5, DispatchKeeps DEF no
<1>4. CASE RetrySend
  <2> DEFINE i == composer.intent
  <2>1. /\ MessageIdle /\ composer.pending # None /\ composer.receipt = None /\ composer.intent # None
        /\ kept' = kept /\ pressed' = pressed \cup {[no |-> no, intent |-> i]} /\ UNCHANGED outreach
        /\ Dispatched(composer, i, no)
    BY <1>4 DEF RetrySend, no
  <2>2. i.id = kept /\ composer.pending = i.id /\ i.id \in Nat
    BY <2>1 DEF PageIsOfKept, ComposerShape
  <2>3. \A s \in sends : Queued(s.intent.id) \/ (s.intent.id = i.id /\ composer.unknown)
    BY <2>1, <2>2 DEF OnlyKeptMayCome, KnownIsOne, Awaiting, MessageIdle, ComposerShape
  <2>5. \E k \in SendCalls :
           /\ composer' = [composer EXCEPT !.call = k] /\ k.kind = "submit" /\ k.no = no
           /\ \/ sends' = sends \cup {[no |-> no, intent |-> i]} /\ k.answer = None
              \/ sends' = sends /\ k.answer.kind = "not_queued"
    BY <2>1, <1>2 DEF Dispatched, refused
  <2> HIDE DEF i
  <2>6. /\ composer.at = "composer" /\ composer.intent = i
    BY <2>1 DEF MessageIdle, i
  <2>7. QED
    BY <2>1, <2>2, <2>3, <2>5, <2>6, DispatchKeeps DEF no
<1>5. QED
  BY <1>3, <1>4

\* What the database does with a request: a receipt names a queued message, and a
\* message is queued once, as it was reviewed.
LEMMA SubmittedFacts ==
  ASSUME NEW i, i.id \in Nat, ComposerShape
  PROVE  LET r == Submitted(i) IN
         /\ r.answer \in SendAnswers
         /\ r.answer.kind = "receipt" => \E m \in r.messages : m.id = r.answer.id
         /\ \/ r.messages = outreach.messages
            \/ /\ ~Queued(i.id) /\ i.fingerprint.facts = outreach.facts
               /\ r.messages = outreach.messages \cup
                    {[id |-> i.id, fingerprint |-> i.fingerprint, facts |-> outreach.facts]}
<1> DEFINE r == Submitted(i)
           message == [id |-> i.id, fingerprint |-> i.fingerprint, facts |-> outreach.facts]
<1>1. Receipt(i.id) \in SendAnswers /\ Receipt(i.id).id = i.id
  BY DEF Receipt, SendAnswers, SendCodes
<1>2. \A code \in SendCodes : /\ Failure(code, "not_queued") \in SendAnswers
                          /\ Failure(code, "not_queued").kind = "not_queued"
  BY FailureIsAnswer
<1>3. CASE Queued(i.id)
  <2>1. /\ r.messages = outreach.messages
        /\ r.answer = Receipt(i.id) \/ r.answer = Failure("REQUEST_CONFLICT", "not_queued")
    BY <1>3 DEF Queued, Submitted
  <2>2. QED
    BY <1>1, <1>2, <1>3, <2>1 DEF Queued, SendCodes
<1>4. CASE ~Queued(i.id)
  <2>1. {m \in outreach.messages : m.id = i.id} = {}
    BY <1>4 DEF Queued
  <2>2. \/ \E code \in SendCodes : /\ r.answer = Failure(code, "not_queued")
                               /\ r.messages = outreach.messages
        \/ /\ r.answer = Receipt(i.id) /\ r.messages = outreach.messages \cup {message}
           /\ PreviewFingerprint(i.fingerprint.draft) = i.fingerprint
    BY <2>1 DEF Submitted, Reason, SendCodes
  <2>3. PreviewFingerprint(i.fingerprint.draft).facts = outreach.facts
    BY DEF PreviewFingerprint
  <2>4. message.id = i.id
    OBVIOUS
  <2>5. QED
    BY <1>1, <1>2, <1>4, <2>2, <2>3, <2>4
<1>5. QED
  BY <1>3, <1>4

\* A request is processed or lost, and the page learns of it or does not.
LEMMA DeliveryKeepsMessages ==
  ASSUME MessageKept, UNCHANGED <<kept, pressed>>, sends' \subseteq sends, SentAsReviewed',
         DOMAIN outreach' = DOMAIN outreach, outreach.messages \subseteq outreach'.messages,
         \/ UNCHANGED composer
         \/ \E a \in SendAnswers :
               /\ composer.call # None /\ composer.call.kind = "submit"
               /\ composer' = [composer EXCEPT !.call.answer = a]
               /\ a.kind = "receipt" => \E m \in outreach'.messages : m.id = a.id
               /\ a.kind # "unknown" => \A s \in sends' : s.no # composer.call.no
  PROVE  MessageKept'
<1> USE ComposerAssumption DEF MessageKept
<1>1. \A id : Queued(id) => Queued(id)'
  BY DEF Queued
<1>2. DispatchesAreNumbered' /\ OnlyKeptMayCome'
  BY <1>1 DEF DispatchesAreNumbered, Numbers, OnlyKeptMayCome
<1>3. CASE UNCHANGED composer
  BY <1>1, <1>2, <1>3 DEF ComposerShape, PageIsOfKept, KnownIsOne, Awaiting, FormIsFree
<1>4. ASSUME NEW a \in SendAnswers, composer.call # None, composer.call.kind = "submit",
             composer' = [composer EXCEPT !.call.answer = a],
             a.kind = "receipt" => \E m \in outreach'.messages : m.id = a.id,
             a.kind # "unknown" => \A s \in sends' : s.no # composer.call.no
      PROVE  MessageKept'
  <2> DEFINE k == [composer.call EXCEPT !.answer = a]
  <2>1. composer.call \in SendCalls
    BY <1>4 DEF ComposerShape
  <2>2. k \in SendCalls /\ k.kind = "submit" /\ k.no = composer.call.no /\ k.answer = a /\ a # None
    BY <1>4, <2>1 DEF SendCalls
  <2> HIDE DEF k
  <2>3. composer' = [composer EXCEPT !.call = k]
    BY <1>4 DEF k
  <2>4. /\ DOMAIN composer' = DOMAIN composer /\ composer'.call = k
        /\ composer'.at = composer.at /\ composer'.pending = composer.pending
        /\ composer'.intent = composer.intent /\ composer'.unknown = composer.unknown
        /\ composer'.blocked = composer.blocked /\ composer'.receipt = composer.receipt
    BY <2>3 DEF ComposerShape
  <2>5. ComposerShape'
    BY <2>2, <2>4 DEF ComposerShape
  <2>6. PageIsOfKept'
    BY <1>1, <1>4, <2>2, <2>4 DEF PageIsOfKept, Queued
  <2>7. KnownIsOne' /\ FormIsFree'
    BY <1>1, <1>4, <2>2, <2>4 DEF KnownIsOne, FormIsFree, Awaiting
  <2>8. QED
    BY <1>2, <2>5, <2>6, <2>7
<1>5. QED
  BY <1>3, <1>4

LEMMA SendsKeep == ASSUME MessageKept, ProcessSend \/ LoseSend \/ SendUnanswered PROVE MessageKept'
<1> USE ComposerAssumption DEF MessageKept
<1>1. Unknown \in SendAnswers /\ Unknown.kind = "unknown"
  BY FailureIsAnswer DEF Unknown, SendCodes
<1>2. CASE ProcessSend
  <2>1. PICK s \in sends :
           /\ outreach' = [outreach EXCEPT !.messages = Submitted(s.intent).messages]
           /\ sends' = sends \ {s}
           /\ Awaited(s.no, Submitted(s.intent).answer) \/ UNCHANGED composer
    BY <1>2 DEF ProcessSend
  <2> DEFINE r == Submitted(s.intent)
  <2>2. UNCHANGED <<kept, pressed>> /\ s \in pressed /\ s.intent.id \in Nat
    BY <1>2 DEF ProcessSend, DispatchesAreNumbered
  <2>3. /\ r.answer \in SendAnswers
        /\ r.answer.kind = "receipt" => \E m \in r.messages : m.id = r.answer.id
        /\ \/ r.messages = outreach.messages
           \/ /\ ~Queued(s.intent.id) /\ s.intent.fingerprint.facts = outreach.facts
              /\ r.messages = outreach.messages \cup
                   {[id |-> s.intent.id, fingerprint |-> s.intent.fingerprint, facts |-> outreach.facts]}
    BY <2>2, SubmittedFacts
  <2> HIDE DEF r
  <2>4. outreach'.messages = r.messages /\ DOMAIN outreach' = DOMAIN outreach
    BY <2>1 DEF r, ComposerShape
  <2>5. SentAsReviewed'
    BY <2>2, <2>3, <2>4 DEF SentAsReviewed, Queued
  <2>6. \A t \in sends' : t.no # s.no
    BY <2>1 DEF DispatchesAreNumbered
  <2>7. \/ UNCHANGED composer
        \/ /\ composer.call = Calling("submit", s.no)
           /\ composer' = [composer EXCEPT !.call.answer = r.answer]
    BY <2>1 DEF Awaited, r
  <2>8. /\ Calling("submit", s.no).kind = "submit" /\ Calling("submit", s.no).no = s.no
        /\ s.no \in Nat => Calling("submit", s.no) # None
    BY DEF Calling, SendCalls
  <2>9. s.no \in Nat
    BY <2>2 DEF DispatchesAreNumbered
  <2>10. QED
    BY <2>1, <2>2, <2>3, <2>4, <2>5, <2>6, <2>7, <2>8, <2>9, DeliveryKeepsMessages
<1>3. CASE LoseSend
  <2>1. PICK s \in sends : sends' = sends \ {s} /\ Awaited(s.no, Unknown)
    BY <1>3 DEF LoseSend
  <2>2. UNCHANGED <<outreach, kept, pressed>> /\ s.no \in Nat
    BY <1>3 DEF LoseSend, DispatchesAreNumbered
  <2>3. \/ UNCHANGED composer
        \/ /\ composer.call = Calling("submit", s.no)
           /\ composer' = [composer EXCEPT !.call.answer = Unknown]
    BY <2>1 DEF Awaited
  <2>4. Calling("submit", s.no).kind = "submit" /\ Calling("submit", s.no) # None
    BY <2>2 DEF Calling, SendCalls
  <2>5. SentAsReviewed'
    BY <2>2 DEF SentAsReviewed
  <2>6. QED
    BY <1>1, <2>1, <2>2, <2>3, <2>4, <2>5, DeliveryKeepsMessages
<1>4. CASE SendUnanswered
  <2>1. SentAsReviewed'
    BY <1>4 DEF SendUnanswered, SentAsReviewed
  <2>2. QED
    BY <1>1, <1>4, <2>1, DeliveryKeepsMessages DEF SendUnanswered
<1>5. QED
  BY <1>2, <1>3, <1>4

\* A receipt ends the send, whether the tab's entry can be removed or not.
LEMMA CompletedKeeps ==
  ASSUME MessageKept, NEW id \in Nat, composer.pending = id, Queued(id), Completed(id),
         UNCHANGED <<outreach, sends, pressed>>
  PROVE  MessageKept'
<1> USE ComposerAssumption DEF MessageKept
<1>1. /\ DOMAIN composer' = DOMAIN composer
      /\ composer'.at = composer.at /\ composer'.pending = None /\ composer'.intent = None
      /\ composer'.unknown = composer.unknown /\ composer'.blocked = composer.blocked
      /\ composer'.call = None /\ composer'.receipt = id
      /\ kept' \in {None, kept}
  BY DEF Completed, ComposerShape
<1>2. \A s \in sends : Queued(s.intent.id)
  BY DEF OnlyKeptMayCome, PageIsOfKept
<1>3. ComposerShape' /\ PageIsOfKept' /\ KnownIsOne'
  BY <1>1 DEF ComposerShape, PageIsOfKept, KnownIsOne, Queued
<1>4. OnlyKeptMayCome' /\ FormIsFree'
  BY <1>2 DEF OnlyKeptMayCome, FormIsFree, Queued
<1>5. DispatchesAreNumbered' /\ SentAsReviewed'
  BY DEF DispatchesAreNumbered, Numbers, SentAsReviewed
<1>6. QED
  BY <1>3, <1>4, <1>5

LEMMA ReceiveKeeps == ASSUME MessageKept, ReceiveSent \/ ReceiveStatus PROVE MessageKept'
<1> USE ComposerAssumption DEF MessageKept
<1>. DOMAIN composer = {"at", "pending", "intent", "unknown", "blocked", "options", "draft",
                        "review", "receipt", "call"}
  BY DEF ComposerShape
<1>1. UNCHANGED <<outreach, sends, pressed>>
  BY DEF ReceiveSent, ReceiveStatus
<1>2. CASE ReceiveSent
  <2> DEFINE a == composer.call.answer
  <2>1. /\ composer.call # None /\ composer.call.kind = "submit" /\ a # None
        /\ composer.pending # None /\ composer.pending \in Nat
        /\ composer.intent.id = composer.pending /\ composer.pending = kept
    BY <1>2 DEF ReceiveSent, PageIsOfKept, ComposerShape
  <2>2. CASE a.kind = "receipt" /\ a.id = composer.intent.id /\ Completed(a.id)
    <3>1. Queued(a.id)
      BY <2>1, <2>2 DEF PageIsOfKept
    <3>2. QED
      BY <1>1, <2>1, <2>2, <3>1, CompletedKeeps
  <2>3. CASE Unresolved
    <3>1. /\ DOMAIN composer' = DOMAIN composer
          /\ composer'.at = composer.at /\ composer'.pending = composer.pending
          /\ composer'.intent = composer.intent /\ composer'.unknown = TRUE
          /\ composer'.blocked = composer.blocked /\ composer'.call = None
          /\ composer'.receipt = composer.receipt /\ UNCHANGED kept
      BY <2>3 DEF Unresolved
    <3>2. ComposerShape' /\ PageIsOfKept' /\ KnownIsOne' /\ FormIsFree'
      BY <1>1, <2>1, <3>1 DEF ComposerShape, PageIsOfKept, KnownIsOne, FormIsFree, Queued
    <3>3. QED
      BY <1>1, <3>1, <3>2, PageMoves
  <2>4. CASE ~composer.unknown /\ a.kind = "not_queued" /\ Refused
    <3>1. \A s \in sends : Queued(s.intent.id)
      BY <2>1, <2>4 DEF KnownIsOne, Awaiting
    <3>2. /\ DOMAIN composer' = DOMAIN composer
          /\ composer'.at = composer.at /\ composer'.unknown = composer.unknown
          /\ composer'.blocked = composer.blocked /\ composer'.call = None
          /\ composer'.receipt = composer.receipt
          /\ \/ kept' = None /\ composer'.pending = None /\ composer'.intent = None
             \/ UNCHANGED kept /\ composer'.pending = composer.pending
                  /\ composer'.intent = composer.intent
      BY <2>4 DEF Refused
    <3>3. ComposerShape' /\ PageIsOfKept' /\ KnownIsOne' /\ FormIsFree'
      BY <1>1, <2>1, <3>1, <3>2
         DEF ComposerShape, PageIsOfKept, KnownIsOne, FormIsFree, Queued
    <3>4. OnlyKeptMayCome' /\ DispatchesAreNumbered' /\ SentAsReviewed'
      BY <1>1, <3>1 DEF OnlyKeptMayCome, DispatchesAreNumbered, Numbers, SentAsReviewed, Queued
    <3>5. QED
      BY <3>3, <3>4
  <2>5. QED
    BY <1>2, <2>2, <2>3, <2>4 DEF ReceiveSent
<1>3. CASE ReceiveStatus
  <2>1. composer.call.kind = "receipt" /\ composer.call # None
    BY <1>3 DEF ReceiveStatus, Calling, SendCalls
  <2>2. CASE composer.pending \in {m.id : m \in outreach.messages} /\ Completed(composer.pending)
    <3>1. Queued(composer.pending)
      BY <2>2 DEF Queued
    <3>2. composer.pending # None /\ composer.pending \in Nat
      BY <2>1 DEF PageIsOfKept, ComposerShape
    <3>3. QED
      BY <1>1, <2>2, <3>1, <3>2, CompletedKeeps
  <2>3. CASE composer' = [composer EXCEPT !.call = None] /\ UNCHANGED kept
    <3>1. ComposerShape' /\ PageIsOfKept' /\ KnownIsOne' /\ FormIsFree'
      BY <1>1, <2>1, <2>3
         DEF ComposerShape, PageIsOfKept, KnownIsOne, Awaiting, FormIsFree, Queued
    <3>2. QED
      BY <1>1, <2>3, <3>1, PageMoves
  <2>4. QED
    BY <1>3, <2>2, <2>3 DEF ReceiveStatus
<1>4. QED
  BY <1>2, <1>3

LEMMA AudienceKeeps == ASSUME MessageKept, AudienceChanges \/ Moderated PROVE MessageKept'
<1>1. /\ UNCHANGED <<composer, kept, sends, pressed>>
      /\ DOMAIN outreach' = DOMAIN outreach /\ outreach'.messages = outreach.messages
  BY DEF MessageKept, ComposerShape, AudienceChanges, Moderated
<1>2. SentAsReviewed'
  BY <1>1 DEF MessageKept, SentAsReviewed
<1>3. QED
  BY <1>1, <1>2, DeliveryKeepsMessages

LEMMA NextMessageKept == MessageKept /\ [MessageComposerNext]_messageVars => MessageKept'
<1> SUFFICES ASSUME MessageKept, [MessageComposerNext]_messageVars PROVE MessageKept'
  OBVIOUS
<1>1. CASE UNCHANGED messageVars
  BY <1>1 DEF messageVars, MessageKept, ComposerShape, DispatchesAreNumbered, Numbers, OnlyKeptMayCome,
     PageIsOfKept, KnownIsOne, Awaiting, FormIsFree, SentAsReviewed, Queued
<1>2. QED
  BY <1>1, OpenLeaveKeeps, FormKeeps, SendKeeps, SendsKeep, ReceiveKeeps, AudienceKeeps
     DEF MessageComposerNext

LEMMA MessageKeptSuffices == MessageKept => MessagePromise
  BY DEF MessageKept, FormIsFree, PageIsOfKept, Queued, MessagePromise, NothingBehindTheForm,
     SentAsReviewed, ReceiptIsOfAMessage

\* However the attempts of a send are lost, answered late or refused, and whenever
\* the page is left, reloaded and moved on, a page that offers to write or to send
\* has nothing behind it that may yet be queued; a send queues one message, as it
\* was reviewed; and a receipt is of a message.
THEOREM SendsAreReviewed == MessageComposerSpec => []MessagePromise
<1>1. QED
  BY InitMessageKept, NextMessageKept, MessageKeptSuffices, PTL DEF MessageComposerSpec

-----------------------------------------------------------------------------
(* The organizer's sign-in *)

SignedIn == [user : Users, token : Nat]
Identities == SignedIn \cup {None}
Requested  == [stage : {"none", "asked", "sent"}, user : Users \cup {None}, current : BOOLEAN]
Goings     == [stage : {"none", "locking", "removing", "confirming", "confirmed"}, expected : Identities,
               dispatch : BOOLEAN, lifetime : BOOLEAN, told : {"none", "failed", "changed", "out"}]
Reads      == [stage : {"none", "asked", "got"}, session : Identities]
Screens    == [status : {"loading", "anonymous", "authenticated", "unavailable"}, session : Identities]

SessionTypeOK ==
    /\ stored \in Identities /\ issued \in Nat
    /\ news \in [SiteTabs -> Seq(Identities)]
    /\ observed \in [SiteTabs -> Identities]
    /\ read \in [SiteTabs -> Reads]
    /\ shown \in [SiteTabs -> Screens]
    /\ cache \in [SiteTabs -> SUBSET (Users \cup {None})]
    /\ request \in [SiteTabs -> Requested]
    /\ leaving \in [SiteTabs -> Goings]

\* What a tab has not been told yet ends with what is stored; told everything, it
\* has read what is stored, or shows it, or will read it.
ToldTheLatest(t) ==
    /\ news[t] # <<>> => news[t][Len(news[t])] = stored
    /\ news[t] = <<>> =>
          /\ read[t].stage = "got" => read[t].session = stored
          /\ read[t].stage = "none" /\ shown[t].status # "unavailable" => shown[t].session = stored

\* What a tab holds and asks for is the shown user's.
HoldsItsOwn(t) ==
    /\ shown[t].status = "authenticated" => shown[t].session # None
    /\ cache[t] \subseteq {UserOf(shown[t].session)}
    /\ request[t].current => request[t].user = UserOf(shown[t].session)

\* Whoever removes has the lock, and what is stored is what was shown; what is
\* told is told at the end.
RemovesTheExpected(t) ==
    /\ leaving[t].stage = "removing" => lock = t /\ stored = leaving[t].expected
    /\ leaving[t].stage # "none" => leaving[t].told = "none"

TabFits(t) == ToldTheLatest(t) /\ HoldsItsOwn(t) /\ RemovesTheExpected(t)

SessionKept == SessionTypeOK /\ \A t \in SiteTabs : TabFits(t)

\* A tab that nothing happens to.
Apart(t) ==
    /\ news'[t] = news[t] /\ observed'[t] = observed[t] /\ read'[t] = read[t] /\ shown'[t] = shown[t]
    /\ cache'[t] = cache[t] /\ request'[t] = request[t] /\ leaving'[t] = leaving[t]

\* What a step may do: see OnlyTheExpectedIsRemoved and NoticeIsTrue.
RemovalIsMeant ==
    stored # None /\ stored' = None =>
        \E t \in SiteTabs : leaving[t].stage = "removing" /\ leaving[t].expected = stored
NoticeIsSo(t) == leaving'[t].told = "out" /\ leaving[t].told # "out" => shown'[t].status = "anonymous"
SessionStep == RemovalIsMeant /\ \A t \in SiteTabs : NoticeIsSo(t)

LEMMA ApartFits ==
  ASSUME NEW t \in SiteTabs, TabFits(t), Apart(t), stored' = stored,
         leaving[t].stage = "removing" /\ lock = t => lock' = t
  PROVE  TabFits(t)' /\ NoticeIsSo(t)
  BY DEF TabFits, Apart, ToldTheLatest, HoldsItsOwn, RemovesTheExpected, NoticeIsSo

\* A step of one tab.
LEMMA OneTab ==
  ASSUME SessionKept, NEW t \in SiteTabs, stored' = stored, SessionTypeOK',
         \A v \in SiteTabs \ {t} : Apart(v), lock' \in {lock, None, t},
         lock' # lock => lock \in {None, t}, TabFits(t)', NoticeIsSo(t)
  PROVE  SessionKept' /\ SessionStep
<1>1. ASSUME NEW v \in SiteTabs, v # t
      PROVE  TabFits(v)' /\ NoticeIsSo(v)
  <2>1. lock = v => lock' = v
    BY <1>1, SessionAssumption
  <2>2. TabFits(v) /\ Apart(v)
    BY <1>1 DEF SessionKept
  <2>3. QED
    BY <1>1, <2>1, <2>2, ApartFits
<1>2. QED
  BY <1>1 DEF SessionKept, SessionStep, RemovalIsMeant

LEMMA AppendedLast ==
  ASSUME NEW S, NEW q \in Seq(S), NEW x \in S
  PROVE  /\ Append(q, x) \in Seq(S) /\ Append(q, x) # <<>>
         /\ Append(q, x)[Len(Append(q, x))] = x
  OBVIOUS

LEMMA Announced ==
  ASSUME NEW q \in Seq(Identities), NEW x \in Identities, NEW p, p = Append(q, x)
  PROVE  p \in Seq(Identities) /\ p # <<>> /\ p[Len(p)] = x
  BY AppendedLast

LEMMA TailLast ==
  ASSUME NEW S, NEW q \in Seq(S), q # <<>>
  PROVE  /\ Tail(q) \in Seq(S) /\ Head(q) \in S
         /\ Tail(q) # <<>> => Tail(q)[Len(Tail(q))] = q[Len(q)]
  OBVIOUS

-----------------------------------------------------------------------------
LEMMA SessionStarts == SessionInit => SessionKept
<1> SUFFICES ASSUME SessionInit PROVE SessionKept
  OBVIOUS
<1>1. Asked \in Reads /\ Asked.stage = "asked" /\ Loading \in Screens /\ Loading.status = "loading"
      /\ NoAsk \in Requested /\ NoAsk.current = FALSE /\ Staying \in Goings /\ Staying.stage = "none"
  BY DEF Asked, Reads, Loading, Screens, NoAsk, Requested, Staying, Goings, Identities
<1>2. SessionTypeOK
  BY <1>1 DEF SessionInit, SessionTypeOK, Identities
<1>3. ASSUME NEW t \in SiteTabs
      PROVE  TabFits(t)
  BY <1>1 DEF SessionInit, TabFits, ToldTheLatest, HoldsItsOwn, RemovesTheExpected
<1>4. QED
  BY <1>2, <1>3 DEF SessionKept

LEMMA StoreFits ==
  ASSUME SessionKept, Announce(stored'), stored' \in Identities, issued' \in Nat,
         UNCHANGED <<observed, read, shown, cache, request>>,
         leaving' \in [SiteTabs -> Goings],
         \A t \in SiteTabs : leaving'[t].stage # "removing" /\ (leaving'[t].stage # "none" => leaving'[t].told = "none")
  PROVE  SessionKept'
<1>1. news \in [SiteTabs -> Seq(Identities)] /\ news' = [t \in SiteTabs |-> Append(news[t], stored')]
  BY DEF Announce, SessionKept, SessionTypeOK
<1>2. \A t \in SiteTabs : /\ news'[t] \in Seq(Identities) /\ news'[t] # <<>>
                          /\ news'[t][Len(news'[t])] = stored'
  <2> SUFFICES ASSUME NEW t \in SiteTabs
               PROVE  /\ news'[t] \in Seq(Identities) /\ news'[t] # <<>>
                      /\ news'[t][Len(news'[t])] = stored'
    OBVIOUS
  <2> DEFINE q == news[t]
             x == stored'
             p == news'[t]
  <2>1. q \in Seq(Identities) /\ x \in Identities /\ p = Append(q, x)
    BY <1>1
  <2> HIDE DEF q, x, p
  <2>2. p \in Seq(Identities) /\ p # <<>> /\ p[Len(p)] = x
    BY <2>1, Announced
  <2>3. QED
    BY <2>2 DEF x, p
<1>3. SessionTypeOK'
  BY <1>1, <1>2 DEF SessionKept, SessionTypeOK
<1>4. ASSUME NEW t \in SiteTabs
      PROVE  TabFits(t)'
  BY <1>2 DEF SessionKept, TabFits, ToldTheLatest, HoldsItsOwn, RemovesTheExpected
<1>5. QED
  BY <1>3, <1>4 DEF SessionKept

\* Signing in, and the SDK's refresh
LEMMA SignInKeeps ==
  ASSUME SessionKept, (\E u \in Users : SignIn(u)) \/ RefreshTokens
  PROVE  SessionKept' /\ SessionStep
<1>1. issued + 1 \in Nat
  BY DEF SessionKept, SessionTypeOK
<1>2. stored' \in SignedIn
  <2>1. ASSUME NEW u \in Users, SignIn(u)
        PROVE  stored' \in SignedIn
    BY <1>1, <2>1 DEF SignIn, SignedIn
  <2>2. CASE RefreshTokens
    <3>1. stored \in SignedIn
      BY <2>2 DEF RefreshTokens, SessionKept, SessionTypeOK, Identities
    <3>2. QED
      BY <1>1, <2>2, <3>1 DEF RefreshTokens, SignedIn
  <2>3. QED
    BY <2>1, <2>2
<1>3. /\ lock = None /\ issued' = issued + 1 /\ Announce(stored')
      /\ UNCHANGED <<lock, observed, read, shown, cache, request, leaving>>
  BY DEF SignIn, RefreshTokens
<1>4. \A t \in SiteTabs : leaving[t].stage # "removing" /\ (leaving[t].stage # "none" => leaving[t].told = "none")
  BY <1>3, SessionAssumption DEF SessionKept, TabFits, RemovesTheExpected
<1>5. SessionKept'
  BY <1>1, <1>2, <1>3, <1>4, StoreFits DEF SessionKept, SessionTypeOK, Identities
<1>6. stored' # None
  BY <1>2, SessionAssumption DEF SignedIn
<1>7. QED
  BY <1>3, <1>5, <1>6 DEF SessionStep, RemovalIsMeant, NoticeIsSo

LEMMA Void ==
  ASSUME NEW r \in Requested, NEW l \in Goings
  PROVE  /\ Voided(r) \in Requested /\ Voided(r).current = FALSE
         /\ Undispatched(l) \in Goings /\ Undispatched(l).stage = l.stage
         /\ Undispatched(l).expected = l.expected /\ Undispatched(l).told = l.told
         /\ LET m == [l EXCEPT !.lifetime = FALSE] IN
            m \in Goings /\ m.stage = l.stage /\ m.expected = l.expected /\ m.told = l.told
  BY DEF Voided, Requested, Undispatched, Goings

\* What a change of identity does to the sign-out of a tab.
Outliving(l, other, fresh) ==
    LET k == IF other THEN Undispatched(l) ELSE l IN
    IF fresh THEN [k EXCEPT !.lifetime = FALSE] ELSE k

LEMMA Outlived ==
  ASSUME NEW l \in Goings, NEW other, NEW fresh
  PROVE  LET m == Outliving(l, other, fresh) IN
         m \in Goings /\ m.stage = l.stage /\ m.expected = l.expected /\ m.told = l.told
<1> DEFINE k == IF other THEN Undispatched(l) ELSE l
<1>1. NoAsk \in Requested
  BY DEF NoAsk, Requested
<1>2. k \in Goings /\ k.stage = l.stage /\ k.expected = l.expected /\ k.told = l.told
  BY <1>1, Void
<1> HIDE DEF k
<1>3. [k EXCEPT !.lifetime = FALSE] \in Goings /\ [k EXCEPT !.lifetime = FALSE].stage = k.stage
      /\ [k EXCEPT !.lifetime = FALSE].expected = k.expected /\ [k EXCEPT !.lifetime = FALSE].told = k.told
  BY <1>1, <1>2, Void
<1>4. QED
  BY <1>2, <1>3 DEF k, Outliving

LEMMA ObserveKeeps ==
  ASSUME SessionKept, NEW t \in SiteTabs, Observe(t)
  PROVE  SessionKept' /\ SessionStep
<1> DEFINE session == Head(news[t])
<1>0. SessionTypeOK /\ TabFits(t)
  BY DEF SessionKept
<1>1. news[t] \in Seq(Identities) /\ news[t] # <<>>
  BY <1>0 DEF SessionTypeOK, Observe
<1>2. /\ session \in Identities /\ Tail(news[t]) \in Seq(Identities)
      /\ Tail(news[t]) # <<>> => Tail(news[t])[Len(Tail(news[t]))] = stored
  BY <1>0, <1>1, TailLast DEF TabFits, ToldTheLatest
<1>3. Asked \in Reads /\ Asked.stage = "asked"
  BY DEF Asked, Reads, Identities
<1> DEFINE r == IF UserOf(session) # UserOf(observed[t]) THEN Voided(request[t]) ELSE request[t]
           m == Outliving(leaving[t], UserOf(session) # UserOf(observed[t]), session # None /\ session # observed[t])
<1>4. r \in Requested /\ (r.current => request[t].current /\ r = request[t])
  BY <1>0, Void DEF SessionTypeOK
<1>5. m \in Goings /\ m.stage = leaving[t].stage /\ m.expected = leaving[t].expected /\ m.told = leaving[t].told
  BY <1>0, Outlived DEF SessionTypeOK
<1>6. /\ news' = [news EXCEPT ![t] = Tail(news[t])]
      /\ observed' = [observed EXCEPT ![t] = session]
      /\ read' = [read EXCEPT ![t] = Asked]
      /\ request' = [request EXCEPT ![t] = r]
      /\ leaving' = [leaving EXCEPT ![t] = m]
      /\ UNCHANGED <<stored, issued, lock, shown, cache>>
  BY DEF Observe, ReadAgain, Outliving
<1> HIDE DEF session, r, m
<1>7. SessionTypeOK'
  BY <1>0, <1>2, <1>3, <1>4, <1>5, <1>6 DEF SessionTypeOK
<1>8. /\ news'[t] = Tail(news[t]) /\ read'[t] = Asked /\ request'[t] = r /\ leaving'[t] = m
      /\ \A v \in SiteTabs \ {t} : Apart(v)
  BY <1>0, <1>6 DEF SessionTypeOK, Apart
<1>9. TabFits(t)' /\ NoticeIsSo(t)
  BY <1>0, <1>2, <1>3, <1>4, <1>5, <1>6, <1>8 DEF TabFits, ToldTheLatest, HoldsItsOwn, RemovesTheExpected, NoticeIsSo
<1>10. QED
  BY <1>6, <1>7, <1>8, <1>9, OneTab

LEMMA GetSessionKeeps ==
  ASSUME SessionKept, NEW t \in SiteTabs, GetSession(t)
  PROVE  SessionKept' /\ SessionStep
<1>0. SessionTypeOK /\ TabFits(t)
  BY DEF SessionKept
<1> DEFINE r == [stage |-> "got", session |-> stored]
<1>1. r \in Reads /\ r.stage = "got" /\ r.session = stored
  BY <1>0 DEF SessionTypeOK, Reads
<1>2. read' = [read EXCEPT ![t] = r] /\ UNCHANGED <<stored, issued, lock, news, observed, shown, cache, request, leaving>>
  BY DEF GetSession
<1> HIDE DEF r
<1>3. SessionTypeOK'
  BY <1>0, <1>1, <1>2 DEF SessionTypeOK
<1>4. read'[t] = r /\ \A v \in SiteTabs \ {t} : Apart(v)
  BY <1>0, <1>2 DEF SessionTypeOK, Apart
<1>5. TabFits(t)' /\ NoticeIsSo(t)
  BY <1>0, <1>1, <1>2, <1>4 DEF TabFits, ToldTheLatest, HoldsItsOwn, RemovesTheExpected, NoticeIsSo
<1>6. QED
  BY <1>2, <1>3, <1>4, <1>5, OneTab

LEMMA ApplyKeeps ==
  ASSUME SessionKept, NEW t \in SiteTabs, Apply(t)
  PROVE  SessionKept' /\ SessionStep
<1> DEFINE session == read[t].session
           other == UserOf(session) # UserOf(shown[t].session) \/ UserOf(session) # UserOf(observed[t])
           s == [status |-> IF session = None THEN "anonymous" ELSE "authenticated", session |-> session]
           r == IF other THEN Voided(request[t]) ELSE request[t]
           m == Outliving(leaving[t], other, session # None /\ session # observed[t])
<1>0. SessionTypeOK /\ TabFits(t) /\ read[t].stage = "got"
  BY DEF SessionKept, Apply
<1>1. session \in Identities /\ NoRead \in Reads /\ NoRead.stage = "none"
  BY <1>0 DEF SessionTypeOK, Reads, NoRead, Identities
<1>2. /\ s \in Screens /\ s.session = session /\ s.status # "unavailable"
      /\ s.status = "authenticated" => session # None
  BY <1>1 DEF Screens
<1>3. r \in Requested /\ (r.current => request[t].current /\ r = request[t] /\ UserOf(session) = UserOf(shown[t].session))
  BY <1>0, Void DEF SessionTypeOK
<1>4. m \in Goings /\ m.stage = leaving[t].stage /\ m.expected = leaving[t].expected /\ m.told = leaving[t].told
  BY <1>0, Outlived DEF SessionTypeOK
<1>5. Evicted(t, session) \subseteq cache[t] /\ (Evicted(t, session) # {} => UserOf(session) = UserOf(shown[t].session))
  BY DEF Evicted
<1>6. /\ shown' = [shown EXCEPT ![t] = s]
      /\ observed' = [observed EXCEPT ![t] = session]
      /\ cache' = [cache EXCEPT ![t] = Evicted(t, session)]
      /\ request' = [request EXCEPT ![t] = r]
      /\ leaving' = [leaving EXCEPT ![t] = m]
      /\ read' = [read EXCEPT ![t] = NoRead]
      /\ UNCHANGED <<stored, issued, lock, news>>
  BY DEF Apply, Outliving
<1>7. read[t].stage = "got" /\ news[t] = <<>> => session = stored
  BY <1>0 DEF TabFits, ToldTheLatest
<1> HIDE DEF session, other, s, r, m
<1>8. SessionTypeOK'
  BY <1>0, <1>1, <1>2, <1>3, <1>4, <1>5, <1>6 DEF SessionTypeOK
<1>9. /\ shown'[t] = s /\ cache'[t] = Evicted(t, session) /\ request'[t] = r /\ leaving'[t] = m /\ read'[t] = NoRead
      /\ \A v \in SiteTabs \ {t} : Apart(v)
  BY <1>0, <1>6 DEF SessionTypeOK, Apart
<1>10. ToldTheLatest(t)'
  BY <1>0, <1>1, <1>2, <1>6, <1>7, <1>9 DEF TabFits, ToldTheLatest
<1>11. HoldsItsOwn(t)'
  BY <1>0, <1>2, <1>3, <1>5, <1>9 DEF TabFits, HoldsItsOwn
<1>12. RemovesTheExpected(t)' /\ NoticeIsSo(t)
  BY <1>0, <1>4, <1>6, <1>9 DEF TabFits, RemovesTheExpected, NoticeIsSo
<1>13. QED
  BY <1>6, <1>8, <1>9, <1>10, <1>11, <1>12, OneTab DEF TabFits

LEMMA UnavailableKeeps ==
  ASSUME SessionKept, NEW t \in SiteTabs, Unavailable(t)
  PROVE  SessionKept' /\ SessionStep
<1> DEFINE s == [status |-> "unavailable", session |-> None]
           r == Voided(request[t])
           m == Undispatched(leaving[t])
<1>0. SessionTypeOK /\ TabFits(t)
  BY DEF SessionKept
<1>1. NoRead \in Reads /\ NoRead.stage = "none" /\ s \in Screens /\ s.status = "unavailable"
  BY DEF Reads, NoRead, Identities, Screens
<1>2. /\ r \in Requested /\ r.current = FALSE
      /\ m \in Goings /\ m.stage = leaving[t].stage /\ m.expected = leaving[t].expected /\ m.told = leaving[t].told
  BY <1>0, Void DEF SessionTypeOK
<1>3. /\ shown' = [shown EXCEPT ![t] = s]
      /\ cache' = [cache EXCEPT ![t] = {}]
      /\ request' = [request EXCEPT ![t] = r]
      /\ leaving' = [leaving EXCEPT ![t] = m]
      /\ read' = [read EXCEPT ![t] = NoRead]
      /\ UNCHANGED <<stored, issued, lock, news, observed>>
  BY DEF Unavailable
<1> HIDE DEF s, r, m
<1>4. SessionTypeOK'
  BY <1>0, <1>1, <1>2, <1>3 DEF SessionTypeOK
<1>5. /\ shown'[t] = s /\ cache'[t] = {} /\ request'[t] = r /\ leaving'[t] = m /\ read'[t] = NoRead
      /\ \A v \in SiteTabs \ {t} : Apart(v)
  BY <1>0, <1>3 DEF SessionTypeOK, Apart
<1>6. TabFits(t)' /\ NoticeIsSo(t)
  BY <1>0, <1>1, <1>2, <1>3, <1>5 DEF TabFits, ToldTheLatest, HoldsItsOwn, RemovesTheExpected, NoticeIsSo
<1>7. QED
  BY <1>3, <1>4, <1>5, <1>6, OneTab

LEMMA ReloadKeeps ==
  ASSUME SessionKept, NEW t \in SiteTabs, Reload(t)
  PROVE  SessionKept' /\ SessionStep
<1>0. SessionTypeOK /\ TabFits(t)
  BY DEF SessionKept
<1>1. /\ Asked \in Reads /\ Asked.stage = "asked" /\ Loading \in Screens /\ Loading.status = "loading"
      /\ NoAsk \in Requested /\ NoAsk.current = FALSE /\ Staying \in Goings /\ Staying.stage = "none" /\ Staying.told = "none"
  BY DEF Asked, Reads, Loading, Screens, NoAsk, Requested, Staying, Goings, Identities
<1>2. /\ lock' = IF lock = t THEN None ELSE lock
      /\ news' = [news EXCEPT ![t] = <<>>]
      /\ observed' = [observed EXCEPT ![t] = None]
      /\ read' = [read EXCEPT ![t] = Asked] /\ shown' = [shown EXCEPT ![t] = Loading]
      /\ cache' = [cache EXCEPT ![t] = {}]
      /\ request' = [request EXCEPT ![t] = NoAsk] /\ leaving' = [leaving EXCEPT ![t] = Staying]
      /\ UNCHANGED <<stored, issued>>
  BY DEF Reload
<1>3. SessionTypeOK'
  BY <1>0, <1>1, <1>2 DEF SessionTypeOK, Identities
<1>4. /\ shown'[t] = Loading /\ cache'[t] = {} /\ request'[t] = NoAsk /\ leaving'[t] = Staying /\ read'[t] = Asked
      /\ news'[t] = <<>> /\ \A v \in SiteTabs \ {t} : Apart(v)
  BY <1>0, <1>2 DEF SessionTypeOK, Apart
<1>5. TabFits(t)' /\ NoticeIsSo(t)
  BY <1>1, <1>4 DEF TabFits, ToldTheLatest, HoldsItsOwn, RemovesTheExpected, NoticeIsSo
<1>6. QED
  BY <1>2, <1>3, <1>4, <1>5, OneTab

\* A step of a tab's request for private data.
LEMMA RequestKeeps ==
  ASSUME SessionKept, NEW t \in SiteTabs, AskPrivate(t) \/ Pin(t) \/ Answer(t)
  PROVE  SessionKept' /\ SessionStep
<1>0. SessionTypeOK /\ TabFits(t)
  BY DEF SessionKept
<1>1. NoAsk \in Requested /\ NoAsk.current = FALSE
  BY DEF NoAsk, Requested
<1>2. \E r \in Requested, c \in SUBSET (Users \cup {None}) :
         /\ request' = [request EXCEPT ![t] = r] /\ cache' = [cache EXCEPT ![t] = c]
         /\ r.current => r.user = UserOf(shown[t].session)
         /\ c \subseteq {UserOf(shown[t].session)}
  <2>1. CASE AskPrivate(t)
    <3> DEFINE r == [stage |-> "asked", user |-> shown[t].session.user, current |-> TRUE]
    <3>1. shown[t].session \in SignedIn /\ shown[t].session # None
      BY <1>0, <2>1 DEF AskPrivate, TabFits, HoldsItsOwn, SessionTypeOK, Screens, Identities
    <3>2. r \in Requested /\ r.user = UserOf(shown[t].session)
      BY <3>1 DEF SignedIn, Requested, UserOf
    <3>3. cache' = [cache EXCEPT ![t] = cache[t]] /\ cache[t] \in SUBSET (Users \cup {None})
      BY <1>0, <2>1 DEF AskPrivate, SessionTypeOK
    <3>4. request' = [request EXCEPT ![t] = r]
      BY <2>1 DEF AskPrivate
    <3>5. cache[t] \subseteq {UserOf(shown[t].session)}
      BY <1>0 DEF TabFits, HoldsItsOwn
    <3> HIDE DEF r
    <3>6. QED
      BY <3>2, <3>3, <3>4, <3>5
  <2>2. CASE Pin(t)
    <3> DEFINE p == [request[t] EXCEPT !.stage = "sent"]
               r == IF UserOf(stored) = request[t].user /\ request[t].current THEN p ELSE NoAsk
    <3>1. p \in Requested /\ p.user = request[t].user /\ p.current = request[t].current
      BY <1>0 DEF SessionTypeOK, Requested
    <3>2. r \in Requested /\ (r.current => r.user = UserOf(shown[t].session))
      BY <1>0, <1>1, <3>1 DEF TabFits, HoldsItsOwn
    <3>3. cache' = [cache EXCEPT ![t] = cache[t]] /\ cache[t] \in SUBSET (Users \cup {None})
      BY <1>0, <2>2 DEF Pin, SessionTypeOK
    <3>4. request' = [request EXCEPT ![t] = r]
      BY <2>2 DEF Pin
    <3>5. cache[t] \subseteq {UserOf(shown[t].session)}
      BY <1>0 DEF TabFits, HoldsItsOwn
    <3> HIDE DEF p, r
    <3>6. QED
      BY <3>2, <3>3, <3>4, <3>5
  <2>3. CASE Answer(t)
    <3> DEFINE c == IF request[t].current THEN cache[t] \cup {request[t].user} ELSE cache[t]
    <3>1. c \in SUBSET (Users \cup {None}) /\ c \subseteq {UserOf(shown[t].session)}
      BY <1>0 DEF SessionTypeOK, TabFits, HoldsItsOwn, Requested
    <3>2. cache' = [cache EXCEPT ![t] = c] /\ request' = [request EXCEPT ![t] = NoAsk]
      BY <2>3 DEF Answer
    <3> HIDE DEF c
    <3>3. QED
      BY <1>1, <3>1, <3>2
  <2>4. QED
    BY <2>1, <2>2, <2>3
<1>3. PICK r \in Requested, c \in SUBSET (Users \cup {None}) :
         /\ request' = [request EXCEPT ![t] = r] /\ cache' = [cache EXCEPT ![t] = c]
         /\ r.current => r.user = UserOf(shown[t].session)
         /\ c \subseteq {UserOf(shown[t].session)}
  BY <1>2
<1>4. UNCHANGED <<stored, issued, lock, news, observed, read, shown, leaving>>
  BY DEF AskPrivate, Pin, Answer
<1>5. SessionTypeOK'
  BY <1>0, <1>3, <1>4 DEF SessionTypeOK
<1>6. request'[t] = r /\ cache'[t] = c /\ \A v \in SiteTabs \ {t} : Apart(v)
  BY <1>0, <1>3, <1>4 DEF SessionTypeOK, Apart
<1>7. TabFits(t)' /\ NoticeIsSo(t)
  BY <1>0, <1>3, <1>4, <1>6 DEF TabFits, ToldTheLatest, HoldsItsOwn, RemovesTheExpected, NoticeIsSo
<1>8. QED
  BY <1>4, <1>5, <1>6, <1>7, OneTab

-----------------------------------------------------------------------------
(* Signing out *)

\* A step of a tab's sign-out that leaves the session alone.
LEMMA GoingKeeps ==
  ASSUME SessionKept, NEW t \in SiteTabs, NEW m \in Goings, leaving' = [leaving EXCEPT ![t] = m],
         NEW r \in Reads, read' = [read EXCEPT ![t] = r], r = read[t] \/ r.stage = "asked",
         NEW q \in Requested, request' = [request EXCEPT ![t] = q], q = request[t] \/ q.current = FALSE,
         NEW c \in SUBSET cache[t], cache' = [cache EXCEPT ![t] = c],
         UNCHANGED <<stored, issued, news, observed, shown>>,
         lock' \in {lock, None, t}, lock' # lock => lock \in {None, t},
         m.stage = "removing" => lock' = t /\ stored = m.expected,
         m.stage # "none" => m.told = "none",
         m.told = "out" => shown[t].status = "anonymous"
  PROVE  SessionKept' /\ SessionStep
<1>0. SessionTypeOK /\ TabFits(t)
  BY DEF SessionKept
<1>1. SessionTypeOK'
  BY <1>0 DEF SessionTypeOK
<1>2. /\ leaving'[t] = m /\ read'[t] = r /\ request'[t] = q /\ cache'[t] = c
      /\ \A v \in SiteTabs \ {t} : Apart(v)
  BY <1>0 DEF SessionTypeOK, Apart
<1>3. ToldTheLatest(t)' /\ HoldsItsOwn(t)'
  BY <1>0, <1>2 DEF TabFits, ToldTheLatest, HoldsItsOwn
<1>4. RemovesTheExpected(t)' /\ NoticeIsSo(t)
  BY <1>2 DEF RemovesTheExpected, NoticeIsSo
<1>5. QED
  BY <1>1, <1>2, <1>3, <1>4, OneTab DEF TabFits

LEMMA Same ==
  ASSUME SessionKept, NEW t \in SiteTabs
  PROVE  /\ read[t] \in Reads /\ read = [read EXCEPT ![t] = read[t]]
         /\ request[t] \in Requested /\ request = [request EXCEPT ![t] = request[t]]
         /\ cache = [cache EXCEPT ![t] = cache[t]] /\ cache[t] \in SUBSET cache[t]
         /\ leaving[t] \in Goings /\ shown[t] \in Screens
  BY DEF SessionKept, SessionTypeOK

LEMMA Told ==
  ASSUME NEW what \in {"none", "failed", "changed", "out"}
  PROVE  /\ [Staying EXCEPT !.told = what] \in Goings /\ [Staying EXCEPT !.told = what].stage = "none"
         /\ [Staying EXCEPT !.told = what].told = what
  BY DEF Staying, Goings, Identities

LEMMA GoesOn ==
  ASSUME NEW l \in Goings, NEW s \in {"removing", "confirming", "confirmed"}
  PROVE  LET m == [l EXCEPT !.stage = s] IN m \in Goings /\ m.stage = s /\ m.expected = l.expected /\ m.told = l.told
  BY DEF Goings

\* A tab on its way out has told nothing yet.
LEMMA SignOutKeeps ==
  ASSUME SessionKept, NEW t \in SiteTabs, SignOut(t)
  PROVE  SessionKept' /\ SessionStep
<1> DEFINE m == [stage |-> "locking", expected |-> shown[t].session, dispatch |-> TRUE, lifetime |-> TRUE, told |-> "none"]
           q == Voided(request[t])
<1>1. m \in Goings /\ m.stage = "locking" /\ m.told = "none"
  BY Same DEF Goings, Screens
<1>2. q \in Requested /\ q.current = FALSE
  BY Same, Void
<1>3. /\ leaving' = [leaving EXCEPT ![t] = m] /\ cache' = [cache EXCEPT ![t] = {}] /\ request' = [request EXCEPT ![t] = q]
      /\ UNCHANGED <<stored, issued, lock, news, observed, read, shown>>
  BY DEF SignOut
<1> HIDE DEF m, q
<1>4. read' = [read EXCEPT ![t] = read[t]] /\ read[t] \in Reads
  BY <1>3, Same
<1>5. QED
  BY <1>1, <1>2, <1>3, <1>4, GoingKeeps

\* Steps of a sign-out that touch neither the cache nor the requests.
LEMMA LeavingKeeps ==
  ASSUME SessionKept, NEW t \in SiteTabs, NEW m \in Goings, leaving' = [leaving EXCEPT ![t] = m],
         read' = read \/ read' = [read EXCEPT ![t] = Asked],
         UNCHANGED <<stored, issued, news, observed, shown, cache, request>>,
         lock' \in {lock, None, t}, lock' # lock => lock \in {None, t},
         m.stage = "removing" => lock' = t /\ stored = m.expected,
         m.stage # "none" => m.told = "none",
         m.told = "out" => shown[t].status = "anonymous"
  PROVE  SessionKept' /\ SessionStep
<1>1. Asked \in Reads /\ Asked.stage = "asked"
  BY DEF Asked, Reads, Identities
<1>2. PICK r \in Reads : read' = [read EXCEPT ![t] = r] /\ (r = read[t] \/ r.stage = "asked")
  BY <1>1, Same
<1>3. /\ request' = [request EXCEPT ![t] = request[t]] /\ request[t] \in Requested
      /\ cache' = [cache EXCEPT ![t] = cache[t]] /\ cache[t] \in SUBSET cache[t]
  BY Same
<1>4. QED
  BY ZenonT(60), <1>2, <1>3, GoingKeeps

\* Only a tab that is done tells anything.
LEMMA AtItsPlace ==
  ASSUME SessionKept, NEW t \in SiteTabs, LockTimesOut(t) \/ Lock(t) \/ Confirm(t) \/ SignedOut(t)
  PROVE  SessionKept' /\ SessionStep
<1>1. CASE LockTimesOut(t)
  BY <1>1, Told, LeavingKeeps DEF LockTimesOut, Tell
<1>2. CASE SignedOut(t)
  <2> DEFINE what == IF leaving[t].lifetime /\ shown[t].status = "anonymous" THEN "out" ELSE "none"
             m == [Staying EXCEPT !.told = what]
  <2>1. m \in Goings /\ m.stage = "none" /\ (m.told = "out" => shown[t].status = "anonymous")
    BY Told
  <2>2. leaving' = [leaving EXCEPT ![t] = m] /\ UNCHANGED <<stored, issued, lock, news, observed, read, shown, cache, request>>
    BY <1>2 DEF SignedOut, Tell
  <2> HIDE DEF m
  <2>3. QED
    BY <2>1, <2>2, LeavingKeeps
<1>3. CASE Lock(t)
  <2>1. CASE SameSession(t)
    <3> DEFINE m == [leaving[t] EXCEPT !.stage = "removing"]
    <3>1. m \in Goings /\ m.stage = "removing" /\ m.expected = leaving[t].expected /\ m.told = leaving[t].told
      BY Same, GoesOn
    <3>2. stored = leaving[t].expected
      BY <2>1 DEF SameSession
    <3>3. /\ leaving' = [leaving EXCEPT ![t] = m] /\ lock' = t /\ lock = None
          /\ UNCHANGED <<stored, issued, news, observed, read, shown, cache, request>>
      BY <1>3, <2>1 DEF Lock
    <3>4. leaving[t].told = "none"
      BY <1>3 DEF Lock, SessionKept, TabFits, RemovesTheExpected
    <3> HIDE DEF m
    <3>5. QED
      BY <3>1, <3>2, <3>3, <3>4, LeavingKeeps
  <2>2. CASE ~SameSession(t)
    BY <1>3, <2>2, Told, LeavingKeeps DEF Lock, Tell
  <2>3. QED
    BY <2>1, <2>2
<1>4. CASE Confirm(t)
  <2> DEFINE m == [leaving[t] EXCEPT !.stage = "confirmed"]
  <2>1. m \in Goings /\ m.stage = "confirmed" /\ m.told = "none"
    <3>1. leaving[t].told = "none"
      BY <1>4 DEF Confirm, SessionKept, TabFits, RemovesTheExpected
    <3>2. QED
      BY <3>1, Same, GoesOn
  <2>2. /\ leaving' = [leaving EXCEPT ![t] = m] /\ read' = [read EXCEPT ![t] = Asked]
        /\ UNCHANGED <<stored, issued, lock, news, observed, shown, cache, request>>
    BY <1>4 DEF Confirm, ReadAgain
  <2> HIDE DEF m
  <2>3. QED
    BY <2>1, <2>2, LeavingKeeps
<1>5. QED
  BY <1>1, <1>2, <1>3, <1>4

LEMMA RemoveKeeps ==
  ASSUME SessionKept, NEW t \in SiteTabs, Remove(t)
  PROVE  SessionKept' /\ SessionStep
<1>0. SessionTypeOK /\ TabFits(t) /\ leaving[t].stage = "removing"
  BY DEF SessionKept, Remove
<1>1. lock = t /\ stored = leaving[t].expected /\ leaving[t].told = "none"
  BY <1>0 DEF TabFits, RemovesTheExpected
<1>2. lock' = None /\ UNCHANGED <<issued, observed, read, shown, cache, request>>
  BY DEF Remove
<1>3. CASE stored' = None /\ Announce(None)
           /\ IF leaving[t].lifetime THEN leaving' = [leaving EXCEPT ![t].stage = "confirming"] ELSE Tell(t, "none")
  <2>1. \E m \in Goings : /\ leaving' = [leaving EXCEPT ![t] = m]
                          /\ m.stage \in {"none", "confirming"} /\ m.told = "none"
    <3>1. CASE leaving[t].lifetime
      <4> DEFINE m == [leaving[t] EXCEPT !.stage = "confirming"]
      <4>1. m \in Goings /\ m.stage = "confirming" /\ m.told = "none"
        BY <1>1, Same, GoesOn
      <4>2. leaving' = [leaving EXCEPT ![t] = m]
        BY <1>3, <3>1
      <4> HIDE DEF m
      <4>3. QED
        BY <4>1, <4>2
    <3>2. CASE ~leaving[t].lifetime
      <4> DEFINE m == [Staying EXCEPT !.told = "none"]
      <4>1. m \in Goings /\ m.stage = "none" /\ m.told = "none"
        BY Told
      <4>2. leaving' = [leaving EXCEPT ![t] = m]
        BY <1>3, <3>2 DEF Tell
      <4> HIDE DEF m
      <4>3. QED
        BY <4>1, <4>2
    <3>3. QED
      BY <3>1, <3>2
  <2>2. PICK m \in Goings : /\ leaving' = [leaving EXCEPT ![t] = m]
                           /\ m.stage \in {"none", "confirming"} /\ m.told = "none"
    BY <2>1
  <2>3. leaving' \in [SiteTabs -> Goings] /\ \A v \in SiteTabs : leaving'[v] = IF v = t THEN m ELSE leaving[v]
    BY <1>0, <2>2 DEF SessionTypeOK
  <2>4. \A v \in SiteTabs : v # t => leaving[v].stage # "removing"
    BY <1>1 DEF SessionKept, TabFits, RemovesTheExpected
  <2>5. \A v \in SiteTabs : leaving[v].stage # "none" => leaving[v].told = "none"
    BY DEF SessionKept, TabFits, RemovesTheExpected
  <2>6. \A v \in SiteTabs : /\ leaving'[v].stage # "removing" /\ (leaving'[v].stage # "none" => leaving'[v].told = "none")
                            /\ leaving'[v].told = "out" => leaving[v].told = "out"
    BY <2>2, <2>3, <2>4, <2>5
  <2>7. stored' \in Identities /\ issued' \in Nat /\ Announce(stored')
    BY <1>0, <1>2, <1>3 DEF Identities, SessionTypeOK
  <2>8. SessionKept'
    BY <1>2, <2>3, <2>6, <2>7, StoreFits
  <2>9. QED
    BY <1>0, <1>1, <2>6, <2>8 DEF SessionStep, RemovalIsMeant, NoticeIsSo
<1>4. CASE Tell(t, "failed") /\ UNCHANGED <<stored, news>>
  <2> DEFINE m == [Staying EXCEPT !.told = "failed"]
  <2>1. m \in Goings /\ m.stage = "none" /\ m.told = "failed"
    BY Told
  <2>2. leaving' = [leaving EXCEPT ![t] = m]
    BY <1>4 DEF Tell
  <2> HIDE DEF m
  <2>3. QED
    BY <1>1, <1>2, <1>4, <2>1, <2>2, LeavingKeeps
<1>5. QED
  BY <1>3, <1>4 DEF Remove

LEMMA SessionNextKeeps ==
  ASSUME SessionKept, [OrganizerSessionNext]_sessionVars
  PROVE  SessionKept' /\ SessionStep
<1>1. CASE UNCHANGED sessionVars
  <2>1. SessionTypeOK' /\ stored' = stored /\ lock' = lock /\ \A t \in SiteTabs : Apart(t)
    BY <1>1 DEF sessionVars, SessionKept, SessionTypeOK, Apart
  <2>2. QED
    BY <2>1, ApartFits DEF SessionKept, SessionStep, RemovalIsMeant
<1>2. CASE (\E u \in Users : SignIn(u)) \/ RefreshTokens
  BY <1>2, SignInKeeps
<1>3. ASSUME NEW t \in SiteTabs,
             \/ Observe(t) \/ GetSession(t) \/ Apply(t) \/ Unavailable(t) \/ Reload(t)
             \/ AskPrivate(t) \/ Pin(t) \/ Answer(t)
             \/ SignOut(t) \/ LockTimesOut(t) \/ Lock(t) \/ Remove(t) \/ Confirm(t) \/ SignedOut(t)
      PROVE  SessionKept' /\ SessionStep
  BY <1>3, ObserveKeeps, GetSessionKeeps, ApplyKeeps, UnavailableKeeps, ReloadKeeps, RequestKeeps,
     SignOutKeeps, AtItsPlace, RemoveKeeps
<1>4. QED
  BY <1>1, <1>2, <1>3 DEF OrganizerSessionNext

\* For any tabs, users and tokens, whatever each tab is told late and reads anew:
\* a quiet tab shows the stored session, caches only the shown user's data, a
\* sign-out removes only the session it was pressed for, and says it is done only
\* where the tab found nobody signed in.
THEOREM SessionIsKept == OrganizerSessionSpec => SessionPromise
<1>1. SessionKept /\ [OrganizerSessionNext]_sessionVars => SessionKept' /\ SessionStep
  BY SessionNextKeeps
<1>2. SessionKept => QuietTabIsCurrent /\ PrivateDataIsOwn
  BY DEF SessionKept, TabFits, ToldTheLatest, HoldsItsOwn, QuietTabIsCurrent, PrivateDataIsOwn
<1>3. SessionStep =>
       /\ stored # None /\ stored' = None =>
          \E t \in SiteTabs : leaving[t].stage = "removing" /\ leaving[t].expected = stored
       /\ \A t \in SiteTabs : leaving'[t].told = "out" /\ leaving[t].told # "out"
          => shown'[t].status = "anonymous"
  BY DEF SessionStep, RemovalIsMeant, NoticeIsSo
<1>4. QED
  BY <1>1, <1>2, <1>3, SessionStarts, PTL
     DEF OrganizerSessionSpec, SessionPromise, OnlyTheExpectedIsRemoved, NoticeIsTrue

-----------------------------------------------------------------------------
(* The storefront *)

Images     == Nat \cup {None}
Bodies     == [logo : Images, items : SUBSET Nat]
StoreRows  == [version : Nat, logo : Images, merch : SUBSET Nat, public : BOOLEAN, claimed : BOOLEAN]
ProfileRows == [version : Nat, logo : Images, claimed : BOOLEAN]
ShopKinds    == {"save", "merch", "publish", "unpublish", "clear", "remove", "logo", "item"}
ProfileKinds == {"file", "profile", "claim", "load"}
Bases      == StoreRows \cup ProfileRows \cup {None}
Kinds      == ShopKinds \cup ProfileKinds
Invoked    == [by : Editors \cup Profiles \cup {None}, kind : Kinds, body : Bodies, base : Bases]
ShopPages    == [saved : StoreRows, logo : Images, items : SUBSET Nat, review : StoreRows \cup {None}]
ProfilePages == [saved : ProfileRows, logo : Images, file : BOOLEAN,
                 then : {"none", "leave", "save", "claim"}, conflict : BOOLEAN]

StoreTypeOK ==
    /\ row \in StoreRows /\ media \in SUBSET Nat /\ uploads \in Nat
    /\ shop \in [Editors -> ShopPages \cup {None}]
    /\ profiles \in [Profiles -> ProfilePages \cup {None}]
    /\ storeCalls \in SUBSET Invoked

\* What a page knows of the row is an earlier version of it, or is what it is now.
KnowsLogo(r) == r.version <= row.version /\ (r.version = row.version => r.logo = row.logo)
KnowsRow(r)  == r \in StoreRows /\ KnowsLogo(r) /\ (r.version = row.version => r.merch = row.merch)

ShopKnows(e) ==
    shop[e] # None => KnowsRow(shop[e].saved) /\ (shop[e].review # None => KnowsRow(shop[e].review))
ProfileKnows(p) == profiles[p] # None => KnowsLogo(profiles[p].saved)

\* A call is made from what its page knew, and its page waits for it.
CallKnows(c) ==
    /\ c.kind \in {"save", "merch", "publish", "unpublish"} => KnowsRow(c.base)
    /\ c.kind = "publish" => c.body = Body(c.base.logo, c.base.merch)
    /\ c.kind = "profile" => c.base \in ProfileRows /\ KnowsLogo(c.base)
    /\ c.by \in Editors => c.kind \in ShopKinds /\ shop[c.by] # None
    /\ c.by \in Profiles => c.kind \in ProfileKinds /\ profiles[c.by] # None

\* A page waits for one call.
OneCallEach == \A c, d \in storeCalls : c.by = d.by /\ c.by # None => c = d

StoreKept ==
    /\ StoreTypeOK /\ ShownIsStored /\ PublicIsComplete /\ OneCallEach
    /\ \A e \in Editors : ShopKnows(e)
    /\ \A p \in Profiles : ProfileKnows(p)
    /\ \A c \in storeCalls : CallKnows(c)

\* What a step may do: see PublishedIsWhatWasShown and OnlySeenIsReplaced.
WasShown ==
    row'.public /\ ~row.public =>
        \E c \in storeCalls \ storeCalls' : c.kind = "publish" /\ c.body = Body(row.logo, row.merch)
WasSeen ==
    \A c \in storeCalls \ storeCalls' :
        /\ c.kind \in {"save", "profile"} /\ row' # row => row.logo = c.base.logo
        /\ c.kind = "merch" /\ row' # row => row.merch = c.base.merch
StoreStep == WasShown /\ WasSeen

-----------------------------------------------------------------------------
LEMMA NothingTyped == Nothing \in Bodies /\ None \notin Nat /\ None \notin Editors /\ None \notin Profiles
  BY StorefrontAssumption DEF Nothing, Body, Bodies, Images

LEMMA NotAPage == None \notin ShopPages /\ None \notin ProfilePages /\ Editors \cap Profiles = {}
  BY StorefrontAssumption DEF ShopPages, ProfilePages, StoreRows, ProfileRows, Images

LEMMA InvokeTyped ==
  ASSUME NEW by \in Editors \cup Profiles \cup {None}, NEW kind \in Kinds, NEW body \in Bodies,
         NEW base \in Bases
  PROVE  LET c == Invoke(by, kind, body, base) IN
         c \in Invoked /\ c.by = by /\ c.kind = kind /\ c.body = body /\ c.base = base
  BY DEF Invoke, Invoked

LEMMA StoreStarts == StoreInit => StoreKept
<1> SUFFICES ASSUME StoreInit PROVE StoreKept
  OBVIOUS
<1>1. row \in StoreRows /\ row.logo = None /\ row.merch = {} /\ row.public = FALSE
  <2>1. row \in [version : {1}, logo : {None}, merch : {{}}, public : {FALSE}, claimed : BOOLEAN]
    BY DEF StoreInit
  <2>2. 1 \in Nat /\ None \in Images /\ {} \in SUBSET Nat /\ FALSE \in BOOLEAN
    BY DEF Images
  <2> DEFINE c == row.claimed
  <2>3. row = [version |-> 1, logo |-> None, merch |-> {}, public |-> FALSE, claimed |-> c] /\ c \in BOOLEAN
    BY <2>1
  <2> HIDE DEF c
  <2>4. QED
    BY <2>2, <2>3 DEF StoreRows
<1>2. \A e \in Editors : ShopKnows(e)
  BY DEF StoreInit, ShopKnows
<1>3. \A p \in Profiles : ProfileKnows(p)
  BY DEF StoreInit, ProfileKnows
<1>4. StoreTypeOK
  <2>1. shop \in [Editors -> ShopPages \cup {None}] /\ profiles \in [Profiles -> ProfilePages \cup {None}]
    BY DEF StoreInit
  <2>2. media \in SUBSET Nat /\ uploads \in Nat /\ storeCalls \in SUBSET Invoked
    BY DEF StoreInit
  <2>3. QED
    BY <1>1, <2>1, <2>2 DEF StoreTypeOK
<1>5. ShownIsStored /\ PublicIsComplete /\ OneCallEach /\ \A c \in storeCalls : CallKnows(c)
  BY <1>1 DEF StoreInit, ShownIsStored, PublicIsComplete, OneCallEach
<1>6. QED
  BY <1>2, <1>3, <1>4, <1>5 DEF StoreKept

\* The row stays: nothing is replaced.
LEMMA RowStays ==
  ASSUME StoreKept, UNCHANGED <<row, media, uploads>>, StoreTypeOK', OneCallEach',
         \A e \in Editors : ShopKnows(e)', \A p \in Profiles : ProfileKnows(p)', \A c \in storeCalls' : CallKnows(c)'
  PROVE  StoreKept' /\ StoreStep
<1>1. ShownIsStored' /\ PublicIsComplete'
  BY DEF StoreKept, ShownIsStored, PublicIsComplete
<1>2. StoreStep
  BY DEF StoreStep, WasShown, WasSeen, StoreKept, StoreTypeOK, StoreRows
<1>3. QED
  BY <1>1, <1>2 DEF StoreKept

\* A new version of the row: what was known of it is of an earlier one.
LEMMA NewVersion ==
  ASSUME row \in StoreRows, row' \in StoreRows, row'.version = row.version + 1, NEW r, r.version \in Nat
  PROVE  /\ KnowsLogo(r) => KnowsLogo(r)'
         /\ KnowsRow(r) => KnowsRow(r)'
  BY DEF KnowsLogo, KnowsRow, StoreRows

LEMMA SameRow ==
  ASSUME row' = row, NEW r
  PROVE  (KnowsLogo(r) <=> KnowsLogo(r)') /\ (KnowsRow(r) <=> KnowsRow(r)')
  BY DEF KnowsLogo, KnowsRow

-----------------------------------------------------------------------------
(* The pages *)

\* What a call says stays true while its page is there.
LEMMA CallStays ==
  ASSUME row' = row, NEW c, CallKnows(c),
         c.by \in Editors => shop'[c.by] # None,
         c.by \in Profiles => profiles'[c.by] # None
  PROVE  CallKnows(c)'
  BY SameRow DEF CallKnows

LEMMA ShopMoves ==
  ASSUME StoreKept, NEW e \in Editors, NEW pg \in ShopPages, shop' = [shop EXCEPT ![e] = pg],
         KnowsRow(pg.saved), pg.review # None => KnowsRow(pg.review),
         UNCHANGED <<row, media, uploads, profiles, storeCalls>>
  PROVE  StoreKept' /\ StoreStep
<1>1. shop' \in [Editors -> ShopPages \cup {None}] /\ shop'[e] = pg
      /\ \A d \in Editors : d # e => shop'[d] = shop[d]
  BY DEF StoreKept, StoreTypeOK
<1>2. StoreTypeOK' /\ OneCallEach'
  BY <1>1 DEF StoreKept, StoreTypeOK, OneCallEach
<1>3. \A d \in Editors : ShopKnows(d)'
  BY <1>1, SameRow DEF StoreKept, ShopKnows
<1>4. \A p \in Profiles : ProfileKnows(p)'
  BY SameRow DEF StoreKept, ProfileKnows
<1>5. \A c \in storeCalls' : CallKnows(c)'
  <2> SUFFICES ASSUME NEW c \in storeCalls PROVE CallKnows(c)'
    OBVIOUS
  <2>1. CallKnows(c)
    BY DEF StoreKept
  <2>2. c.by \in Editors => shop'[c.by] # None
    BY <1>1, <2>1, NotAPage DEF CallKnows
  <2>3. c.by \in Profiles => profiles'[c.by] # None
    BY <2>1 DEF CallKnows
  <2>4. QED
    BY <2>1, <2>2, <2>3, CallStays
<1>6. QED
  BY <1>2, <1>3, <1>4, <1>5, RowStays

LEMMA ProfileMoves ==
  ASSUME StoreKept, NEW p \in Profiles, NEW pg \in ProfilePages, profiles' = [profiles EXCEPT ![p] = pg],
         KnowsLogo(pg.saved),
         UNCHANGED <<row, media, uploads, shop>>,
         \/ storeCalls' = storeCalls
         \/ /\ ~BusyPage(p)
            /\ \E n \in Invoked : n.by = p /\ CallKnows(n)' /\ storeCalls' = storeCalls \cup {n}
  PROVE  StoreKept' /\ StoreStep
<1>1. profiles' \in [Profiles -> ProfilePages \cup {None}] /\ profiles'[p] = pg
      /\ \A q \in Profiles : q # p => profiles'[q] = profiles[q]
  BY DEF StoreKept, StoreTypeOK
<1>2. StoreTypeOK'
  BY <1>1 DEF StoreKept, StoreTypeOK
<1>3. OneCallEach'
  BY DEF StoreKept, OneCallEach, BusyPage, Of
<1>4. \A e \in Editors : ShopKnows(e)'
  BY SameRow DEF StoreKept, ShopKnows
<1>5. \A q \in Profiles : ProfileKnows(q)'
  BY <1>1, SameRow DEF StoreKept, ProfileKnows
<1>6. ASSUME NEW c \in storeCalls
      PROVE  CallKnows(c)'
  <2>1. CallKnows(c)
    BY DEF StoreKept
  <2>2. c.by \in Profiles => profiles'[c.by] # None
    BY <1>1, <2>1, NotAPage DEF CallKnows
  <2>3. c.by \in Editors => shop'[c.by] # None
    BY <2>1 DEF CallKnows
  <2>4. QED
    BY <2>1, <2>2, <2>3, CallStays
<1>7. \A c \in storeCalls' : CallKnows(c)'
  BY <1>6
<1>8. QED
  BY <1>2, <1>3, <1>4, <1>5, <1>7, RowStays

\* The page is left, and nobody waits for its calls.
LEMMA LeaveKeeps ==
  ASSUME StoreKept, (\E e \in Editors : LeaveShop(e)) \/ (\E p \in Profiles : LeaveProfile(p))
  PROVE  StoreKept' /\ StoreStep
<1>1. PICK t \in Editors \cup Profiles :
        /\ storeCalls' = Abandoned(t) /\ UNCHANGED <<row, media, uploads>>
        /\ \/ t \in Editors /\ shop' = [shop EXCEPT ![t] = None] /\ UNCHANGED profiles
           \/ t \in Profiles /\ profiles' = [profiles EXCEPT ![t] = None] /\ UNCHANGED shop
  BY DEF LeaveShop, LeaveProfile
<1>2. /\ shop' \in [Editors -> ShopPages \cup {None}] /\ profiles' \in [Profiles -> ProfilePages \cup {None}]
      /\ \A e \in Editors : shop'[e] \in {shop[e], None} /\ (e # t => shop'[e] = shop[e])
      /\ \A p \in Profiles : profiles'[p] \in {profiles[p], None} /\ (p # t => profiles'[p] = profiles[p])
  BY <1>1 DEF StoreKept, StoreTypeOK
<1>3. ASSUME NEW c \in storeCalls'
      PROVE  /\ c \in Invoked /\ CallKnows(c)'
             /\ c.by # None => c \in storeCalls
  <2>1. CASE c \in storeCalls /\ c.by # t
    <3>1. CallKnows(c) /\ c \in Invoked
      BY <2>1 DEF StoreKept, StoreTypeOK
    <3>2. (c.by \in Editors => shop'[c.by] # None) /\ (c.by \in Profiles => profiles'[c.by] # None)
      BY <1>2, <2>1, <3>1 DEF CallKnows
    <3>3. QED
      BY <1>1, <2>1, <3>1, <3>2, CallStays
  <2>2. CASE \E d \in storeCalls : c = [d EXCEPT !.by = None]
    <3>1. PICK d \in storeCalls : c = [d EXCEPT !.by = None]
      BY <2>2
    <3>2. d \in Invoked /\ CallKnows(d)
      BY DEF StoreKept, StoreTypeOK
    <3>3. c \in Invoked /\ c.by = None /\ c.kind = d.kind /\ c.body = d.body /\ c.base = d.base
      BY <3>1, <3>2 DEF Invoked
    <3>4. CallKnows(c)'
      BY <1>1, <3>2, <3>3, SameRow, NothingTyped DEF CallKnows
    <3>5. QED
      BY <3>3, <3>4
  <2>3. QED
    BY <1>1, <2>1, <2>2 DEF Abandoned, Of
<1>4. StoreTypeOK' /\ OneCallEach'
  BY <1>1, <1>2, <1>3 DEF StoreKept, StoreTypeOK, OneCallEach
<1>5. \A e \in Editors : ShopKnows(e)'
  BY <1>1, <1>2, SameRow DEF StoreKept, ShopKnows
<1>6. \A p \in Profiles : ProfileKnows(p)'
  BY <1>1, <1>2, SameRow DEF StoreKept, ProfileKnows
<1>7. QED
  BY <1>1, <1>3, <1>4, <1>5, <1>6, RowStays

\* The settings page without a call
LEMMA ShopKeeps ==
  ASSUME StoreKept, NEW e \in Editors, OpenShop(e) \/ RemoveItem(e) \/ ReviewShop(e) \/ ShopReviewed(e)
  PROVE  StoreKept' /\ StoreStep
<1>1. /\ row \in StoreRows /\ KnowsRow(row) /\ UNCHANGED <<row, media, uploads, profiles, storeCalls>>
      /\ row.logo \in Images /\ row.merch \in SUBSET Nat
  BY DEF StoreKept, StoreTypeOK, KnowsRow, KnowsLogo, StoreRows, OpenShop, RemoveItem, ReviewShop, ShopReviewed
<1>2. shop[e] # None => shop[e] \in ShopPages /\ KnowsRow(shop[e].saved) /\ (shop[e].review # None => KnowsRow(shop[e].review))
  BY DEF StoreKept, StoreTypeOK, ShopKnows
<1>3. CASE OpenShop(e)
  <2> DEFINE pg == [saved |-> row, logo |-> row.logo, items |-> row.merch, review |-> None]
  <2>1. pg \in ShopPages /\ pg.saved = row /\ pg.review = None
    BY <1>1 DEF ShopPages
  <2>2. shop' = [shop EXCEPT ![e] = pg]
    BY <1>3 DEF OpenShop
  <2> HIDE DEF pg
  <2>3. QED
    BY <1>1, <2>1, <2>2, ShopMoves
<1>4. CASE RemoveItem(e)
  <2>1. PICK image \in shop[e].items : shop' = [shop EXCEPT ![e].items = @ \ {image}]
    BY <1>4 DEF RemoveItem
  <2> DEFINE i == shop[e].items \ {image}
             pg == [shop[e] EXCEPT !.items = i]
  <2>2. shop[e] # None /\ shop' = [shop EXCEPT ![e] = pg]
    BY <1>4, <2>1 DEF RemoveItem, FreeShop
  <2>3. i \in SUBSET Nat
    BY <1>2, <2>2 DEF ShopPages
  <2> HIDE DEF i
  <2>4. pg \in ShopPages /\ pg.saved = shop[e].saved /\ pg.review = shop[e].review
    BY <1>2, <2>2, <2>3 DEF ShopPages
  <2> HIDE DEF pg
  <2>5. QED
    BY <1>1, <1>2, <2>2, <2>4, ShopMoves
<1>5. CASE ReviewShop(e)
  <2> DEFINE pg == [shop[e] EXCEPT !.review = row]
  <2>1. shop[e] # None /\ shop' = [shop EXCEPT ![e] = pg]
    BY <1>5 DEF ReviewShop, FreeShop
  <2>2. pg \in ShopPages /\ pg.saved = shop[e].saved /\ pg.review = row
    BY <1>1, <1>2, <2>1 DEF ShopPages
  <2> HIDE DEF pg
  <2>3. QED
    BY <1>1, <1>2, <2>1, <2>2, ShopMoves
<1>6. CASE ShopReviewed(e)
  <2> DEFINE v == shop[e].review
             pg == [shop[e] EXCEPT !.saved = v, !.review = None]
  <2>1. shop[e] # None /\ v # None /\ shop' = [shop EXCEPT ![e].saved = shop[e].review, ![e].review = None]
    BY <1>6 DEF ShopReviewed
  <2>2. v \in StoreRows /\ KnowsRow(v)
    BY <1>2, <2>1 DEF ShopPages
  <2>3. shop' = [shop EXCEPT ![e] = pg]
    BY <1>2, <2>1 DEF StoreKept, StoreTypeOK
  <2> HIDE DEF v
  <2>4. pg \in ShopPages /\ pg.saved = v /\ pg.review = None
    BY <1>2, <2>1, <2>2 DEF ShopPages
  <2> HIDE DEF pg
  <2>5. QED
    BY <1>1, <2>2, <2>3, <2>4, ShopMoves
<1>7. QED
  BY <1>3, <1>4, <1>5, <1>6

\* A button of the settings page
LEMMA ButtonKeeps ==
  ASSUME StoreKept, NEW e \in Editors, FreeShop(e), NEW kind \in ShopKinds, NEW body \in Bodies,
         kind = "publish" => body = Body(shop[e].saved.logo, shop[e].saved.merch), PressShop(e, kind, body)
  PROVE  StoreKept' /\ StoreStep
<1> DEFINE n == Invoke(e, kind, body, shop[e].saved)
<1>1. shop[e] # None /\ shop[e] \in ShopPages /\ KnowsRow(shop[e].saved) /\ Of(e) = {}
  BY DEF StoreKept, StoreTypeOK, ShopKnows, FreeShop, BusyPage
<1>2. /\ n \in Invoked /\ n.by = e /\ n.kind = kind /\ n.body = body /\ n.base = shop[e].saved
  BY <1>1, InvokeTyped DEF Kinds, Bases, ShopPages
<1>3. storeCalls' = storeCalls \cup {n} /\ UNCHANGED <<row, media, uploads, shop, profiles>>
  BY DEF PressShop
<1> HIDE DEF n
<1>4. CallKnows(n)
  BY <1>1, <1>2, NotAPage DEF CallKnows, ShopKinds
<1>5. StoreTypeOK' /\ OneCallEach'
  BY <1>1, <1>2, <1>3 DEF StoreKept, StoreTypeOK, OneCallEach, Of
<1>6. \A d \in Editors : ShopKnows(d)'
  BY <1>3, SameRow DEF StoreKept, ShopKnows
<1>7. \A p \in Profiles : ProfileKnows(p)'
  BY <1>3, SameRow DEF StoreKept, ProfileKnows
<1>8. ASSUME NEW c \in storeCalls'
      PROVE  CallKnows(c)'
  <2>1. CallKnows(c)
    BY <1>3, <1>4 DEF StoreKept
  <2>2. (c.by \in Editors => shop'[c.by] # None) /\ (c.by \in Profiles => profiles'[c.by] # None)
    BY <1>3, <2>1 DEF CallKnows
  <2>3. QED
    BY <1>3, <2>1, <2>2, CallStays
<1>9. QED
  BY <1>3, <1>5, <1>6, <1>7, <1>8, RowStays

LEMMA ShopCalls ==
  ASSUME StoreKept, NEW e \in Editors,
         SaveForm(e) \/ SaveMerch(e) \/ PublishShop(e) \/ ClearUploads(e) \/ UploadLogo(e) \/ AddItem(e)
  PROVE  StoreKept' /\ StoreStep
<1>1. FreeShop(e) /\ shop[e] \in ShopPages
  BY DEF SaveForm, SaveMerch, PublishShop, ClearUploads, UploadLogo, AddItem, FreeShop, StoreKept, StoreTypeOK
<1>2. /\ Body(shop[e].logo, {}) \in Bodies /\ Body(None, shop[e].items) \in Bodies
      /\ Body(shop[e].logo, shop[e].items) \in Bodies
  BY <1>1 DEF Body, Bodies, ShopPages, Images
<1>3. CASE PublishShop(e)
  <2>1. shop[e].logo = shop[e].saved.logo /\ shop[e].items = shop[e].saved.merch
    BY <1>3 DEF PublishShop, DirtyForm, DirtyMerch
  <2>2. \E k \in {"publish", "unpublish"} : PressShop(e, k, Body(shop[e].logo, shop[e].items))
    BY <1>3 DEF PublishShop
  <2>3. {"publish", "unpublish"} \subseteq ShopKinds
    BY DEF ShopKinds
  <2>4. QED
    BY <1>1, <1>2, <2>1, <2>2, <2>3, ButtonKeeps
<1>4. CASE SaveForm(e) \/ SaveMerch(e) \/ ClearUploads(e) \/ UploadLogo(e) \/ AddItem(e)
  <2>1. PICK k \in {"save", "merch", "clear", "logo", "item"}, b \in Bodies : PressShop(e, k, b)
    BY <1>2, <1>4, NothingTyped DEF SaveForm, SaveMerch, ClearUploads, UploadLogo, AddItem
  <2>2. k \in ShopKinds /\ k # "publish"
    BY DEF ShopKinds
  <2>3. QED
    BY <1>1, <2>1, <2>2, ButtonKeeps
<1>5. QED
  BY <1>3, <1>4

\* The profile's page without an answer
LEMMA IdentityIs ==
  ASSUME NEW r \in StoreRows
  PROVE  Identity(r) \in ProfileRows /\ Identity(r).version = r.version /\ Identity(r).logo = r.logo
  BY DEF Identity, ProfileRows, StoreRows

LEMMA ProfileKeeps ==
  ASSUME StoreKept, NEW p \in Profiles, OpenProfile(p) \/ ChooseFile(p) \/ SubmitProfile(p) \/ KeepDraft(p)
  PROVE  StoreKept' /\ StoreStep
<1>1. /\ row \in StoreRows /\ row.logo \in Images /\ UNCHANGED <<row, media, uploads, shop>>
      /\ row.version \in Nat
  BY DEF StoreKept, StoreTypeOK, StoreRows, OpenProfile, ChooseFile, SubmitProfile, KeepDraft
<1>2. profiles[p] # None => profiles[p] \in ProfilePages /\ KnowsLogo(profiles[p].saved)
  BY DEF StoreKept, StoreTypeOK, ProfileKnows
<1>3. Identity(row) \in ProfileRows /\ KnowsLogo(Identity(row))
  BY <1>1, IdentityIs DEF KnowsLogo
<1>4. CASE OpenProfile(p)
  <2> DEFINE pg == [saved |-> Identity(row), logo |-> row.logo, file |-> FALSE, then |-> "none", conflict |-> FALSE]
  <2>1. pg \in ProfilePages /\ pg.saved = Identity(row)
    BY <1>1, <1>3 DEF ProfilePages
  <2>2. profiles' = [profiles EXCEPT ![p] = pg] /\ storeCalls' = storeCalls
    BY <1>4 DEF OpenProfile
  <2> HIDE DEF pg
  <2>3. QED
    BY <1>1, <1>3, <2>1, <2>2, ProfileMoves
<1>5. CASE ChooseFile(p)
  <2> DEFINE pg == [profiles[p] EXCEPT !.file = TRUE]
  <2>1. profiles[p] # None /\ profiles' = [profiles EXCEPT ![p] = pg] /\ storeCalls' = storeCalls
    BY <1>5 DEF ChooseFile
  <2>2. pg \in ProfilePages /\ pg.saved = profiles[p].saved
    BY <1>2, <2>1 DEF ProfilePages
  <2> HIDE DEF pg
  <2>3. QED
    BY <1>1, <1>2, <2>1, <2>2, ProfileMoves
<1>6. CASE KeepDraft(p)
  <2> DEFINE l == IF ~profiles[p].file /\ profiles[p].logo = profiles[p].saved.logo THEN row.logo ELSE profiles[p].logo
             i == Identity(row)
             pg == [profiles[p] EXCEPT !.saved = i, !.conflict = FALSE, !.logo = l]
  <2>1. profiles[p] # None /\ profiles' = [profiles EXCEPT ![p] = pg] /\ storeCalls' = storeCalls
    BY <1>6 DEF KeepDraft
  <2>2. l \in Images
    BY <1>1, <1>2, <2>1 DEF ProfilePages
  <2> HIDE DEF l, i
  <2>3. pg \in ProfilePages /\ pg.saved = Identity(row)
    BY <1>2, <1>3, <2>1, <2>2 DEF ProfilePages, i
  <2> HIDE DEF pg
  <2>4. QED
    BY <1>1, <1>3, <2>1, <2>3, ProfileMoves
<1>7. CASE SubmitProfile(p)
  <2>1. PICK t \in {"leave", "save", "claim"} : profiles' = [profiles EXCEPT ![p].then = t]
    BY <1>7 DEF SubmitProfile
  <2> DEFINE pg == [profiles[p] EXCEPT !.then = t]
  <2>2. profiles[p] # None /\ profiles' = [profiles EXCEPT ![p] = pg] /\ ~BusyPage(p)
    BY <1>7, <2>1 DEF SubmitProfile
  <2>3. pg \in ProfilePages /\ pg.saved = profiles[p].saved
    BY <1>2, <2>2 DEF ProfilePages
  <2>4. Body(profiles[p].logo, {}) \in Bodies /\ profiles[p].saved \in ProfileRows
    BY <1>2, <2>2 DEF Body, Bodies, ProfilePages
  <2> HIDE DEF pg
  <2>5. PICK n \in Invoked : /\ n.by = p /\ n.kind \in {"file", "profile"}
                             /\ n.kind = "profile" => n.base = profiles[p].saved
                             /\ storeCalls' = storeCalls \cup {n}
    <3>1. CASE profiles[p].file
      <4>1. Invoke(p, "file", Nothing, None) \in Invoked /\ Invoke(p, "file", Nothing, None).by = p
            /\ Invoke(p, "file", Nothing, None).kind = "file"
        BY NothingTyped, InvokeTyped DEF Bases, Kinds, ProfileKinds
      <4>2. QED
        BY <1>7, <3>1, <4>1 DEF SubmitProfile
    <3>2. CASE ~profiles[p].file
      <4> DEFINE b == Body(profiles[p].logo, {})
                 s == profiles[p].saved
                 m == Invoke(p, "profile", b, s)
      <4>1. b \in Bodies /\ s \in ProfileRows /\ storeCalls' = storeCalls \cup {m}
        BY <1>7, <2>4, <3>2 DEF SubmitProfile, SaveProfile
      <4>2. s \in Bases /\ p \in Editors \cup Profiles \cup {None}
        BY <4>1 DEF Bases
      <4>3. "profile" \in Kinds
        BY DEF Kinds, ProfileKinds
      <4> HIDE DEF b, s
      <4>4. m \in Invoked /\ m.by = p /\ m.kind = "profile" /\ m.base = s
        BY <4>1, <4>2, <4>3, InvokeTyped
      <4> HIDE DEF m
      <4>5. QED
        BY <4>1, <4>4 DEF s
    <3>3. QED
      BY <3>1, <3>2
  <2>6. profiles'[p] # None
    BY <2>2, <2>3, NotAPage DEF StoreKept, StoreTypeOK
  <2>7. CallKnows(n)'
    BY <1>1, <1>2, <2>2, <2>4, <2>5, <2>6, SameRow, NotAPage DEF CallKnows, ProfileKinds
  <2>8. QED
    BY <1>1, <1>2, <2>2, <2>3, <2>5, <2>7, ProfileMoves
<1>8. QED
  BY <1>4, <1>5, <1>6, <1>7

-----------------------------------------------------------------------------
(* The answers *)

\* The row is as it was, or the next version of it.
RowMoves == row' \in StoreRows /\ (row' = row \/ row'.version = row.version + 1)

LEMMA KnownStays ==
  ASSUME row \in StoreRows, RowMoves, NEW r
  PROVE  /\ KnowsRow(r) => KnowsRow(r)'
         /\ r \in ProfileRows /\ KnowsLogo(r) => KnowsLogo(r)'
<1>1. (r \in ProfileRows => r.version \in Nat) /\ (r \in StoreRows => r.version \in Nat)
  BY DEF ProfileRows, StoreRows
<1>2. KnowsRow(r) => r \in StoreRows
  BY DEF KnowsRow
<1>3. QED
  BY <1>1, <1>2, NewVersion, SameRow DEF RowMoves

\* An answered call makes way for the next calls of its page.
LEMMA CallsMove ==
  ASSUME StoreKept, RowMoves, NEW c \in storeCalls, NEW new \in SUBSET Invoked,
         storeCalls' = (storeCalls \ {c}) \cup new,
         \A n \in new : CallKnows(n)' /\ n.by \in {c.by, None},
         \A m, n \in new : m.by # None /\ n.by # None => m = n,
         \A e \in Editors : e # c.by => shop'[e] = shop[e],
         \A p \in Profiles : p # c.by => profiles'[p] = profiles[p]
  PROVE  /\ storeCalls' \in SUBSET Invoked /\ OneCallEach'
         /\ \A d \in storeCalls' : CallKnows(d)'
<1>1. storeCalls' \in SUBSET Invoked
  BY DEF StoreKept, StoreTypeOK
<1>2. OneCallEach'
  BY DEF StoreKept, OneCallEach
<1>3. ASSUME NEW d \in storeCalls \ {c}
      PROVE  CallKnows(d)'
  <2>1. CallKnows(d) /\ (d.by # None => d.by # c.by)
    BY DEF StoreKept, OneCallEach
  <2>2. /\ d.by \in Editors => shop'[d.by] # None
        /\ d.by \in Profiles => profiles'[d.by] # None
    BY <2>1, NothingTyped DEF CallKnows
  <2>3. row \in StoreRows
    BY DEF StoreKept, StoreTypeOK
  <2>4. QED
    BY <2>1, <2>2, <2>3, KnownStays DEF CallKnows
<1>4. QED
  BY <1>1, <1>2, <1>3

\* What the step leaves to be shown of the pages and their calls
PagesKept ==
  /\ shop \in [Editors -> ShopPages \cup {None}] /\ profiles \in [Profiles -> ProfilePages \cup {None}]
  /\ storeCalls \in SUBSET Invoked /\ OneCallEach
  /\ \A e \in Editors : ShopKnows(e)
  /\ \A p \in Profiles : ProfileKnows(p)
  /\ \A c \in storeCalls : CallKnows(c)

LEMMA ShopsStay ==
  ASSUME StoreKept, RowMoves, UNCHANGED shop
  PROVE  shop' \in [Editors -> ShopPages \cup {None}] /\ \A e \in Editors : ShopKnows(e)'
<1>1. row \in StoreRows
  BY DEF StoreKept, StoreTypeOK
<1>2. QED
  BY <1>1, KnownStays DEF StoreKept, StoreTypeOK, ShopKnows

LEMMA ProfilesStay ==
  ASSUME StoreKept, RowMoves, NEW p \in Profiles, profiles'[p] = profiles[p]
  PROVE  ProfileKnows(p)'
<1>1. row \in StoreRows
  BY DEF StoreKept, StoreTypeOK
<1>2. profiles[p] # None => profiles[p].saved \in ProfileRows /\ KnowsLogo(profiles[p].saved)
  BY DEF StoreKept, StoreTypeOK, ProfileKnows, ProfilePages
<1>3. QED
  BY <1>1, <1>2, KnownStays DEF ProfileKnows

LEMMA FailKeeps ==
  ASSUME StoreKept, RowMoves, NEW c \in storeCalls, NEW conflict \in BOOLEAN, PageFails(c, conflict)
  PROVE  PagesKept' /\ storeCalls' = storeCalls \ {c}
<1>1. storeCalls' = storeCalls \ {c} /\ UNCHANGED shop /\ CallKnows(c)
  BY DEF PageFails, StoreKept
<1>2. /\ profiles' \in [Profiles -> ProfilePages \cup {None}]
      /\ \A p \in Profiles : p # c.by => profiles'[p] = profiles[p]
      /\ c.by \in Profiles => profiles[c.by] # None /\ profiles'[c.by].saved = profiles[c.by].saved
  <2>1. CASE c.by \notin Profiles
    BY <2>1 DEF PageFails, StoreKept, StoreTypeOK
  <2>2. CASE c.by \in Profiles
    <3> DEFINE pg == [profiles[c.by] EXCEPT !.conflict = conflict, !.then = "none"]
    <3>1. profiles' = [profiles EXCEPT ![c.by] = pg]
      BY <2>2 DEF PageFails
    <3>2. profiles[c.by] # None /\ profiles[c.by] \in ProfilePages
      BY <1>1, <2>2 DEF CallKnows, StoreKept, StoreTypeOK
    <3>3. pg \in ProfilePages /\ pg.saved = profiles[c.by].saved
      BY <3>2 DEF ProfilePages
    <3> HIDE DEF pg
    <3>4. QED
      BY <2>2, <3>1, <3>2, <3>3 DEF StoreKept, StoreTypeOK
  <2>3. QED
    BY <2>1, <2>2
<1>3. \A p \in Profiles : ProfileKnows(p)'
  <2> SUFFICES ASSUME NEW p \in Profiles PROVE ProfileKnows(p)'
    OBVIOUS
  <2>1. CASE p # c.by
    BY <1>2, <2>1, ProfilesStay
  <2>2. CASE p = c.by
    <3>1. profiles[p] # None /\ profiles[p].saved \in ProfileRows /\ KnowsLogo(profiles[p].saved) /\ row \in StoreRows
      BY <1>2, <2>2 DEF StoreKept, StoreTypeOK, ProfileKnows, ProfilePages
    <3>2. QED
      BY <1>2, <2>2, <3>1, KnownStays DEF ProfileKnows
  <2>3. QED
    BY <2>1, <2>2
<1>4. {} \in SUBSET Invoked /\ storeCalls' = (storeCalls \ {c}) \cup {}
  BY <1>1
<1>5. storeCalls' \in SUBSET Invoked /\ OneCallEach' /\ \A d \in storeCalls' : CallKnows(d)'
  BY <1>1, <1>2, <1>4, CallsMove
<1>6. QED
  BY <1>1, <1>2, <1>3, <1>5, ShopsStay DEF PagesKept

LEMMA ShopAnswered ==
  ASSUME StoreKept, RowMoves, NEW c \in storeCalls, NEW r, NEW image, c.by \in Editors,
         c.kind \notin {"logo", "item", "remove"} => r = row',
         c.kind \in {"logo", "item"} => image \in Nat,
         ShopReceives(c, r, image)
  PROVE  PagesKept' /\ storeCalls' = storeCalls \ {c}
<1> DEFINE e == c.by
           old == shop[e]
<1>1. storeCalls' = storeCalls \ {c} /\ UNCHANGED profiles /\ CallKnows(c) /\ row \in StoreRows
  BY DEF ShopReceives, StoreKept, StoreTypeOK
<1>2. /\ old # None /\ old \in ShopPages /\ KnowsRow(old.saved)
      /\ old.review # None => KnowsRow(old.review)
  BY <1>1 DEF CallKnows, StoreKept, StoreTypeOK, ShopKnows
<1> PICK stamped : stamped = row'
  OBVIOUS
<1>3. PICK pg \in ShopPages : /\ shop' = [shop EXCEPT ![e] = pg]
                              /\ pg.review = old.review /\ pg.saved \in {old.saved, stamped}
  <2>1. CASE c.kind = "logo"
    <3> DEFINE pg == [old EXCEPT !.logo = image]
    <3>1. shop' = [shop EXCEPT ![e] = pg]
      BY <2>1 DEF ShopReceives
    <3>2. image \in Images
      BY <2>1 DEF Images
    <3>3. pg \in ShopPages /\ pg.review = old.review /\ pg.saved = old.saved
      BY <1>2, <3>2 DEF ShopPages
    <3> HIDE DEF pg
    <3>4. QED
      BY <3>1, <3>3
  <2>2. CASE c.kind = "item"
    <3> DEFINE i == old.items \cup {image}
               pg == [old EXCEPT !.items = i]
    <3>1. shop' = [shop EXCEPT ![e] = pg]
      BY <2>2 DEF ShopReceives
    <3>2. i \in SUBSET Nat
      BY <1>2, <2>2 DEF ShopPages
    <3> HIDE DEF i
    <3>3. pg \in ShopPages /\ pg.review = old.review /\ pg.saved = old.saved
      BY <1>2, <3>2 DEF ShopPages
    <3> HIDE DEF pg
    <3>4. QED
      BY <3>1, <3>3
  <2>3. CASE c.kind = "merch"
    <3> DEFINE pg == [old EXCEPT !.saved = r]
    <3>1. shop' = [shop EXCEPT ![e] = pg]
      BY <2>3 DEF ShopReceives
    <3>2. r = row' /\ r \in StoreRows
      BY <2>3 DEF RowMoves
    <3>3. pg \in ShopPages /\ pg.review = old.review /\ pg.saved = r
      BY <1>2, <3>2 DEF ShopPages
    <3> HIDE DEF pg
    <3>4. QED
      BY <3>1, <3>2, <3>3
  <2>4. CASE c.kind = "remove"
    BY <1>2, <2>4 DEF ShopReceives
  <2>5. CASE c.kind \notin {"logo", "item", "merch", "remove"}
    <3> DEFINE l == r.logo
               pg == [old EXCEPT !.saved = r, !.logo = l]
    <3>1. shop' = [shop EXCEPT ![e] = pg]
      BY <2>5 DEF ShopReceives
    <3>2. r = row' /\ r \in StoreRows /\ l \in Images
      BY <2>5 DEF RowMoves, StoreRows
    <3> HIDE DEF l
    <3>3. pg \in ShopPages /\ pg.review = old.review /\ pg.saved = r
      BY <1>2, <3>2 DEF ShopPages
    <3> HIDE DEF pg
    <3>4. QED
      BY <3>1, <3>2, <3>3
  <2>6. QED
    BY <2>1, <2>2, <2>3, <2>4, <2>5
<1>4. /\ shop' \in [Editors -> ShopPages \cup {None}] /\ shop'[e] = pg
      /\ \A d \in Editors : d # e => shop'[d] = shop[d]
  BY <1>3 DEF StoreKept, StoreTypeOK
<1>5. KnowsRow(stamped)'
  BY DEF RowMoves, KnowsRow, KnowsLogo, StoreRows
<1>6. \A d \in Editors : ShopKnows(d)'
  <2> SUFFICES ASSUME NEW d \in Editors PROVE ShopKnows(d)'
    OBVIOUS
  <2>1. CASE d = e
    BY <1>1, <1>2, <1>3, <1>4, <1>5, <2>1, KnownStays DEF ShopKnows
  <2>2. CASE d # e
    BY <1>1, <1>4, <2>2, KnownStays DEF ShopKnows, StoreKept
  <2>3. QED
    BY <2>1, <2>2
<1>7. \A p \in Profiles : ProfileKnows(p)'
  BY <1>1, ProfilesStay
<1>8. {} \in SUBSET Invoked /\ storeCalls' = (storeCalls \ {c}) \cup {}
  BY <1>1
<1>9. storeCalls' \in SUBSET Invoked /\ OneCallEach' /\ \A d \in storeCalls' : CallKnows(d)'
  BY <1>1, <1>4, <1>8, CallsMove
<1>10. profiles' \in [Profiles -> ProfilePages \cup {None}]
  BY <1>1 DEF StoreKept, StoreTypeOK
<1>11. QED
  BY <1>1, <1>4, <1>6, <1>7, <1>9, <1>10 DEF PagesKept

\* The profile's page takes an answer as v, and may call again.
Takes(c, v, new) ==
  /\ c.by \in Profiles /\ shop' = shop
  /\ v \in ProfilePages \cup {None} /\ profiles' = [profiles EXCEPT ![c.by] = v]
  /\ v # None => KnowsLogo(v.saved)'
  /\ new \in SUBSET Invoked /\ storeCalls' = (storeCalls \ {c}) \cup new
  /\ \A n \in new : /\ n.kind \in {"profile", "claim", "load", "clear"}
                    /\ n.kind = "profile" => n.base \in ProfileRows /\ KnowsLogo(n.base)'
                    /\ n.by = None \/ (n.by = c.by /\ n.kind \in ProfileKinds /\ v # None)
  /\ \A m, n \in new : m.by # None /\ n.by # None => m = n

LEMMA ProfileTakes ==
  ASSUME StoreKept, RowMoves, NEW c \in storeCalls, NEW v, NEW new, Takes(c, v, new)
  PROVE  PagesKept' /\ storeCalls \ storeCalls' \subseteq {c}
<1>1. /\ profiles' \in [Profiles -> ProfilePages \cup {None}] /\ profiles'[c.by] = v
      /\ \A p \in Profiles : p # c.by => profiles'[p] = profiles[p]
  BY DEF StoreKept, StoreTypeOK, Takes
<1>2. \A p \in Profiles : ProfileKnows(p)'
  BY <1>1, ProfilesStay DEF ProfileKnows, Takes
<1>3. \A n \in new : CallKnows(n)' /\ n.by \in {c.by, None}
  <2> SUFFICES ASSUME NEW n \in new PROVE CallKnows(n)' /\ n.by \in {c.by, None}
    OBVIOUS
  <2>1. /\ n.kind \in {"profile", "claim", "load", "clear"}
        /\ n.kind = "profile" => n.base \in ProfileRows /\ KnowsLogo(n.base)'
        /\ n.by = None \/ (n.by = c.by /\ n.kind \in ProfileKinds /\ v # None)
        /\ c.by \in Profiles
    BY DEF Takes
  <2>2. n.by \notin Editors /\ (n.by \in Profiles => n.kind \in ProfileKinds /\ profiles'[n.by] # None)
    <3>1. c.by \notin Editors
      BY <2>1, NotAPage
    <3>2. CASE n.by = None
      BY <3>2, NothingTyped
    <3>3. CASE n.by = c.by /\ n.kind \in ProfileKinds /\ v # None
      BY <1>1, <3>1, <3>3
    <3>4. QED
      BY <2>1, <3>2, <3>3
  <2>3. QED
    BY <2>1, <2>2 DEF CallKnows
<1>4. storeCalls' \in SUBSET Invoked /\ OneCallEach' /\ \A d \in storeCalls' : CallKnows(d)'
  BY <1>1, <1>3, CallsMove DEF Takes
<1>5. QED
  BY <1>1, <1>2, <1>4, ShopsStay DEF PagesKept, Takes

LEMMA SettledIs ==
  ASSUME NEW p \in Profiles, NEW image
  PROVE  /\ Settled(p, image) \in SUBSET Invoked
         /\ \A n \in Settled(p, image) :
               /\ n.kind \in {"load", "clear"}
               /\ n.by = None \/ (n.by = p /\ n.kind \in ProfileKinds /\ profiles[p].then # "leave")
         /\ \A m, n \in Settled(p, image) : m.by # None /\ n.by # None => m = n
<1> DEFINE a == Invoke(None, "clear", Nothing, None)
           b == Invoke(p, "load", Nothing, None)
<1>1. {"clear", "load"} \subseteq Kinds /\ "load" \in ProfileKinds /\ None \in Bases /\ Nothing \in Bodies
      /\ {None, p} \subseteq Editors \cup Profiles \cup {None} /\ p # None
  BY NothingTyped DEF Kinds, ShopKinds, ProfileKinds, Bases
<1>2. a \in Invoked /\ a.by = None /\ a.kind = "clear"
  BY <1>1, InvokeTyped
<1>3. b \in Invoked /\ b.by = p /\ b.kind = "load"
  BY <1>1, InvokeTyped
<1>4. ASSUME NEW n \in Settled(p, image)
      PROVE  n = a \/ (n = b /\ profiles[p].then # "leave")
  BY DEF Settled
<1> HIDE DEF a, b
<1>5. Settled(p, image) \in SUBSET Invoked
  BY <1>2, <1>3, <1>4
<1>6. \A n \in Settled(p, image) :
               /\ n.kind \in {"load", "clear"}
               /\ n.by = None \/ (n.by = p /\ n.kind \in ProfileKinds /\ profiles[p].then # "leave")
  BY <1>1, <1>2, <1>3, <1>4
<1>7. \A m, n \in Settled(p, image) : m.by # None /\ n.by # None => m = n
  BY <1>2, <1>4
<1>8. QED
  BY <1>5, <1>6, <1>7

LEMMA ProfileAnswered ==
  ASSUME StoreKept, RowMoves, NEW c \in storeCalls, NEW r, NEW image, c.by \in Profiles,
         c.kind # "file" => r = row',
         c.kind = "file" => image \in Nat,
         c.kind = "profile" => row'.logo = c.body.logo,
         ProfileReceives(c, r, image)
  PROVE  PagesKept' /\ storeCalls \ storeCalls' \subseteq {c} /\ c.kind \in ProfileKinds
<1> DEFINE p == c.by
<1> PICK was : was = profiles[p]
  OBVIOUS
<1>1. UNCHANGED shop /\ CallKnows(c) /\ c \in Invoked /\ row \in StoreRows
  BY DEF ProfileReceives, StoreKept, StoreTypeOK
<1>2. /\ was # None /\ was \in ProfilePages /\ KnowsLogo(was.saved) /\ was.saved \in ProfileRows
      /\ c.kind \in ProfileKinds
  BY <1>1 DEF CallKnows, StoreKept, StoreTypeOK, ProfileKnows, ProfilePages
<1>3. KnowsLogo(was.saved)' /\ c.body \in Bodies /\ p \in Editors \cup Profiles \cup {None}
  BY <1>1, <1>2, KnownStays DEF Invoked
<1>4. CASE c.kind = "file"
  <2> PICK v : v = [was EXCEPT !.logo = image, !.file = FALSE]
    OBVIOUS
  <2> PICK m : m = SaveProfile(p, image)
    OBVIOUS
  <2>1. profiles' = [profiles EXCEPT ![p] = v] /\ storeCalls' = (storeCalls \ {c}) \cup {m}
    BY <1>4 DEF ProfileReceives
  <2>2. image \in Images
    BY <1>4 DEF Images
  <2>3. v \in ProfilePages /\ v.saved = was.saved
    BY <1>2, <2>2 DEF ProfilePages
  <2>4. m \in Invoked /\ m.by = p /\ m.kind = "profile" /\ m.base = was.saved
    <3>1. Body(image, {}) \in Bodies
      BY <2>2 DEF Body, Bodies
    <3>2. "profile" \in Kinds /\ was.saved \in Bases
      BY <1>2 DEF Kinds, ProfileKinds, Bases
    <3>3. m = Invoke(p, "profile", Body(image, {}), was.saved)
      BY DEF SaveProfile
    <3>4. QED
      BY <1>3, <3>1, <3>2, <3>3, InvokeTyped
  <2>5. v # None /\ "profile" \in ProfileKinds
    BY <2>3, NotAPage DEF ProfileKinds
  <2> PICK new : new = {m}
    OBVIOUS
  <2>6. /\ new \in SUBSET Invoked
        /\ \A n \in new : /\ n.kind \in {"profile", "claim", "load", "clear"}
                          /\ n.kind = "profile" => n.base \in ProfileRows /\ KnowsLogo(n.base)'
                          /\ n.by = None \/ (n.by = p /\ n.kind \in ProfileKinds /\ v # None)
        /\ \A x, y \in new : x.by # None /\ y.by # None => x = y
    BY <1>2, <1>3, <2>4, <2>5
  <2>7. v \in ProfilePages \cup {None} /\ KnowsLogo(v.saved)' /\ storeCalls' = (storeCalls \ {c}) \cup new
    BY <1>3, <2>1, <2>3
  <2>8. Takes(c, v, new)
    BY <1>1, <2>1, <2>6, <2>7 DEF Takes
  <2>9. QED
    BY <1>2, <2>8, ProfileTakes
<1>5. CASE c.kind = "profile"
  <2>1. r = row' /\ r \in StoreRows /\ r.version \in Nat /\ r.logo = c.body.logo /\ c.body.logo \in Images
    BY <1>3, <1>5 DEF RowMoves, StoreRows, Bodies
  <2> PICK l : l = c.body.logo
    OBVIOUS
  <2> PICK n : n = r.version
    OBVIOUS
  <2> PICK s : s = [was.saved EXCEPT !.version = n, !.logo = l]
    OBVIOUS
  <2>2. s \in ProfileRows /\ s.version = row'.version /\ s.logo = row'.logo
    BY <1>2, <2>1 DEF ProfileRows
  <2>3. KnowsLogo(s)'
    BY <2>1, <2>2 DEF KnowsLogo
  <2> PICK stays : stays = [was EXCEPT !.saved = s]
    OBVIOUS
  <2>4. stays \in ProfilePages /\ stays.saved = s
    BY <1>2, <2>2 DEF ProfilePages
  <2>5. stays = [was EXCEPT !.saved.version = n, !.saved.logo = l]
    BY <1>2 DEF ProfilePages, ProfileRows
  <2> PICK v : v = IF was.then = "leave" THEN None ELSE stays
    OBVIOUS
  <2> PICK new : new = IF was.then = "claim" THEN {Invoke(p, "claim", c.body, None)} ELSE Settled(p, l)
    OBVIOUS
  <2>6. profiles' = [profiles EXCEPT ![p] = v] /\ storeCalls' = (storeCalls \ {c}) \cup new
    BY <1>5, <2>5 DEF ProfileReceives
  <2>7. v \in ProfilePages \cup {None} /\ (v # None => KnowsLogo(v.saved)') /\ (was.then # "leave" => v # None)
    BY <2>3, <2>4, NotAPage
  <2>8. /\ new \in SUBSET Invoked
        /\ \A x \in new : /\ x.kind \in {"claim", "load", "clear"}
                          /\ x.by = None \/ (x.by = p /\ x.kind \in ProfileKinds /\ v # None)
        /\ \A x, y \in new : x.by # None /\ y.by # None => x = y
    <3>1. CASE was.then = "claim"
      <4>1. "claim" \in Kinds /\ "claim" \in ProfileKinds /\ None \in Bases
        BY DEF Kinds, ProfileKinds, Bases
      <4> PICK m : m = Invoke(p, "claim", c.body, None)
        OBVIOUS
      <4>2. m \in Invoked /\ m.by = p /\ m.kind = "claim"
        BY <1>3, <4>1, InvokeTyped
      <4>3. new = {m} /\ v # None
        BY <2>7, <3>1
      <4>4. QED
        BY <4>1, <4>2, <4>3
    <3>2. CASE was.then # "claim"
      BY <2>7, <3>2, SettledIs
    <3>3. QED
      BY <3>1, <3>2
  <2>9. Takes(c, v, new)
    BY <1>1, <2>6, <2>7, <2>8 DEF Takes
  <2>10. QED
    BY <1>2, <2>9, ProfileTakes
<1>6. CASE c.kind = "claim"
  <2> PICK s : s = [was.saved EXCEPT !.claimed = TRUE]
    OBVIOUS
  <2>1. s \in ProfileRows /\ s.version = was.saved.version /\ s.logo = was.saved.logo
    BY <1>2 DEF ProfileRows
  <2>2. KnowsLogo(s)'
    BY <1>3, <2>1 DEF KnowsLogo
  <2> PICK v : v = [was EXCEPT !.saved = s]
    OBVIOUS
  <2>3. v \in ProfilePages /\ v.saved = s
    BY <1>2, <2>1 DEF ProfilePages
  <2>4. profiles' = [profiles EXCEPT ![p] = v]
    BY <1>2, <1>6 DEF ProfileReceives, ProfilePages, ProfileRows
  <2> PICK new : new = Settled(p, c.body.logo)
    OBVIOUS
  <2>5. storeCalls' = (storeCalls \ {c}) \cup new
    BY <1>6 DEF ProfileReceives
  <2>6. v # None /\ KnowsLogo(v.saved)'
    BY <2>2, <2>3, NotAPage
  <2>7. /\ new \in SUBSET Invoked
        /\ \A n \in new : /\ n.kind \in {"load", "clear"}
                          /\ n.by = None \/ (n.by = p /\ n.kind \in ProfileKinds /\ v # None)
        /\ \A x, y \in new : x.by # None /\ y.by # None => x = y
    BY <2>6, SettledIs
  <2>8. Takes(c, v, new)
    BY <1>1, <2>3, <2>4, <2>5, <2>6, <2>7 DEF Takes
  <2>9. QED
    BY <1>2, <2>8, ProfileTakes
<1>7. CASE c.kind = "load"
  <2>1. r = row' /\ r \in StoreRows /\ r.logo \in Images
    BY <1>7 DEF RowMoves, StoreRows
  <2> PICK s : s = Identity(r)
    OBVIOUS
  <2>2. s \in ProfileRows /\ s.version = row'.version /\ s.logo = row'.logo /\ row'.version \in Nat
    BY <2>1, IdentityIs DEF StoreRows
  <2>3. KnowsLogo(s)'
    BY <2>2 DEF KnowsLogo
  <2> PICK l : l = r.logo
    OBVIOUS
  <2> PICK v : v = [was EXCEPT !.saved = s, !.logo = l, !.then = "none"]
    OBVIOUS
  <2>4. v \in ProfilePages /\ v.saved = s
    BY <1>2, <2>1, <2>2 DEF ProfilePages
  <2>5. profiles' = [profiles EXCEPT ![p] = v] /\ storeCalls' = (storeCalls \ {c}) \cup {}
    BY <1>7 DEF ProfileReceives
  <2>6. KnowsLogo(v.saved)' /\ {} \in SUBSET Invoked
    BY <2>3, <2>4
  <2>7. Takes(c, v, {})
    BY <1>1, <2>4, <2>5, <2>6 DEF Takes
  <2>8. QED
    BY <1>2, <2>7, ProfileTakes
<1>8. QED
  BY <1>4, <1>5, <1>6, <1>7 DEF ProfileReceives

\* Every answer, whether it comes or is lost
LEMMA ReplyKeeps ==
  ASSUME StoreKept, RowMoves, NEW c \in storeCalls, NEW r, NEW image,
         c.kind \notin {"logo", "item", "file", "remove"} => r = row',
         c.kind \in {"logo", "item", "file"} => image \in Nat,
         c.kind = "profile" => row'.logo = c.body.logo,
         Reply(c, r, image)
  PROVE  /\ PagesKept' /\ storeCalls \ storeCalls' \subseteq {c}
         /\ c.kind \in ShopKinds => c \notin storeCalls'
<1>1. CallKnows(c)
  BY DEF StoreKept
<1>2. CASE PageFails(c, FALSE)
  BY <1>2, FailKeeps
<1>3. CASE c.by \in Editors /\ ShopReceives(c, r, image)
  <2>1. c.kind \in ShopKinds /\ "file" \notin ShopKinds
    BY <1>1, <1>3 DEF CallKnows, ShopKinds
  <2>2. c.kind # "file"
    BY <2>1
  <2>3. QED
    BY <1>3, <2>2, ShopAnswered
<1>4. CASE c.by \in Profiles /\ ProfileReceives(c, r, image)
  <2>1. c.kind \in ProfileKinds
    BY <1>1, <1>4 DEF CallKnows
  <2>2. c.kind \notin ShopKinds /\ (c.kind # "file" => r = row') /\ (c.kind = "file" => image \in Nat)
    BY <2>1 DEF ProfileKinds, ShopKinds
  <2>3. QED
    BY <1>4, <2>2, ProfileAnswered
<1>5. QED
  BY <1>2, <1>3, <1>4 DEF Reply

\* The images and the row after a step, and what it replaced
LEMMA StoreMoves ==
  ASSUME StoreKept, RowMoves, media' \in SUBSET Nat, uploads' \in Nat, PagesKept',
         ShownIsStored', PublicIsComplete', StoreStep
  PROVE  StoreKept' /\ StoreStep
BY DEF StoreKept, StoreTypeOK, RowMoves, PagesKept

\* The row is only read, and no image that it refers to goes.
LEMMA ReadsKeep ==
  ASSUME StoreKept, NEW c \in storeCalls, LoadRow(c) \/ Refuse(c) \/ StoreUpload(c) \/ RemoveUnused(c)
  PROVE  StoreKept' /\ StoreStep
<1>1. row' = row /\ row \in StoreRows /\ media \in SUBSET Nat /\ uploads \in Nat /\ c \in Invoked /\ CallKnows(c)
  BY DEF LoadRow, Refuse, StoreUpload, RemoveUnused, StoreKept, StoreTypeOK
<1>2. RowMoves /\ StoreStep
  BY <1>1 DEF RowMoves, StoreStep, WasShown, WasSeen, StoreRows
<1>3. PublicIsComplete'
  BY <1>1 DEF PublicIsComplete, StoreKept
<1>4. CASE LoadRow(c)
  <2>1. c.kind = "load" /\ Reply(c, row, None) /\ media' = media /\ uploads' = uploads
    BY <1>4 DEF LoadRow
  <2>2. PagesKept'
    BY <1>1, <1>2, <2>1, ReplyKeeps
  <2>3. ShownIsStored'
    BY <1>1, <2>1 DEF ShownIsStored, StoreKept
  <2>4. QED
    BY <1>1, <1>2, <1>3, <2>1, <2>2, <2>3, StoreMoves
<1>5. CASE Refuse(c)
  <2>1. \E conflict \in BOOLEAN : PageFails(c, conflict)
    BY <1>5 DEF Refuse
  <2>2. PagesKept' /\ media' = media /\ uploads' = uploads
    BY <1>2, <1>5, <2>1, FailKeeps DEF Refuse
  <2>3. ShownIsStored'
    BY <1>1, <2>2 DEF ShownIsStored, StoreKept
  <2>4. QED
    BY <1>1, <1>2, <1>3, <2>2, <2>3, StoreMoves
<1>6. CASE StoreUpload(c)
  <2> PICK image : image = uploads'
    OBVIOUS
  <2>1. c.kind \in {"logo", "item", "file"} /\ image = uploads + 1 /\ media' = media \cup {image}
        /\ Reply(c, None, image)
    BY <1>6 DEF StoreUpload
  <2>2. image \in Nat /\ media' \in SUBSET Nat
    BY <1>1, <2>1
  <2>3. PagesKept'
    BY <1>2, <2>1, <2>2, ReplyKeeps
  <2>4. ShownIsStored'
    BY <1>1, <2>1 DEF ShownIsStored, StoreKept
  <2>5. QED
    BY <1>1, <1>2, <1>3, <2>2, <2>3, <2>4, StoreMoves
<1>7. CASE RemoveUnused(c)
  <2>1. c.kind = "remove" /\ c.body.items \cap (row.merch \cup {row.logo}) = {} /\ media' = media \ c.body.items
        /\ Reply(c, None, None) /\ uploads' = uploads
    BY <1>7 DEF RemoveUnused, Referred
  <2>2. PagesKept'
    BY <1>2, <2>1, ReplyKeeps
  <2>3. ShownIsStored'
    BY <1>1, <2>1 DEF ShownIsStored, StoreKept
  <2>4. media' \in SUBSET Nat
    BY <1>1, <2>1
  <2>5. QED
    BY <1>1, <1>2, <1>3, <2>1, <2>2, <2>3, <2>4, StoreMoves
<1>8. QED
  BY <1>4, <1>5, <1>6, <1>7

\* The first half of a cleanup
LEMMA UnusedKeeps ==
  ASSUME StoreKept, NEW c \in storeCalls, ReadUnused(c)
  PROVE  StoreKept' /\ StoreStep
<1>1. /\ UNCHANGED <<row, media, uploads, shop, profiles>> /\ row \in StoreRows /\ media \in SUBSET Nat
      /\ c \in Invoked /\ CallKnows(c) /\ c.kind = "clear"
  BY DEF ReadUnused, StoreKept, StoreTypeOK
<1> PICK b : b = Body(None, media \ Referred)
  OBVIOUS
<1> PICK n : n = [c EXCEPT !.kind = "remove", !.body = b]
  OBVIOUS
<1>2. b \in Bodies
  BY <1>1 DEF Body, Bodies, Images
<1>3. n \in Invoked /\ n.by = c.by /\ n.kind = "remove"
  <2>1. "remove" \in Kinds
    BY DEF Kinds, ShopKinds
  <2>2. QED
    BY <1>1, <1>2, <2>1 DEF Invoked
<1>4. c.by \notin Profiles /\ (c.by \in Editors => shop[c.by] # None)
  BY <1>1 DEF CallKnows, ProfileKinds
<1>5. CallKnows(n)'
  BY <1>1, <1>3, <1>4 DEF CallKnows, ShopKinds
<1> PICK new : new = {n}
  OBVIOUS
<1>6. storeCalls' = (storeCalls \ {c}) \cup new /\ RowMoves
  BY <1>1 DEF ReadUnused, RowMoves
<1>7. /\ new \in SUBSET Invoked
      /\ \A x \in new : CallKnows(x)' /\ x.by \in {c.by, None}
      /\ \A x, y \in new : x.by # None /\ y.by # None => x = y
  BY <1>3, <1>5
<1>8. storeCalls' \in SUBSET Invoked /\ OneCallEach' /\ \A d \in storeCalls' : CallKnows(d)'
  BY <1>1, <1>6, <1>7, CallsMove
<1>9. \A e \in Editors : ShopKnows(e)'
  BY <1>1, <1>6, ShopsStay
<1>10. \A p \in Profiles : ProfileKnows(p)'
  BY <1>1, <1>6, ProfilesStay
<1>11. StoreTypeOK'
  BY <1>1, <1>8 DEF StoreKept, StoreTypeOK
<1>12. QED
  BY <1>1, <1>8, <1>9, <1>10, <1>11, RowStays

\* A write: from the version that its page knew, so what it replaces was seen,
\* and what it publishes is what was shown.
RowWritten(c, n) == [RowAfter(c) EXCEPT !.version = n]

LEMMA RowAfterIs ==
  ASSUME StoreKept, NEW c \in storeCalls, Accepts(c), ~(c.kind = "claim" /\ row.claimed),
         NEW n \in Nat, NEW r, r = RowWritten(c, n)
  PROVE  /\ r \in StoreRows /\ r.version = n
         /\ (r.logo # None => r.logo \in media) /\ r.merch \subseteq media
         /\ r.public => r.logo # None /\ r.claimed
         /\ r.public /\ ~row.public => c.kind = "publish"
         /\ c.kind = "publish" => r.logo = row.logo /\ r.merch = row.merch
         /\ c.kind = "profile" => r.logo = c.body.logo
<1>1. /\ row \in StoreRows /\ c \in Invoked /\ media \in SUBSET Nat
      /\ (row.logo # None => row.logo \in media) /\ row.merch \subseteq media
      /\ row.public => row.logo # None /\ row.claimed
  BY DEF StoreKept, StoreTypeOK, ShownIsStored, PublicIsComplete
<1> PICK l : l = c.body.logo
  OBVIOUS
<1> PICK i : i = c.body.items
  OBVIOUS
<1>2. l \in Images /\ i \in SUBSET Nat
  BY <1>1 DEF Invoked, Bodies
<1>3. CASE c.kind \in {"save", "profile"}
  <2>1. r = [row EXCEPT !.logo = l, !.version = n]
    BY <1>3 DEF RowAfter, RowWritten
  <2>2. l \in media \cup {None} /\ ~(row.public /\ l = None)
    BY <1>3 DEF Accepts, Known
  <2>3. r \in StoreRows /\ r.version = n /\ r.logo = l /\ r.merch = row.merch /\ r.public = row.public /\ r.claimed = row.claimed
    BY <1>1, <1>2, <2>1 DEF StoreRows
  <2>4. QED
    BY <1>1, <1>3, <2>2, <2>3
<1>4. CASE c.kind = "merch"
  <2>1. r = [row EXCEPT !.merch = i, !.version = n]
    BY <1>4 DEF RowAfter, RowWritten
  <2>2. i \subseteq media
    BY <1>4 DEF Accepts
  <2>3. r \in StoreRows /\ r.version = n /\ r.logo = row.logo /\ r.merch = i /\ r.public = row.public /\ r.claimed = row.claimed
    BY <1>1, <1>2, <2>1 DEF StoreRows
  <2>4. QED
    BY <1>1, <1>4, <2>2, <2>3
<1>5. CASE c.kind = "publish"
  <2>1. r = [row EXCEPT !.public = TRUE, !.version = n]
    BY <1>5 DEF RowAfter, RowWritten
  <2>2. row.claimed /\ row.logo # None
    BY <1>5 DEF Accepts
  <2>3. r \in StoreRows /\ r.version = n /\ r.logo = row.logo /\ r.merch = row.merch /\ r.public = TRUE /\ r.claimed = row.claimed
    BY <1>1, <2>1 DEF StoreRows
  <2>4. QED
    BY <1>1, <1>5, <2>2, <2>3
<1>6. CASE c.kind = "unpublish"
  <2>1. r = [row EXCEPT !.public = FALSE, !.version = n]
    BY <1>6 DEF RowAfter, RowWritten
  <2>2. r \in StoreRows /\ r.version = n /\ r.logo = row.logo /\ r.merch = row.merch /\ r.public = FALSE /\ r.claimed = row.claimed
    BY <1>1, <2>1 DEF StoreRows
  <2>3. QED
    BY <1>1, <1>6, <2>2
<1>7. CASE c.kind = "claim"
  <2> PICK k : k = IF row.logo = None THEN l ELSE row.logo
    OBVIOUS
  <2>1. r = [row EXCEPT !.claimed = TRUE, !.logo = k, !.version = n]
    BY <1>7 DEF RowAfter, RowWritten
  <2>2. k \in Images /\ (row.logo # None => k = row.logo)
    BY <1>1, <1>2 DEF StoreRows
  <2>3. r \in StoreRows /\ r.version = n /\ r.logo = k /\ r.merch = row.merch /\ r.public = row.public /\ r.claimed = TRUE
    BY <1>1, <2>1, <2>2 DEF StoreRows
  <2>4. row.claimed \/ l \in media \cup {None}
    BY <1>7 DEF Accepts, Known
  <2>5. QED
    BY <1>1, <1>7, <2>2, <2>3, <2>4
<1>8. QED
  BY <1>3, <1>4, <1>5, <1>6, <1>7 DEF Accepts

LEMMA WriteKeeps ==
  ASSUME StoreKept, NEW c \in storeCalls, WriteRow(c)
  PROVE  StoreKept' /\ StoreStep
<1>1. /\ row \in StoreRows /\ row.version \in Nat /\ media \in SUBSET Nat /\ uploads \in Nat /\ CallKnows(c)
      /\ ShownIsStored /\ PublicIsComplete
  BY DEF StoreKept, StoreTypeOK, StoreRows
<1>2. /\ c.kind \in {"save", "profile", "merch", "publish", "unpublish", "claim"} /\ Accepts(c)
      /\ media' = media /\ uploads' = uploads
  BY DEF WriteRow
<1> PICK r : r = row'
  OBVIOUS
<1>3. Reply(c, r, None)
  BY DEF WriteRow
<1>4. CASE c.kind = "claim" /\ row.claimed
  <2>1. row' = row
    BY <1>4 DEF WriteRow
  <2>2. RowMoves /\ StoreStep
    BY <1>1, <2>1 DEF RowMoves, StoreStep, WasShown, WasSeen, StoreRows
  <2>3. PagesKept'
    BY <1>3, <1>4, <2>2, ReplyKeeps
  <2>4. ShownIsStored' /\ PublicIsComplete'
    BY <1>1, <1>2, <2>1 DEF ShownIsStored, PublicIsComplete
  <2>5. QED
    BY <1>1, <1>2, <2>2, <2>3, <2>4, StoreMoves
<1>5. CASE ~(c.kind = "claim" /\ row.claimed)
  <2> PICK n : n = row.version + 1
    OBVIOUS
  <2>1. n \in Nat
    BY <1>1
  <2>2. r = RowWritten(c, n)
    <3>1. row' = [RowAfter(c) EXCEPT !.version = row.version + 1]
      BY <1>5 DEF WriteRow
    <3>2. QED
      BY <3>1 DEF RowWritten
  <2>3. /\ r \in StoreRows /\ r.version = n
        /\ (r.logo # None => r.logo \in media) /\ r.merch \subseteq media
        /\ r.public => r.logo # None /\ r.claimed
        /\ r.public /\ ~row.public => c.kind = "publish"
        /\ c.kind = "publish" => r.logo = row.logo /\ r.merch = row.merch
        /\ c.kind = "profile" => r.logo = c.body.logo
    BY <1>2, <1>5, <2>1, <2>2, RowAfterIs
  <2>4. RowMoves
    BY <2>3 DEF RowMoves
  <2>5. PagesKept' /\ storeCalls \ storeCalls' \subseteq {c} /\ (c.kind \in ShopKinds => c \notin storeCalls')
    BY <1>2, <1>3, <2>3, <2>4, ReplyKeeps
  <2>6. ShownIsStored' /\ PublicIsComplete'
    BY <1>2, <2>3 DEF ShownIsStored, PublicIsComplete
  <2>7. c.kind \in {"save", "profile", "merch", "publish"} => row.version = c.base.version
    BY <1>2 DEF Accepts, SameStamp
  <2>8. WasSeen
    <3>1. c.kind \in {"save", "profile"} => row.logo = c.base.logo
      BY <1>1, <2>7 DEF CallKnows, KnowsRow, KnowsLogo
    <3>2. c.kind = "merch" => row.merch = c.base.merch
      BY <1>1, <2>7 DEF CallKnows, KnowsRow
    <3>3. QED
      BY <2>5, <3>1, <3>2 DEF WasSeen
  <2>9. WasShown
    <3> SUFFICES ASSUME row'.public, ~row.public PROVE WasShown
      BY DEF WasShown
    <3>1. c.kind = "publish"
      BY <2>3
    <3>2. c \in storeCalls \ storeCalls'
      BY <2>5, <3>1 DEF ShopKinds
    <3>3. c.body = Body(row.logo, row.merch)
      BY <1>1, <2>7, <3>1 DEF CallKnows, KnowsRow, KnowsLogo
    <3>4. QED
      BY <3>1, <3>2, <3>3 DEF WasShown
  <2>10. QED
    BY <1>1, <1>2, <2>4, <2>5, <2>6, <2>8, <2>9, StoreMoves DEF StoreStep
<1>6. QED
  BY <1>4, <1>5

LEMMA StoreIdle ==
  ASSUME StoreKept, UNCHANGED storeVars
  PROVE  StoreKept' /\ StoreStep
<1>1. StoreTypeOK' /\ OneCallEach'
  BY DEF StoreKept, StoreTypeOK, OneCallEach, storeVars
<1>2. \A e \in Editors : ShopKnows(e)'
  BY SameRow DEF StoreKept, ShopKnows, storeVars
<1>3. \A p \in Profiles : ProfileKnows(p)'
  BY SameRow DEF StoreKept, ProfileKnows, storeVars
<1>4. \A c \in storeCalls' : CallKnows(c)'
  BY CallStays DEF StoreKept, CallKnows, storeVars
<1>5. QED
  BY <1>1, <1>2, <1>3, <1>4, RowStays DEF storeVars

LEMMA StoreMakesSteps ==
  ASSUME StoreKept, [StorefrontNext]_storeVars
  PROVE  StoreKept' /\ StoreStep
<1>1. CASE UNCHANGED storeVars
  BY <1>1, StoreIdle
<1>2. ASSUME NEW e \in Editors,
             \/ OpenShop(e) \/ LeaveShop(e) \/ SaveForm(e) \/ SaveMerch(e) \/ PublishShop(e)
             \/ ClearUploads(e) \/ UploadLogo(e) \/ AddItem(e) \/ RemoveItem(e)
             \/ ReviewShop(e) \/ ShopReviewed(e)
      PROVE  StoreKept' /\ StoreStep
  BY <1>2, LeaveKeeps, ShopKeeps, ShopCalls
<1>3. ASSUME NEW p \in Profiles,
             OpenProfile(p) \/ LeaveProfile(p) \/ ChooseFile(p) \/ SubmitProfile(p) \/ KeepDraft(p)
      PROVE  StoreKept' /\ StoreStep
  BY <1>3, LeaveKeeps, ProfileKeeps
<1>4. ASSUME NEW c \in storeCalls,
             \/ WriteRow(c) \/ LoadRow(c) \/ Refuse(c) \/ StoreUpload(c) \/ ReadUnused(c) \/ RemoveUnused(c)
      PROVE  StoreKept' /\ StoreStep
  BY <1>4, WriteKeeps, ReadsKeep, UnusedKeeps
<1>5. QED
  BY <1>1, <1>2, <1>3, <1>4 DEF StorefrontNext

\* What the row refers to stays, what is public is complete and was shown, and
\* only what a page had seen is replaced.
THEOREM StorefrontIsKept == StorefrontSpec => StorefrontPromise
<1>1. StoreInit => StoreKept
  BY StoreStarts
<1>2. StoreKept /\ [StorefrontNext]_storeVars => StoreKept'
  BY StoreMakesSteps
<1>3. StoreKept /\ [StorefrontNext]_storeVars => [WasShown]_storeVars /\ [WasSeen]_storeVars
  BY StoreMakesSteps DEF StoreStep
<1>4. StoreKept => ShownIsStored /\ PublicIsComplete
  BY DEF StoreKept
<1>5. PublishedIsWhatWasShown <=> [][WasShown]_storeVars
  BY PTL DEF PublishedIsWhatWasShown, WasShown
<1>6. OnlySeenIsReplaced <=> [][WasSeen]_storeVars
  BY PTL DEF OnlySeenIsReplaced, WasSeen
<1>7. QED
  BY <1>1, <1>2, <1>3, <1>4, <1>5, <1>6, PTL DEF StorefrontSpec, StorefrontPromise

-----------------------------------------------------------------------------
(* The event editor *)

Contents == [text : Texts, answers : Answers \cup {None}]
Reviews  == [text : Texts, answers : Answers \cup {None}, tiers : Nat]
Events   == [text : Texts, answers : Answers \cup {None}, tiers : Nat, revision : 1 .. MaxEdition,
             accepted : Nat, status : {"draft", "published"}]
EditorWrites   == [kind : {"text", "answers", "accept", "publish"}, token : Events, text : Texts \cup {None},
             answers : Answers \cup {None}, agreed : Contents \cup {None}, shown : Reviews \cup {None},
             before : Contents \cup {None}, answer : {"none", "ok", "conflict", "refused", "unknown"},
             context : Events \cup {None}]
Chains   == {<<>>, <<"answers">>, <<"answers", "accept">>, <<"accept">>}
Doings   == [action : {"save", "requirements", "agreement", "accept"}, left : Chains, revised : BOOLEAN,
             current : BOOLEAN, agreed : Contents \cup {None}, shown : Contents]
Forms    == [open : {TRUE}, flow : {"creation", "plain"}, step : {3, 4, 5}, base : Events, text : Texts,
             answers : Answers \cup {None}, box : BOOLEAN, boxWas : BOOLEAN, invalidated : BOOLEAN,
             agreed : Contents \cup {None}, write : {"ready", "conflict", "unknown"}, doing : Doings \cup {None}]
Previews == [open : {TRUE}, base : Events, tiers : Nat, confirming : BOOLEAN,
             publish : {"ready", "conflict", "unknown"}, doing : {"none", "context", "tiers", "publish"},
             fresh : Events \cup {None}]
Closed   == [open |-> FALSE]
LoadingPage  == [open |-> TRUE, base |-> None]

\* A write names the version that its page had: what was displayed was of that
\* version, and what its policies were accepted for is that version, unless
\* they were accepted before.
WriteFits(c) ==
    /\ c.kind = "text" => c.text \in Texts /\ c.before.text = c.token.text
    /\ c.kind = "answers" => c.before.answers = c.token.answers
    /\ c.kind = "accept" => c.agreed = Content(c.token) \/ ~NeedsAcceptance(c.token)
    /\ c.kind = "publish" => /\ c.shown \in Reviews
                             /\ c.shown.text = c.token.text /\ c.shown.answers = c.token.answers
                             /\ c.shown.tiers = c.token.tiers \/ event.tiers > c.token.tiers

\* What is answered: the version that the write made of the one it named.
AnswerFits(c) ==
    c.answer = "ok" =>
    /\ c.context \in Events
    /\ c.kind = "text" => /\ c.context.text = c.text /\ c.context.answers = c.token.answers
                          /\ c.text = c.token.text => c.context = c.token
    /\ c.kind = "answers" => /\ c.context.text = c.token.text /\ c.context.answers = c.answers
                             /\ c.answers = c.token.answers => c.context = c.token

\* An agreement is about what the page has, or the version is accepted as it is.
Stands(p, a) == a = [text |-> p.base.text, answers |-> p.answers]
                \/ (~NeedsAcceptance(p.base) /\ p.answers = p.base.answers)
Agreeing(p) == p.flow = "creation" \/ p.step = 5

FormRests(p)  == p.step # 3 => p.text = p.base.text
FormAgrees(p) == p.doing = None /\ p.write = "ready" /\ p.box /\ Agreeing(p) => Stands(p, p.agreed)

\* The write under way and what is left of the chain
TextFits(p, c) ==
    LET d == p.doing IN
    c.kind = "text" =>
    /\ d.left \in {<<>>, <<"answers">>, <<"answers", "accept">>} /\ d.shown.answers = p.base.answers
    /\ ~d.revised \/ p.step # 3 => c.text = p.base.text
    /\ d.left = <<>> => d.action \in {"save", "requirements"} /\ p.step = 3
    /\ d.left = <<>> /\ p.flow = "creation" /\ p.box /\ ~d.revised => Stands(p, p.agreed)
    /\ d.left = <<"answers">> => d.action = "save"
    /\ d.left = <<"answers", "accept">> => d.action = "accept"
    /\ d.current /\ Agreeing(p) => p.answers = p.base.answers
AnswersFit(p, c) ==
    LET d == p.doing IN
    c.kind = "answers" =>
    /\ d.left \in {<<>>, <<"accept">>}
    /\ d.left = <<>> => d.action \in {"save", "agreement"}
    /\ d.left = <<"accept">> => d.action = "accept"
    /\ d.current /\ (Agreeing(p) \/ d.action = "agreement") => c.answers = p.base.answers
AcceptFits(p, c) ==
    LET d == p.doing IN
    /\ c.kind = "accept" => d.left = <<>> /\ d.action = "accept"
    /\ d.action = "accept" =>
          /\ p.step # 3 /\ (p.flow = "plain" => p.step = 5) /\ ~d.current
          /\ c.kind \in {"text", "answers"} => Stands(p, d.agreed)
          /\ c.kind = "answers" => c.answers = p.answers
ChainFits(p, c) ==
    p.doing # None =>
    /\ c \in EditorWrites /\ c.kind # "publish" /\ c.token = p.base /\ c.before = p.doing.shown
    /\ p.doing.current => ~NeedsAcceptance(p.base) /\ ~p.doing.revised
    /\ p.doing.action = "agreement" => p.step # 3
    /\ WriteFits(c) /\ AnswerFits(c)
    /\ TextFits(p, c) /\ AnswersFit(p, c) /\ AcceptFits(p, c)

FormFits(p, c) == p = Closed \/ (p \in Forms /\ FormRests(p) /\ FormAgrees(p) /\ ChainFits(p, c))

EventFits ==
    /\ event \in Events /\ event.accepted <= event.revision
    /\ consents \in [1 .. MaxEdition -> Contents \cup {None}]
    /\ AcceptedIsWhatWasTicked

PreviewFits(v) ==
    /\ v \in Previews \cup {Closed, LoadingPage}
    /\ v \in Previews /\ v.doing = "tiers" => v.fresh \in Events /\ v.fresh.tiers <= event.tiers

EditorKept ==
    /\ EventFits
    /\ call # None => call \in EditorWrites /\ WriteFits(call)
    /\ \A c \in strays : c \in EditorWrites /\ WriteFits(c)
    /\ FormFits(editor, call) /\ PreviewFits(preview)
    /\ editor = Closed \/ preview = Closed

\* What a step may do: see PublishedIsWhatWasReviewed and NothingUnseenIsReplaced.
PublishesReviewed == event.status # event'.status => reviewed' = Reviewed(event', event'.tiers)
ReplacesSeen ==
    \A c \in strays \cup ({call} \ {None}) :
       /\ (c.kind = "text" /\ CallArrives /\ c = call /\ event'.text # event.text)
              => event.text = c.before.text
       /\ (c.kind = "answers" /\ CallArrives /\ c = call /\ event'.answers # event.answers)
              => event.answers = c.before.answers
EditorStep == PublishesReviewed /\ ReplacesSeen

-----------------------------------------------------------------------------
LEMMA OpenForms ==
  /\ Closed.open = FALSE /\ Closed \notin Forms /\ Closed \notin Previews
  /\ LoadingPage.open = TRUE /\ LoadingPage # Closed /\ LoadingPage.base = None
  /\ \A p \in Forms : p.open = TRUE
  /\ \A v \in Previews : v.open = TRUE
  /\ None \notin Doings
<1>1. Closed.open = FALSE /\ LoadingPage.open = TRUE /\ LoadingPage.base = None
  BY DEF Closed, LoadingPage
<1>2. (\A p \in Forms : p.open = TRUE) /\ (\A v \in Previews : v.open = TRUE)
  BY DEF Forms, Previews
<1>3. None \notin Doings
  BY EditorAssumption DEF Doings, Chains, Contents
<1>4. QED
  BY <1>1, <1>2, <1>3

LEMMA ContentIs ==
  ASSUME NEW e \in Events
  PROVE  Content(e) \in Contents /\ Content(e).text = e.text /\ Content(e).answers = e.answers
  BY DEF Content, Contents, Events

LEMMA EditorStarts == EditorInit => EditorKept
<1> SUFFICES ASSUME EditorInit PROVE EditorKept
  OBVIOUS
<1>1. event \in Events /\ event.accepted = 0 /\ event.revision = 1
  <2>1. event \in [text : Texts, answers : Answers \cup {None}, tiers : {0}, revision : {1},
                   accepted : {0}, status : {"draft"}]
    BY DEF EditorInit
  <2>2. 1 \in 1 .. MaxEdition /\ 0 \in Nat
    BY EditorAssumption
  <2> DEFINE t == event.text
             a == event.answers
  <2>3. event = [text |-> t, answers |-> a, tiers |-> 0, revision |-> 1, accepted |-> 0, status |-> "draft"]
        /\ t \in Texts /\ a \in Answers \cup {None}
    BY <2>1
  <2> HIDE DEF t, a
  <2>4. QED
    BY <2>2, <2>3 DEF Events
<1>2. consents \in [1 .. MaxEdition -> Contents \cup {None}]
  BY DEF EditorInit
<1>3. EventFits
  BY <1>1, <1>2 DEF EventFits, AcceptedIsWhatWasTicked
<1>4. editor = Closed /\ preview = Closed /\ call = None /\ strays = {}
  BY DEF EditorInit, Closed
<1>5. PreviewFits(preview) /\ FormFits(editor, call)
  BY <1>4, OpenForms DEF PreviewFits, FormFits
<1>6. QED
  BY <1>3, <1>4, <1>5 DEF EditorKept

-----------------------------------------------------------------------------
(* The database *)

\* What a revision is: it is accepted only if nothing changed.
LEMMA RevisedIs ==
  ASSUME EventFits, NEW e \in Events, e.tiers = event.tiers, e.revision = event.revision,
         e.accepted = event.accepted, e.status = event.status,
         NEW r, r = Revised(e), r.revision <= MaxEdition
  PROVE  /\ r \in Events /\ r.text = e.text /\ r.answers = e.answers /\ r.tiers = event.tiers
         /\ r.status = event.status /\ r.accepted = event.accepted /\ r.accepted <= r.revision
         /\ Content(e) = Content(event) => r = e
         /\ r.accepted = r.revision => r.revision = event.revision /\ Content(r) = Content(event)
<1>1. event \in Events /\ event.accepted <= event.revision /\ event.revision \in Nat /\ event.accepted \in Nat
      /\ e.revision \in 1 .. MaxEdition /\ MaxEdition \in Nat
  BY EditorAssumption DEF EventFits, Events
<1>2. CASE Content(e) = Content(event)
  BY <1>1, <1>2 DEF Revised
<1>3. CASE Content(e) # Content(event)
  <2> PICK n : n = e.revision + 1
    OBVIOUS
  <2>1. r = [e EXCEPT !.revision = n]
    BY <1>3 DEF Revised
  <2>2. r.revision = n
    BY <2>1 DEF Events
  <2>3. n \in 1 .. MaxEdition
    BY <1>1, <2>2
  <2>4. r \in Events /\ r.text = e.text /\ r.answers = e.answers /\ r.tiers = e.tiers
        /\ r.status = e.status /\ r.accepted = e.accepted
    BY <2>1, <2>3 DEF Events
  <2>5. QED
    BY <1>1, <1>3, <2>2, <2>4
<1>4. QED
  BY <1>2, <1>3

LEMMA WriteFitsStill ==
  ASSUME event \in Events, event' \in Events, event.tiers <= event'.tiers, NEW c \in EditorWrites, WriteFits(c)
  PROVE  WriteFits(c)'
<1>1. event.tiers \in Nat /\ event'.tiers \in Nat /\ c.token.tiers \in Nat
  BY DEF Events, EditorWrites
<1>2. QED
  BY <1>1 DEF WriteFits

LEMMA PerformsIs ==
  ASSUME EventFits, NEW c \in EditorWrites, WriteFits(c), Matches(c.token), Performs(c)
  PROVE  /\ EventFits' /\ event'.tiers = event.tiers /\ PublishesReviewed
         /\ c.kind = "text" => /\ event'.text = c.text /\ event'.answers = event.answers
                               /\ c.text = event.text => event' = event
         /\ c.kind = "answers" => /\ event'.text = event.text /\ event'.answers = c.answers
                                  /\ c.answers = event.answers => event' = event
<1> PICK r : r = event'
  OBVIOUS
<1>1. /\ event \in Events /\ event.accepted <= event.revision /\ event.revision \in 1 .. MaxEdition
      /\ event.accepted \in Nat /\ consents \in [1 .. MaxEdition -> Contents \cup {None}]
      /\ AcceptedIsWhatWasTicked /\ c.token = event
  BY DEF EventFits, Events, Matches
<1>2. r = Written(c) /\ r.revision <= MaxEdition
  BY DEF Performs
<1>3. ASSUME NEW e \in Events, e.tiers = event.tiers, e.revision = event.revision,
             e.accepted = event.accepted, e.status = event.status, r = Revised(e),
             c.kind \in {"text", "answers"}
      PROVE  /\ EventFits' /\ event'.tiers = event.tiers /\ PublishesReviewed
             /\ event'.text = e.text /\ event'.answers = e.answers
             /\ Content(e) = Content(event) => event' = e
  <2>1. /\ r \in Events /\ r.text = e.text /\ r.answers = e.answers /\ r.tiers = event.tiers
        /\ r.status = event.status /\ r.accepted = event.accepted /\ r.accepted <= r.revision
        /\ Content(e) = Content(event) => r = e
        /\ r.accepted = r.revision => r.revision = event.revision /\ Content(r) = Content(event)
    BY <1>2, <1>3, RevisedIs
  <2>2. consents' = consents
    BY <1>3 DEF Performs
  <2>3. AcceptedIsWhatWasTicked'
    BY <1>1, <2>1, <2>2 DEF AcceptedIsWhatWasTicked
  <2>4. EventFits'
    BY <1>1, <2>1, <2>2, <2>3 DEF EventFits
  <2>5. QED
    BY <2>1, <2>4 DEF PublishesReviewed
<1>4. CASE c.kind = "text"
  <2> PICK t : t = c.text
    OBVIOUS
  <2> PICK e : e = [event EXCEPT !.text = t]
    OBVIOUS
  <2>1. t \in Texts
    BY <1>4 DEF WriteFits
  <2>2. e \in Events /\ e.tiers = event.tiers /\ e.revision = event.revision /\ e.accepted = event.accepted
        /\ e.status = event.status /\ e.text = t /\ e.answers = event.answers
    BY <1>1, <2>1 DEF Events
  <2>3. t = event.text => e = event
    BY <1>1 DEF Events
  <2>4. r = Revised(e)
    BY <1>2, <1>4 DEF Written
  <2>5. QED
    BY <1>3, <1>4, <2>2, <2>3, <2>4
<1>5. CASE c.kind = "answers"
  <2> PICK a : a = c.answers
    OBVIOUS
  <2> PICK e : e = [event EXCEPT !.answers = a]
    OBVIOUS
  <2>1. a \in Answers \cup {None}
    BY DEF EditorWrites
  <2>2. e \in Events /\ e.tiers = event.tiers /\ e.revision = event.revision /\ e.accepted = event.accepted
        /\ e.status = event.status /\ e.text = event.text /\ e.answers = a
    BY <1>1, <2>1 DEF Events
  <2>3. a = event.answers => e = event
    BY <1>1 DEF Events
  <2>4. r = Revised(e)
    BY <1>2, <1>5 DEF Written
  <2>5. QED
    BY <1>3, <1>5, <2>2, <2>3, <2>4
<1>6. CASE c.kind = "accept"
  <2> PICK n : n = event.revision
    OBVIOUS
  <2>1. r = [event EXCEPT !.accepted = n]
    BY <1>2, <1>6 DEF Written
  <2>2. r \in Events /\ r.accepted = n /\ r.revision = n /\ r.text = event.text /\ r.answers = event.answers
        /\ r.tiers = event.tiers /\ r.status = event.status
    BY <1>1, <2>1 DEF Events
  <2>3. Content(r) = Content(event)
    BY <2>2 DEF Content
  <2>4. CASE NeedsAcceptance(event)
    <3>1. consents' = [consents EXCEPT ![n] = c.agreed] /\ c.agreed = Content(event)
      BY <1>1, <1>6, <2>4 DEF Performs, WriteFits
    <3>2. consents' \in [1 .. MaxEdition -> Contents \cup {None}] /\ consents'[n] = Content(event)
      BY <1>1, <3>1, ContentIs
    <3>3. QED
      BY <1>1, <1>6, <2>2, <2>3, <3>2 DEF EventFits, PublishesReviewed, AcceptedIsWhatWasTicked
  <2>5. CASE ~NeedsAcceptance(event)
    <3>1. consents' = consents /\ event.accepted = event.revision
      BY <2>5 DEF Performs, NeedsAcceptance
    <3>2. AcceptedIsWhatWasTicked'
      BY <1>1, <2>2, <2>3, <3>1 DEF AcceptedIsWhatWasTicked
    <3>3. QED
      BY <1>1, <1>6, <2>2, <3>1, <3>2 DEF EventFits, PublishesReviewed
  <2>6. QED
    BY <2>4, <2>5
<1>7. CASE c.kind = "publish"
  <2>1. r = [event EXCEPT !.status = "published"]
    BY <1>2, <1>7 DEF Written
  <2>2. r \in Events /\ r.accepted = event.accepted /\ r.revision = event.revision /\ r.text = event.text
        /\ r.answers = event.answers /\ r.tiers = event.tiers /\ r.status = "published" /\ event.tiers \in Nat
    BY <1>1, <2>1 DEF Events
  <2>3. Content(r) = Content(event) /\ consents' = consents
    BY <1>7, <2>2 DEF Content, Performs
  <2>4. EventFits'
    BY <1>1, <2>2, <2>3 DEF EventFits, AcceptedIsWhatWasTicked
  <2>5. c.shown \in Reviews /\ c.shown.text = r.text /\ c.shown.answers = r.answers /\ c.shown.tiers = r.tiers
    BY <1>1, <1>7, <2>2 DEF WriteFits
  <2>6. c.shown = Reviewed(r, r.tiers)
    BY <2>5 DEF Reviews, Reviewed
  <2>7. event.status = "draft" \/ event.status = "published"
    BY <1>1 DEF Events
  <2>8. PublishesReviewed
    BY <1>7, <2>2, <2>6, <2>7 DEF Performs, PublishesReviewed
  <2>9. QED
    BY <1>7, <2>2, <2>4, <2>8
<1>8. QED
  BY <1>4, <1>5, <1>6, <1>7 DEF EditorWrites

-----------------------------------------------------------------------------
(* What a step may leave alone *)

\* An answer, or none: the write is the same.
SameWrite(c, d) ==
    /\ d \in EditorWrites /\ d.kind = c.kind /\ d.token = c.token /\ d.text = c.text /\ d.answers = c.answers
    /\ d.agreed = c.agreed /\ d.shown = c.shown /\ d.before = c.before

LEMMA FormSame ==
  ASSUME NEW p, NEW c, NEW d, FormFits(p, c), SameWrite(c, d), AnswerFits(d)
  PROVE  FormFits(p, d)
<1> SUFFICES ASSUME p \in Forms, p.doing # None, ChainFits(p, c) PROVE ChainFits(p, d)
  BY DEF FormFits, ChainFits
<1>1. WriteFits(c) /\ TextFits(p, c) /\ AnswersFit(p, c) /\ AcceptFits(p, c)
  BY DEF ChainFits
<1>2. WriteFits(d)
  BY <1>1 DEF SameWrite, WriteFits
<1>3. TextFits(p, d) /\ AnswersFit(p, d)
  BY <1>1 DEF TextFits, AnswersFit, SameWrite
<1>4. AcceptFits(p, d)
  BY <1>1 DEF AcceptFits, SameWrite
<1>5. QED
  BY <1>2, <1>3, <1>4 DEF ChainFits, SameWrite

LEMMA FormWaits ==
  ASSUME event \in Events, event' \in Events, event.tiers <= event'.tiers, NEW p, NEW c, FormFits(p, c)
  PROVE  FormFits(p, c)'
<1> SUFFICES ASSUME p \in Forms, p.doing # None, ChainFits(p, c) PROVE ChainFits(p, c)'
  BY DEF FormFits, FormRests, FormAgrees, ChainFits, Stands, Agreeing, NeedsAcceptance
<1>1. c \in EditorWrites /\ WriteFits(c)
  BY DEF ChainFits
<1>2. WriteFits(c)'
  BY <1>1, WriteFitsStill
<1>3. QED
  BY <1>2 DEF ChainFits, AnswerFits, TextFits, AnswersFit, AcceptFits, Stands, Agreeing, NeedsAcceptance

LEMMA PreviewStays ==
  ASSUME event \in Events, event' \in Events, event.tiers <= event'.tiers, NEW v, PreviewFits(v)
  PROVE  PreviewFits(v)'
<1>1. event.tiers \in Nat /\ event'.tiers \in Nat /\ (v.fresh \in Events => v.fresh.tiers \in Nat)
  BY DEF Events
<1>2. QED
  BY <1>1 DEF PreviewFits

\* A step that leaves the event or the call alone lets no call arrive.
LEMMA NothingArrives ==
  ASSUME EditorKept, event' = event \/ call' = call
  PROVE  ReplacesSeen
<1> SUFFICES ASSUME CallArrives, event' # event PROVE FALSE
  BY DEF ReplacesSeen
<1>1. call # None /\ call.answer = "none" /\ call \in EditorWrites
  BY DEF CallArrives, EditorKept
<1>2. call'.answer # "none"
  BY <1>1 DEF CallArrives, EditorWrites
<1>3. QED
  BY <1>1, <1>2

LEMMA EventMoves ==
  ASSUME EditorKept, EventFits', event.tiers <= event'.tiers, strays' \subseteq strays,
         UNCHANGED <<editor, preview, call>>, PublishesReviewed
  PROVE  EditorKept' /\ EditorStep
<1>1. event \in Events /\ event' \in Events
  BY DEF EditorKept, EventFits
<1>2. FormFits(editor, call)'
  <2> PICK p : p = editor
    OBVIOUS
  <2> PICK c : c = call
    OBVIOUS
  <2>1. FormFits(p, c)'
    BY <1>1, FormWaits DEF EditorKept
  <2>2. QED
    BY <2>1 DEF FormFits, FormRests, FormAgrees, ChainFits, TextFits, AnswersFit, AcceptFits, WriteFits, AnswerFits
<1>3. PreviewFits(preview)'
  <2> PICK v : v = preview
    OBVIOUS
  <2>1. PreviewFits(v)'
    BY <1>1, PreviewStays DEF EditorKept
  <2>2. QED
    BY <2>1 DEF PreviewFits
<1>4. \A c \in strays' : c \in EditorWrites /\ WriteFits(c)'
  BY <1>1, WriteFitsStill DEF EditorKept
<1>5. (call # None => call \in EditorWrites /\ WriteFits(call))'
  <2> PICK c : c = call
    OBVIOUS
  <2>1. c # None => c \in EditorWrites /\ WriteFits(c)'
    BY <1>1, WriteFitsStill DEF EditorKept
  <2>2. QED
    BY <2>1 DEF WriteFits
<1>6. QED
  BY <1>2, <1>3, <1>4, <1>5, NothingArrives DEF EditorKept, EditorStep

\* The pages move: the event stays.
LEMMA FormsMove ==
  ASSUME EditorKept, UNCHANGED <<event, consents, reviewed>>,
         NEW p, NEW v, NEW c, editor' = p, preview' = v, call' = c,
         FormFits(p, c), PreviewFits(v), p = Closed \/ v = Closed,
         c # None => c \in EditorWrites /\ WriteFits(c),
         \A d \in strays' : d \in strays \/ (d = call /\ call # None)
  PROVE  EditorKept' /\ EditorStep
<1>1. event \in Events /\ event' = event /\ event.tiers <= event.tiers
  BY DEF EditorKept, EventFits, Events
<1>2. FormFits(p, c)' /\ PreviewFits(v)'
  BY <1>1, FormWaits, PreviewStays
<1>3. FormFits(editor, call)' /\ PreviewFits(preview)'
  BY SMTT(30), <1>2 DEF FormFits, FormRests, FormAgrees, ChainFits, TextFits, AnswersFit, AcceptFits, WriteFits, AnswerFits,
              PreviewFits
<1>4. \A d \in strays' : d \in EditorWrites /\ WriteFits(d)'
  BY <1>1 DEF EditorKept, WriteFits
<1>5. (call # None => call \in EditorWrites /\ WriteFits(call))'
  BY <1>1 DEF WriteFits
<1>6. EventFits' /\ PublishesReviewed
  BY <1>1 DEF EditorKept, EventFits, AcceptedIsWhatWasTicked, PublishesReviewed
<1>7. QED
  BY <1>1, <1>3, <1>4, <1>5, <1>6, NothingArrives DEF EditorKept, EditorStep

-----------------------------------------------------------------------------
(* What arrives *)

LEMMA CallKeeps ==
  ASSUME EditorKept, CallArrives
  PROVE  EditorKept' /\ EditorStep
<1> PICK c : c = call
  OBVIOUS
<1> PICK p : p = editor
  OBVIOUS
<1> PICK v : v = preview
  OBVIOUS
<1>1. /\ c # None /\ c \in EditorWrites /\ WriteFits(c) /\ c.answer = "none"
      /\ editor' = p /\ preview' = v /\ strays' = strays /\ event \in Events
      /\ FormFits(p, c) /\ PreviewFits(v) /\ (p = Closed \/ v = Closed)
  BY DEF CallArrives, EditorKept, EventFits
<1>2. CASE Matches(c.token) /\ Performs(c) /\ call' = [c EXCEPT !.answer = "ok", !.context = event']
  <2> PICK e : e = event'
    OBVIOUS
  <2> PICK d : d = [c EXCEPT !.answer = "ok", !.context = e]
    OBVIOUS
  <2>1. /\ EventFits' /\ event'.tiers = event.tiers /\ PublishesReviewed /\ c.token = event
        /\ c.kind = "text" => /\ e.text = c.text /\ e.answers = event.answers
                              /\ c.text = event.text => e = event
        /\ c.kind = "answers" => /\ e.text = event.text /\ e.answers = c.answers
                                 /\ c.answers = event.answers => e = event
    BY <1>1, <1>2, PerformsIs DEF EditorKept, Matches
  <2>2. e \in Events /\ event.tiers \in Nat /\ event.tiers <= event'.tiers
    BY <1>1, <2>1 DEF EventFits, Events
  <2>3. SameWrite(c, d) /\ d.answer = "ok" /\ d.context = e
    BY <1>1, <2>2 DEF SameWrite, EditorWrites
  <2>4. AnswerFits(d)
    BY <2>1, <2>2, <2>3 DEF AnswerFits, SameWrite
  <2>5. d \in EditorWrites /\ WriteFits(d)
    BY <1>1, <2>3 DEF SameWrite, WriteFits
  <2>6. FormFits(p, d)
    BY <1>1, <2>3, <2>4, FormSame
  <2>7. FormFits(p, d)' /\ PreviewFits(v)' /\ WriteFits(d)'
    BY <1>1, <2>2, <2>5, <2>6, FormWaits, PreviewStays, WriteFitsStill
  <2>8. \A x \in strays' : x \in EditorWrites /\ WriteFits(x)'
    BY <1>1, <2>2, WriteFitsStill DEF EditorKept
  <2>9. call' = d
    BY <1>2
  <2>10. FormFits(editor, call)' /\ PreviewFits(preview)' /\ (call # None => call \in EditorWrites /\ WriteFits(call))'
    BY SMTT(30), <1>1, <2>5, <2>7, <2>9
       DEF FormFits, FormRests, FormAgrees, ChainFits, TextFits, AnswersFit, AcceptFits, WriteFits, AnswerFits,
           PreviewFits
  <2>11. ReplacesSeen
    BY <1>1, <2>1 DEF ReplacesSeen, WriteFits
  <2>12. QED
    BY <1>1, <2>1, <2>8, <2>10, <2>11 DEF EditorKept, EditorStep
<1>3. ASSUME NEW a \in {"conflict", "refused"}, call' = [c EXCEPT !.answer = a],
             UNCHANGED <<event, consents, reviewed>>
      PROVE  EditorKept' /\ EditorStep
  <2> PICK d : d = [c EXCEPT !.answer = a]
    OBVIOUS
  <2>1. SameWrite(c, d) /\ d.answer # "ok"
    BY <1>1 DEF SameWrite, EditorWrites
  <2>2. AnswerFits(d) /\ d \in EditorWrites /\ WriteFits(d)
    BY <1>1, <2>1 DEF SameWrite, WriteFits, AnswerFits
  <2>3. FormFits(p, d)
    BY <1>1, <2>1, <2>2, FormSame
  <2>4. QED
    BY <1>1, <1>3, <2>2, <2>3, FormsMove
<1>4. QED
  BY <1>2, <1>3 DEF CallArrives

LEMMA LostKeeps ==
  ASSUME EditorKept, CallLost
  PROVE  EditorKept' /\ EditorStep
<1> PICK c : c = call
  OBVIOUS
<1> PICK p : p = editor
  OBVIOUS
<1> PICK v : v = preview
  OBVIOUS
<1> PICK d : d = [c EXCEPT !.answer = "unknown"]
  OBVIOUS
<1>1. /\ c # None /\ c \in EditorWrites /\ WriteFits(c) /\ call' = d
      /\ editor' = p /\ preview' = v /\ UNCHANGED <<event, consents, reviewed>>
      /\ FormFits(p, c) /\ PreviewFits(v) /\ (p = Closed \/ v = Closed)
      /\ \A x \in strays' : x \in strays \/ x = c
  BY DEF CallLost, EditorKept
<1>2. SameWrite(c, d) /\ d.answer # "ok"
  BY <1>1 DEF SameWrite, EditorWrites
<1>3. AnswerFits(d) /\ d \in EditorWrites /\ WriteFits(d)
  BY <1>1, <1>2 DEF SameWrite, WriteFits, AnswerFits
<1>4. FormFits(p, d)
  BY <1>1, <1>2, <1>3, FormSame
<1>5. QED
  BY <1>1, <1>3, <1>4, FormsMove

LEMMA StrayKeeps ==
  ASSUME EditorKept, StrayArrives
  PROVE  EditorKept' /\ EditorStep
<1>1. PICK c \in strays :
        /\ \/ Matches(c.token) /\ Performs(c)
           \/ UNCHANGED <<event, consents, reviewed>>
        /\ strays' = strays \ {c} /\ UNCHANGED <<editor, preview, call>>
  BY DEF StrayArrives
<1>2. c \in EditorWrites /\ WriteFits(c) /\ EventFits /\ event.tiers \in Nat
  BY DEF EditorKept, EventFits, Events
<1>3. EventFits' /\ event'.tiers = event.tiers /\ PublishesReviewed
  <2>1. CASE Matches(c.token) /\ Performs(c)
    BY <1>2, <2>1, PerformsIs
  <2>2. CASE UNCHANGED <<event, consents, reviewed>>
    BY <1>2, <2>2 DEF EventFits, AcceptedIsWhatWasTicked, PublishesReviewed
  <2>3. QED
    BY <1>1, <2>1, <2>2
<1>4. QED
  BY <1>1, <1>2, <1>3, EventMoves

LEMMA OthersKeep ==
  ASSUME EditorKept, OthersWrite
  PROVE  EditorKept' /\ EditorStep
<1>1. /\ event \in Events /\ event.accepted <= event.revision /\ event.revision \in 1 .. MaxEdition
      /\ consents \in [1 .. MaxEdition -> Contents \cup {None}] /\ AcceptedIsWhatWasTicked /\ event.tiers \in Nat
      /\ event.accepted \in Nat
  BY DEF EditorKept, EventFits, Events
<1>2. UNCHANGED <<editor, preview, call, strays>>
  BY DEF OthersWrite
<1> PICK r : r = event'
  OBVIOUS
<1>3. EventFits' /\ event.tiers <= r.tiers /\ r.status = event.status
  <2>1. ASSUME NEW e \in Events, e.tiers = event.tiers, e.revision = event.revision,
               e.accepted = event.accepted, e.status = event.status, r = Revised(e), r.revision <= MaxEdition,
               consents' = consents
        PROVE  EventFits' /\ event.tiers <= r.tiers /\ r.status = event.status
    <3>1. /\ r \in Events /\ r.tiers = event.tiers /\ r.status = event.status /\ r.accepted <= r.revision
          /\ r.accepted = event.accepted
          /\ r.accepted = r.revision => r.revision = event.revision /\ Content(r) = Content(event)
      BY <2>1, RevisedIs DEF EditorKept
    <3>2. AcceptedIsWhatWasTicked'
      BY <1>1, <2>1, <3>1 DEF AcceptedIsWhatWasTicked
    <3>3. QED
      BY <1>1, <2>1, <3>1, <3>2 DEF EventFits
  <2>2. ASSUME NEW x \in Texts, r = Revised([event EXCEPT !.text = x]), r.revision <= MaxEdition, consents' = consents
        PROVE  EventFits' /\ event.tiers <= r.tiers /\ r.status = event.status
    <3> PICK e : e = [event EXCEPT !.text = x]
      OBVIOUS
    <3>1. e \in Events /\ e.tiers = event.tiers /\ e.revision = event.revision /\ e.accepted = event.accepted
          /\ e.status = event.status
      BY <1>1 DEF Events
    <3>2. QED
      BY <2>1, <2>2, <3>1
  <2>3. ASSUME NEW a \in Answers, r = Revised([event EXCEPT !.answers = a]), r.revision <= MaxEdition,
               consents' = consents
        PROVE  EventFits' /\ event.tiers <= r.tiers /\ r.status = event.status
    <3> PICK e : e = [event EXCEPT !.answers = a]
      OBVIOUS
    <3>1. e \in Events /\ e.tiers = event.tiers /\ e.revision = event.revision /\ e.accepted = event.accepted
          /\ e.status = event.status
      BY <1>1 DEF Events
    <3>2. QED
      BY <2>1, <2>3, <3>1
  <2>4. ASSUME r = [event EXCEPT !.accepted = event.revision],
               consents' = [consents EXCEPT ![event.revision] = Content(event)]
        PROVE  EventFits' /\ event.tiers <= r.tiers /\ r.status = event.status
    <3> PICK n : n = event.revision
      OBVIOUS
    <3>1. r = [event EXCEPT !.accepted = n]
      BY <2>4
    <3>2. r \in Events /\ r.accepted = n /\ r.revision = n /\ r.text = event.text /\ r.answers = event.answers
          /\ r.tiers = event.tiers /\ r.status = event.status
      BY <1>1, <3>1 DEF Events
    <3>3. Content(r) = Content(event)
      BY <3>2 DEF Content
    <3>4. consents' \in [1 .. MaxEdition -> Contents \cup {None}] /\ consents'[n] = Content(event)
      BY <1>1, <2>4, ContentIs
    <3>5. QED
      BY <1>1, <3>2, <3>3, <3>4 DEF EventFits, AcceptedIsWhatWasTicked
  <2>5. ASSUME r = [event EXCEPT !.tiers = event.tiers + 1], consents' = consents
        PROVE  EventFits' /\ event.tiers <= r.tiers /\ r.status = event.status
    <3> PICK n : n = event.tiers + 1
      OBVIOUS
    <3>1. r = [event EXCEPT !.tiers = n] /\ n \in Nat /\ event.tiers <= n
      BY <1>1, <2>5
    <3>2. r \in Events /\ r.accepted = event.accepted /\ r.revision = event.revision /\ r.text = event.text
          /\ r.answers = event.answers /\ r.tiers = n /\ r.status = event.status
      BY <1>1, <3>1 DEF Events
    <3>3. Content(r) = Content(event)
      BY <3>2 DEF Content
    <3>4. QED
      BY <1>1, <2>5, <3>1, <3>2, <3>3 DEF EventFits, AcceptedIsWhatWasTicked
  <2>6. QED
    BY <2>2, <2>3, <2>4, <2>5 DEF OthersWrite
<1>4. PublishesReviewed
  BY <1>3 DEF PublishesReviewed
<1>5. QED
  BY <1>2, <1>3, <1>4, EventMoves

-----------------------------------------------------------------------------
(* The form *)

\* The editor's page while it is open
LEMMA FormIs ==
  ASSUME EditorKept, editor.open
  PROVE  /\ editor \in Forms /\ FormRests(editor) /\ FormAgrees(editor) /\ ChainFits(editor, call)
         /\ preview = Closed
  BY OpenForms DEF EditorKept, FormFits

\* The editor moves alone.
LEMMA FormMoves ==
  ASSUME EditorKept, UNCHANGED <<event, consents, preview, call, strays, reviewed>>,
         NEW q, editor' = q, FormFits(q, call), q = Closed \/ preview = Closed
  PROVE  EditorKept' /\ EditorStep
<1> PICK v : v = preview
  OBVIOUS
<1> PICK c : c = call
  OBVIOUS
<1>1. /\ preview' = v /\ call' = c /\ PreviewFits(v) /\ strays' = strays
      /\ c # None => c \in EditorWrites /\ WriteFits(c)
  BY DEF EditorKept
<1>2. QED
  BY <1>1, FormsMove

LEMMA HydratedFits ==
  ASSUME NEW flow \in {"creation", "plain"}, NEW step \in {3, 4, 5}, NEW e \in Events, NEW c
  PROVE  FormFits(Hydrated(flow, step, e), c)
<1> PICK accepted : accepted = ~NeedsAcceptance(e)
  OBVIOUS
<1>1. accepted \in BOOLEAN
  OBVIOUS
<1> PICK a : a = IF accepted THEN Content(e) ELSE None
  OBVIOUS
<1> PICK t : t = e.text
  OBVIOUS
<1> PICK s : s = e.answers
  OBVIOUS
<1> PICK q : q = Hydrated(flow, step, e)
  OBVIOUS
<1>2. a \in Contents \cup {None} /\ t \in Texts /\ s \in Answers \cup {None}
  BY ContentIs DEF Events
<1>3. q = [open |-> TRUE, flow |-> flow, step |-> step, base |-> e, text |-> t, answers |-> s,
           box |-> accepted, boxWas |-> accepted, invalidated |-> FALSE, agreed |-> a,
           write |-> "ready", doing |-> None]
  BY DEF Hydrated
<1>4. q \in Forms /\ q.doing = None /\ q.text = t /\ q.answers = s /\ q.base = e /\ q.box = accepted
  BY <1>1, <1>2, <1>3 DEF Forms
<1>5. QED
  BY <1>4 DEF FormFits, FormRests, FormAgrees, ChainFits, Stands

LEMMA EditorOpens ==
  ASSUME EditorKept, OpenEditor \/ ReloadBaseline
  PROVE  EditorKept' /\ EditorStep
<1>1. event \in Events
  BY DEF EditorKept, EventFits
<1>2. UNCHANGED <<event, consents, preview, call, strays, reviewed>>
  BY DEF OpenEditor, ReloadBaseline
<1>3. preview = Closed /\ \E flow \in {"creation", "plain"}, step \in {3, 4, 5} : editor' = Hydrated(flow, step, event)
  <2>1. CASE OpenEditor
    <3>1. preview = Closed
      BY <2>1, OpenForms DEF OpenEditor, EditorKept, PreviewFits
    <3>2. QED
      BY <2>1, <3>1 DEF OpenEditor
  <2>2. CASE ReloadBaseline
    <3>1. editor \in Forms /\ preview = Closed
      BY <2>2, FormIs DEF ReloadBaseline
    <3>2. editor.flow \in {"creation", "plain"} /\ editor.step \in {3, 4, 5}
      BY <3>1 DEF Forms
    <3>3. QED
      BY <2>2, <3>1, <3>2 DEF ReloadBaseline
  <2>3. QED
    BY <2>1, <2>2
<1>4. PICK flow \in {"creation", "plain"}, step \in {3, 4, 5} : editor' = Hydrated(flow, step, event)
  BY <1>3
<1> PICK e : e = event
  OBVIOUS
<1> PICK q : q = Hydrated(flow, step, e)
  OBVIOUS
<1>5. FormFits(q, call) /\ editor' = q
  BY <1>1, <1>4, HydratedFits
<1>6. QED
  BY <1>2, <1>3, <1>5, FormMoves

LEMMA LeaveEditorKeeps ==
  ASSUME EditorKept, LeaveEditor
  PROVE  EditorKept' /\ EditorStep
<1>1. /\ editor' = Closed /\ preview' = Closed /\ call' = None /\ UNCHANGED <<event, consents, reviewed>>
      /\ \A d \in strays' : d \in strays \/ (d = call /\ call # None)
  BY DEF LeaveEditor, Closed
<1>2. FormFits(Closed, None) /\ PreviewFits(Closed)
  BY OpenForms DEF FormFits, PreviewFits
<1>3. QED
  BY <1>1, <1>2, FormsMove

LEMMA TypeKeeps ==
  ASSUME EditorKept, Type
  PROVE  EditorKept' /\ EditorStep
<1> PICK p : p = editor
  OBVIOUS
<1>1. PICK x \in Texts : editor' = [p EXCEPT !.text = x]
  BY DEF Type
<1> PICK q : q = [p EXCEPT !.text = x]
  OBVIOUS
<1>2. /\ p \in Forms /\ FormRests(p) /\ FormAgrees(p) /\ ChainFits(p, call) /\ preview = Closed /\ p.step = 3
  BY FormIs DEF Type, Editable
<1>3. /\ q \in Forms /\ q.step = 3 /\ q.flow = p.flow /\ q.base = p.base /\ q.answers = p.answers
      /\ q.box = p.box /\ q.agreed = p.agreed /\ q.write = p.write /\ q.doing = p.doing
  BY <1>2 DEF Forms
<1>4. FormRests(q) /\ FormAgrees(q)
  BY <1>2, <1>3 DEF FormRests, FormAgrees, Agreeing, Stands
<1>5. ChainFits(q, call)
  BY <1>2, <1>3 DEF ChainFits, TextFits, AnswersFit, AcceptFits, Agreeing, Stands
<1>6. QED
  BY <1>1, <1>2, <1>3, <1>4, <1>5, FormMoves DEF Type, FormFits

LEMMA QuestionKeeps ==
  ASSUME EditorKept, AnswerQuestion
  PROVE  EditorKept' /\ EditorStep
<1> PICK p : p = editor
  OBVIOUS
<1>1. PICK a \in Answers : editor' = WithoutAgreement([p EXCEPT !.answers = a])
  BY DEF AnswerQuestion
<1> PICK q : q = [p EXCEPT !.answers = a, !.invalidated = TRUE, !.box = FALSE, !.agreed = None]
  OBVIOUS
<1>2. /\ p \in Forms /\ FormRests(p) /\ ChainFits(p, call) /\ preview = Closed /\ p.step = 4
      /\ p.flow = "creation" => p.doing = None
  BY FormIs DEF AnswerQuestion, Editable
<1>3. /\ q \in Forms /\ q.step = 4 /\ q.flow = p.flow /\ q.base = p.base /\ q.text = p.text
      /\ q.box = FALSE /\ q.doing = p.doing /\ p.flow \in {"creation", "plain"}
  BY <1>2 DEF Forms
<1>4. FormRests(q) /\ FormAgrees(q)
  BY <1>2, <1>3 DEF FormRests, FormAgrees
<1>5. ChainFits(q, call)
  BY <1>2, <1>3 DEF ChainFits, TextFits, AnswersFit, AcceptFits, Agreeing
<1>6. editor' = q
  BY <1>1, <1>2 DEF WithoutAgreement, Forms
<1>7. QED
  BY <1>2, <1>3, <1>4, <1>5, <1>6, FormMoves DEF AnswerQuestion, FormFits

LEMMA TickKeeps ==
  ASSUME EditorKept, TickBox
  PROVE  EditorKept' /\ EditorStep
<1> PICK p : p = editor
  OBVIOUS
<1> PICK b : b = ~p.box
  OBVIOUS
<1> PICK a : a = IF p.box THEN None ELSE [text |-> p.text, answers |-> p.answers]
  OBVIOUS
<1> PICK q : q = [p EXCEPT !.box = b, !.agreed = a]
  OBVIOUS
<1>1. editor' = q
  BY DEF TickBox
<1>2. /\ p \in Forms /\ FormRests(p) /\ FormAgrees(p) /\ ChainFits(p, call) /\ preview = Closed
      /\ p.flow = "creation" => p.doing = None
      /\ p.step = IF p.flow = "creation" THEN 4 ELSE 5
  BY FormIs DEF TickBox, Editable, AgreementShows
<1>3. p.text \in Texts /\ p.answers \in Answers \cup {None} /\ p.box \in BOOLEAN
  BY <1>2 DEF Forms
<1>4. b \in BOOLEAN /\ a \in Contents \cup {None} /\ (b => a = [text |-> p.text, answers |-> p.answers])
  BY <1>3 DEF Contents
<1>5. /\ q \in Forms /\ q.step = p.step /\ q.flow = p.flow /\ q.base = p.base /\ q.text = p.text
      /\ q.answers = p.answers /\ q.box = b /\ q.agreed = a /\ q.doing = p.doing /\ p.flow \in {"creation", "plain"}
  BY <1>2, <1>4 DEF Forms
<1>6. FormRests(q) /\ FormAgrees(q)
  BY <1>2, <1>4, <1>5 DEF FormRests, FormAgrees, Stands
<1>7. ChainFits(q, call)
  BY <1>2, <1>5 DEF ChainFits, TextFits, AnswersFit, AcceptFits, Agreeing, Stands
<1>8. QED
  BY <1>1, <1>2, <1>5, <1>6, <1>7, FormMoves DEF TickBox, FormFits

LEMMA BackKeeps ==
  ASSUME EditorKept, Back
  PROVE  EditorKept' /\ EditorStep
<1> PICK p : p = editor
  OBVIOUS
<1> PICK n : n = p.step - 1
  OBVIOUS
<1> PICK q : q = [p EXCEPT !.step = n]
  OBVIOUS
<1>1. editor' = q
  BY DEF Back
<1>2. /\ p \in Forms /\ FormRests(p) /\ FormAgrees(p) /\ preview = Closed /\ p.doing = None /\ p.step > 3
  BY FormIs DEF Back, MayWrite
<1>3. n \in {3, 4} /\ p.step \in {4, 5}
  BY <1>2 DEF Forms
<1>4. /\ q \in Forms /\ q.step = n /\ q.flow = p.flow /\ q.base = p.base /\ q.text = p.text
      /\ q.answers = p.answers /\ q.box = p.box /\ q.agreed = p.agreed /\ q.doing = None /\ q.write = p.write
  BY ZenonT(60), <1>2, <1>3 DEF Forms
<1>5. FormRests(q) /\ FormAgrees(q) /\ ChainFits(q, call)
  BY <1>2, <1>3, <1>4 DEF FormRests, FormAgrees, ChainFits, Agreeing, Stands
<1>6. QED
  BY <1>1, <1>2, <1>4, <1>5, FormMoves DEF Back, FormFits

-----------------------------------------------------------------------------
(* The chains of writes *)

LEMMA ChainsAre ==
  /\ Head(<<"text">>) = "text" /\ Tail(<<"text">>) = <<>>
  /\ Head(<<"answers">>) = "answers" /\ Tail(<<"answers">>) = <<>>
  /\ Head(<<"accept">>) = "accept" /\ Tail(<<"accept">>) = <<>>
  /\ Head(<<"text", "answers">>) = "text" /\ Tail(<<"text", "answers">>) = <<"answers">>
  /\ Head(<<"answers", "accept">>) = "answers" /\ Tail(<<"answers", "accept">>) = <<"accept">>
  /\ Head(<<"text", "answers", "accept">>) = "text"
  /\ Tail(<<"text", "answers", "accept">>) = <<"answers", "accept">>
  /\ <<>> # <<"answers">> /\ <<>> # <<"accept">> /\ <<>> # <<"answers", "accept">>
  /\ <<"answers">> # <<"answers", "accept">> /\ <<"accept">> # <<"answers", "accept">>
  /\ <<"answers">> # <<"accept">>
  OBVIOUS

\* How a chain begins: the action, its first write, and what is left
Begins(p, action, kind, left, current) ==
    /\ current \in BOOLEAN
    /\ current => /\ ~NeedsAcceptance(p.base) /\ p.answers = p.base.answers
                  /\ p.text = p.base.text
    /\ \/ action = "save" /\ kind = "text" /\ left = <<>> /\ p.step = 3
       \/ action = "save" /\ kind = "text" /\ left = <<"answers">>
       \/ action = "requirements" /\ kind = "text" /\ left = <<>> /\ p.step = 3 /\ current = FALSE
       \/ action = "agreement" /\ kind = "answers" /\ left = <<>> /\ p.step = 4
       \/ /\ action = "accept" /\ kind = "text" /\ left = <<"answers", "accept">> /\ current = FALSE
          /\ p.box /\ p.step = IF p.flow = "creation" THEN 4 ELSE 5

LEMMA StartKeeps ==
  ASSUME EditorKept, MayWrite, NEW action, NEW chain, NEW current,
         Begins(editor, action, Head(chain), Tail(chain), current), Starts(action, chain, current)
  PROVE  EditorKept' /\ EditorStep
<1> PICK p : p = editor
  OBVIOUS
<1> PICK kind : kind = Head(chain)
  OBVIOUS
<1> PICK left : left = Tail(chain)
  OBVIOUS
<1> PICK revised : revised = (p.text # p.base.text)
  OBVIOUS
<1> PICK had : had = Content(p.base)
  OBVIOUS
<1> PICK d : d = [action |-> action, left |-> left, revised |-> revised, current |-> current,
                  agreed |-> p.agreed, shown |-> had]
  OBVIOUS
<1> PICK q : q = [p EXCEPT !.doing = d]
  OBVIOUS
<1> PICK c : c = [kind |-> kind, token |-> q.base, text |-> p.text, answers |-> q.answers, agreed |-> q.agreed,
                  shown |-> None, before |-> q.doing.shown, answer |-> "none", context |-> None]
  OBVIOUS
<1>1. editor' = q
  BY DEF Starts, TextIsDirty
<1>2. call' = c /\ UNCHANGED <<event, consents, preview, strays, reviewed>>
  BY <1>1 DEF Starts, Request, Token
<1>3. /\ p \in Forms /\ FormRests(p) /\ FormAgrees(p) /\ preview = Closed /\ p.doing = None /\ p.write = "ready"
      /\ Begins(p, action, kind, left, current)
  BY FormIs DEF MayWrite
<1>4. /\ p.base \in Events /\ p.text \in Texts /\ p.answers \in Answers \cup {None} /\ p.agreed \in Contents \cup {None}
      /\ p.flow \in {"creation", "plain"} /\ p.step \in {3, 4, 5}
  BY <1>3 DEF Forms
<1>5. had \in Contents /\ had.text = p.base.text /\ had.answers = p.base.answers
  BY <1>4, ContentIs
<1>6. /\ current \in BOOLEAN /\ kind \in {"text", "answers"} /\ left \in Chains
      /\ action \in {"save", "requirements", "agreement", "accept"}
  BY <1>3 DEF Begins, Chains
<1>7. d \in Doings /\ d.action = action /\ d.left = left /\ d.revised = revised /\ d.current = current
      /\ d.agreed = p.agreed /\ d.shown = had
  BY <1>4, <1>5, <1>6 DEF Doings
<1>8. /\ q \in Forms /\ q.doing = d /\ q.base = p.base /\ q.answers = p.answers /\ q.agreed = p.agreed
      /\ q.step = p.step /\ q.flow = p.flow /\ q.text = p.text /\ q.box = p.box
  <2>1. p \in Forms /\ d \in Doings \cup {None}
    BY <1>3, <1>7
  <2>2. QED
    BY ZenonT(60), <2>1 DEF Forms
<1>9. /\ c \in EditorWrites /\ c.kind = kind /\ c.token = p.base /\ c.text = p.text /\ c.answers = p.answers
      /\ c.before = had /\ c.answer = "none"
  BY <1>4, <1>5, <1>6, <1>7, <1>8 DEF EditorWrites
<1>10. WriteFits(c) /\ AnswerFits(c)
  BY <1>4, <1>5, <1>6, <1>9 DEF WriteFits, AnswerFits
<1>11. FormRests(q) /\ FormAgrees(q)
  BY <1>3, <1>7, <1>8, OpenForms DEF FormRests, FormAgrees
<1>12. p.box /\ Agreeing(p) => Stands(p, p.agreed)
  BY <1>3 DEF FormAgrees
<1>13. TextFits(q, c)
  <2> SUFFICES ASSUME kind = "text" PROVE TextFits(q, c)
    BY <1>9 DEF TextFits
  <2>1. left \in {<<>>, <<"answers">>, <<"answers", "accept">>} /\ had.answers = p.base.answers
    BY <1>3, <1>5 DEF Begins
  <2>2. ~revised \/ p.step # 3 => p.text = p.base.text
    BY <1>3 DEF FormRests
  <2>3. /\ left = <<>> => action \in {"save", "requirements"} /\ p.step = 3
        /\ left = <<"answers">> => action = "save"
        /\ left = <<"answers", "accept">> => action = "accept"
    BY <1>3, ChainsAre DEF Begins
  <2>4. current => p.answers = p.base.answers
    BY <1>3 DEF Begins
  <2>5. p.flow = "creation" /\ p.box => Stands(q, q.agreed)
    BY <1>8, <1>12 DEF Stands, Agreeing
  <2>6. /\ q.doing.left = left /\ q.doing.revised = revised /\ q.doing.current = current
        /\ q.doing.action = action /\ q.doing.shown = had
    BY <1>7, <1>8
  <2>7. /\ q.doing.left \in {<<>>, <<"answers">>, <<"answers", "accept">>}
        /\ q.doing.shown.answers = q.base.answers
    BY <1>8, <2>1, <2>6
  <2>8. ~q.doing.revised \/ q.step # 3 => c.text = q.base.text
    BY <1>8, <1>9, <2>2, <2>6
  <2>9. /\ q.doing.left = <<>> => q.doing.action \in {"save", "requirements"} /\ q.step = 3
        /\ q.doing.left = <<"answers">> => q.doing.action = "save"
        /\ q.doing.left = <<"answers", "accept">> => q.doing.action = "accept"
    BY <1>8, <2>3, <2>6
  <2>10. q.flow = "creation" /\ q.box => Stands(q, q.agreed)
    BY <1>8, <2>5
  <2>11. q.doing.current => q.answers = q.base.answers
    BY <1>8, <2>4, <2>6
  <2>12. QED
    BY <2>7, <2>8, <2>9, <2>10, <2>11 DEF TextFits
<1>14. AnswersFit(q, c)
  <2> SUFFICES ASSUME kind = "answers" PROVE AnswersFit(q, c)
    BY <1>9 DEF AnswersFit
  <2>1. left = <<>> /\ action = "agreement" /\ (current => p.answers = p.base.answers)
    BY <1>3 DEF Begins
  <2>2. QED
    BY ZenonT(60), <1>7, <1>8, <1>9, <2>1, ChainsAre DEF AnswersFit
<1>15. AcceptFits(q, c)
  <2>1. action = "accept" => /\ current = FALSE /\ p.step # 3 /\ (p.flow = "plain" => p.step = 5) /\ kind = "text"
                             /\ p.box /\ Agreeing(p)
    BY <1>3 DEF Begins, Agreeing
  <2>2. QED
    BY <1>6, <1>7, <1>8, <1>9, <1>12, <2>1 DEF AcceptFits, Stands
<1>16. ChainFits(q, c)
  <2>1. current => ~NeedsAcceptance(p.base) /\ ~revised
    BY <1>3 DEF Begins
  <2>2. action = "agreement" => p.step # 3
    BY <1>3 DEF Begins
  <2>3. QED
    BY <1>6, <1>7, <1>8, <1>9, <1>10, <1>13, <1>14, <1>15, <2>1, <2>2 DEF ChainFits
<1>17. FormFits(q, c) /\ PreviewFits(Closed)
  BY <1>8, <1>11, <1>16, OpenForms DEF FormFits, PreviewFits
<1>18. QED
  BY <1>1, <1>2, <1>3, <1>9, <1>10, <1>17, FormsMove

LEMMA ButtonsKeep ==
  ASSUME EditorKept, SaveEvent \/ ContinueToRequirements \/ ContinueToAgreement \/ SubmitAgreement
  PROVE  EditorKept' /\ EditorStep
<1>1. MayWrite /\ editor \in Forms /\ FormRests(editor)
  BY FormIs DEF SaveEvent, ContinueToRequirements, ContinueToAgreement, SubmitAgreement, MayWrite
<1>2. editor.step \in {3, 4, 5}
  BY <1>1 DEF Forms
<1>3. CASE SaveEvent
  <2> PICK current : current = AgreementWasCurrent(TextIsDirty)
    OBVIOUS
  <2>1. current \in BOOLEAN /\ (current => /\ ~NeedsAcceptance(editor.base) /\ editor.answers = editor.base.answers
                                           /\ editor.text = editor.base.text)
    BY DEF AgreementWasCurrent, TextIsDirty, AnswersAreDirty
  <2>2. \/ Starts("save", <<"text", "answers">>, current)
        \/ editor.step = 3 /\ Starts("save", <<"text">>, current)
    BY <1>2, <1>3 DEF SaveEvent
  <2>3. /\ Begins(editor, "save", Head(<<"text", "answers">>), Tail(<<"text", "answers">>), current)
        /\ editor.step = 3 => Begins(editor, "save", Head(<<"text">>), Tail(<<"text">>), current)
    BY <2>1, ChainsAre DEF Begins
  <2>4. QED
    BY <1>1, <2>2, <2>3, StartKeeps
<1>4. CASE ContinueToRequirements
  <2>1. Begins(editor, "requirements", Head(<<"text">>), Tail(<<"text">>), FALSE)
    BY <1>4, ChainsAre DEF Begins, ContinueToRequirements
  <2>2. QED
    BY <1>1, <1>4, <2>1, StartKeeps DEF ContinueToRequirements
<1>5. CASE ContinueToAgreement
  <2> PICK current : current = AgreementWasCurrent(FALSE)
    OBVIOUS
  <2>1. current \in BOOLEAN /\ (current => ~NeedsAcceptance(editor.base) /\ editor.answers = editor.base.answers)
    BY DEF AgreementWasCurrent, AnswersAreDirty
  <2>2. editor.step = 4 /\ editor.text = editor.base.text
    BY <1>1, <1>5 DEF ContinueToAgreement, FormRests
  <2>3. Begins(editor, "agreement", Head(<<"answers">>), Tail(<<"answers">>), current)
    BY <2>1, <2>2, ChainsAre DEF Begins
  <2>4. QED
    BY <1>1, <1>5, <2>3, StartKeeps DEF ContinueToAgreement
<1>6. CASE SubmitAgreement
  <2>1. Begins(editor, "accept", Head(<<"text", "answers", "accept">>), Tail(<<"text", "answers", "accept">>), FALSE)
    BY <1>6, ChainsAre DEF Begins, SubmitAgreement, AgreementShows
  <2>2. QED
    BY <1>1, <1>6, <2>1, StartKeeps DEF SubmitAgreement
<1>7. QED
  BY <1>3, <1>4, <1>5, <1>6

-----------------------------------------------------------------------------
(* The answers to the editor *)

\* What the editor adopts: the version that its write made.
Adopts(p, c, e, t) ==
    /\ p \in Forms /\ p.doing # None /\ FormRests(p) /\ ChainFits(p, c)
    /\ c.answer = "ok" /\ e = c.context /\ t = IF c.kind = "text" THEN c.context.text ELSE p.text

LEMMA AdoptedIs ==
  ASSUME NEW p, NEW c, NEW e, NEW t, Adopts(p, c, e, t)
  PROVE  /\ p \in Forms /\ p.doing \in Doings /\ e \in Events /\ t \in Texts /\ c \in EditorWrites
         /\ p.base \in Events /\ p.answers \in Answers \cup {None} /\ p.step \in {3, 4, 5}
         /\ p.flow \in {"creation", "plain"}
         /\ c.kind \in {"text", "answers", "accept"}
         /\ c.kind = "text" => /\ e.answers = p.base.answers /\ t = e.text
                               /\ c.text = p.base.text => e = p.base
         /\ c.kind = "answers" => /\ e.text = p.base.text /\ e.answers = c.answers /\ t = p.text
                                  /\ c.answers = p.base.answers => e = p.base
         /\ p.step # 3 => p.text = p.base.text
         /\ p.doing.current => ~NeedsAcceptance(p.base) /\ ~p.doing.revised
         /\ p.doing.action = "agreement" => p.step # 3
         /\ TextFits(p, c) /\ AnswersFit(p, c) /\ AcceptFits(p, c)
<1>1. p \in Forms /\ p.doing # None /\ ChainFits(p, c) /\ c.answer = "ok" /\ e = c.context /\ FormRests(p)
      /\ t = IF c.kind = "text" THEN e.text ELSE p.text
  BY DEF Adopts
<1>2. /\ p.doing \in Doings /\ p.base \in Events /\ p.answers \in Answers \cup {None} /\ p.step \in {3, 4, 5}
      /\ p.text \in Texts /\ p.flow \in {"creation", "plain"}
  BY <1>1 DEF Forms
<1>3. /\ c \in EditorWrites /\ c.kind # "publish" /\ c.token = p.base /\ AnswerFits(c)
      /\ p.doing.current => ~NeedsAcceptance(p.base) /\ ~p.doing.revised
      /\ p.doing.action = "agreement" => p.step # 3
      /\ TextFits(p, c) /\ AnswersFit(p, c) /\ AcceptFits(p, c)
  BY <1>1 DEF ChainFits
<1>4. c.kind \in {"text", "answers", "accept"}
  BY <1>3 DEF EditorWrites
<1>5. /\ e \in Events
      /\ c.kind = "text" => /\ e.text = c.text /\ e.answers = p.base.answers
                            /\ c.text = p.base.text => e = p.base
      /\ c.kind = "answers" => /\ e.text = p.base.text /\ e.answers = c.answers
                               /\ c.answers = p.base.answers => e = p.base
  BY <1>1, <1>3 DEF AnswerFits
<1>6. t \in Texts
  BY <1>1, <1>2, <1>5 DEF Events
<1>7. p.step # 3 => p.text = p.base.text
  BY <1>1 DEF FormRests
<1>8. QED
  BY <1>1, <1>2, <1>3, <1>4, <1>5, <1>6, <1>7

\* The next write of the chain
Follows(p, c, e, t, q, n) ==
    /\ q = [p EXCEPT !.base = e, !.text = t, !.doing.left = Tail(p.doing.left)]
    /\ n = [kind |-> Head(p.doing.left), token |-> e, text |-> t, answers |-> p.answers, agreed |-> p.doing.agreed,
            shown |-> None, before |-> p.doing.shown, answer |-> "none", context |-> None]

LEMMA FollowsIs ==
  ASSUME NEW p, NEW c, NEW e, NEW t, NEW q, NEW n, Adopts(p, c, e, t), p.doing.left # <<>>, Follows(p, c, e, t, q, n)
  PROVE  /\ \/ c.kind = "text" /\ p.doing.action = "save" /\ n.kind = "answers" /\ q.doing.left = <<>>
            \/ c.kind = "text" /\ p.doing.action = "accept" /\ n.kind = "answers" /\ q.doing.left = <<"accept">>
            \/ c.kind = "answers" /\ p.doing.action = "accept" /\ n.kind = "accept" /\ q.doing.left = <<>>
         /\ q \in Forms /\ q.base = e /\ q.text = t /\ q.answers = p.answers /\ q.step = p.step /\ q.flow = p.flow
         /\ q.doing # None /\ q.doing.action = p.doing.action /\ q.doing.current = p.doing.current
         /\ q.doing.revised = p.doing.revised /\ q.doing.agreed = p.doing.agreed /\ q.doing.shown = p.doing.shown
         /\ n \in EditorWrites /\ n.token = e /\ n.answers = p.answers /\ n.agreed = p.doing.agreed
         /\ n.before = p.doing.shown /\ n.answer = "none"
<1> PICK d : d = p.doing
  OBVIOUS
<1> PICK left : left = Tail(d.left)
  OBVIOUS
<1> PICK kind : kind = Head(d.left)
  OBVIOUS
<1> PICK f : f = [d EXCEPT !.left = left]
  OBVIOUS
<1>1. /\ p \in Forms /\ d \in Doings /\ e \in Events /\ t \in Texts /\ c.kind \in {"text", "answers", "accept"}
      /\ p.answers \in Answers \cup {None} /\ TextFits(p, c) /\ AnswersFit(p, c) /\ AcceptFits(p, c)
  BY AdoptedIs
<1>2. \/ c.kind = "text" /\ d.action = "save" /\ d.left = <<"answers">>
      \/ c.kind = "text" /\ d.action = "accept" /\ d.left = <<"answers", "accept">>
      \/ c.kind = "answers" /\ d.action = "accept" /\ d.left = <<"accept">>
  BY <1>1 DEF TextFits, AnswersFit, AcceptFits
<1>3. \/ c.kind = "text" /\ d.action = "save" /\ kind = "answers" /\ left = <<>>
      \/ c.kind = "text" /\ d.action = "accept" /\ kind = "answers" /\ left = <<"accept">>
      \/ c.kind = "answers" /\ d.action = "accept" /\ kind = "accept" /\ left = <<>>
  BY <1>2, ChainsAre
<1>4. left \in Chains /\ kind \in {"answers", "accept"}
  BY <1>3 DEF Chains
<1>5. /\ f \in Doings /\ f.left = left /\ f.action = d.action /\ f.current = d.current /\ f.revised = d.revised
      /\ f.agreed = d.agreed /\ f.shown = d.shown /\ d.agreed \in Contents \cup {None} /\ d.shown \in Contents
  BY <1>1, <1>4 DEF Doings
<1>6. f \in Doings \cup {None} /\ f # None
  BY <1>5, OpenForms
<1>7. q = [p EXCEPT !.base = e, !.text = t, !.doing = f]
  BY <1>1 DEF Follows
<1>8. /\ q \in Forms /\ q.base = e /\ q.text = t /\ q.answers = p.answers /\ q.step = p.step /\ q.flow = p.flow
      /\ q.doing = f
  BY <1>1, <1>6, <1>7 DEF Forms
<1>9. n = [kind |-> kind, token |-> e, text |-> t, answers |-> p.answers, agreed |-> d.agreed,
           shown |-> None, before |-> d.shown, answer |-> "none", context |-> None]
  BY DEF Follows
<1>10. /\ n \in EditorWrites /\ n.kind = kind /\ n.token = e /\ n.answers = p.answers /\ n.agreed = d.agreed
       /\ n.before = d.shown /\ n.answer = "none"
  BY <1>1, <1>4, <1>5, <1>9 DEF EditorWrites
<1>11. QED
  BY <1>3, <1>5, <1>6, <1>8, <1>10

LEMMA NextFits ==
  ASSUME NEW p, NEW c, NEW e, NEW t, NEW q, NEW n, Adopts(p, c, e, t), p.doing.left # <<>>, Follows(p, c, e, t, q, n)
  PROVE  FormFits(q, n) /\ WriteFits(n) /\ n \in EditorWrites
<1>1. /\ \/ c.kind = "text" /\ p.doing.action = "save" /\ n.kind = "answers" /\ q.doing.left = <<>>
         \/ c.kind = "text" /\ p.doing.action = "accept" /\ n.kind = "answers" /\ q.doing.left = <<"accept">>
         \/ c.kind = "answers" /\ p.doing.action = "accept" /\ n.kind = "accept" /\ q.doing.left = <<>>
      /\ q \in Forms /\ q.base = e /\ q.text = t /\ q.answers = p.answers /\ q.step = p.step /\ q.flow = p.flow
      /\ q.doing # None /\ q.doing.action = p.doing.action /\ q.doing.current = p.doing.current
      /\ q.doing.revised = p.doing.revised /\ q.doing.agreed = p.doing.agreed /\ q.doing.shown = p.doing.shown
      /\ n \in EditorWrites /\ n.token = e /\ n.answers = p.answers /\ n.agreed = p.doing.agreed
      /\ n.before = p.doing.shown /\ n.answer = "none"
  BY FollowsIs
<1>2. /\ e \in Events /\ p.base \in Events /\ p.step \in {3, 4, 5} /\ p.flow \in {"creation", "plain"}
      /\ c.kind = "text" => /\ e.answers = p.base.answers /\ t = e.text
                            /\ c.text = p.base.text => e = p.base
      /\ c.kind = "answers" => /\ e.text = p.base.text /\ e.answers = c.answers /\ t = p.text
                               /\ c.answers = p.base.answers => e = p.base
      /\ p.step # 3 => p.text = p.base.text
      /\ p.doing.current => ~NeedsAcceptance(p.base) /\ ~p.doing.revised
      /\ p.doing.action = "agreement" => p.step # 3
      /\ TextFits(p, c) /\ AnswersFit(p, c) /\ AcceptFits(p, c)
  BY AdoptedIs
<1>3. /\ c.kind = "text" => /\ p.doing.shown.answers = p.base.answers
                            /\ ~p.doing.revised \/ p.step # 3 => e = p.base
                            /\ p.doing.current /\ Agreeing(p) => p.answers = p.base.answers
      /\ p.doing.action = "accept" =>
            /\ p.step # 3 /\ (p.flow = "plain" => p.step = 5) /\ ~p.doing.current
            /\ c.kind \in {"text", "answers"} => Stands(p, p.doing.agreed)
            /\ c.kind = "answers" => c.answers = p.answers
  BY <1>2 DEF TextFits, AcceptFits
<1>4. FormRests(q) /\ FormAgrees(q)
  BY <1>1, <1>2 DEF FormRests, FormAgrees
<1>5. n.kind = "accept" => n.agreed = Content(n.token) \/ ~NeedsAcceptance(n.token)
  <2> SUFFICES ASSUME n.kind = "accept" PROVE n.agreed = Content(e) \/ ~NeedsAcceptance(e)
    BY <1>1
  <2>1. Stands(p, n.agreed) /\ e.text = p.base.text /\ e.answers = p.answers
        /\ (p.answers = p.base.answers => e = p.base)
    BY <1>1, <1>2, <1>3
  <2>2. QED
    BY <2>1 DEF Stands, Content
<1>6. WriteFits(n)
  BY <1>1, <1>2, <1>3, <1>5 DEF WriteFits
<1>7. AnswerFits(n) /\ TextFits(q, n)
  BY <1>1 DEF AnswerFits, TextFits
<1>8. AnswersFit(q, n)
  <2>1. n.kind = "answers" => /\ q.doing.left \in {<<>>, <<"accept">>}
                              /\ q.doing.left = <<>> => q.doing.action \in {"save", "agreement"}
                              /\ q.doing.left = <<"accept">> => q.doing.action = "accept"
    BY <1>1, ChainsAre
  <2>2. n.kind = "answers" /\ q.doing.current /\ (Agreeing(q) \/ q.doing.action = "agreement") => n.answers = q.base.answers
    BY <1>1, <1>2, <1>3 DEF Agreeing
  <2>3. QED
    BY <2>1, <2>2 DEF AnswersFit
<1>9. AcceptFits(q, n)
  <2>1. n.kind = "accept" => q.doing.left = <<>> /\ q.doing.action = "accept"
    BY <1>1
  <2>2. p.doing.action = "accept" /\ n.kind \in {"text", "answers"} => e = p.base /\ Stands(p, p.doing.agreed)
    BY <1>1, <1>3
  <2>3. p.doing.action = "accept" /\ n.kind \in {"text", "answers"} => Stands(q, q.doing.agreed)
    BY <1>1, <2>2 DEF Stands
  <2>4. QED
    BY <1>1, <1>3, <2>1, <2>3 DEF AcceptFits
<1>10. q.doing.current => ~NeedsAcceptance(q.base) /\ ~q.doing.revised
  BY <1>1, <1>2, <1>3
<1>11. ChainFits(q, n)
  BY <1>1, <1>2, <1>6, <1>7, <1>8, <1>9, <1>10 DEF ChainFits
<1>12. QED
  BY <1>1, <1>4, <1>6, <1>11 DEF FormFits

\* The page at rest, with the version that the last write of its chain made
Rests(p, e, t, r) == r = [[p EXCEPT !.base = e, !.text = t] EXCEPT !.doing = None]

LEMMA RestsIs ==
  ASSUME NEW p, NEW c, NEW e, NEW t, NEW r, Adopts(p, c, e, t), Rests(p, e, t, r)
  PROVE  /\ r \in Forms /\ r.base = e /\ r.text = t /\ r.answers = p.answers /\ r.step = p.step /\ r.flow = p.flow
         /\ r.doing = None /\ r.box = p.box /\ r.agreed = p.agreed /\ r.write = p.write
<1>1. p \in Forms /\ e \in Events /\ t \in Texts
  BY AdoptedIs
<1> PICK adopted : adopted = [p EXCEPT !.base = e, !.text = t]
  OBVIOUS
<1>2. /\ adopted \in Forms /\ adopted.base = e /\ adopted.text = t /\ adopted.answers = p.answers /\ adopted.step = p.step
      /\ adopted.flow = p.flow /\ adopted.box = p.box /\ adopted.agreed = p.agreed /\ adopted.write = p.write
  BY <1>1 DEF Forms
<1>3. r = [adopted EXCEPT !.doing = None]
  BY DEF Rests
<1>4. QED
  BY <1>2, <1>3 DEF Forms

LEMMA FormSteps ==
  ASSUME NEW s \in Forms, NEW step \in {3, 4, 5}, NEW q, q = [s EXCEPT !.step = step]
  PROVE  /\ q \in Forms /\ q.base = s.base /\ q.text = s.text /\ q.answers = s.answers /\ q.flow = s.flow
         /\ q.doing = s.doing /\ q.box = s.box /\ q.agreed = s.agreed /\ q.step = step
  BY DEF Forms

LEMMA FormDisagrees ==
  ASSUME NEW r \in Forms, NEW s, s = WithoutAgreement(r)
  PROVE  /\ s \in Forms /\ s.base = r.base /\ s.text = r.text /\ s.answers = r.answers /\ s.flow = r.flow
         /\ s.doing = r.doing /\ s.box = FALSE
<1>1. s = [r EXCEPT !.invalidated = TRUE, !.box = FALSE, !.agreed = None]
  BY DEF WithoutAgreement
<1>2. QED
  BY ZenonT(60), <1>1 DEF Forms

\* The two halves of Requirements
Asks(r, a, b, u) ==
    r \in Forms /\ a \in Answers \cup {None} /\ b \in BOOLEAN /\ u = [r EXCEPT !.answers = a, !.box = b]
Ticks(u, b, i, agreed, s) ==
    /\ u \in Forms /\ b \in BOOLEAN /\ i \in BOOLEAN /\ agreed \in Contents \cup {None}
    /\ s = [u EXCEPT !.boxWas = b, !.invalidated = i, !.agreed = agreed]

LEMMA FormAsks ==
  ASSUME NEW r, NEW a, NEW b, NEW u, Asks(r, a, b, u)
  PROVE  /\ u \in Forms /\ u.base = r.base /\ u.text = r.text /\ u.answers = a /\ u.flow = r.flow
         /\ u.doing = r.doing /\ u.box = b
  BY DEF Forms, Asks

LEMMA FormTicks ==
  ASSUME NEW u, NEW b, NEW i, NEW agreed, NEW s, Ticks(u, b, i, agreed, s)
  PROVE  /\ s \in Forms /\ s.base = u.base /\ s.text = u.text /\ s.answers = u.answers /\ s.flow = u.flow
         /\ s.doing = u.doing /\ s.box = u.box
<1>1. s \in Forms
  BY ZenonT(60) DEF Forms, Ticks
<1>2. QED
  BY <1>1 DEF Forms, Ticks

LEMMA FormRequires ==
  ASSUME NEW r \in Forms, NEW e \in Events, NEW b \in BOOLEAN, NEW agreed \in Contents \cup {None}, NEW s,
         s = Requirements(r, e, b, agreed)
  PROVE  /\ s \in Forms /\ s.base = r.base /\ s.text = r.text /\ s.answers = e.answers /\ s.flow = r.flow
         /\ s.doing = r.doing /\ s.box = b
<1>1. PICK i : i = ~b
  OBVIOUS
<1>2. PICK a : a = e.answers
  OBVIOUS
<1>3. i \in BOOLEAN /\ a \in Answers \cup {None}
  BY <1>1, <1>2 DEF Events
<1>4. PICK u : u = [r EXCEPT !.answers = a, !.box = b]
  OBVIOUS
<1>5. Asks(r, a, b, u)
  BY <1>3, <1>4 DEF Asks
<1>6. /\ u \in Forms /\ u.base = r.base /\ u.text = r.text /\ u.answers = a /\ u.flow = r.flow
      /\ u.doing = r.doing /\ u.box = b
  BY <1>5, FormAsks
<1>7. s = [u EXCEPT !.boxWas = b, !.invalidated = i, !.agreed = agreed]
  BY <1>1, <1>2, <1>4 DEF Requirements
<1>8. Ticks(u, b, i, agreed, s)
  BY <1>3, <1>6, <1>7 DEF Ticks
<1>9. QED
  BY <1>2, <1>6, <1>8, FormTicks

\* The text was the last write: what was agreed is still displayed, or no longer agreed.
LEMMA TextEnds ==
  ASSUME NEW p, NEW c, NEW e, NEW t, NEW r, NEW q, NEW step \in {p.step, 4},
         Adopts(p, c, e, t), Rests(p, e, t, r), c.kind = "text", p.doing.left = <<>>,
         q = [(IF p.doing.revised THEN WithoutAgreement(r) ELSE r) EXCEPT !.step = step]
  PROVE  FormFits(q, None)
<1>1. /\ r \in Forms /\ r.base = e /\ r.text = t /\ r.answers = p.answers /\ r.step = p.step /\ r.flow = p.flow
      /\ r.doing = None /\ r.box = p.box /\ r.agreed = p.agreed
  BY RestsIs
<1>2. /\ p.step \in {3, 4, 5} /\ p.flow \in {"creation", "plain"} /\ t = e.text /\ TextFits(p, c)
      /\ e.answers = p.base.answers /\ (c.text = p.base.text => e = p.base)
  BY AdoptedIs
<1>3. /\ p.step = 3
      /\ p.flow = "creation" /\ p.box /\ ~p.doing.revised => Stands(p, p.agreed) /\ e = p.base
  BY <1>2 DEF TextFits
<1> PICK s : s = IF p.doing.revised THEN WithoutAgreement(r) ELSE r
  OBVIOUS
<1>4. /\ s \in Forms /\ s.base = e /\ s.text = t /\ s.answers = p.answers /\ s.flow = p.flow /\ s.doing = None
      /\ s.box => ~p.doing.revised /\ p.box /\ s.agreed = p.agreed
  <2>1. CASE p.doing.revised
    BY <1>1, <2>1, FormDisagrees
  <2>2. CASE ~p.doing.revised
    BY <1>1, <2>2
  <2>3. QED
    BY <2>1, <2>2
<1>5. /\ q \in Forms /\ q.base = e /\ q.text = t /\ q.answers = p.answers /\ q.flow = p.flow /\ q.doing = None
      /\ q.box = s.box /\ q.agreed = s.agreed /\ q.step \in {3, 4}
  <2>1. step \in {3, 4} /\ s \in Forms /\ q = [s EXCEPT !.step = step]
    BY <1>3, <1>4
  <2>2. QED
    BY <1>4, <2>1, FormSteps
<1>6. q.box /\ Agreeing(q) => Stands(q, q.agreed)
  BY <1>3, <1>4, <1>5 DEF Agreeing, Stands
<1>7. QED
  BY <1>2, <1>5, <1>6 DEF FormFits, FormRests, FormAgrees, ChainFits

\* The answers were the last write: the box is ticked as the version is accepted.
LEMMA AnswersEnd ==
  ASSUME NEW p, NEW c, NEW e, NEW t, NEW r, NEW q, NEW step \in {p.step, 5}, NEW agreed \in Contents \cup {None},
         Adopts(p, c, e, t), Rests(p, e, t, r), c.kind = "answers", p.doing.left = <<>>,
         step = p.step \/ p.doing.action = "agreement",
         q = [Requirements(r, e, p.doing.current, agreed) EXCEPT !.step = step]
  PROVE  FormFits(q, None)
<1>1. /\ r \in Forms /\ r.base = e /\ r.text = t /\ r.answers = p.answers /\ r.step = p.step /\ r.flow = p.flow
      /\ r.doing = None
  BY RestsIs
<1>2. /\ p.step \in {3, 4, 5} /\ p.flow \in {"creation", "plain"} /\ p.doing \in Doings /\ e \in Events
      /\ t = p.text /\ e.text = p.base.text /\ (c.answers = p.base.answers => e = p.base) /\ AnswersFit(p, c)
      /\ p.step # 3 => p.text = p.base.text
      /\ p.doing.current => ~NeedsAcceptance(p.base)
      /\ p.doing.action = "agreement" => p.step # 3
  BY AdoptedIs
<1> PICK b : b = p.doing.current
  OBVIOUS
<1>3. b \in BOOLEAN
  BY <1>2 DEF Doings
<1>4. b /\ (Agreeing(p) \/ p.doing.action = "agreement") => e = p.base /\ ~NeedsAcceptance(e)
  BY <1>2 DEF AnswersFit
<1> PICK s : s = Requirements(r, e, b, agreed)
  OBVIOUS
<1>5. /\ s \in Forms /\ s.base = e /\ s.text = t /\ s.answers = e.answers /\ s.flow = p.flow /\ s.doing = None
      /\ s.box = b
  BY <1>1, <1>2, <1>3, FormRequires
<1>6. q = [s EXCEPT !.step = step] /\ step \in {3, 4, 5}
  BY <1>2
<1>7. /\ q \in Forms /\ q.base = e /\ q.text = t /\ q.answers = e.answers /\ q.flow = p.flow /\ q.doing = None
      /\ q.box = b /\ q.step = step
  BY <1>5, <1>6, FormSteps
<1>8. b /\ Agreeing(q) => ~NeedsAcceptance(e)
  BY <1>4, <1>7 DEF Agreeing
<1>9. FormRests(q) /\ FormAgrees(q)
  BY <1>2, <1>7, <1>8 DEF FormRests, FormAgrees, Stands
<1>10. QED
  BY <1>7, <1>9 DEF FormFits, ChainFits

LEMMA AnsweredKeeps ==
  ASSUME EditorKept, EditorAnswered
  PROVE  EditorKept' /\ EditorStep
<1>1. PICK p : p = editor
  OBVIOUS
<1>2. PICK c : c = call
  OBVIOUS
<1>3. /\ p \in Forms /\ FormRests(p) /\ ChainFits(p, c) /\ preview = Closed /\ p.doing # None
      /\ UNCHANGED <<event, consents, strays, reviewed>>
  BY <1>1, <1>2, FormIs DEF EditorAnswered
<1>4. FormFits(Closed, None) /\ PreviewFits(LoadingPage) /\ PreviewFits(Closed)
  <2>1. DOMAIN LoadingPage = {"open", "base"} /\ \A v \in Previews : "tiers" \in DOMAIN v
    BY DEF LoadingPage, Previews
  <2>2. LoadingPage \notin Previews
    BY <2>1
  <2>3. QED
    BY <2>2, OpenForms DEF FormFits, PreviewFits
<1>5. CASE c.answer # "ok"
  <2>1. PICK w : w = IF c.answer = "conflict" THEN "conflict" ELSE "unknown"
    OBVIOUS
  <2>2. PICK q : q = [p EXCEPT !.doing = None, !.write = w]
    OBVIOUS
  <2>3. editor' = q /\ call' = None /\ preview' = Closed
    BY <1>1, <1>2, <1>3, <1>5, <2>1, <2>2 DEF EditorAnswered
  <2>4. w \in {"conflict", "unknown"} /\ p \in Forms
    BY <1>3, <2>1
  <2>5. /\ q \in Forms /\ q.step = p.step /\ q.text = p.text /\ q.base = p.base /\ q.doing = None
        /\ q.write # "ready"
    BY <2>2, <2>4 DEF Forms
  <2>6. FormFits(q, None)
    BY <1>3, <2>5 DEF FormFits, FormRests, FormAgrees, ChainFits
  <2>7. QED
    BY <1>3, <1>4, <2>3, <2>6, FormsMove
<1>6. CASE c.answer = "ok"
  <2>1. PICK e : e = c.context
    OBVIOUS
  <2>2. PICK t : t = IF c.kind = "text" THEN c.context.text ELSE p.text
    OBVIOUS
  <2>3. Adopts(p, c, e, t)
    BY <1>3, <1>6, <2>1, <2>2 DEF Adopts
  <2>4. Adopted(c) = [p EXCEPT !.base = e, !.text = t]
    BY <1>1, <2>1, <2>2 DEF Adopted
  <2>5. CASE p.doing.left # <<>>
    <3>1. PICK left : left = Tail(p.doing.left)
      OBVIOUS
    <3>2. PICK q : q = [p EXCEPT !.base = e, !.text = t, !.doing.left = left]
      OBVIOUS
    <3>3. PICK n : n = [kind |-> Head(p.doing.left), token |-> e, text |-> t, answers |-> p.answers,
                        agreed |-> p.doing.agreed, shown |-> None, before |-> p.doing.shown,
                        answer |-> "none", context |-> None]
      OBVIOUS
    <3>4. Follows(p, c, e, t, q, n)
      BY <3>1, <3>2, <3>3 DEF Follows
    <3>5. FormFits(q, n) /\ WriteFits(n) /\ n \in EditorWrites
      BY <2>3, <2>5, <3>4, NextFits
    <3>6. /\ q.base = e /\ q.text = t /\ q.answers = p.answers /\ q.doing.agreed = p.doing.agreed
          /\ q.doing.shown = p.doing.shown
      BY <2>3, <2>5, <3>4, FollowsIs
    <3>7. /\ editor' = [Adopted(c) EXCEPT !.doing.left = Tail(editor.doing.left)]
          /\ call' = [Request(Head(editor.doing.left), editor', editor'.text) EXCEPT !.agreed = editor'.doing.agreed]
          /\ preview' = preview
      BY <1>1, <1>2, <1>6, <2>5 DEF EditorAnswered
    <3>8. editor' = q
      BY <1>1, <1>3, <2>4, <3>1, <3>2, <3>7 DEF Forms
    <3>9. call' = n
      <4>1. PICK m : m = Request(Head(p.doing.left), q, t)
        OBVIOUS
      <4>2. m = [kind |-> Head(p.doing.left), token |-> e, text |-> t, answers |-> p.answers,
                 agreed |-> q.agreed, shown |-> None, before |-> p.doing.shown,
                 answer |-> "none", context |-> None]
        BY <3>6, <4>1 DEF Request, Token
      <4>3. PICK g : g = p.doing.agreed
        OBVIOUS
      <4>4. call' = [m EXCEPT !.agreed = g]
        BY <1>1, <3>6, <3>7, <3>8, <4>1, <4>3
      <4>5. n = [m EXCEPT !.agreed = g]
        BY <3>3, <4>2, <4>3
      <4>6. QED
        BY <4>4, <4>5
    <3>10. QED
      BY <1>3, <1>4, <3>5, <3>7, <3>8, <3>9, FormsMove
  <2>6. CASE p.doing.left = <<>> /\ p.doing.action = "accept"
    <3>1. editor' = Closed /\ preview' = LoadingPage /\ call' = None
      BY <1>1, <1>2, <1>6, <2>6 DEF EditorAnswered, Closed, LoadingPage
    <3>2. QED
      BY <1>3, <1>4, <3>1, FormsMove
  <2>7. CASE p.doing.left = <<>> /\ p.doing.action # "accept"
    <3>1. PICK adopted : adopted = [p EXCEPT !.base = e, !.text = t]
      OBVIOUS
    <3>2. PICK r : r = [adopted EXCEPT !.doing = None]
      OBVIOUS
    <3>3. editor' = Done(adopted) /\ call' = None /\ preview' = Closed
      BY <1>1, <1>2, <1>3, <1>6, <2>4, <2>7, <3>1 DEF EditorAnswered
    <3>4. Rests(p, e, t, r)
      BY <3>1, <3>2 DEF Rests
    <3>5. /\ p.doing \in Doings /\ c.kind \in {"text", "answers", "accept"}
          /\ TextFits(p, c) /\ AnswersFit(p, c) /\ AcceptFits(p, c)
      BY <2>3, AdoptedIs
    <3>6. PICK d : d = p.doing
      OBVIOUS
    <3>7. /\ adopted.base = e /\ adopted.doing = d /\ adopted.agreed = p.agreed /\ adopted.step = p.step
          /\ d.agreed \in Contents \cup {None} /\ p.agreed \in Contents \cup {None}
      BY <1>3, <3>1, <3>5, <3>6 DEF Forms, Doings
    <3>8. r \in Forms /\ r.step = p.step
      BY <2>3, <3>4, RestsIs
    <3>9. \/ c.kind = "text" /\ d.action \in {"requirements", "save"}
          \/ c.kind = "answers" /\ d.action \in {"agreement", "save"}
      BY <2>7, <3>5, <3>6 DEF TextFits, AnswersFit, AcceptFits
    <3>10. CASE c.kind = "text" /\ d.action = "requirements"
      <4>1. PICK q : q = [(IF d.revised THEN WithoutAgreement(r) ELSE r) EXCEPT !.step = 4]
        OBVIOUS
      <4>2. Done(adopted) = q
        BY <3>2, <3>7, <3>10, <4>1 DEF Done
      <4>3. FormFits(q, None)
        BY <2>3, <2>7, <3>4, <3>6, <3>10, <4>1, TextEnds
      <4>4. QED
        BY <1>3, <1>4, <3>3, <4>2, <4>3, FormsMove
    <3>11. CASE c.kind = "text" /\ d.action = "save"
      <4>1. PICK s : s = IF d.revised THEN WithoutAgreement(r) ELSE r
        OBVIOUS
      <4>2. Done(adopted) = s
        BY <1>2, <3>2, <3>7, <3>11, <4>1 DEF Done
      <4>3. s \in Forms /\ s.step = p.step
        BY <3>8, <4>1 DEF WithoutAgreement, Forms
      <4>4. PICK q : q = [s EXCEPT !.step = p.step]
        OBVIOUS
      <4>5. q = s
        BY <4>3, <4>4 DEF Forms
      <4>6. FormFits(q, None)
        BY <2>3, <2>7, <3>4, <3>6, <3>11, <4>1, <4>4, TextEnds
      <4>7. QED
        BY <1>3, <1>4, <3>3, <4>2, <4>5, <4>6, FormsMove
    <3>12. CASE c.kind = "answers" /\ d.action = "agreement"
      <4>1. PICK g : g = IF d.current THEN d.agreed ELSE None
        OBVIOUS
      <4>2. PICK q : q = [Requirements(r, e, d.current, g) EXCEPT !.step = 5]
        OBVIOUS
      <4>3. Done(adopted) = q
        BY <3>2, <3>7, <3>12, <4>1, <4>2 DEF Done
      <4>4. g \in Contents \cup {None}
        BY <3>7, <4>1
      <4>5. FormFits(q, None)
        BY <2>3, <2>7, <3>4, <3>6, <3>12, <4>2, <4>4, AnswersEnd
      <4>6. QED
        BY <1>3, <1>4, <3>3, <4>3, <4>5, FormsMove
    <3>13. CASE c.kind = "answers" /\ d.action = "save"
      <4>1. PICK g : g = IF d.current THEN p.agreed ELSE None
        OBVIOUS
      <4>2. PICK s : s = Requirements(r, e, d.current, g)
        OBVIOUS
      <4>3. Done(adopted) = s
        BY <1>2, <3>2, <3>7, <3>13, <4>1, <4>2 DEF Done
      <4>4. g \in Contents \cup {None}
        BY <3>7, <4>1
      <4>5. s \in Forms /\ s.step = p.step
        <5>1. e \in Events /\ d.current \in BOOLEAN
          BY <2>3, <3>5, <3>6, AdoptedIs DEF Doings
        <5>2. s.step = r.step
          BY <3>8, <4>2 DEF Requirements, Forms
        <5>3. QED
          BY <3>8, <4>2, <4>4, <5>1, <5>2, FormRequires
      <4>6. PICK q : q = [s EXCEPT !.step = p.step]
        OBVIOUS
      <4>7. q = s
        BY <4>5, <4>6 DEF Forms
      <4>8. FormFits(q, None)
        BY <2>3, <2>7, <3>4, <3>6, <3>13, <4>2, <4>4, <4>6, AnswersEnd
      <4>9. QED
        BY <1>3, <1>4, <3>3, <4>3, <4>7, <4>8, FormsMove
    <3>14. QED
      BY <3>9, <3>10, <3>11, <3>12, <3>13
  <2>8. QED
    BY <2>5, <2>6, <2>7
<1>7. QED
  BY <1>5, <1>6

-----------------------------------------------------------------------------
(* The preview *)

\* The preview moves, and its write with it.
LEMMA PreviewMoves ==
  ASSUME EditorKept, UNCHANGED <<event, consents, editor, strays, reviewed>>, editor = Closed,
         NEW v, NEW c, preview' = v, call' = c, PreviewFits(v), c # None => c \in EditorWrites /\ WriteFits(c)
  PROVE  EditorKept' /\ EditorStep
<1>1. FormFits(Closed, c) /\ editor' = Closed
  BY DEF FormFits
<1>2. QED
  BY <1>1, FormsMove

LEMMA PreviewWaits ==
  ASSUME EditorKept, UNCHANGED <<event, consents, editor, call, strays, reviewed>>, editor = Closed,
         NEW v, preview' = v, PreviewFits(v)
  PROVE  EditorKept' /\ EditorStep
<1>1. PICK c : c = call
  OBVIOUS
<1>2. call' = c /\ (c # None => c \in EditorWrites /\ WriteFits(c))
  BY <1>1 DEF EditorKept
<1>3. QED
  BY <1>2, PreviewMoves

LEMMA LoadingFits == PreviewFits(LoadingPage) /\ PreviewFits(Closed) /\ LoadingPage \notin Previews
<1>1. DOMAIN LoadingPage = {"open", "base"} /\ \A v \in Previews : "tiers" \in DOMAIN v
  BY DEF LoadingPage, Previews
<1>2. LoadingPage \notin Previews
  BY <1>1
<1>3. QED
  BY <1>2, OpenForms DEF PreviewFits

LEMMA PreviewShows ==
  ASSUME EditorKept, preview.open
  PROVE  /\ editor = Closed
         /\ preview = LoadingPage \/ (preview \in Previews /\ PreviewFits(preview))
         /\ preview.base # None => preview \in Previews
<1>1. preview \in Previews \cup {Closed, LoadingPage} /\ preview # Closed /\ PreviewFits(preview)
  BY OpenForms DEF EditorKept, PreviewFits
<1>2. QED
  BY <1>1, OpenForms DEF EditorKept

LEMMA OpenPreviewKeeps ==
  ASSUME EditorKept, OpenPreview \/ PreviewLoads
  PROVE  EditorKept' /\ EditorStep
<1>1. CASE OpenPreview
  <2>1. editor = Closed
    BY <1>1, OpenForms DEF OpenPreview, EditorKept, FormFits
  <2>2. preview' = LoadingPage /\ UNCHANGED <<event, consents, editor, call, strays, reviewed>>
    BY <1>1 DEF OpenPreview, LoadingPage
  <2>3. QED
    BY <2>1, <2>2, LoadingFits, PreviewWaits
<1>2. CASE PreviewLoads
  <2>1. editor = Closed /\ event \in Events /\ event.tiers \in Nat
    BY <1>2, PreviewShows DEF PreviewLoads, EditorKept, EventFits, Events
  <2>2. PICK x \in 0 .. event.tiers :
          preview' = [open |-> TRUE, base |-> event, tiers |-> x, confirming |-> FALSE,
                      publish |-> "ready", doing |-> "none", fresh |-> None]
    BY <1>2 DEF PreviewLoads
  <2>3. PICK v : v = [open |-> TRUE, base |-> event, tiers |-> x, confirming |-> FALSE,
                      publish |-> "ready", doing |-> "none", fresh |-> None]
    OBVIOUS
  <2>4. x \in Nat
    BY <2>1
  <2>5. v \in Previews /\ v.doing = "none"
    BY <2>1, <2>3, <2>4 DEF Previews
  <2>6. PreviewFits(v)
    BY <2>5 DEF PreviewFits
  <2>7. UNCHANGED <<event, consents, editor, call, strays, reviewed>>
    BY <1>2 DEF PreviewLoads
  <2>8. QED
    BY <2>1, <2>2, <2>3, <2>6, <2>7, PreviewWaits
<1>3. QED
  BY <1>1, <1>2

LEMMA LookKeeps ==
  ASSUME EditorKept, TiersRefetched \/ PressPublish \/ ContextChecked \/ ReloadPreview
  PROVE  EditorKept' /\ EditorStep
<1>1. PICK v : v = preview
  OBVIOUS
<1>2. PICK e : e = event
  OBVIOUS
<1>3. PICK x : x = event.tiers
  OBVIOUS
<1>4. /\ v \in Previews /\ editor = Closed /\ UNCHANGED <<event, consents, editor, call, strays, reviewed>>
      /\ v.doing \in {"none", "context"}
  BY <1>1, PreviewShows DEF TiersRefetched, PressPublish, ContextChecked, ReloadPreview, Shows
<1>5. e \in Events /\ x \in Nat /\ x = e.tiers /\ x <= x
  BY <1>2, <1>3 DEF EditorKept, EventFits, Events
<1>6. CASE TiersRefetched
  <2>1. PICK u : u = [v EXCEPT !.tiers = x]
    OBVIOUS
  <2>2. preview' = u
    BY <1>1, <1>3, <1>6, <2>1 DEF TiersRefetched
  <2>3. u \in Previews /\ u.doing # "tiers"
    BY <1>4, <1>5, <2>1 DEF Previews
  <2>4. PreviewFits(u)
    BY <2>3 DEF PreviewFits
  <2>5. QED
    BY <1>4, <2>2, <2>4, PreviewWaits
<1>7. CASE PressPublish
  <2>1. PICK u : u = IF v.confirming THEN [v EXCEPT !.doing = "context"] ELSE [v EXCEPT !.confirming = TRUE]
    OBVIOUS
  <2>2. preview' = u
    BY <1>1, <1>7, <2>1 DEF PressPublish
  <2>3. u \in Previews /\ u.doing # "tiers"
    <3>1. CASE v.confirming
      BY <1>4, <2>1, <3>1 DEF Previews
    <3>2. CASE ~v.confirming
      BY <1>4, <2>1, <3>2 DEF Previews
    <3>3. QED
      BY <3>1, <3>2
  <2>4. PreviewFits(u)
    BY <2>3 DEF PreviewFits
  <2>5. QED
    BY <1>4, <2>2, <2>4, PreviewWaits
<1>8. CASE ContextChecked
  <2>1. PICK u : u = [v EXCEPT !.fresh = e, !.doing = "tiers"]
    OBVIOUS
  <2>2. preview' = u
    BY <1>1, <1>2, <1>8, <2>1 DEF ContextChecked
  <2>3. u \in Previews /\ u.fresh = e
    BY <1>4, <1>5, <2>1 DEF Previews
  <2>4. PreviewFits(u)
    BY <1>2, <1>3, <1>5, <2>3 DEF PreviewFits
  <2>5. QED
    BY <1>4, <2>2, <2>4, PreviewWaits
<1>9. CASE ReloadPreview
  <2>1. PICK u : u = [v EXCEPT !.base = e, !.publish = "ready"]
    OBVIOUS
  <2>2. preview' = u
    BY <1>1, <1>2, <1>9, <2>1 DEF ReloadPreview
  <2>3. u \in Previews /\ u.doing # "tiers"
    BY <1>4, <1>5, <2>1 DEF Previews
  <2>4. PreviewFits(u)
    BY <2>3 DEF PreviewFits
  <2>5. QED
    BY <1>4, <2>2, <2>4, PreviewWaits
<1>10. QED
  BY <1>6, <1>7, <1>8, <1>9

LEMMA TiersCheckedKeeps ==
  ASSUME EditorKept, TiersChecked
  PROVE  EditorKept' /\ EditorStep
<1>1. PICK v : v = preview
  OBVIOUS
<1>2. PICK x : x = event.tiers
  OBVIOUS
<1>3. PICK f : f = v.fresh
  OBVIOUS
<1>4. /\ v \in Previews /\ editor = Closed /\ v.doing = "tiers"
      /\ UNCHANGED <<event, consents, editor, strays, reviewed>>
  BY <1>1, PreviewShows DEF TiersChecked, Shows
<1>5. f \in Events /\ f.tiers <= event.tiers
  BY <1>1, <1>3, <1>4, PreviewShows DEF EditorKept, PreviewFits
<1>6. x \in Nat /\ f.tiers \in Nat
  BY <1>2, <1>5 DEF EditorKept, EventFits, Events
<1>7. CASE ~Unchanged(event.tiers)
  <2>1. PICK u : u = [v EXCEPT !.base = f, !.tiers = x, !.confirming = FALSE, !.doing = "none", !.fresh = None]
    OBVIOUS
  <2>2. preview' = u /\ call' = call
    BY <1>1, <1>2, <1>3, <1>7, <2>1 DEF TiersChecked
  <2>3. u \in Previews /\ u.doing # "tiers"
    BY <1>4, <1>5, <1>6, <2>1 DEF Previews
  <2>4. PreviewFits(u)
    BY <2>3 DEF PreviewFits
  <2>5. QED
    BY <1>4, <2>2, <2>4, PreviewWaits
<1>8. CASE Unchanged(event.tiers)
  <2>1. v.base = f /\ v.tiers = x
    BY <1>1, <1>2, <1>3, <1>8 DEF Unchanged
  <2>2. CASE call' # call
    <3>1. PICK u : u = [v EXCEPT !.doing = "publish"]
      OBVIOUS
    <3>2. PICK s : s = Reviewed(f, x)
      OBVIOUS
    <3>3. PICK c : c = [kind |-> "publish", token |-> f, text |-> None, answers |-> None, agreed |-> None,
                        shown |-> s, before |-> None, answer |-> "none", context |-> None]
      OBVIOUS
    <3>4. preview' = u /\ call' = c
      BY <1>1, <1>3, <1>8, <2>1, <2>2, <3>1, <3>2, <3>3 DEF TiersChecked
    <3>5. s \in Reviews /\ s.text = f.text /\ s.answers = f.answers /\ s.tiers = x
      BY <1>5, <1>6, <3>2 DEF Reviewed, Reviews, Events
    <3>6. /\ c \in EditorWrites /\ c.kind = "publish" /\ c.token = f /\ c.shown = s
      BY <1>5, <3>3, <3>5 DEF EditorWrites
    <3>7. WriteFits(c)
      BY <1>2, <1>5, <1>6, <3>5, <3>6 DEF WriteFits
    <3>8. u \in Previews /\ u.doing # "tiers"
      BY <1>4, <3>1 DEF Previews
    <3>9. PreviewFits(u)
      BY <3>8 DEF PreviewFits
    <3>10. QED
      BY <1>4, <3>4, <3>6, <3>7, <3>9, PreviewMoves
  <2>3. CASE call' = call
    <3>1. PICK u \in {[v EXCEPT !.doing = "publish"], [v EXCEPT !.doing = "none", !.fresh = None]} : preview' = u
      BY <1>1, <1>8 DEF TiersChecked
    <3>2. u \in Previews /\ u.doing # "tiers"
      <4>1. CASE u = [v EXCEPT !.doing = "publish"]
        BY <1>4, <4>1 DEF Previews
      <4>2. CASE u = [v EXCEPT !.doing = "none", !.fresh = None]
        BY <1>4, <4>2 DEF Previews
      <4>3. QED
        BY <3>1, <4>1, <4>2
    <3>3. PreviewFits(u)
      BY <3>2 DEF PreviewFits
    <3>4. QED
      BY <1>4, <2>3, <3>1, <3>3, PreviewWaits
  <2>4. QED
    BY <2>2, <2>3
<1>9. QED
  BY <1>7, <1>8

LEMMA PublishAnsweredKeeps ==
  ASSUME EditorKept, PublishAnswered
  PROVE  EditorKept' /\ EditorStep
<1>1. PICK v : v = preview
  OBVIOUS
<1>2. PICK e : e = event
  OBVIOUS
<1>3. /\ v \in Previews /\ editor = Closed /\ UNCHANGED <<event, consents, editor, strays, reviewed>> /\ call' = None
  BY <1>1, PreviewShows DEF PublishAnswered, Shows
<1>4. e \in Events
  BY <1>2 DEF EditorKept, EventFits
<1>5. PICK r : r = [v EXCEPT !.doing = "none", !.fresh = None]
  OBVIOUS
<1>6. r \in Previews /\ r.doing = "none"
  BY <1>3, <1>5 DEF Previews
<1>7. PICK u : u \in {Closed, [r EXCEPT !.publish = "conflict"], [r EXCEPT !.base = e, !.confirming = FALSE],
                      [r EXCEPT !.publish = "unknown"]}
               /\ preview' = u
  BY <1>1, <1>2, <1>5 DEF PublishAnswered, Closed
<1>8. u = Closed \/ (u \in Previews /\ u.doing # "tiers")
  <2>1. CASE u = [r EXCEPT !.publish = "conflict"]
    BY <1>6, <2>1 DEF Previews
  <2>2. CASE u = [r EXCEPT !.base = e, !.confirming = FALSE]
    BY <1>4, <1>6, <2>2 DEF Previews
  <2>3. CASE u = [r EXCEPT !.publish = "unknown"]
    BY <1>6, <2>3 DEF Previews
  <2>4. QED
    BY <1>7, <2>1, <2>2, <2>3
<1>9. PreviewFits(u)
  BY <1>8, LoadingFits DEF PreviewFits
<1>10. QED
  BY <1>3, <1>7, <1>9, PreviewMoves

-----------------------------------------------------------------------------
LEMMA EditorIdle == EditorKept /\ UNCHANGED editorVars => EditorKept' /\ EditorStep
<1> SUFFICES ASSUME EditorKept, UNCHANGED editorVars PROVE EditorKept' /\ EditorStep
  OBVIOUS
<1>1. UNCHANGED <<event, consents, editor, preview, call, strays, reviewed>>
  BY DEF editorVars
<1>2. event \in Events /\ event.tiers \in Nat
  BY DEF EditorKept, EventFits, Events
<1>3. EventFits' /\ PublishesReviewed
  BY <1>1 DEF EditorKept, EventFits, AcceptedIsWhatWasTicked, PublishesReviewed
<1>4. QED
  BY <1>1, <1>2, <1>3, EventMoves

LEMMA EditorNext == EditorKept /\ EventEditorNext => EditorKept' /\ EditorStep
  BY CallKeeps, LostKeeps, StrayKeeps, OthersKeep, EditorOpens, LeaveEditorKeeps, TypeKeeps, QuestionKeeps, TickKeeps,
     BackKeeps, ButtonsKeep, AnsweredKeeps, OpenPreviewKeeps, LookKeeps, TiersCheckedKeeps, PublishAnsweredKeeps
  DEF EventEditorNext

(* What the policies of a version are accepted for is what the organizer had ticked on
   that very version, what goes public is what the preview showed, and no write of the
   tab replaces what the organizer did not have before them (EventEditorPage and
   EventPreviewPage, against the context tokens of the database): whatever other tabs,
   the ticket page and lost or late answers do in between. *)
THEOREM EditorIsKept == EventEditorSpec => EditorPromise
<1>1. EventEditorSpec => []EditorKept /\ [][EditorStep]_editorVars
  <2>1. EditorInit => EditorKept
    BY EditorStarts
  <2>2. EditorKept /\ [EventEditorNext]_editorVars => EditorKept' /\ [EditorStep]_editorVars
    BY EditorNext, EditorIdle
  <2>3. QED
    BY <2>1, <2>2, PTL DEF EventEditorSpec
<1>2. EditorKept => AcceptedIsWhatWasTicked
  BY DEF EditorKept, EventFits
<1>3. PublishedIsWhatWasReviewed <=> [][PublishesReviewed]_editorVars
  BY PTL DEF PublishedIsWhatWasReviewed, PublishesReviewed
<1>4. NothingUnseenIsReplaced <=> [][ReplacesSeen]_editorVars
  BY PTL DEF NothingUnseenIsReplaced, ReplacesSeen
<1>5. [EditorStep]_editorVars => [PublishesReviewed]_editorVars /\ [ReplacesSeen]_editorVars
  BY DEF EditorStep
<1>6. QED
  BY <1>1, <1>2, <1>3, <1>4, <1>5, PTL DEF EditorPromise

=============================================================================
