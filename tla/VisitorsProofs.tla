--------------------------- MODULE VisitorsProofs ---------------------------
(***************************************************************************)
(* What visitors can rely on, whatever answers are lost and late: what the  *)
(* map picks while its events come and go, a free registration, the door,   *)
(* the tickets of an order, and what moderation lets the public see.        *)
(***************************************************************************)
EXTENDS MapPreview, FreeRsvp, DoorAdmission, TicketAccess, Moderation, FiniteSetTheorems, TLAPS

-----------------------------------------------------------------------------
(* What a visitor picks on the map *)

Lists    == [ids : SUBSET Pins, trigger : {"map", "cluster", "viewport"}]
Picks    == [selected : Pins \cup {None}, chooser : Lists \cup {None}, back : Entries \cup {None},
             touched : BOOLEAN]
Clusters == [ids : SUBSET Pins, current : BOOLEAN, moved : BOOLEAN]

PreviewTypeOK ==
    /\ shown \in [search : Searches, events : SUBSET Pins, settled : BOOLEAN, covers : BOOLEAN]
    /\ pick \in Picks
    /\ canvas \in [source : SUBSET Pins, cluster : Clusters \cup {None},
                  click : {"none", "pins", "cluster"}]

\* A pick offers what is among the events E.
Offers(p, E) ==
    /\ p.selected \in E \cup {None}
    /\ p.chooser # None => p.chooser.ids # {} /\ p.chooser.ids \subseteq E

\* A cluster whose answer still counts was clicked last.
CurrentIsLast == (canvas.cluster # None /\ canvas.cluster.current) => canvas.click = "cluster"

PreviewKept ==
    /\ PreviewTypeOK /\ Offers(pick, shown.events)
    /\ CurrentIsLast /\ LastClickDecides /\ RestoresUntouched

LEMMA InitPreviewKept == PreviewInit => PreviewKept
  BY DEF PreviewInit, PreviewKept, PreviewTypeOK, Picks, Offers, CurrentIsLast, LastClickDecides,
         RestoresUntouched

\* Events that go are taken from the pick, and nothing is added to it.
LEMMA CommitOffers ==
  ASSUME NEW p \in Picks, NEW E
  PROVE  /\ Commit(p, E) \in Picks /\ Offers(Commit(p, E), E)
         /\ Commit(p, E).back = p.back /\ Commit(p, E).touched = p.touched
         /\ Commit(p, E).chooser # None =>
               p.chooser # None /\ Commit(p, E).chooser.trigger = p.chooser.trigger
<1> DEFINE ids == p.chooser.ids \cap E
           chosen == IF p.chooser = None THEN None
                   ELSE IF ids # {} /\ (p.chooser.trigger = "viewport" \/ Cardinality(ids) > 1)
                        THEN [p.chooser EXCEPT !.ids = ids] ELSE None
<1>1. chosen # None => /\ p.chooser # None /\ p.chooser \in Lists /\ ids # {}
                     /\ chosen = [p.chooser EXCEPT !.ids = ids]
  BY DEF Picks
<1>2. chosen # None => /\ chosen \in Lists /\ chosen.ids = ids /\ chosen.trigger = p.chooser.trigger
  BY <1>1 DEF Lists
<1>3. Commit(p, E) = [p EXCEPT !.selected = IF p.selected \in E THEN p.selected ELSE None,
                               !.chooser = chosen]
  BY DEF Commit, Picks
<1>4. chosen \in Lists \cup {None} /\ (chosen # None => chosen.ids # {} /\ chosen.ids \subseteq E)
  BY <1>1, <1>2
<1>5. chosen # None => p.chooser # None /\ chosen.trigger = p.chooser.trigger
  BY <1>1, <1>2
<1> HIDE DEF chosen
<1>6. QED
  BY <1>3, <1>4, <1>5 DEF Picks, Offers

\* What an entry kept comes back as far as it is there; clusters are not kept.
LEMMA RestoreOffers ==
  ASSUME NEW p \in Picks, NEW seen, Offers(p, seen.events)
  PROVE  /\ Restore(p, seen) \in Picks /\ Offers(Restore(p, seen), seen.events)
         /\ Restore(p, seen).touched = p.touched
         /\ Restore(p, seen).back \in {p.back, None}
         /\ Restore(p, seen).chooser # None =>
               \/ Restore(p, seen).chooser = p.chooser
               \/ Restore(p, seen).chooser.trigger # "cluster"
<1>1. CASE p.back = None \/ ~seen.settled \/ ~seen.covers
  BY <1>1 DEF Restore
<1>2. CASE ~(p.back = None \/ ~seen.settled \/ ~seen.covers)
  <2> DEFINE ids == IF p.back.chooser = None THEN {} ELSE p.back.chooser.ids \cap seen.events
             chosen == IF ids = {} THEN None ELSE [p.back.chooser EXCEPT !.ids = ids]
             single == IF p.back.selected \in seen.events THEN p.back.selected ELSE None
  <2>1. Restore(p, seen) = [p EXCEPT !.back = None, !.selected = single, !.chooser = chosen]
    BY <1>2 DEF Restore
  <2>2. p.back \in Entries
    BY <1>2 DEF Picks
  <2>3. single \in Pins \cup {None} /\ single \in seen.events \cup {None}
    BY <2>2 DEF Entries
  <2>4. chosen # None =>
          /\ p.back.chooser \in Choosers /\ p.back.chooser.trigger # "cluster"
          /\ ids # {} /\ ids \subseteq p.back.chooser.ids /\ ids \subseteq seen.events
          /\ chosen = [p.back.chooser EXCEPT !.ids = ids]
    BY <2>2 DEF Entries
  <2>5. chosen # None => /\ chosen \in Lists /\ chosen.ids = ids
                       /\ chosen.trigger = p.back.chooser.trigger
    BY <2>4 DEF Choosers, Lists
  <2>6. chosen \in Lists \cup {None}
        /\ (chosen # None => chosen.ids # {} /\ chosen.ids \subseteq seen.events /\ chosen.trigger # "cluster")
    BY <2>4, <2>5
  <2> HIDE DEF chosen, single
  <2>7. QED
    BY <2>1, <2>3, <2>6 DEF Picks, Offers
<1>3. QED
  BY <1>1, <1>2

\* Whatever is forgotten or outdated on the map, no cluster counts that was not the last click.
LEMMA SourceKept ==
  ASSUME PreviewTypeOK, CurrentIsLast,
         \/ canvas' \in {canvas, [canvas EXCEPT !.cluster = Outdated(canvas.cluster)],
                         [canvas EXCEPT !.cluster = None]}
         \/ canvas' = [canvas EXCEPT !.cluster = Outdated(canvas.cluster), !.click = "pins"]
  PROVE  /\ canvas' \in [source : SUBSET Pins, cluster : Clusters \cup {None},
                         click : {"none", "pins", "cluster"}]
         /\ CurrentIsLast'
         /\ canvas'.click = canvas.click \/ canvas'.click = "pins"
         /\ canvas' \in {canvas, [canvas EXCEPT !.cluster = Outdated(canvas.cluster)],
                         [canvas EXCEPT !.cluster = None]} => canvas'.click = canvas.click
<1> DEFINE c == Outdated(canvas.cluster)
<1>1. c \in Clusters \cup {None} /\ (c # None => ~c.current)
  BY DEF Outdated, PreviewTypeOK, Clusters
<1> HIDE DEF c
<1>2. QED
  BY <1>1 DEF c, PreviewTypeOK, CurrentIsLast

LEMMA FeedKeepsPicks == PreviewKept /\ FeedChanges => PreviewKept'
<1> SUFFICES ASSUME PreviewKept, FeedChanges PROVE PreviewKept'
  OBVIOUS
<1> USE DEF PreviewKept, PreviewTypeOK
<1>1. PICK E \in SUBSET Candidates(shown.search), settled \in BOOLEAN, covers \in BOOLEAN :
        LET seen == [shown EXCEPT !.events = E, !.settled = settled, !.covers = covers] IN
        shown' = seen /\ pick' = Restore(Commit(pick, E), seen) /\ canvas' = Source(seen)
  BY DEF FeedChanges
<1> DEFINE p == Commit(pick, E)
<1>2. /\ shown' = [shown EXCEPT !.events = E, !.settled = settled, !.covers = covers]
      /\ E \in SUBSET Pins
  BY <1>1 DEF Pins
<1>3. /\ shown' \in [search : Searches, events : SUBSET Pins, settled : BOOLEAN, covers : BOOLEAN]
      /\ shown'.search = shown.search /\ shown'.events = E
  BY <1>2
<1>4. /\ p \in Picks /\ Offers(p, E) /\ p.back = pick.back /\ p.touched = pick.touched
      /\ p.chooser # None => pick.chooser # None /\ p.chooser.trigger = pick.chooser.trigger
  BY CommitOffers
<1>5. pick' = Restore(p, shown')
  BY <1>1
<1> HIDE DEF p
<1>6. /\ pick' \in Picks /\ Offers(pick', E) /\ pick'.touched = p.touched
      /\ pick'.back \in {p.back, None}
      /\ pick'.chooser # None => \/ pick'.chooser = p.chooser
                                \/ pick'.chooser.trigger # "cluster"
  BY <1>3, <1>4, <1>5, RestoreOffers
<1>7. canvas' \in {canvas, [canvas EXCEPT !.cluster = Outdated(canvas.cluster)]}
  BY <1>1 DEF Source
<1>8. QED
  BY <1>3, <1>4, <1>6, <1>7, SourceKept DEF LastClickDecides, RestoresUntouched, Offers

LEMMA ChangeSearchKeepsPicks == PreviewKept /\ ChangeSearch => PreviewKept'
<1> SUFFICES ASSUME PreviewKept, ChangeSearch PROVE PreviewKept'
  OBVIOUS
<1> USE DEF PreviewKept, PreviewTypeOK
<1>1. PICK s \in Searches : shown' = Emptied(s) /\ canvas' = Source(Emptied(s))
        /\ pick' = [Commit(pick, {}) EXCEPT !.back = None, !.touched = TRUE]
  BY DEF ChangeSearch
<1> DEFINE p == Commit(pick, {})
<1>2. /\ p \in Picks /\ Offers(p, {})
      /\ p.chooser # None => pick.chooser # None /\ p.chooser.trigger = pick.chooser.trigger
  BY CommitOffers
<1>3. pick' = [p EXCEPT !.back = None, !.touched = TRUE]
  BY <1>1
<1> HIDE DEF p
<1>4. /\ pick' \in Picks /\ pick'.selected = p.selected /\ pick'.chooser = p.chooser
      /\ pick'.back = None
  BY <1>2, <1>3 DEF Picks
<1>5. canvas' \in {canvas, [canvas EXCEPT !.cluster = Outdated(canvas.cluster)]}
  BY <1>1 DEF Source
<1>6. QED
  BY <1>1, <1>2, <1>4, <1>5, SourceKept DEF LastClickDecides, RestoresUntouched, Offers, Emptied

\* Nothing is picked after going back, until the feed tells what is there.
LEMMA GoBackKeepsPicks == PreviewKept /\ GoBack => PreviewKept'
<1> SUFFICES ASSUME PreviewKept, GoBack PROVE PreviewKept'
  OBVIOUS
<1> USE DEF PreviewKept, PreviewTypeOK
<1>1. PICK e \in Entries :
        LET seen == IF e.search = shown.search THEN [shown EXCEPT !.covers = FALSE]
                   ELSE Emptied(e.search) IN
        /\ shown' = seen /\ canvas' = Source(seen)
        /\ pick' = [selected |-> None, chooser |-> None, back |-> e, touched |-> FALSE]
  BY DEF GoBack
<1>2. /\ shown' \in [search : Searches, events : SUBSET Pins, settled : BOOLEAN, covers : BOOLEAN]
      /\ shown'.search = e.search
  BY <1>1 DEF Entries, Emptied
<1>3. canvas' \in {canvas, [canvas EXCEPT !.cluster = Outdated(canvas.cluster)]}
  BY <1>1 DEF Source
<1>4. QED
  BY <1>1, <1>2, <1>3, SourceKept DEF LastClickDecides, RestoresUntouched, Offers, Picks

\* A click on pins, on nothing or on a cluster picks anew.
LEMMA SelectKeepsPicks ==
  ASSUME PreviewKept, NEW id, Select(id), UNCHANGED shown
  PROVE  pick' \in Picks /\ Offers(pick', shown'.events) /\ LastClickDecides' /\ RestoresUntouched'
  BY DEF PreviewKept, PreviewTypeOK, Select, Picks, Offers, LastClickDecides, RestoresUntouched

LEMMA ChooseKeepsPicks ==
  ASSUME PreviewKept, NEW ids, NEW trigger \in {"map", "cluster", "viewport"},
         Choose(ids, trigger), UNCHANGED shown,
         trigger = "cluster" => canvas'.click = "cluster"
  PROVE  pick' \in Picks /\ Offers(pick', shown'.events) /\ LastClickDecides' /\ RestoresUntouched'
<1> DEFINE there == ids \cap shown.events
           single == IF Cardinality(there) = 1 THEN CHOOSE id \in there : TRUE ELSE None
           chosen == IF Cardinality(there) > 1 THEN [ids |-> there, trigger |-> trigger] ELSE None
<1>1. pick' = [selected |-> single, chooser |-> chosen, back |-> None, touched |-> TRUE]
  BY DEF Choose
<1>2. there \subseteq shown.events /\ shown.events \subseteq Pins
  BY DEF PreviewKept, PreviewTypeOK
<1>3. there = {} => ~(Cardinality(there) = 1) /\ ~(Cardinality(there) > 1)
  BY FS_EmptySet
<1> HIDE DEF there
<1>4. single \in shown.events \cup {None}
  BY <1>2, <1>3
<1>5. /\ chosen \in Lists \cup {None}
      /\ chosen # None => /\ chosen.ids # {} /\ chosen.ids \subseteq shown.events
                         /\ chosen.trigger = trigger
  BY <1>2, <1>3 DEF Lists
<1> HIDE DEF single, chosen
<1>6. QED
  BY <1>1, <1>2, <1>4, <1>5 DEF Picks, Offers, LastClickDecides, RestoresUntouched

LEMMA ClicksKeepPicks ==
  PreviewKept /\ (ClickPins \/ ClickNothing \/ ClickCluster) => PreviewKept'
<1> SUFFICES ASSUME PreviewKept, ClickPins \/ ClickNothing \/ ClickCluster PROVE PreviewKept'
  OBVIOUS
<1>0. UNCHANGED shown
  BY DEF ClickPins, ClickNothing, ClickCluster
<1>1. CASE ClickPins
  <2>1. pick' \in Picks /\ Offers(pick', shown'.events) /\ LastClickDecides' /\ RestoresUntouched'
    BY <1>0, <1>1, SelectKeepsPicks, ChooseKeepsPicks DEF ClickPins
  <2>2. QED
    BY <1>0, <1>1, <2>1, SourceKept DEF ClickPins, PreviewKept, PreviewTypeOK, Clicked
<1>2. CASE ClickNothing
  <2>1. pick' \in Picks /\ Offers(pick', shown'.events) /\ LastClickDecides' /\ RestoresUntouched'
    BY <1>0, <1>2, SelectKeepsPicks DEF ClickNothing
  <2>2. QED
    BY <1>0, <1>2, <2>1, SourceKept DEF ClickNothing, PreviewKept, PreviewTypeOK, Clicked
<1>3. CASE ClickCluster
  <2>1. pick' \in Picks /\ Offers(pick', shown'.events) /\ LastClickDecides' /\ RestoresUntouched'
    BY <1>0, <1>3, SelectKeepsPicks DEF ClickCluster
  <2>2. PICK ids \in SUBSET canvas.source :
          canvas' = [canvas EXCEPT !.cluster = [ids |-> ids, current |-> TRUE, moved |-> FALSE],
                                   !.click = "cluster"]
    BY <1>3 DEF ClickCluster
  <2>3. canvas.source \subseteq Pins
    BY DEF PreviewKept, PreviewTypeOK
  <2>4. [ids |-> ids, current |-> TRUE, moved |-> FALSE] \in Clusters
    BY <2>3 DEF Clusters
  <2>5. QED
    BY <1>0, <2>1, <2>2, <2>4 DEF PreviewKept, PreviewTypeOK, CurrentIsLast
<1>4. QED
  BY <1>1, <1>2, <1>3

\* A cluster's answer counts only while its click is the last one.
LEMMA ClusterKeepsPicks ==
  PreviewKept /\ (ClusterLists \/ ClusterOpensOrFails \/ Gesture) => PreviewKept'
<1> SUFFICES ASSUME PreviewKept, ClusterLists \/ ClusterOpensOrFails \/ Gesture PROVE PreviewKept'
  OBVIOUS
<1>1. CASE ClusterLists
  <2>1. UNCHANGED shown /\ canvas' = [canvas EXCEPT !.cluster = None] /\ canvas.cluster # None
    BY <1>1 DEF ClusterLists
  <2>2. canvas'.cluster = None /\ canvas'.click = canvas.click
    BY <2>1 DEF PreviewKept, PreviewTypeOK
  <2>3. CASE IsCurrent(canvas.cluster)
    <3>1. PICK ids \in Leaves(canvas.cluster) : Choose(ids, "cluster")
      BY <1>1, <2>3 DEF ClusterLists
    <3>2. canvas'.click = "cluster"
      BY <2>1, <2>2, <2>3 DEF PreviewKept, CurrentIsLast, IsCurrent
    <3>3. pick' \in Picks /\ Offers(pick', shown'.events) /\ LastClickDecides' /\ RestoresUntouched'
      BY <2>1, <3>1, <3>2, ChooseKeepsPicks
    <3>4. QED
      BY <2>1, <3>3 DEF PreviewKept, PreviewTypeOK, CurrentIsLast
  <2>4. CASE UNCHANGED pick
    BY <2>1, <2>4 DEF PreviewKept, PreviewTypeOK, CurrentIsLast, Offers, LastClickDecides,
                      RestoresUntouched
  <2>5. QED
    BY <1>1, <2>3, <2>4 DEF ClusterLists
<1>2. CASE ClusterOpensOrFails \/ Gesture
  <2>1. PICK covers \in BOOLEAN : shown' = [shown EXCEPT !.covers = covers /\ shown.covers]
    BY <1>2 DEF ClusterOpensOrFails, Gesture
  <2>2. UNCHANGED pick /\ canvas' \in {[canvas EXCEPT !.cluster = None],
                                       [canvas EXCEPT !.cluster = Outdated(canvas.cluster)]}
    BY <1>2 DEF ClusterOpensOrFails, Gesture
  <2>3. /\ shown' \in [search : Searches, events : SUBSET Pins, settled : BOOLEAN, covers : BOOLEAN]
        /\ shown'.search = shown.search /\ shown'.events = shown.events
    BY <2>1 DEF PreviewKept, PreviewTypeOK
  <2>4. QED
    BY <2>2, <2>3, SourceKept DEF PreviewKept, PreviewTypeOK, Offers, LastClickDecides,
                                  RestoresUntouched
<1>3. QED
  BY <1>1, <1>2

LEMMA ControlsKeepPicks ==
  PreviewKept /\ (ChooserPick \/ BackToChooser \/ ClosePreview \/ OpenInView \/ RetryMap \/ SourceCatchesUp)
     => PreviewKept'
<1> SUFFICES ASSUME PreviewKept, ChooserPick \/ BackToChooser \/ ClosePreview \/ OpenInView \/ RetryMap
                                 \/ SourceCatchesUp
             PROVE  PreviewKept'
  OBVIOUS
<1> USE DEF PreviewKept, PreviewTypeOK
<1>1. CASE ChooserPick \/ BackToChooser
  <2>1. /\ UNCHANGED <<shown, canvas>>
        /\ \E id \in shown.events \cup {None} : pick' = [pick EXCEPT !.selected = id]
    BY <1>1 DEF ChooserPick, BackToChooser
  <2>2. QED
    BY <2>1 DEF Picks, Offers, CurrentIsLast, LastClickDecides, RestoresUntouched
<1>2. CASE ClosePreview
  BY <1>2 DEF ClosePreview, Picks, Offers, CurrentIsLast, LastClickDecides, RestoresUntouched
<1>3. CASE OpenInView
  <2>1. PICK ids \in (SUBSET shown.events) \ {{}} :
          pick' = [selected |-> None, chooser |-> [ids |-> ids, trigger |-> "viewport"],
                   back |-> None, touched |-> TRUE]
    BY <1>3 DEF OpenInView
  <2> DEFINE chosen == [ids |-> ids, trigger |-> "viewport"]
  <2>2. chosen \in Lists /\ chosen.ids = ids /\ chosen.trigger # "cluster"
    BY DEF Lists
  <2>3. pick' = [selected |-> None, chooser |-> chosen, back |-> None, touched |-> TRUE]
    BY <2>1
  <2>4. UNCHANGED <<shown, canvas>>
    BY <1>3 DEF OpenInView
  <2> HIDE DEF chosen
  <2>5. /\ pick'.selected = None /\ pick'.chooser = chosen /\ pick'.back = None
        /\ pick' \in Picks
    BY <2>2, <2>3 DEF Picks
  <2>6. Offers(pick', shown'.events)
    <3>1. ids # {} /\ ids \subseteq shown'.events
      BY <2>4
    <3>2. QED
      BY <2>2, <2>5, <3>1 DEF Offers
  <2>7. CurrentIsLast' /\ LastClickDecides' /\ RestoresUntouched'
    BY <2>2, <2>4, <2>5 DEF CurrentIsLast, LastClickDecides, RestoresUntouched
  <2>8. PreviewTypeOK'
    BY <2>4, <2>5
  <2>9. QED
    BY <2>6, <2>7, <2>8
<1>4. CASE RetryMap
  BY <1>4 DEF RetryMap, Picks, Offers, CurrentIsLast, LastClickDecides, RestoresUntouched
<1>5. CASE SourceCatchesUp
  <2> DEFINE c == IF canvas.cluster = None THEN None ELSE [canvas.cluster EXCEPT !.moved = TRUE]
  <2>1. c # None => /\ canvas.cluster # None /\ canvas.cluster \in Clusters
                    /\ c = [canvas.cluster EXCEPT !.moved = TRUE]
    OBVIOUS
  <2>3. c # None => c \in Clusters /\ c.current = canvas.cluster.current
    BY <2>1 DEF Clusters
  <2>2. canvas' = [canvas EXCEPT !.source = shown.events, !.cluster = c] /\ UNCHANGED <<shown, pick>>
    BY <1>5 DEF SourceCatchesUp
  <2> HIDE DEF c
  <2>4. QED
    BY <2>1, <2>3, <2>2 DEF Offers, CurrentIsLast, LastClickDecides, RestoresUntouched
<1>6. QED
  BY <1>1, <1>2, <1>3, <1>4, <1>5

LEMMA NextPreviewKept == PreviewKept /\ [MapPreviewNext]_previewVars => PreviewKept'
<1> SUFFICES ASSUME PreviewKept, [MapPreviewNext]_previewVars PROVE PreviewKept'
  OBVIOUS
<1>1. CASE UNCHANGED previewVars
  BY <1>1 DEF previewVars, PreviewKept, PreviewTypeOK, Offers, CurrentIsLast, LastClickDecides,
              RestoresUntouched
<1>2. QED
  BY <1>1, FeedKeepsPicks, ChangeSearchKeepsPicks, GoBackKeepsPicks, ClicksKeepPicks, ClusterKeepsPicks,
     ControlsKeepPicks DEF MapPreviewNext

LEMMA PreviewKeptSuffices == PreviewKept => MapPreviewInvariant
  BY DEF PreviewKept, Offers, MapPreviewInvariant, OffersWhatIsThere

\* However the feed, the renderer and history race with clicks, the map offers
\* only events it has, a late cluster never opens its list over a later click, and
\* what a history entry kept comes back only to a visitor who did nothing since.
THEOREM PreviewIsKept == MapPreviewSpec => []MapPreviewInvariant
<1>1. QED
  BY InitPreviewKept, NextPreviewKept, PreviewKeptSuffices, PTL DEF MapPreviewSpec

-----------------------------------------------------------------------------
(* A free registration *)

RsvpViews == [shown : RsvpAttempts \cup {None}, intent : BOOLEAN, marker : Nat, blocked : BOOLEAN]
RsvpWorks == [kind : {"submit", "resolve", "replay"}, stage : {"lock", "looking", "asking"},
              details : Quantities, id : Nat]

TabsOK == work \in [Tabs -> RsvpWorks \cup {None}] /\ view \in [Tabs -> RsvpViews]

RsvpTypeOK ==
    /\ saved \in RsvpAttempts \cup {None} /\ minted \in Nat
    /\ asked \subseteq RsvpAttempts
    /\ receipts \in [RsvpIds -> {"none", "confirmed", "rejected"}]
    /\ TabsOK

RsvpKept == RsvpTypeOK /\ RsvpInvariant

LEMMA InitRsvpKept == RsvpInit => RsvpKept
  BY RsvpAssumption
     DEF RsvpInit, RsvpKept, RsvpTypeOK, TabsOK, RsvpViews, RsvpInvariant, OpenRequestIsSaved, SavedEndIsTrue,
         NoView, RsvpIds

LEMMA AttemptIds == ASSUME NEW a \in RsvpAttempts PROVE a.id \in Nat /\ a.details \in Quantities
  BY RsvpAssumption DEF RsvpAttempts, RsvpIds

\* Requests that went, or whose registration was decided, ask for nothing more.
LEMMA FewerAreOpen ==
  ASSUME RsvpKept, UNCHANGED <<saved, minted, receipts>>, TabsOK', asked' \subseteq asked
  PROVE  RsvpKept'
  BY DEF RsvpKept, RsvpTypeOK, TabsOK, RsvpInvariant, OpenRequestIsSaved, SavedEndIsTrue

\* The saved attempt may be sent again: one that has ended is decided.
LEMMA SavedMayBeAsked ==
  ASSUME RsvpKept, UNCHANGED <<saved, minted, receipts>>, TabsOK', saved # None,
         asked' = asked \cup {saved}
  PROVE  RsvpKept'
<1>1. saved \in RsvpAttempts /\ saved.state \in {"unresolved", "confirmed", "rejected"}
  BY DEF RsvpKept, RsvpTypeOK, RsvpAttempts
<1>2. receipts[saved.id] = "none" => saved.state = "unresolved"
  BY <1>1 DEF RsvpKept, RsvpInvariant, SavedEndIsTrue
<1>3. QED
  BY <1>1, <1>2 DEF RsvpKept, RsvpTypeOK, TabsOK, RsvpInvariant, OpenRequestIsSaved, SavedEndIsTrue

\* An answer about the saved attempt is what the server decided.
LEMMA RecordKeeps ==
  ASSUME RsvpKept, NEW t \in Tabs, NEW i, RecordResult(t, i, receipts[i]),
         work' \in [Tabs -> RsvpWorks \cup {None}],
         UNCHANGED <<minted, asked, receipts>>
  PROVE  RsvpKept'
<1>1. CASE UNCHANGED <<saved, view>>
  BY <1>1, FewerAreOpen DEF RsvpKept, RsvpTypeOK, TabsOK
<1>2. CASE ~(saved = None \/ saved.id # i)
  <2>1. saved \in RsvpAttempts /\ saved.id = i /\ saved # None
    BY <1>2 DEF RsvpKept, RsvpTypeOK
  <2>2. /\ saved' = IF saved.state = "unresolved" /\ receipts[i] \in {"confirmed", "rejected"}
                    THEN [saved EXCEPT !.state = receipts[i]] ELSE saved
        /\ view' = [view EXCEPT ![t].shown = saved']
    BY <1>2 DEF RecordResult
  <2>3. /\ saved' \in RsvpAttempts /\ saved'.id = i
        /\ \/ saved' = saved
           \/ saved'.state = receipts[i] /\ receipts[i] # "none"
    BY <2>1, <2>2 DEF RsvpAttempts
  <2>4. saved' # None
    BY <2>3, RsvpAssumption
  <2>5. TabsOK'
    BY <2>2, <2>3 DEF RsvpKept, RsvpTypeOK, TabsOK, RsvpViews
  <2>6. OpenRequestIsSaved' /\ SavedEndIsTrue'
    BY <2>1, <2>3, <2>4 DEF RsvpKept, RsvpInvariant, OpenRequestIsSaved, SavedEndIsTrue
  <2>7. QED
    BY <2>3, <2>5, <2>6 DEF RsvpKept, RsvpTypeOK, RsvpInvariant, TabsOK
<1>3. QED
  BY <1>1, <1>2 DEF RecordResult

LEMMA PageKeepsRsvp ==
  ASSUME RsvpKept, NEW t \in Tabs,
         \/ OpenRsvp(t) \/ RsvpNoticed(t) \/ StartAnother(t) \/ CheckRsvp(t) \/ CloseTab(t)
         \/ \E d \in Quantities : SubmitRsvp(t, d)
  PROVE  RsvpKept'
<1>1. UNCHANGED <<saved, minted, asked, receipts>>
  BY DEF OpenRsvp, RsvpNoticed, StartAnother, CheckRsvp, CloseTab, SubmitRsvp
<1>2. view[t] \in RsvpViews /\ saved \in RsvpAttempts \cup {None}
  BY DEF RsvpKept, RsvpTypeOK, TabsOK
<1>3. /\ saved # None => saved.details \in Quantities
      /\ view[t].shown # None => view[t].shown.details \in Quantities
  BY <1>2, AttemptIds DEF RsvpViews
<1>4. ASSUME NEW kind \in {"submit", "resolve", "replay"}, NEW d \in Quantities, StartWork(t, kind, d)
      PROVE  work' \in [Tabs -> RsvpWorks \cup {None}]
  <2>1. [kind |-> kind, stage |-> "lock", details |-> d, id |-> 0] \in RsvpWorks
    BY <1>4 DEF RsvpWorks
  <2>2. QED
    BY <1>4, <2>1 DEF StartWork, RsvpKept, RsvpTypeOK, TabsOK
<1>5. FinishWork(t) => work' \in [Tabs -> RsvpWorks \cup {None}]
  BY DEF FinishWork, RsvpKept, RsvpTypeOK, TabsOK
<1>6. work' \in [Tabs -> RsvpWorks \cup {None}]
  <2>1. CASE OpenRsvp(t)
    BY <1>3, <1>4, <1>5, <2>1 DEF OpenRsvp
  <2>2. CASE RsvpNoticed(t) \/ StartAnother(t)
    BY <2>2 DEF RsvpNoticed, StartAnother, RsvpKept, RsvpTypeOK, TabsOK
  <2>3. CASE CheckRsvp(t) \/ CloseTab(t) \/ \E d \in Quantities : SubmitRsvp(t, d)
    BY <1>3, <1>4, <1>5, <2>3 DEF CheckRsvp, CloseTab, SubmitRsvp
  <2>4. QED
    BY <2>1, <2>2, <2>3
<1>7. view' \in [Tabs -> RsvpViews]
  <2>1. \/ UNCHANGED view
        \/ \E v \in RsvpViews : view' = [view EXCEPT ![t] = v]
        \/ view' = [view EXCEPT ![t].shown = saved]
    <3>1. CASE OpenRsvp(t)
      <4> DEFINE lost == view[t].marker # 0 /\ (saved = None \/ saved.id # view[t].marker)
                 v == [NoView EXCEPT !.marker = view[t].marker, !.blocked = lost,
                                     !.shown = IF lost THEN None ELSE saved]
      <4>1. v \in RsvpViews
        BY <1>2 DEF RsvpViews, NoView
      <4>2. view' = [view EXCEPT ![t] = v]
        BY <3>1 DEF OpenRsvp
      <4>3. QED
        BY <4>1, <4>2
    <3>2. CASE StartAnother(t) \/ CloseTab(t)
      <4>1. [NoView EXCEPT !.intent = TRUE] \in RsvpViews
        BY DEF NoView, RsvpViews
      <4>2. [NoView EXCEPT !.marker = view[t].marker] \in RsvpViews
        BY <1>2 DEF NoView, RsvpViews
      <4>3. QED
        BY <3>2, <4>1, <4>2 DEF StartAnother, CloseTab
    <3>3. QED
      BY <3>1, <3>2 DEF RsvpNoticed, CheckRsvp, SubmitRsvp
  <2>2. [view[t] EXCEPT !.shown = saved] \in RsvpViews
    BY <1>2 DEF RsvpViews
  <2>3. view \in [Tabs -> RsvpViews]
    BY DEF RsvpKept, RsvpTypeOK, TabsOK
  <2>4. QED
    BY <2>1, <2>2, <2>3
<1>8. QED
  BY <1>1, <1>6, <1>7, FewerAreOpen DEF TabsOK

LEMMA ToStageOK ==
  ASSUME RsvpKept, NEW t \in Tabs, work[t] # None, NEW s \in {"looking", "asking"}, NEW i \in Nat,
         ToStage(t, s, i) \/ FinishWork(t)
  PROVE  work' \in [Tabs -> RsvpWorks \cup {None}]
<1>1. work \in [Tabs -> RsvpWorks \cup {None}] /\ work[t] \in RsvpWorks
  BY DEF RsvpKept, RsvpTypeOK, TabsOK
<1>2. CASE ToStage(t, s, i)
  <2> DEFINE w == [work[t] EXCEPT !.stage = s]
             x == [w EXCEPT !.id = i]
  <2>1. work' = [work EXCEPT ![t] = x]
    BY <1>1, <1>2 DEF ToStage
  <2>2. w \in RsvpWorks
    BY <1>1 DEF RsvpWorks
  <2>3. x \in RsvpWorks
    <3> HIDE DEF w
    <3>1. QED
      BY <2>2 DEF RsvpWorks
  <2> HIDE DEF w, x
  <2>4. QED
    BY <1>1, <2>1, <2>3
<1>3. CASE FinishWork(t)
  BY <1>1, <1>3 DEF FinishWork
<1>4. QED
  BY <1>2, <1>3

\* Only what nobody can register by any more is replaced.
LEMMA SubmitKeeps == ASSUME RsvpKept, NEW t \in Tabs, RunSubmit(t) PROVE RsvpKept'
<1>0. work[t] # None /\ UNCHANGED receipts /\ work[t].details \in Quantities
  BY DEF RunSubmit, HasLock, RsvpKept, RsvpTypeOK, TabsOK, RsvpWorks
<1>. /\ saved \in RsvpAttempts \cup {None} /\ view[t] \in RsvpViews
     /\ work \in [Tabs -> RsvpWorks \cup {None}] /\ view \in [Tabs -> RsvpViews]
  BY DEF RsvpKept, RsvpTypeOK, TabsOK
<1>1. CASE FinishWork(t) /\ UNCHANGED <<saved, minted, asked>> /\
           (view' = [view EXCEPT ![t].blocked = TRUE, ![t].shown = saved]
            \/ view' = [view EXCEPT ![t].shown = saved])
  <2>1. /\ [view[t] EXCEPT !.blocked = TRUE, !.shown = saved] \in RsvpViews
        /\ [view[t] EXCEPT !.shown = saved] \in RsvpViews
    BY DEF RsvpViews
  <2>2. \/ view' = [view EXCEPT ![t] = [view[t] EXCEPT !.blocked = TRUE, !.shown = saved]]
        \/ view' = [view EXCEPT ![t] = [view[t] EXCEPT !.shown = saved]]
    BY <1>1
  <2>3. TabsOK'
    BY <1>1, <2>1, <2>2 DEF FinishWork, TabsOK
  <2>4. QED
    BY <1>0, <1>1, <2>3, FewerAreOpen
<1>2. ASSUME NEW attempt \in Prepared(work[t].details, view[t].intent),
             attempt.id <= MaxRsvps, saved' = attempt,
             minted' = IF attempt.id > minted THEN attempt.id ELSE minted,
             view' = [view EXCEPT ![t] = [NoView EXCEPT !.shown = attempt, !.marker = attempt.id]],
             CASE attempt.state = "confirmed" -> FinishWork(t) /\ UNCHANGED asked
               [] attempt.state # "confirmed" /\ saved = attempt -> ToStage(t, "looking", attempt.id) /\ UNCHANGED asked
               [] OTHER -> ToStage(t, "asking", attempt.id) /\ asked' = asked \cup {attempt}
      PROVE  RsvpKept'
  <2>1. \/ attempt = saved /\ saved # None
        \/ /\ attempt = NewAttempt(minted + 1, work[t].details)
           /\ saved = None \/ saved.state \in {"rejected", "confirmed"}
    BY <1>2 DEF Prepared
  <2>2. FinishWork(t) \/ (\E s \in {"looking", "asking"} : ToStage(t, s, attempt.id))
    BY <1>2
  <2>3. attempt \in RsvpAttempts /\ minted' \in Nat
    <3>1. CASE attempt = saved /\ saved # None
      BY <1>2, <3>1, RsvpAssumption DEF RsvpKept, RsvpTypeOK, RsvpAttempts, RsvpIds
    <3>2. CASE attempt = NewAttempt(minted + 1, work[t].details)
      BY <1>0, <1>2, <3>2, RsvpAssumption DEF RsvpKept, RsvpTypeOK, RsvpAttempts, RsvpIds, NewAttempt
    <3>3. QED
      BY <2>1, <3>1, <3>2
  <2>4. TabsOK'
    <3>1. work' \in [Tabs -> RsvpWorks \cup {None}]
      BY <1>0, <2>2, <2>3, AttemptIds, ToStageOK
    <3>2. [NoView EXCEPT !.shown = attempt, !.marker = attempt.id] \in RsvpViews
      BY <2>3, AttemptIds DEF NoView, RsvpViews
    <3>3. QED
      BY <1>2, <3>1, <3>2 DEF TabsOK
  <2>5. attempt # None
    BY <2>3, RsvpAssumption
  <2>6. OpenRequestIsSaved' /\ SavedEndIsTrue'
    <3>1. CASE attempt = saved /\ saved # None
      <4>1. UNCHANGED asked /\ UNCHANGED saved
        BY <1>2, <3>1
      <4>2. QED
        BY <1>0, <4>1 DEF RsvpKept, RsvpInvariant, OpenRequestIsSaved, SavedEndIsTrue
    <3>2. CASE /\ attempt = NewAttempt(minted + 1, work[t].details)
               /\ saved = None \/ saved.state \in {"rejected", "confirmed"}
      <4>1. \A r \in asked : receipts[r.id] # "none"
        BY <3>2 DEF RsvpKept, RsvpInvariant, OpenRequestIsSaved
      <4>2. asked' \subseteq asked \cup {attempt} /\ attempt.state = "unresolved"
        BY <1>2, <3>2 DEF NewAttempt
      <4>3. QED
        BY <1>0, <1>2, <2>5, <4>1, <4>2 DEF OpenRequestIsSaved, SavedEndIsTrue
    <3>3. QED
      BY <2>1, <3>1, <3>2
  <2>7. asked' \subseteq asked \cup {attempt}
    BY <1>2
  <2>8. QED
    BY <1>0, <1>2, <2>3, <2>4, <2>6, <2>7 DEF RsvpKept, RsvpTypeOK, RsvpInvariant, TabsOK
<1>3. QED
  BY <1>1, <1>2 DEF RunSubmit

LEMMA ResolveKeeps ==
  ASSUME RsvpKept, NEW t \in Tabs, RunResolve(t) \/ RsvpLooked(t) \/ RsvpAnswered(t)
  PROVE  RsvpKept'
<1>0. work[t] # None /\ UNCHANGED <<minted, receipts>>
  BY DEF RunResolve, RsvpLooked, RsvpAnswered, HasLock
<1>1. FinishWork(t) \/ (\E s \in {"looking", "asking"}, i \in Nat : ToStage(t, s, i))
  <2>1. saved # None => saved.id \in Nat
    BY AttemptIds DEF RsvpKept, RsvpTypeOK
  <2>2. work[t].id \in Nat
    BY <1>0 DEF RsvpKept, RsvpTypeOK, TabsOK, RsvpWorks
  <2>3. QED
    BY <2>1, <2>2 DEF RunResolve, RsvpLooked, RsvpAnswered
<1>2. work' \in [Tabs -> RsvpWorks \cup {None}]
  BY <1>0, <1>1, ToStageOK
<1>3. CASE UNCHANGED <<saved, view>> /\ UNCHANGED asked
  BY <1>0, <1>2, <1>3, FewerAreOpen DEF RsvpKept, RsvpTypeOK, TabsOK
<1>4. CASE UNCHANGED <<saved, view>> /\ saved # None /\ asked' = asked \cup {saved}
  BY <1>0, <1>2, <1>4, SavedMayBeAsked DEF RsvpKept, RsvpTypeOK, TabsOK
<1>5. CASE RecordResult(t, work[t].id, receipts[work[t].id]) /\ UNCHANGED asked
  BY <1>0, <1>2, <1>5, RecordKeeps
<1>6. QED
  BY <1>3, <1>4, <1>5 DEF RunResolve, RsvpLooked, RsvpAnswered

\* The server decides once, and only what is asked.
LEMMA ServerKeepsRsvp ==
  ASSUME RsvpKept, (\E r \in asked : RsvpArrives(r) \/ RsvpLost(r)) \/ SomebodyRegisters
  PROVE  RsvpKept'
<1>1. TabsOK' /\ UNCHANGED <<saved, minted>>
  BY DEF RsvpKept, RsvpTypeOK, TabsOK, RsvpArrives, RsvpLost, SomebodyRegisters
<1>2. CASE UNCHANGED receipts
  <2>1. asked' \subseteq asked
    BY DEF RsvpArrives, RsvpLost, SomebodyRegisters
  <2>2. QED
    BY <1>1, <1>2, <2>1, FewerAreOpen
<1>3. ASSUME NEW r \in asked, receipts[r.id] = "none", asked' = asked \ {r},
             NEW x \in {"confirmed", "rejected"}, receipts' = [receipts EXCEPT ![r.id] = x]
      PROVE  RsvpKept'
  <2>1. r.id \in RsvpIds /\ \A s \in asked : s.id \in RsvpIds
    BY DEF RsvpKept, RsvpTypeOK, RsvpAttempts
  <2>2. \A i \in RsvpIds : receipts'[i] = receipts[i] \/ (i = r.id /\ receipts'[i] # "none")
    BY <1>3 DEF RsvpKept, RsvpTypeOK
  <2>3. saved # None /\ saved.id = r.id /\ saved.state = "unresolved"
    BY <1>3 DEF RsvpKept, RsvpInvariant, OpenRequestIsSaved
  <2>4. OpenRequestIsSaved' /\ SavedEndIsTrue'
    BY <1>1, <1>3, <2>1, <2>2, <2>3 DEF RsvpKept, RsvpInvariant, OpenRequestIsSaved, SavedEndIsTrue
  <2>5. receipts' \in [RsvpIds -> {"none", "confirmed", "rejected"}]
    BY <1>3 DEF RsvpKept, RsvpTypeOK
  <2>6. QED
    BY <1>1, <1>3, <2>4, <2>5 DEF RsvpKept, RsvpTypeOK, RsvpInvariant, TabsOK
<1>4. QED
  BY <1>2, <1>3 DEF RsvpArrives, RsvpLost, SomebodyRegisters

LEMMA NextRsvpKept == RsvpKept /\ [FreeRsvpNext]_rsvpVars => RsvpKept'
<1> SUFFICES ASSUME RsvpKept, [FreeRsvpNext]_rsvpVars PROVE RsvpKept'
  OBVIOUS
<1>1. CASE UNCHANGED rsvpVars
  BY <1>1, FewerAreOpen DEF rsvpVars, RsvpKept, RsvpTypeOK, TabsOK
<1>2. ASSUME NEW t \in Tabs,
             \/ OpenRsvp(t) \/ RsvpNoticed(t) \/ StartAnother(t) \/ CheckRsvp(t)
             \/ RunSubmit(t) \/ RunResolve(t) \/ RsvpLooked(t) \/ RsvpAnswered(t) \/ CloseTab(t)
             \/ \E d \in Quantities : SubmitRsvp(t, d)
      PROVE  RsvpKept'
  BY <1>2, PageKeepsRsvp, SubmitKeeps, ResolveKeeps
<1>3. QED
  BY <1>1, <1>2, ServerKeepsRsvp DEF FreeRsvpNext

\* However many tabs race, are closed and opened again, and whatever requests and
\* answers are lost or late: a request that may still register somebody is the one
\* the browser keeps as unresolved, and an end it keeps is what the server decided.
THEOREM RegistrationIsKnown == FreeRsvpSpec => []RsvpInvariant
<1>1. RsvpKept => RsvpInvariant
  BY DEF RsvpKept
<1>2. QED
  BY <1>1, InitRsvpKept, NextRsvpKept, PTL DEF FreeRsvpSpec

-----------------------------------------------------------------------------
(* The door of an event *)

ScanStates == [kind : {"starting", "ready", "no camera", "checking", "result"},
               pass : Passes \cup {None}, round : Nat, verdict : Verdicts \cup {None}]
DeskStates == [pass : Passes, phase : {"confirm", "retry", "uncertain", "submitting", "rechecking", "closed"},
               round : Nat, verdict : Verdicts \cup {None}]
DoorCalls  == [round : Nat, ask : {"redeem", "read"}, pass : Passes, answer : Verdicts \cup {None}]

DoorTypeOK ==
    /\ passes \in [Passes -> {"valid", "used", "refunded", "cancelled"}]
    /\ scanner \in [Scanners -> ScanStates]
    /\ desk \in DeskStates \cup {None}
    /\ calls \subseteq DoorCalls /\ rounds \in Nat
    /\ welcomed \in [Passes -> Nat]

\* What may be said of a ticket with status s.
TrueOf(verdict, s) ==
    /\ verdict \in {"admitted", "already_used"} => s = "used"
    /\ verdict \in {"refunded", "cancelled"} => s = verdict

\* A round is one request, and who awaits it asked about its ticket.
RoundsAreOne ==
    /\ \A c \in calls : c.round <= rounds
    /\ \A c, d \in calls : c.round = d.round => c = d
RoundsAreKnown ==
    /\ \A s \in Scanners : scanner[s].kind = "checking" =>
          /\ scanner[s].pass # None /\ scanner[s].round <= rounds
          /\ \A c \in calls : c.round = scanner[s].round => c.pass = scanner[s].pass
    /\ desk # None /\ desk.phase \in {"submitting", "rechecking"} =>
          /\ desk.round <= rounds
          /\ \A c \in calls : c.round = desk.round => c.pass = desk.pass

\* An answer under way is true; an admission was shown, or is under way, once at most.
AnswersAreTrue == \A c \in calls : TrueOf(c.answer, passes[c.pass])
AdmissionsAreOne ==
    /\ \A p \in Passes : welcomed[p] # 0 => welcomed[p] = 1 /\ passes[p] = "used"
    /\ \A c \in calls : c.answer = "admitted" => welcomed[c.pass] = 0
    /\ \A c, d \in calls : c.answer = "admitted" /\ d.answer = "admitted" /\ c.pass = d.pass => c = d

\* What is shown is true, and names its ticket.
ShownIsTrue ==
    /\ \A s \in Scanners : scanner[s].verdict # None =>
          scanner[s].pass # None /\ TrueOf(scanner[s].verdict, passes[scanner[s].pass])
    /\ desk # None => TrueOf(desk.verdict, passes[desk.pass])

\* Nothing the desk knows nothing of is without doubt.
DoubtIsKept == unsettled \subseteq doubts /\ FirstAskIsFirst

DoorKept ==
    /\ DoorTypeOK /\ RoundsAreOne /\ RoundsAreKnown /\ AnswersAreTrue /\ AdmissionsAreOne
    /\ ShownIsTrue /\ DoubtIsKept

LEMMA InitDoorKept == DoorInit => DoorKept
  BY DoorAssumption
     DEF DoorInit, DoorKept, DoorTypeOK, ScanStates, Starting, RoundsAreOne, RoundsAreKnown,
         AnswersAreTrue, AdmissionsAreOne, ShownIsTrue, DoubtIsKept, FirstAskIsFirst

LEMMA DoorKeptSuffices == DoorKept => DoorInvariant
<1> SUFFICES ASSUME DoorKept PROVE DoorInvariant
  OBVIOUS
<1>1. AdmittedOnce
  BY DEF DoorKept, DoorTypeOK, AdmissionsAreOne, AdmittedOnce
<1>2. VerdictIsTrue
  BY DoorAssumption DEF DoorKept, ShownIsTrue, TrueOf, VerdictIsTrue, Verdicts
<1>3. QED
  BY <1>1, <1>2 DEF DoorKept, DoubtIsKept, DoorInvariant

\* Only a valid ticket changes.
PassesOnlyEnd ==
    /\ passes' \in [Passes -> {"valid", "used", "refunded", "cancelled"}]
    /\ \A p \in Passes : passes[p] # "valid" => passes'[p] = passes[p]

\* Whatever is shown or said of a ticket stays true.
LEMMA TruthStays ==
  ASSUME DoorKept, PassesOnlyEnd, NEW p \in Passes, NEW v, TrueOf(v, passes[p])
  PROVE  TrueOf(v, passes'[p])
  BY DEF TrueOf, PassesOnlyEnd, DoorKept, DoorTypeOK

LEMMA ServedKeeps == ASSUME DoorKept, NEW c, Served(c) PROVE DoorKept'
<1> DEFINE v == IF c.ask = "read" THEN ReadVerdict(c.pass) ELSE RedeemVerdict(c.pass)
           d == [c EXCEPT !.answer = v]
<1>1. /\ c \in calls /\ c \in DoorCalls /\ c.answer = None /\ c.pass \in Passes
      /\ passes' = IF v = "admitted" THEN [passes EXCEPT ![c.pass] = "used"] ELSE passes
      /\ calls' = (calls \ {c}) \cup {d}
      /\ UNCHANGED <<doorsOpen, rounds, scanner, desk, doubts, welcomed, unsettled>>
  BY DEF Served, DoorKept, DoorTypeOK, DoorCalls, pages
<1>2. passes[c.pass] \in {"valid", "used", "refunded", "cancelled"}
  BY <1>1 DEF DoorKept, DoorTypeOK
<1>3. /\ v \in Verdicts
      /\ v = "admitted" => passes[c.pass] = "valid"
      /\ v # "admitted" => TrueOf(v, passes[c.pass])
  BY <1>2 DEF ReadVerdict, RedeemVerdict, TrueOf, Verdicts
<1> HIDE DEF v
<1>4. PassesOnlyEnd /\ TrueOf(v, passes'[c.pass])
  BY <1>1, <1>2, <1>3 DEF PassesOnlyEnd, TrueOf, DoorKept, DoorTypeOK
<1>5. /\ d \in DoorCalls /\ d.round = c.round /\ d.pass = c.pass /\ d.answer = v
  BY <1>1, <1>3 DEF DoorCalls
<1> HIDE DEF d
<1>6. DoorTypeOK'
  BY <1>1, <1>4, <1>5 DEF DoorKept, DoorTypeOK, PassesOnlyEnd
<1>7. RoundsAreOne' /\ RoundsAreKnown'
  BY <1>1, <1>5 DEF DoorKept, RoundsAreOne, RoundsAreKnown
<1>8. AnswersAreTrue'
  BY <1>1, <1>4, <1>5, TruthStays DEF DoorKept, DoorTypeOK, AnswersAreTrue, DoorCalls
<1>9. AdmissionsAreOne'
  <2>1. \A e \in calls : e.pass \in Passes /\ (e.answer = "admitted" => passes[e.pass] = "used")
    BY DEF DoorKept, DoorTypeOK, AnswersAreTrue, TrueOf, DoorCalls
  <2>2. v = "admitted" => welcomed[c.pass] = 0 /\ \A e \in calls : e.answer = "admitted" => e.pass # c.pass
    BY <1>1, <1>3, <2>1 DEF DoorKept, AdmissionsAreOne
  <2>3. \A p \in Passes : passes[p] = "used" => passes'[p] = "used"
    BY <1>4 DEF PassesOnlyEnd
  <2>4. QED
    BY <1>1, <1>5, <2>2, <2>3 DEF DoorKept, AdmissionsAreOne
<1>10. ShownIsTrue'
  BY <1>1, <1>4, TruthStays DEF DoorKept, DoorTypeOK, ShownIsTrue, ScanStates, DeskStates
<1>11. DoubtIsKept'
  BY <1>1 DEF DoorKept, DoubtIsKept, FirstAskIsFirst
<1>12. QED
  BY <1>6, <1>7, <1>8, <1>9, <1>10, <1>11 DEF DoorKept

LEMMA DroppedKeeps == ASSUME DoorKept, NEW c, Dropped(c) PROVE DoorKept'
<1> DEFINE d == [c EXCEPT !.answer = "network_error"]
<1>1. /\ c \in calls /\ c \in DoorCalls /\ calls' = (calls \ {c}) \cup {d}
      /\ UNCHANGED <<passes, doorsOpen, rounds, scanner, desk, doubts, welcomed, unsettled>>
  BY DEF Dropped, DoorKept, DoorTypeOK, pages
<1>2. d \in DoorCalls /\ d.round = c.round /\ d.pass = c.pass /\ d.answer = "network_error"
  BY <1>1 DEF DoorCalls, Verdicts
<1> HIDE DEF d
<1>3. DoorTypeOK' /\ ShownIsTrue' /\ DoubtIsKept'
  BY <1>1, <1>2 DEF DoorKept, DoorTypeOK, ShownIsTrue, DoubtIsKept, FirstAskIsFirst
<1>4. RoundsAreOne' /\ RoundsAreKnown'
  BY <1>1, <1>2 DEF DoorKept, RoundsAreOne, RoundsAreKnown
<1>5. AnswersAreTrue' /\ AdmissionsAreOne'
  BY <1>1, <1>2 DEF DoorKept, AnswersAreTrue, AdmissionsAreOne, TrueOf
<1>6. QED
  BY <1>3, <1>4, <1>5 DEF DoorKept

\* What a scanner and the desk wait for, show and doubt; the rest of DoorKept is about requests.
ScannerOK(s) ==
    /\ scanner[s] \in ScanStates
    /\ scanner[s].kind = "checking" =>
          /\ scanner[s].pass # None /\ scanner[s].round <= rounds
          /\ \A c \in calls : c.round = scanner[s].round => c.pass = scanner[s].pass
    /\ scanner[s].verdict # None =>
          scanner[s].pass # None /\ TrueOf(scanner[s].verdict, passes[scanner[s].pass])
DeskOK ==
    /\ desk \in DeskStates \cup {None}
    /\ desk # None =>
          /\ desk.phase \in {"submitting", "rechecking"} =>
                desk.round <= rounds /\ \A c \in calls : c.round = desk.round => c.pass = desk.pass
          /\ TrueOf(desk.verdict, passes[desk.pass])
CallsOK ==
    /\ calls \subseteq DoorCalls /\ rounds \in Nat /\ welcomed \in [Passes -> Nat]
    /\ passes \in [Passes -> {"valid", "used", "refunded", "cancelled"}]
    /\ RoundsAreOne /\ AnswersAreTrue /\ AdmissionsAreOne

LEMMA DoorParts ==
  DoorKept <=> /\ CallsOK /\ DeskOK /\ DoubtIsKept
               /\ scanner \in [Scanners -> ScanStates] /\ \A s \in Scanners : ScannerOK(s)
  BY DEF DoorKept, DoorTypeOK, CallsOK, DeskOK, ScannerOK, RoundsAreKnown, ShownIsTrue

LEMMA DoorPartsNext ==
  ASSUME CallsOK', DeskOK', DoubtIsKept', scanner' \in [Scanners -> ScanStates],
         \A s \in Scanners : ScannerOK(s)'
  PROVE  DoorKept'
  BY DEF DoorKept, DoorTypeOK, CallsOK, DeskOK, ScannerOK, RoundsAreKnown, ShownIsTrue

\* A new request is nobody's yet but its sender's.
LEMMA AskKeeps ==
  ASSUME DoorKept, NEW what \in {"redeem", "read"}, NEW p \in Passes, Ask(what, p),
         UNCHANGED <<passes, welcomed>>
  PROVE  /\ CallsOK' /\ rounds' = rounds + 1 /\ rounds \in Nat
         /\ \A c \in calls' : c.round = rounds' => c.pass = p
         /\ \A c \in calls' : c \in calls \/ c.round = rounds'
         /\ \A s \in Scanners : UNCHANGED scanner[s] => ScannerOK(s)'
         /\ UNCHANGED desk => DeskOK'
<1> DEFINE n == [round |-> rounds + 1, ask |-> what, pass |-> p, answer |-> None]
<1>1. /\ rounds \in Nat /\ rounds' = rounds + 1 /\ calls' = calls \cup {n}
      /\ calls \subseteq DoorCalls
  BY DEF Ask, DoorKept, DoorTypeOK
<1>2. n \in DoorCalls /\ n.round = rounds + 1 /\ n.pass = p /\ n.answer = None
  BY <1>1 DEF DoorCalls
<1> HIDE DEF n
<1>3. \A c \in calls : c.round <= rounds /\ c.round \in Nat
  BY <1>1 DEF DoorKept, RoundsAreOne, DoorCalls
<1>4. n.answer # "admitted" /\ TrueOf(n.answer, passes[p])
  BY <1>2, DoorAssumption DEF TrueOf, Verdicts
<1>5. RoundsAreOne'
  BY <1>1, <1>2, <1>3 DEF DoorKept, RoundsAreOne
<1>6. AnswersAreTrue' /\ AdmissionsAreOne'
  BY <1>1, <1>2, <1>4 DEF DoorKept, AnswersAreTrue, AdmissionsAreOne
<1>7. CallsOK'
  BY <1>1, <1>2, <1>5, <1>6 DEF CallsOK, DoorKept, DoorTypeOK
<1>8. /\ \A c \in calls' : c.round = rounds' => c.pass = p
      /\ \A c \in calls' : c \in calls \/ c.round = rounds'
  BY <1>1, <1>2, <1>3
<1>9. ASSUME NEW s \in Scanners, UNCHANGED scanner[s] PROVE ScannerOK(s)'
  <2>1. ScannerOK(s)
    BY DoorParts
  <2>2. scanner[s].round \in Nat
    BY <2>1 DEF ScannerOK, ScanStates
  <2>3. QED
    BY <1>1, <1>8, <1>9, <2>1, <2>2 DEF ScannerOK
<1>10. ASSUME UNCHANGED desk PROVE DeskOK'
  <2>1. DeskOK /\ (desk # None => desk.round \in Nat)
    BY DoorParts DEF DeskOK, DeskStates
  <2>2. QED
    BY <1>1, <1>8, <1>10, <2>1 DEF DeskOK
<1>11. QED
  BY <1>1, <1>7, <1>8, <1>9, <1>10

LEMMA ScannerKeeps ==
  ASSUME DoorKept, NEW s \in Scanners,
         CameraStarts(s) \/ ScanNext(s) \/ RetryScan(s) \/ \E p \in Passes : Scan(s, p)
  PROVE  DoorKept'
<1>0. /\ scanner \in [Scanners -> ScanStates] /\ scanner[s] \in ScanStates /\ ScannerOK(s)
      /\ UNCHANGED <<passes, desk, doubts, unsettled, welcomed>>
  BY DoorParts DEF CameraStarts, ScanNext, RetryScan, Scan
<1>1. DoubtIsKept'
  BY <1>0 DEF DoorKept, DoubtIsKept, FirstAskIsFirst
<1>2. CASE CameraStarts(s) \/ ScanNext(s)
  <2>1. UNCHANGED <<calls, rounds>>
    BY <1>2 DEF CameraStarts, ScanNext
  <2>2. PICK x \in ScanStates : scanner' = [scanner EXCEPT ![s] = x] /\ x.kind # "checking"
             /\ (x.verdict = None \/ (x.verdict = scanner[s].verdict /\ x.pass = scanner[s].pass))
    <3>1. CASE ScanNext(s)
      <4>1. /\ Starting \in ScanStates /\ Starting.kind # "checking" /\ Starting.verdict = None
            /\ scanner' = [scanner EXCEPT ![s] = Starting]
        BY <3>1 DEF ScanNext, Starting, ScanStates
      <4>2. QED
        BY <4>1
    <3>2. CASE CameraStarts(s)
      <4>1. PICK k \in {"ready", "no camera"} : scanner' = [scanner EXCEPT ![s].kind = k]
        BY <3>2 DEF CameraStarts
      <4> DEFINE x == [scanner[s] EXCEPT !.kind = k]
      <4>2. /\ x \in ScanStates /\ x.kind = k /\ x.verdict = scanner[s].verdict
            /\ x.pass = scanner[s].pass
        BY <1>0 DEF ScanStates
      <4>3. scanner' = [scanner EXCEPT ![s] = x]
        BY <4>1
      <4>4. QED
        BY <4>2, <4>3
    <3>3. QED
      BY <1>2, <3>1, <3>2
  <2>3. ScannerOK(s)'
    BY <1>0, <2>1, <2>2 DEF ScannerOK
  <2>4. \A u \in Scanners \ {s} : ScannerOK(u)'
    BY <1>0, <2>1, <2>2, DoorParts DEF ScannerOK
  <2>5. CallsOK' /\ DeskOK'
    BY <1>0, <2>1, DoorParts
       DEF CallsOK, DeskOK, RoundsAreOne, AnswersAreTrue, AdmissionsAreOne
  <2>6. QED
    BY <1>0, <1>1, <2>2, <2>3, <2>4, <2>5, DoorPartsNext
<1>3. ASSUME NEW p \in Passes, Ask("redeem", p), NEW x \in ScanStates,
             scanner' = [scanner EXCEPT ![s] = x],
             x.kind = "checking", x.pass = p, x.round = rounds', x.verdict = None
      PROVE  DoorKept'
  <2>1. CallsOK' /\ DeskOK' /\ (\A c \in calls' : c.round = rounds' => c.pass = p) /\ rounds' \in Nat
    BY <1>0, <1>3, AskKeeps
  <2>2. \A u \in Scanners \ {s} : ScannerOK(u)'
    BY <1>0, <1>3, AskKeeps
  <2>3. ScannerOK(s)'
    BY <1>0, <1>3, <2>1, DoorAssumption DEF ScannerOK
  <2>4. QED
    BY <1>0, <1>1, <1>3, <2>1, <2>2, <2>3, DoorPartsNext
<1>4. CASE RetryScan(s)
  <2> DEFINE p == scanner[s].pass
             x == [scanner[s] EXCEPT !.kind = "checking", !.round = rounds', !.verdict = None]
  <2>1. p # None /\ p \in Passes
    BY <1>0, <1>4, DoorAssumption DEF RetryScan, ScannerOK, ScanStates, Verdicts
  <2>2. Ask("redeem", p) /\ rounds' \in Nat
    BY <1>4 DEF RetryScan, Ask, DoorKept, DoorTypeOK
  <2>3. /\ x \in ScanStates /\ x.kind = "checking" /\ x.pass = p /\ x.round = rounds'
        /\ x.verdict = None
    BY <1>0, <2>2 DEF ScanStates
  <2>4. scanner' = [scanner EXCEPT ![s] = x]
    BY <1>4 DEF RetryScan
  <2> HIDE DEF x
  <2>5. QED
    BY <1>3, <2>1, <2>2, <2>3, <2>4
<1>5. CASE \E p \in Passes : Scan(s, p)
  <2>1. PICK p \in Passes : Scan(s, p)
    BY <1>5
  <2> DEFINE x == [kind |-> "checking", pass |-> p, round |-> rounds', verdict |-> None]
  <2>2. Ask("redeem", p) /\ rounds' \in Nat /\ scanner' = [scanner EXCEPT ![s] = x]
    BY <2>1 DEF Scan, Ask, DoorKept, DoorTypeOK
  <2>3. x \in ScanStates
    BY <2>2 DEF ScanStates
  <2>4. QED
    BY <1>3, <2>2, <2>3
<1>6. QED
  BY <1>2, <1>4, <1>5

\* An answer is taken once.
LEMMA AnswerKeeps ==
  ASSUME DoorKept, NEW c \in calls, calls' = calls \ {c}, ShowsVerdict(c.pass, c.answer),
         UNCHANGED <<passes, rounds>>
  PROVE  /\ CallsOK' /\ c \in DoorCalls /\ TrueOf(c.answer, passes'[c.pass])
         /\ \A s \in Scanners : UNCHANGED scanner[s] => ScannerOK(s)'
         /\ UNCHANGED desk => DeskOK'
<1>1. /\ c \in DoorCalls /\ c.pass \in Passes /\ welcomed \in [Passes -> Nat]
      /\ TrueOf(c.answer, passes[c.pass])
  BY DEF DoorKept, DoorTypeOK, DoorCalls, AnswersAreTrue
<1>2. /\ welcomed' \in [Passes -> Nat]
      /\ \A p \in Passes : welcomed'[p] = welcomed[p]
            \/ (p = c.pass /\ c.answer = "admitted" /\ welcomed'[p] = welcomed[p] + 1)
  BY <1>1 DEF ShowsVerdict
<1>3. RoundsAreOne' /\ AnswersAreTrue'
  BY DEF DoorKept, RoundsAreOne, AnswersAreTrue
<1>4. AdmissionsAreOne'
  <2>1. c.answer = "admitted" => /\ welcomed[c.pass] = 0 /\ passes[c.pass] = "used"
                                /\ \A d \in calls : d.answer = "admitted" /\ d.pass = c.pass => d = c
    BY <1>1 DEF DoorKept, AdmissionsAreOne, TrueOf
  <2>2. \A p \in Passes : welcomed'[p] # 0 => welcomed'[p] = 1 /\ passes'[p] = "used"
    BY <1>2, <2>1 DEF DoorKept, AdmissionsAreOne
  <2>3. \A d \in calls' : d \in calls /\ d.pass \in Passes /\ d # c
    BY DEF DoorKept, DoorTypeOK, DoorCalls
  <2>4. \A d \in calls' : d.answer = "admitted" => welcomed'[d.pass] = 0
    BY <1>2, <2>1, <2>3 DEF DoorKept, AdmissionsAreOne
  <2>5. QED
    BY <2>2, <2>3, <2>4 DEF DoorKept, AdmissionsAreOne
<1>5. CallsOK'
  BY <1>2, <1>3, <1>4 DEF CallsOK, DoorKept, DoorTypeOK
<1>6. ASSUME NEW s \in Scanners, UNCHANGED scanner[s] PROVE ScannerOK(s)'
  BY <1>6, DoorParts DEF ScannerOK
<1>7. ASSUME UNCHANGED desk PROVE DeskOK'
  BY <1>7, DoorParts DEF DeskOK
<1>8. QED
  BY <1>1, <1>5, <1>6, <1>7

LEMMA CheckedKeeps == ASSUME DoorKept, NEW s \in Scanners, NEW c \in calls, Checked(s, c) PROVE DoorKept'
<1> DEFINE x == [scanner[s] EXCEPT !.kind = "result", !.verdict = c.answer]
<1>1. /\ calls' = calls \ {c} /\ ShowsVerdict(c.pass, c.answer)
      /\ UNCHANGED <<passes, rounds, desk, doubts, unsettled>>
      /\ scanner' = [scanner EXCEPT ![s] = x]
      /\ scanner[s].kind = "checking" /\ scanner[s].round = c.round /\ c.answer # None
  BY DEF Checked
<1>2. ScannerOK(s) /\ scanner \in [Scanners -> ScanStates] /\ scanner[s] \in ScanStates
  BY DoorParts
<1>3. /\ CallsOK' /\ DeskOK' /\ c \in DoorCalls /\ TrueOf(c.answer, passes'[c.pass])
      /\ \A u \in Scanners \ {s} : ScannerOK(u)'
  BY <1>1, <1>2, AnswerKeeps
<1>4. /\ x \in ScanStates /\ x.kind = "result" /\ x.verdict = c.answer
      /\ x.pass = scanner[s].pass
  BY <1>2, <1>3 DEF ScanStates, DoorCalls
<1> HIDE DEF x
<1>5. x.pass = c.pass /\ x.pass # None
  BY <1>1, <1>2, <1>4 DEF ScannerOK
<1>6. ScannerOK(s)'
  BY <1>1, <1>2, <1>3, <1>4, <1>5 DEF ScannerOK
<1>7. DoubtIsKept'
  BY <1>1 DEF DoorKept, DoubtIsKept, FirstAskIsFirst
<1>8. QED
  BY <1>1, <1>2, <1>3, <1>4, <1>6, <1>7, DoorPartsNext

\* The desk changes its dialog and sends nothing.
LEMMA DialogKeeps ==
  ASSUME DoorKept, UNCHANGED <<passes, scanner, calls, rounds, welcomed>>, DeskOK', DoubtIsKept'
  PROVE  DoorKept'
<1>1. CallsOK'
  BY DoorParts DEF CallsOK, RoundsAreOne, AnswersAreTrue, AdmissionsAreOne
<1>2. \A s \in Scanners : ScannerOK(s)'
  BY DoorParts DEF ScannerOK
<1>3. scanner' \in [Scanners -> ScanStates]
  BY DoorParts
<1>4. QED
  BY <1>1, <1>2, <1>3, DoorPartsNext

LEMMA DeskKeeps ==
  ASSUME DoorKept, LeaveDesk \/ ReloadDesk \/ TimeOut \/ \E p \in Passes : OpenDesk(p)
  PROVE  DoorKept'
<1>1. UNCHANGED <<passes, scanner, calls, rounds, welcomed>>
  BY DEF LeaveDesk, ReloadDesk, TimeOut, OpenDesk
<1>2. DeskOK /\ DoubtIsKept
  BY DoorParts
<1>3. CASE LeaveDesk \/ ReloadDesk
  BY <1>1, <1>2, <1>3, DialogKeeps DEF LeaveDesk, ReloadDesk, DeskOK, DoubtIsKept, FirstAskIsFirst
<1>4. CASE TimeOut
  <2> DEFINE x == [desk EXCEPT !.phase = "uncertain", !.round = 0]
  <2>1. desk \in DeskStates /\ desk # None /\ desk' = x /\ UNCHANGED <<doubts, unsettled>>
    BY <1>2, <1>4 DEF TimeOut, DeskOK
  <2>2. /\ x \in DeskStates /\ x.phase = "uncertain" /\ x.pass = desk.pass
        /\ x.verdict = desk.verdict
    BY <2>1 DEF DeskStates
  <2> HIDE DEF x
  <2>3. DeskOK' /\ DoubtIsKept'
    BY <1>1, <1>2, <2>1, <2>2 DEF DeskOK, DoubtIsKept, FirstAskIsFirst
  <2>4. QED
    BY <1>1, <2>3, DialogKeeps
<1>5. CASE \E p \in Passes : OpenDesk(p)
  <2>1. PICK p \in Passes : OpenDesk(p)
    BY <1>5
  <2> DEFINE x == [pass |-> p, phase |-> IF p \in doubts THEN "uncertain" ELSE "confirm",
                   round |-> 0, verdict |-> None]
  <2>2. desk' = x /\ UNCHANGED <<doubts, unsettled>>
    BY <2>1 DEF OpenDesk
  <2>3. /\ x \in DeskStates /\ x.pass = p /\ x.verdict = None
        /\ x.phase = (IF p \in doubts THEN "uncertain" ELSE "confirm")
    BY DEF DeskStates
  <2> HIDE DEF x
  <2>4. DeskOK' /\ DoubtIsKept'
    BY <1>1, <1>2, <2>2, <2>3, DoorAssumption DEF DeskOK, DoubtIsKept, FirstAskIsFirst, TrueOf, Verdicts
  <2>5. QED
    BY <1>1, <2>4, DialogKeeps
<1>6. QED
  BY <1>3, <1>4, <1>5

LEMMA DeskAsksKeeps == ASSUME DoorKept, AdmitGuest \/ Recheck PROVE DoorKept'
<1>1. DeskOK /\ DoubtIsKept /\ desk # None /\ desk \in DeskStates /\ desk.pass \in Passes
  BY DoorParts DEF AdmitGuest, Recheck, DeskOK, DeskStates
<1>2. PICK what \in {"redeem", "read"}, phase \in {"submitting", "rechecking"} :
        /\ Ask(what, desk.pass)
        /\ desk' = [desk EXCEPT !.phase = phase, !.round = rounds']
        /\ UNCHANGED <<passes, scanner, welcomed>>
        /\ doubts' = doubts \cup {desk.pass} /\ unsettled' \subseteq unsettled \cup {desk.pass}
  BY DEF AdmitGuest, Recheck
<1>3. /\ CallsOK' /\ rounds' \in Nat /\ \A c \in calls' : c.round = rounds' => c.pass = desk.pass
      /\ \A s \in Scanners : ScannerOK(s)'
  BY <1>1, <1>2, AskKeeps
<1> DEFINE x == [desk EXCEPT !.phase = phase, !.round = rounds']
<1>4. /\ x \in DeskStates /\ x.phase = phase /\ x.round = rounds' /\ x.pass = desk.pass
      /\ x.verdict = desk.verdict
  BY <1>1, <1>3 DEF DeskStates
<1>5. desk' = x
  BY <1>2
<1> HIDE DEF x
<1>6. DeskOK'
  BY <1>1, <1>2, <1>3, <1>4, <1>5 DEF DeskOK
<1>7. DoubtIsKept'
  BY <1>1, <1>2, <1>4, <1>5 DEF DoubtIsKept, FirstAskIsFirst
<1>8. scanner' \in [Scanners -> ScanStates]
  BY <1>2, DoorParts
<1>9. QED
  BY <1>3, <1>6, <1>7, <1>8, DoorPartsNext

LEMMA DeskAnsweredKeeps == ASSUME DoorKept, NEW c \in calls, DeskAnswered(c) PROVE DoorKept'
<1>1. /\ DeskOK /\ DoubtIsKept /\ desk # None /\ desk \in DeskStates
      /\ desk.phase \in {"submitting", "rechecking"} /\ desk.round = c.round
      /\ calls' = calls \ {c} /\ ShowsVerdict(c.pass, c.answer) /\ c.answer # None
      /\ UNCHANGED <<passes, scanner, rounds>>
  BY DoorParts DEF DeskAnswered, DeskOK
<1>2. /\ CallsOK' /\ c \in DoorCalls /\ TrueOf(c.answer, passes'[c.pass])
      /\ \A s \in Scanners : ScannerOK(s)'
  BY <1>1, AnswerKeeps
<1>3. c.pass = desk.pass /\ c.answer \in Verdicts
  BY <1>1, <1>2 DEF DeskOK, DoorCalls
<1>4. PICK x \in DeskStates :
        /\ desk' = x /\ x.pass = desk.pass /\ x.phase \in {"uncertain", "retry", "closed"}
        /\ x.verdict = desk.verdict \/ x.verdict = c.answer
  <2> DEFINE y == [desk EXCEPT !.phase = "uncertain"]
             z == [desk EXCEPT !.phase = "retry"]
             w == [desk EXCEPT !.phase = "closed", !.verdict = c.answer]
  <2>1. y \in DeskStates /\ y.pass = desk.pass /\ y.phase = "uncertain" /\ y.verdict = desk.verdict
    BY <1>1 DEF DeskStates
  <2>2. z \in DeskStates /\ z.pass = desk.pass /\ z.phase = "retry" /\ z.verdict = desk.verdict
    BY <1>1 DEF DeskStates
  <2>3. w \in DeskStates /\ w.pass = desk.pass /\ w.phase = "closed" /\ w.verdict = c.answer
    BY <1>1, <1>3 DEF DeskStates
  <2>4. desk' = y \/ desk' = z \/ desk' = w
    BY DEF DeskAnswered
  <2> HIDE DEF y, z, w
  <2>5. QED
    BY <2>1, <2>2, <2>3, <2>4
<1>5. DeskOK'
  BY <1>1, <1>2, <1>3, <1>4 DEF DeskOK
<1>6. DoubtIsKept'
  <2>1. \/ UNCHANGED <<doubts, unsettled>>
        \/ doubts' = doubts \ {c.pass} /\ unsettled' = unsettled \ {c.pass}
    BY DEF DeskAnswered
  <2>2. QED
    BY <1>1, <1>4, <2>1 DEF DoubtIsKept, FirstAskIsFirst
<1>7. scanner' \in [Scanners -> ScanStates]
  BY <1>1, DoorParts
<1>8. QED
  BY <1>2, <1>5, <1>6, <1>7, DoorPartsNext

\* Refunds, cancellations and the end of the event.
LEMMA OutsideKeeps == ASSUME DoorKept, DoorsClose \/ \E p \in Passes : Withdrawn(p) PROVE DoorKept'
<1>1. UNCHANGED <<calls, rounds, scanner, desk, doubts, welcomed, unsettled>>
  BY DEF DoorsClose, Withdrawn, pages
<1>2. PassesOnlyEnd
  BY DEF DoorsClose, Withdrawn, PassesOnlyEnd, DoorKept, DoorTypeOK
<1>3. DoorTypeOK' /\ RoundsAreOne' /\ RoundsAreKnown' /\ DoubtIsKept'
  BY <1>1, <1>2 DEF PassesOnlyEnd, DoorKept, DoorTypeOK, RoundsAreOne, RoundsAreKnown, DoubtIsKept,
                    FirstAskIsFirst
<1>4. AnswersAreTrue' /\ ShownIsTrue'
  BY <1>1, <1>2, TruthStays
     DEF DoorKept, DoorTypeOK, AnswersAreTrue, ShownIsTrue, DoorCalls, ScanStates, DeskStates
<1>5. AdmissionsAreOne'
  BY <1>1, <1>2 DEF PassesOnlyEnd, DoorKept, AdmissionsAreOne
<1>6. QED
  BY <1>3, <1>4, <1>5 DEF DoorKept

LEMMA NextDoorKept == DoorKept /\ [DoorAdmissionNext]_doorVars => DoorKept'
<1> SUFFICES ASSUME DoorKept, [DoorAdmissionNext]_doorVars PROVE DoorKept'
  OBVIOUS
<1>1. CASE UNCHANGED doorVars
  <2>1. UNCHANGED <<passes, scanner, calls, rounds, welcomed>> /\ DeskOK' /\ DoubtIsKept'
    BY <1>1, DoorParts DEF doorVars, DeskOK, DoubtIsKept, FirstAskIsFirst
  <2>2. QED
    BY <2>1, DialogKeeps
<1>2. CASE \E s \in Scanners : \/ CameraStarts(s) \/ RetryScan(s) \/ ScanNext(s)
                               \/ \E p \in Passes : Scan(s, p)
                               \/ \E c \in calls : Checked(s, c)
  BY <1>2, ScannerKeeps, CheckedKeeps
<1>3. CASE \E c \in calls : Served(c) \/ Dropped(c) \/ DeskAnswered(c)
  BY <1>3, ServedKeeps, DroppedKeeps, DeskAnsweredKeeps
<1>4. CASE \/ LeaveDesk \/ ReloadDesk \/ AdmitGuest \/ Recheck \/ TimeOut \/ DoorsClose
           \/ \E p \in Passes : OpenDesk(p) \/ Withdrawn(p)
  BY <1>4, DeskKeeps, DeskAsksKeeps, OutsideKeeps
<1>5. QED
  BY <1>1, <1>2, <1>3, <1>4 DEF DoorAdmissionNext

\* However many devices scan a ticket, ask again, are left and lose answers: it is
\* shown as admitted once at most, every verdict shown is true of the ticket it
\* names, and the desk never offers as a first admission what it may have asked for.
THEOREM DoorIsTrue == DoorAdmissionSpec => []DoorInvariant
<1>1. QED
  BY InitDoorKept, NextDoorKept, DoorKeptSuffices, PTL DEF DoorAdmissionSpec

-----------------------------------------------------------------------------
(* What a guest sees of the tickets *)

Events   == {"published", "cancelled"}
States   == {"valid", "used", "cancelled", "refunded"}
Facts    == {None, 1, 2}
Statuses == {"paid", "refunded", "confirmed", "cancelled"}
Coded    == [status : States, code : Nat \cup {None}]
Rows(T)  == [source : Sources, event : Events, facts : Facts, status : Statuses,
             tickets : UNION {[1..Counts[s] -> T] : s \in Sources}]
Answers  == [kind : {"ready"}, value : Rows(Coded)] \cup Refusals \cup {Unavailable}
Indexes  == [kind : {"ready"}, value : [Sources -> Facts]] \cup Refusals \cup {Unavailable}
Choices  == (Sources \X Nat) \cup {None}
Pendings == [selector : Choices, url : BOOLEAN] \cup {None}
Calls    == [answer : Answers \cup {None}] \cup {None}
Lookups  == [answer : Indexes \cup {None}] \cup {None}
GuestTabs ==
    [at : {"away", "tickets", "access"}, source : Sources \cup {None}, route : Choices, visible : Choices,
     pending : Pendings, shown : Answers \cup {None}, call : Calls, session : Nat \cup {None},
     index : Indexes \cup {None}, indexCall : Lookups,
     expired : BOOLEAN, failed : Answers \cup {None}, reads : Nat]

Orders   == {"paid", "refunded", "requires_review"}
Piles    == UNION {[1..Counts[s] -> States] : s \in Sources}
Ledgers  == [order : Orders, event : [Sources -> Events], facts : [Sources -> Facts],
             tickets : [Sources -> Piles], changes : Nat]

AccessTypeOK ==
    /\ ledger \in Ledgers
    /\ \A s \in Sources : ledger.tickets[s] \in [1..Counts[s] -> States]
    /\ now \in Nat
    /\ tab \in GuestTabs

\* What the tickets of an order or a registration may be, beside used.
RestsAs(l, s) ==
    IF s = "paid_order" /\ l.order = "refunded" THEN "refunded"
    ELSE IF s = "paid_order" /\ l.order = "requires_review" THEN "cancelled"
    ELSE IF l.event[s] = "cancelled" THEN "cancelled" ELSE "valid"
LedgerFits == \A s \in Sources : \A u \in 1..Counts[s] : ledger.tickets[s][u] \in {"used", RestsAs(ledger, s)}

\* A collection gives the code of each valid ticket.
HasCodes(a) ==
    a.kind = "ready" => \A u \in DOMAIN a.value.tickets :
        a.value.tickets[u].status = "valid" => a.value.tickets[u].code = u

\* What is shown was asked for, with a link that is not over longer than the grant;
\* nothing is shown while it is asked for.
ShownFits ==
    /\ tab.shown # None /\ tab.shown.kind = "ready" =>
          /\ tab.shown.value.source = tab.source /\ HasCodes(tab.shown)
          /\ tab.at = "access" => tab.session # None /\ tab.session <= LinkLife
    /\ tab.call # None => tab.shown = None /\ tab.source # None
    /\ tab.call # None /\ tab.call.answer # None => HasCodes(tab.call.answer)

AccessKept == AccessTypeOK /\ LedgerFits /\ ShownFits

-----------------------------------------------------------------------------
(* The three rules *)

LEMMA NoneApart ==
  /\ None \notin Nat /\ None \notin Sources /\ AskingTickets # None
  /\ None \notin [selector : Choices, url : BOOLEAN]
  /\ None \notin Rows(States) /\ None \notin Rows(Coded)
  /\ Counts \in [Sources -> 1..10] /\ {LinkLife, SessionLife, MaxNow, MaxTurns, MaxReads} \subseteq Nat
  BY AccessAssumption DEF Rows, States, Coded, Events, Facts, Statuses, AskingTickets, Choices

LEMMA DisplayTyped ==
  ASSUME NEW p \in Rows(States)
  PROVE  /\ Display(p) \in Rows(Coded) /\ Display(p) # None
         /\ Display(p).source = p.source /\ Display(p).event = p.event /\ Display(p).status = p.status
         /\ Display(p).facts = p.facts
         /\ DOMAIN Display(p).tickets = DOMAIN p.tickets
         /\ \A u \in DOMAIN p.tickets :
               /\ Display(p).tickets[u].status = p.tickets[u]
               /\ Display(p).tickets[u].code = IF p.tickets[u] = "valid" THEN u ELSE None
<1>1. PICK s \in Sources : p.tickets \in [1..Counts[s] -> States]
  BY DEF Rows
<1> DEFINE d == [u \in DOMAIN p.tickets |-> [status |-> p.tickets[u], code |-> IF p.tickets[u] = "valid" THEN u ELSE None]]
<1>2. Counts[s] \in Nat
  BY NoneApart
<1>3. d \in [1..Counts[s] -> Coded] /\ DOMAIN d = DOMAIN p.tickets
  BY <1>1, <1>2 DEF Coded
<1>4. \A u \in DOMAIN p.tickets : /\ d[u].status = p.tickets[u]
                                  /\ d[u].code = IF p.tickets[u] = "valid" THEN u ELSE None
  OBVIOUS
<1>5. p.source \in Sources /\ p.event \in Events /\ p.facts \in Facts /\ p.status \in Statuses
  BY DEF Rows
<1>6. Display(p) = [source |-> p.source, event |-> p.event, facts |-> p.facts, status |-> p.status, tickets |-> d]
  BY DEF Display
<1> HIDE DEF d
<1>7. Display(p) \in Rows(Coded)
  BY <1>3, <1>5, <1>6 DEF Rows
<1>8. QED
  BY <1>3, <1>4, <1>6, <1>7, NoneApart

LEMMA RowOf ==
  ASSUME AccessTypeOK, NEW s \in Sources, NEW v \in Statuses
  PROVE  LET p == [source |-> s, status |-> v, event |-> ledger.event[s], facts |-> ledger.facts[s],
                   tickets |-> Tickets(s)] IN
         p \in Rows(States) /\ p # None
<1>1. ledger.event[s] \in Events /\ ledger.facts[s] \in Facts /\ Tickets(s) \in [1..Counts[s] -> States]
  BY DEF AccessTypeOK, Ledgers, Tickets
<1>2. QED
  BY <1>1, NoneApart DEF Rows

\* What is looked up is the ledger's, or nothing.
LEMMA LookupIs ==
  ASSUME AccessTypeOK, NEW s \in Sources
  PROVE  /\ Lookup(s) \in Rows(States) \cup {None}
         /\ Lookup(s) # None => Lookup(s).source = s
<1>1. CASE s = "paid_order"
  <2>1. ledger.order \in {"paid", "refunded"} =>
           LET p == [source |-> s, status |-> ledger.order, event |-> ledger.event[s], facts |-> ledger.facts[s],
                     tickets |-> Tickets(s)] IN p \in Rows(States)
    BY RowOf DEF Statuses
  <2>2. QED
    BY <1>1, <2>1 DEF Lookup, PaidLookup
<1>2. CASE s = "free_registration"
  <2>1. \A v \in {"confirmed", "cancelled"} :
           LET p == [source |-> s, status |-> v, event |-> ledger.event[s], facts |-> ledger.facts[s],
                     tickets |-> Tickets(s)] IN p \in Rows(States)
    BY RowOf DEF Statuses
  <2>2. QED
    BY <1>2, <2>1 DEF Lookup, FreeLookup
<1>3. QED
  BY <1>1, <1>2 DEF Sources

LEMMA CollectionIs ==
  ASSUME AccessTypeOK, NEW s \in Sources, Collection(s) # None
  PROVE  Collection(s) \in Rows(Coded) /\ HasCodes(Answer("ready", Collection(s)))
<1>1. Lookup(s) \in Rows(States) /\ Collection(s) = Display(Lookup(s))
  BY LookupIs DEF Collection, PaidCollection, FreeCollection
<1>2. QED
  BY <1>1, DisplayTyped DEF HasCodes, Answer

LEMMA CollectionsAreReadable ==
  ASSUME AccessTypeOK, LedgerFits
  PROVE  CollectionIsReadable
<1> SUFFICES ASSUME NEW s \in Sources, ~(s = "paid_order" /\ ledger.order = "requires_review")
             PROVE  /\ Collection(s) # None
                    /\ Readable(Collection(s), s)
                    /\ \A u \in DOMAIN Tickets(s) : Collection(s).tickets[u].status = Tickets(s)[u]
  BY DEF CollectionIsReadable
<1> DEFINE v == IF s = "paid_order" THEN ledger.order
                ELSE IF ledger.event[s] = "cancelled" THEN "cancelled" ELSE "confirmed"
           p == [source |-> s, status |-> v, event |-> ledger.event[s], facts |-> ledger.facts[s], tickets |-> Tickets(s)]
           c == Collection(s)
<1>1. /\ ledger.event[s] \in Events /\ ledger.order \in {"paid", "refunded", "requires_review"}
      /\ Tickets(s) \in [1..Counts[s] -> States]
      /\ \A u \in 1..Counts[s] : Tickets(s)[u] \in {"used", RestsAs(ledger, s)}
      /\ Counts[s] \in Nat
  <2>1. ledger.event[s] \in Events /\ ledger.order \in {"paid", "refunded", "requires_review"}
    BY DEF AccessTypeOK, Ledgers, Orders
  <2>2. Tickets(s) \in [1..Counts[s] -> States]
    BY DEF AccessTypeOK, Tickets
  <2>3. \A u \in 1..Counts[s] : Tickets(s)[u] \in {"used", RestsAs(ledger, s)}
    BY DEF LedgerFits, Tickets
  <2>4. QED
    BY <2>1, <2>2, <2>3, NoneApart
<1>2. v \in Statuses
  BY <1>1 DEF Statuses
<1>3. p \in Rows(States) /\ p # None
  BY <1>2, RowOf
<1>4. c = Display(p)
  <2>1. CASE s = "paid_order"
    <3>1. /\ ledger.order \in {"paid", "refunded"}
          /\ \A u \in DOMAIN Tickets("paid_order") : LET t == Tickets("paid_order")[u] IN
                \/ t = "used"
                \/ ledger.order = "refunded" /\ t = "refunded"
                \/ ledger.order = "paid" /\ ledger.event["paid_order"] = "cancelled" /\ t = "cancelled"
                \/ ledger.order = "paid" /\ ledger.event["paid_order"] = "published" /\ t = "valid"
      BY <1>1, <2>1 DEF RestsAs, Events
    <3>2. Lookup(s) = p
      BY <2>1, <3>1 DEF Lookup, PaidLookup
    <3> HIDE DEF p
    <3>3. /\ p.status \in {"paid", "refunded"} /\ p.event \in {"published", "cancelled"}
          /\ \A u \in DOMAIN p.tickets :
                p.tickets[u] \in {"used", IF p.status = "refunded" THEN "refunded"
                                          ELSE IF p.event = "cancelled" THEN "cancelled" ELSE "valid"}
      BY <1>1, <2>1 DEF p, RestsAs, Events
    <3>4. QED
      BY <1>3, <2>1, <3>2, <3>3 DEF Collection, PaidCollection
  <2>2. CASE s = "free_registration"
    <3>1. Lookup(s) = p
      BY <1>1, <2>2 DEF Lookup, FreeLookup, RestsAs, Events
    <3> HIDE DEF p
    <3>2. /\ p.status \in {"confirmed", "cancelled"} /\ p.event \in {"published", "cancelled"}
          /\ (p.status = "cancelled") <=> (p.event = "cancelled")
          /\ \A u \in DOMAIN p.tickets : p.tickets[u] \in {"used", IF p.status = "cancelled" THEN "cancelled" ELSE "valid"}
      BY <1>1, <2>2 DEF p, RestsAs, Events
    <3>3. QED
      BY <1>3, <2>2, <3>1, <3>2 DEF Collection, FreeCollection
  <2>3. QED
    BY <2>1, <2>2 DEF Sources
<1>5. /\ p.source = s /\ p.event = ledger.event[s] /\ p.tickets = Tickets(s)
      /\ s = "free_registration" => p.status = IF ledger.event[s] = "cancelled" THEN "cancelled" ELSE "confirmed"
  BY DEF Sources
<1>6. /\ c # None /\ c.source = s /\ c.event = ledger.event[s] /\ c.status = p.status
      /\ DOMAIN c.tickets = 1..Counts[s]
      /\ \A u \in 1..Counts[s] : /\ c.tickets[u].status = Tickets(s)[u]
                                 /\ c.tickets[u].code = IF Tickets(s)[u] = "valid" THEN u ELSE None
  <2> HIDE DEF p, c, v
  <2>1. QED
    BY <1>1, <1>3, <1>4, <1>5, DisplayTyped
<1> HIDE DEF p, c, v
<1>7. Readable(c, s)
  <2>1. \A u \in 1..Counts[s] : u # None
    BY <1>1, NoneApart
  <2>2. ASSUME NEW u \in 1..Counts[s]
        PROVE  /\ (c.tickets[u].status = "valid") <=> (c.tickets[u].code # None)
               /\ c.event = "cancelled" => c.tickets[u].status # "valid"
               /\ s = "free_registration" =>
                     c.tickets[u].status \in {"used", IF c.status = "cancelled" THEN "cancelled" ELSE "valid"}
    <3>1. (c.tickets[u].status = "valid") <=> (c.tickets[u].code # None)
      BY <1>6, <2>1
    <3>2. c.tickets[u].status \in {"used", RestsAs(ledger, s)}
      BY <1>1, <1>6
    <3>3. QED
      BY <1>1, <1>5, <1>6, <3>1, <3>2 DEF RestsAs, Events
  <2>3. \A u, w \in 1..Counts[s] : u # w /\ c.tickets[u].code # None => c.tickets[u].code # c.tickets[w].code
    BY <1>6, <2>1
  <2>4. QED
    BY <1>6, <2>2, <2>3 DEF Readable
<1>8. QED
  BY <1>1, <1>6, <1>7 DEF c

-----------------------------------------------------------------------------
(* What happens to orders, registrations and events *)

\* What is on the screen, given what the tab holds.
LEMMA QrKept ==
  ASSUME tab'.at = tab.at, tab'.shown = tab.shown, tab'.visible = tab.visible, tab'.pending = tab.pending,
         tab'.expired = tab.expired, (tab'.session = None) <=> (tab.session = None)
  PROVE  BlankBetween
<1>1. /\ Shows' = Shows /\ BadLink' = BadLink /\ Selectors' = Selectors
      /\ HeldTickets' = HeldTickets
  BY DEF Shows, BadLink, Selectors, HeldTickets
<1>2. OnlyOne' = OnlyOne
  BY <1>1 DEF OnlyOne
<1>3. Focused' = Focused
  BY <1>1, <1>2 DEF Focused
<1>4. Qr' = Qr
  BY <1>1, <1>3 DEF Qr
<1>5. QED
  BY <1>4 DEF BlankBetween

LEMMA LedgerMoves ==
  ASSUME AccessKept, NEW l \in Ledgers, Happens(l),
         \A s \in Sources : l.tickets[s] \in [1..Counts[s] -> States],
         \A s \in Sources : \A u \in 1..Counts[s] : l.tickets[s][u] \in {"used", RestsAs(l, s)}
  PROVE  AccessKept' /\ BlankBetween
<1>1. l.changes + 1 \in Nat /\ ledger' = [l EXCEPT !.changes = l.changes + 1]
  BY DEF Happens, Ledgers
<1>2. /\ ledger' \in Ledgers /\ ledger'.order = l.order /\ ledger'.event = l.event
      /\ ledger'.tickets = l.tickets
  BY <1>1 DEF Ledgers
<1>3. tab' = tab /\ now' = now
  BY DEF Happens
<1>4. AccessTypeOK'
  BY <1>2, <1>3 DEF AccessKept, AccessTypeOK
<1>5. LedgerFits'
  BY <1>2 DEF LedgerFits, RestsAs
<1>6. ShownFits'
  BY <1>3 DEF AccessKept, ShownFits, HasCodes
<1>7. QED
  BY <1>3, <1>4, <1>5, <1>6, QrKept DEF AccessKept

\* The tickets of one source change, and what the order or event says of them.
LEMMA OnePile ==
  ASSUME AccessKept, NEW s \in Sources, NEW t \in [1..Counts[s] -> States],
         NEW o \in Orders, NEW e \in Events, s # "paid_order" => o = ledger.order,
         NEW l, l = [ledger EXCEPT !.order = o, !.event = [ledger.event EXCEPT ![s] = e],
                                   !.tickets = [ledger.tickets EXCEPT ![s] = t]],
         \A u \in 1..Counts[s] : t[u] \in {"used", RestsAs(l, s)}, Happens(l)
  PROVE  AccessKept' /\ BlankBetween
<1> DEFINE E == [ledger.event EXCEPT ![s] = e]
           T == [ledger.tickets EXCEPT ![s] = t]
<1>1. /\ E \in [Sources -> Events] /\ T \in [Sources -> Piles] /\ E[s] = e /\ T[s] = t
      /\ \A r \in Sources : r # s => E[r] = ledger.event[r] /\ T[r] = ledger.tickets[r]
  BY DEF AccessKept, AccessTypeOK, Ledgers, Piles
<1> HIDE DEF E, T
<1>2. l \in Ledgers /\ l.order = o /\ l.event = E /\ l.tickets = T
  <2>1. l = [ledger EXCEPT !.order = o, !.event = E, !.tickets = T]
    BY DEF E, T
  <2>2. QED
    BY <1>1, <2>1 DEF AccessKept, AccessTypeOK, Ledgers
<1>3. ASSUME NEW r \in Sources
      PROVE  /\ l.tickets[r] \in [1..Counts[r] -> States]
             /\ \A u \in 1..Counts[r] : l.tickets[r][u] \in {"used", RestsAs(l, r)}
  <2>1. CASE r = s
    BY <1>1, <1>2, <2>1
  <2>2. CASE r # s
    <3>1. RestsAs(l, r) = RestsAs(ledger, r)
      BY <1>1, <1>2, <2>2 DEF RestsAs, Sources
    <3>2. QED
      BY <1>1, <1>2, <2>2, <3>1 DEF AccessKept, AccessTypeOK, LedgerFits
  <2>3. QED
    BY <2>1, <2>2
<1>4. QED
  BY <1>2, <1>3, LedgerMoves

LEMMA PileOf ==
  ASSUME AccessKept, NEW s \in Sources
  PROVE  /\ Tickets(s) = ledger.tickets[s] /\ Tickets(s) \in [1..Counts[s] -> States]
         /\ \A u \in 1..Counts[s] : Tickets(s)[u] \in {"used", RestsAs(ledger, s)}
         /\ ledger.order \in Orders /\ ledger.event[s] \in Events
<1>1. ledger.order \in Orders /\ ledger.event[s] \in Events
  BY DEF AccessKept, AccessTypeOK, Ledgers
<1>2. Tickets(s) = ledger.tickets[s] /\ Tickets(s) \in [1..Counts[s] -> States]
  BY DEF AccessKept, AccessTypeOK, Tickets
<1>3. \A u \in 1..Counts[s] : Tickets(s)[u] \in {"used", RestsAs(ledger, s)}
  BY DEF AccessKept, LedgerFits, Tickets
<1>4. QED
  BY <1>1, <1>2, <1>3

LEMMA UnusedTyped ==
  ASSUME AccessKept, NEW s \in Sources, NEW from, NEW to \in States
  PROVE  /\ Unused(s, from, to) \in [1..Counts[s] -> States]
         /\ \A u \in 1..Counts[s] : Unused(s, from, to)[u] = IF Tickets(s)[u] \in from THEN to ELSE Tickets(s)[u]
  BY PileOf DEF Unused

\* Nothing is known of the two fields of a row.
LEMMA LedgerIs ==
  ASSUME AccessKept, NEW s \in Sources
  PROVE  /\ [ledger.event EXCEPT ![s] = ledger.event[s]] = ledger.event
         /\ \A T : [ledger EXCEPT !.order = ledger.order, !.event = ledger.event, !.tickets = T]
                   = [ledger EXCEPT !.tickets = T]
  BY DEF AccessKept, AccessTypeOK, Ledgers

LEMMA AdmitKeeps ==
  ASSUME AccessKept, NEW s \in Sources, NEW u \in 1..Counts[s], AdmitTicket(s, u)
  PROVE  AccessKept' /\ BlankBetween
<1> DEFINE t == [ledger.tickets[s] EXCEPT ![u] = "used"]
           T == [ledger.tickets EXCEPT ![s] = t]
           l == [ledger EXCEPT !.order = ledger.order, !.event = [ledger.event EXCEPT ![s] = ledger.event[s]], !.tickets = T]
<1>1. t \in [1..Counts[s] -> States] /\ \A v \in 1..Counts[s] : t[v] \in {"used", Tickets(s)[v]}
  BY PileOf DEF States
<1>2. Happens(l)
  <2>1. l = [ledger EXCEPT !.tickets = T]
    BY LedgerIs
  <2>2. [ledger EXCEPT !.tickets[s][u] = "used"] = [ledger EXCEPT !.tickets = T]
    OBVIOUS
  <2>3. QED
    BY <2>1, <2>2 DEF AdmitTicket
<1>3. l.order = ledger.order /\ l.event[s] = ledger.event[s]
  BY DEF AccessKept, AccessTypeOK, Ledgers
<1>4. \A v \in 1..Counts[s] : t[v] \in {"used", RestsAs(l, s)}
  <2> HIDE DEF l, t
  <2>1. RestsAs(l, s) = RestsAs(ledger, s)
    BY <1>3 DEF RestsAs
  <2>2. QED
    BY <1>1, <2>1, PileOf
<1>5. QED
  <2>1. ledger.order \in Orders /\ ledger.event[s] \in Events
    BY PileOf
  <2> HIDE DEF t
  <2>2. QED
    BY <1>1, <1>2, <1>4, <2>1, OnePile

LEMMA CancelsKeeps ==
  ASSUME AccessKept, NEW s \in Sources, CancelsEvent(s)
  PROVE  AccessKept' /\ BlankBetween
<1> DEFINE t == Unused(s, {"valid"}, "cancelled")
           l == [ledger EXCEPT !.order = ledger.order, !.event = [ledger.event EXCEPT ![s] = "cancelled"],
                               !.tickets = [ledger.tickets EXCEPT ![s] = t]]
<1>1. t \in [1..Counts[s] -> States]
      /\ \A u \in 1..Counts[s] : t[u] = IF Tickets(s)[u] = "valid" THEN "cancelled" ELSE Tickets(s)[u]
  BY UnusedTyped DEF States
<1>2. Happens(l)
  <2>1. [ledger EXCEPT !.event[s] = "cancelled", !.tickets[s] = t]
        = [ledger EXCEPT !.event = [ledger.event EXCEPT ![s] = "cancelled"], !.tickets = [ledger.tickets EXCEPT ![s] = t]]
    BY DEF AccessKept, AccessTypeOK, Ledgers
  <2>2. l = [ledger EXCEPT !.event = [ledger.event EXCEPT ![s] = "cancelled"], !.tickets = [ledger.tickets EXCEPT ![s] = t]]
    BY DEF AccessKept, AccessTypeOK, Ledgers
  <2>3. QED
    BY <2>1, <2>2 DEF CancelsEvent
<1>3. l.order = ledger.order /\ l.event[s] = "cancelled"
  BY DEF AccessKept, AccessTypeOK, Ledgers
<1>4. \A u \in 1..Counts[s] : t[u] \in {"used", RestsAs(l, s)}
  <2> HIDE DEF l, t
  <2>1. ledger.event[s] = "published"
    BY DEF CancelsEvent
  <2>2. QED
    BY <1>1, <1>3, <2>1, PileOf DEF RestsAs
<1>5. QED
  <2>1. ledger.order \in Orders /\ "cancelled" \in Events
    BY PileOf DEF Events
  <2> HIDE DEF t
  <2>2. QED
    BY <1>1, <1>2, <1>4, <2>1, OnePile

\* A refund and a review
LEMMA OrderKeeps ==
  ASSUME AccessKept, RefundsOrder \/ ReviewsOrder
  PROVE  AccessKept' /\ BlankBetween
<1> DEFINE s == "paid_order"
<1>1. PICK o \in {"refunded", "requires_review"}, t \in [1..Counts[s] -> States] :
        /\ Happens([ledger EXCEPT !.order = o, !.tickets[s] = t])
        /\ \A u \in 1..Counts[s] : t[u] \in {"used", IF o = "refunded" THEN "refunded" ELSE "cancelled"}
  <2>1. CASE RefundsOrder
    <3> DEFINE t == Unused(s, {"valid", "cancelled"}, "refunded")
    <3>1. t \in [1..Counts[s] -> States]
          /\ \A u \in 1..Counts[s] : t[u] = IF Tickets(s)[u] \in {"valid", "cancelled"} THEN "refunded" ELSE Tickets(s)[u]
      BY UnusedTyped DEF States, Sources
    <3>2. ledger.order # "refunded" /\ Happens([ledger EXCEPT !.order = "refunded", !.tickets[s] = t])
      BY <2>1 DEF RefundsOrder
    <3> HIDE DEF t
    <3>3. \A u \in 1..Counts[s] : t[u] \in {"used", "refunded"}
      BY <3>1, <3>2, PileOf DEF RestsAs, Sources
    <3>4. QED
      BY <3>1, <3>2, <3>3
  <2>2. CASE ReviewsOrder
    <3> DEFINE t == Unused(s, {"valid"}, "cancelled")
    <3>1. t \in [1..Counts[s] -> States]
          /\ \A u \in 1..Counts[s] : t[u] = IF Tickets(s)[u] = "valid" THEN "cancelled" ELSE Tickets(s)[u]
      BY UnusedTyped DEF States, Sources
    <3>2. ledger.order = "paid" /\ Happens([ledger EXCEPT !.order = "requires_review", !.tickets[s] = t])
      BY <2>2 DEF ReviewsOrder
    <3> HIDE DEF t
    <3>3. \A u \in 1..Counts[s] : t[u] \in {"used", "cancelled"}
      BY <3>1, <3>2, PileOf DEF RestsAs, Sources
    <3>4. QED
      BY <3>1, <3>2, <3>3
  <2>3. QED
    BY <2>1, <2>2
<1> DEFINE l == [ledger EXCEPT !.order = o, !.event = [ledger.event EXCEPT ![s] = ledger.event[s]],
                               !.tickets = [ledger.tickets EXCEPT ![s] = t]]
<1>2. Happens(l)
  <2>1. [ledger.event EXCEPT ![s] = ledger.event[s]] = ledger.event
    BY LedgerIs DEF Sources
  <2>2. l = [ledger EXCEPT !.order = o, !.tickets[s] = t]
    BY <2>1 DEF AccessKept, AccessTypeOK, Ledgers
  <2>3. QED
    BY <1>1, <2>2
<1>3. l.order = o
  BY DEF AccessKept, AccessTypeOK, Ledgers
<1>4. \A u \in 1..Counts[s] : t[u] \in {"used", RestsAs(l, s)}
  <2> HIDE DEF l
  <2>1. QED
    BY <1>1, <1>3 DEF RestsAs
<1>5. QED
  <2>1. o \in Orders /\ s \in Sources /\ ledger.event[s] \in Events
    BY PileOf DEF Orders, Sources
  <2>2. QED
    BY <1>2, <1>4, <2>1, OnePile

LEMMA FactsKeep ==
  ASSUME AccessKept, NEW s \in Sources, ApproveFacts(s)
  PROVE  AccessKept' /\ BlankBetween
<1>1. PICK f \in {None, 2} : Happens([ledger EXCEPT !.facts[s] = f])
  BY DEF ApproveFacts
<1> DEFINE F == [ledger.facts EXCEPT ![s] = f]
           l == [ledger EXCEPT !.facts = F]
<1>2. F \in [Sources -> Facts]
  BY DEF AccessKept, AccessTypeOK, Ledgers, Facts
<1>3. Happens(l)
  BY <1>1
<1> HIDE DEF F
<1>4. l \in Ledgers /\ l.order = ledger.order /\ l.event = ledger.event /\ l.tickets = ledger.tickets
  BY <1>2 DEF AccessKept, AccessTypeOK, Ledgers
<1> HIDE DEF l
<1>5. \A r \in Sources : RestsAs(l, r) = RestsAs(ledger, r)
  BY <1>4 DEF RestsAs
<1>6. QED
  BY <1>3, <1>4, <1>5, LedgerMoves DEF AccessKept, AccessTypeOK, LedgerFits

-----------------------------------------------------------------------------
(* The page *)

\* A code is on the screen only where everything agrees.
LEMMA QrIs ==
  ASSUME Qr # None
  PROVE  /\ tab.at # "away" /\ tab.shown # None /\ tab.shown.kind = "ready"
         /\ tab.pending = None /\ tab.visible # None /\ ~BadLink
         /\ Qr = Focused /\ Focused \in Selectors
         /\ HeldTickets.tickets[Focused[2]].status = "valid"
<1>1. Focused # None /\ Qr = Focused /\ HeldTickets.tickets[Focused[2]].status = "valid"
  BY DEF Qr
<1>2. Shows /\ tab.pending = None /\ tab.visible # None /\ ~BadLink
  BY <1>1 DEF Focused
<1>3. Focused \in Selectors
  <2>1. CASE tab.visible \in Selectors
    BY <1>2, <2>1 DEF Focused
  <2>2. CASE tab.visible \notin Selectors
    <3>1. Focused = OnlyOne
      BY <1>2, <2>2 DEF Focused
    <3>2. Selectors # {}
      BY <1>1, <3>1, FS_EmptySet DEF OnlyOne
    <3>3. QED
      BY <1>1, <3>1, <3>2 DEF OnlyOne
  <2>3. QED
    BY <2>1, <2>2
<1>4. QED
  BY <1>1, <1>2, <1>3 DEF Shows

LEMMA NothingOnScreen ==
  ASSUME \/ tab'.shown = None \/ tab'.pending # None \/ tab'.at = "away" \/ BadLink'
         \/ tab.shown = None \/ tab.pending # None
  PROVE  BlankBetween
<1>1. CASE tab.shown = None \/ tab.pending # None
  BY <1>1, QrIs DEF BlankBetween
<1>2. CASE tab'.shown = None \/ tab'.pending # None \/ tab'.at = "away" \/ BadLink'
  <2>1. Focused' = None
    BY <1>2 DEF Focused, Shows
  <2>2. QED
    BY <2>1 DEF BlankBetween, Qr
<1>3. QED
  BY <1>1, <1>2

LEMMA QrHolds ==
  ASSUME AccessKept
  PROVE  QrIsAsked
<1> SUFFICES ASSUME Qr # None
             PROVE  /\ Qr[1] = tab.source /\ HeldTickets.tickets[Qr[2]].code = Qr[2]
                    /\ tab.at = "access" => tab.session # None /\ tab.session <= LinkLife
  BY DEF QrIsAsked
<1>1. /\ tab.shown # None /\ tab.shown.kind = "ready" /\ Focused \in Selectors /\ Qr = Focused
      /\ HeldTickets.tickets[Focused[2]].status = "valid"
  BY QrIs
<1>2. PICK u \in DOMAIN HeldTickets.tickets : Focused = <<HeldTickets.source, u>>
  BY <1>1 DEF Selectors
<1>3. HeldTickets.tickets[u].code = u
  BY <1>1, <1>2 DEF AccessKept, ShownFits, HasCodes, HeldTickets
<1>4. QED
  BY <1>1, <1>2, <1>3 DEF AccessKept, ShownFits, HeldTickets

LEMMA TabMoves ==
  ASSUME AccessKept, UNCHANGED <<ledger, now>>, tab' \in GuestTabs, ShownFits', BlankBetween
  PROVE  AccessKept' /\ BlankBetween
<1>1. AccessTypeOK'
  BY DEF AccessKept, AccessTypeOK
<1>2. LedgerFits'
  BY DEF AccessKept, LedgerFits, RestsAs
<1>3. QED
  BY <1>1, <1>2 DEF AccessKept

LEMMA NoTabTyped ==
  /\ NoTab \in GuestTabs /\ NoTab.shown = None /\ NoTab.call = None /\ NoTab.at = "away"
  /\ AskingTickets \in Calls /\ AskingTickets \in Lookups
  /\ None \in Calls /\ None \in Lookups /\ None \in Pendings /\ None \in Choices
  /\ AskingTickets.answer = None /\ NoTab.session = None /\ NoTab.source = None /\ NoTab.pending = None
  BY DEF NoTab, GuestTabs, AskingTickets, Choices, Calls, Lookups, Pendings

\* Whoever asks anew shows nothing.
LEMMA AskedIs ==
  ASSUME NEW t \in GuestTabs
  PROVE  /\ Asked(t) \in GuestTabs /\ Asked(t).shown = None /\ Asked(t).call \in {None, AskingTickets}
         /\ Asked(t).source = t.source
<1> DEFINE c == IF t.reads < MaxReads THEN AskingTickets ELSE None
           n == Sooner(t.reads + 1, MaxReads)
<1>1. c \in {None, AskingTickets} /\ c \in Calls /\ n \in Nat
  BY NoneApart, NoTabTyped DEF GuestTabs, Sooner
<1>2. Asked(t) = [t EXCEPT !.call = c, !.reads = n, !.shown = None]
  BY DEF Asked
<1> HIDE DEF c, n
<1>3. QED
  BY <1>1, <1>2 DEF GuestTabs

LEMMA AsksAnew ==
  ASSUME AccessKept, NEW t \in GuestTabs, t.source # None, tab' = Asked(t), UNCHANGED <<ledger, now>>
  PROVE  AccessKept' /\ BlankBetween
<1>1. tab' \in GuestTabs /\ tab'.shown = None /\ tab'.call \in {None, AskingTickets} /\ tab'.source # None
  BY AskedIs
<1>2. ShownFits'
  BY <1>1, NoTabTyped DEF ShownFits
<1>3. QED
  BY <1>1, <1>2, TabMoves, NothingOnScreen

\* Neither shows nor asks for tickets.
LEMMA ShowsNothing ==
  ASSUME AccessKept, tab' \in GuestTabs, tab'.shown = None, tab'.call = None, UNCHANGED <<ledger, now>>
  PROVE  AccessKept' /\ BlankBetween
<1>1. ShownFits'
  BY DEF ShownFits
<1>2. QED
  BY <1>1, TabMoves, NothingOnScreen

\* The screen stays what it is.
LEMMA SameScreen ==
  ASSUME AccessKept, tab' \in GuestTabs, tab'.shown = tab.shown, tab'.source = tab.source, tab'.at = tab.at,
         tab'.call = tab.call,
         tab'.session = tab.session \/ (tab.session # None /\ tab'.session # None /\ tab'.session <= LinkLife),
         BlankBetween, UNCHANGED <<ledger, now>>
  PROVE  AccessKept' /\ BlankBetween
<1>1. ShownFits'
  BY DEF AccessKept, ShownFits, HasCodes
<1>2. QED
  BY <1>1, TabMoves

LEMMA RoutesTyped ==
  ASSUME NEW s \in Sources
  PROVE  Routes(s) \subseteq Choices /\ s # None
<1>1. Counts[s] \in Nat
  BY NoneApart
<1>2. s # None
  BY NoneApart
<1>3. QED
  BY <1>1, <1>2 DEF Routes, Choices

\* Opening, and another ticket of the same collection
LEMMA OpenKeeps ==
  ASSUME AccessKept, NEW s \in Sources, NEW r \in Routes(s), OpenTickets(s, r) \/ OpenMember(s, r)
  PROVE  AccessKept' /\ BlankBetween
<1>1. r \in Choices /\ s # None /\ tab \in GuestTabs
  BY RoutesTyped DEF AccessKept, AccessTypeOK
<1>2. UNCHANGED <<ledger, now>>
  BY DEF OpenTickets, OpenMember
<1>3. CASE tab' = [tab EXCEPT !.route = r]
  <2>1. /\ tab' \in GuestTabs /\ tab'.shown = tab.shown /\ tab'.source = tab.source /\ tab'.at = tab.at
        /\ tab'.call = tab.call /\ tab'.session = tab.session /\ tab'.visible = tab.visible
        /\ tab'.pending = tab.pending /\ tab'.expired = tab.expired
    BY <1>1, <1>3 DEF GuestTabs
  <2>2. QED
    BY <1>2, <2>1, SameScreen, QrKept
<1>4. ASSUME NEW t \in GuestTabs, t.source = s, tab' = Asked(t)
      PROVE  AccessKept' /\ BlankBetween
  BY <1>1, <1>2, <1>4, AsksAnew
<1>5. [tab EXCEPT !.source = s, !.route = r] \in GuestTabs /\ [tab EXCEPT !.source = s, !.route = r].source = s
  BY <1>1 DEF GuestTabs
<1>6. [tab EXCEPT !.source = s, !.route = r, !.visible = r, !.pending = None] \in GuestTabs
      /\ [tab EXCEPT !.source = s, !.route = r, !.visible = r, !.pending = None].source = s
  BY <1>1, NoTabTyped DEF GuestTabs
<1>7. [NoTab EXCEPT !.at = "tickets", !.source = s, !.route = r, !.visible = r, !.reads = tab.reads] \in GuestTabs
      /\ [NoTab EXCEPT !.at = "tickets", !.source = s, !.route = r, !.visible = r, !.reads = tab.reads].source = s
  BY <1>1, NoTabTyped DEF GuestTabs
<1>8. CASE OpenTickets(s, r)
  BY <1>3, <1>4, <1>5, <1>7, <1>8 DEF OpenTickets
<1>9. CASE OpenMember(s, r)
  BY <1>3, <1>4, <1>6, <1>9 DEF OpenMember
<1>10. QED
  BY <1>8, <1>9

\* The link is opened, its list shown or asked for anew, the page left.
LEMMA ListKeeps ==
  ASSUME AccessKept, OpenAccess \/ BackToList \/ RefreshList \/ LeaveTickets
  PROVE  AccessKept' /\ BlankBetween
<1>1. tab \in GuestTabs /\ tab.reads \in Nat /\ tab.reads + 1 \in Nat /\ now + SessionLife \in Nat
  BY NoneApart DEF AccessKept, AccessTypeOK, GuestTabs
<1>2. UNCHANGED <<ledger, now>>
  BY DEF OpenAccess, BackToList, RefreshList, LeaveTickets
<1>3. CASE OpenAccess
  <2>1. tab' = [NoTab EXCEPT !.at = "access", !.session = now + SessionLife, !.indexCall = AskingTickets, !.reads = tab.reads + 1]
    BY <1>3 DEF OpenAccess
  <2>2. tab' \in GuestTabs /\ tab'.shown = None /\ tab'.call = None
    BY <1>1, <2>1, NoTabTyped DEF GuestTabs
  <2>3. QED
    BY <1>2, <2>2, ShowsNothing
<1>4. CASE BackToList
  <2>1. tab' = [tab EXCEPT !.source = None, !.route = None, !.visible = None, !.pending = None, !.shown = None, !.call = None]
    BY <1>4 DEF BackToList
  <2>2. tab' \in GuestTabs /\ tab'.shown = None /\ tab'.call = None
    BY <1>1, <2>1, NoTabTyped DEF GuestTabs
  <2>3. QED
    BY <1>2, <2>2, ShowsNothing
<1>5. CASE RefreshList
  <2>1. tab' = [tab EXCEPT !.indexCall = AskingTickets, !.index = None, !.shown = None, !.call = None, !.reads = tab.reads + 1]
    BY <1>5 DEF RefreshList
  <2>2. tab' \in GuestTabs /\ tab'.shown = None /\ tab'.call = None
    BY <1>1, <2>1, NoTabTyped DEF GuestTabs
  <2>3. QED
    BY <1>2, <2>2, ShowsNothing
<1>6. CASE LeaveTickets
  <2>1. tab' = [NoTab EXCEPT !.reads = tab.reads]
    BY <1>6 DEF LeaveTickets
  <2>2. tab' \in GuestTabs /\ tab'.shown = None /\ tab'.call = None
    BY <1>1, <2>1, NoTabTyped DEF GuestTabs
  <2>3. QED
    BY <1>2, <2>2, ShowsNothing
<1>7. QED
  BY <1>3, <1>4, <1>5, <1>6

LEMMA RetryKeeps ==
  ASSUME AccessKept, RetryMember
  PROVE  AccessKept' /\ BlankBetween
<1> DEFINE t == [tab EXCEPT !.failed = None, !.visible = tab.route, !.pending = None]
<1>1. t \in GuestTabs /\ t.source = tab.source /\ tab.source # None
  BY NoTabTyped DEF AccessKept, AccessTypeOK, GuestTabs, RetryMember
<1>2. tab' = Asked(t) /\ UNCHANGED <<ledger, now>>
  BY DEF RetryMember
<1>3. QED
  BY <1>1, <1>2, AsksAnew

\* What the server may answer
LEMMA AnswersTyped ==
  ASSUME AccessKept, NEW s \in Sources, NEW a \in MemberAnswers(s) \cup BearerAnswers(s)
  PROVE  a \in Answers /\ HasCodes(a)
<1>1. CASE Collection(s) # None /\ a = Answer("ready", Collection(s))
  BY <1>1, CollectionIs DEF AccessKept, Answers, Answer
<1>2. CASE a \in Refusals \cup {Unavailable}
  BY <1>2 DEF Answers, HasCodes, Refusals, Unavailable, Answer
<1>3. QED
  BY <1>1, <1>2 DEF MemberAnswers, BearerAnswers

LEMMA IndexTyped ==
  ASSUME AccessKept, NEW a \in IndexAnswers
  PROVE  a \in Indexes
<1>1. ledger.facts \in [Sources -> Facts]
  BY DEF AccessKept, AccessTypeOK, Ledgers
<1>2. QED
  BY <1>1 DEF IndexAnswers, Indexes, Answer

LEMMA ServeKeeps ==
  ASSUME AccessKept, Serve
  PROVE  AccessKept' /\ BlankBetween
<1>0. tab \in GuestTabs /\ UNCHANGED <<ledger, now>>
  BY DEF AccessKept, AccessTypeOK, Serve
<1>1. CASE tab.call = AskingTickets
            /\ \E a \in IF tab.at = "access" THEN MemberAnswers(tab.source) ELSE BearerAnswers(tab.source) :
                  tab' = [tab EXCEPT !.call = [answer |-> a]]
  <2>1. tab.call # None /\ tab.source \in Sources /\ tab.shown = None
    BY <1>0, <1>1, NoneApart DEF AccessKept, ShownFits, GuestTabs
  <2>2. PICK a \in MemberAnswers(tab.source) \cup BearerAnswers(tab.source) : tab' = [tab EXCEPT !.call = [answer |-> a]]
    BY <1>1
  <2>3. a \in Answers /\ HasCodes(a)
    BY <2>1, AnswersTyped
  <2>4. [answer |-> a] \in Calls /\ [answer |-> a].answer = a
    BY <2>3 DEF Calls
  <2> DEFINE c == [answer |-> a]
  <2> HIDE DEF c
  <2>5. c \in Calls /\ c.answer = a /\ tab' = [tab EXCEPT !.call = c]
    BY <2>2, <2>4 DEF c
  <2>6. tab' \in GuestTabs /\ tab'.shown = None /\ tab'.source = tab.source /\ tab'.call = c
    BY <1>0, <2>1, <2>5 DEF GuestTabs
  <2>7. ShownFits'
    <3>1. HasCodes(tab'.call.answer)
      BY <2>3, <2>5, <2>6
    <3>2. QED
      BY <2>1, <2>6, <3>1, NoneApart DEF ShownFits, HasCodes
  <2>8. QED
    BY <1>0, <2>6, <2>7, TabMoves, NothingOnScreen
<1>2. CASE tab.indexCall = AskingTickets /\ \E a \in IndexAnswers : tab' = [tab EXCEPT !.indexCall = [answer |-> a]]
  <2>1. PICK a \in IndexAnswers : tab' = [tab EXCEPT !.indexCall = [answer |-> a]]
    BY <1>2
  <2>2. [answer |-> a] \in Lookups
    BY IndexTyped DEF Lookups
  <2>3. /\ tab' \in GuestTabs /\ tab'.shown = tab.shown /\ tab'.source = tab.source /\ tab'.at = tab.at
        /\ tab'.call = tab.call /\ tab'.session = tab.session /\ tab'.visible = tab.visible
        /\ tab'.pending = tab.pending /\ tab'.expired = tab.expired
    BY <1>0, <2>1, <2>2 DEF GuestTabs
  <2>4. QED
    BY <1>0, <2>3, SameScreen, QrKept
<1>3. QED
  BY <1>1, <1>2 DEF Serve

\* An answer arrives while the page is open.
LEMMA IndexKeeps ==
  ASSUME AccessKept, ReceiveIndex
  PROVE  AccessKept' /\ BlankBetween
<1> DEFINE a    == tab.indexCall.answer
           read == [tab EXCEPT !.index = a, !.indexCall = None]
           kept == [read EXCEPT !.session = Shortened]
<1>1. tab \in GuestTabs /\ a \in Indexes \cup {None} /\ UNCHANGED <<ledger, now>>
  BY DEF AccessKept, AccessTypeOK, ReceiveIndex, GuestTabs, Lookups
<1>2. /\ Shortened \in Nat \cup {None}
      /\ Shortened = None => tab.session = None
      /\ tab.session = None => Shortened = None
      /\ Shortened # None => Shortened <= LinkLife
  BY <1>1, NoneApart DEF Shortened, Sooner, GuestTabs
<1>3. tab' = IF a.kind # "ready" THEN read
             ELSE IF tab.source = None THEN kept ELSE Asked([kept EXCEPT !.visible = tab.route, !.pending = None])
  BY DEF ReceiveIndex
<1> HIDE DEF a
<1>4. /\ read \in GuestTabs /\ read.shown = tab.shown /\ read.source = tab.source /\ read.at = tab.at
      /\ read.call = tab.call /\ read.session = tab.session /\ read.visible = tab.visible
      /\ read.pending = tab.pending /\ read.expired = tab.expired /\ read.route = tab.route
  BY <1>1, NoTabTyped DEF GuestTabs
<1> HIDE DEF read
<1>5. /\ kept \in GuestTabs /\ kept.shown = tab.shown /\ kept.source = tab.source /\ kept.at = tab.at
      /\ kept.call = tab.call /\ kept.session = Shortened /\ kept.visible = tab.visible
      /\ kept.pending = tab.pending /\ kept.expired = tab.expired
  BY <1>2, <1>4 DEF GuestTabs
<1> HIDE DEF kept
<1>6. CASE tab' = read
  BY <1>1, <1>4, <1>6, SameScreen, QrKept
<1>7. CASE tab' = kept
  BY <1>1, <1>2, <1>5, <1>7, SameScreen, QrKept
<1>8. CASE tab.source # None /\ tab' = Asked([kept EXCEPT !.visible = tab.route, !.pending = None])
  <2>1. tab.route \in Choices
    BY <1>1 DEF GuestTabs
  <2>2. /\ [kept EXCEPT !.visible = tab.route, !.pending = None] \in GuestTabs
        /\ [kept EXCEPT !.visible = tab.route, !.pending = None].source = tab.source
    BY <1>5, <2>1, NoTabTyped DEF GuestTabs
  <2>3. QED
    BY <1>1, <1>8, <2>2, AsksAnew
<1>9. QED
  BY <1>3, <1>6, <1>7, <1>8

LEMMA TicketsArrive ==
  ASSUME AccessKept, ReceiveTickets \/ ReceiveMember
  PROVE  AccessKept' /\ BlankBetween
<1> DEFINE a == tab.call.answer
<1>1. /\ tab \in GuestTabs /\ UNCHANGED <<ledger, now>> /\ tab.call \notin {None, AskingTickets}
      /\ tab.shown = None /\ tab.source # None
  BY DEF AccessKept, AccessTypeOK, ReceiveTickets, ReceiveMember, ShownFits
<1>2. a \in Answers /\ HasCodes(a)
  <2>1. tab.call \in [answer : Answers \cup {None}]
    BY <1>1 DEF GuestTabs, Calls
  <2>2. a # None
    BY <1>1, <2>1 DEF AskingTickets
  <2>3. QED
    BY <1>1, <2>1, <2>2 DEF AccessKept, ShownFits
<1>3. Unavailable \in Answers /\ Unavailable.kind # "ready"
  BY DEF Answers, Unavailable, Answer
<1>4. ASSUME tab' \in GuestTabs, tab'.call = None, tab'.shown.kind # "ready"
      PROVE  AccessKept' /\ BlankBetween
  <2>1. ShownFits'
    BY <1>4 DEF ShownFits
  <2>2. QED
    BY <1>1, <1>4, <2>1, TabMoves, NothingOnScreen
<1>5. ASSUME tab' \in GuestTabs, tab'.call = None, tab'.shown = a, a.kind = "ready" => Readable(a.value, tab.source),
             tab'.source = tab.source, tab'.at = "access" => tab'.session # None /\ tab'.session <= LinkLife
      PROVE  AccessKept' /\ BlankBetween
  <2>1. ShownFits'
    BY <1>2, <1>5 DEF ShownFits, HasCodes, Readable
  <2>2. QED
    BY <1>1, <1>5, <2>1, TabMoves, NothingOnScreen
<1> HIDE DEF a
<1>6. CASE ReceiveTickets
  <2>1. PICK x \in {a, Unavailable} : /\ tab' = [tab EXCEPT !.call = None, !.shown = x]
                                      /\ x = a => (a.kind = "ready" => Readable(a.value, tab.source)) \/ a = Unavailable
    BY <1>6 DEF ReceiveTickets, a
  <2>2. /\ tab' \in GuestTabs /\ tab'.call = None /\ tab'.shown = x /\ tab'.source = tab.source /\ tab'.at = tab.at
    BY <1>1, <1>2, <1>3, <2>1, NoTabTyped DEF GuestTabs
  <2>3. tab.at = "tickets"
    BY <1>6 DEF ReceiveTickets
  <2>4. QED
    BY <1>3, <1>4, <1>5, <2>1, <2>2, <2>3
<1>7. CASE ReceiveMember
  <2> DEFINE read == [tab EXCEPT !.call = None, !.shown = Unavailable]
  <2>1. /\ tab' = IF a.kind # "ready" THEN [read EXCEPT !.failed = a]
                  ELSE IF ~Readable(a.value, tab.source) THEN [read EXCEPT !.failed = Unavailable]
                  ELSE IF ~LinkOpen \/ a.value.facts # tab.index.value[tab.source] THEN read
                  ELSE [read EXCEPT !.shown = a, !.session = Shortened]
    BY <1>7 DEF ReceiveMember, a
  <2>2. read \in GuestTabs /\ read.call = None /\ read.shown = Unavailable /\ read.source = tab.source
    BY <1>1, <1>3, NoTabTyped DEF GuestTabs
  <2> HIDE DEF read
  <2>3. CASE tab' \in {read, [read EXCEPT !.failed = a], [read EXCEPT !.failed = Unavailable]}
    <3>1. tab' \in GuestTabs /\ tab'.call = None /\ tab'.shown = Unavailable
      BY <1>2, <1>3, <2>2, <2>3 DEF GuestTabs
    <3>2. QED
      BY <1>3, <1>4, <3>1
  <2>4. CASE LinkOpen /\ Readable(a.value, tab.source) /\ tab' = [read EXCEPT !.shown = a, !.session = Shortened]
    <3>1. Shortened \in Nat /\ Shortened # None /\ Shortened <= LinkLife
      BY <1>1, <2>4, NoneApart DEF LinkOpen, Shortened, Sooner, GuestTabs
    <3>2. /\ tab' \in GuestTabs /\ tab'.call = None /\ tab'.shown = a /\ tab'.source = tab.source
          /\ tab'.session = Shortened
      BY <1>2, <2>2, <2>4, <3>1 DEF GuestTabs
    <3>3. QED
      BY <1>5, <2>4, <3>1, <3>2
  <2>5. QED
    BY <2>1, <2>3, <2>4
<1>8. QED
  BY <1>6, <1>7

\* The choice of a ticket, and the timer of the link
LEMMA ChoiceKeeps ==
  ASSUME AccessKept, \/ \E s \in Sources : \E u \in 1..Counts[s] : SelectTicket(<<s, u>>)
                     \/ BlankCommit \/ MountSelected \/ LinkExpires
  PROVE  AccessKept' /\ BlankBetween
<1>1. tab \in GuestTabs
  BY DEF AccessKept, AccessTypeOK
<1>2. UNCHANGED <<ledger, now>>
  BY DEF SelectTicket, BlankCommit, MountSelected, LinkExpires
<1>3. ASSUME tab' \in GuestTabs, tab'.shown = tab.shown, tab'.source = tab.source, tab'.at = tab.at,
             tab'.call = tab.call, tab'.session = tab.session, tab.pending # None \/ tab'.pending # None
      PROVE  AccessKept' /\ BlankBetween
  BY <1>2, <1>3, SameScreen, NothingOnScreen
<1>4. ASSUME NEW x \in Choices, NEW b \in BOOLEAN,
             tab' = [tab EXCEPT !.pending = [selector |-> x, url |-> b], !.visible = None]
      PROVE  AccessKept' /\ BlankBetween
  <2> DEFINE p == [selector |-> x, url |-> b]
  <2>1. p \in Pendings
    BY DEF Pendings
  <2> HIDE DEF p
  <2>2. tab' = [tab EXCEPT !.pending = p, !.visible = None]
    BY <1>4 DEF p
  <2>3. /\ tab' \in GuestTabs /\ tab'.shown = tab.shown /\ tab'.source = tab.source /\ tab'.at = tab.at
        /\ tab'.call = tab.call /\ tab'.session = tab.session /\ tab'.pending = p
    BY <1>1, <2>1, <2>2, NoTabTyped DEF GuestTabs
  <2>4. p # None
    BY NoneApart DEF p
  <2>5. QED
    BY <1>3, <2>3, <2>4
<1>5. ASSUME NEW s \in Sources, NEW u \in 1..Counts[s], SelectTicket(<<s, u>>)
      PROVE  AccessKept' /\ BlankBetween
  <2>1. <<s, u>> \in Choices
    BY RoutesTyped DEF Routes
  <2>2. QED
    BY <1>4, <1>5, <2>1 DEF SelectTicket
<1>6. Wanted \in Choices
  <2>1. OnlyOne \in Choices
    <3>1. Selectors \subseteq Choices
      <4> SUFFICES ASSUME Shows, NEW u \in DOMAIN HeldTickets.tickets
                   PROVE  <<HeldTickets.source, u>> \in Choices
        BY DEF Selectors
      <4>1. HeldTickets \in Rows(Coded)
        BY <1>1 DEF Shows, HeldTickets, GuestTabs, Answers, Refusals, Unavailable, Answer
      <4>2. PICK s \in Sources : HeldTickets.tickets \in [1..Counts[s] -> Coded]
        BY <4>1 DEF Rows
      <4>3. Counts[s] \in Nat
        BY NoneApart
      <4>4. HeldTickets.source \in Sources /\ u \in Nat
        BY <4>1, <4>2, <4>3 DEF Rows
      <4>5. QED
        BY <4>4 DEF Choices
    <3>2. Selectors # {} => OnlyOne \in Selectors \cup {None}
      BY DEF OnlyOne
    <3>3. Selectors = {} => OnlyOne = None
      BY FS_EmptySet DEF OnlyOne
    <3>4. QED
      BY <3>1, <3>2, <3>3, NoTabTyped
  <2>2. QED
    BY <1>1, <2>1 DEF Wanted, GuestTabs
<1>7. CASE BlankCommit
  BY <1>4, <1>6, <1>7 DEF BlankCommit
<1>8. CASE MountSelected
  <2>1. tab.pending.selector \in Choices /\ tab.pending # None
    BY <1>1, <1>8 DEF MountSelected, GuestTabs, Pendings
  <2> DEFINE x == tab.pending.selector
  <2> HIDE DEF x
  <2>2. tab' \in {[tab EXCEPT !.route = x], [tab EXCEPT !.visible = x, !.pending = None]} /\ x \in Choices
    BY <1>8, <2>1 DEF MountSelected, x
  <2>3. /\ tab' \in GuestTabs /\ tab'.shown = tab.shown /\ tab'.source = tab.source /\ tab'.at = tab.at
        /\ tab'.call = tab.call /\ tab'.session = tab.session
    BY ZenonT(60), <1>1, <2>2, NoTabTyped DEF GuestTabs
  <2>4. QED
    BY <1>3, <2>1, <2>3
<1>9. CASE LinkExpires
  <2>1. tab.at = "access" /\ tab' = [tab EXCEPT !.expired = TRUE, !.call = None, !.indexCall = None]
    BY <1>9 DEF LinkExpires, LinkDue
  <2>2. /\ tab' \in GuestTabs /\ tab'.shown = tab.shown /\ tab'.source = tab.source /\ tab'.at = tab.at
        /\ tab'.call = None /\ tab'.session = tab.session /\ tab'.expired = TRUE
    BY <1>1, <2>1, NoTabTyped DEF GuestTabs
  <2>3. BadLink'
    BY <2>1, <2>2 DEF BadLink
  <2>4. ShownFits'
    BY <2>2 DEF AccessKept, ShownFits, HasCodes
  <2>5. QED
    BY <1>2, <2>2, <2>3, <2>4, TabMoves, NothingOnScreen
<1>10. QED
  BY <1>5, <1>7, <1>8, <1>9

LEMMA AccessStarts == AccessInit => AccessKept
<1> SUFFICES ASSUME AccessInit PROVE AccessKept
  OBVIOUS
<1>1. /\ ledger.order = "paid" /\ ledger.event = [s \in Sources |-> "published"]
      /\ ledger.tickets = [s \in Sources |-> [u \in 1..Counts[s] |-> "valid"]]
  BY DEF AccessInit
<1>2. ASSUME NEW s \in Sources
      PROVE  /\ ledger.tickets[s] \in [1..Counts[s] -> States]
             /\ \A u \in 1..Counts[s] : ledger.tickets[s][u] \in {"used", RestsAs(ledger, s)}
  BY <1>1 DEF States, RestsAs
<1>3. ledger \in Ledgers
  <2>1. [s \in Sources |-> [u \in 1..Counts[s] |-> "valid"]] \in [Sources -> Piles]
    BY DEF Piles, States
  <2>2. [s \in Sources |-> "published"] \in [Sources -> Events] /\ [s \in Sources |-> 1] \in [Sources -> Facts]
    BY DEF Events, Facts
  <2>3. QED
    BY <2>1, <2>2 DEF AccessInit, Ledgers, Orders
<1>4. tab \in GuestTabs /\ tab.shown = None /\ tab.call = None /\ now \in Nat
  BY NoTabTyped DEF AccessInit
<1>5. QED
  BY <1>2, <1>3, <1>4 DEF AccessKept, AccessTypeOK, LedgerFits, ShownFits

LEMMA AccessStep == AccessKept /\ [TicketAccessNext]_accessVars => AccessKept' /\ BlankBetween
<1> SUFFICES ASSUME AccessKept, [TicketAccessNext]_accessVars PROVE AccessKept' /\ BlankBetween
  OBVIOUS
<1>1. ASSUME UNCHANGED <<ledger, tab>>, now' \in Nat
      PROVE  AccessKept' /\ BlankBetween
  <2>1. AccessTypeOK' /\ LedgerFits' /\ ShownFits'
    BY <1>1 DEF AccessKept, AccessTypeOK, LedgerFits, RestsAs, ShownFits, HasCodes
  <2>2. QED
    BY <1>1, <2>1, QrKept DEF AccessKept
<1>2. CASE UNCHANGED accessVars
  BY <1>1, <1>2 DEF accessVars, AccessKept, AccessTypeOK
<1>3. CASE AccessTick
  BY <1>1, <1>3 DEF AccessTick, AccessKept, AccessTypeOK
<1>4. CASE TicketAccessNext /\ ~AccessTick
  BY <1>4, AdmitKeeps, CancelsKeeps, FactsKeep, OrderKeeps, OpenKeeps, ListKeeps, RetryKeeps, ServeKeeps,
     IndexKeeps, TicketsArrive, ChoiceKeeps DEF TicketAccessNext
<1>5. QED
  BY <1>2, <1>3, <1>4

\* For any number of tickets and any link, whatever is answered late or not:
\* every coherent collection can be seen, a code on the screen is that of a ticket
\* that was asked for and that the link still may show, and no code follows
\* another at once.
THEOREM TicketsAreSeen == TicketAccessSpec => TicketAccessPromise
<1>1. AccessKept /\ [TicketAccessNext]_accessVars => AccessKept' /\ BlankBetween
  BY AccessStep
<1>2. AccessKept => CollectionIsReadable /\ QrIsAsked
  BY CollectionsAreReadable, QrHolds DEF AccessKept
<1>3. QED
  BY <1>1, <1>2, AccessStarts, PTL DEF TicketAccessSpec, TicketAccessPromise

-----------------------------------------------------------------------------
(* Moderation: what is public, and what is done about what is reported *)

Standings == [revision : Nat, version : Nat, disclosed : BOOLEAN, accepted : Nat, public : BOOLEAN,
              status : {"not_evaluated", "clear", "under_review", "blocked", "removed"},
              history : {"never_public", "previously_public", "unknown"}]
Evaluations == [status : {"none", "queued", "processing", "succeeded", "failed", "superseded"},
                source : {"none", "contextual", "report"}, revision : Nat, version : Nat,
                attempt : Nat, old : BOOLEAN]
Judgements == [stage : {"idle", "judging", "unreadable", "judged"}, id : Ids \cup {0}, job : Evaluations,
               result : {"none", "clear", "hold", "failure"}]
Desks == [shown : Standings \cup {None}, stage : Decisions \cup {"reading", "shown", "history"}, conflict : BOOLEAN]

ModerationTypeOK ==
    /\ moderated \in Standings
    /\ evaluations \in [Ids -> Evaluations]
    /\ judging \in [Workers -> Judgements]
    /\ review \in Nat \cup {None}
    /\ console \in Desks
    /\ accepted \in [revisions : SUBSET Nat, version : Nat]

\* A reporter is the host of an address.
ReportersAreKnown == reporters \subseteq {HostOf(a) : a \in Addresses}

\* Each decision of the staff made a version of the event.
DecisionsAreVersions == accepted.version <= moderated.version

\* A worker's evaluation was queued, about the version it took it for.
JobsAreQueued ==
    \A w \in Workers : judging[w].stage # "idle" =>
        /\ judging[w].id \in Ids
        /\ evaluations[judging[w].id].status # "none"
        /\ evaluations[judging[w].id].version = judging[w].job.version

ModerationKept ==
    /\ ModerationTypeOK
    /\ ClearIsForThisContent /\ ReviewIsCurrent
    /\ ReportersAreKnown /\ DecisionsAreVersions /\ JobsAreQueued

-----------------------------------------------------------------------------
\* What any step leaves of the evaluations: queued ones stay, about what they are about.
QueueKept ==
    /\ evaluations' \in [Ids -> Evaluations]
    /\ \A i \in Ids : evaluations[i].status # "none" =>
          evaluations'[i].status # "none" /\ evaluations'[i].version = evaluations[i].version

LEMMA NoEvaluationTyped == NoEvaluation \in Evaluations
  BY DEF NoEvaluation, Evaluations

LEMMA QueuedTyped ==
  ASSUME NEW s \in {"contextual", "report"}, NEW r \in Nat, NEW v \in Nat
  PROVE  [NoEvaluation EXCEPT !.status = "queued", !.source = s, !.revision = r, !.version = v] \in Evaluations
  BY DEF NoEvaluation, Evaluations

LEMMA SupersededKeeps ==
  ASSUME evaluations \in [Ids -> Evaluations], NEW x
  PROVE  /\ Superseded(x) \in [Ids -> Evaluations]
         /\ \A i \in Ids : /\ Superseded(x)[i].version = evaluations[i].version
                           /\ Superseded(x)[i].status # "none" <=> evaluations[i].status # "none"
                           /\ i = x => Superseded(x)[i] = evaluations[i]
<1>1. ASSUME NEW i \in Ids
      PROVE  LET e == [evaluations[i] EXCEPT !.status = "superseded"] IN
             e \in Evaluations /\ e.status = "superseded" /\ e.version = evaluations[i].version
  BY DEF Evaluations
<1>2. QED
  BY <1>1 DEF Superseded, UnderWay

LEMMA QueueOne ==
  ASSUME NEW f \in [Ids -> Evaluations], NEW i \in NextId, evaluations \in [Ids -> Evaluations],
         \A j \in Ids : /\ f[j].version = evaluations[j].version
                        /\ f[j].status # "none" <=> evaluations[j].status # "none",
         NEW n \in Evaluations, evaluations' = [f EXCEPT ![i] = n]
  PROVE  QueueKept
<1>1. i \in Ids /\ evaluations[i].status = "none"
  BY DEF NextId
<1>2. evaluations' \in [Ids -> Evaluations] /\ \A j \in Ids : j # i => evaluations'[j] = f[j]
  BY <1>1
<1>3. QED
  BY <1>1, <1>2 DEF QueueKept

LEMMA StandingIs ==
  ASSUME NEW e \in Standings, NEW s \in {"clear", "under_review", "blocked", "removed"},
         NEW m \in Standing(e, s)
  PROVE  /\ m \in Standings /\ m.status = s /\ m.version = e.version + 1 /\ m.revision = e.revision
         /\ s = "clear" => m.accepted = e.revision
<1>0. PICK p \in BOOLEAN : m = [e EXCEPT !.status = s, !.version = @ + 1,
        !.accepted = IF s = "clear" THEN e.revision ELSE 0, !.public = p,
        !.history = IF p THEN "previously_public" ELSE @]
  BY DEF Standing
<1>1. m = [e EXCEPT !.status = s, !.version = e.version + 1,
        !.accepted = IF s = "clear" THEN e.revision ELSE 0, !.public = p,
        !.history = IF p THEN "previously_public" ELSE e.history]
  <2>1. [e EXCEPT !.status = s, !.version = @ + 1,
        !.accepted = IF s = "clear" THEN e.revision ELSE 0, !.public = p,
        !.history = IF p THEN "previously_public" ELSE @]
      = [e EXCEPT !.status = s, !.version = e.version + 1,
        !.accepted = IF s = "clear" THEN e.revision ELSE 0, !.public = p,
        !.history = IF p THEN "previously_public" ELSE e.history]
    OBVIOUS
  <2>2. QED
    BY <1>0, <2>1, Zenon
<1>2. /\ e.version + 1 \in Nat /\ (IF s = "clear" THEN e.revision ELSE 0) \in Nat
      /\ (IF p THEN "previously_public" ELSE e.history) \in {"never_public", "previously_public", "unknown"}
  BY DEF Standings
<1>3. ASSUME NEW v \in Nat, NEW a \in Nat, NEW h \in {"never_public", "previously_public", "unknown"},
             m = [e EXCEPT !.status = s, !.version = v, !.accepted = a, !.public = p, !.history = h]
      PROVE  m \in Standings /\ m.status = s /\ m.version = v /\ m.revision = e.revision /\ m.accepted = a
  BY <1>3 DEF Standings
<1>4. QED
  BY ZenonT(60), <1>1, <1>2, <1>3

LEMMA JobsStay ==
  ASSUME ModerationTypeOK, JobsAreQueued, QueueKept, judging' = judging
  PROVE  JobsAreQueued'
  BY DEF ModerationTypeOK, JobsAreQueued, QueueKept

LEMMA JobsRest ==
  ASSUME ModerationTypeOK, JobsAreQueued, QueueKept, NEW w \in Workers, Rest(w)
  PROVE  JobsAreQueued' /\ judging' \in [Workers -> Judgements]
<1>1. Idle \in Judgements /\ Idle.stage = "idle"
  BY NoEvaluationTyped DEF Idle, Judgements
<1>2. judging' \in [Workers -> Judgements] /\ \A v \in Workers : judging'[v] = IF v = w THEN Idle ELSE judging[v]
  BY <1>1 DEF ModerationTypeOK, Rest
<1>3. QED
  BY <1>1, <1>2 DEF JobsAreQueued, QueueKept

LEMMA UnchangedKeep ==
  ASSUME ModerationTypeOK, UNCHANGED evaluations
  PROVE  QueueKept
  BY DEF ModerationTypeOK, QueueKept
-----------------------------------------------------------------------------
LEMMA ModerationStarts == ModerationInit => ModerationKept
<1> SUFFICES ASSUME ModerationInit PROVE ModerationKept
  OBVIOUS
<1>1. moderated \in Standings
  <2>1. \E e \in Standings : moderated = e
    <3>1. \E r \in {1}, v \in {0}, a \in {0, 1}, d, p \in BOOLEAN, s \in {"not_evaluated", "under_review", "clear"},
             h \in {"never_public", "previously_public", "unknown"} :
             moderated = [revision |-> r, version |-> v, disclosed |-> d, accepted |-> a, public |-> p, status |-> s, history |-> h]
      BY DEF ModerationInit
    <3>2. QED
      BY <3>1 DEF Standings
  <2>2. QED
    BY <2>1
<1>2. Idle \in Judgements /\ Idle.stage = "idle" /\ EmptyDesk \in Desks
  BY NoEvaluationTyped DEF Idle, Judgements, EmptyDesk, Desks
<1>3. moderated.status = "clear" => moderated.accepted = 1 /\ moderated.revision = 1
  BY DEF ModerationInit
<1>4. accepted.revisions = {moderated.accepted} \ {0} /\ accepted.version = 0
      /\ accepted \in [revisions : SUBSET Nat, version : Nat]
  BY <1>1 DEF ModerationInit, Standings
<1>5. ModerationTypeOK
  BY <1>1, <1>2, <1>4, NoEvaluationTyped DEF ModerationInit, ModerationTypeOK
<1>6. ClearIsForThisContent /\ ReviewIsCurrent
  BY <1>3, <1>4 DEF ModerationInit, ClearIsForThisContent, ReviewIsCurrent
<1>7. ReportersAreKnown /\ DecisionsAreVersions /\ JobsAreQueued
  BY <1>1, <1>2, <1>4 DEF ModerationInit, ReportersAreKnown, DecisionsAreVersions, JobsAreQueued, Standings
<1>8. QED
  BY <1>5, <1>6, <1>7 DEF ModerationKept

-----------------------------------------------------------------------------
(* The organizer and the visitors *)

LEMMA EditKeeps ==
  ASSUME ModerationKept, NEW kind \in {"full_review", "deterministic_only"},
         NEW valid \in BOOLEAN, NEW disclosed \in BOOLEAN, Edit(kind, valid, disclosed)
  PROVE  ModerationKept' /\ moderated'.revision # moderated.revision
         /\ (moderated.status \in {"blocked", "removed"} => moderated'.status = moderated.status)
<1> DEFINE e == moderated
           status == EditedStatus(kind, valid)
           queued == /\ disclosed /\ ~(kind = "deterministic_only" /\ e.status = "clear")
                     /\ kind = "full_review" \/ e.status \in {"not_evaluated", "under_review"}
<1> USE DEF ModerationKept
<1>1. e \in Standings
  BY DEF ModerationTypeOK
<1>2. /\ status \in {"not_evaluated", "clear", "under_review", "blocked", "removed"}
      /\ e.status \in {"blocked", "removed"} => status = e.status
  BY <1>1 DEF EditedStatus, Standings
<1>3. /\ moderated' \in Standings /\ moderated'.revision = e.revision + 1 /\ moderated'.version = e.version + 1
      /\ moderated'.status = status
      /\ status = "clear" => moderated'.accepted = e.revision + 1
  <2> HIDE DEF status
  <2>1. moderated' = [e EXCEPT !.revision = @ + 1, !.version = @ + 1, !.status = status, !.public = FALSE,
           !.disclosed = disclosed,
           !.accepted = IF status = "clear" THEN e.revision + 1 ELSE IF status = e.status THEN @ ELSE 0]
    BY DEF Edit, status
  <2>2. moderated' = [e EXCEPT !.revision = e.revision + 1, !.version = e.version + 1, !.status = status, !.public = FALSE,
           !.disclosed = disclosed,
           !.accepted = IF status = "clear" THEN e.revision + 1 ELSE IF status = e.status THEN e.accepted ELSE 0]
    <3>1. [e EXCEPT !.revision = @ + 1, !.version = @ + 1, !.status = status, !.public = FALSE,
           !.disclosed = disclosed,
           !.accepted = IF status = "clear" THEN e.revision + 1 ELSE IF status = e.status THEN @ ELSE 0]
        = [e EXCEPT !.revision = e.revision + 1, !.version = e.version + 1, !.status = status, !.public = FALSE,
           !.disclosed = disclosed,
           !.accepted = IF status = "clear" THEN e.revision + 1 ELSE IF status = e.status THEN e.accepted ELSE 0]
      OBVIOUS
    <3>2. QED
      BY <2>1, <3>1, Zenon
  <2> DEFINE r == e.revision + 1
             v == e.version + 1
             a == IF status = "clear" THEN e.revision + 1 ELSE IF status = e.status THEN e.accepted ELSE 0
  <2>3. r \in Nat /\ v \in Nat /\ a \in Nat /\ (status = "clear" => a = e.revision + 1)
    BY <1>1 DEF Standings
  <2>4. moderated' = [e EXCEPT !.revision = r, !.version = v, !.status = status, !.public = FALSE,
                               !.disclosed = disclosed, !.accepted = a]
    BY <2>2
  <2>5. e \in Standings
    BY <1>1
  <2>6. ASSUME NEW f \in Standings,
               moderated' = [f EXCEPT !.revision = r, !.version = v, !.status = status, !.public = FALSE,
                               !.disclosed = disclosed, !.accepted = a]
        PROVE  /\ moderated' \in Standings /\ moderated'.status = status
               /\ moderated'.version = v /\ moderated'.revision = r /\ moderated'.accepted = a
    <3> HIDE DEF r, v, a
    <3>1. QED
      BY <1>2, <2>3, <2>6 DEF Standings
  <2>7. QED
    BY <2>3, <2>4, <2>5, <2>6
<1>4. QueueKept
  <2>1. CASE queued
    <3>1. PICK i \in NextId : evaluations' = [Superseded(0) EXCEPT ![i] =
                [NoEvaluation EXCEPT !.status = "queued", !.source = "contextual",
                    !.revision = e.revision + 1, !.version = e.version + 1]]
      BY <2>1 DEF Edit
    <3>2. [NoEvaluation EXCEPT !.status = "queued", !.source = "contextual",
                    !.revision = e.revision + 1, !.version = e.version + 1] \in Evaluations
      <4>1. e.revision + 1 \in Nat /\ e.version + 1 \in Nat
        BY <1>1 DEF Standings
      <4>2. QED
        BY <4>1, QueuedTyped
    <3>3. evaluations \in [Ids -> Evaluations]
      BY DEF ModerationTypeOK
    <3> HIDE DEF e
    <3>4. QED
      BY <3>1, <3>2, <3>3, SupersededKeeps, QueueOne
  <2>2. CASE ~queued
    <3>1. evaluations' = Superseded(0)
      BY <2>2 DEF Edit
    <3>2. QED
      BY <3>1, SupersededKeeps DEF QueueKept, ModerationTypeOK
  <2>3. QED
    BY <2>1, <2>2
<1>5. /\ accepted' \in [revisions : SUBSET Nat, version : Nat] /\ accepted'.version = accepted.version
      /\ status = "clear" => e.revision + 1 \in accepted'.revisions
  <2> HIDE DEF status
  <2>1. accepted' = [accepted EXCEPT !.revisions = IF status = "clear" THEN @ \cup {e.revision + 1} ELSE @]
    BY DEF Edit, status
  <2>2. accepted \in [revisions : SUBSET Nat, version : Nat] /\ e.revision + 1 \in Nat
    BY <1>1 DEF ModerationTypeOK, Standings
  <2> HIDE DEF e
  <2>3. QED
    BY <2>1, <2>2
<1>6. review' = None /\ reporters' = {} /\ judging' = judging /\ console' = console
  BY DEF Edit, ReviewAfterEdit
<1>7. ModerationTypeOK'
  BY <1>3, <1>4, <1>5, <1>6 DEF ModerationTypeOK, QueueKept
<1>8. ClearIsForThisContent' /\ ReviewIsCurrent' /\ ReportersAreKnown'
  BY <1>3, <1>5, <1>6 DEF ClearIsForThisContent, ReviewIsCurrent, ReportersAreKnown
<1>9. DecisionsAreVersions'
  BY <1>1, <1>3, <1>5 DEF DecisionsAreVersions, ModerationTypeOK, Standings
<1>10. JobsAreQueued'
  BY <1>4, <1>6, JobsStay
<1>11. QED
  BY <1>1, <1>2, <1>3, <1>7, <1>8, <1>9, <1>10 DEF Standings

\* Steps that leave the event, its history and the review alone.
Aside == UNCHANGED <<moderated, accepted>>

LEMMA AsideKeeps ==
  ASSUME ModerationKept, Aside, QueueKept, judging' \in [Workers -> Judgements], console' \in Desks,
         JobsAreQueued', ReportersAreKnown', review' \in {review, None, moderated.revision}
  PROVE  ModerationKept'
<1>1. ModerationTypeOK'
  BY DEF ModerationKept, ModerationTypeOK, Aside, QueueKept, Standings
<1>2. ClearIsForThisContent' /\ ReviewIsCurrent' /\ DecisionsAreVersions'
  BY DEF ModerationKept, ClearIsForThisContent, ReviewIsCurrent, DecisionsAreVersions, Aside
<1>3. QED
  BY <1>1, <1>2 DEF ModerationKept

LEMMA ReviewKeeps ==
  ASSUME ModerationKept, RequestReview \/ WithdrawReview
  PROVE  ModerationKept' /\ Aside
<1>1. /\ Aside /\ QueueKept /\ judging' \in [Workers -> Judgements] /\ console' \in Desks /\ ReportersAreKnown'
      /\ review' \in {review, None, moderated.revision} /\ judging' = judging
  BY UnchangedKeep DEF RequestReview, WithdrawReview, Aside, ModerationKept, ModerationTypeOK, ReportersAreKnown
<1>2. QED
  BY <1>1, JobsStay, AsideKeeps DEF ModerationKept

LEMMA ReportKeeps ==
  ASSUME ModerationKept, NEW a \in Addresses, Report(a)
  PROVE  ModerationKept' /\ Aside
<1>1. /\ Aside /\ judging' \in [Workers -> Judgements] /\ console' \in Desks /\ ReportersAreKnown'
      /\ review' = review /\ judging' = judging
  BY DEF Report, Fingerprint, Aside, ModerationKept, ModerationTypeOK, ReportersAreKnown
<1>2. QueueKept
  <2> DEFINE n == [NoEvaluation EXCEPT !.status = "queued", !.source = "report",
                    !.revision = moderated.revision, !.version = moderated.version]
  <2>1. n \in Evaluations
    BY QueuedTyped DEF ModerationKept, ModerationTypeOK, Standings
  <2>2. (\E i \in NextId : evaluations' = [evaluations EXCEPT ![i] = n]) \/ UNCHANGED evaluations
    BY DEF Report
  <2>3. QED
    BY <2>1, <2>2, QueueOne, UnchangedKeep DEF ModerationKept, ModerationTypeOK
<1>3. QED
  BY <1>1, <1>2, JobsStay, AsideKeeps DEF ModerationKept

-----------------------------------------------------------------------------
(* The workers *)

LEMMA LeaseKeeps ==
  ASSUME ModerationKept, NEW i \in Ids, LeaseEnds(i)
  PROVE  ModerationKept' /\ Aside
<1>1. QueueKept
  <2>1. evaluations' = [evaluations EXCEPT ![i].old = TRUE] /\ evaluations \in [Ids -> Evaluations]
    BY DEF LeaseEnds, ModerationKept, ModerationTypeOK
  <2>2. QED
    BY <2>1 DEF QueueKept, Evaluations
<1>2. QED
  BY <1>1, JobsStay, AsideKeeps DEF LeaseEnds, ModerationKept, ModerationTypeOK, ReportersAreKnown, Aside

LEMMA GivenUpKeeps ==
  ASSUME evaluations \in [Ids -> Evaluations]
  PROVE  /\ GivenUp \in [Ids -> Evaluations]
         /\ \A i \in Ids : /\ GivenUp[i].version = evaluations[i].version
                           /\ evaluations[i].status # "none" => GivenUp[i].status # "none"
<1>1. ASSUME NEW i \in Ids
      PROVE  LET e == [evaluations[i] EXCEPT !.status = "failed"] IN
             e \in Evaluations /\ e.status = "failed" /\ e.version = evaluations[i].version
  BY DEF Evaluations
<1>2. QED
  BY <1>1 DEF GivenUp

LEMMA ClaimKeeps ==
  ASSUME ModerationKept, NEW w \in Workers, Claim(w)
  PROVE  ModerationKept' /\ Aside
<1> USE DEF ModerationKept
<1>0. evaluations \in [Ids -> Evaluations] /\ judging \in [Workers -> Judgements]
  BY DEF ModerationTypeOK
<1>1. /\ Aside /\ console' \in Desks /\ ReportersAreKnown' /\ review' = review
  BY DEF Claim, Aside, ModerationTypeOK, ReportersAreKnown
<1>2. ASSUME NEW i \in Ids, NEW handled, NEW stage \in {"judging", "unreadable"},
             handled = [evaluations[i] EXCEPT !.status = "processing", !.attempt = @ + 1, !.old = FALSE],
             evaluations' = [GivenUp EXCEPT ![i] = handled],
             judging' = [judging EXCEPT ![w] = [Idle EXCEPT !.stage = stage, !.id = i, !.job = handled]]
      PROVE  ModerationKept'
  <2>1. handled \in Evaluations /\ handled.version = evaluations[i].version /\ handled.status = "processing"
    <3> DEFINE o == evaluations[i]
    <3>1. o \in Evaluations /\ o.attempt + 1 \in Nat
      BY <1>0 DEF Evaluations
    <3>2. handled = [o EXCEPT !.status = "processing", !.attempt = o.attempt + 1, !.old = FALSE]
      BY <1>2
    <3> HIDE DEF o
    <3>3. handled \in Evaluations /\ handled.version = o.version /\ handled.status = "processing"
      <4> DEFINE n == o.attempt + 1
      <4>1. n \in Nat /\ handled = [o EXCEPT !.status = "processing", !.attempt = n, !.old = FALSE]
        BY <3>1, <3>2
      <4> HIDE DEF n
      <4>2. QED
        BY <3>1, <4>1 DEF Evaluations
    <3>4. QED
      BY <3>3 DEF o
  <2>2. QueueKept
    <3>1. GivenUp \in [Ids -> Evaluations]
      BY <1>0, GivenUpKeeps
    <3> DEFINE g == GivenUp
    <3> HIDE DEF g
    <3>2. evaluations' = [g EXCEPT ![i] = handled] /\ g \in [Ids -> Evaluations]
      BY <1>2, <3>1 DEF g
    <3>3. evaluations' \in [Ids -> Evaluations] /\ evaluations'[i] = handled
          /\ \A k \in Ids : k # i => evaluations'[k] = g[k]
      BY <2>1, <3>2
    <3>4. \A k \in Ids : /\ g[k].version = evaluations[k].version
                         /\ evaluations[k].status # "none" => g[k].status # "none"
      BY <1>0, GivenUpKeeps DEF g
    <3>5. QED
      BY <2>1, <3>3, <3>4 DEF QueueKept
  <2> DEFINE j == [Idle EXCEPT !.stage = stage, !.id = i, !.job = handled]
  <2>3. j \in Judgements /\ j.id = i /\ j.job = handled
    BY <2>1 DEF Idle, Judgements
  <2>4. judging' \in [Workers -> Judgements] /\ \A v \in Workers : judging'[v] = IF v = w THEN j ELSE judging[v]
    BY <1>0, <1>2, <2>3
  <2>5. evaluations'[i] = handled
    BY <1>0, <1>2, GivenUpKeeps
  <2>6. JobsAreQueued'
    <3> SUFFICES ASSUME NEW v \in Workers, judging'[v].stage # "idle"
                 PROVE  /\ judging'[v].id \in Ids
                        /\ evaluations'[judging'[v].id].status # "none"
                        /\ evaluations'[judging'[v].id].version = judging'[v].job.version
      BY DEF JobsAreQueued
    <3>1. CASE v = w
      <4> HIDE DEF j
      <4>1. QED
        BY <2>1, <2>3, <2>4, <2>5, <3>1
    <3>2. CASE v # w
      BY <2>2, <2>4, <3>2 DEF JobsAreQueued, QueueKept
    <3>3. QED
      BY <3>1, <3>2
  <2>7. QED
    BY <1>1, <2>2, <2>4, <2>6, AsideKeeps
<1>3. ASSUME evaluations' = GivenUp, UNCHANGED judging
      PROVE  ModerationKept'
  <2>1. QueueKept
    BY <1>0, <1>3, GivenUpKeeps DEF QueueKept
  <2>2. QED
    BY <1>0, <1>1, <1>3, <2>1, JobsStay, AsideKeeps
<1>4. QED
  <2>1. CASE \E i \in Ids : Claimable(i)
    <3>1. PICK i \in Ids :
            LET handled == [evaluations[i] EXCEPT !.status = "processing", !.attempt = @ + 1, !.old = FALSE] IN
                /\ evaluations' = [GivenUp EXCEPT ![i] = handled]
                /\ judging' = [judging EXCEPT ![w] =
                      [Idle EXCEPT !.stage = IF moderated.disclosed THEN "judging" ELSE "unreadable", !.id = i, !.job = handled]]
      BY <2>1 DEF Claim
    <3>2. QED
      BY <1>1, <1>2, <3>1
  <2>2. CASE ~\E i \in Ids : Claimable(i)
    BY <1>1, <1>3, <2>2 DEF Claim
  <2>3. QED
    BY <2>1, <2>2

LEMMA JudgeKeeps ==
  ASSUME ModerationKept, NEW w \in Workers, Judge(w)
  PROVE  ModerationKept' /\ Aside
<1> USE DEF ModerationKept
<1>0. judging \in [Workers -> Judgements]
  BY DEF ModerationTypeOK
<1>1. /\ Aside /\ console' \in Desks /\ ReportersAreKnown' /\ review' = review /\ QueueKept /\ evaluations' = evaluations
  BY UnchangedKeep DEF Judge, Aside, ModerationTypeOK, ReportersAreKnown
<1>2. PICK r \in {"clear", "hold", "failure"} :
        judging' = [judging EXCEPT ![w].stage = "judged", ![w].result = r]
  <2>1. ASSUME NEW x \in Results
        PROVE  (IF ValidResult(x) THEN x.outcome ELSE "failure") \in {"clear", "hold", "failure"}
    BY DEF Results
  <2>2. (\E x \in Results : judging' = [judging EXCEPT ![w].stage = "judged",
                            ![w].result = IF ValidResult(x) THEN x.outcome ELSE "failure"])
        \/ judging' = [judging EXCEPT ![w].stage = "judged", ![w].result = "failure"]
    BY DEF Judge
  <2>3. QED
    BY <2>1, <2>2
<1>3. /\ judging' \in [Workers -> Judgements]
      /\ \A v \in Workers : judging'[v].id = judging[v].id /\ judging'[v].job = judging[v].job
                            /\ (judging'[v].stage # "idle" => judging[v].stage # "idle")
  <2> DEFINE j == [judging[w] EXCEPT !.stage = "judged", !.result = r]
  <2>1. j \in Judgements /\ j.id = judging[w].id /\ j.job = judging[w].job /\ judging[w].stage # "idle"
    BY ZenonT(60), <1>0 DEF Judgements, Judge
  <2>2. judging' = [judging EXCEPT ![w] = j]
    BY <1>2
  <2>3. QED
    BY <1>0, <2>1, <2>2
<1>4. JobsAreQueued'
  BY <1>1, <1>3 DEF JobsAreQueued
<1>5. QED
  BY <1>1, <1>3, <1>4, AsideKeeps

LEMMA RestKeeps ==
  ASSUME ModerationKept, NEW w \in Workers, WorkerDies(w) \/ Fail(w) \/ Reject(w)
  PROVE  ModerationKept' /\ Aside
<1> USE DEF ModerationKept
<1>0. evaluations \in [Ids -> Evaluations]
  BY DEF ModerationTypeOK
<1>1. Aside /\ console' \in Desks /\ ReportersAreKnown' /\ review' = review /\ Rest(w)
  BY DEF WorkerDies, Fail, Reject, Rest, Aside, ModerationTypeOK, ReportersAreKnown
<1>2. \/ UNCHANGED evaluations
      \/ \E i \in Ids, s \in {"queued", "failed", "superseded"} : evaluations[i].status # "none"
              /\ evaluations' = [evaluations EXCEPT ![i].status = s]
  <2>1. judging[w].stage # "idle" => judging[w].id \in Ids /\ evaluations[judging[w].id].status # "none"
    BY DEF JobsAreQueued
  <2>2. CASE WorkerDies(w)
    BY <2>2 DEF WorkerDies
  <2>3. CASE Fail(w)
    BY <1>0, <2>1, <2>3 DEF Fail, Evaluations
  <2>4. CASE Reject(w)
    BY <1>0, <2>1, <2>4 DEF Reject, Evaluations
  <2>5. QED
    BY <2>2, <2>3, <2>4
<1>3. QueueKept
  <2>1. ASSUME NEW i \in Ids, NEW s \in {"queued", "failed", "superseded"}, evaluations[i].status # "none",
               evaluations' = [evaluations EXCEPT ![i].status = s]
        PROVE  QueueKept
    BY <1>0, <2>1 DEF QueueKept, Evaluations
  <2>2. QED
    BY <1>2, <2>1, UnchangedKeep
<1>4. QED
  BY <1>1, <1>3, JobsRest, AsideKeeps

\* What changes an event's standing leaves everything else as it should be.
LEMMA StandingKeeps ==
  ASSUME ModerationKept, QueueKept, judging' \in [Workers -> Judgements], JobsAreQueued', ReportersAreKnown',
         console' \in Desks, review' \in {review, None},
         moderated' \in Standings, moderated'.revision = moderated.revision,
         moderated'.version = moderated.version + 1,
         accepted' \in [revisions : SUBSET Nat, version : Nat], accepted'.version <= moderated'.version,
         ClearIsForThisContent'
  PROVE  ModerationKept'
<1>1. ModerationTypeOK' /\ ReviewIsCurrent'
  BY DEF ModerationKept, ModerationTypeOK, QueueKept, ReviewIsCurrent
<1>2. QED
  BY <1>1 DEF ModerationKept, DecisionsAreVersions

\* A verdict that changes the standing is of an evaluation made after the staff's last word.
Judged ==
    \E i \in Ids : /\ evaluations'[i].status = "succeeded" /\ evaluations[i].status = "processing"
                   /\ evaluations[i].version >= accepted.version

LEMMA SettledOne ==
  ASSUME NEW f \in [Ids -> Evaluations], NEW i \in Ids, NEW s \in {"succeeded", "superseded"},
         \A k \in Ids : /\ f[k].version = evaluations[k].version
                        /\ f[k].status # "none" <=> evaluations[k].status # "none",
         evaluations' = [f EXCEPT ![i].status = s]
  PROVE  QueueKept /\ evaluations'[i].status = s
<1> DEFINE n == [f[i] EXCEPT !.status = s]
<1>1. n \in Evaluations /\ n.status = s /\ n.version = f[i].version
  BY DEF Evaluations
<1>2. evaluations' = [f EXCEPT ![i] = n]
  OBVIOUS
<1> HIDE DEF n
<1>3. evaluations' \in [Ids -> Evaluations] /\ evaluations'[i] = n /\ \A k \in Ids : k # i => evaluations'[k] = f[k]
  BY <1>1, <1>2
<1>4. QED
  BY <1>1, <1>3 DEF QueueKept

LEMMA VerdictKeeps ==
  ASSUME ModerationKept, NEW w \in Workers, ApplyVerdict(w)
  PROVE  /\ ModerationKept' /\ console' = console
         /\ moderated'.revision = moderated.revision
         /\ moderated'.status # moderated.status => Judged /\ moderated.status \notin {"blocked", "removed"}
<1> USE DEF ModerationKept
<1> DEFINE i == judging[w].id
           job == judging[w].job
           status == IF judging[w].result = "clear" THEN "clear" ELSE "under_review"
<1>0. /\ evaluations \in [Ids -> Evaluations] /\ judging \in [Workers -> Judgements] /\ moderated \in Standings
      /\ accepted \in [revisions : SUBSET Nat, version : Nat]
  BY DEF ModerationTypeOK
<1>1. /\ i \in Ids /\ evaluations[i].status # "none" /\ evaluations[i].version = job.version
      /\ job.revision \in Nat
  BY <1>0 DEF JobsAreQueued, ApplyVerdict, Judgements, Evaluations
<1>2. Rest(w) /\ console' = console /\ console' \in Desks /\ ReportersAreKnown' /\ review' = review
  BY DEF ApplyVerdict, ModerationTypeOK, ReportersAreKnown
<1>4. CASE ~(Applicable(job, i) /\ moderated.status \notin {"blocked", "removed"} /\ moderated.history # "unknown")
  <2>1. Aside /\ evaluations' = [evaluations EXCEPT ![i].status = IF @ = "processing" THEN "superseded" ELSE @]
    BY <1>4 DEF ApplyVerdict, Aside
  <2>2. UNCHANGED evaluations \/ evaluations' = [evaluations EXCEPT ![i].status = "superseded"]
    <3> DEFINE s == evaluations[i].status
    <3>1. evaluations' = [evaluations EXCEPT ![i].status = IF s = "processing" THEN "superseded" ELSE s]
      BY <2>1
    <3>2. [evaluations EXCEPT ![i].status = s] = evaluations
      <4> HIDE DEF i
      <4>1. QED
        BY <1>0, <1>1 DEF Evaluations
    <3> HIDE DEF s
    <3>3. QED
      BY <3>1, <3>2
  <2>3. QueueKept
    BY <1>0, <1>1, <2>2, SettledOne, UnchangedKeep
  <2>4. QED
    BY <1>2, <2>1, <2>3, JobsRest, AsideKeeps DEF Aside
<1>5. CASE Applicable(job, i) /\ moderated.status \notin {"blocked", "removed"} /\ moderated.history # "unknown"
  <2>1. /\ evaluations[i].status = "processing" /\ moderated.revision = job.revision /\ moderated.version = job.version
    BY <1>5 DEF Applicable
  <2>2. accepted' = [accepted EXCEPT !.revisions = IF status = "clear" THEN @ \cup {job.revision} ELSE @]
    BY <1>5 DEF ApplyVerdict
  <2>3. /\ accepted' \in [revisions : SUBSET Nat, version : Nat] /\ accepted'.version = accepted.version
        /\ accepted.revisions \subseteq accepted'.revisions
        /\ status = "clear" => job.revision \in accepted'.revisions
    <3> HIDE DEF status, job
    <3>1. QED
      BY <1>0, <1>1, <2>2
  <2>4. CASE status = "clear" /\ moderated.status = "clear" /\ moderated.accepted = moderated.revision
    <3>1. evaluations' = [evaluations EXCEPT ![i].status = "succeeded"] /\ UNCHANGED moderated
      BY <1>5, <2>4 DEF ApplyVerdict
    <3>2. QueueKept
      BY <1>0, <1>1, <3>1, SettledOne
    <3>3. JobsAreQueued' /\ judging' \in [Workers -> Judgements]
      BY <1>2, <3>2, JobsRest
    <3>4. ModerationTypeOK'
      BY <1>2, <2>3, <3>1, <3>2, <3>3 DEF ModerationTypeOK, QueueKept
    <3>5. ClearIsForThisContent' /\ ReviewIsCurrent' /\ DecisionsAreVersions'
      BY <1>2, <2>3, <3>1 DEF ClearIsForThisContent, ReviewIsCurrent, DecisionsAreVersions
    <3>6. QED
      BY <1>2, <3>1, <3>3, <3>4, <3>5
  <2>5. CASE ~(status = "clear" /\ moderated.status = "clear" /\ moderated.accepted = moderated.revision)
    <3>1. evaluations' = [Superseded(i) EXCEPT ![i].status = "succeeded"] /\ moderated' \in Standing(moderated, status)
      BY <1>5, <2>5 DEF ApplyVerdict
    <3>2. QueueKept /\ evaluations'[i].status = "succeeded"
      <4> DEFINE f == Superseded(i)
      <4>1. /\ f \in [Ids -> Evaluations]
            /\ \A k \in Ids : /\ f[k].version = evaluations[k].version
                              /\ f[k].status # "none" <=> evaluations[k].status # "none"
        BY <1>0, SupersededKeeps
      <4>2. evaluations' = [f EXCEPT ![i].status = "succeeded"]
        BY <3>1
      <4> HIDE DEF f, i
      <4>3. QED
        BY <1>1, <4>1, <4>2, SettledOne
    <3>3. JobsAreQueued' /\ judging' \in [Workers -> Judgements]
      BY <1>2, <3>2, JobsRest
    <3>4. /\ moderated' \in Standings /\ moderated'.status = status /\ moderated'.version = moderated.version + 1
          /\ moderated'.revision = moderated.revision
          /\ status = "clear" => moderated'.accepted = moderated.revision
      BY <1>0, <3>1, StandingIs
    <3>5. ClearIsForThisContent' /\ accepted'.version <= moderated'.version
      BY <1>0, <2>1, <2>3, <3>4 DEF ClearIsForThisContent, DecisionsAreVersions, Standings
    <3>6. ModerationKept'
      BY <1>2, <2>3, <3>2, <3>3, <3>4, <3>5, StandingKeeps
    <3>7. Judged
      BY <1>0, <1>1, <2>1, <3>2 DEF Judged, DecisionsAreVersions, Standings
    <3>8. QED
      BY <1>2, <1>5, <3>4, <3>6, <3>7
  <2>6. QED
    BY <2>4, <2>5
<1>6. QED
  BY <1>4, <1>5

-----------------------------------------------------------------------------
(* The staff *)

LEMMA PageKeeps ==
  ASSUME ModerationKept, ReadCase \/ ReloadCase \/ \E a \in Decisions \cup {"history"} : Decide(a)
  PROVE  ModerationKept' /\ Aside
<1> USE DEF ModerationKept
<1>1. /\ Aside /\ ReportersAreKnown' /\ review' = review /\ judging' = judging /\ judging \in [Workers -> Judgements]
      /\ QueueKept
  BY UnchangedKeep DEF ReadCase, ReloadCase, Decide, Aside, ReportersAreKnown, ModerationTypeOK
<1>2. console' \in Desks
  <2>1. moderated \in Standings /\ console \in Desks
    BY DEF ModerationTypeOK
  <2>2. CASE ReadCase
    BY <2>1, <2>2 DEF ReadCase, EmptyDesk, Desks
  <2>3. CASE ReloadCase
    BY <2>1, <2>3 DEF ReloadCase, EmptyDesk, Desks
  <2>4. ASSUME NEW a \in Decisions \cup {"history"}, Decide(a)
        PROVE  console' \in Desks
    BY <2>1, <2>4 DEF Decide, Desks
  <2>5. QED
    BY <2>2, <2>3, <2>4
<1>3. QED
  BY <1>1, <1>2, JobsStay, AsideKeeps

LEMMA DeskShown ==
  ASSUME console \in Desks, NEW c \in BOOLEAN
  PROVE  /\ [console EXCEPT !.stage = "shown"] \in Desks /\ [console EXCEPT !.stage = "shown"].stage = "shown"
         /\ [console EXCEPT !.stage = "shown", !.conflict = c] \in Desks
         /\ [console EXCEPT !.stage = "shown", !.conflict = c].stage = "shown"
         /\ EmptyDesk \in Desks /\ EmptyDesk.stage = "reading"
  BY DEF Desks, EmptyDesk

LEMMA DecidedKeeps ==
  ASSUME ModerationKept, Decided
  PROVE  ModerationKept' /\ console.stage \in Decisions /\ console'.stage # console.stage
         /\ moderated'.revision = moderated.revision
<1> USE DEF ModerationKept
<1> DEFINE next == NextStatus(console.stage, moderated)
<1>0. /\ evaluations \in [Ids -> Evaluations] /\ judging \in [Workers -> Judgements] /\ moderated \in Standings
      /\ accepted \in [revisions : SUBSET Nat, version : Nat] /\ console \in Desks
  BY DEF ModerationTypeOK
<1>1. /\ judging' = judging /\ ReportersAreKnown' /\ console.stage \in Decisions
  BY DEF Decided, ReportersAreKnown
<1>2. CASE Expected(console.shown) /\ next # None
  <2>1. next \in {"clear", "under_review", "blocked", "removed"}
    BY <1>2 DEF NextStatus
  <2>2. /\ moderated' \in Standing(moderated, next) /\ evaluations' = Superseded(0)
        /\ review' \in {review, None}
        /\ accepted' = [revisions |-> IF next = "clear" THEN accepted.revisions \cup {console.shown.revision}
                                          ELSE accepted.revisions, version |-> moderated.version + 1]
        /\ console' \in {EmptyDesk, [console EXCEPT !.stage = "shown"]}
    BY <1>2 DEF Decided
  <2>3. console.shown.revision = moderated.revision
    BY <1>2 DEF Expected
  <2>4. /\ moderated' \in Standings /\ moderated'.status = next /\ moderated'.version = moderated.version + 1
        /\ moderated'.revision = moderated.revision
        /\ next = "clear" => moderated'.accepted = moderated.revision
    BY <1>0, <2>1, <2>2, StandingIs
  <2>5. QueueKept
    BY <1>0, <2>2, SupersededKeeps DEF QueueKept
  <2>6. JobsAreQueued' /\ judging' \in [Workers -> Judgements]
    BY <1>0, <1>1, <2>5, JobsStay
  <2>7. console' \in Desks /\ console'.stage \in {"reading", "shown"}
    BY <1>0, <2>2, DeskShown
  <2> HIDE DEF next
  <2>8. /\ accepted' \in [revisions : SUBSET Nat, version : Nat] /\ accepted'.version = moderated.version + 1
        /\ next = "clear" => moderated.revision \in accepted'.revisions
    <3>1. moderated.version + 1 \in Nat /\ moderated.revision \in Nat
      BY <1>0 DEF Standings
    <3>2. QED
      BY <1>0, <2>2, <2>3, <3>1
  <2>9. ClearIsForThisContent' /\ accepted'.version <= moderated'.version
    BY <1>0, <2>4, <2>8 DEF ClearIsForThisContent, Standings
  <2>10. ModerationKept'
    BY <1>1, <2>2, <2>4, <2>5, <2>6, <2>7, <2>8, <2>9, StandingKeeps
  <2>11. QED
    BY <1>1, <2>4, <2>7, <2>10 DEF Decisions
<1>3. CASE ~(Expected(console.shown) /\ next # None)
  <2>1. /\ Aside /\ QueueKept /\ review' = review
        /\ console' = [console EXCEPT !.stage = "shown", !.conflict = ~Expected(console.shown)]
    BY <1>3, UnchangedKeep DEF Decided, Aside
  <2>2. (~Expected(console.shown)) \in BOOLEAN
    BY DEF Expected
  <2>3. console' \in Desks /\ console'.stage = "shown"
    BY <1>0, <2>1, <2>2, DeskShown
  <2>4. ModerationKept'
    BY <1>0, <1>1, <2>1, <2>3, JobsStay, AsideKeeps
  <2>5. QED
    BY <1>1, <2>1, <2>3, <2>4 DEF Aside, Decisions
<1>4. QED
  BY <1>2, <1>3

LEMMA HistoryKeeps ==
  ASSUME ModerationKept, HistoryResolved
  PROVE  ModerationKept' /\ moderated'.revision = moderated.revision /\ moderated'.status = moderated.status
<1> USE DEF ModerationKept
<1>0. /\ evaluations \in [Ids -> Evaluations] /\ judging \in [Workers -> Judgements] /\ moderated \in Standings
      /\ accepted \in [revisions : SUBSET Nat, version : Nat] /\ console \in Desks
  BY DEF ModerationTypeOK
<1>1. judging' = judging /\ ReportersAreKnown' /\ review' = review /\ accepted' = accepted
  BY DEF HistoryResolved, ReportersAreKnown
<1> DEFINE may == Expected(console.shown) /\ moderated.history = "unknown" /\ moderated.status = "under_review"
<1>2. CASE may
  <2>1. PICK h \in {"never_public", "previously_public"} :
           moderated' = [moderated EXCEPT !.history = h, !.version = @ + 1, !.accepted = 0]
    BY <1>2 DEF HistoryResolved
  <2>2. evaluations' = Superseded(0) /\ console' \in {EmptyDesk, [console EXCEPT !.stage = "shown"]}
    BY <1>2 DEF HistoryResolved
  <2>3. /\ moderated' \in Standings /\ moderated'.status = moderated.status /\ moderated'.version = moderated.version + 1
        /\ moderated'.revision = moderated.revision
    <3> DEFINE v == moderated.version + 1
    <3>1. v \in Nat /\ moderated' = [moderated EXCEPT !.history = h, !.version = v, !.accepted = 0]
      BY <1>0, <2>1 DEF Standings
    <3> HIDE DEF v
    <3>2. moderated' \in Standings /\ moderated'.status = moderated.status /\ moderated'.version = v
          /\ moderated'.revision = moderated.revision
      BY <1>0, <3>1 DEF Standings
    <3>3. QED
      BY <3>2 DEF v
  <2>4. QueueKept
    BY <1>0, <2>2, SupersededKeeps DEF QueueKept
  <2>5. JobsAreQueued' /\ judging' \in [Workers -> Judgements]
    BY <1>0, <1>1, <2>4, JobsStay
  <2>6. console' \in Desks
    BY <1>0, <2>2, DeskShown
  <2>7. ClearIsForThisContent' /\ accepted'.version <= moderated'.version
    BY <1>0, <1>1, <1>2, <2>3 DEF ClearIsForThisContent, DecisionsAreVersions, Standings
  <2>8. ModerationKept'
    BY <1>0, <1>1, <2>3, <2>4, <2>5, <2>6, <2>7, StandingKeeps
  <2>9. QED
    BY <2>3, <2>8
<1>3. CASE ~may
  <2>1. /\ Aside /\ QueueKept
        /\ console' = [console EXCEPT !.stage = "shown", !.conflict = ~Expected(console.shown)]
    BY <1>3, UnchangedKeep DEF HistoryResolved, Aside
  <2>2. (~Expected(console.shown)) \in BOOLEAN
    BY DEF Expected
  <2>3. console' \in Desks
    BY <1>0, <2>1, <2>2, DeskShown
  <2>4. ModerationKept'
    BY <1>0, <1>1, <2>1, <2>3, JobsStay, AsideKeeps
  <2>5. QED
    BY <2>1, <2>4 DEF Aside
<1>4. QED
  BY <1>2, <1>3

-----------------------------------------------------------------------------
\* What a step may do to the standing of one revision: see DecisionsStand.
StandsUnless ==
    LET staff == console.stage \in Decisions /\ console'.stage # console.stage IN
    /\ moderated'.status # moderated.status /\ moderated'.revision = moderated.revision /\ ~staff => Judged
    /\ moderated.status \in {"blocked", "removed"} /\ moderated'.status # moderated.status => staff

LEMMA ModerationStep ==
  ASSUME ModerationKept, [ModerationNext]_moderationVars
  PROVE  ModerationKept' /\ StandsUnless
<1>1. ASSUME ModerationKept', Aside
      PROVE  ModerationKept' /\ StandsUnless
  BY <1>1 DEF Aside, StandsUnless
<1>2. CASE UNCHANGED moderationVars
  <2>1. Aside /\ QueueKept /\ judging' = judging /\ judging \in [Workers -> Judgements] /\ console' \in Desks
        /\ ReportersAreKnown' /\ review' = review
    BY <1>2, UnchangedKeep DEF moderationVars, Aside, ModerationKept, ModerationTypeOK, ReportersAreKnown
  <2>2. QED
    BY <1>1, <2>1, JobsStay, AsideKeeps DEF ModerationKept
<1>3. ASSUME NEW kind \in {"full_review", "deterministic_only"}, NEW valid \in BOOLEAN,
             NEW disclosed \in BOOLEAN, Edit(kind, valid, disclosed)
      PROVE  ModerationKept' /\ StandsUnless
  BY <1>3, EditKeeps DEF StandsUnless
<1>4. CASE RequestReview \/ WithdrawReview
  BY <1>1, <1>4, ReviewKeeps
<1>5. ASSUME NEW a \in Addresses, Report(a)
      PROVE  ModerationKept' /\ StandsUnless
  BY <1>1, <1>5, ReportKeeps
<1>6. ASSUME NEW i \in Ids, LeaseEnds(i)
      PROVE  ModerationKept' /\ StandsUnless
  BY <1>1, <1>6, LeaseKeeps
<1>7. ASSUME NEW w \in Workers, Claim(w) \/ Judge(w) \/ WorkerDies(w) \/ ApplyVerdict(w) \/ Fail(w) \/ Reject(w)
      PROVE  ModerationKept' /\ StandsUnless
  <2>1. CASE Claim(w)
    BY <1>1, <2>1, ClaimKeeps
  <2>2. CASE Judge(w)
    BY <1>1, <2>2, JudgeKeeps
  <2>3. CASE WorkerDies(w) \/ Fail(w) \/ Reject(w)
    BY <1>1, <2>3, RestKeeps
  <2>4. CASE ApplyVerdict(w)
    BY <2>4, VerdictKeeps DEF StandsUnless
  <2>5. QED
    BY <1>7, <2>1, <2>2, <2>3, <2>4
<1>8. CASE ReadCase \/ ReloadCase \/ \E a \in Decisions \cup {"history"} : Decide(a)
  BY <1>1, <1>8, PageKeeps
<1>9. CASE Decided
  BY <1>9, DecidedKeeps DEF StandsUnless
<1>10. CASE HistoryResolved
  BY <1>10, HistoryKeeps DEF StandsUnless
<1>11. QED
  BY <1>2, <1>3, <1>4, <1>5, <1>6, <1>7, <1>8, <1>9, <1>10 DEF ModerationNext

LEMMA OffersHold ==
  ASSUME ModerationTypeOK
  PROVE  OffersAreTaken
<1>1. /\ moderated.status \in {"not_evaluated", "clear", "under_review", "blocked", "removed"}
      /\ moderated.history \in {"never_public", "previously_public", "unknown"}
  BY DEF ModerationTypeOK, Standings
<1>2. QED
  BY <1>1, ModerationAssumption DEF OffersAreTaken, AvailableActions, NextStatus, Decisions

LEMMA ReportersHold ==
  ASSUME ReportersAreKnown
  PROVE  ReportersAreHosts
<1>1. IsFiniteSet({HostOf(a) : a \in Addresses})
  <2> DEFINE T == {HostOf(a) : a \in Addresses}
             f == [a \in Addresses |-> HostOf(a)]
  <2>1. f \in Surjection(Addresses, T)
    BY DEF Surjection
  <2>2. QED
    BY <2>1, ModerationAssumption, FS_Surjection
<1>2. QED
  BY <1>1, FS_Subset DEF ReportersAreKnown, ReportersAreHosts

\* Edits, workers of whatever number that die and are late, reports, requests
\* and staff with an old page: a cleared event was found acceptable as it is, what
\* the page offers the database takes, reporters are hosts, an open review request
\* is about the event as it is, and nobody but a person undoes a person's decision.
THEOREM ModerationStands == ModerationSpec => ModerationPromise
<1>1. ModerationKept /\ [ModerationNext]_moderationVars => ModerationKept' /\ StandsUnless
  BY ModerationStep
<1>2. ModerationKept => ClearIsForThisContent /\ OffersAreTaken /\ ReportersAreHosts /\ ReviewIsCurrent
  BY OffersHold, ReportersHold DEF ModerationKept
<1>3. StandsUnless =>
       LET staff == console.stage \in Decisions /\ console'.stage # console.stage IN
       /\ moderated'.status # moderated.status /\ moderated'.revision = moderated.revision /\ ~staff
             => \E i \in Ids : evaluations'[i].status = "succeeded" /\ evaluations[i].status = "processing"
                               /\ evaluations[i].version >= accepted.version
       /\ moderated.status \in {"blocked", "removed"} /\ moderated'.status # moderated.status => staff
  BY DEF StandsUnless, Judged
<1>4. QED
  BY <1>1, <1>2, <1>3, ModerationStarts, PTL DEF ModerationSpec, ModerationPromise, DecisionsStand

=============================================================================
