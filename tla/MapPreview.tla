----------------------------- MODULE MapPreview -----------------------------
(***************************************************************************)
(* What a visitor picks on the public map: one event, or a list to choose     *)
(* from.  The feed may replace the events at any moment, the renderer shows   *)
(* the ones it was given last, a cluster tells its members later, and going   *)
(* back restores what was picked once the events are there.                   *)
(***************************************************************************)
EXTENDS Common

CONSTANTS
    Searches,    \* filters
    Candidates(_)   \* the events there may be that pass one

VARIABLES
    shown,   \* the page's filter and events; whether the feed is settled and covers the view
    pick,    \* selectedEventId, chooser, pendingReturn, and whether the visitor did anything since
    canvas   \* the renderer's source, the cluster asked about, the last click on the map

previewVars == <<shown, pick, canvas>>

Pins == UNION {Candidates(s) : s \in Searches}

\* A list to choose from: its events, and whether the map, a cluster of it or the button opened it.
Choosers == [ids : (SUBSET Pins) \ {{}}, trigger : {"map", "cluster", "viewport"}]

\* readMapReturn: what a history entry keeps
Entries == [search : Searches, selected : Pins \cup {None}, chooser : {None} \cup {c \in Choosers : c.trigger # "cluster"}]

PreviewInit ==
    /\ \E s \in Searches : shown = [search |-> s, events |-> {}, settled |-> FALSE, covers |-> FALSE]
    /\ pick = [selected |-> None, chooser |-> None, back |-> None, touched |-> FALSE]
    /\ canvas = [source |-> {}, cluster |-> None, click |-> "none"]

-----------------------------------------------------------------------------
(* LivingMapPage takes the events of the feed over.                           *)

\* commitEvents: what is picked loses the events that are gone.
Commit(p, E) ==
    [p EXCEPT !.selected = IF @ \in E THEN @ ELSE None,
              !.chooser = IF @ = None THEN None
                          ELSE LET ids == @.ids \cap E IN
                               IF ids # {} /\ (@.trigger = "viewport" \/ Cardinality(ids) > 1)
                               THEN [@ EXCEPT !.ids = ids] ELSE None]

\* ... and what a history entry kept comes back when the feed can tell what is still there.
Restore(p, now) ==
    IF p.back = None \/ ~now.settled \/ ~now.covers THEN p
    ELSE LET ids == IF p.back.chooser = None THEN {} ELSE p.back.chooser.ids \cap now.events IN
         [p EXCEPT !.back = None,
                   !.selected = IF p.back.selected \in now.events THEN p.back.selected ELSE None,
                   !.chooser = IF ids = {} THEN None ELSE [p.back.chooser EXCEPT !.ids = ids]]

\* Other events: clusters of the old ones are nobody's business any more.
Outdated(c) == IF c = None THEN None ELSE [c EXCEPT !.current = FALSE]
Source(now) == IF now.events = shown.events THEN canvas ELSE [canvas EXCEPT !.cluster = Outdated(@)]

FeedChanges ==
    \E E \in SUBSET Candidates(shown.search), settled, covers \in BOOLEAN :
      LET now == [shown EXCEPT !.events = E, !.settled = settled, !.covers = covers] IN
      /\ now # shown
      /\ shown' = now
      /\ pick' = Restore(Commit(pick, E), now)
      /\ canvas' = Source(now)

\* Another filter: no events until it has answered; nothing is restored for the old one.
Emptied(s) == [search |-> s, events |-> {}, settled |-> FALSE, covers |-> FALSE]
ChangeSearch ==
    \E s \in Searches \ {shown.search} :
      /\ shown' = Emptied(s)
      /\ pick' = [Commit(pick, {}) EXCEPT !.back = None, !.touched = TRUE]
      /\ canvas' = Source(Emptied(s))

\* Back or forward to an entry: its camera at once, its picks when the feed has settled.
GoBack ==
    \E e \in Entries :
      LET now == IF e.search = shown.search THEN [shown EXCEPT !.covers = FALSE] ELSE Emptied(e.search) IN
      /\ shown' = now
      /\ pick' = [selected |-> None, chooser |-> None, back |-> e, touched |-> FALSE]
      /\ canvas' = Source(now)

\* createEventSourceUpdates: the newest events replace the source when it has finished loading.
SourceCatchesUp ==
    /\ canvas.source # shown.events
    /\ canvas' = [canvas EXCEPT !.source = shown.events,
                                !.cluster = IF @ = None THEN None ELSE [@ EXCEPT !.moved = TRUE]]
    /\ UNCHANGED <<shown, pick>>

-----------------------------------------------------------------------------
(* Clicks on the map.                                                         *)

\* handleSelectEvent
Select(id) ==
    pick' = [selected |-> IF id \in shown.events THEN id ELSE None, chooser |-> None, back |-> None, touched |-> TRUE]

\* handleChooseEvents: of the events that are still there, one is selected and more are listed.
Choose(ids, trigger) ==
    LET there == ids \cap shown.events IN
    pick' = [selected |-> IF Cardinality(there) = 1 THEN CHOOSE id \in there : TRUE ELSE None,
             chooser |-> IF Cardinality(there) > 1 THEN [ids |-> there, trigger |-> trigger] ELSE None,
             back |-> None, touched |-> TRUE]

\* ClusterInteractionGuard.begin: whatever was asked about a cluster before is out of date.
Clicked(kind) == [canvas EXCEPT !.cluster = Outdated(@), !.click = kind]

\* Markers under the finger; the renderer may still draw events that are gone.
ClickPins ==
    /\ \E hits \in (SUBSET canvas.source) \ {{}} :
         LET valid == hits \cap shown.events IN
         \/ Cardinality(valid) = 1 /\ \E id \in valid : Select(id)
         \/ Cardinality(valid) > 1 /\ Choose(valid, "map")
         \/ valid = {} /\ Select(None)
    /\ canvas' = Clicked("pins")
    /\ UNCHANGED shown

ClickNothing ==
    /\ Select(None)
    /\ canvas' = Clicked("pins")
    /\ UNCHANGED shown

\* A cluster: the selection goes, and the renderer's worker is asked.
ClickCluster ==
    /\ \E ids \in SUBSET canvas.source :
         /\ Cardinality(ids) > 1
         /\ canvas' = [canvas EXCEPT !.cluster = [ids |-> ids, current |-> TRUE, moved |-> FALSE], !.click = "cluster"]
    /\ Select(None)
    /\ UNCHANGED shown

\* getCompleteClusterEventIds: as many leaves as the cluster said, or an error.
\* The source may have been replaced since: then the answer is about another cluster.
Leaves(c) == IF ~c.moved THEN {c.ids}
             ELSE {ids \in SUBSET canvas.source : Cardinality(ids) = Cardinality(c.ids)}

\* Mutant: an answer about a cluster is current while the events are.
CurrentAnyway(c) == TRUE

\* Out of date: nothing comes of it.
IsCurrent(c) == c.current

ClusterLists ==
    /\ canvas.cluster # None
    /\ canvas' = [canvas EXCEPT !.cluster = None]
    /\ IF IsCurrent(canvas.cluster)
       THEN \E ids \in Leaves(canvas.cluster) :
              /\ Cardinality(ids) <= Cardinality(shown.events)
              /\ Choose(ids, "cluster")
       ELSE UNCHANGED pick
    /\ UNCHANGED shown

\* ... or it opens when the map comes closer, or cannot be read.
ClusterOpensOrFails ==
    /\ canvas.cluster # None
    /\ canvas' = [canvas EXCEPT !.cluster = None]
    /\ UNCHANGED pick
    /\ \E covers \in BOOLEAN : shown' = [shown EXCEPT !.covers = covers /\ @]

\* Dragging or zooming
Gesture ==
    /\ canvas' = [canvas EXCEPT !.cluster = Outdated(@)]
    /\ \E covers \in BOOLEAN : shown' = [shown EXCEPT !.covers = covers /\ @]
    /\ UNCHANGED pick

-----------------------------------------------------------------------------
(* The page's own controls.                                                   *)

ChooserPick ==
    /\ pick.chooser # None
    /\ \E id \in pick.chooser.ids : pick' = [pick EXCEPT !.selected = IF id \in shown.events THEN id ELSE None]
    /\ UNCHANGED <<shown, canvas>>

BackToChooser ==
    /\ pick.selected # None /\ pick.chooser # None
    /\ pick' = [pick EXCEPT !.selected = None]
    /\ UNCHANGED <<shown, canvas>>

ClosePreview ==
    /\ pick.selected # None \/ pick.chooser # None
    /\ pick' = [selected |-> None, chooser |-> None, back |-> None, touched |-> TRUE]
    /\ UNCHANGED <<shown, canvas>>

\* "Events in view"
OpenInView ==
    /\ \E ids \in (SUBSET shown.events) \ {{}} :
         pick' = [selected |-> None, chooser |-> [ids |-> ids, trigger |-> "viewport"], back |-> None, touched |-> TRUE]
    /\ UNCHANGED <<shown, canvas>>

\* The map could not start: another one, of the same events.
RetryMap ==
    /\ pick' = [pick EXCEPT !.selected = None, !.chooser = None]
    /\ shown' = [shown EXCEPT !.covers = FALSE]
    /\ canvas' = [source |-> {}, cluster |-> None, click |-> "none"]

MapPreviewNext ==
    \/ FeedChanges \/ ChangeSearch \/ GoBack \/ SourceCatchesUp
    \/ ClickPins \/ ClickNothing \/ ClickCluster \/ ClusterLists \/ ClusterOpensOrFails \/ Gesture
    \/ ChooserPick \/ BackToChooser \/ ClosePreview \/ OpenInView \/ RetryMap

MapPreviewSpec == PreviewInit /\ [][MapPreviewNext]_previewVars

-----------------------------------------------------------------------------
(* The page never offers an event the feed does not have: neither one that    *)
(* went while it was picked, nor one a late cluster or a history entry names. *)
OffersWhatIsThere ==
    /\ pick.selected \in shown.events \cup {None}
    /\ pick.chooser # None => pick.chooser.ids # {} /\ pick.chooser.ids \subseteq shown.events

(* The last click on the map decides: a cluster that answers late does not    *)
(* open its list over what was clicked since.                                 *)
LastClickDecides ==
    pick.chooser # None /\ pick.chooser.trigger = "cluster" => canvas.click = "cluster"

(* What an entry kept comes back only to a visitor who has not picked, closed *)
(* or filtered anything since, and only under its own filter.                 *)
RestoresUntouched ==
    pick.back # None => ~pick.touched /\ pick.back.search = shown.search

(* What the map promises of what is picked.                                   *)
MapPreviewInvariant == OffersWhatIsThere /\ LastClickDecides /\ RestoresUntouched

=============================================================================
