------------------------------ MODULE MapIcons ------------------------------
(***************************************************************************)
(* The public map draws an event with an icon of its own in place of the      *)
(* ordinary marker.  Descriptors come from a registry under a lease; pictures *)
(* are loaded a few at a time, held in a budget and installed in a renderer   *)
(* that may be wiped or lose them.  MapIconController and its owner, the map. *)
(***************************************************************************)
EXTENDS Common, FiniteSetsExt

CONSTANTS
    Packages,     \* <<version, hash>>: what the registry may publish of a version
    Lease,        \* ticks a descriptor may be used after it was asked for (60 s)
    Margin,       \* ticks a descriptor must be good for to be kept when the map is shown again (15 s)
    Residents,    \* versions held at once (8 on a phone, 16)
    Limit,        \* pictures being loaded at once (4)
    Memory,       \* pictures held or being loaded (32 or 64 MiB)
    Tries,        \* loads of a picture that keeps failing (3)
    MaxChanges    \* changes of the registry

ASSUME MapIconsAssumption == 
    /\ {Lease, Residents, Limit, Memory, Tries} \subseteq Nat \ {0}
    /\ {Margin, MaxChanges} \subseteq Nat

VARIABLES
    registry,  \* packages published; for how many ticks each has not been; changes so far
    manifest,  \* the descriptors the page has, their lease, the request under way
    icons      \* the controller and what the renderer holds for it

mapIconVars == <<registry, manifest, icons>>

Versions == {p[1] : p \in Packages}

-----------------------------------------------------------------------------
(* The controller's parts.  A version has one entry at a time.                *)

NoIcon == [hash |-> None]

\* A new entry: queued, without a picture, never tried, no load of its own.
NewEntry(h) == [hash |-> h, is |-> "queued", image |-> FALSE, tries |-> 0, waits |-> FALSE, loads |-> 0]

Held(c) == {v \in Versions : c.entries[v] # NoIcon}
PackageOf(c, v) == <<v, c.entries[v].hash>>
Images(c) == {v \in Held(c) : c.entries[v].image}
LoadsOf(c, V) == Cardinality({<<v, i>> \in V \X (1..Limit) : i <= c.entries[v].loads})
Own(c) == LoadsOf(c, Held(c))

\* this.active; loads nobody waits for any more still count.
Active(c) == c.stale + Own(c)

\* What the renderer draws: a layer that is visible and has its image.
Drawn(c) == c.visible \cap c.images

\* A controller on a renderer whose style has not loaded.
NewIcons == [
    entries |-> [v \in Versions |-> NoIcon], ranked |-> None, stale |-> 0, open |-> 0,
    styled |-> FALSE, enabled |-> TRUE, near |-> TRUE,
    \* what the fallback's filter leaves out, and what was last applied under the present selection
    hidden |-> {}, applied |-> None,
    \* the renderer: images, layers, the layers that are visible, and whether it lost something since
    images |-> {}, layers |-> {}, visible |-> {}, unseen |-> FALSE]

MapIconsInit ==
    /\ registry \in {[out |-> P, gone |-> [p \in Packages |-> IF p \in P THEN 0 ELSE Lease], changes |-> 0] :
                       P \in {Q \in SUBSET Packages : \A p, q \in Q : p[1] = q[1] => p = q}}
    /\ manifest = [known |-> {}, left |-> 0, asked |-> None]
    /\ icons = NewIcons

-----------------------------------------------------------------------------
(* reconcile: one synchronous pass over the entries.                          *)

\* desired: the ranking is kept until an input of it changes; which versions come first is geography.
Rankings(c) ==
    IF manifest'.left = 0 THEN {c.ranked}
    ELSE IF c.ranked # None THEN {c.ranked}
    ELSE {R \in SUBSET {p[1] : p \in manifest'.known} : Cardinality(R) <= Residents}

Desired(c) == IF manifest'.left = 0 THEN {} ELSE c.ranked

\* remove: the entry's layers, its image in the renderer, its picture; its loads go on unowned.
RemoveAll(c, V) ==
    LET P == {PackageOf(c, v) : v \in V} IN
    [c EXCEPT !.entries = [v \in Versions |-> IF v \in V THEN NoIcon ELSE @[v]],
              !.stale = @ + LoadsOf(c, V),
              !.open = @ - Cardinality(V \cap Images(c)),
              !.images = @ \ P, !.layers = @ \ P, !.visible = @ \ P,
              !.applied = IF V = {} THEN @ ELSE None]

\* Entries that are no longer wanted, or of another package, go.
Obsolete(c) == {v \in Held(c) : v \notin Desired(c) \/ PackageOf(c, v) \notin manifest'.known}
Retire(c) == RemoveAll(c, Obsolete(c))

Admit(c) ==
    [c EXCEPT !.entries = [v \in Versions |->
        IF v \in Desired(c) \ Held(c) THEN NewEntry((CHOOSE p \in manifest'.known : p[1] = v)[2]) ELSE @[v]]]

\* Installed, but the renderer no longer has all of it.
Lost(c) == {v \in Held(c) : /\ c.entries[v].is = "installed"
                            /\ PackageOf(c, v) \notin c.images \cap c.layers}
Repair(c) ==
    [c EXCEPT !.entries = [v \in Versions |-> IF v \in Lost(c) THEN [@[v] EXCEPT !.is = "decoded"] ELSE @[v]],
              !.applied = IF Lost(c) = {} THEN @ ELSE None,
              !.unseen = FALSE]

\* fail: a timer brings it back, unless it was the last try.
Failed(e) == [e EXCEPT !.is = "failed", !.waits = e.tries < Tries]

Installable(c) == {v \in Images(c) : c.enabled /\ c.entries[v].is = "decoded"}

\* install, the renderer throwing over those of bad: after the image was added, before all layers were.
Install(c, bad) ==
    LET good == {PackageOf(c, v) : v \in Installable(c) \ bad}
        all  == {PackageOf(c, v) : v \in Installable(c)} IN
    [c EXCEPT !.entries = [v \in Versions |->
                  IF v \in bad THEN Failed(@[v])
                  ELSE IF v \in Installable(c) THEN [@[v] EXCEPT !.is = "installed"] ELSE @[v]],
              !.images = @ \cup all,
              !.layers = (@ \ all) \cup good,
              !.visible = @ \ {PackageOf(c, v) : v \in bad},
              !.applied = IF all = {} THEN @ ELSE None]

\* load: within the limit and the memory, in the map's order, which may be any.
Loadable(c) ==
    {v \in Held(c) : /\ c.enabled /\ c.near
                     /\ \/ c.entries[v].is = "queued"
                        \/ c.entries[v].is = "failed" /\ c.entries[v].tries < Tries /\ ~c.entries[v].waits}

Room(c) == Min({Limit - Active(c), Memory - Cardinality(Images(c)) - Active(c)})

Picks(c) == {P \in SUBSET Loadable(c) :
               Cardinality(P) = Max({0, Min({Room(c), Cardinality(Loadable(c))})})}

\* Tries are counted no further than the limit they are held against.
Load(c, P) ==
    [c EXCEPT !.entries = [v \in Versions |->
        IF v \in P THEN [@[v] EXCEPT !.is = "loading", !.tries = Min({@ + 1, Tries}), !.waits = FALSE, !.loads = @ + 1]
        ELSE @[v]]]

Ready(c) ==
    {v \in Held(c) : /\ c.entries[v].is = "installed" /\ c.near
                     /\ PackageOf(c, v) \in c.images \cap c.layers}

\* apply: the fallback's filter and the layers' visibility change together, or neither does.
Apply(c) ==
    IF Ready(c) = c.applied THEN c
    ELSE [c EXCEPT !.hidden = Ready(c), !.applied = Ready(c),
                   !.visible = {PackageOf(c, v) : v \in Ready(c)}]

Reconciled(c) ==
    LET wanted    == UNION {{[x EXCEPT !.ranked = R] : R \in Rankings(x)} : x \in {c}}
        kept      == {Retire(x) : x \in wanted}
        admitted  == {Admit(x) : x \in kept}
        repaired  == {Repair(x) : x \in admitted}
        installed == UNION {{Install(x, bad) : bad \in SUBSET Installable(x)} : x \in repaired}
        loading   == UNION {{Load(x, P) : P \in Picks(x)} : x \in installed}
    IN IF c.styled THEN {Apply(x) : x \in loading} ELSE {c}

-----------------------------------------------------------------------------
(* What reaches the controller from the map and the page.                     *)

\* setDescriptors: a fresh lease gives failed pictures of the same package their tries back.
Rearmed(c, known) ==
    [c EXCEPT !.ranked = None,
              !.entries = [v \in Versions |->
                  IF v \in Held(c) /\ @[v].is = "failed" /\ PackageOf(c, v) \in known
                  THEN [@[v] EXCEPT !.is = "queued", !.tries = 0, !.waits = FALSE] ELSE @[v]]]

\* Refresh: unless one is under way; the answer is at least as old as the question.
AskRegistry == [known |-> registry.out, left |-> Lease]

Refresh ==
    /\ icons.enabled /\ manifest.asked = None
    /\ manifest' = [manifest EXCEPT !.asked = AskRegistry]
    /\ UNCHANGED <<registry, icons>>

\* The lease of an answer is counted from its question; an answer that failed is empty.
\* One that came too late is asked for again at once, unless the page is hidden or paused.
LeaseOf(request) == request.left
RegistryAnswers ==
    /\ manifest.asked # None
    /\ \E known \in {manifest.asked.known, {}}, hides \in BOOLEAN :
         /\ manifest' = [known |-> known, left |-> LeaseOf(manifest.asked),
                         asked |-> IF LeaseOf(manifest.asked) = 0 /\ icons.enabled /\ ~hides THEN AskRegistry ELSE None]
         /\ icons' \in Reconciled(Rearmed(icons, known))
    /\ UNCHANGED registry

\* The page pauses the map; descriptors may still be retired, nothing is loaded or installed.
PauseMap ==
    /\ icons.enabled
    /\ icons' = [icons EXCEPT !.enabled = FALSE]
    /\ UNCHANGED <<registry, manifest>>

\* ... and shows it again: descriptors still good for a while are kept, others asked for.
ResumeMap ==
    /\ ~icons.enabled
    /\ \E hides \in BOOLEAN :
         manifest' = [manifest EXCEPT !.asked = IF @ = None /\ manifest.left <= Margin /\ ~hides THEN AskRegistry ELSE @]
    /\ icons' \in Reconciled([icons EXCEPT !.enabled = TRUE])
    /\ UNCHANGED registry

\* updateEventCollection and updateEventSelection put every ordinary marker back themselves.
MarkersBack(c) == IF c.styled THEN [c EXCEPT !.hidden = {}] ELSE c

\* Other events, or another selection, which is part of the signature of what was applied.
EventsOrSelectionChange ==
    /\ UNCHANGED <<registry, manifest>>
    /\ icons' \in Reconciled([MarkersBack(icons) EXCEPT !.ranked = None, !.applied = None])

CameraMoves ==
    /\ UNCHANGED <<registry, manifest>>
    /\ \E near \in BOOLEAN, R \in {icons.ranked, None} :
         /\ near # icons.near \/ R = None
         /\ icons' \in Reconciled([icons EXCEPT !.near = near, !.ranked = R])

\* From a desktop's width to a phone's or back: layers are made anew from the pictures there are.
WidthChanges ==
    /\ UNCHANGED <<registry, manifest>>
    /\ icons' \in Reconciled(
         [icons EXCEPT !.entries = [v \in Versions |->
                           IF v \in Images(icons) THEN [@[v] EXCEPT !.is = "decoded", !.waits = FALSE] ELSE @[v]],
                       !.ranked = None, !.applied = None, !.layers = {}, !.visible = {},
                       !.hidden = IF icons.styled THEN {} ELSE @])

\* style.load of an empty style: everything in the renderer is gone, loads belong to an earlier epoch.
StyleLoads ==
    /\ UNCHANGED <<registry, manifest>>
    /\ icons' \in Reconciled(
         [icons EXCEPT !.styled = TRUE, !.applied = None, !.hidden = {}, !.images = {}, !.layers = {}, !.visible = {},
                       !.stale = @ + Own(icons),
                       !.entries = [v \in Versions |->
                           IF v \in Held(icons)
                           THEN [@[v] EXCEPT !.is = IF v \in Images(icons) THEN "decoded" ELSE "queued",
                                             !.waits = FALSE, !.loads = 0]
                           ELSE NoIcon]])

RendererLoses ==
    /\ \E p \in icons.images : icons' = [icons EXCEPT !.images = @ \ {p}, !.unseen = TRUE]
    /\ UNCHANGED <<registry, manifest>>

\* complete: a picture of the right size arrived; it takes the place of an older one.
PictureArrives ==
    /\ UNCHANGED <<registry, manifest>>
    /\ \E v \in Held(icons) :
         /\ icons.entries[v].loads > 0
         /\ icons' \in Reconciled(
              [icons EXCEPT !.entries[v].loads = @ - 1, !.entries[v].is = "decoded",
                            !.entries[v].image = TRUE, !.entries[v].waits = FALSE,
                            !.open = IF icons.entries[v].image THEN @ ELSE @ + 1])

\* An error, a picture of another size, or ten seconds without one: the request is aborted.
LoadFails ==
    /\ UNCHANGED <<registry, manifest>>
    /\ \E v \in Held(icons) :
         /\ icons.entries[v].loads > 0
         /\ icons' \in Reconciled([icons EXCEPT !.entries[v] = Failed([@ EXCEPT !.loads = @ - 1])])

\* A load of an entry or an epoch that is gone: its picture, if there is one, is closed.
StaleLoadEnds ==
    /\ UNCHANGED <<registry, manifest>>
    /\ icons.stale > 0
    /\ icons' \in Reconciled([icons EXCEPT !.stale = @ - 1])

RetryDue ==
    /\ UNCHANGED <<registry, manifest>>
    /\ \E v \in Held(icons) : /\ icons.entries[v].waits
                              /\ icons' \in Reconciled([icons EXCEPT !.entries[v].waits = FALSE])

\* The map is idle: the controller looks at the renderer.
Idle ==
    /\ UNCHANGED <<registry, manifest>>
    /\ icons' \in Reconciled(icons)

\* dispose, its loads aborted, and a new map without a manifest.
NewMap ==
    /\ icons' = [NewIcons EXCEPT !.enabled = icons.enabled,
                                 !.open = RemoveAll(icons, Held(icons)).open]
    /\ manifest' = [known |-> {}, left |-> 0, asked |-> None]
    /\ UNCHANGED registry

\* The registry publishes or revokes.
RegistryChanges ==
    /\ registry.changes < MaxChanges
    /\ \E p \in Packages :
         LET out == IF p \in registry.out THEN registry.out \ {p}
                    ELSE {q \in registry.out : q[1] # p[1]} \cup {p} IN
         registry' = [out |-> out, changes |-> registry.changes + 1,
                      gone |-> [q \in Packages |-> IF q \in out THEN 0 ELSE registry.gone[q]]]
    /\ UNCHANGED <<manifest, icons>>

\* Time: a lease that ends is noticed by its timer.
Older(n) == IF n = 0 THEN 0 ELSE n - 1
TimePasses ==
    /\ registry' = [registry EXCEPT !.gone = [p \in Packages |-> IF p \in registry.out THEN 0 ELSE Min({@[p] + 1, Lease})]]
    /\ manifest' = [manifest EXCEPT !.left = Older(@),
                                    !.asked = IF @ = None THEN None ELSE [@ EXCEPT !.left = Older(@)]]
    /\ IF manifest.left = 1 THEN icons' \in Reconciled(icons) ELSE UNCHANGED icons

MapIconsNext ==
    \/ Refresh \/ RegistryAnswers \/ PauseMap \/ ResumeMap
    \/ EventsOrSelectionChange \/ CameraMoves \/ WidthChanges
    \/ StyleLoads \/ RendererLoses
    \/ PictureArrives \/ LoadFails \/ StaleLoadEnds \/ RetryDue
    \/ Idle \/ NewMap
    \/ RegistryChanges \/ TimePasses

-----------------------------------------------------------------------------
(* An event is never without a marker and never has two: its ordinary marker  *)
(* is left out exactly while its icon is drawn, unless the renderer lost      *)
(* something the controller has not looked at yet.                            *)
OneMarker ==
    icons.unseen \/ icons.hidden = {p[1] : p \in {q \in Drawn(icons) : icons.near}}

(* An icon the registry has withdrawn is gone from the map within one lease,  *)
(* however late answers are and whether or not the map is paused.             *)
WithdrawnInTime == \A p \in Drawn(icons) : registry.gone[p] < Lease

(* Bitmaps are memory the page has to give back: those open are the ones      *)
(* entries hold, and with the ones being loaded they fit the budget.          *)
BitmapsAreAccounted ==
    /\ icons.open = Cardinality(Images(icons))
    /\ icons.open + Active(icons) <= Memory
    /\ Active(icons) <= Limit

(* Nothing of an entry that is gone stays in the renderer.                    *)
RendererIsClean ==
    icons.images \cup icons.layers \cup icons.visible \subseteq {PackageOf(icons, v) : v \in Held(icons)}

(* What the map promises of its icons.                                        *)
MapIconsInvariant == OneMarker /\ WithdrawnInTime /\ BitmapsAreAccounted /\ RendererIsClean

=============================================================================
