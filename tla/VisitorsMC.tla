----------------------------- MODULE VisitorsMC -----------------------------
(* What a visitor meets: the map and the list an event is found on, the free  *)
(* registration, the tickets afterwards and the door.  They share no state:   *)
(* one run, in which every behaviour stays with one part.                     *)
EXTENDS MapIcons, PublicMap, MapPreview, EventList, TicketAccess, FreeRsvp,
        DoorAdmission

\* Two versions with an icon each.
Published == {<<"v", 1>>, <<"w", 1>>}

\* Two events, in two of three cells in a row; one is not free.
Cell(e) == IF e = "a" THEN 1 ELSE 2
Matches(e) == IF e = "a" THEN {"all"} ELSE {"all", "free"}
Vicinity(area) == {c \in 1..3 : \E d \in area : c \in {d - 1, d, d + 1}}
CandidatesOf(s) == {e \in {"a", "b"} : s \in Matches(e)}
FindsOf(s, e) == s = "all" \/ e # 2

\* An order of two tickets, a registration of one.
CountsOf == [s \in {"paid_order", "free_registration"} |-> IF s = "paid_order" THEN 2 ELSE 1]

\* What the map and the list promise of the events they show, and of their pictures.
DiscoveryPromise == MapIconsInvariant /\ PublicMapInvariant /\ EventListInvariant

VARIABLE focus   \* the part a behaviour stays with

visitorsVars == <<focus, mapIconVars, publicMapVars, previewVars, listVars,
                  accessVars, rsvpVars, doorVars>>

VisitorsInit ==
    /\ focus \in {"icons", "map", "preview", "list", "access", "rsvp", "door"}
    /\ MapIconsInit
    /\ PublicMapInit
    /\ PreviewInit
    /\ EventListInit
    /\ AccessInit
    /\ RsvpInit
    /\ DoorInit
    /\ focus # "icons" => registry.out = {}
    /\ focus # "map" => world.public = {} /\ reader.sieve = "all"
    /\ focus # "preview" => shown.search = "all"
    /\ focus # "list" => listed.start = [e \in Listings |-> None] /\ list.search = "all"

VisitorsNext ==
    /\ UNCHANGED focus
    /\ \/ focus = "icons" /\ MapIconsNext
          /\ UNCHANGED <<publicMapVars, previewVars, listVars, accessVars, rsvpVars,
                         doorVars>>
       \/ focus = "map" /\ PublicMapNext
          /\ UNCHANGED <<mapIconVars, previewVars, listVars, accessVars, rsvpVars,
                         doorVars>>
       \/ focus = "preview" /\ MapPreviewNext
          /\ UNCHANGED <<mapIconVars, publicMapVars, listVars, accessVars, rsvpVars,
                         doorVars>>
       \/ focus = "list" /\ EventListNext
          /\ UNCHANGED <<mapIconVars, publicMapVars, previewVars, accessVars,
                         rsvpVars, doorVars>>
       \/ focus = "access" /\ TicketAccessNext
          /\ UNCHANGED <<mapIconVars, publicMapVars, previewVars, listVars,
                         rsvpVars, doorVars>>
       \/ focus = "rsvp" /\ FreeRsvpNext
          /\ UNCHANGED <<mapIconVars, publicMapVars, previewVars, listVars,
                         accessVars, doorVars>>
       \/ focus = "door" /\ DoorAdmissionNext
          /\ UNCHANGED <<mapIconVars, publicMapVars, previewVars, listVars,
                         accessVars, rsvpVars>>

VisitorsSpec == VisitorsInit /\ [][VisitorsNext]_visitorsVars

=============================================================================
