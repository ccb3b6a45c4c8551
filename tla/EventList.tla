----------------------------- MODULE EventList -----------------------------
(***************************************************************************)
(* The public list of events: pages behind cursors, the chain of pages a      *)
(* reader has opened, and the reads that extend, replace or give it up.       *)
(* useDiscovery and server_get_public_discovery_events.                       *)
(***************************************************************************)
EXTENDS Common, Sequences

CONSTANTS
    Listings,      \* events, by id
    Starts,        \* when they may start
    Finds(_, _),   \* Finds(s, e): search s, filters and bounds together, finds event e
    ListSearches,  \* searches
    PageSize,      \* events of a page (20)
    CursorLife,    \* ticks a cursor may be used (15 minutes)
    Block,         \* ticks without requests the server asks for (a minute)
    MaxMoves       \* changes of events

ASSUME EventListAssumption ==
    /\ Listings \cup Starts \subseteq Nat
    /\ {PageSize, CursorLife, Block} \subseteq Nat \ {0}

VARIABLES
    listed,   \* when a public event that is not over starts, None for others; changes so far
    chains,   \* the query cache: a search's pages, their age, and what was listed all along
    list      \* the page: its search, its reads, what "Load more" says, the throttle

listVars == <<listed, chains, list>>

EventListInit ==
    /\ listed \in [start : [Listings -> Starts \cup {None}], moves : {0}]
    /\ chains = [s \in ListSearches |-> None]
    /\ \E s \in ListSearches :
         list = [search |-> s, reading |-> TRUE, failed |-> FALSE, append |-> None, more |-> "none", blocked |-> 0]

-----------------------------------------------------------------------------
(* The server: events in the order of their start and id, a page at a time.   *)

\* (e.starts_at, e.id) > (last_start, last_id)
After(e, cursor) ==
    \/ listed.start[e] > cursor.start
    \/ listed.start[e] = cursor.start /\ e > cursor.id

Place(e) == [start |-> listed.start[e], id |-> e]
Found(s) == {e \in Listings : listed.start[e] # None /\ Finds(s, e)}

\* The cursor names the last event of the page, if there are more.
PageOf(s, cursor) ==
    LET ahead == {e \in Found(s) : cursor # None => After(e, cursor)}
        items == {e \in ahead : Cardinality({f \in ahead : ~After(f, Place(e))}) <= PageSize}
    IN [items |-> items,
        next  |-> IF items = ahead THEN None
                  ELSE Place(CHOOSE e \in items : \A f \in items \ {e} : After(e, Place(f)))]

-----------------------------------------------------------------------------
(* The reader's query: a first page replaces the whole chain.                 *)

Chain == chains[list.search]
LastPage(pages) == pages[Len(pages)]

NewChain(s) == [pages |-> <<PageOf(s, None)>>, age |-> 0, steady |-> Found(s)]

\* Whatever was said about the chain before is not said of this one; a read under way for it is obsolete.
FirstPageArrives ==
    /\ list.reading
    /\ chains' = [chains EXCEPT ![list.search] = NewChain(list.search)]
    /\ LET restarts == list.append # None /\ list.append.phase = "restart" IN
       list' = [list EXCEPT !.reading = FALSE, !.failed = FALSE,
                            !.append = IF restarts \/ @ = None THEN None ELSE [@ EXCEPT !.current = FALSE],
                            !.more = IF restarts THEN "notice" ELSE "none"]
    /\ UNCHANGED listed

\* public-discovery refuses a read, or throttles it and says for how long.
Waits == {list.blocked, Block}

\* retry: false.  What restarted an append is over too.
FirstPageFails ==
    /\ list.reading
    /\ \E wait \in Waits :
         LET restarts == list.append # None /\ list.append.phase = "restart" IN
         list' = [list EXCEPT !.reading = FALSE, !.failed = TRUE, !.blocked = wait,
                              !.append = IF restarts THEN None ELSE @,
                              !.more = IF restarts THEN "notice" ELSE @]
    /\ UNCHANGED <<listed, chains>>

\* On focus, on reconnecting and every minute, for a chain that is stale and not being read.
Refetch ==
    /\ ~list.reading /\ list.blocked = 0
    /\ list' = [list EXCEPT !.reading = TRUE]
    /\ UNCHANGED <<listed, chains>>

\* refresh, refreshAfterMap, midnight: the append is given up and the first page read again.
Replace ==
    /\ list.blocked = 0
    /\ list' = [list EXCEPT !.reading = TRUE, !.append = None, !.more = "none"]
    /\ UNCHANGED <<listed, chains>>

\* Another search: its append is aborted, and so is its read.  A form's filters
\* are read anew, history finds what it left; the throttle stops neither.
ChangeListSearch ==
    /\ \E s \in ListSearches \ {list.search}, submitted, stale \in BOOLEAN :
         LET kept == ~submitted /\ chains[s] # None IN
         /\ chains' = [chains EXCEPT ![s] = IF kept THEN @ ELSE None]
         /\ list' = [list EXCEPT !.search = s, !.reading = kept => stale, !.failed = FALSE,
                                 !.append = None, !.more = "none"]
    /\ UNCHANGED listed

-----------------------------------------------------------------------------
(* "Load more".                                                               *)

\* loadMore keeps the chain as it was: it is what the page will be put behind.
\* An obsolete append is released first.
LoadMore ==
    /\ Chain # None /\ LastPage(Chain.pages).next # None
    /\ ~list.reading /\ list.blocked = 0
    /\ list.append # None => list.append.phase = "append" /\ ~list.append.current
    /\ list' = [list EXCEPT !.more = "loading",
                            !.append = [phase |-> "append", current |-> TRUE, chain |-> Chain]]
    /\ UNCHANGED <<listed, chains>>

\* releaseObsoleteAppend: an effect, some time after the chain was replaced.
ReleaseObsolete ==
    /\ list.append # None /\ list.append.phase = "append" /\ ~list.append.current
    /\ list' = [list EXCEPT !.append = None]
    /\ UNCHANGED <<listed, chains>>

Asking == list.append # None /\ list.append.phase = "append"
Expired == list.append.chain.age > CursorLife

\* Mutant: whichever chain there is now.
AnyChain == TRUE

\* state.data.readId is the one the request was made for.
SameChain == list.append.current

PageArrives ==
    /\ Asking /\ ~Expired
    /\ LET page == PageOf(list.search, LastPage(list.append.chain.pages).next) IN
       IF SameChain
       THEN /\ chains' = [chains EXCEPT ![list.search].pages = Append(list.append.chain.pages, page)]
            /\ list' = [list EXCEPT !.append = None, !.more = "none"]
       ELSE /\ list' = [list EXCEPT !.append = None]
            /\ UNCHANGED chains
    /\ UNCHANGED listed

\* DISCOVERY_CURSOR_EXPIRED: the append becomes the owner of a new first page.
CursorExpired ==
    /\ Asking /\ Expired
    /\ list' = [list EXCEPT !.append.phase = "restart", !.reading = TRUE]
    /\ UNCHANGED <<listed, chains>>

\* Told of the chain it was asked for, an error says nothing about another one.
PageFails ==
    /\ Asking
    /\ \E wait \in Waits :
         list' = [list EXCEPT !.append = None, !.blocked = wait,
                              !.more = IF SameChain THEN "error" ELSE @]
    /\ UNCHANGED <<listed, chains>>

-----------------------------------------------------------------------------
(* What others do meanwhile.                                                  *)

\* An event is published, withdrawn, over, or starts at another time.
EventMoves ==
    /\ listed.moves < MaxMoves
    /\ \E e \in Listings, t \in Starts \cup {None} :
         /\ t # listed.start[e]
         /\ listed' = [listed EXCEPT !.start[e] = t, !.moves = @ + 1]
         /\ chains' = [s \in ListSearches |->
                IF chains[s] = None THEN None ELSE [chains[s] EXCEPT !.steady = @ \ {e}]]
         /\ list' = [list EXCEPT !.append = IF @ = None THEN None ELSE [@ EXCEPT !.chain.steady = @ \ {e}]]

AgedChain(c) == IF c = None THEN None ELSE [c EXCEPT !.age = IF @ > CursorLife THEN @ ELSE @ + 1]
ListTick ==
    /\ chains' = [s \in ListSearches |-> AgedChain(chains[s])]
    /\ list' = [list EXCEPT !.append = IF @ = None THEN None ELSE [@ EXCEPT !.chain = AgedChain(@)],
                            !.blocked = IF @ = 0 THEN 0 ELSE @ - 1]
    /\ UNCHANGED listed

EventListNext ==
    \/ FirstPageArrives \/ FirstPageFails \/ Refetch \/ Replace \/ ChangeListSearch
    \/ LoadMore \/ ReleaseObsolete \/ PageArrives \/ CursorExpired \/ PageFails
    \/ EventMoves \/ ListTick

-----------------------------------------------------------------------------
Items(pages) == UNION {pages[i].items : i \in DOMAIN pages}

(* Whatever is published, withdrawn or moved between two pages, an event that *)
(* stayed where it was since the first page is never skipped: it is on a page *)
(* that was read or still ahead of the last one's cursor.                     *)
NothingIsSkipped ==
    \A s \in ListSearches : chains[s] # None =>
        LET next == LastPage(chains[s].pages).next IN
        \A e \in chains[s].steady \ Items(chains[s].pages) : next # None /\ After(e, next)

(* "Loading" is never said of a chain nothing is being read for, and only one *)
(* page is: whatever aborted, replaced or outran the request.                 *)
LoadingIsReal ==
    list.more = "loading" => list.append # None /\ (list.append.phase = "append" => list.append.current)

(* "The event list was updated. Showing the first page.": when no refresh     *)
(* failed, the list does show one page.                                       *)
NoticeIsTrue ==
    list.more = "notice" /\ ~list.failed => Chain # None /\ Len(Chain.pages) = 1

(* What the list promises a reader.                                           *)
EventListInvariant == NothingIsSkipped /\ LoadingIsReal /\ NoticeIsTrue

=============================================================================
