----------------------------- MODULE PublicMap -----------------------------
(***************************************************************************)
(* Where the public map gets its events: usePublicMapEvents asks for an area  *)
(* a little larger than the one in view, keeps the last complete snapshots    *)
(* for a minute, drops answers nobody waits for, and says "No events found in *)
(* this area" only when a complete snapshot that is still good shows it.      *)
(***************************************************************************)
EXTENDS Common, Sequences, SequencesExt

CONSTANTS
    MapEvents,     \* events there may be
    CellOf(_),     \* where an event is
    PassesOf(_),   \* the filters it passes
    Areas,         \* what the viewport may show: sets of cells
    Padded(_),     \* the cells asked for to show an area
    Sieves,        \* filters
    Fresh,         \* ticks a snapshot may be used (a minute)
    MaxPublished   \* changes of what is public

ASSUME PublicMapAssumption ==
    /\ \A a \in Areas : a # {} /\ a \subseteq Padded(a)
    /\ Fresh \in Nat \ {0} /\ MaxPublished \in Nat

VARIABLES
    world,   \* the events that are public, those over, and since when each area was last empty
    feed,    \* the hook's result, and the inventory the page took from it
    reader   \* the hook's effect: what is asked for, its cache, its request, its timer

publicMapVars == <<world, feed, reader>>

-----------------------------------------------------------------------------
(* The server: get_public_filtered_map_events answers with the public events  *)
(* of an area that pass the filters; PostgREST may have cut the rows short.   *)

Matching(E, cells, sieve) == {e \in E : CellOf(e) \in cells /\ sieve \in PassesOf(e)}

\* For every filter and area: ticks since no event of it was public there.
Ages(E, old) == [k \in Sieves \X Areas |-> IF Matching(E, k[2], k[1]) = {} THEN 0 ELSE old[k]]

Answers ==
    {[events |-> Matching(world.public, Padded(reader.view), reader.sieve), whole |-> TRUE]}
    \cup {[events |-> E, whole |-> FALSE] : E \in {Matching(world.public, Padded(reader.view), reader.sieve) \ {e} : e \in world.public}}

-----------------------------------------------------------------------------
(* The result.  "bumped" results are taken over by the page; events that are  *)
(* the same events are not.                                                   *)

EmptyResult(sieve, pending) ==
    [events |-> {}, pending |-> pending, error |-> FALSE, complete |-> None, sieve |-> sieve,
     bounds |-> {}, good |-> FALSE]

\* LivingMapPage takes the events of a result with a higher generation.
Take(result, bumped) ==
    feed' = [result |-> result, inventory |-> IF bumped THEN result.events ELSE feed.inventory]

Unexpired(E) == E \ world.over
Covers(outer, inner) == inner \subseteq outer

\* hasFreshViewportCoverage, and the page's message
HasFreshCoverage ==
    LET r == feed.result IN
    /\ r.sieve = reader.sieve /\ r.good /\ r.complete = TRUE /\ ~r.pending /\ ~r.error
    /\ reader.view # None /\ Covers(r.bounds, reader.view)

ShowsEmptyArea ==
    /\ HasFreshCoverage
    /\ {e \in feed.inventory : CellOf(e) \in reader.view} = {}

\* The timer: ticks until the next read, or the 300 ms after a move.
Settling == 0

PublicMapInit ==
    /\ \E E \in SUBSET MapEvents :
         world = [public |-> E, over |-> {}, news |-> 0,
                  empty |-> Ages(E, [k \in Sieves \X Areas |-> Fresh])]
    /\ \E s \in Sieves :
         /\ feed = [result |-> EmptyResult(s, FALSE), inventory |-> {}]
         /\ reader = [view |-> None, sieve |-> s, active |-> TRUE, cache |-> <<>>, request |-> None, wait |-> None]

-----------------------------------------------------------------------------
(* The effect.                                                                *)

\* A contradiction drops the whole of an older snapshot, instead of guessing what was removed.
Agrees(old, bounds, E) ==
    /\ \A e \in old.events : e \in E \/ CellOf(e) \notin bounds
    /\ \A e \in E : CellOf(e) \in old.bounds => e \in old.events

\* run: what is shown is no longer good; unless it follows a move, the cache goes too.
\* The answer is as old as the question.
Runs(r, retain) ==
    {[r EXCEPT !.cache = IF retain THEN @ ELSE <<>>, !.wait = None,
               !.request = [bounds |-> Padded(r.view), left |-> Fresh, answer |-> a]] : a \in Answers}
Running(result) == [result EXCEPT !.pending = TRUE, !.error = FALSE, !.good = FALSE]

\* A hidden page does not read; what it shows is no longer good.
WithdrawProof(result) == [result EXCEPT !.good = FALSE]

Run(retain) ==
    /\ reader' \in Runs(reader, retain)
    /\ Take(Running(feed.result), FALSE)

\* The effect starts anew: the old request is aborted, the old timer gone.
\* A snapshot that covers the view is shown at once, else the view is asked for when it has settled.
Snapshot(r) == {i \in DOMAIN r.cache : r.cache[i].sieve = r.sieve /\ r.cache[i].left > 0 /\ Covers(r.cache[i].bounds, r.view)}

OtherFilter(result, r) ==
    IF result.sieve = r.sieve THEN result ELSE EmptyResult(r.sieve, r.view # None)

Restart(r) ==
    LET before  == OtherFilter(feed.result, r)
        reset   == feed.result.sieve # r.sieve
        kept    == IF \E i \in DOMAIN r.cache : r.cache[i].sieve # r.sieve THEN <<>> ELSE r.cache
        stopped == [r EXCEPT !.request = None, !.wait = None]
        there   == Snapshot([r EXCEPT !.cache = kept])
    IN IF ~r.active \/ r.view = None THEN reader' = stopped /\ Take(before, reset)
       ELSE IF there = {}
       THEN /\ reader' = [stopped EXCEPT !.cache = kept, !.wait = Settling]
            /\ Take([before EXCEPT !.good = FALSE], reset)
       ELSE LET i == CHOOSE j \in there : \A k \in there : j <= k
                s == kept[i]
                E == Unexpired(s.events)
            IN /\ reader' = [stopped EXCEPT !.cache = <<s>> \o RemoveAt(kept, i), !.wait = s.left]
               /\ Take([before EXCEPT !.events = E, !.pending = FALSE, !.error = FALSE, !.complete = TRUE,
                                      !.sieve = r.sieve, !.bounds = s.bounds, !.good = TRUE],
                       reset \/ E # before.events)

\* The map moved, or was ready for the first time.
MoveTo ==
    /\ \E a \in Areas \ {reader.view} : Restart([reader EXCEPT !.view = a])
    /\ UNCHANGED world

ChangeSieve ==
    /\ \E s \in Sieves \ {reader.sieve} : Restart([reader EXCEPT !.sieve = s])
    /\ UNCHANGED world

\* The list takes the map's place, or gives it back.
Switch ==
    /\ Restart([reader EXCEPT !.active = ~@])
    /\ UNCHANGED world

\* 300 ms without a move; a page hidden by now reads a minute later.
RestsOnArea ==
    /\ reader.wait = Settling
    /\ \/ Run(TRUE)
       \/ reader' = [reader EXCEPT !.wait = Fresh] /\ Take(WithdrawProof(feed.result), FALSE)
    /\ UNCHANGED world

\* The window comes to the front, or the visitor tries again.
RunAgain ==
    /\ reader.active /\ reader.view # None /\ reader.request = None
    /\ Run(FALSE)
    /\ UNCHANGED world

\* An answer: only a complete one is kept, with one older one it does not contradict.
Kept(cache, bounds, E) ==
    LET good == SelectSeq(cache, LAMBDA s : s.left > 0 /\ Agrees(s, bounds, E))
    IN SubSeq(good, 1, IF good = <<>> THEN 0 ELSE 1)

Receive ==
    /\ reader.request # None
    /\ LET q == reader.request
           E == Unexpired(q.answer.events)
           old == Kept(reader.cache, q.bounds, E)
           snapshot == [bounds |-> q.bounds, sieve |-> reader.sieve, left |-> q.left, events |-> E]
       IN /\ reader' = [reader EXCEPT !.request = None, !.wait = q.left,
                                      !.cache = IF q.answer.whole THEN <<snapshot>> \o old ELSE <<>>]
          /\ Take([events |-> E, pending |-> FALSE, error |-> FALSE, complete |-> q.answer.whole,
                   sieve |-> reader.sieve, bounds |-> q.bounds, good |-> q.answer.whole], TRUE)
    /\ UNCHANGED world

\* A failure, or ten seconds: what is shown stays, less what is over.
ReceiveFailure ==
    /\ reader.request # None
    /\ reader' = [reader EXCEPT !.request = None, !.wait = reader.request.left, !.cache = <<>>]
    /\ LET E == Unexpired(feed.result.events) IN
       Take([feed.result EXCEPT !.events = E, !.pending = FALSE, !.error = TRUE], E # feed.result.events)
    /\ UNCHANGED world

\* The list read its first page: the map's snapshots prove nothing any more.
Invalidate ==
    /\ reader' = [reader EXCEPT !.cache = <<>>]
    /\ Take([feed.result EXCEPT !.good = FALSE], FALSE)
    /\ UNCHANGED world

-----------------------------------------------------------------------------
(* The rest.                                                                  *)

Publish ==
    /\ world.news < MaxPublished
    /\ \E e \in MapEvents \ world.over :
         LET E == IF e \in world.public THEN world.public \ {e} ELSE world.public \cup {e} IN
         world' = [world EXCEPT !.public = E, !.news = @ + 1, !.empty = Ages(E, @)]
    /\ UNCHANGED <<feed, reader>>

\* An event ends; the page has a timer for it.
EventEnds ==
    \E e \in world.public :
      LET E == world.public \ {e} IN
      /\ world' = [world EXCEPT !.public = E, !.over = @ \cup {e}, !.empty = Ages(E, @)]
      /\ Take([feed.result EXCEPT !.events = @ \ {e}], e \in feed.result.events)
      /\ UNCHANGED reader

\* Time; a snapshot's last tick starts the next read, unless the page is hidden: then it only stops being good.
\* A request ends within ten seconds, a sixth of what its answer is good for.
AgedNews(cache) == [i \in DOMAIN cache |-> [cache[i] EXCEPT !.left = IF @ = 0 THEN 0 ELSE @ - 1]]
OlderRead(r) ==
    [r EXCEPT !.cache = AgedNews(@),
              !.request = IF @ = None THEN None ELSE [@ EXCEPT !.left = @ - 1],
              !.wait = IF @ \in 1..Fresh THEN @ - 1 ELSE @]
MinutePasses ==
    /\ reader.wait # Settling
    /\ reader.request # None => reader.request.left > 1
    /\ LET E == world.public IN
       world' = [world EXCEPT !.empty = Ages(E, [k \in DOMAIN @ |-> IF @[k] = Fresh THEN Fresh ELSE @[k] + 1])]
    /\ IF reader.wait = 1
       THEN \/ reader' \in Runs(OlderRead(reader), FALSE) /\ Take(Running(feed.result), FALSE)
            \/ reader' = [OlderRead(reader) EXCEPT !.wait = Fresh] /\ Take(WithdrawProof(feed.result), FALSE)
       ELSE reader' = OlderRead(reader) /\ UNCHANGED feed

PublicMapNext ==
    \/ MoveTo \/ ChangeSieve \/ Switch \/ RestsOnArea \/ RunAgain
    \/ Receive \/ ReceiveFailure \/ Invalidate
    \/ Publish \/ EventEnds \/ MinutePasses

-----------------------------------------------------------------------------
(* "No events found in this area" is never older news than a minute: within   *)
(* that time there was a moment at which nothing public there passed the      *)
(* filters, whatever moved, failed, came late or was answered from the cache. *)
EmptyMeansEmpty ==
    reader.active /\ ShowsEmptyArea => world.empty[<<reader.sieve, reader.view>>] < Fresh

(* The events on the map are the ones the hook has, pass the filters chosen   *)
(* now, and are not over.                                                     *)
ShownAsAskedFor ==
    /\ feed.inventory = feed.result.events
    /\ \A e \in feed.inventory : reader.sieve \in PassesOf(e) /\ e \notin world.over

(* The snapshots kept are few, of one filter, and do not contradict each      *)
(* other: panning back never brings back what a newer answer left out.        *)
CacheAgrees ==
    /\ Len(reader.cache) <= 2
    /\ \A i, j \in DOMAIN reader.cache :
         /\ reader.cache[i].sieve = reader.cache[j].sieve
         /\ Agrees(reader.cache[i], reader.cache[j].bounds, reader.cache[j].events)

(* What the hook promises the map.                                            *)
PublicMapInvariant == EmptyMeansEmpty /\ ShownAsAskedFor /\ CacheAgrees

=============================================================================
