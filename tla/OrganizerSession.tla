-------------------------- MODULE OrganizerSession --------------------------
(***************************************************************************)
(* The organizer's sign-in, shared by the browser's tabs: one stored          *)
(* session, one cross-tab lock for whoever changes it, notifications that     *)
(* come later, and in each tab a provider that reads the session again, a     *)
(* cache of private data, requests under way, and a sign-out that must not    *)
(* remove any session but the one the organizer saw.                          *)
(***************************************************************************)
EXTENDS Common, Sequences

CONSTANTS
    SiteTabs,
    Users,
    MaxTokens,  \* sessions and refreshed tokens ever issued
    MaxNews     \* notifications a tab has not seen yet

ASSUME SessionAssumption ==
    /\ {MaxTokens, MaxNews} \subseteq Nat
    /\ None \notin SiteTabs /\ None \notin [user : Users, token : Nat]

VARIABLES
    stored,     \* the session in the local storage, None or [user, token]
    issued,     \* tokens issued so far
    lock,       \* the tab whose sign-out holds the lock
    news,       \* notifications under way to a tab
    observed,   \* the user a tab was last notified of
    read,       \* the provider's latest read: none, asked, or what it got
    shown,      \* the provider's state
    cache,      \* users whose private data the tab caches
    request,    \* a request for private data
    leaving     \* the sign-out of a tab

sessionVars == <<stored, issued, lock, news, observed, read, shown, cache, request, leaving>>

NoRead    == [stage |-> "none", session |-> None]
Asked     == [stage |-> "asked", session |-> None]
NoAsk     == [stage |-> "none", user |-> None, current |-> FALSE]
Staying   == [stage |-> "none", expected |-> None, dispatch |-> FALSE, lifetime |-> FALSE, told |-> "none"]
Loading   == [status |-> "loading", session |-> None]

SessionInit ==
    /\ stored = None /\ issued = 0 /\ lock = None
    /\ news = [t \in SiteTabs |-> <<>>] /\ observed = [t \in SiteTabs |-> None]
    /\ read = [t \in SiteTabs |-> Asked] /\ shown = [t \in SiteTabs |-> Loading]
    /\ cache = [t \in SiteTabs |-> {}]
    /\ request = [t \in SiteTabs |-> NoAsk] /\ leaving = [t \in SiteTabs |-> Staying]

UserOf(session) == IF session = None THEN None ELSE session.user

-----------------------------------------------------------------------------
(* identityLifetime: what a tab began under another identity is void.  The     *)
(* generations are only ever compared with what was captured, so the captures  *)
(* say whether they still hold.                                                *)

Voided(ask)     == [ask EXCEPT !.current = FALSE]
Undispatched(l) == [l EXCEPT !.dispatch = FALSE]

\* Everyone is told, the writer's own tab too.
Announce(session) == news' = [t \in SiteTabs |-> Append(news[t], session)]
Quiet == \A t \in SiteTabs : Len(news[t]) < MaxNews

-----------------------------------------------------------------------------
(* Whoever changes the stored session holds the lock. *)

\* passwordAuthTransition
SignIn(u) ==
    /\ Quiet /\ lock = None /\ issued < MaxTokens
    /\ stored' = [user |-> u, token |-> issued + 1] /\ issued' = issued + 1
    /\ Announce(stored')
    /\ UNCHANGED <<lock, observed, read, shown, cache, request, leaving>>

\* The SDK refreshes the tokens.
RefreshTokens ==
    /\ Quiet /\ lock = None /\ issued < MaxTokens /\ stored # None
    /\ stored' = [stored EXCEPT !.token = issued + 1] /\ issued' = issued + 1
    /\ Announce(stored')
    /\ UNCHANGED <<lock, observed, read, shown, cache, request, leaving>>

-----------------------------------------------------------------------------
(* SessionProvider *)

\* reconcileSession: a newer read supersedes the one under way.
ReadAgain(t) == Asked

\* observeIdentity, on a notification
Observe(t) ==
    /\ news[t] # <<>> /\ shown[t].status # "unavailable"
    /\ LET session == Head(news[t]) IN
       /\ news' = [news EXCEPT ![t] = Tail(@)]
       /\ observed' = [observed EXCEPT ![t] = session]
       /\ read' = [read EXCEPT ![t] = ReadAgain(t)]
       /\ request' = [request EXCEPT ![t] =
             IF UserOf(session) # UserOf(observed[t]) THEN Voided(@) ELSE @]
       /\ leaving' = [leaving EXCEPT ![t] =
             LET l == IF UserOf(session) # UserOf(observed[t]) THEN Undispatched(@) ELSE @ IN
             IF session # None /\ session # observed[t] THEN [l EXCEPT !.lifetime = FALSE] ELSE l]
    /\ UNCHANGED <<stored, issued, lock, shown, cache>>

GetSession(t) ==
    /\ read[t].stage = "asked"
    /\ read' = [read EXCEPT ![t] = [stage |-> "got", session |-> stored]]
    /\ UNCHANGED <<stored, issued, lock, news, observed, shown, cache, request, leaving>>

\* evictPrivateIdentityQueries, when the identity in use changes
Evicted(t, session) == IF UserOf(session) # UserOf(shown[t].session) THEN {} ELSE cache[t]

\* applySession
Apply(t) ==
    /\ read[t].stage = "got"
    /\ LET session == read[t].session
           other == UserOf(session) # UserOf(shown[t].session) \/ UserOf(session) # UserOf(observed[t]) IN
       /\ shown' = [shown EXCEPT ![t] =
             [status |-> IF session = None THEN "anonymous" ELSE "authenticated", session |-> session]]
       /\ observed' = [observed EXCEPT ![t] = session]
       /\ cache' = [cache EXCEPT ![t] = Evicted(t, session)]
       /\ request' = [request EXCEPT ![t] = IF other THEN Voided(@) ELSE @]
       /\ leaving' = [leaving EXCEPT ![t] =
             LET l == IF other THEN Undispatched(@) ELSE @ IN
             IF session # None /\ session # observed[t] THEN [l EXCEPT !.lifetime = FALSE] ELSE l]
    /\ read' = [read EXCEPT ![t] = NoRead]
    /\ UNCHANGED <<stored, issued, lock, news>>

\* The session cannot be read: the application stops until it is reloaded.
Unavailable(t) ==
    /\ read[t].stage = "asked"
    /\ shown' = [shown EXCEPT ![t] = [status |-> "unavailable", session |-> None]]
    /\ read' = [read EXCEPT ![t] = NoRead]
    /\ cache' = [cache EXCEPT ![t] = {}]
    /\ request' = [request EXCEPT ![t] = Voided(@)]
    /\ leaving' = [leaving EXCEPT ![t] = Undispatched(@)]
    /\ UNCHANGED <<stored, issued, lock, news, observed>>

\* The tab is loaded anew; a lock it held is released.
Reload(t) ==
    /\ shown[t].status # "loading"
    /\ lock' = IF lock = t THEN None ELSE lock
    /\ news' = [news EXCEPT ![t] = <<>>]
    /\ observed' = [observed EXCEPT ![t] = None]
    /\ read' = [read EXCEPT ![t] = Asked] /\ shown' = [shown EXCEPT ![t] = Loading]
    /\ cache' = [cache EXCEPT ![t] = {}]
    /\ request' = [request EXCEPT ![t] = NoAsk] /\ leaving' = [leaving EXCEPT ![t] = Staying]
    /\ UNCHANGED <<stored, issued>>

-----------------------------------------------------------------------------
(* Requests for private data *)

\* A page asks for what belongs to the user it shows.
AskPrivate(t) ==
    /\ shown[t].status = "authenticated" /\ leaving[t].stage = "none"
    /\ request[t].stage = "none"
    /\ request' = [request EXCEPT ![t] = [stage |-> "asked", user |-> shown[t].session.user, current |-> TRUE]]
    /\ UNCHANGED <<stored, issued, lock, news, observed, read, shown, cache, leaving>>

\* invokePaymentFunction, withIsolatedClient: the stored session must be this
\* user's, and its token is pinned to the request.
Pin(t) ==
    /\ request[t].stage = "asked"
    /\ request' = [request EXCEPT ![t] =
          IF UserOf(stored) = request[t].user /\ request[t].current THEN [@ EXCEPT !.stage = "sent"] ELSE NoAsk]
    /\ UNCHANGED <<stored, issued, lock, news, observed, read, shown, cache, leaving>>

\* A late answer is dropped when the identity has changed meanwhile.
Answer(t) ==
    /\ request[t].stage = "sent"
    /\ cache' = [cache EXCEPT ![t] = IF request[t].current THEN @ \cup {request[t].user} ELSE @]
    /\ request' = [request EXCEPT ![t] = NoAsk]
    /\ UNCHANGED <<stored, issued, lock, news, observed, read, shown, leaving>>

-----------------------------------------------------------------------------
(* SignOutProvider, signOutExpectedSession *)

Tell(t, what) == leaving' = [leaving EXCEPT ![t] = [Staying EXCEPT !.told = what]]

SignOut(t) ==
    /\ shown[t].status = "authenticated" /\ leaving[t].stage = "none"
    /\ leaving' = [leaving EXCEPT ![t] =
          [stage |-> "locking", expected |-> shown[t].session, dispatch |-> TRUE, lifetime |-> TRUE, told |-> "none"]]
    /\ cache' = [cache EXCEPT ![t] = {}]
    /\ request' = [request EXCEPT ![t] = Voided(@)]
    /\ UNCHANGED <<stored, issued, lock, news, observed, read, shown>>

\* The lock is waited for at most so long.
LockTimesOut(t) ==
    /\ leaving[t].stage = "locking"
    /\ Tell(t, "failed")
    /\ UNCHANGED <<stored, issued, lock, news, observed, read, shown, cache, request>>

\* Mutant: the same user is the same session.
SameSessionByUser(t) == UserOf(stored) = leaving[t].expected.user

SameSession(t) == leaving[t].dispatch /\ stored = leaving[t].expected

\* Under the lock: only the very session that was shown when it was pressed.
Lock(t) ==
    /\ leaving[t].stage = "locking" /\ lock = None
    /\ IF SameSession(t)
       THEN lock' = t /\ leaving' = [leaving EXCEPT ![t].stage = "removing"]
       ELSE Tell(t, "changed") /\ UNCHANGED lock
    /\ UNCHANGED <<stored, issued, news, observed, read, shown, cache, request>>

\* The SDK removes it, or fails to.
Remove(t) ==
    /\ leaving[t].stage = "removing"
    /\ lock' = None
    /\ \/ /\ Quiet /\ stored' = None /\ Announce(None)
          /\ IF leaving[t].lifetime THEN leaving' = [leaving EXCEPT ![t].stage = "confirming"]
             ELSE Tell(t, "none")
       \/ Tell(t, "failed") /\ UNCHANGED <<stored, news>>
    /\ UNCHANGED <<issued, observed, read, shown, cache, request>>

\* reconcileAnonymousSession: the provider reads once more ...
Confirm(t) ==
    /\ leaving[t].stage = "confirming"
    /\ leaving' = [leaving EXCEPT ![t].stage = "confirmed"]
    /\ read' = [read EXCEPT ![t] = ReadAgain(t)]
    /\ UNCHANGED <<stored, issued, lock, news, observed, shown, cache, request>>

\* ... and only what it found then says that one is signed out.
SignedOut(t) ==
    /\ leaving[t].stage = "confirmed" /\ read[t].stage = "none"
    /\ Tell(t, IF leaving[t].lifetime /\ shown[t].status = "anonymous" THEN "out" ELSE "none")
    /\ UNCHANGED <<stored, issued, lock, news, observed, read, shown, cache, request>>

OrganizerSessionNext ==
    \/ \E u \in Users : SignIn(u)
    \/ RefreshTokens
    \/ \E t \in SiteTabs :
          \/ Observe(t) \/ GetSession(t) \/ Apply(t) \/ Unavailable(t) \/ Reload(t)
          \/ AskPrivate(t) \/ Pin(t) \/ Answer(t)
          \/ SignOut(t) \/ LockTimesOut(t) \/ Lock(t) \/ Remove(t) \/ Confirm(t) \/ SignedOut(t)

OrganizerSessionSpec == SessionInit /\ [][OrganizerSessionNext]_sessionVars

-----------------------------------------------------------------------------
(* Properties *)

\* A sign-out removes the very session its organizer saw when pressing it: not
\* one another tab signed in with, nor a refreshed one, in whatever order the
\* tabs are told.
OnlyTheExpectedIsRemoved ==
    [][stored # None /\ stored' = None =>
          \E t \in SiteTabs : leaving[t].stage = "removing" /\ leaving[t].expected = stored]_sessionVars

\* A tab that has been told everything and has nothing to read shows whom the
\* storage has, whatever was read and superseded before.
QuietTabIsCurrent ==
    \A t \in SiteTabs :
        news[t] = <<>> /\ read[t].stage = "none" /\ shown[t].status # "unavailable"
        => shown[t].session = stored

\* The private data in a tab belongs to the user it shows: late answers and
\* changes of identity, there and back, notwithstanding.
PrivateDataIsOwn ==
    \A t \in SiteTabs : cache[t] \subseteq {UserOf(shown[t].session)}

\* "You have signed out" is said only when the tab found itself signed out.
NoticeIsTrue ==
    [][\A t \in SiteTabs : leaving'[t].told = "out" /\ leaving[t].told # "out"
          => shown'[t].status = "anonymous"]_sessionVars

\* What a tab believes and shows, and what its sign-out removes and says.
SessionPromise ==
    [](QuietTabIsCurrent /\ PrivateDataIsOwn) /\ OnlyTheExpectedIsRemoved /\ NoticeIsTrue

=============================================================================
