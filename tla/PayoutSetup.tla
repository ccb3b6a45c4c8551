----------------------------- MODULE PayoutSetup -----------------------------
(***************************************************************************)
(* The payments page of an organizer: it reads the account's state, opens an  *)
(* account session, and shows Stripe's embedded component, whose script and    *)
(* code are loaded on demand, may come late or not at all, and are tried again. *)
(***************************************************************************)
EXTENDS Common

CONSTANTS
    MaxMounts,    \* how often the embedded component is tried
    MaxSessions   \* account sessions opened

Mounts == 1 .. MaxMounts

VARIABLES
    setup,     \* Stripe's state of the account, as the status endpoint tells it
    journey,   \* the page
    waiting,   \* the operation under way, one at a time
    drawnSessions,
    mounts,    \* the component's attempts, in order
    script,    \* the loader: tags in the page, the pending record's waiters
    instances, \* connectInstances: which session's instance has its first secret left
    spent      \* history: how often each session's first secret was handed out

setupVars == <<setup, journey, waiting, drawnSessions, mounts, script, instances, spent>>

Alive == {"load", "script", "code", "shown", "failed"}

NoMount == [stage |-> "none", session |-> 0]

SetupInit ==
    /\ setup \in {"not_started", "pending", "ready"}
    /\ journey = [mounted |-> FALSE, status |-> "none", step |-> "overview", error |-> "none", embedded |-> 0]
    /\ waiting = "none" /\ drawnSessions = 0
    /\ mounts = [n \in Mounts |-> NoMount]
    /\ script = [tags |-> 0, pending |-> FALSE, waiters |-> {}, ready |-> FALSE]
    /\ instances = {}
    /\ spent = [s \in 1 .. MaxSessions |-> 0]

-----------------------------------------------------------------------------
(* OrganizerPaymentsJourney *)

\* Only one operation at a time (inFlight), and none while Stripe's component shows
\* except those of the component.
Free == journey.mounted /\ waiting = "none"

OpenPage ==
    /\ ~journey.mounted
    /\ journey' = [mounted |-> TRUE, status |-> "none", step |-> "overview", error |-> "none", embedded |-> 0]
    /\ waiting' = "status"
    /\ UNCHANGED <<setup, drawnSessions, mounts, script, instances, spent>>

\* Another page, or another organizer: the component goes with the page.
LeavePage ==
    /\ journey.mounted
    /\ journey' = [journey EXCEPT !.mounted = FALSE, !.embedded = 0]
    /\ waiting' = "none"
    /\ mounts' = [n \in Mounts |-> IF mounts[n].stage \in Alive
                                   THEN [mounts[n] EXCEPT !.stage = "gone"] ELSE mounts[n]]
    /\ UNCHANGED <<setup, drawnSessions, script, instances, spent>>

\* "Refresh status", and leaving Stripe's component.
Refresh ==
    /\ Free /\ journey.status # "none"
    /\ waiting' = IF journey.embedded # 0 THEN "interrupt" ELSE "status"
    /\ journey' = [journey EXCEPT !.embedded = 0, !.error = "none"]
    /\ mounts' = [n \in Mounts |-> IF mounts[n].stage \in Alive
                                   THEN [mounts[n] EXCEPT !.stage = "gone"] ELSE mounts[n]]
    /\ UNCHANGED <<setup, drawnSessions, script, instances, spent>>

StatusRead ==
    /\ waiting \in {"status", "interrupt", "recheck"}
    /\ \/ /\ journey' = [journey EXCEPT !.status = setup,
                !.step = IF waiting = "interrupt" THEN "interrupted"
                         ELSE IF waiting = "recheck" /\ setup = "not_started" THEN @ ELSE "overview"]
          /\ waiting' = IF waiting = "recheck" /\ setup = "not_started" THEN "session" ELSE "none"
       \/ journey' = [journey EXCEPT !.error = "status"] /\ waiting' = "none"
    /\ UNCHANGED <<setup, drawnSessions, mounts, script, instances, spent>>

\* openEmbeddedPanel: after an interruption the state is read again first.
OpenPanel ==
    /\ Free /\ journey.embedded = 0 /\ journey.status # "none"
    /\ waiting' = IF journey.step = "interrupted" /\ journey.status = "not_started" THEN "recheck" ELSE "session"
    /\ journey' = [journey EXCEPT !.error = "none"]
    /\ UNCHANGED <<setup, drawnSessions, mounts, script, instances, spent>>

FirstFree == {n \in Mounts : mounts[n].stage = "none" /\ \A k \in Mounts : k < n => mounts[k].stage # "none"}

\* The secret lives in the page's memory alone; the component mounts with it.
SessionOpened ==
    /\ waiting = "session"
    /\ waiting' = "none"
    /\ \/ \E n \in FirstFree :
             /\ drawnSessions < MaxSessions
             /\ drawnSessions' = drawnSessions + 1
             /\ journey' = [journey EXCEPT !.embedded = drawnSessions + 1, !.status = setup]
             /\ mounts' = [mounts EXCEPT ![n] = [stage |-> "load", session |-> drawnSessions + 1]]
       \/ /\ journey' = [journey EXCEPT !.error = "session"]
          /\ UNCHANGED <<drawnSessions, mounts>>
    /\ UNCHANGED <<setup, script, instances, spent>>

-----------------------------------------------------------------------------
(* loadConnectScript: one tag and one pair of listeners, however many wait. *)

\* Mutant: whoever waits adds a tag.
LoadPayoutsAnew(n) ==
    /\ mounts[n].stage = "load" /\ ~script.ready
    /\ mounts' = [mounts EXCEPT ![n].stage = "script"]
    /\ script' = [script EXCEPT !.waiters = @ \cup {n}, !.pending = TRUE, !.tags = @ + 1]
    /\ UNCHANGED <<setup, journey, waiting, drawnSessions, instances, spent>>

LoadPayouts(n) ==
    /\ mounts[n].stage = "load"
    /\ IF script.ready
       THEN mounts' = [mounts EXCEPT ![n].stage = "code"] /\ UNCHANGED script
       ELSE /\ mounts' = [mounts EXCEPT ![n].stage = "script"]
            /\ script' = [script EXCEPT !.waiters = @ \cup {n}, !.pending = TRUE,
                             !.tags = IF script.pending THEN @ ELSE @ + 1]
    /\ UNCHANGED <<setup, journey, waiting, drawnSessions, instances, spent>>

SettleSetup(outcome) ==
    mounts' = [n \in Mounts |-> IF n \in script.waiters /\ mounts[n].stage = "script"
                                THEN [mounts[n] EXCEPT !.stage = outcome] ELSE mounts[n]]

ScriptLoads ==
    /\ script.pending
    /\ SettleSetup("code")
    /\ script' = [script EXCEPT !.pending = FALSE, !.waiters = {}, !.ready = TRUE]
    /\ UNCHANGED <<setup, journey, waiting, drawnSessions, instances, spent>>

\* Not loaded, or loaded without its initializer: the tag is removed.
ScriptFails ==
    /\ script.pending
    /\ SettleSetup("failed")
    /\ script' = [script EXCEPT !.pending = FALSE, !.waiters = {}, !.tags = @ - 1]
    /\ UNCHANGED <<setup, journey, waiting, drawnSessions, instances, spent>>

\* A timeout ends one wait, not the loading.
WaitTimesOut(n) ==
    /\ n \in script.waiters
    /\ mounts' = [mounts EXCEPT ![n].stage = IF @ = "script" THEN "failed" ELSE @]
    /\ script' = [script EXCEPT !.waiters = @ \ {n}]
    /\ UNCHANGED <<setup, journey, waiting, drawnSessions, instances, spent>>

-----------------------------------------------------------------------------
(* ConnectEmbeddedPanel, StripeConnectEmbedded *)

\* The component's own code: it may not load either.
CodeLoads(n) ==
    /\ mounts[n].stage = "code"
    /\ mounts' = [mounts EXCEPT ![n].stage = "shown"] \/ mounts' = [mounts EXCEPT ![n].stage = "failed"]
    /\ UNCHANGED <<setup, journey, waiting, drawnSessions, script, instances, spent>>

\* "Try again": the same session, mounted once more.
Retry(n) ==
    /\ mounts[n].stage = "failed" /\ journey.embedded = mounts[n].session
    /\ \E k \in FirstFree :
          mounts' = [mounts EXCEPT ![n].stage = "gone", ![k] = [stage |-> "load", session |-> mounts[n].session]]
    /\ UNCHANGED <<setup, journey, waiting, drawnSessions, script, instances, spent>>

\* connectInstanceForSession: one instance per session, whose fetcher hands the
\* first secret out once and opens a new session ever after.  The component may
\* fail at any time.
FetchSecret(n) ==
    LET s == mounts[n].session IN
    /\ mounts[n].stage = "shown"
    /\ \/ /\ s \notin instances
          /\ instances' = instances \cup {s}
          /\ spent' = [spent EXCEPT ![s] = @ + 1]
          /\ UNCHANGED <<drawnSessions, mounts>>
       \/ /\ s \in instances /\ drawnSessions < MaxSessions
          /\ drawnSessions' = drawnSessions + 1
          /\ UNCHANGED <<instances, spent, mounts>>
       \/ /\ mounts' = [mounts EXCEPT ![n].stage = "failed"]
          /\ UNCHANGED <<drawnSessions, instances, spent>>
    /\ UNCHANGED <<setup, journey, waiting, script>>

\* onLoadError: back to the overview, and the state is read again.
ComponentFails(n) ==
    /\ mounts[n].stage = "shown" /\ waiting = "none"
    /\ mounts' = [mounts EXCEPT ![n].stage = "gone"]
    /\ journey' = [journey EXCEPT !.embedded = 0, !.error = "embedded"]
    /\ waiting' = "status"
    /\ UNCHANGED <<setup, drawnSessions, script, instances, spent>>

SetupMoves ==
    /\ setup' \in {"pending", "ready"} \ {setup}
    /\ UNCHANGED <<journey, waiting, drawnSessions, mounts, script, instances, spent>>

PayoutSetupNext ==
    \/ OpenPage \/ LeavePage \/ Refresh \/ StatusRead \/ OpenPanel \/ SessionOpened
    \/ ScriptLoads \/ ScriptFails \/ SetupMoves
    \/ \E n \in Mounts :
          LoadPayouts(n) \/ WaitTimesOut(n) \/ CodeLoads(n) \/ Retry(n) \/ FetchSecret(n) \/ ComponentFails(n)

PayoutSetupSpec == SetupInit /\ [][PayoutSetupNext]_setupVars

-----------------------------------------------------------------------------
(* Properties *)

\* However often the component is tried again, given up waiting for or left, the
\* page never has two of Stripe's scripts, and nobody waits for a script that no
\* listener is left for.
OneScript ==
    /\ script.tags <= 1
    /\ \A n \in Mounts : mounts[n].stage = "script" => n \in script.waiters /\ script.pending

\* A session's first secret, good for one use, is handed out once, though the
\* component is mounted again with the same session.
SecretIsSpentOnce == \A s \in 1 .. MaxSessions : spent[s] <= 1

\* However often the page is mounted: one script, and each secret spent once.
SetupInvariant == OneScript /\ SecretIsSpentOnce

=============================================================================
