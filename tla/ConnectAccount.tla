--------------------------- MODULE ConnectAccount ---------------------------
(***************************************************************************)
(* An organizer's Stripe account: created once, then read again by every     *)
(* request that needs its state: the onboarding session, the status page,    *)
(* each checkout before it reserves, and the webhook.  They run side by      *)
(* side; a sequence number drawn before the account is read says whose        *)
(* reading counts.                                                           *)
(***************************************************************************)
EXTENDS Common

CONSTANTS
    Refreshers,  \* handlers of the organizer's and the buyers' requests
    Hook,        \* the handler of the webhook
    MaxBegins,   \* refresh tokens drawn
    MaxAccounts  \* accounts Stripe may come to make

Clients == Refreshers \cup {Hook}

VARIABLES
    account,    \* the row of public.organizer_stripe_accounts
    draws,      \* private.connect_refresh_sequence
    refreshing, \* the handlers
    stripe,     \* the account as Stripe has it
    made,       \* accounts made at Stripe
    remembered, \* what Stripe still answers under the idempotency key
    signals,    \* undelivered "account updated" events, as a flag
    sessions    \* history: accounts that account sessions were opened for

connectVars == <<account, draws, refreshing, stripe, made, remembered, signals, sessions>>

Waiting == [pc |-> "idle", kind |-> "none", id |-> 0, token |-> 0, read |-> None]

-----------------------------------------------------------------------------
(* deriveConnectStatus *)

\* What Stripe comes to say of the account.
Active(entries) == [transfers |-> "active", payouts |-> "active", entries |-> entries, closed |-> FALSE]
Moods ==
    {Active({[from |-> "user", due |-> "eventually_due"]}),
     Active({[from |-> "user", due |-> "past_due"]}),
     [Active({}) EXCEPT !.closed = TRUE]}

\* Rows of the table: the account's identity, the number of the reading stored
\* last, and what it read.
Accounts == [id : 1 .. MaxAccounts, token : Nat, shown : {None} \cup Moods]

ASSUME ConnectAssumption == Hook \notin Refreshers /\ None \notin Accounts

CapabilityStatus(status) == IF status = "unsupported" THEN "restricted" ELSE status

Due(raw) == {e \in raw.entries : e.due \in {"currently_due", "past_due"}}

RequirementsStatus(raw) ==
    LET due(from) == \E e \in Due(raw) : e.from = from IN
    IF "restricted" \in {CapabilityStatus(raw.transfers), CapabilityStatus(raw.payouts)} THEN "restricted"
    ELSE IF due("user") THEN "action_required"
    ELSE IF due("stripe") THEN "pending"
    ELSE IF raw.transfers = "active" /\ raw.payouts = "active" THEN "clear"
    ELSE "pending"

DeriveConnectStatus(raw) ==
    IF raw.closed THEN [transfers |-> "restricted", payouts |-> "restricted", requirements |-> "restricted"]
    ELSE [transfers |-> CapabilityStatus(raw.transfers), payouts |-> CapabilityStatus(raw.payouts),
          requirements |-> RequirementsStatus(raw)]

\* toSafeConnectStatus
SafeStatus(p) ==
    IF p.transfers = "active" /\ p.payouts = "active" /\ p.requirements = "clear" THEN "ready"
    ELSE IF p.requirements = "action_required" THEN "action_required"
    ELSE IF "restricted" \in {p.transfers, p.payouts, p.requirements} THEN "restricted"
    ELSE "pending"

\* What defaultRefreshConnect asks of the account before a checkout, and
\* server_reserve_checkout of the row: nothing may be due.
MaySell(raw) ==
    LET p == DeriveConnectStatus(raw) IN
    p.transfers = "active" /\ p.payouts = "active" /\ p.requirements = "clear" /\ Due(raw) = {}

-----------------------------------------------------------------------------

ConnectInit ==
    /\ account = None /\ draws = 0 /\ stripe \in Moods
    /\ refreshing = [c \in Clients |-> Waiting]
    /\ made = {} /\ remembered = None /\ signals = FALSE /\ sessions = {}

Continue(c, pc) == refreshing' = [refreshing EXCEPT ![c].pc = pc]
Leave(c)        == refreshing' = [refreshing EXCEPT ![c] = Waiting]

\* stripe-connect-session, stripe-connect-status (and a checkout, which reads the
\* account the same way) and stripe-express-login look for the row; only the first
\* makes an account when there is none.
FindAccount(c, kind) ==
    /\ c \in Refreshers /\ refreshing[c] = Waiting
    /\ IF account # None
       THEN refreshing' = [refreshing EXCEPT ![c] =
                [pc |-> IF kind = "login" THEN "session" ELSE "begin", kind |-> IF kind = "login" THEN "session" ELSE kind,
                 id |-> account.id, token |-> 0, read |-> None]]
       ELSE /\ kind = "session"
            /\ refreshing' = [refreshing EXCEPT ![c] = [Waiting EXCEPT !.pc = "make", !.kind = kind]]
    /\ UNCHANGED <<account, draws, stripe, made, remembered, signals, sessions>>

\* Under the organizer's idempotency key, as long as Stripe remembers it.
CreateAccount(c) ==
    /\ refreshing[c].pc = "make"
    /\ \E id \in IF remembered = None THEN (1 .. MaxAccounts) \ made ELSE {remembered} :
          /\ remembered' = id /\ made' = made \cup {id}
          /\ refreshing' = [refreshing EXCEPT ![c].pc = "insert", ![c].id = id]
    /\ UNCHANGED <<account, draws, stripe, signals, sessions>>

\* insertAccount: the row's account is the one just made, or the request fails.
InsertAccount(c) ==
    /\ refreshing[c].pc = "insert"
    /\ account' = IF account = None THEN [id |-> refreshing[c].id, token |-> 0, shown |-> None] ELSE account
    /\ IF account'.id = refreshing[c].id THEN Continue(c, "begin") ELSE Leave(c)
    /\ UNCHANGED <<draws, stripe, made, remembered, signals, sessions>>

\* An "account updated" event: dispatchAccount.
HookStarts ==
    /\ refreshing[Hook] = Waiting /\ signals /\ account # None
    /\ signals' = FALSE
    /\ refreshing' = [refreshing EXCEPT ![Hook] =
          [pc |-> "begin", kind |-> "webhook", id |-> account.id, token |-> 0, read |-> None]]
    /\ UNCHANGED <<account, draws, stripe, made, remembered, sessions>>

\* server_begin_connect_refresh
BeginRefresh(c) ==
    /\ refreshing[c].pc = "begin" /\ draws < MaxBegins
    /\ draws' = draws + 1
    /\ refreshing' = [refreshing EXCEPT ![c].pc = "read", ![c].token = draws + 1]
    /\ UNCHANGED <<account, stripe, made, remembered, signals, sessions>>

RetrieveAccount(c) ==
    /\ refreshing[c].pc = "read"
    /\ refreshing' = [refreshing EXCEPT ![c].pc = "persist", ![c].read = stripe]
    /\ UNCHANGED <<account, draws, stripe, made, remembered, signals, sessions>>

\* Mutant: the last to write wins.
PersistLast(c) ==
    /\ refreshing[c].pc = "persist"
    /\ account' = [account EXCEPT !.token = refreshing[c].token, !.shown = refreshing[c].read]
    /\ Leave(c)
    /\ UNCHANGED <<draws, stripe, made, remembered, signals, sessions>>

\* server_persist_connect_status_if_current: a reading begun before the one that
\* is stored is stale; its request fails, and its event is delivered again.
Persist(c) ==
    LET r == refreshing[c]
        stale == account.token > r.token IN
    /\ r.pc = "persist"
    /\ IF stale THEN UNCHANGED account
       ELSE account' = [account EXCEPT !.token = r.token, !.shown = r.read]
    /\ IF r.kind = "session" /\ ~stale THEN Continue(c, "session") ELSE Leave(c)
    /\ signals' = (signals \/ (stale /\ r.kind = "webhook"))
    /\ UNCHANGED <<draws, stripe, made, remembered, sessions>>

\* The account session, or the login link: for the account that was found.
OpenSession(c) ==
    /\ refreshing[c].pc = "session"
    /\ sessions' = sessions \cup {refreshing[c].id}
    /\ Leave(c)
    /\ UNCHANGED <<account, draws, stripe, made, remembered, signals>>

\* A call fails or the handler is killed; an event is delivered again.
Dies(c) ==
    /\ refreshing[c] # Waiting
    /\ Leave(c)
    /\ signals' = (signals \/ c = Hook)
    /\ UNCHANGED <<account, draws, stripe, made, remembered, sessions>>

AccountMoves ==
    /\ made # {}
    /\ stripe' \in Moods \ {stripe}
    /\ signals' = TRUE
    /\ UNCHANGED <<account, draws, refreshing, made, remembered, sessions>>

KeyExpires ==
    /\ remembered # None /\ remembered' = None
    /\ UNCHANGED <<account, draws, refreshing, stripe, made, signals, sessions>>

ConnectAccountNext ==
    \/ \E c \in Refreshers, kind \in {"session", "status", "login"} : FindAccount(c, kind)
    \/ \E c \in Clients :
          \/ CreateAccount(c) \/ InsertAccount(c) \/ BeginRefresh(c) \/ RetrieveAccount(c)
          \/ Persist(c) \/ OpenSession(c) \/ Dies(c)
    \/ HookStarts \/ AccountMoves \/ KeyExpires

ConnectAccountSpec == ConnectInit /\ [][ConnectAccountNext]_connectVars

-----------------------------------------------------------------------------
(* Properties *)

\* Readings overtake one another, and each may store what is no longer so; but
\* when no event is outstanding and nobody is reading, the row says what Stripe
\* says.
QuietIsCurrent ==
    (/\ account # None /\ account.token > 0
     /\ ~signals /\ \A c \in Clients : refreshing[c] = Waiting)
    => account.shown = stripe

\* Though two requests may each have had an account made for the organizer, no
\* session opens any but the one whose payouts the platform uses.
SessionsAreForTheAccount == account # None => sessions \subseteq {account.id}

\* Exactly an open account that may receive and pay out, with nothing due of the
\* organizer or of Stripe, is shown as ready; and a checkout demands the same.
ReadyIsReady ==
    (account # None /\ account.shown # None) =>
        LET raw == account.shown
            usable == ~raw.closed /\ raw.transfers = "active" /\ raw.payouts = "active" /\ Due(raw) = {} IN
        /\ usable <=> SafeStatus(DeriveConnectStatus(raw)) = "ready"
        /\ usable <=> MaySell(raw)

\* One account per organizer, whose recorded state is Stripe's when nothing is
\* under way, and "ready" only of an account that is.
ConnectInvariant == QuietIsCurrent /\ SessionsAreForTheAccount /\ ReadyIsReady

=============================================================================
