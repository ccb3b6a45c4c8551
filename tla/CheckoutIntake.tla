--------------------------- MODULE CheckoutIntake ---------------------------
(***************************************************************************)
(* stripe-create-checkout from the raw request to the session it asks       *)
(* Stripe for: the rate limit, parsing, the reservation's persisted          *)
(* snapshot, the request digest, the session's parameters and the check of   *)
(* the session that came back.  A buyer repeats one request id, possibly     *)
(* spelled differently, while the organizer edits prices and the platform    *)
(* its fees.  What is done after a failed call is in HostedCheckout.         *)
(***************************************************************************)
EXTENDS Common, Sequences

LOCAL INSTANCE SequencesExt

CONSTANTS
    Handlers,     \* requests handled at once
    Identities,   \* network addresses
    Limit,        \* requests per address and window (10)
    Window,       \* its length (60 s), in ticks
    Life,         \* how long an idle bucket is kept (2 minutes), in ticks
    MaxBuckets    \* buckets kept

VARIABLES
    buckets,      \* private.checkout_rate_limit_buckets
    admitted,     \* history: requests let through, by address and age
    pending,        \* the order of the buyer's request id
    tariff,       \* unit prices by tier, and the fee
    handling,     \* the requests being handled
    session,      \* Stripe's session under the order's idempotency key
    params        \* history: parameters sent under that key

intakeVars == <<buckets, admitted, pending, tariff, handling, session, params>>

NoRequest == [pc |-> "none"]

IntakeInit ==
    /\ buckets = [i \in Identities |-> None]
    /\ admitted = [i \in Identities |-> [age \in 0 .. Window - 1 |-> 0]]
    /\ pending = None /\ session = None /\ params = {}
    /\ tariff = [unit |-> <<2, 3>>, fee |-> 1]
    /\ handling = [h \in Handlers |-> NoRequest]

-----------------------------------------------------------------------------
(* private.consume_checkout_rate_limit *)

Kept == {i \in Identities : buckets[i] # None}

\* A new address needs room for its bucket; a window that is over starts anew.
Consume(i, allowed) ==
    LET b == buckets[i]
        fresh == [age |-> 0, count |-> 1, idle |-> 0]
        room == IF b = None THEN Cardinality(Kept) < MaxBuckets
                ELSE b.age >= Window \/ b.count < Limit IN
    /\ allowed = room
    /\ buckets' = IF ~room THEN buckets
                  ELSE [buckets EXCEPT ![i] =
                          IF b = None \/ b.age >= Window THEN fresh
                          ELSE [b EXCEPT !.count = @ + 1, !.idle = 0]]

\* A tick of the clock; what is idle too long is deleted at the next request,
\* before anything looks at it.
Older(b) == [b EXCEPT !.age = IF @ < Window THEN @ + 1 ELSE @, !.idle = @ + 1]

ClockTicks ==
    /\ buckets' = [i \in Identities |->
          IF buckets[i] = None \/ buckets[i].idle + 1 >= Life THEN None ELSE Older(buckets[i])]
    /\ admitted' = [i \in Identities |->
          [age \in 0 .. Window - 1 |-> IF age = 0 THEN 0 ELSE admitted[i][age - 1]]]
    /\ UNCHANGED <<pending, tariff, handling, session, params>>

-----------------------------------------------------------------------------
(* The request *)

\* A bearer spells 32 bytes; the last character has bits to spare, so that other
\* strings decode to the same bytes.
Spellings == [mail : {"ann@x", " Ann@X"}, bearer : {"key", "key'", "other"},
              items : {<<[tier |-> 1, quantity |-> 1], [tier |-> 2, quantity |-> 2]>>,
                       <<[tier |-> 2, quantity |-> 2], [tier |-> 1, quantity |-> 1]>>,
                       <<[tier |-> 1, quantity |-> 1], [tier |-> 1, quantity |-> 1]>>}]

Bytes(bearer)  == IF bearer = "other" THEN "other" ELSE "key"
Encode(bytes)  == bytes

\* hashConfirmationBearer: only the canonical spelling of the bytes.
BearerHash(bearer) == IF Encode(Bytes(bearer)) = bearer THEN Bytes(bearer) ELSE None

\* parseCreateInput: trimmed and in lower case, each tier once, sorted.
ParsedItems(items) ==
    IF \E i, j \in DOMAIN items : i # j /\ items[i].tier = items[j].tier THEN None
    ELSE SortSeq(items, LAMBDA x, y : x.tier < y.tier)

Parsed(raw) ==
    [pc |-> "parsed", mail |-> "ann@x", bearer |-> raw.bearer,
     hash |-> BearerHash(raw.bearer), items |-> ParsedItems(raw.items)]

\* defaultAnonymousRateLimit
RateLimit(i, allowed) ==
    /\ Consume(i, allowed)
    /\ admitted' = IF allowed THEN [admitted EXCEPT ![i][0] = @ + 1] ELSE admitted

\* createStripeCreateCheckoutHandler up to the refresh of the Connect account.
Arrives(h, i, raw) ==
    /\ handling[h] = NoRequest
    /\ \E allowed \in BOOLEAN :
          /\ RateLimit(i, allowed)
          /\ handling' = IF allowed /\ Parsed(raw).hash # None /\ Parsed(raw).items # None
                         THEN [handling EXCEPT ![h] = Parsed(raw)] ELSE handling
    /\ UNCHANGED <<pending, tariff, session, params>>

-----------------------------------------------------------------------------
(* The reservation *)

Line(item) == [tier |-> item.tier, quantity |-> item.quantity,
               unit |-> tariff.unit[item.tier],
               subtotal |-> tariff.unit[item.tier] * item.quantity]
PricedLines(items) == [n \in DOMAIN items |-> Line(items[n])]
Sum(lines)   == FoldSeq(LAMBDA line, sum : line.subtotal + sum, 0, lines)

\* The digest over all that the session will be made of.
Digest(money, mail, hash) == <<hash, mail, money>>

NewOrder(r) ==
    LET lines == PricedLines(r.items)
        money == [lines |-> lines, subtotal |-> Sum(lines), fee |-> tariff.fee] IN
    [mail |-> r.mail, hash |-> r.hash, items |-> r.items, money |-> money,
     digest |-> Digest(money, r.mail, r.hash), open |-> TRUE, session |-> FALSE]

\* server_reserve_checkout: the same buyer, token and cart, or a conflict.
Repeats(r) == pending.mail = r.mail /\ pending.hash = r.hash /\ pending.items = r.items

Reserved(r, o) ==
    [pc |-> "reserved", mail |-> r.mail, bearer |-> r.bearer, hash |-> r.hash,
     items |-> r.items, money |-> o.money, digest |-> o.digest, attached |-> o.session]

\* A new order takes today's prices ...
ReserveNew(h) ==
    LET new == NewOrder(handling[h]) IN
    /\ handling[h].pc = "parsed" /\ pending = None /\ new.money.fee < new.money.subtotal
    /\ pending' = new
    /\ handling' = [handling EXCEPT ![h] = Reserved(handling[h], new)]
    /\ UNCHANGED <<buckets, admitted, tariff, session, params>>

\* ... a known one keeps its persisted snapshot, whatever the prices are now.
ReserveAgain(h) ==
    /\ handling[h].pc = "parsed"
    /\ pending # None /\ Repeats(handling[h]) /\ pending.open
    /\ handling' = [handling EXCEPT ![h] = Reserved(handling[h], pending)]
    /\ UNCHANGED <<buckets, admitted, pending, tariff, session, params>>

\* rpcFailure: sold out, not sellable, another buyer's request, over.
ReserveRefused(h) ==
    /\ handling[h].pc = "parsed"
    /\ pending # None => ~(Repeats(handling[h]) /\ pending.open)
    /\ handling' = [handling EXCEPT ![h] = NoRequest]
    /\ UNCHANGED <<buckets, admitted, pending, tariff, session, params>>

\* reservationFromRpc, and once more before it is used
ValidSnapshot(s) ==
    /\ s.fee < s.subtotal
    /\ s.subtotal = Sum(s.lines)
    /\ \A n \in DOMAIN s.lines :
          /\ s.lines[n].subtotal = s.lines[n].unit * s.lines[n].quantity
          /\ n > 1 => s.lines[n - 1].tier < s.lines[n].tier

\* The snapshot must hold together, and its digest be that of this request.
Priced(h) ==
    LET r == handling[h] IN
    /\ r.pc = "reserved"
    /\ handling' = [handling EXCEPT ![h].pc =
          IF /\ ValidSnapshot(r.money)
             /\ Digest(r.money, r.mail, r.hash) = r.digest
          THEN IF r.attached THEN "retrieve" ELSE "create" ELSE "internal_error"]
    /\ UNCHANGED <<buckets, admitted, pending, tariff, session, params>>

-----------------------------------------------------------------------------
(* The session *)

\* createParams
CreateParams(r) ==
    [mail |-> r.mail, success |-> r.bearer, fee |-> r.money.fee, lines |-> r.money.lines]

\* validateSession, validateBoundLineItems, validatePaymentIntent
ValidSession(r, s) ==
    /\ s.mail = r.mail /\ s.success = r.bearer /\ s.fee = r.money.fee
    /\ Len(s.lines) = Len(r.money.lines)
    /\ \A n \in DOMAIN s.lines : s.lines[n] = r.money.lines[n]
    /\ Sum(s.lines) = r.money.subtotal

\* Under one key Stripe answers with the session it made first.
Create(h) ==
    LET r == handling[h] IN
    /\ r.pc = "create"
    /\ params' = params \cup {CreateParams(r)}
    /\ session' = IF session = None THEN CreateParams(r) ELSE session
    /\ handling' = [handling EXCEPT ![h].pc = "validate"]
    /\ UNCHANGED <<buckets, admitted, pending, tariff>>

Retrieve(h) ==
    /\ handling[h].pc = "retrieve"
    /\ handling' = [handling EXCEPT ![h].pc = "validate"]
    /\ UNCHANGED <<buckets, admitted, pending, tariff, session, params>>

\* The attachment fails on an order that is over.
Validate(h) ==
    LET r == handling[h] IN
    /\ r.pc = "validate"
    /\ IF ValidSession(r, session)
       THEN /\ pending' = IF pending.open THEN [pending EXCEPT !.session = TRUE] ELSE pending
            /\ handling' = [handling EXCEPT ![h] = NoRequest]
       ELSE /\ handling' = [handling EXCEPT ![h].pc = "invalid_session"]
            /\ UNCHANGED pending
    /\ UNCHANGED <<buckets, admitted, tariff, session, params>>

\* Killed, or a call that fails: the buyer repeats the request.
GivesUp(h) ==
    /\ handling[h] # NoRequest
    /\ handling' = [handling EXCEPT ![h] = NoRequest]
    /\ UNCHANGED <<buckets, admitted, pending, tariff, session, params>>

-----------------------------------------------------------------------------
(* Others *)

TariffChanges ==
    /\ tariff' \in {[tariff EXCEPT !.unit[1] = 4], [tariff EXCEPT !.fee = 2]}
    /\ UNCHANGED <<buckets, admitted, pending, handling, session, params>>

OrderEnds ==
    /\ pending # None /\ pending.open
    /\ pending' = [pending EXCEPT !.open = FALSE]
    /\ UNCHANGED <<buckets, admitted, tariff, handling, session, params>>

CheckoutIntakeNext ==
    \/ \E h \in Handlers :
          \/ \E i \in Identities, raw \in Spellings : Arrives(h, i, raw)
          \/ ReserveNew(h) \/ ReserveAgain(h) \/ ReserveRefused(h)
          \/ Priced(h) \/ Create(h) \/ Retrieve(h) \/ Validate(h) \/ GivesUp(h)
    \/ ClockTicks \/ TariffChanges \/ OrderEnds

CheckoutIntakeSpec == IntakeInit /\ [][CheckoutIntakeNext]_intakeVars

-----------------------------------------------------------------------------
(* Properties *)

\* However a buyer's request is spelled and repeated, and whatever the prices and
\* fees become, Stripe is only ever sent one set of parameters under the order's
\* idempotency key (another set would be an error on every later attempt).
OneSetOfParams == Cardinality(params) <= 1

\* No repetition of the buyer's own request ends at the digest or at the check of
\* the session it got itself: the order stays payable by whoever holds the bearer.
OwnRequestIsHonoured == \A h \in Handlers : handling[h].pc \notin {"internal_error", "invalid_session"}

\* In no stretch of a window's length are more than two windows' requests of one
\* address let through, buckets being deleted and recreated or not.
SlidingBound ==
    \A i \in Identities :
        FoldSeq(+, 0, [age \in 1 .. Window |-> admitted[i][age - 1]]) <= 2 * Limit

\* What a request id means stays the same: one set of parameters, honoured for
\* the buyer who made it, and no more requests than the window allows.
IntakeInvariant == OneSetOfParams /\ OwnRequestIsHonoured /\ SlidingBound

=============================================================================
