# Whereto in TLA+

Whereto sells tickets to local events and lets people find them.  Buyers reserve a cart of tiers, pay in a Stripe
hosted Checkout session, and get tickets that are redeemed at the door; organizers edit events and tiers, cancel,
refund, write to attendees, keep a storefront and a payout account; guests register for free events; staff moderate
and import; Stripe reports payments, refunds and disputes to a webhook.  The authoritative state is in Postgres.  The
program's own logic is in three places:

- `plpgsql` functions in `src/supabase/migrations/` (the last definition of a function counts), each one transaction;
- Deno edge functions in `src/supabase/functions/`, which call those functions, Stripe, an e-mail provider and an
  image provider, with an `await` at every call;
- the React application in `src/src/`, whose pages keep what must survive a reload and race their own answers.

This directory models that logic, model-checks it on small instances with TLC, and proves for all instances, with
TLAPS, what matters most about money, tickets, refunds and mail.  `PROJECT.json` holds the same facts in
machine-readable form: the components, the source lines of every definition, the runs, one mutant per checked
property, the hazards and the theorems.

Contents: 1 inventory · 2 modules · 3 runs, bounds, fairness · 4 disagreements and observations · 5 proofs ·
6 simplifications and what is not modelled · 7 what is left.

## 1. Inventory

| part | state it keeps | operations | talks to |
|---|---|---|---|
| checkout reservation and inventory | `orders` (status, `reservation_expires_at`, session id), `order_items`, `ticket_tiers.quantity_total` | `reserve_checkout`, `attach_checkout_session`, `cancel_checkout_reservation`, `expire_checkout_reservations` (pg_cron, every minute) | edge functions; moderation's eligibility; tier rows |
| payment fulfilment | orders, `tickets` | `mark_payment_processing`, `mark_payment_failed`, `fulfill_paid_order`, `mark_payment_requires_review`, `mark_checkout_reconciliation_review`, `reconcile_unattached_paid_checkout` | webhook; inventory count |
| refunds and disputes | refund and dispute rows, orders, tickets | `apply_verified_refund`, `apply_verified_dispute` | webhook |
| admission | tickets | `server_redeem_paid_ticket` | scanner and desk pages |
| tier editor and cancellation | tiers, event status, tickets | `save_ticket_tiers`, `cancel_owned_event` | inventory count |
| hosted checkout edge functions | what a request has read | create and cancel requests, rate limit, snapshot, parameters of the session | Stripe, reservation functions |
| Stripe webhook | `stripe_webhook_events` receipts | verify, record, retrieve, compare, look up, dispatch, finalize | Stripe (redelivers), all payment functions |
| the buyer's browser | the attempt of an event in the session storage | submit, check, cancel, release, clear | the two edge functions |
| organizer refund operation | `order_refund_operations` | claim, dispatch once, record, recover | Stripe, the refund webhook |
| payout account and its page | account row, refresh sequence; script and mounts of the component | create, begin refresh, compare and set; open a session, mount, retry | Stripe, checkout, webhook |
| ticket e-mail, organizer messages, waitlist | three outboxes with leases | claim, render, authorize, send, complete, sweep, provider events | e-mail provider |
| message composer | the tab's storage, options and previews | preview, review, send, ask for the receipt | the messages' outbox |
| moderation | evaluation queue, standing of an event | enqueue, claim, judge, complete; report; decide | public eligibility, the editor |
| free registration | registrations and free tickets; the saved request | register, look up | the event's lock |
| event editor, new drafts, duplicates | `events` under a context token | save, accept policies, publish, create, copy | moderation, tiers |
| event images and covers | attached image, generations, candidates, two buckets | generate, poll, draw, choose, clean | image provider |
| storefronts | `organizers`, `organizer_media` | save, publish, upload, remove, clean | storage |
| event import | batches, rows, look-up budget | upload, look up under leases, review, import, cancel, prune | geocoder, drafts |
| organizer session | the stored session, cross-tab lock, cache | sign in, refresh, sign out, read again | every organizer page |
| ticket collections and e-mailed access | grants, collections, the page's one code | read by bearer, open a link, choose a ticket | tickets |
| public map and list | requests, snapshots, icons, selection; pages behind cursors | move, filter, page, refetch, restore | public discovery functions |
| operational log | none | emit a record | every checkout handler |

What is hard here:

- **Interleaving and stale time.** Writers serialize on an advisory lock per event, then tier rows, event row and
  order row.  But `statement_timestamp()` is fixed before the wait for the lock, so a statement judges deadlines
  with an old clock.
- **Reads before writes.** A webhook worker retrieves the session and the charge from Stripe, reads the order and
  writes several awaits later; a checkout handler reads a session's status and acts on it; a page decides on what it
  showed.
- **Failure between steps.** A session may be created and never attached; a call may have taken effect and its
  answer be lost; an invocation may be killed; the cron jobs release what handlers left behind.
- **Delivery.** Events are duplicated, delayed, reordered and handled by several workers at once; one receipt row
  serves all of them.  A mail whose acceptance was not heard of is sent again under a key that the provider forgets.
- **Late money.** A payment may arrive for a reservation that was released and whose seats are sold.
- **Two counts of the same seats.** Reservation, fulfilment and the tier editor each count what is committed.
- **Rules written twice.** What may be logged, what a collection may hold, what a session must look like is decided in
  several places that must agree.

The hazards with their lines, and the properties aimed at each, are in `PROJECT.json`.

## 2. The modules

    TicketSales            the transactions of one event's sales; Stripe and time around them
      TicketSalesMC          instances for TLC
      TicketSalesProofs      types, settled tickets, the count, money; coherent sets, histories, reservations,
                             payment on time
    StripeWebhook          TicketSales behind the webhook: receipts, workers, reads before writes
      StripeWebhookMC
    HostedCheckout         TicketSales behind the create and cancel handlers
      CheckoutProofs         each of the two implements TicketSales
    PaidCheckout           both at once, with its proofs     PaidCheckoutMC

    MailPromise            what an outbox promises of a mail (abstract)
    Mail                   what the three outboxes share, and the provider
      TicketEmail, OrganizerMail, WaitlistMail     their workers, call by call
    EventCover             generations, candidates and the choice of a cover
      BackgroundProofs       all three outboxes keep the promise; a chosen cover is kept
    BackgroundMC           the outboxes and the covers

    RefundOperation        the organizer's whole-order refund
    CheckoutAttempt        the buyer's tab
    CheckoutIntake         the create handler from the raw request to Stripe's parameters
    PaymentEvidence        what the webhook takes for proof
    ConnectAccount         the account row under its sequence number
    PayoutSetup            the payments page
    OperationalLog         the validator of records and everything that emits one
      MoneyProofs            the refund desk, the buyer's tab, the payout account and page
    MoneyMC                these seven

    OrganizerSession, Moderation, EventEditor, NewDraft, Storefront, MessageComposer, EventImport
      PagesProofs            one draft per form, whole copies; one message per send, as reviewed;
                             the organizer's session; the storefront; the event editor
      ImportProofs           the event import
    PagesMC                the pages of organizers and staff

    MapIcons, PublicMap, MapPreview, EventList, TicketAccess, FreeRsvp, DoorAdmission
      VisitorsProofs         the map's picks, a registration, the door, a guest's tickets,
                             and what moderation lets the public see
    VisitorsMC             what visitors meet

    Common                 one helper on records

The `*MC` modules of the last four groups put components that share no state into one run: a variable `focus` is
chosen at the start and every behaviour stays with one part.  That is no composition, only economy; the parts'
properties are conjoined and named there (`TermsPromise`, `EditorPromise`, `DiscoveryPromise`, ...).

### TicketSales, StripeWebhook, HostedCheckout, PaidCheckout

`TicketSales` is at once the detailed model of the database and the abstract specification of the edge functions:
`StripeWebhook` replaces its `Webhook` action by workers, `HostedCheckout` its `Requests`, `PaidCheckout` both, and
each is shown, by proof (and `PaidCheckout` by TLC too), to implement `TicketSales!Spec`: same variable names, so the
refinement mapping is the identity and the property is simply `Spec`.  A theorem about `TicketSales` therefore holds
behind all of them.

One event, `Orders` (client request ids: a retried request is the same order), `Tiers`, and `Units`, the purchased
(order item, sequence number) pairs; `OrderOf` and `TierOf` say what a unit belongs to, so a cart is any set of units
and quantities need no counters.

| variable | in the code |
|---|---|
| `status`, `deadline`, `attached`, `paidAt`, `recon` | `orders.status`, `reservation_expires_at`, `stripe_checkout_session_id is not null`, `paid_at is not null`, `reconciliation_status` |
| `ticket[u]` | `tickets.status` of the unit, `"none"` before issuance |
| `capacity`, `tierActive` | `ticket_tiers.quantity_total`, the tiers with status `active` |
| `eventStatus`, `eligible`, `salesOpen` | `events.status`; moderation's half of public eligibility; the switches of paid sales |
| `clock` | the database clock |
| `facts[o]` | what has been true of the order's session and charge at Stripe; only grows |
| `receipt[o][e]` | the processing status of the event's row in `stripe_webhook_events` |
| `job[w]` | one webhook invocation: its stage (one per await), order, event, and `seen`, what it read from Stripe |
| `request[r]` | one create or cancel invocation |
| `refused`, `sent` | orders whose session Stripe refused; orders whose buyer got a URL (history) |

Each action of `TicketSales` is one transaction, with the statement's start time `now` as a parameter wherever the
function reads `statement_timestamp()`: any of the last `LockWait` ticks (`Instants`).  `reserve_checkout` first
expires stale reservations of the cart's tiers; that is part of `ReserveNew`.  `fulfill_paid_order` is one action with
its three outcomes in the code's order (incoherent ticket set, invalidated, issued), each with its ticket withdrawal.
`reconcile_unattached_paid_checkout` attaches and fulfils in a subtransaction, or rolls both back and marks a review.
A webhook action is enabled forever once its fact is true: that is at-least-once delivery in any order.  Money,
digests and identifiers are abstracted to whether they match; how the webhook establishes that is `PaymentEvidence`.

`StripeWebhook` follows `createStripeWebhookHandler` and `dispatchCheckout`: `Receive` (record the receipt) →
`Retrieve` → `Lookup` → `Apply`, or → `ReadUnattached` → `Reconcile` for a paid session no order knows; `Permanent`
acknowledges a mismatch, `Transient` marks the receipt failed and answers 503.  `Reconcile` looks at the receipt and
the attachment again under the lock.  `Outage` and `Crash` may strike between any two steps.

`HostedCheckout` follows the two handlers call by call, including the replay of `checkout.sessions.create` under the
order's idempotency key (which still describes the session as open), a failure that proves no session exists against
one that proves nothing, an attach that commits although its answer is lost, and the cleanup that must expire a
session before it releases the order.  `cancel_checkout_reservation` does not look at Stripe and Stripe does not look
at the order: `Release` and `SessionCreated` have none of the guards that `CancelReservation` and `StripeCreate` have
in `TicketSales`.  That they are never needed is the refinement.

Assumed of Stripe (external): a session is created at most once per idempotency key, and a definitive refusal of a
request is final; `expire` succeeds only on an open session; a session cannot be paid after its `expires_at`, `Grace`
before the reservation's deadline.

### The outboxes

A mail of `MailPromise` is waiting, uncertain, accepted, failed or given up; the provider takes at most one copy; what
is said of its end is true.  `Mail` has the rows (`row`), what each invocation of a worker is doing (`job`), and the
provider (`box`: copies, age of the idempotency key, contents asked for).  Times are ages and remaining times, so no
clock is needed.  `TicketEmail`, `OrganizerMail` and `WaitlistMail` differ in their transactions: who may claim, when
the content is stored, which step authorizes a dispatch, what a completion may still change.  `KeepsPromise` is the
refinement, with `PhaseOf(row[a])` for the phase.

### Money beside the tickets

`RefundOperation`: panels, `organizer-refund-order`, Stripe and the webhook that alone moves the order; any call may be
the last of its handler.  Stripe's reversal and fee refund may show later than the refund.  `CheckoutAttempt`: what the
tab stores before a request leaves, what it concludes from late or missing answers, and which of its records it may
clear.  `CheckoutIntake`: two handlers of one request id while prices and fees change; the set of parameters Stripe has
seen under the key.  `PaymentEvidence`: each comparison of the webhook as a choice where the code first looks.
`ConnectAccount`: readers draw a number before they read.  `PayoutSetup`: script tags, secrets good for one use, mounts.
`OperationalLog`: three hand-kept lists (type, validator, emitters) and every emission in the edge functions.

### Pages and visitors

`OrganizerSession` (tabs that share a stored session, notices that come later, a sign-out that may only remove the
session it saw), `Moderation` (queue, worker, reports, staff page), `EventEditor` (context token, agreement to
policies, preview, writes that arrive after the page gave up), `NewDraft` (creation and duplication asked for again),
`Storefront` (three pages write one row under `updated_at`; a cleanup decided by an earlier row), `MessageComposer` (a
send whose answer is unknown), `EventImport` (upload, leased look-ups, review on old pages), `MapIcons` (descriptors
under a lease, pictures in a budget, a renderer that is wiped), `PublicMap` (areas, snapshots, the message that there
is nothing), `MapPreview` (selection, clusters that answer late, restoration), `EventList` (chains of pages behind
cursors), `TicketAccess` (coherence checked by database, function and page; one code at a time), `FreeRsvp` (two tabs,
one saved request, a Web Lock), `DoorAdmission` (scanners and the desk).  Each names in its comments the functions it
follows; the state of a page is a record, an answer under way is a variable of its own, and a page that is left leaves
its requests behind.

## 3. The runs

| run | part | properties |
|---|---|---|
| `SalesPayments` | two buyers with carts of one and two units, delayed and immediate payment, failure, expiry, moderation, sales switches | `OrderHistory`, `OnTimePaymentIsHonoured`, `ReservationFits` |
| `SalesAftermath` | whole and partial refunds and disputes around fulfilment, admission and cancellation | `ValidTicketIsSettled`, `TicketSetsCoherent`, `AfterSaleHistory` |
| `SalesTierEdits` | the organizer edits and archives two tiers while carts span them | `TypeOK`, `NoOversell` |
| `PaidCheckout` | two requests and two workers on one order, every one killed between any two calls | `WebhookInvariant`, `HostedInvariant`, `CancelledIsNeverPaid`, `TicketsArePaidFor`, `HandledPaymentIsAccounted`, `Spec` |
| `WebhookOutages` | refunds, disputes and failing calls | `ReceiptIsFinal` |
| `WebhookProgress` | one worker that is killed and fails, and the minute job, under fairness | `PaymentIsAccountedFor`, `StaleIsReleased` |
| `BackgroundJobs` | two senders on each outbox; cover generations | `MailInvariant`, `KeepsPromise`, `DispatchSettles`, `CoverInvariant`, `ShotsSettle` |
| `MoneyPaths` | the seven parts of `MoneyMC` | `AttemptInvariant`, `TermsPromise`, `RefundInvariant`, `ConnectInvariant`, `SetupInvariant`, `NothingIsDropped` |
| `Pages` | the parts of `PagesMC` | `SessionPromise`, `ModerationPromise`, `EditorPromise`, `DraftsAreMadeOnce`, `StorefrontPromise`, `MessagePromise`, `ImportPromise` |
| `Visitors` | the parts of `VisitorsMC` | `MapPreviewInvariant`, `DiscoveryPromise`, `RsvpInvariant`, `DoorInvariant`, `TicketAccessPromise` |
| `SalesEditFinding`, `WebhookFailedReceiptFinding` | must be violated | section 4 |

**Bounds.**  Every bound is a CONSTANT named in the guards it caps.  The sales runs have two orders, three units and two
seats: carts of one and two units make partial fits happen.  `Hold = 2`, `Grace = 1`, `MaxClock = 3` leave room for a
request before, at and after each of the session's end, the deadline and the event's end; `LockWait = 1` makes a
statement's clock wrong by a whole tick, enough to fall on the other side of a deadline.  `World` lists which outside
facts and actors exist, so that each run can afford the interleavings it is about.  `SalesAftermath` and the webhook
runs stop the clock at the deadline: refunds, disputes and the order of deliveries look at no time beyond it.

`PaidCheckout` (about 425,000 states) has one order with one unit, `Hold = 1`, `Grace = 0`, `MaxClock = 1` and
`LockWait = 1`: a reservation may be live, be at its deadline, and be judged by a statement that still sees it live.
What it asks is how the steps of four invocations on one order interleave; contention between orders is a question
about the transactions, answered by the sales runs and carried over by the refinement, which is proved for all bounds.
Two workers and two requests are enough for every pair of stages of either kind to meet; they are interchangeable.

In `BackgroundJobs` a mail may be dispatched twice by two senders, the lease runs out before the window (3) and the
window before the provider's memory of the key (4), in the order of the code's 2 minutes, 23 and 24 hours.  The page
runs let each thing happen that a property needs to fail: two revisions or versions more than what a page shows, a
second answer, a second tab or editor, a limit that is reached.

`CHECK_DEADLOCK FALSE` everywhere: with the clock or the counters at their bounds nothing is left to do.

**Fairness.**  `WebhookProgress` assumes time and the minute job to go on, weak fairness of a worker's next step, strong
fairness of a redelivery being taken on while it is not acknowledged, and strong fairness of each stage's completion,
i.e. calls do not fail for ever at the same stage.  Stripe gives up after about three days; the assumption is that the
service works for some time within them.  Nothing is assumed of buyers, organizers, moderation, or Stripe's own state.
`BackgroundJobs` assumes time, strong fairness of a sender's claim (the scheduler invokes the workers again and again,
and a claim may be disabled meanwhile by another's lease), weak fairness of what a sender does next (to be killed is
one of the things), and for covers that an open page polls every two seconds and that leases and generations age.

## 4. Disagreements and observations

Two runs must be found violated; the design documents are in `src/Docs/superpowers/specs/`.

1. `SalesEditFinding`: `save_ticket_tiers` does not count orders under review (nor partially refunded ones), so a
   tier's total can be saved below the seats they hold.  The checkout-integrity design (lines 369-375) counts them, as
   reservation and fulfilment do.  The older native-ticketing design (line 379) only promises paid tickets plus active
   reservations, which is what the editor implements.  No seat is oversold by this: fulfilment counts again.
2. `WebhookFailedReceiptFinding`: recovery of an unattached payment requires the receipt to be `processing`.  If a
   concurrent delivery of the same event fails transiently meanwhile, the receipt is `failed`, the first worker takes
   this for a permanent mismatch and acknowledges the event, and no redelivery will bring the payment back.  The
   design (line 645) says transient failures remain retryable and permanent mismatches go to review.  The same
   happens without any failing call when the charge was given back meanwhile and the session is attached between a
   worker's lookup and its recovery: that worker answers 503, and the receipt is `failed` too.

No document promises the contrary of the following; they are what the models show and are noted for the maintainers.

- A refund event of a payment that is not attached yet finds no order, is acknowledged
  (`stripe-webhook/index.ts:1803`), and the recovery that read the charge before the refund issues tickets that stay
  valid.  This is the one hazard no property covers.
- An order refunded before fulfilment ends refunded with no tickets, and used tickets of a refunded order stay used,
  while the checkout-integrity design (line 688) and the runbook's integrity query
  (`src/Docs/runbooks/checkout-integrity-operations.md:270`) expect every ticket to exist and be refunded.
- A `checkout.session.completed` handled after its session failed puts the released order under review, where it holds
  seats again until a human decides; delivered the other way round it does not.
- A record about a Stripe object whose id has a prefix `PROVIDER_OBJECT_PATTERN` does not list is not written, without
  a word; the type `WebhookLifecycle` allows `expired` with `ASYNC_PAYMENT_FAILED`, which the validator would reject
  and nothing emits.
- After a reload of the composer a send that never arrived stays "confirming" until the tab is closed.
- The answer of a cluster may replace what was opened by the page's own controls meanwhile; a style reload of the map
  may load a picture a fourth time; a new search of the list is read although the reader is being throttled.

## 5. The proofs

Every theorem is for arbitrary constants under the assumption its module names, which TLC evaluates on every run.

**Ticket sales** (`ConstantsAssumption`: finite sets, any carts, capacities, lock wait, `Hold >= Grace`).

- `TypeCorrect`, `SettledTickets`, `NeverOversold`, `TicketsOnlyForMoney`.  `NoOversell` is not inductive alone: a step
  that withdraws an order from `paid` must take its tickets, and fulfilment compares `Sold` with `Holds`, which counts
  statuses only.  `SalesInvariant == TypeOK /\ ValidTicketIsSettled /\ NoOversell` is: sold units are held units, `Fits`
  bounds held units at the moment of issuance, `CommittedToTier` bounds sold ones at an edit, and every other step
  sells nothing more (`NothingMoreSold`).  Neither the count of reservations nor the clock is needed: the second look at
  fulfilment alone protects the seats, which is why a stale `now` is harmless.
- `TicketSetsFit`: an order has all its tickets or none, in states that fit its own.  Inductive beside `TypeOK`, because
  every writer of an order also writes its tickets.  So `TICKET_SET_MISMATCH` is never the outcome of fulfilment.
- `ReleasedForGood`, `HistoryIsKept` (action properties `OrderHistory`, `AfterSaleHistory`), one lemma per kind of step.
- `ReservationsFit`: a reservation is granted only where it fits.  The function expires the stale reservations of the
  cart's tiers and then counts all that is left; `AttachedIsReserved` is the strengthening.
- `OnTimeIsHonoured`: who pays by the deadline is refused only if the event fell or somebody's late payment is under
  review.  Its invariant, `SeatInvariant`, is about seats that no count in the code mentions: the units of every
  order that might still be fulfilled, stale ones included, fit (`KeptUnits`).  It is stated for worlds without the tier
  editor, because an edit may legitimately take a tier off sale under a live reservation; TLC checks it so too.

**Behind the edge functions.**

- `WebhookImplementsSales == WebhookSpec => Spec`.  A worker's `seen` may be old, but facts only grow, so it is a subset
  of today's facts and still confirms the event: `WebhookInvariant` says so for every stage and yields the guard of the
  `TicketSales` action each write is mapped to.  With it `JobsStayGrounded`, `WebhookTicketsAreBacked`,
  `WebhookNeverOversells`, and `ReceiptsAreFinal`.
- `PaymentsAreAccounted == NoFailures => (WebhookSpec => []HandledPaymentIsAccounted)`: what is acknowledged is
  accounted for, where no call fails and no charge is given back (`NoFailures`, a condition on `World`; workers may
  die).  Finding 2 shows that the condition is needed.  `PaymentInvariant` says that a settled order is accounted for and
  an order without a session can be recovered, that whoever works has a receipt that is processing or processed, and
  that a worker which will acknowledge without asking for more has reason to: its event was about a delayed payment,
  or somebody else recorded it.
- `HostedImplementsSales == HostedSpec => Spec`.  `HostedInvariant` relates what a request has concluded to both sides:
  one about to release has an expired session or a refusal, a refused order has no session, an order Stripe never
  heard of is being created or ran out.  With it `RequestsStayGrounded`, `ReleasedByRequestNeverPaid`,
  `HostedNeverOversells`.
- `PaidCheckout`: neither side leaves the other to anything.  The two invariants are each kept by the other side's steps
  (a delivery is, to the requests, one of the webhook's transactions or none; a request is, to the deliveries, something
  `TicketSales` may do), so their conjunction is inductive without a case analysis over pairs of steps: circular
  reasoning that is sound because each argument uses the other's invariant of the state before only.  With it
  `PaidImplementsSales` and six properties in the composed system, `PaidPaymentsAreAccounted` among them.

**The refund operation** (`RefundAssumption`; any panels, webhook workers, waiting events).  `RefundIsKept`.  The
properties of the run say that there is one request to Stripe, that final records are true and that no panel is stuck.
`RefundKept` adds what each handler carries between its calls (`CallsAreTrue`, `HooksAreTrue`), that Stripe's refund only
grows (`RefundGrows`), and what each record implies of it (`RecordsAreTrue`).

**The buyer's tab** (`AttemptAssumption`; any carts and attempts).  `AttemptIsKept`.  `AttemptKept` follows an id from the
draw on: whatever there is of it, request, order or record, has the same details (`SameDetails`), so a repeated request
never meets a conflict of its own making; of a prepared attempt nothing was sent (`StoredIsTrue`).  Why may the page
drop an attempt on a refusal, although an earlier request may still be served?  Because only the first request of an
attempt is believed, and it is the only one then (`FirstIsOnly`).  A write to the storage may fail after the request is
prepared; the record then stays `prepared` and the request is not sent.

**The payout account** (`ConnectAssumption`: the webhook is no client; any clients, accounts and attempts).
`AccountIsFollowed`.  Readings of Stripe take a number before they are made and are stored only over a smaller one; yet
a reading with the greatest number may be old when it is stored.  `StaleIsOvertaken` says what the numbers do ensure:
behind every reading that is no longer Stripe's somebody is on the way with a later one, and `RowIsFollowed` that the row
never stays behind without an event that is still to be delivered.

**The payments page** (any mounts and sessions, no assumption).  `SetupIsKept`: a tag is in the document exactly while
the script loads or is loaded (`OneTag`), whoever waits for it is among its listeners (`WaitersListed`), and a session
has an instance exactly if its secret was handed out (`SecretsKept`).

**The cover of an event** (`CoverAssumption`: option numbers are not zero, no object is `None`; any options,
generations, covers and requests at once).  `CoverIsKept`, from two invariants that share nothing but `latest`.
`DrawKept` is about money: at most one request lives for each observed attempt of an option (`StepsAreClaims`), one that
may still draw belongs to an attempt that was not drawn, and the attempt number, which the claim compares, never falls
whatever the polls, clean-ups and leases do to a candidate (`DrawsAreCounted`, `RecoveredSame`).  The lease and the token
are not needed for it: they protect the result, not the bill.  `AttachKept` is about the bucket: what a request would
attach was never attached before, what it will remove was attached once, so a removal that comes arbitrarily late, after
the commit and without its lock, meets no present cover.  That a set gives one cover at most follows from `selected`
being tested under the event's lock.

**The pages of organizers** (`NewDraftAssumption`, `ComposerAssumption`: `None` is no value of the data; any forms, edits,
pages, copies, drafts, audiences and attempts).

- `DraftsAreOne`.  `DraftKept` ties every request on its way to the request id the page keeps for the text as it is
  (`OneIdPerForm`), the database to one draft per id (`OneDraftPerId`), and the page's belief to the database
  (`PageKnows`); a button pressed after a lost answer reuses the id until an edit makes it another form.  `CopyKept` is
  about one duplication at a time: the flyer it will finalize with was staged for the version it read, and only one
  that was refused cleans up, its own file, so no clean-up reaches a draft that was made.
- `SendsAreReviewed`.  `MessageKept`: only the send whose id the tab stores may still be queued (`OnlyKeptMayCome`), and
  before the first unknown outcome it has one attempt, the one the page waits for (`KnownIsOne`), whose refusal
  therefore decides; afterwards no refusal ends the send.  Numbers of dispatches are their count (`DispatchesAreNumbered`), so
  an answer that comes late belongs to one attempt.

**Moderation** (in `VisitorsProofs`; `ModerationAssumption`: finitely many addresses, since reporters are counted; `None` is no status; any
workers, hosts, threshold, attempts).  `ModerationStands` proves all of `ModerationPromise`.  An event counts as clear if
it was found acceptable in the revision it has (`ClearIsForThisContent`): that survives a worker which died or is late
because a result is applied only to the version its evaluation was queued for (`JobsAreQueued`: an evaluation that was
queued stays queued about that version), and every decision makes a new version (`DecisionsAreVersions`).  For the same
reason an evaluation that was queued before a person decided is about an older version, so it cannot undo the decision;
it need not be found and withdrawn.  `ReportersAreKnown` is about hosts and not addresses, whose set is larger.

**The organizer's session** (`SessionAssumption`: `None` is no tab and no session; any tabs, users, tokens).
`SessionIsKept` proves all of `SessionPromise`.  Tabs share only what is stored and hear of changes late and in order, so
`SessionKept` says of each tab alone: what it has still to hear ends with what is stored, and if there is nothing to
hear, it has read what is stored, shows it or will read it (`ToldTheLatest`); what it caches and asks for is the shown
user's (`HoldsItsOwn`); and who removes has the lock, and what is stored is still what was shown when it was pressed
(`RemovesTheExpected`).  The lock does matter: the comparison and the removal are two steps.

**The storefront** (`StorefrontAssumption`: `None` is no page, image or record; any editors, profile pages, limits).
`StorefrontIsKept` proves all of `StorefrontPromise`.  `StoreKept` says that what a page knows of the row is an earlier
version of it or the row as it is (`KnowsRow`), that a call is made from what its page knew then (`CallKnows`), and that
a page waits for one call (`OneCallEach`).  A write is accepted only if it names the version the row has, so what it
replaces was seen and what it publishes was shown; the claim of a handle alone names no version and touches nothing
that a page shows.  A clean-up may be decided on an old reading: that it cannot hurt is because the function asks the
row again when it removes, not because of anything a page knows.

**The event editor and the preview** (`EditorAssumption`: `None` is no chain of writes).  `EditorIsKept` proves all of
`EditorPromise`.  The hard part is the chain *text, answers, acceptance* of "Save agreement and preview": the version it
accepts does not exist yet when the box is ticked.  `Stands` says what an agreement is about, either what the page has
beside its baseline, or a version that is accepted already and not changed; `ChainFits` carries it from write to write
(`TextFits`, `AnswersFit`, `AcceptFits`), each answer being the version the write made of the one it named
(`AnswerFits`), so at the end it is about the version that is accepted (`WriteFits`).  The form of a saved event stays
editable meanwhile, which is why the chain keeps what was agreed apart from what the page shows.  For the preview it
suffices that tiers only grow in the model: those read second are at least those of the context read first, and the
write is refused if they are more.

**The event import** (`ImportAssumption`: finitely many files, each of a row at least; any rows, requests, leases and
budget).  `ImportIsKept` proves all of `ImportPromise`.  Every write of a row, by whichever call, colleague or clock,
is one of the `Moves`: it leaves a settled row as it is and takes back no answer to a warning.  That carries `CallFits`, that
the warning an "Import anyway" is about to override was answered by somebody who saw it (`Answered`), however the row
changed while the call was on its way; what is overridden is therefore always among what was answered (`RowFits`), and a
later candidate changes the digest, so it is asked about anew.  The state of a batch is a function of the state and the
requests of its rows which is its own fixed point (`StateAgain`): a write that looks the same to it (`LooksSame`: a lease
taken, a clock) need not write it.  For the uploads `Having` counts the files whose stored request has a batch: a request
is given up only with an answer, so there are at most as many batches as answers and such files.

**The public pages** (`RsvpAssumption`, `DoorAssumption`: `None` is no attempt, verdict or pass; any events, filters,
tabs, quantities, tickets, scanners and requests).

- `PreviewIsKept`.  Beside what it promises, the map must keep that a cluster whose answer still counts was clicked
  last (`CurrentIsLast`): every click and every new set of events outdates it, a replaced source alone does not.
- `RegistrationIsKnown`.  `RsvpInvariant` is inductive beside the types: a tab replaces only an attempt whose end it
  knows, an end is known only from the server, and the server decides an id once; so no request that is still open can
  be among what is replaced.  The Web Lock enters only by making one step of reading and writing the record; that it
  is held through the request is not needed.
- `DoorIsTrue`.  A round is one request and whoever awaits it asked for its ticket (`RoundsAreOne`, `RoundsAreKnown`),
  answers under way stay true because only a valid ticket changes (`AnswersAreTrue`), and of the admissions of a ticket
  one at most is shown or under way (`AdmissionsAreOne`).  The desk's doubts include all it does not know
  (`DoubtIsKept`).

- `TicketsAreSeen` proves all of `TicketAccessPromise` (`AccessAssumption`: up to ten tickets, `None` is none of the
  records).  `LedgerFits` says what a ticket may be beside used, given its order and its event (`RestsAs`); from it alone
  the three rules, which were written apart, accept the same collections.  `ShownFits` ties what is shown to the
  collection the address asks for now, with codes that are the tickets' own, and says that nothing is shown while
  something is asked for: that is why an answer can put a code on the screen but never replace one.

**The outboxes** (`MailAssumption`; any mails, senders, dispatches, lease, back-off, and `Window <= KeyLife`, the code's
23 hours and the provider's 24).  `TicketMailIsConsistent`, `MessagesAreConsistent`, `WaitlistMailIsConsistent` state
`MailInvariant`, and `TicketMailKeepsPromise`, `MessagesKeepPromise`, `WaitlistMailKeepsPromise` the refinement of
`MailPromise`.  The inductive invariant `MailKept` is local: `RowFits` relates a row to the provider's record of its mail,
`JobFits` a sender to the row it claimed.  Two thoughts carry it.  A lease is believed in only while it is held
(`j.left > 0 => r.holder = w`), so a sender that lost it changes nothing; and while the window is open the provider
still knows the key (`b.age <= r.age` as long as `r.age < Window`), so a repeated request makes no second copy.  A move
of a row that fits (`Moves`) is a step of the promise whoever makes it, which makes the three outboxes one argument
with three sets of small lemmas.

**Model-checked only.**  Liveness (`PaymentIsAccountedFor`, `StaleIsReleased`, `DispatchSettles`, `ShotsSettle`) and what
rests on ENABLED are outside the prover's reach, and so are the totals of `TermsPromise`: that an order's amount is
the sum over its lines needs induction over the set of lines.  `NothingIsDropped` is a comparison of finite tables, for
which TLC's enumeration is the better proof.  `DiscoveryPromise` has no proof yet.

## 6. Simplifications, and what is not modelled

- *TicketSales*: partial refunds are one fact rather than rows that add up; a dispute's row and the recovery of its
  transfer reversal are left out; ticket tiers of a draft and prices are not edited.
- *Edge functions*: parsing, headers and wording; account events of the webhook; `HostedCheckout` takes
  the checks of response bodies as accepted or not (`CheckoutIntake` has the one on the session).
- *EventCover*: uploads of one's own image.  *EventEditor*: field validation; a tier that is changed and changed back
  between the preview's two reads; one kind of agreement.  *Moderation*: one worker; the classifier's answer is a choice.
- *Storefront*: cover, name and links behave as the logo; one tab of each page, one upload; telemetry.
- *MessageComposer*: one tab; the quotas are one limit.  *EventImport*: rows alike, a budget of one day, one look-up try
  and one lease in the instance (5 and 2 in the code), provider's "invalid" merged with "needs review", one tab.
- *MapIcons*: one icon id per event; the ranking is any set that fits; equal sizes; memory for one picture in the
  instance.  *PublicMap*: no midnight, no change of an event's content, no offset of clocks.  *EventList*: malformed
  rows, weekend and midnight windows.  *MapPreview*: the camera is left out.
- *TicketAccess*: one grant, whose revocation is an answer it may always get; statuses other than paid, refunded and
  under review are left out.  *DoorAdmission*: credentials are right or wrong; one scanner in the instance.
- *Waitlist*: joining, and observing that tickets are back.  *Free registration*, *admission*: row level security.
- *Not modelled*: event changes and their notices (an outbox of the shape of the ticket e-mails); the order pages (they
  read; what `CheckoutAttempt` needs of the confirmation is there); layout, styles, camera, telemetry; amounts of
  money, which the models only compare; row level security.

## 7. What is left

Proofs: the parts of `DiscoveryPromise`.  Models: per-refund evidence rows as a refinement of
`ApplyWholeRefund`/`ApplyPartialRefund`; the lock hierarchy that the atomic actions presuppose; event notices.
