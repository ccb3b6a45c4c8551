SPECIFICATION PaidSpec
CONSTANTS
  o1 = o1
  t1 = t1
  u1 = u1
  w1 = w1
  w2 = w2
  r1 = r1
  r2 = r2
  Orders = {o1}
  Tiers = {t1}
  Units = {u1}
  OrderOf <- OneBuyer
  TierOf <- OneSeat
  MaxCapacity = 1
  Hold = 1
  Grace = 0
  LockWait = 1
  EventEnd = 3
  MaxClock = 1
  Workers = {w1, w2}
  Slots = {r1, r2}
  World = {"open", "processing", "paid", "failed", "expired", "crash"}
SYMMETRY Interchangeable
INVARIANTS WebhookInvariant HostedInvariant CancelledIsNeverPaid TicketsArePaidFor HandledPaymentIsAccounted
PROPERTIES Spec
CHECK_DEADLOCK FALSE
