SPECIFICATION WebhookSpec
CONSTANTS
  o1 = o1
  t1 = t1
  u1 = u1
  w1 = w1
  w2 = w2
  Orders = {o1}
  Tiers = {t1}
  Units = {u1}
  OrderOf <- OneBuyer
  TierOf <- OneSeat
  MaxCapacity = 1
  Hold = 2
  Grace = 1
  LockWait = 0
  EventEnd = 3
  MaxClock = 2
  Workers = {w1, w2}
  World = {"open", "paid", "outage"}
INVARIANTS HandledPaymentIsAccounted
CHECK_DEADLOCK FALSE
