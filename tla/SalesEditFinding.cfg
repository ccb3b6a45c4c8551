SPECIFICATION Spec
CONSTANTS
  o1 = o1
  o2 = o2
  t1 = t1
  t2 = t2
  u1 = u1
  u2 = u2
  u3 = u3
  Orders = {o1, o2}
  Tiers = {t1}
  Units = {u1, u2, u3}
  OrderOf <- Buyers
  TierOf <- OneTier
  MaxCapacity = 2
  Hold = 2
  Grace = 1
  LockWait = 1
  EventEnd = 3
  MaxClock = 3
  World = {"open", "paid", "editor"}
PROPERTIES EditKeepsCommitted
CHECK_DEADLOCK FALSE
