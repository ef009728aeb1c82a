SPECIFICATION BillingSpec
CONSTANTS
  Subs = {x, y}
  Nil = Nil
  Workers = {w1, w2}
  Period = 2
  Grace = 1
  MaxTime = 2
  MaxEvents = 5
PROPERTY LiveIsKept
CHECK_DEADLOCK FALSE
