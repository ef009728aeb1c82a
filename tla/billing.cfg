SPECIFICATION BillingSpec
CONSTANTS
  Subs = {x, y}
  Nil = Nil
  Workers = {w1, w2}
  Period = 2
  Grace = 1
  MaxTime = 3
  MaxEvents = 5
INVARIANTS TrustIsShort PayingIsLetIn
SYMMETRY Symmetry
CHECK_DEADLOCK FALSE
