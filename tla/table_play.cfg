SPECIFICATION Spec
CONSTANTS
  Users = {a, b}
  Nobody = Nobody
  NumSeats = 2
  BBChips = 2
  BBCents = 1
  AnteCents = 1
  BuyIns = {2}
  Changes = {2}
  MaxCents = 4
  MaxBuyin = 4
  AllowRathole = TRUE
  AutoMode = "set"
  AutoTarget = 2
  AutoBelow = 0
  MaxSwing = 1
  MaxHands = 1
  MaxFaults = 0
  MaxRestarts = 0
  LandingFaults = FALSE
INVARIANT CardsKeepTheirSeat
PROPERTY TableIsSolvent
CHECK_DEADLOCK FALSE
SYMMETRY Symmetry
