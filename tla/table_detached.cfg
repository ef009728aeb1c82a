SPECIFICATION Spec
CONSTANTS
  Users = {a, b}
  Nobody = Nobody
  NumSeats = 2
  BBChips = 1
  BBCents = 1
  AnteCents = 1
  BuyIns = {2}
  Changes = {2}
  MaxCents = 4
  MaxBuyin = 0
  AllowRathole = FALSE
  AutoMode = "off"
  AutoTarget = 0
  AutoBelow = 0
  MaxSwing = 1
  MaxHands = 1
  MaxFaults = 1
  MaxRestarts = 0
  LandingFaults = TRUE
INVARIANT LedgerMatchesTotals
CHECK_DEADLOCK FALSE
SYMMETRY Symmetry
