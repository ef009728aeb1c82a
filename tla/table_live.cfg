SPECIFICATION LiveSpec
CONSTANTS
  Users = {a, b}
  Nobody = Nobody
  NumSeats = 2
  BBChips = 1
  BBCents = 1
  AnteCents = 1
  BuyIns = {2}
  Changes = {}
  MaxCents = 2
  MaxBuyin = 4
  AllowRathole = FALSE
  AutoMode = "off"
  AutoTarget = 2
  AutoBelow = 0
  MaxSwing = 0
  MaxHands = 1
  MaxFaults = 1
  MaxRestarts = 0
  LandingFaults = FALSE
PROPERTIES LeaversAreSettled SavesCatchUp
CHECK_DEADLOCK FALSE
