SPECIFICATION Spec
CONSTANTS
  Users = {a, b}
  Nobody = Nobody
  NumSeats = 2
  BBChips = 2
  BBCents = 1
  AnteCents = 1
  BuyIns = {2}
  Changes = {}
  MaxCents = 3
  MaxBuyin = 4
  AllowRathole = FALSE
  AutoMode = "topup"
  AutoTarget = 2
  AutoBelow = 0
  MaxSwing = 1
  MaxHands = 2
  MaxFaults = 1
  MaxRestarts = 1
  LandingFaults = FALSE
INVARIANTS LedgerMatchesTotals MemoryMatchesRows CentsAddUp
PROPERTIES VoidHandIsUndone RecordsNeverReplaced SavedMoneyIsWhole
CHECK_DEADLOCK FALSE
SYMMETRY Symmetry
