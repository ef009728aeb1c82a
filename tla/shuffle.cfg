SPECIFICATION LiveSpec
CONSTANTS
  Users = {a, b}
  Nobody = Nobody
  NumSeats = 2
  Strikes = 2
  PenaltyHands = 1
  MaxAttempts = 2
  MaxHands = 2
  MaxRestarts = 1
INVARIANTS OnlyTheSilentAreBarred CutIsWhole WithholdingIsOnRecord
PROPERTIES AbsenteesSitOut LockIsFinal ShuffleEnds
CHECK_DEADLOCK FALSE
