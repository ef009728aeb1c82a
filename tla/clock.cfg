SPECIFICATION LiveSpec
CONSTANTS
  Players = {a, b}
  Host = a
  DecisionChoices = {0, 1}
  BankChoices = {0, 1}
  DelayChoices = {0, 1}
  Opening <- EverythingOn
  Refill = 1
  Strikes = 2
  PauseAfter = 1
  Backoff = 1
  EditWhileBurning = FALSE
  MaxAge = 2
  MaxHands = 2
  MaxDecisions = 2
  MaxUpsets = 1
PROPERTIES NothingEarly  TurnNeverProlonged TableMovesOn
CHECK_DEADLOCK FALSE
