SPECIFICATION LiveSpec
CONSTANTS
  r1 = r1
  r2 = r2
  r3 = r3
  Requests = {r1, r2, r3}
  Nil = Nil
  MaxHands = 2
  RequestTime = 1
  IdleLimit = 1
  AbandonLimit = 2
  MaxRestarts = 1
INVARIANTS OneCopy NothingTakenBack CutHandIsTold
PROPERTIES EveryoneAnswered
CHECK_DEADLOCK FALSE
