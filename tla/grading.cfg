SPECIFICATION LiveSpec
CONSTANTS
  NumHands = 3
  Seeded = {3}
  QueueMax = 2
  MaxTries = 2
  MaxFaults = 1
  MaxRestarts = 1
INVARIANTS TypeOK NoJobIsLost UngradedGetAllTries
PROPERTIES HandsAreSettled
