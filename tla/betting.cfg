SPECIFICATION LiveSpec
CONSTANTS
  NumSeats = 3
  Ante = 1
  SmallBlind = 1
  BigBlind = 3
  StackChoices = {1, 3, 8}
  Games <- AllGames
  Fractions <- PotSized
CHECK_DEADLOCK FALSE
INVARIANTS PotsAreRight TableShowsThePayout OfferedRaiseTaken
PROPERTIES EveryoneAnswers RaisesAreFull BettingEnds
