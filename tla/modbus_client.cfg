SPECIFICATION FairSpec
CONSTANTS
  PollInterval = 2
  MaxDelay = 6
  MaxFailures = 4
  TidModulus = 4
  Commands = TRUE
  MaxTroubles = 4
  MaxOwed = 3
INVARIANT TypeOK
PROPERTIES AcceptedAnswerIsOwn LossesSpaceConnections
