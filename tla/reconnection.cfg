SPECIFICATION FairSpec
CONSTANTS
  PollInterval = 2
  MaxDelay = 6
  MaxFailures = 4
  TidModulus = 4
  Commands = FALSE
  MaxTroubles = 1
  MaxOwed = 3
PROPERTY Reconnects
