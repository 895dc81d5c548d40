SPECIFICATION FairSpec
CONSTANTS
  NominalPower = 1000
  Target <- MCTarget
  Deadband = 30
  PredictiveThreshold = 250
  FineStep = 2
  ValidRequired = 3
  Significant = 30
  TakeoverStrategy = FALSE
  AutoResume = FALSE
  TakeoverLimit = 100
  Loads <- MCLoads
  ManualLimits <- MCManualLimits
  InitialLimits <- MCInitialLimits
  PromptRefresh = TRUE
  Disturbances <- HouseAndSensors
  MaxDisturbances = 2
  StabilizationDelays = {2, 4}
PROPERTIES InterruptionRequiresNewSeries Settles PauseIsTransient
