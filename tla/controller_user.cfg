SPECIFICATION Spec
CONSTANTS
  NominalPower = 1000
  Target <- MCTarget
  Deadband = 30
  PredictiveThreshold = 250
  FineStep = 2
  ValidRequired = 3
  Significant = 30
  TakeoverStrategy = TRUE
  AutoResume = TRUE
  TakeoverLimit = 100
  Loads <- MCTwoLoads
  ManualLimits <- MCManualLimits
  InitialLimits <- MCInitialLimits
  Disturbances <- UserAndSensors
  PromptRefresh = FALSE
  MaxDisturbances = 3
  StabilizationDelays = {2}
INVARIANTS TypeOK CommandOwnsScheduler ManualForgets
