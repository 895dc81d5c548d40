SPECIFICATION Spec
CONSTANTS
    Watts <- MCWatts
    Capacities <- MCCapacities
    Charges <- MCCharges
    PowerSign = "positive_charging"
    LimitVerified = TRUE
    Failures <- MCFailures
    Modes <- MCModes
    Target <- MCTarget
    Margin = 25
    ChargeThreshold = 50
    ConfirmationSamples = 3
    Grids <- MCGrids
INVARIANTS
    StrategyTypeOK
    SaturationEndsRelease
    CapacityIsConfirmedSinceStart
PROPERTIES
    RepeatedEvaluationChangesNothing
    PriorityIsConfirmed
    UnfitBatteryGivesUp
