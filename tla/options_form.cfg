SPECIFICATION FairSpec
CONSTANTS
    Limits = {40}
    NoLimit = NoLimit
    QueueSize = 2
    BatchSize = 2
    MaxChanges = 2
    MaxFacts = 2
PROPERTIES
    ModeSurvivesReload
CHECK_DEADLOCK FALSE
