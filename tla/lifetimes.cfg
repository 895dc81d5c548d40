SPECIFICATION FairSpec
CONSTANTS
    Limits = {40}
    NoLimit = NoLimit
    QueueSize = 2
    BatchSize = 2
    MaxChanges = 2
    MaxFacts = 2
INVARIANTS
    TypeOK
    ConfigurationIsLive
    OneLifeTicks
    EventsAreStoredInOrder
    WrittenIsStored
PROPERTY
    EditTakesEffect
CHECK_DEADLOCK FALSE
