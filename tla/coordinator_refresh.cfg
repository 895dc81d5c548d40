SPECIFICATION Spec
CONSTANTS
    Members <- MCMembers
    Period <- MCPeriod
    Suppression = 4
    FailuresAllowed = 3
INVARIANTS
    TypeOK
    FreshLimitsAreRecent
    LimitsComeBack
    UnavailabilityIsDebounced
PROPERTIES
    SuppressionEnds
