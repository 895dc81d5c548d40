SPECIFICATION Spec
CONSTANTS
    MaxTraces = 2
    Window = 3
    MaxGap = 1
    Timeout = 4
    SampleInterval = 2
    MaxCommands = 3
INVARIANTS
    TypeOK
    SessionLedger
    ReportIsClosed
    PendingIsInFlight
    ObservedIsComparable
