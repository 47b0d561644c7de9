SPECIFICATION FairSpec
CONSTANTS
    MaxIterations = 5
    LineLength = 2
    SendSpace = 3
    MaxTicks = 6
    MaxNotices = 3
INVARIANTS
    TypeOK
    StreamIntact
    WakeupMatchesQueue
PROPERTIES
    Farewell
