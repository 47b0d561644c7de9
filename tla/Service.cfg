SPECIFICATION FairSpec
CONSTANTS
    InputSize = 3
    HighWater = 4
    SendSpace = 2
    MaxBytes = 9
INVARIANTS
    TypeOK
    WriteArmedIffBacklog
    BacklogInOrder
    EveryByteAccounted
    QueueBounded
    ExactEchoWhenWide
PROPERTIES
    DrainKeepsConnection
    NoUseAfterDelete
    ImplementsEchoStream
    PeerDepartureReleases
    BacklogDrains
