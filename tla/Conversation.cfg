SPECIFICATION FairSpec
CONSTANTS
    MaxIterations = 4
    LineLength = 3
    SendSpace = 4
    MaxTicks = 5
    MaxNotices = 3
    InputSize = 2
    HighWater = 3
    ReplySpace = 3
INVARIANTS
    WholeEcho
    ReadsItsOwn
PROPERTIES
    ImplementsReactorClient
    ImplementsClientService
    ConversationEnds
