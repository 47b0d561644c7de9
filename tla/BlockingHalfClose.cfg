SPECIFICATION FairSpec
CONSTANTS
    Clients = {c1}
    Server1Clients = {"Client1", "Client4"}
    Server2Clients = {"Client1", "Client4"}
    Length = 2
    SendSpace = 2
PROPERTIES
    ConversationEnds
