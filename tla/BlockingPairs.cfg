SPECIFICATION FairSpec
CONSTANTS
    Clients = {c1, c2}
    Server1Clients = {"Client1", "Client4"}
    Server2Clients = {"Client1"}
    Length = 2
    SendSpace = 2
INVARIANTS
    TypeOK
    EchoFaithful
    SuccessIsComplete
PROPERTIES
    ClientsEnd
    ConversationEnds
