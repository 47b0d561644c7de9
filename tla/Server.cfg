SPECIFICATION FairSpec
CONSTANTS
    Conns = {c1, c2, c3}
    Handles = {h1, h2, h3}
    Acceptor = acceptor
    None = none
INVARIANTS
    TypeOK
    NoDanglingRegistration
    HandlesOwned
    NobodyDeaf
PROPERTIES
    NobodyWaitsForever
    EveryHandleReturned
