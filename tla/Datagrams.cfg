SPECIFICATION FairSpec
CHECK_DEADLOCK FALSE
CONSTANTS
    Senders = {s1, s2}
    Broadcasters = {b1}
    Leftovers = {l1, l2}
    None = none
INVARIANTS
    TypeOK
    OneAnswer
PROPERTIES
    PortComesFree
