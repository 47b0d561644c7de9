SPECIFICATION FairSpec
CONSTANTS
    Programs <- AllPrograms
    Streams = {s1, s2}
    Callbacks = {k1, k2}
    File = file
    Output = output
    Callback = callback
    None = none
    MaxSignals = 2
INVARIANTS
    TypeOK
    DanglingCured
    SaidIsDone
    LastRedirectionHolds
    LogFollowsSwitch
PROPERTIES
    SwitchTakesEffect
