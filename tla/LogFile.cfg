SPECIFICATION Spec
CONSTANTS
    Programs = {"Trace6"}
    Streams = {s1}
    Callbacks = {k1}
    File = file
    Output = output
    Callback = callback
    None = none
    MaxSignals = 0
INVARIANTS
    RedirectedArrives
