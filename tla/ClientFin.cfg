SPECIFICATION Spec
CONSTANTS
    MaxIterations = 2
    LineLength = 2
    SendSpace = 2
    MaxTicks = 3
    MaxNotices = 2
INVARIANT
    LinesBeforeFin
