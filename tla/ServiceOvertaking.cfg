SPECIFICATION Spec
CONSTANTS
    InputSize = 2
    HighWater = 4
    SendSpace = 1
    MaxBytes = 4
INVARIANTS EchoesInOrder
