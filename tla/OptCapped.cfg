CONSTANTS
    WordBits = 16
    Undef = Undef
    Fatal = Fatal
    Fuel = 30
    Allowance = 20
    RoundCap = 1
    IterCap = 2
    OuterCap = 1
    InputValues <- NearZero
    Sources <- Looping
SPECIFICATION Spec
INVARIANTS
    MeaningPreserved
