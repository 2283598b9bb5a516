CONSTANTS
    WordBits = 16
    Undef = Undef
    Fatal = Fatal
    Fuel = 30
    Allowance = 20
    RoundCap = 20
    IterCap = 16
    OuterCap = 6
    InputValues <- NearZero
    Sources <- CseOverwritten
SPECIFICATION Spec
INVARIANTS
    MeaningPreserved
