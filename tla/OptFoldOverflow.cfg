CONSTANTS
    WordBits = 16
    Undef = Undef
    Fatal = Fatal
    Fuel = 30
    Allowance = 20
    RoundCap = 20
    IterCap = 16
    OuterCap = 6
    InputValues <- NearZero
    Sources <- FoldOverflow
SPECIFICATION Spec
INVARIANTS
    Translated
