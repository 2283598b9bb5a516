CONSTANTS
    WordBits = 16
    Undef = Undef
    Fatal = Fatal
    Fuel = 30
    Allowance = 20
    RoundCap = 20
    IterCap = 16
    OuterCap = 6
    InputValues <- Mixed
    Sources <- Loopless
SPECIFICATION Spec
INVARIANTS
    MeaningPreserved
    LabelsUnique
    JumpsResolved
    WellFormed
    Translated
    Settled
    InlinedOut
PROPERTIES
    PropagationKept
    RemovalKept
