CONSTANTS
    WordBits = 9
    ImmBits = 5
    Undef = Undef
    Fuel = 1
SPECIFICATION FairSpec
INVARIANTS
    DividesThePower
    SequencesExact
PROPERTIES
    Terminates
