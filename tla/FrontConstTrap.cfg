CONSTANTS
    WordBits = 16
    Undef = Undef
    Fatal = Fatal
    Fuel = 12
    Allowance = 10
    InputValues <- Around
    Sources <- ConstTrap
SPECIFICATION Spec
INVARIANTS
    LoweringCorrect
