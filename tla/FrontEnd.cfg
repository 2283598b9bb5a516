CONSTANTS
    WordBits = 16
    Undef = Undef
    Fatal = Fatal
    Fuel = 12
    Allowance = 10
    InputValues <- Around
    Sources <- Programs
SPECIFICATION Spec
INVARIANTS
    LoweringTotal
    AlwaysReturns
    VoidResultUnread
    LoweringCorrect
