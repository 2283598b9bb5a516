CONSTANTS
    FunctionCount = 3
SPECIFICATION FairSpec
INVARIANTS
    StackOpen
PROPERTIES
    FindsCycles
    Answers
