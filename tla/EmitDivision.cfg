SPECIFICATION Spec
CONSTANTS
    Slots <- MCSlotsNoLocal
    Val <- MCVal
    Undef <- MCUndef
    WorkRegs = {"a0", "a1", "t0"}
    SRegs = {"s2"}
    NoReg = "none"
    Home <- MCHome
    ConstOf <- MCConstOf
    Skip = {"d"}
    CacheCap = 2
    Params = {"h", "x"}
    NoSlot = "noslot"
    Shapes = {"imm", "neg", "copy", "zero", "divconst"}
    GapLabels = {"fallthrough"}
    ArgReg <- MCArgReg
    MaxArgs = 3
INVARIANTS
    OperandsCorrect
    CacheTruthful
