SPECIFICATION Spec
CONSTANTS
    Slots <- MCSlots
    Val <- MCVal
    Undef <- MCUndef
    WorkRegs = {"a0", "a1", "t0"}
    SRegs = {"s2"}
    NoReg = "none"
    Home <- MCHome
    ConstOf <- MCConstOf
    Skip = {"d"}
    CacheCap = 2
    Params = {"h", "x"}
    NoSlot = "noslot"
    Shapes = {"imm", "neg", "copy", "zero", "generic"}
    GapLabels = {"fallthrough"}
    ArgReg <- MCArgReg
    MaxArgs = 2
INVARIANTS
    TypeOK
    OperandsCorrect
    CacheTruthful
    HeldTruthful
    NoLostValue
