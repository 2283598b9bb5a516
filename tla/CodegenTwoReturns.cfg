CONSTANTS
    WordBits = 16
    Undef = Undef
    Fatal = Fatal
    Fuel = 1
    Allowance = 1
    RoundCap = 20
    IterCap = 16
    OuterCap = 6
    InputValues <- Zero
    Sources <- TwoReturns
    CacheCap = 2
    ArgReg <- ArgRegs
    ImmBits = 12
    SReg <- SRegs
    NoReg = "none"
SPECIFICATION EmitSpec
INVARIANTS
    DeferralSound
