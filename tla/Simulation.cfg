SPECIFICATION Spec
CONSTANTS
    Argvs <- CommandLines
    Numerals <- SmallNumerals
    DefaultCycles = 14
    WritesFail = TRUE
    Regs = 2
    CounterMod = 100
    Nullopt = Nullopt
INVARIANTS
    ParsesAsMeant
    IpcLaw
    CleanExit
CHECK_DEADLOCK FALSE
