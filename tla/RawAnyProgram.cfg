SPECIFICATION Spec
CONSTANTS
    Warps = 2
    Regs = 2
    ExecLatency = 2
    CounterMod = 1
    Nullopt = Nullopt
    Program <- AnyProgram
PROPERTY NoRawHazard
