SPECIFICATION Spec
CONSTANTS
    Warps = 2
    Regs = 2
    ExecLatency = 2
    CounterMod = 4
    RtlCounterMod = 2
    Nullopt = Nullopt
    Program <- TopProgram
INVARIANT TypeOK
PROPERTY MatchesCpp
