SPECIFICATION LiveSpec
CONSTANTS
    Warps = 3
    Regs = 2
    ExecLatency = 2
    CounterMod = 1
    Nullopt = Nullopt
    Program <- CrossProgram
PROPERTIES
    BoundedWait
    NoStarvation
