SPECIFICATION Spec
CONSTANTS
    Warps = 2
    Regs = 2
    ExecLatency = 3
    CounterMod = 4
    Nullopt = Nullopt
    Program <- SmallProgram
INVARIANTS
    TypeOK
    BusyIsInFlight
    InFlightIsBusy
    CycleAccounting
    WritebackAccounting
PROPERTIES
    NoRawHazard
    ImplementsInOrder
