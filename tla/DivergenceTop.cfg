SPECIFICATION DSpec
CONSTANTS
    Warps = 2
    Regs = 1
    ExecLatency = 1
    CounterMod = 1
    RtlCounterMod = 1
    EventMod = 2
    Lane = {l1, l2, l3}
    Depth = 1
    PC = {0}
    Nullopt = Nullopt
    Program <- BranchProgram
INVARIANTS
    DTypeOK
    EventsAccounted
    IssueKeepsPathsApart
SYMMETRY LaneSymmetry
