----------------------------- MODULE SimtTypes -----------------------------
(***************************************************************************)
(* The configuration and the plain data types shared by the C++ model of   *)
(* the Mini-SM (sim/include/simt_types.h).  An instruction keeps only what *)
(* the front end looks at: warp_id, sel and is_branch are carried by       *)
(* InstrMeta but never read by MiniSM::tick.                               *)
(***************************************************************************)
EXTENDS Integers

CONSTANTS
    Warps,       \* Config::warps
    Regs,        \* Config::regs
    ExecLatency, \* Config::exec_latency
    CounterMod,  \* the counters are uint64_t: they wrap at CounterMod = 2^64
    Nullopt      \* std::nullopt

Warp  == 0 .. Warps - 1
Reg   == 0 .. Regs - 1
Stage == 0 .. ExecLatency - 1

InstrMeta == [src0 : Reg, src1 : Reg, dst : Reg, has_dst : BOOLEAN]
WbResult  == [warp_id : Warp, dst : Reg, has_dst : BOOLEAN]

Optional(T) == T \cup {Nullopt}

(* A configuration with an empty pipeline is undefined behaviour in the    *)
(* code (exec_pipe.cpp:12 reads stages_[0]) and one without warps or       *)
(* registers has nothing to schedule.                                      *)
ASSUME ConfigAssumption ==
    /\ Warps \in Nat \ {0}
    /\ Regs \in Nat \ {0}
    /\ ExecLatency \in Nat \ {0}
    /\ CounterMod \in Nat \ {0}
    /\ Nullopt \notin Warp \cup InstrMeta \cup WbResult

(* PerfCounters, without the fields that no code of the model writes       *)
(* (stall_structural, stall_memory, diverge_events, masked_thread_cycles:  *)
(* constantly 0).                                                          *)
Counter == 0 .. CounterMod - 1
PerfCounters == [cycles : Counter, instructions : Counter,
                 stall_data : Counter, stall_no_warp : Counter,
                 cycles_issuing : Counter, wb_count : Counter]

(* counter++ on an unsigned integer *)
Inc(c) == (c + 1) % CounterMod
=============================================================================
