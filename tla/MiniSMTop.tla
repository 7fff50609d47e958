----------------------------- MODULE MiniSMTop ------------------------------
(***************************************************************************)
(* The RTL front end: rtl/top/mini_sm_top.sv with its scoreboard,          *)
(* warp_scheduler, warp_table and exec_pipe instances.  The testbench      *)
(* drives the input wires between two clock edges; the combinational       *)
(* signals are operators of the registers and the inputs; every register   *)
(* takes its next value at the same clock edge.                            *)
(***************************************************************************)
EXTENDS SimtTypes

CONSTANTS
    Program,      \* the values the testbench drives on warp_instr
    RtlCounterMod \* the counters are logic [31:0]: they wrap at RtlCounterMod = 2^32

(* a 64-bit counter of the C++ model wraps when a 32-bit one does          *)
ASSUME TopAssumption ==
    /\ Program \subseteq InstrMeta /\ Program # {}
    /\ RtlCounterMod \in Nat \ {0}
    /\ \E n \in 1 .. CounterMod : CounterMod = n * RtlCounterMod

VARIABLES
    warp_has_instr, \* input wires
    warp_instr,     \* input wires
    reg_busy_q,     \* scoreboard: the busy registers of each warp
    rr_ptr_q,       \* warp_scheduler
    pipe,           \* exec_pipe: valid_pipe, warp_id_pipe, dst_pipe, has_dst_pipe
    warp_state_q,   \* warp_table
    counters,       \* the 32-bit performance counters
    wraps,          \* history: how often each counter has wrapped, up to CounterMod
    sampled         \* issue_valid/issue_warp_id and the wb_* outputs at the last edge

regs == <<reg_busy_q, rr_ptr_q, pipe, warp_state_q, counters, wraps, sampled>>
topVars == <<warp_has_instr, warp_instr, regs>>

PipeEntry == [valid : BOOLEAN, warp_id : Warp, dst : Reg, has_dst : BOOLEAN]

Invalid == [valid |-> FALSE, warp_id |-> 0, dst |-> 0, has_dst |-> FALSE]

(* the C++ names are those of the statistics file                          *)
ZeroCounters == [cycles |-> 0, instructions |-> 0, stall_data |-> 0,
                 stall_no_warp |-> 0, cycles_issuing |-> 0, wb_count |-> 0]

Init ==
    /\ warp_has_instr = [w \in Warp |-> FALSE]
    /\ warp_instr \in [Warp -> Program]
    /\ reg_busy_q = [w \in Warp |-> {}]
    /\ rr_ptr_q = 0
    /\ pipe = [s \in Stage |-> Invalid]
    /\ warp_state_q = [w \in Warp |-> "READY"]
    /\ counters = ZeroCounters
    /\ wraps = ZeroCounters
    /\ sampled = [issued_warp |-> Nullopt, writeback |-> Nullopt]

(* the testbench drives the inputs of warp w                               *)
Drive(w, has_instr, instr) ==
    /\ warp_has_instr' = [warp_has_instr EXCEPT ![w] = has_instr]
    /\ warp_instr' = [warp_instr EXCEPT ![w] = instr]
    /\ UNCHANGED regs

-----------------------------------------------------------------------------
(* Combinational signals *)

can_issue(w) ==
    /\ warp_instr[w].src0 \notin reg_busy_q[w]
    /\ warp_instr[w].src1 \notin reg_busy_q[w]

warp_ready(w) == warp_state_q[w] = "READY"

scoreboard_blocked ==
    \E w \in Warp : warp_has_instr[w] /\ warp_ready(w) /\ ~can_issue(w)

Selectable == {w \in Warp : warp_ready(w) /\ can_issue(w) /\ warp_has_instr[w]}

issue_valid == Selectable # {}

(* the first selectable warp from rr_ptr_q on; 0 when there is none        *)
issue_warp_id ==
    LET at(i) == (rr_ptr_q + i) % Warps
    IN  IF issue_valid
        THEN at(CHOOSE i \in Warp : /\ at(i) \in Selectable
                                    /\ \A j \in 0 .. i - 1 : at(j) \notin Selectable)
        ELSE 0

issuing == warp_instr[issue_warp_id]

wb == pipe[ExecLatency - 1]

(* what a monitor sees on the outputs                                      *)
Observed ==
    [issued_warp |-> IF issue_valid THEN issue_warp_id ELSE Nullopt,
     writeback   |-> IF wb.valid THEN [warp_id |-> wb.warp_id, dst |-> wb.dst,
                                       has_dst |-> wb.has_dst]
                     ELSE Nullopt]

-----------------------------------------------------------------------------
(* Sequential logic *)

(* a bug to catch: the clear of a write-back wins over a new issue *)
ClearWinsEdge ==
    LET marked == IF issue_valid /\ issuing.has_dst
                  THEN [reg_busy_q EXCEPT ![issue_warp_id] = @ \cup {issuing.dst}]
                  ELSE reg_busy_q
    IN  IF wb.valid /\ wb.has_dst
        THEN [marked EXCEPT ![wb.warp_id] = @ \ {wb.dst}]
        ELSE marked

(* the write-back clears first, then the issue may set the bit again       *)
ScoreboardEdge ==
    LET cleared == IF wb.valid /\ wb.has_dst
                   THEN [reg_busy_q EXCEPT ![wb.warp_id] = @ \ {wb.dst}]
                   ELSE reg_busy_q
    IN  IF issue_valid /\ issuing.has_dst
        THEN [cleared EXCEPT ![issue_warp_id] = @ \cup {issuing.dst}]
        ELSE cleared

(* a bug to catch: no wrap after the last warp *)
UnwrappedPointer == IF issue_valid THEN issue_warp_id + 1 ELSE rr_ptr_q

PointerEdge ==
    IF ~issue_valid THEN rr_ptr_q
    ELSE IF issue_warp_id = Warps - 1 THEN 0 ELSE issue_warp_id + 1

PipeEdge ==
    [s \in Stage |->
        IF s = 0 THEN [valid |-> issue_valid, warp_id |-> issue_warp_id,
                       dst |-> issuing.dst, has_dst |-> issuing.has_dst]
        ELSE pipe[s - 1]]

Counted ==
    {"cycles"}
        \cup (IF wb.valid THEN {"wb_count"} ELSE {})
        \cup (IF issue_valid THEN {"instructions", "cycles_issuing"}
              ELSE IF scoreboard_blocked THEN {"stall_data"}
              ELSE {"stall_no_warp"})

CountersEdge ==
    [c \in DOMAIN counters |->
        IF c \in Counted THEN (counters[c] + 1) % RtlCounterMod ELSE counters[c]]

WrapsEdge ==
    [c \in DOMAIN wraps |->
        IF c \in Counted /\ counters[c] = RtlCounterMod - 1
        THEN (wraps[c] + 1) % (CounterMod \div RtlCounterMod)
        ELSE wraps[c]]

(* posedge clk with rst = 0; stall_warp and unblock_warp are tied to 0     *)
Clock ==
    /\ reg_busy_q' = ScoreboardEdge
    /\ rr_ptr_q' = PointerEdge
    /\ pipe' = PipeEdge
    /\ counters' = CountersEdge
    /\ wraps' = WrapsEdge
    /\ sampled' = Observed
    /\ UNCHANGED <<warp_has_instr, warp_instr, warp_state_q>>

(* posedge clk with rst = 1; the monitor keeps what it saw                 *)
ResetEdge ==
    /\ reg_busy_q' = [w \in Warp |-> {}]
    /\ rr_ptr_q' = 0
    /\ pipe' = [s \in Stage |-> Invalid]
    /\ warp_state_q' = [w \in Warp |-> "READY"]
    /\ counters' = ZeroCounters
    /\ wraps' = ZeroCounters
    /\ UNCHANGED <<warp_has_instr, warp_instr, sampled>>

DriveAny == \E w \in Warp, has_instr \in BOOLEAN, instr \in Program : Drive(w, has_instr, instr)

Next == DriveAny \/ Clock \/ ResetEdge

Spec == Init /\ [][Next]_topVars

-----------------------------------------------------------------------------
TypeOK ==
    /\ warp_has_instr \in [Warp -> BOOLEAN]
    /\ warp_instr \in [Warp -> Program]
    /\ reg_busy_q \in [Warp -> SUBSET Reg]
    /\ rr_ptr_q \in Warp
    /\ pipe \in [Stage -> PipeEntry]
    /\ warp_state_q \in [Warp -> {"READY", "STALLED"}]
    /\ counters \in [DOMAIN ZeroCounters -> 0 .. RtlCounterMod - 1]
    /\ wraps \in [DOMAIN ZeroCounters -> 0 .. (CounterMod \div RtlCounterMod) - 1]
    /\ sampled \in [issued_warp : Optional(Warp), writeback : Optional(WbResult)]

(* The C++ model, read off the registers: its flat busy vector is the      *)
(* union of the rows, its stages run in the opposite direction, and the    *)
(* lower bits of its counters are those of the RTL.                        *)
CppCounters == [c \in DOMAIN counters |-> wraps[c] * RtlCounterMod + counters[c]]

AsWbResult(e) == IF e.valid
                 THEN [warp_id |-> e.warp_id, dst |-> e.dst, has_dst |-> e.has_dst]
                 ELSE Nullopt

Cpp == INSTANCE MiniSM WITH
    warp_instrs <- [w \in Warp |-> IF warp_has_instr[w] THEN warp_instr[w] ELSE Nullopt],
    busy        <- UNION {{w * Regs + r : r \in reg_busy_q[w]} : w \in Warp},
    state       <- warp_state_q,
    rr_ptr      <- rr_ptr_q,
    stages      <- [s \in Stage |-> AsWbResult(pipe[ExecLatency - 1 - s])],
    counters    <- CppCounters,
    out         <- sampled

(* MiniSM "matching mini_sm_top.sv" (mini_sm.h:13): every clock edge of    *)
(* the RTL is a tick of the C++ model with the same issue and write-back   *)
(* and the same 32 lower bits of every counter, a reset is a reset, and    *)
(* new inputs are new slots.                                               *)
MatchesCpp == Cpp!Spec
=============================================================================
