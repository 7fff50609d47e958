------------------------------- MODULE MiniSM -------------------------------
(***************************************************************************)
(* The C++ Mini-SM front end (sim/src/mini_sm.cpp): one call of tick() is  *)
(* one clock cycle, in which the scheduler picks a warp from a snapshot of *)
(* the state, the execution pipe advances and hands out a write-back, the  *)
(* scoreboard is cleared by the write-back and then marked by the issue,   *)
(* and the cycle is booked in the performance counters.                    *)
(*                                                                         *)
(* The caller owns warp_instrs, the slots with the next instruction of     *)
(* each warp, and may change a slot between two ticks.                     *)
(***************************************************************************)
EXTENDS Scoreboard, WarpTable, WarpScheduler, ExecPipe, FiniteSets

CONSTANT Program \* the instructions the caller presents

ASSUME ProgramAssumption == Program \subseteq InstrMeta

VARIABLES
    warp_instrs, \* the caller's instruction slots
    busy,        \* Scoreboard::busy_
    state,       \* WarpTable::state_
    rr_ptr,      \* WarpScheduler::rr_ptr_
    stages,      \* ExecPipe::stages_
    counters,    \* MiniSM::counters_
    out          \* the TickOutput of the latest tick

vars == <<warp_instrs, busy, state, rr_ptr, stages, counters, out>>

TickOutput == [issued_warp : Optional(Warp), writeback : Optional(WbResult)]

ZeroCounters == [cycles |-> 0, instructions |-> 0, stall_data |-> 0,
                 stall_no_warp |-> 0, cycles_issuing |-> 0, wb_count |-> 0]

(* a MiniSM as its constructor leaves it                                   *)
Constructed ==
    /\ busy = NothingBusy
    /\ state = AllReady
    /\ rr_ptr = 0
    /\ stages = EmptyPipe
    /\ counters = ZeroCounters
    /\ out = [issued_warp |-> Nullopt, writeback |-> Nullopt]

Init == Constructed /\ warp_instrs = [w \in Warp |-> Nullopt]

(* the caller fills, replaces or empties the slot of warp w                *)
Present(w, instr) ==
    /\ warp_instrs' = [warp_instrs EXCEPT ![w] = instr]
    /\ UNCHANGED <<busy, state, rr_ptr, stages, counters, out>>

-----------------------------------------------------------------------------
(* Step 1 of tick(): eligibility as seen before any update of this cycle.  *)

HasInstr(w) == warp_instrs[w] # Nullopt

NoHazard(w) == CanIssue(busy, w, warp_instrs[w].src0, warp_instrs[w].src1)

(* has work that the warp table would let run *)
HasWork(w) == HasInstr(w) /\ IsReady(state, w)

Eligible(w) == HasWork(w) /\ NoHazard(w)

EligibleWarps == {w \in Warp : Eligible(w)}

(* Step 4: the write-back clears first, then the issue marks.              *)

(* a bug to catch: an issue hides the clear of the same cycle *)
EitherScoreboardNext(wb, issued) ==
    IF issued # Nullopt /\ warp_instrs[issued].has_dst
    THEN MarkBusy(busy, issued, warp_instrs[issued].dst)
    ELSE IF wb # Nullopt /\ wb.has_dst THEN Clear(busy, wb.warp_id, wb.dst) ELSE busy

ScoreboardNext(wb, issued) ==
    LET cleared == IF wb # Nullopt /\ wb.has_dst
                   THEN Clear(busy, wb.warp_id, wb.dst) ELSE busy
    IN  IF issued # Nullopt /\ warp_instrs[issued].has_dst
        THEN MarkBusy(cleared, issued, warp_instrs[issued].dst) ELSE cleared

PipeNext(issued) ==
    IF issued = Nullopt
    THEN Shift(stages)
    ELSE Push(Shift(stages), [warp_id |-> issued,
                              dst     |-> warp_instrs[issued].dst,
                              has_dst |-> warp_instrs[issued].has_dst])

(* Step 5: which counters this cycle increments.                           *)

(* a bug to catch: a data stall only if every warp is blocked *)
EveryDataStall == \A w \in Warp : HasWork(w) /\ ~NoHazard(w)

AnyWork      == \E w \in Warp : HasWork(w)
AnyDataStall == \E w \in Warp : HasWork(w) /\ ~NoHazard(w)

Counted(wb, issued) ==
    {"cycles"}
        \cup (IF wb # Nullopt THEN {"wb_count"} ELSE {})
        \cup (IF issued # Nullopt  THEN {"instructions", "cycles_issuing"}
              ELSE IF AnyDataStall THEN {"stall_data"}
              ELSE IF ~AnyWork     THEN {"stall_no_warp"} ELSE {})

CountersNext(wb, issued) ==
    [c \in DOMAIN counters |->
        IF c \in Counted(wb, issued) THEN Inc(counters[c]) ELSE counters[c]]

(* One call of MiniSM::tick that issues warp `issued', or nothing.         *)
TickIssuing(issued) ==
    LET wb == Exiting(stages)
    IN  /\ Selects(rr_ptr, EligibleWarps, issued)
        /\ out' = [issued_warp |-> issued, writeback |-> wb]
        /\ busy' = ScoreboardNext(wb, issued)
        /\ stages' = PipeNext(issued)
        /\ rr_ptr' = IF issued = Nullopt THEN rr_ptr ELSE Advance(issued)
        /\ counters' = CountersNext(wb, issued)
        /\ UNCHANGED <<warp_instrs, state>>

Tick == \E issued \in Optional(Warp) : TickIssuing(issued)

(* a bug to catch: the instructions in flight survive a reset *)
PipeKeepingReset ==
    /\ busy' = NothingBusy
    /\ state' = AllReady
    /\ rr_ptr' = 0
    /\ counters' = ZeroCounters
    /\ UNCHANGED <<warp_instrs, stages, out>>

(* MiniSM::reset; it returns nothing, so `out' keeps its last value        *)
Reset ==
    /\ busy' = NothingBusy
    /\ state' = AllReady
    /\ rr_ptr' = 0
    /\ stages' = EmptyPipe
    /\ counters' = ZeroCounters
    /\ UNCHANGED <<warp_instrs, out>>

PresentAny == \E w \in Warp, instr \in Optional(Program) : Present(w, instr)

Next == PresentAny \/ Tick \/ Reset

Spec == Init /\ [][Next]_vars

(* A run as main.cpp drives it: the loop keeps calling tick() and nobody   *)
(* calls reset().  The caller may present instructions, but need not.      *)
LiveSpec == Init /\ [][PresentAny \/ Tick]_vars /\ WF_vars(Tick)

-----------------------------------------------------------------------------
TypeOK ==
    /\ warp_instrs \in [Warp -> Optional(Program)]
    /\ busy \in SUBSET BusyIndex
    /\ state \in [Warp -> WarpState]
    /\ rr_ptr \in Warp
    /\ stages \in [Stage -> Optional(WbResult)]
    /\ counters \in PerfCounters
    /\ out \in TickOutput

(* The instruction in stage s will write register r of warp w.             *)
InFlight(s, w, r) ==
    /\ stages[s] # Nullopt
    /\ stages[s].has_dst
    /\ stages[s].warp_id = w
    /\ stages[s].dst = r

(* the instruction in stage s will write a source of w's next instruction  *)
Blocks(s, w) == \/ InFlight(s, w, warp_instrs[w].src0)
                \/ InFlight(s, w, warp_instrs[w].src1)

(* No stuck busy bit: a register marked busy, at its flat index, has a     *)
(* write of that very warp and register in flight (scoreboard.sv:4), so a  *)
(* warp is never held back by a write-back that will not come.             *)
BusyIsInFlight ==
    \A w \in Warp, r \in Reg :
        Idx(w, r) \in busy => \E s \in Stage : InFlight(s, w, r)

(* The converse: the destination of every instruction in flight is marked  *)
(* busy until its own write-back (scoreboard.h:8).                        *)
InFlightIsBusy ==
    \A s \in Stage, w \in Warp, r \in Reg :
        InFlight(s, w, r) => Idx(w, r) \in busy

(* RAW ordering (scoreboard.h:8, phase4_testbench.md:16): tick() never    *)
(* issues an instruction while an earlier instruction of the same warp     *)
(* that writes one of its sources is still in the execution pipe.          *)
NoRawHazard ==
    [][\A w \in Warp : TickIssuing(w) => \A s \in Stage : ~Blocks(s, w)]_vars

(* Every instruction of the program overwrites one of its own sources, as  *)
(* the r0 + r1 -> r0 of main.cpp does.                                     *)
Accumulating == \A instr \in Program :
                    instr.has_dst => instr.dst \in {instr.src0, instr.src1}

(* The instructions in flight, read off the pipe. *)
InOrderFlight ==
    {[warp_id |-> stages[s].warp_id, dst |-> stages[s].dst,
      has_dst |-> stages[s].has_dst, left |-> s] :
         s \in {t \in Stage : stages[t] # Nullopt}}

Abstract == INSTANCE InOrder WITH
    slots <- warp_instrs, flight <- InOrderFlight, seen <- out

(* The front end promises what InOrder says: the scoreboard holds a warp   *)
(* back exactly as long as an instruction in flight feeds it, never for a  *)
(* busy bit that stands for nothing, and the scheduler leaves no cycle     *)
(* unused while some warp could issue (mini_sm.cpp:20-51).                 *)
ImplementsInOrder == Abstract!Spec

(* Every cycle is booked exactly once: as an issue, a data stall or a cycle *)
(* without work, also when the counters wrap (mini_sm.cpp:55-72).          *)
CycleAccounting ==
    (counters.instructions + counters.stall_data + counters.stall_no_warp)
        % CounterMod = counters.cycles

(* Every issued instruction is either still in the pipe or was counted as  *)
(* one write-back: nothing is lost or counted twice between push() and     *)
(* the tick() that hands it out (mini_sm.cpp:37, 50, 71).                  *)
WritebackAccounting ==
    LET occupied == {s \in Stage : stages[s] # Nullopt}
    IN  (counters.wb_count + Cardinality(occupied)) % CounterMod
            = counters.instructions

(* Warp w issues within the next n ticks if its slot is left alone: its    *)
(* turn in the round-robin scan comes within n ticks or, while a register  *)
(* it reads is busy, every writer of that register leaves the pipe early   *)
(* enough for a whole round of the scan to follow.                         *)
IssueWithin(w, n) ==
    /\ HasInstr(w)
    /\ IF Eligible(w)
       THEN Distance(rr_ptr, w) < n
       ELSE n > Warps /\ \A s \in Stage : Blocks(s, w) => s + Warps < n

(* A warp that presents an instruction waits at most ExecLatency + Warps   *)
(* ticks: the bound holds whenever it has one, and every tick either       *)
(* issues the warp or brings the bound one tick nearer                     *)
(* (mini_sm.cpp:33-51, warp_scheduler.cpp:13-22).                          *)
BoundedWait ==
    [][Tick => \A w \in Warp :
           HasInstr(w) =>
               /\ IssueWithin(w, ExecLatency + Warps)
               /\ \A n \in 1 .. ExecLatency + Warps :
                      IssueWithin(w, n) => \/ out'.issued_warp = w
                                           \/ IssueWithin(w, n - 1)']_vars

(* A warp that has an instruction from some point on, even one that keeps  *)
(* changing, issues again and again.                                       *)
NoStarvation ==
    \A w \in Warp : <>[]HasInstr(w) => []<>(out.issued_warp = w)
=============================================================================
