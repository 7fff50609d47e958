# A TLA+ model of the SIMT Mini-SM

The repository holds one small GPU front end twice: as SystemVerilog (`rtl/`)
and as a C++ model that claims to follow it cycle by cycle (`sim/`), with a
command line program around the C++ model and an ALU datapath behind the RTL.
These modules model both, check each on small instances, check that they agree,
and prove every safety property they check, for every configuration.

Paths below are relative to the repository (`src/`).

## 1. The system

| Part | State | Operations | Correct when |
|---|---|---|---|
| Scoreboard (`sim/src/scoreboard.cpp`, `rtl/control/scoreboard.sv`) | a busy bit per warp and register | `can_issue`, `mark_busy`, `clear`, `reset` | a bit is set exactly while a write of that register is in flight |
| Warp table (`warp_table.cpp`, `wrap_table.sv`) | READY or STALLED per warp | `is_ready`, `set_ready`, `set_stalled`, `reset` | nobody is held back without a reason |
| Warp scheduler (`warp_scheduler.cpp`, `warp_scheduler.sv`) | round-robin pointer | `select`, `advance`, `reset` | picks an eligible warp if there is one; starves none |
| Execution pipe (`exec_pipe.cpp`, `exec_pipe.sv`) | `exec_latency` stages | `tick`, `push`, `reset` | every instruction leaves once, `exec_latency` ticks after it entered |
| Mini-SM (`mini_sm.cpp`, `mini_sm_top.sv`) | the above and the counters | `tick`, `reset` | RAW order is kept, no cycle is wasted, each is booked once, issues and write-backs balance |
| Divergence controller (`pdom_ctrl.cpp`; `pdom_ctrl.sv` on `simt_stack.sv`) | active mask, RUN / POP_WAIT, stack, popped entry | `tick` (a branch, the end of a path), `reset` | no lane is on two paths, none is lost, all of them come back |
| Divergence counters (`mini_sm_top.sv:295-326`) | two counters | each clock edge | they count what the controllers do |
| ALU datapath and execution mask update (`simd_lane_alu.sv`, `simt_alu_core.sv`, `simt_alu.sv`, `predicate_mask_unit.sv`, `simt_exec_mask_update.sv`) | none | a change of an input wire | a compare splits the mask, flags tell the result |
| Simulation program (`main.cpp`, `simt_types.cpp`) | the arguments, the Mini-SM, its two outputs | parse, configure, tick, print, write the file, the ways to end | arguments mean what the usage says, the throughput it announces, what a clean exit leaves behind |

Interaction.  The caller (a test, `main`, a testbench) owns one instruction slot
per warp and may change it between two cycles.  In a cycle the scheduler selects
a warp from a *snapshot* of slots, table and scoreboard; the pipe hands out a
write-back; the scoreboard clears the register written back and then marks that
of the issue; the pipe takes the issued instruction; the counters book the
cycle.  In the RTL the same things happen at one clock edge, all computed from
the registers before it.  Every warp has a divergence controller of its own,
fed with the branches the scheduler issues for that warp and with `path_done`
from outside; it hands back the lanes that the issued instruction runs on.  The
ALU never feeds back into the front end.  (The C++ Mini-SM has no divergence
controller: `PdomCtrl` is used by its unit test only.)

What is hard here.  There are no threads; the hard part is *time*: what is read
before and what after an update of the same cycle, instructions of several warps
in flight at once, a reset with the pipe half full, a registered output that is
one cycle late, events that meet in one cycle, and two implementations of all
of this.  Around it are the usual edges of a small program: arguments in an
order nobody tried, exceptions nobody catches, a file that is cut short.
`PROJECT.json` lists each hazard with its line and the properties that watch it.

## 2. The modules

| Module | Models | Notes |
|---|---|---|
| `SimtTypes` | `simt_types.h` | constants with their assumption, types, the wrapping increment |
| `Scoreboard`, `WarpTable`, `WarpScheduler`, `ExecPipe` | the four C++ parts | operators on the value of the part's state |
| `MiniSM` | `mini_sm.cpp` | the state machine: `Tick`, `Reset`, `PresentAny` (the caller fills, replaces or empties a slot); its refinement mapping to `InOrder` |
| `InOrder` | - | the abstract specification: what the front end promises, without scoreboard, pointer and pipeline |
| `MiniSMProofs` | - | the theorems about `MiniSM`; that it implements `InOrder` |
| `Simulation` | `main.cpp`, `write_file`, `ipc`, `warp_efficiency` | the whole program; it contains a `MiniSM` of the size the arguments ask for |
| `SimulationProofs` | - | the theorems about `Simulation`, the throughput law among them |
| `PdomCtrl` | `pdom_ctrl.cpp` | one controller, with every input in every cycle, and what `tick()` returns |
| `PdomLanes` | - | `PdomCtrl` with the history variables `finished` and `dropped`, and its fairness |
| `PdomProofs` | - | the theorems about `PdomLanes` |
| `SimtStack`, `PdomRtl` | `simt_stack.sv`, `pdom_ctrl.sv` | one clock edge as a function of a record of registers and the ports; the output ports |
| `PdomCtrlRtl` | one `pdom_ctrl` instance | with the refinement mapping to `PdomCtrl` |
| `PdomEdgeProofs` | - | lemmas about one clock edge of `PdomRtl`: what it does to the stack, to the lanes of the paths, and when it pushes or pops |
| `PdomRtlProofs` | - | that `pdom_ctrl.sv` implements `pdom_ctrl.cpp` |
| `MiniSMTop` | the front end of `mini_sm_top.sv` | wires as operators, `Clock` and `ResetEdge` as actions, refinement mapping to `MiniSM` |
| `MiniSMTopProofs` | - | that the RTL front end implements `MiniSM`, and what it inherits from it |
| `DivergenceTop` | all of `mini_sm_top.sv` but the ALU | extends `MiniSMTop` with a controller per warp and the divergence counters; the branches are those the scheduler issues |
| `DivergenceTopProofs` | - | the theorems about the whole top; it uses those of `MiniSMTop` and the lemmas of `PdomEdgeProofs` |
| `ExecMask` | the ALU datapath and the mask update | combinational: the state is the input wires, a step changes one of them |
| `ExecMaskProofs` | - | the theorems about `ExecMask` |
| `MC*` | - | programs, arguments and symmetry for TLC |

How state and actions correspond to the code:

* A C++ `vector<bool>` is the set of its true positions (`busy` holds *flat*
  positions `warp * Regs + reg`, so that the index arithmetic is part of the
  model); a `vector<optional<T>>` is a function with `Nullopt`; a lane mask is
  the set of its lanes.
* One `tick()` is one action, in the order of the code: the selection reads the
  state before the tick, the write-back clears before the issue marks.  `out` is
  the `TickOutput` that the call returned last.
* The counters of the C++ model are `uint64_t` and wrap at `CounterMod`, those of
  the RTL are `logic [31:0]` and wrap at `RtlCounterMod`, which divides it; small
  moduli let a run reach both wrap-arounds.  The history variable `wraps` of
  `MiniSMTop` has how often each RTL counter has wrapped, so that the refinement
  mapping can name the C++ counter of which it is the lower bits.  The two
  divergence counters, which the RTL alone has, wrap at `EventMod`.
* An instruction keeps its sources, destination and `has_dst`; nothing in the
  front end reads the rest.
* In the RTL modules every next value is computed from unprimed variables, as a
  non-blocking assignment is.  The state before the first reset, with undefined
  registers, is not modelled: both testbenches reset first.
* In `Simulation` an argument is a string, what `std::stoi` makes of it is the
  table `Numerals`, and `pc` says where `main` is.  What is printed or written is
  a sequence of lines, a line a key and a value.  With `WritesFail` it may be cut at
  any character, and `Written` has what is left: lines, and of the last one
  perhaps the key alone (`Nullopt`) or the leading digits of its number.  An exception that nobody catches ends in `"aborted"`; the undefined
  behaviour of `--exec-latency 0` ends in `"undefined"`.
* In `ExecMask` a word is a number below `2 * Half`, where `Half` stands for
  `2^(DATA_WIDTH - 1)`, and the flags of a lane are the set of those that are up.
  The bitwise operators are constants of the module, of which it assumes no more
  than that they make words of words; `MCExecMask` has the real ones.

Two operators of the same module often stand next to each other, one under a
comment "a bug to catch".  It is a plausible wrong version of the definition
that follows it; put in its place, it makes the property named in `PROJECT.json`
fail.  Nothing else refers to it.

## 3. What the runs check

`tlc -workers 2 -config <run>.cfg <module>`; "states" are distinct ones.

| Run | Module | Bounds | Question and result |
|---|---|---|---|
| `MiniSM` | `MCMiniSM` | 2 warps, 2 registers, latency 3, counters modulo 4, three instructions that overwrite a source or write nothing; 719 088 states | Busy bits are *exactly* the writes in flight (`BusyIsInFlight`, `InFlightIsBusy`), no instruction overtakes a pending write of its sources (`NoRawHazard`), each cycle is booked once (`CycleAccounting`), issued = written back + in the pipe (`WritebackAccounting`), and the front end implements `InOrder` (`ImplementsInOrder`): a warp waits exactly as long as an instruction in flight feeds it, and no cycle goes unused while a warp could issue.  Holds. |
| `MiniSMFairness` | `MCMiniSM` | 3 warps, 2 registers, latency 2; 7 209 states | Three warps, two instructions that block each other: `BoundedWait` and `NoStarvation`.  Holds. |
| `Simulation` | `MCSimulation` | all lists of up to four of 12 words and the command line of `perf_sweep.py`, 14 cycles by default, stdout and the file cut anywhere; 2 093 307 states | The arguments mean what the usage says, whatever their order (`ParsesAsMeant`); the issues after *every* tick follow the announced W/(L+1) (`IpcLaw`); after exit code 0 all cycles have been simulated, a file exists exactly if one was named, and every line of it and of stdout but the last is what was counted (`CleanExit`).  Holds. |
| `PdomLanes` | `PdomLanes` | 4 lanes, stack of 2; 1 453 states | Every input in every cycle, the stack overflowing too: paths disjoint and non-empty, no lane lost but by the full stack, stack depth below the number of lanes left, and, if paths end, every lane runs again and again (`LanesComeBack`).  Holds. |
| `PdomRtlSeparate` | `PdomCtrlRtl` | 4 lanes, stack of 2, 2 addresses; 30 137 states | `pdom_ctrl.sv` implements `pdom_ctrl.cpp` if no branch fires in the cycle of a `path_done` and its ports show in that cycle what the call of `tick()` returns (`CycleAccurate`).  Holds. |
| `MiniSMTop` | `MCMiniSMTop` | 2 warps, 2 registers, latency 2, C++ counters modulo 4, RTL counters modulo 2, one instruction with a destination and one without; 166 080 states | The RTL front end implements the C++ Mini-SM, its counters being the lower bits of the others through both wrap-arounds.  Holds. |
| `DivergenceTop` | `MCDivergenceTop` | 2 warps, 1 register, latency 1, 3 lanes, stack of 1, events modulo 2; 262 076 states up to lane symmetry | Every event the top has counted is on a stack, over, or a branch after which its controller did not go THEN (`EventsAccounted`; that the last kind exists is `DivergencePopWait`), and an issued instruction never runs on a lane that waits for the other side of a branch (`IssueKeepsPathsApart`), a branch or another instruction in the cycle of POP_WAIT included.  Holds. |
| `ExecMask` | `MCExecMask` | 2 lanes of 3 bits; 528 384 states up to lane symmetry | For all operands, masks and operations: the two sides of a compare split the mask exactly, exactly one flag of each lane tells its result, and compare and subtraction agree on the order of the operands.  Holds. |
| `RawAnyProgram` | `MCMiniSM` | 2 warps, 2 registers, latency 2, all instructions | `NoRawHazard` is **violated**, see 3.1. |
| `PdomRtlTogether` | `PdomCtrlRtl` | 3 lanes, stack of 2 | `CycleAccurate` is **violated** if a branch and a `path_done` meet. |
| `DivergencePopWait` | `MCDivergenceTop` | as `DivergenceTop` | `TrueEvents` is **violated** by a branch in POP_WAIT. |
| `DivergenceMasked` | `MCDivergenceTop` | as `DivergenceTop` | `MaskedCyclesExact` is **violated** on the ELSE path. |

Why the bounds are enough.  The front end treats all warps and all registers
alike; two of each are what it takes to tell "own" from "other", and the flat
index makes an aliasing of warp 0's last register with warp 1's first one
possible.  Latency 3 has an instruction that is new, one that is on its way and
one that leaves, and an issue that meets a write-back; the round-robin run uses
three warps because with two, "the next" and "the other" are the same.
`CounterMod` is 1 where counters do not matter, and otherwise small enough to
wrap with instructions in flight; in `MiniSMTop` it is twice `RtlCounterMod`, so
that the RTL counters wrap twice for each time that the others do.
`DivergenceTop` has one register, so that an instruction blocks the next one of
its warp, and the shortest pipe: how the front end comes to issue is the question
of the other runs, here it is what the controllers do while it issues in any
order.  Three lanes are the fewest that
allow a second divergence inside a path, and a stack of 1 overflows with it;
`PdomLanes` has four lanes on a stack of 2 for the same reason, one level
deeper.  Four arguments are two options with values, or any mixture in which a
value looks like an option; the words hold every option by one of its names,
numbers that are zero, negative, small, and larger than the latency, a word that
is no number and the empty one.  14 cycles with up to five warps (the words 2
and 5, and the default 4) and a latency of up to five are more than two periods
of the throughput law; the counters do not wrap there (`CounterMod` is 100).
Three bits have both ends of the signed range and products that lose bits, and
the lanes of the ALU do not see each other.
The sweep's 12 cycles, like the 14 by default, are a number of two
digits, which can lose one.

The runs of `Simulation` turn deadlock checking off, because `main` ends;
everywhere else it is on.  `DivergenceTop` and `ExecMask` use the symmetry of the
lanes: no definition singles one out, and both check safety only.

Fairness.  `LiveSpec` of `MiniSM` has weak fairness of `Tick` and no `Reset`:
`main.cpp` calls `tick()` in a loop that does nothing else, and every test does.
The caller need not present anything.  No fairness is assumed of the scheduler:
that it serves everyone is what `NoStarvation` finds, and `BoundedWait` says after
how many ticks without any fairness.  `FairSpec` of `PdomLanes` has weak fairness
of the tick in POP_WAIT, which needs no input, and of a tick with `path_done`: the
program on a path is finite, and whoever runs it drives `path_done` at its end, as
both testbenches do.  Nothing is assumed of the branches: that a lane at the
bottom of the stack cannot be overtaken for ever by new ones is what
`LanesComeBack` finds.  `Simulation` needs no fairness: it asks how the program
may end, not that it does.

### 3.1 Where the code and its words differ

* **RAW order (run `RawAnyProgram`).**  The scoreboard has one bit per register
  and `can_issue` looks at the sources only.  A warp may therefore issue two
  writes of one register (WAW) within `exec_latency` ticks; the write-back of the
  first clears the bit of the second, and a reader gets through too early.  The
  repository's own latency-hiding test issues such writes
  (`test_mini_sm.cpp:105-106`) without a reader behind them.  The RTL behaves
  alike, so parity is not affected.
* **Branch together with `path_done` (run `PdomRtlTogether`).**  C++ decides on
  the stack after the push, RTL on the stack before it.
* **ELSE path not counted (run `DivergenceMasked`).**  `diverged` is the stack's
  non-empty flag and goes down with the pop of the last deferred path.
* **Branch in POP_WAIT (run `DivergencePopWait`).**  The front end knows nothing of
  POP_WAIT and issues the branch, the top counts it, and the controller does not
  look at it.  `mini_sm_top.sv:75` and `:310` speak of "true divergence events".

Others were met in the reading and have no run of their own:

* `mini_sm.cpp:41-42` and `mini_sm.h:19-20` give the write-back priority over a
  same-cycle issue; the code, like `scoreboard.sv:9-11`, does the opposite, and
  must (the mutants of `MatchesCpp` and `ImplementsInOrder` are that priority).
* `warp_table.h:11-12` says that the Mini-SM stalls and readies warps;
  `set_stalled` and `set_ready` are never called.
* `pdom_ctrl.cpp:39-41` drops the ELSE lanes of a branch on a full stack;
  `PdomLanes` keeps track of them in `dropped`.
* `tb_perf_sweep.sv:8-9` expects an IPC of W/L where `main.cpp:7-10`, the README
  and `IpcLaw` have W/(L+1).
* The performance counters are 32 bits wide in the RTL (`mini_sm_top.sv:65-72`) and
  64 in C++ (`simt_types.h:48-57`): once one has passed 2^32 the two report
  different values, where `mini_sm.h:13` says "matching".  `MatchesCpp` is about the
  32 lower bits.
* `write_file` looks at the stream when it has opened it and never after: a full
  disk may end the file inside a number (`cycles=1` of `cycles=12`) while the exit
  code is 0, and `perf_sweep.py` reads what is left (lines 131-144 and 190).  That
  is why `CleanExit` vouches for every line *but the last*.
* `main.cpp:16` says that the file has "the same content" as the output;
  `simt_types.cpp:10-19` leaves `ipc` and `warp_efficiency` out, and so do
  `FileLines`.
* An exception leaves `main` when the file does not open, so the output that was
  already printed may be lost.
* `docs/phase4/wrap_table.md:37` recommends to unblock first and then to stall when
  both arrive in one cycle; in `wrap_table.sv:5-6` unblock wins.  Both ports are tied
  to 0.
* The README lists shifts among the operations; `simd_lane_alu.sv` has MUL in
  their place, as `docs/02_opcode_spec.md` says.

## 4. What is proved

All proofs are checked by `tlapm`.  Every invariant and every action or refinement
property of the passing runs is a theorem; only the two liveness properties are not.

`MiniSMProofs`, for every number of warps and registers, every
latency, every modulus and every program:

* `TypeCorrect`: `Spec => []TypeOK`.
* `NoStuckBusy`: `Spec => []BusyIsInFlight`.  Inductive together with `TypeOK`:
  a bit that survives a tick had a writer in flight that is not the one leaving
  (or it would have been cleared: this is where `Idx` must be injective,
  `IdxInjective`), and a bit set by the tick has the instruction just pushed.
* `InterlockExact`: for programs that are `Accumulating`, the invariant
  `InFlightIsBusy /\ OneWriter`.  `InFlightIsBusy` is not inductive alone: two
  writers of one register would lose the bit when the first leaves.  `OneWriter`
  (at most one stage writes a register) excludes them, and is kept because an
  accumulating instruction issues only if its destination, being one of its
  sources, is free (`IssuedIsFree`).
* `RawOrder`: `Spec => NoRawHazard` for the same programs, from `InterlockExact`.
  Without `Accumulating` it is false (`RawAnyProgram`).
* `WaitIsBounded`: `Spec => BoundedWait`, with no assumption on fairness or
  program.  The bound is `Distance(rr_ptr, w)` while the warp is eligible and the
  position of its last writer in the pipe while it is not; both lemmas
  `AdvanceShortens` and `WaitBoundShrinks` show that a tick brings it nearer.  It
  rests on `NoStuckBusy` (a blocked warp has a writer in the pipe) and on
  `AlwaysReady` (nothing stalls a warp).
* `CyclesBookedOnce`: `Spec => []CycleAccounting`.  `OneBucket` shows that exactly
  one of the three kinds of cycle is booked, although the code has no final
  `else`: if nothing issues and there is work, then some warp is blocked.
* `WritebacksAccounted`: `Spec => []WritebackAccounting`.  The equation is one of
  remainders, which says too little for a step; the inductive invariant `Pending`
  names the multiple of `CounterMod` that has been lost, so that a tick is an
  addition.  How many stages are occupied after the shift and the push is counted
  once, whatever is in them.
* `ImplementsInOrderSpec`: `Spec => ImplementsInOrder`, for programs that are
  `Accumulating`.  The mapping reads the pipe
  as the set of instructions in flight, each with the ticks that are left to it.
  `RunnableIsEligible` is where the scoreboard enters: because the busy bits are
  exactly the writes in flight (`NoStuckBusy`, `InterlockExact`), the warps it lets
  run are those that nothing in flight feeds.  `FlightNext` shows that a shift and
  a push are the ageing of that set, `ExitIsWriteback` that its instruction with no
  tick left is the write-back, and `TickImplements` puts a tick together from them.

`PdomProofs`, for every number of lanes, every depth and every input in every
tick:

* `PdomTypeCorrect`, `PathsNeverMeet`, `NoLaneIsLost`: `LSpec` implies `[]TypeOK`,
  `[]PathsAreDisjoint` and `[]LanesConserved`.  The inductive invariant is their
  conjunction, `Partition`.  `LanesConserved` needs `PathsAreDisjoint`: a path that
  ends may be counted as finished only because none of its lanes is deferred, and
  a pop brings back exactly what the stack gives up.  The argument is in
  three lemmas on stacks: `Push` and `Pop` on one entry, `Branch` for a branch
  that pushes, is one-sided, or finds the stack full.
* `StackStaysBelowLanes`: `LSpec => []StackBelowLanes`.  The paths are disjoint and
  not empty, so the lanes on them map *onto* the paths (`MoreLanesThanPaths`).
* `DeepStackDropsNoLane`: if `Depth >= Cardinality(Lane) - 1`, no lane is ever
  dropped.  The default `Config`, with eight lanes and eight entries, is of this
  kind; a branch that found such a stack full would need one path more than there
  are lanes.

`PdomRtlProofs`, for every number of lanes, every depth and all addresses:

* `PdomRtlTypeCorrect`: the count never passes `DEPTH` and the memory is indexed
  inside its bounds, for every input in every cycle (`StackEdgeType`).
* `RtlImplementsCpp`: `SeparateSpec => CycleAccurate`, the controller's state and
  what `tick()` returns (`PortsAreOutput`).  Only for edges where no branch meets a
  `path_done`: after one that does, the two controllers are in different states and
  there is nothing to compare.  `PushEdge`, `PopEdge` and
  `HoldEdge` give what an edge does to the stack's sequence of entries; `EdgeIsTick`
  goes through POP_WAIT, a path that ends (with and without an entry) and a path
  that goes on.  `Separate` is used in exactly one place, the second of these, and
  without it the theorem is false (`PdomRtlTogether`).

`MiniSMTopProofs`, for every configuration:

* `TopTypeCorrect`: `Spec => []TypeOK`, of the RTL registers.
* `TopImplementsCpp`: `Spec => MatchesCpp`.  One lemma per register says that what
  an edge computes from the wires before it is what the sequence of calls in
  `tick()` leaves; the scan of the scheduler, which the RTL unrolls, and the order
  of clear and mark are two that are not immediate.  The counters are the third:
  the C++ counter is `wraps * RtlCounterMod + counters`, and `CarryOver` shows that
  adding one to the lower part with a carry into the upper one is adding one modulo
  `CounterMod`, from nothing but `RtlCounterMod` dividing it (`TopAssumption`).  The
  theorem does not say that the counters are equal: past `RtlCounterMod` they are
  not.
* `TopInherits`, `TopRawOrder`: through that refinement the theorems of
  `MiniSMProofs` hold of the RTL, the last two for `Accumulating` programs.

`DivergenceTopProofs`, for every number of warps and lanes, every stack depth and
every order in which the scheduler issues:

* `WholeTopImplementsCpp`: `DSpec => MatchesCpp`: nothing of the controllers reaches
  back into the front end.
* `DivergenceTypeCorrect`: `DSpec => []DTypeOK`.
* `IssuedLanesDoNotWait`: `DSpec => []IssueKeepsPathsApart`.  That an issued lane
  does not wait is not inductive: what is popped becomes the mask that runs two
  edges later.  The inductive invariant is `AllPathsApart`: in every controller the
  running mask, the popped register while it counts, and the entries of the stack
  are pairwise disjoint and none is empty.
* `CountedEventsAccounted`: `DSpec => []EventsAccounted`.  `EventsPending` again names
  the multiple of the modulus.  Per edge at most one warp branches, but any
  number of warps may pop; the entries on all stacks are a set of pairs, and
  `PushesAndPops` says how its cardinality changes with the sets of warps that
  push and pop.  Nothing in the
  equation but the branch itself is taken from the counter's wires: whether a
  controller has split its warp, dropped lanes, or not followed the branch is read
  off its registers before and after the edge.  That the running mask is disjoint
  from what is popped and never empty (`AllPathsApart`) is what tells the cases
  apart.  The equation says where a counted event is; that every one is a split
  is false (`DivergencePopWait`).
* `ControllersImplementCpp`: the controller of any one warp, driven by the branches
  that the scheduler issues, makes only steps of `PdomCtrlRtl`'s `SeparateSpec`, so
  the theorems of `PdomRtlProofs` hold of it.

`ExecMaskProofs`, for every width, every number of lanes, all operands, masks and
operations: `DatapathTypeCorrect`, `MaskIsPartitioned`, `FlagsAreRight` and
`CompareMatchesSubtract` state the four invariants of the run.  The inductive
invariant is only that the wires are of their types, the rest is arithmetic about
two's complement: `WrapOnce` reads a sum or difference that has left the range, and
`BothFlagsTellSign` shows that negative and overflow together tell the sign of the
exact difference, which is what makes a compare agree with a subtraction.

`SimulationProofs`, for every list of arguments of any length, every table of
numerals, and through the arguments for every number of warps, every latency and
every number of cycles:

* `CommandLineIsMeant`: `Spec => []ParsesAsMeant`.  `IsValue` is recursive over the
  arguments; `IsValueIs` proves its equation, from the existence of such a function
  for every prefix (a shortest prefix without one leads to a contradiction, so the
  argument is by `LeastElement` and not by an induction theorem).  The inductive
  invariant `ParseOK` is a loop invariant: the argument at `i` is no value, nothing
  before `i` ends the program, and `config` is what the arguments before `i` mean
  (`Means`).  `MeansValue` and `MeansOther` are its two steps.
* `ExitIsClean`: `Spec => []CleanExit`, with writes that are cut anywhere, inside a
  line too.  The invariant `OutputOK` adds that the cycles never exceed those asked
  for, so that the counter cannot wrap, and that nothing has been written before the
  statistics were printed.  `WrittenIs` has what any cut leaves: a prefix, of which
  at most the last line has another value.
* `ThroughputLaw`: `Spec => []IpcLaw`.  The law itself is far from inductive: whether
  a cycle issues depends on the busy bits, the pipe and the pointer.  The invariant
  `Scheduled` gives all of them in closed form, as functions of the number of the
  cycle: cycle `c` issues if `c` modulo the period is below the burst, its turn is the
  number of issues before it modulo the warps, the stages hold the issues of the
  last `exec_latency` cycles, and exactly their destinations are busy.  Two facts of
  arithmetic carry the tick: the turns within a window differ (`TurnsDiffer`), so the
  pointer's warp is free in a cycle that should issue and a write-back clears
  nobody else's bit; and in a cycle that should not issue every warp has had its
  turn within the window (`EveryTurn`), so all are blocked.

Assumptions: `ConfigAssumption` (at least one warp, register and stage;
`exec_latency = 0` is undefined behaviour in `exec_pipe.cpp:12`),
`ProgramAssumption` (register numbers are below `regs`; the code does not check
them), `TopAssumption` (the C++ counters wrap when the RTL ones do, as 2^64
is a multiple of 2^32), `PdomAssumption` and `PdomRtlAssumption` (a lane, a stack entry and the
address 0 exist), `LanesAssumption` and `DivergenceAssumption` (the lanes are
finitely many; the counters have a modulus), `ExecMaskAssumption` (a lane exists,
the bitwise operators make words of words) and `SimulationAssumption` (arguments are
strings, a numeral is an integer below `CounterMod`, as an `int` is below 2^64, there
are at least two registers, as 16 are the default of `Config`, and `Nullopt` is none
of the values it stands in for).  None of them is about a reachable state.

Only model-checked: liveness (`NoStarvation`, `LanesComeBack`), which is out of the
prover's reach; `WaitIsBounded` is the provable core of the first, and
`NoLaneIsLost` with `StackStaysBelowLanes` is the safety part of the second.

## 5. What is not modelled

* `simt_branch_control.sv`, the phase 3 controller: the top does not instantiate
  it, and it reads and assigns a register `state` that it never declares, so it
  cannot be elaborated and has no behaviour to be faithful to.
* `set_ready` and `set_stalled` of the C++ warp table: no code under `sim/src`
  calls them, and the table is a private member of `MiniSM`.  The stall and
  unblock ports of `wrap_table.sv` are tied to 0 by the top.
* The ALU inside `mini_sm_top.sv`: nothing reads its result.  `DivergenceTop` has
  the lane mask it is given, `ExecMask` the ALU itself.
* What `std::stoi` makes of every string: the table `Numerals` says which strings
  of a run are numbers.  With `--exec-latency 0` the pipe has no stage and the code
  reads and writes outside an empty vector; the model says so and stops there.
* What is left of a quotient (`ipc`, `warp_efficiency`) that is cut, which no script
  reads; a file that fails to open has no content at all.
* Memory: a huge `--warps` ends in `bad_alloc`, or overflows the `int` product in
  `scoreboard.cpp:8`.  `Configure` succeeds for every number of warps, and
  `ConfigureThrows` is for the negative ones.
* The 32-bit representation of masks in `pdom_ctrl.cpp`, which is undefined for 32
  lanes: masks are sets.
* Word widths above those of the runs are not model-checked; the two parts that
  wrap (counters, ALU) have their width as a constant, and the proofs are for every
  value of it.
* The sweep scripts, but for the command line that `perf_sweep.py` builds; and the
  tests and testbenches, whose inputs
  are the environment of the models; the four-bit ALU and the empty files from before the
  SIMT design.

## 6. Plan

Done: the C++ front end and its abstract specification, the C++ divergence
controller, the RTL of both with its refinements, the whole top without the ALU,
the ALU and the mask update, the simulation program; with proofs of every safety
property that the runs check.

What is left to strengthen:

1. `IssuedLanesDoNotWait` and `CountedEventsAccounted` for a top in which a path may
   end in the cycle of a branch: a model of its own, because `DClock` follows the
   testbenches, which never do that.
2. A lane that waits comes back within a number of ended paths that the depth
   bounds, as a step property: the provable core of `LanesComeBack`, as
   `BoundedWait` is of `NoStarvation`.
