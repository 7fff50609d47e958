---------------------------- MODULE MiniSMProofs ----------------------------
(***************************************************************************)
(* Proofs about MiniSM for every configuration and every program.          *)
(***************************************************************************)
EXTENDS MiniSM, FiniteSetTheorems, TLAPS

-----------------------------------------------------------------------------
(* Facts about the components.                                             *)

LEMMA IdxType ==
    ASSUME NEW w \in Warp, NEW r \in Reg
    PROVE  Idx(w, r) \in BusyIndex
<1>1. (w + 1) * Regs <= Warps * Regs
  BY ConfigAssumption DEF Warp
<1> QED
  BY <1>1, ConfigAssumption DEF Idx, BusyIndex, Warp, Reg

(* The flat index is injective: two warps never share a busy bit.          *)
LEMMA IdxInjective ==
    ASSUME NEW w \in Warp, NEW r \in Reg, NEW v \in Warp, NEW q \in Reg,
           Idx(w, r) = Idx(v, q)
    PROVE  w = v /\ r = q
<1>1. ASSUME NEW a \in Warp, NEW b \in Warp, NEW i \in Reg, NEW j \in Reg, a < b
      PROVE  Idx(a, i) < Idx(b, j)
  <2>1. (a + 1) * Regs <= b * Regs
    BY <1>1, ConfigAssumption DEF Warp
  <2> QED
    BY <2>1, ConfigAssumption DEF Idx, Warp, Reg
<1>2. ~(w < v) /\ ~(v < w)
  <2>1. Idx(w, r) \in Int /\ Idx(v, q) \in Int
    BY ConfigAssumption DEF Idx, Warp, Reg
  <2> QED
    BY <1>1, <2>1
<1>3. w = v
  BY <1>2, ConfigAssumption DEF Warp
<1> QED
  BY <1>3, ConfigAssumption DEF Idx, Warp, Reg

(* select() returns an eligible warp, or nothing if there is none.         *)
LEMMA SelectsSound ==
    ASSUME NEW rr, NEW eligible, NEW issued, Selects(rr, eligible, issued)
    PROVE  \/ issued = Nullopt /\ eligible = {}
           \/ issued \in eligible
BY DEF Selects

LEMMA AdvanceType ==
    ASSUME NEW w \in Warp
    PROVE  Advance(w) \in Warp
BY ConfigAssumption DEF Advance, Warp

(* What one tick leaves in each stage.                                     *)
LEMMA StagesNext ==
    ASSUME TypeOK, NEW issued \in Optional(Warp), TickIssuing(issued)
    PROVE  /\ stages' \in [Stage -> Optional(WbResult)]
           /\ \A s \in Stage : s # ExecLatency - 1 => stages'[s] = stages[s + 1]
           /\ issued = Nullopt => stages'[ExecLatency - 1] = Nullopt
           /\ issued # Nullopt => stages'[ExecLatency - 1]
                                    = [warp_id |-> issued,
                                       dst     |-> warp_instrs[issued].dst,
                                       has_dst |-> warp_instrs[issued].has_dst]
<1> DEFINE entry == [warp_id |-> issued, dst |-> warp_instrs[issued].dst,
                     has_dst |-> warp_instrs[issued].has_dst]
<1>1. ExecLatency - 1 \in Stage /\ \A s \in Stage : s # ExecLatency - 1 => s + 1 \in Stage
  BY ConfigAssumption DEF Stage
<1>2. stages \in [Stage -> Optional(WbResult)]
  BY DEF TypeOK
<1>3. Shift(stages) \in [Stage -> Optional(WbResult)]
  BY <1>1, <1>2 DEF Shift, Optional
<1>4. CASE issued = Nullopt
  <2>1. stages' = Shift(stages)
    BY <1>4 DEF TickIssuing, PipeNext
  <2> QED
    BY <1>1, <1>3, <1>4, <2>1 DEF Shift
<1>5. CASE issued # Nullopt
  <2>1. issued \in Warp /\ warp_instrs[issued] \in InstrMeta
    <3>1. issued \in EligibleWarps
      BY <1>5, SelectsSound DEF TickIssuing
    <3> QED
      BY <3>1, ProgramAssumption
      DEF EligibleWarps, Eligible, HasWork, HasInstr, TypeOK, Optional
  <2>2. entry \in WbResult
    BY <2>1 DEF InstrMeta, WbResult
  <2>3. stages' = Push(Shift(stages), entry)
    BY <1>5 DEF TickIssuing, PipeNext
  <2> QED
    BY <1>1, <1>3, <1>5, <2>2, <2>3 DEF Push, Shift, Optional
<1> QED
  BY <1>4, <1>5

(* What one tick does to the scoreboard.                                   *)
LEMMA BusyNext ==
    ASSUME TypeOK, NEW issued \in Optional(Warp), TickIssuing(issued),
           NEW w \in Warp, NEW r \in Reg
    PROVE  /\ Idx(w, r) \in busy' =>
                \/ /\ issued = w
                   /\ warp_instrs[w].has_dst
                   /\ warp_instrs[w].dst = r
                \/ Idx(w, r) \in busy /\ ~InFlight(0, w, r)
           /\ Idx(w, r) \in busy /\ ~InFlight(0, w, r) => Idx(w, r) \in busy'
           /\ issued = w /\ warp_instrs[w].has_dst /\ warp_instrs[w].dst = r
                => Idx(w, r) \in busy'
<1> DEFINE wb == Exiting(stages)
           cleared == IF wb # Nullopt /\ wb.has_dst
                      THEN Clear(busy, wb.warp_id, wb.dst) ELSE busy
<1>1. 0 \in Stage /\ wb \in Optional(WbResult)
  BY ConfigAssumption DEF TypeOK, Stage, Exiting
<1>2. Idx(w, r) \in cleared <=> Idx(w, r) \in busy /\ ~InFlight(0, w, r)
  <2>1. CASE wb # Nullopt /\ wb.has_dst
    <3>1. wb.warp_id \in Warp /\ wb.dst \in Reg
      BY <1>1, <2>1 DEF Optional, WbResult
    <3>2. Idx(wb.warp_id, wb.dst) = Idx(w, r) <=> wb.warp_id = w /\ wb.dst = r
      BY <3>1, IdxInjective
    <3> QED
      BY <2>1, <3>2 DEF Clear, InFlight, Exiting
  <2>2. CASE ~(wb # Nullopt /\ wb.has_dst)
    BY <2>2 DEF InFlight, Exiting
  <2> QED
    BY <2>1, <2>2
<1>3. issued # Nullopt => issued \in Warp /\ warp_instrs[issued] \in InstrMeta
  <2>1. issued # Nullopt => issued \in EligibleWarps
    BY SelectsSound DEF TickIssuing
  <2> QED
    BY <2>1, ProgramAssumption
    DEF EligibleWarps, Eligible, HasWork, HasInstr, TypeOK, Optional
<1>4. w # Nullopt
  BY ConfigAssumption
<1>5. busy' = IF issued # Nullopt /\ warp_instrs[issued].has_dst
              THEN MarkBusy(cleared, issued, warp_instrs[issued].dst)
              ELSE cleared
  BY DEF TickIssuing, ScoreboardNext
<1> HIDE DEF cleared, wb
<1>6. CASE issued # Nullopt /\ warp_instrs[issued].has_dst
  <2>1. issued \in Warp /\ warp_instrs[issued].dst \in Reg
    BY <1>3, <1>6 DEF InstrMeta
  <2>2. Idx(issued, warp_instrs[issued].dst) = Idx(w, r)
          <=> issued = w /\ warp_instrs[issued].dst = r
    BY <2>1, IdxInjective
  <2> QED
    BY <1>2, <1>5, <1>6, <2>2 DEF MarkBusy
<1>7. CASE ~(issued # Nullopt /\ warp_instrs[issued].has_dst)
  BY <1>2, <1>4, <1>5, <1>7
<1> QED
  BY <1>6, <1>7

-----------------------------------------------------------------------------
(* Type correctness: every index a tick uses is within its vector          *)
(* (scoreboard.h:38, warp_table.cpp:18, exec_pipe.cpp:22), for every       *)
(* configuration and every program.                                        *)
LEMMA TickType ==
    ASSUME TypeOK, Tick
    PROVE  TypeOK'
<1> PICK issued \in Optional(Warp) : TickIssuing(issued)
  BY DEF Tick
<1>1. warp_instrs' = warp_instrs /\ state' = state
  BY DEF TickIssuing
<1>2. issued # Nullopt => issued \in Warp /\ warp_instrs[issued] \in InstrMeta
  <2>1. issued # Nullopt => issued \in EligibleWarps
    BY SelectsSound DEF TickIssuing
  <2> QED
    BY <2>1, ProgramAssumption
    DEF EligibleWarps, Eligible, HasWork, HasInstr, TypeOK, Optional
<1>3. Exiting(stages) \in Optional(WbResult)
  BY ConfigAssumption DEF Exiting, TypeOK, Stage
<1>4. busy' \in SUBSET BusyIndex
  <2> DEFINE wb == Exiting(stages)
             cleared == IF wb # Nullopt /\ wb.has_dst
                        THEN Clear(busy, wb.warp_id, wb.dst) ELSE busy
  <2>1. cleared \in SUBSET BusyIndex
    BY DEF TypeOK, Clear
  <2>2. busy' = IF issued # Nullopt /\ warp_instrs[issued].has_dst
                THEN MarkBusy(cleared, issued, warp_instrs[issued].dst)
                ELSE cleared
    BY DEF TickIssuing, ScoreboardNext
  <2>3. issued # Nullopt => Idx(issued, warp_instrs[issued].dst) \in BusyIndex
    BY <1>2, IdxType DEF InstrMeta
  <2> HIDE DEF cleared
  <2> QED
    BY <2>1, <2>2, <2>3 DEF MarkBusy
<1>5. rr_ptr' \in Warp
  BY <1>2, AdvanceType DEF TickIssuing, TypeOK
<1>6. stages' \in [Stage -> Optional(WbResult)]
  BY StagesNext
<1>7. counters' \in PerfCounters
  <2> DEFINE counted == Counted(Exiting(stages), issued)
  <2>1. \A c \in Counter : Inc(c) \in Counter
    BY ConfigAssumption DEF Counter, Inc
  <2>2. counters' = [c \in DOMAIN counters |->
                       IF c \in counted THEN Inc(counters[c]) ELSE counters[c]]
    BY DEF TickIssuing, CountersNext
  <2> HIDE DEF counted
  <2> QED
    BY <2>1, <2>2 DEF TypeOK, PerfCounters
<1>8. out' \in TickOutput
  BY <1>3 DEF TickIssuing, TickOutput
<1> QED
  BY <1>1, <1>4, <1>5, <1>6, <1>7, <1>8 DEF TypeOK

THEOREM TypeCorrect == Spec => []TypeOK
<1>1. Constructed => /\ busy \in SUBSET BusyIndex /\ state \in [Warp -> WarpState]
                     /\ rr_ptr \in Warp /\ stages \in [Stage -> Optional(WbResult)]
                     /\ counters \in PerfCounters /\ out \in TickOutput
  BY ConfigAssumption
  DEF Constructed, NothingBusy, AllReady, WarpState, Warp, EmptyPipe, Optional,
      ZeroCounters, PerfCounters, Counter, TickOutput
<1>2. Init => TypeOK
  BY <1>1 DEF Init, TypeOK, Optional
<1>3. TypeOK /\ [Next]_vars => TypeOK'
  <2> SUFFICES ASSUME TypeOK, [Next]_vars PROVE TypeOK'
    OBVIOUS
  <2>1. CASE PresentAny
    BY <2>1 DEF PresentAny, Present, TypeOK
  <2>2. CASE Tick
    BY <2>2, TickType
  <2>3. CASE Reset
    BY <2>3, ConfigAssumption
    DEF Reset, TypeOK, NothingBusy, AllReady, WarpState, Warp, EmptyPipe, Optional,
        ZeroCounters, PerfCounters, Counter
  <2>4. CASE UNCHANGED vars
    BY <2>4 DEF vars, TypeOK
  <2> QED
    BY <2>1, <2>2, <2>3, <2>4 DEF Next
<1> QED
  BY <1>2, <1>3, PTL DEF Spec

-----------------------------------------------------------------------------
(* A busy bit always has its write in the pipe: for every program, no warp *)
(* waits for a write-back that will not come.                              *)
LEMMA TickKeepsBusyInFlight ==
    ASSUME TypeOK, BusyIsInFlight, Tick
    PROVE  BusyIsInFlight'
<1> PICK issued \in Optional(Warp) : TickIssuing(issued)
  BY DEF Tick
<1> SUFFICES ASSUME NEW w \in Warp, NEW r \in Reg, Idx(w, r) \in busy'
             PROVE  \E s \in Stage : InFlight(s, w, r)'
  BY DEF BusyIsInFlight
<1>1. w # Nullopt /\ ExecLatency - 1 \in Stage
  BY ConfigAssumption DEF Stage
<1>2. CASE issued = w /\ warp_instrs[w].has_dst /\ warp_instrs[w].dst = r
  <2>1. stages'[ExecLatency - 1]
          = [warp_id |-> w, dst |-> warp_instrs[w].dst, has_dst |-> warp_instrs[w].has_dst]
    BY <1>1, <1>2, StagesNext
  <2>2. warp_instrs[w] \in InstrMeta
    <3>1. w \in EligibleWarps
      BY <1>1, <1>2, SelectsSound DEF TickIssuing
    <3> QED
      BY <3>1, ProgramAssumption
      DEF EligibleWarps, Eligible, HasWork, HasInstr, TypeOK, Optional
  <2>3. stages'[ExecLatency - 1] \in WbResult
    BY <2>1, <2>2 DEF WbResult, InstrMeta
  <2>4. InFlight(ExecLatency - 1, w, r)'
    <3>1. stages'[ExecLatency - 1] # Nullopt
      BY <2>3, ConfigAssumption
    <3> QED
      BY <1>2, <2>1, <3>1 DEF InFlight
  <2> QED
    BY <1>1, <2>4
<1>3. CASE Idx(w, r) \in busy /\ ~InFlight(0, w, r)
  <2>1. PICK s \in Stage : InFlight(s, w, r)
    BY <1>3 DEF BusyIsInFlight
  <2>2. s - 1 \in Stage /\ s - 1 # ExecLatency - 1 /\ (s - 1) + 1 = s
    BY <1>3, <2>1, ConfigAssumption DEF Stage
  <2>3. stages'[s - 1] = stages[s]
    BY <2>2, StagesNext
  <2>4. InFlight(s - 1, w, r)'
    BY <2>1, <2>3 DEF InFlight
  <2> QED
    BY <2>2, <2>4
<1> QED
  BY <1>2, <1>3, BusyNext

THEOREM NoStuckBusy == Spec => []BusyIsInFlight
<1>1. Init => BusyIsInFlight
  BY DEF Init, Constructed, NothingBusy, BusyIsInFlight
<1>2. TypeOK /\ BusyIsInFlight /\ [Next]_vars => BusyIsInFlight'
  <2> SUFFICES ASSUME TypeOK, BusyIsInFlight, [Next]_vars PROVE BusyIsInFlight'
    OBVIOUS
  <2>1. CASE PresentAny
    BY <2>1 DEF PresentAny, Present, BusyIsInFlight, InFlight
  <2>2. CASE Tick
    BY <2>2, TickKeepsBusyInFlight
  <2>3. CASE Reset
    BY <2>3 DEF Reset, NothingBusy, BusyIsInFlight
  <2>4. CASE UNCHANGED vars
    BY <2>4 DEF vars, BusyIsInFlight, InFlight
  <2> QED
    BY <2>1, <2>2, <2>3, <2>4 DEF Next
<1> QED
  BY <1>1, <1>2, TypeCorrect, PTL DEF Spec

-----------------------------------------------------------------------------
(* The scoreboard only looks at source registers.  It protects a write     *)
(* against a second one in flight when the writer also reads its           *)
(* destination; then at most one write of a register is ever in flight,    *)
(* its write-back is the one that clears the bit, and RAW order holds.     *)
OneWriter ==
    \A s, t \in Stage, w \in Warp, r \in Reg :
        InFlight(s, w, r) /\ InFlight(t, w, r) => s = t

(* A write in flight after a tick was in flight before, one stage further  *)
(* from the exit, or has just been issued.                                 *)
LEMMA InFlightNext ==
    ASSUME TypeOK, NEW issued \in Optional(Warp), TickIssuing(issued),
           NEW s \in Stage, NEW w \in Warp, NEW r \in Reg, InFlight(s, w, r)'
    PROVE  \/ s + 1 \in Stage /\ InFlight(s + 1, w, r)
           \/ /\ s = ExecLatency - 1
              /\ issued = w
              /\ warp_instrs[w].has_dst
              /\ warp_instrs[w].dst = r
<1>1. CASE s # ExecLatency - 1
  <2>1. s + 1 \in Stage
    BY <1>1, ConfigAssumption DEF Stage
  <2>2. stages'[s] = stages[s + 1]
    BY <1>1, StagesNext
  <2> QED
    BY <2>1, <2>2 DEF InFlight
<1>2. CASE s = ExecLatency - 1
  <2>1. issued # Nullopt
    BY <1>2, StagesNext DEF InFlight
  <2>2. stages'[s] = [warp_id |-> issued, dst |-> warp_instrs[issued].dst,
                      has_dst |-> warp_instrs[issued].has_dst]
    BY <1>2, <2>1, StagesNext
  <2> QED
    BY <1>2, <2>2 DEF InFlight
<1> QED
  BY <1>1, <1>2

LEMMA IssuedIsFree ==
    ASSUME Accumulating, TypeOK, NEW w \in Warp, TickIssuing(w),
           warp_instrs[w].has_dst
    PROVE  Idx(w, warp_instrs[w].dst) \notin busy
<1>1. w \in EligibleWarps
  BY SelectsSound, ConfigAssumption DEF TickIssuing
<1>2. warp_instrs[w] \in Program
  BY <1>1 DEF EligibleWarps, Eligible, HasWork, HasInstr, TypeOK, Optional
<1> QED
  BY <1>1, <1>2
  DEF EligibleWarps, Eligible, NoHazard, CanIssue, Accumulating

LEMMA TickKeepsInterlock ==
    ASSUME Accumulating, TypeOK, InFlightIsBusy, OneWriter, Tick
    PROVE  InFlightIsBusy' /\ OneWriter'
<1> PICK issued \in Optional(Warp) : TickIssuing(issued)
  BY DEF Tick
<1>1. ASSUME NEW s \in Stage, NEW w \in Warp, NEW r \in Reg, InFlight(s, w, r)'
      PROVE  Idx(w, r) \in busy'
  <2>1. CASE s + 1 \in Stage /\ InFlight(s + 1, w, r)
    <3>1. Idx(w, r) \in busy
      BY <2>1 DEF InFlightIsBusy
    <3>2. 0 \in Stage /\ s + 1 # 0
      BY <1>1, ConfigAssumption DEF Stage
    <3>3. ~InFlight(0, w, r)
      BY <2>1, <3>2 DEF OneWriter
    <3> QED
      BY <3>1, <3>3, BusyNext
  <2>2. CASE issued = w /\ warp_instrs[w].has_dst /\ warp_instrs[w].dst = r
    BY <2>2, BusyNext
  <2> QED
    BY <1>1, <2>1, <2>2, InFlightNext
<1>2. ASSUME NEW s \in Stage, NEW t \in Stage, NEW w \in Warp, NEW r \in Reg,
             InFlight(s, w, r)', InFlight(t, w, r)'
      PROVE  s = t
  <2>1. ASSUME issued = w, warp_instrs[w].has_dst, warp_instrs[w].dst = r
        PROVE  \A x \in Stage : ~InFlight(x, w, r)
    BY <2>1, IssuedIsFree DEF InFlightIsBusy
  <2>2. CASE issued = w /\ warp_instrs[w].has_dst /\ warp_instrs[w].dst = r
    BY <1>2, <2>1, <2>2, InFlightNext
  <2>3. CASE ~(issued = w /\ warp_instrs[w].has_dst /\ warp_instrs[w].dst = r)
    <3>1. s + 1 \in Stage /\ t + 1 \in Stage /\ s + 1 = t + 1
      BY <1>2, <2>3, InFlightNext DEF OneWriter
    <3> QED
      BY <3>1 DEF Stage
  <2> QED
    BY <2>2, <2>3
<1> QED
  BY <1>1, <1>2 DEF InFlightIsBusy, OneWriter

THEOREM InterlockExact ==
    ASSUME Accumulating
    PROVE  Spec => [](InFlightIsBusy /\ OneWriter)
<1>1. ASSUME stages = EmptyPipe PROVE InFlightIsBusy /\ OneWriter
  BY <1>1 DEF EmptyPipe, InFlightIsBusy, OneWriter, InFlight
<1>2. Init => InFlightIsBusy /\ OneWriter
  BY <1>1 DEF Init, Constructed
<1>3. TypeOK /\ InFlightIsBusy /\ OneWriter /\ [Next]_vars
        => (InFlightIsBusy /\ OneWriter)'
  <2> SUFFICES ASSUME TypeOK, InFlightIsBusy, OneWriter, [Next]_vars
               PROVE  InFlightIsBusy' /\ OneWriter'
    OBVIOUS
  <2>1. CASE PresentAny
    BY <2>1 DEF PresentAny, Present, InFlightIsBusy, OneWriter, InFlight
  <2>2. CASE Tick
    BY <2>2, TickKeepsInterlock
  <2>3. CASE Reset
    BY <2>3 DEF Reset, EmptyPipe, InFlightIsBusy, OneWriter, InFlight
  <2>4. CASE UNCHANGED vars
    BY <2>4 DEF vars, InFlightIsBusy, OneWriter, InFlight
  <2> QED
    BY <2>1, <2>2, <2>3, <2>4 DEF Next
<1> QED
  BY <1>2, <1>3, TypeCorrect, PTL DEF Spec

(* RAW order, for every configuration: a program that accumulates never    *)
(* issues past an unfinished write of one of its sources.                  *)
THEOREM RawOrder ==
    ASSUME Accumulating
    PROVE  Spec => NoRawHazard
<1> DEFINE Issue == \A w \in Warp : TickIssuing(w) => \A s \in Stage : ~Blocks(s, w)
<1>1. TypeOK /\ InFlightIsBusy => Issue
  <2> SUFFICES ASSUME TypeOK, InFlightIsBusy, NEW w \in Warp, TickIssuing(w),
                      NEW s \in Stage
               PROVE  ~Blocks(s, w)
    OBVIOUS
  <2>1. w \in EligibleWarps
    BY SelectsSound, ConfigAssumption DEF TickIssuing
  <2>2. warp_instrs[w] \in InstrMeta
    BY <2>1, ProgramAssumption
    DEF EligibleWarps, Eligible, HasWork, HasInstr, TypeOK, Optional
  <2> QED
    BY <2>1, <2>2
    DEF EligibleWarps, Eligible, NoHazard, CanIssue, Blocks, InFlightIsBusy, InstrMeta
<1> HIDE DEF Issue
<1>2. Spec => [][Issue]_vars
  BY <1>1, TypeCorrect, InterlockExact, PTL DEF Spec
<1> QED
  BY <1>2 DEF Issue, NoRawHazard

-----------------------------------------------------------------------------
(* Bounded waiting.  First the arithmetic of the scan: Distance is the     *)
(* position of a warp in it, and an issue at position i brings every warp  *)
(* behind it i + 1 positions nearer.                                       *)
LEMMA ModWarps ==
    ASSUME NEW x \in Nat, x < 2 * Warps
    PROVE  x % Warps = IF x < Warps THEN x ELSE x - Warps
BY ConfigAssumption

LEMMA ScannedIs ==
    ASSUME NEW rr \in Warp, NEW i \in Warp
    PROVE  Scanned(rr, i) = IF rr + i < Warps THEN rr + i ELSE rr + i - Warps
<1> DEFINE x == rr + i
<1>1. x \in Nat /\ x < 2 * Warps
  BY ConfigAssumption DEF Warp
<1>2. Scanned(rr, i) = x % Warps
  BY Zenon DEF Scanned
<1> HIDE DEF x
<1>3. Scanned(rr, i) = IF x < Warps THEN x ELSE x - Warps
  BY <1>1, <1>2, ModWarps, Zenon
<1> QED
  BY <1>3, ConfigAssumption DEF x, Warp

LEMMA DistanceIs ==
    ASSUME NEW rr \in Warp, NEW w \in Warp
    PROVE  Distance(rr, w) = IF w < rr THEN w + Warps - rr ELSE w - rr
<1> DEFINE x == w + Warps - rr
<1>1. x \in Nat /\ x < 2 * Warps
  BY ConfigAssumption DEF Warp
<1>2. (IF x < Warps THEN x ELSE x - Warps) = IF w < rr THEN w + Warps - rr ELSE w - rr
  BY ConfigAssumption DEF Warp
<1>3. Distance(rr, w) = x % Warps
  BY Zenon DEF Distance
<1> HIDE DEF x
<1>4. Distance(rr, w) = IF x < Warps THEN x ELSE x - Warps
  BY <1>1, <1>3, ModWarps, Zenon
<1> QED
  BY <1>2, <1>4, Zenon DEF x

LEMMA AdvanceIs ==
    ASSUME NEW w \in Warp
    PROVE  Advance(w) = IF w + 1 < Warps THEN w + 1 ELSE 0
<1> DEFINE x == w + 1
<1>1. x \in Nat /\ x < 2 * Warps /\ (x < Warps \/ x - Warps = 0)
  BY ConfigAssumption DEF Warp
<1>2. Advance(w) = x % Warps
  BY Zenon DEF Advance
<1> HIDE DEF x
<1>3. Advance(w) = IF x < Warps THEN x ELSE x - Warps
  BY <1>1, <1>2, ModWarps, Zenon
<1> QED
  BY <1>1, <1>3, Zenon DEF x

LEMMA DistanceIsPosition ==
    ASSUME NEW rr \in Warp, NEW w \in Warp
    PROVE  Distance(rr, w) \in Warp /\ Scanned(rr, Distance(rr, w)) = w
<1>1. Distance(rr, w) = IF w < rr THEN w + Warps - rr ELSE w - rr
  BY DistanceIs, Zenon
<1>2. Distance(rr, w) \in Warp
  BY <1>1, ConfigAssumption DEF Warp
<1> DEFINE i == Distance(rr, w)
<1>3. Scanned(rr, i) = IF rr + i < Warps THEN rr + i ELSE rr + i - Warps
  BY <1>2, ScannedIs, Zenon
<1> QED
  BY <1>1, <1>3, ConfigAssumption DEF Warp

LEMMA AdvanceShortens ==
    ASSUME NEW rr \in Warp, NEW w \in Warp, NEW i \in Warp,
           i < Distance(rr, w)
    PROVE  Distance(Advance(Scanned(rr, i)), w) = Distance(rr, w) - i - 1
<1>1. Scanned(rr, i) = IF rr + i < Warps THEN rr + i ELSE rr + i - Warps
  BY ScannedIs, Zenon
<1>2. Scanned(rr, i) \in Warp
  BY <1>1, ConfigAssumption DEF Warp
<1> DEFINE next == Advance(Scanned(rr, i))
<1>3. next = IF Scanned(rr, i) + 1 < Warps THEN Scanned(rr, i) + 1 ELSE 0
  BY <1>2, AdvanceIs, Zenon
<1>4. next \in Warp
  BY <1>2, AdvanceType
<1>5. Distance(rr, w) = IF w < rr THEN w + Warps - rr ELSE w - rr
  BY DistanceIs, Zenon
<1> HIDE DEF next
<1>6. Distance(next, w) = IF w < next THEN w + Warps - next ELSE w - next
  BY <1>4, DistanceIs, Zenon
<1> QED
  BY <1>1, <1>3, <1>5, <1>6, ConfigAssumption DEF Warp, next

(* MiniSM never stalls a warp in the warp table.                           *)
LEMMA AlwaysReady == Spec => [](state = AllReady)
<1>1. Init => state = AllReady
  BY DEF Init, Constructed
<1>2. state = AllReady /\ [Next]_vars => (state = AllReady)'
  BY DEF Next, PresentAny, Present, Tick, TickIssuing, Reset, vars, AllReady
<1> QED
  BY <1>1, <1>2, PTL DEF Spec

LEMMA WaitBoundHolds ==
    ASSUME TypeOK, NEW w \in Warp, HasInstr(w)
    PROVE  IssueWithin(w, ExecLatency + Warps)
<1>1. Distance(rr_ptr, w) \in Warp
  BY DistanceIsPosition DEF TypeOK
<1> QED
  BY <1>1, ConfigAssumption DEF IssueWithin, Warp, Stage

LEMMA WaitBoundShrinks ==
    ASSUME TypeOK, BusyIsInFlight', state = AllReady,
           NEW issued \in Optional(Warp), TickIssuing(issued),
           NEW w \in Warp, issued # w,
           NEW n \in 1 .. ExecLatency + Warps, IssueWithin(w, n)
    PROVE  IssueWithin(w, n - 1)'
<1>1. HasInstr(w)' /\ IsReady(state, w)' /\ warp_instrs' = warp_instrs
  BY DEF IssueWithin, TickIssuing, HasInstr, IsReady, AllReady
<1>2. rr_ptr \in Warp /\ rr_ptr' \in Warp
  BY TickType DEF Tick, TypeOK
<1>3. Distance(rr_ptr, w)' \in Warp
  BY <1>2, DistanceIsPosition
<1>4. warp_instrs[w] \in InstrMeta
  BY ProgramAssumption DEF IssueWithin, HasInstr, TypeOK, Optional
<1>5. CASE Eligible(w)
  <2>1. PICK i \in Warp : /\ issued = Scanned(rr_ptr, i)
                          /\ \A j \in 0 .. i - 1 : Scanned(rr_ptr, j) \notin EligibleWarps
    BY <1>5 DEF TickIssuing, Selects, EligibleWarps
  <2>2. i < Distance(rr_ptr, w)
    <3>1. Distance(rr_ptr, w) \in Warp /\ Scanned(rr_ptr, Distance(rr_ptr, w)) = w
      BY <1>2, DistanceIsPosition
    <3>2. w \in EligibleWarps
      BY <1>5 DEF EligibleWarps
    <3> QED
      BY <2>1, <3>1, <3>2, ConfigAssumption DEF Warp
  <2>3. rr_ptr' = Advance(Scanned(rr_ptr, i))
    <3>1. Scanned(rr_ptr, i) \in Warp
      BY <1>2, ConfigAssumption DEF Scanned, Warp
    <3> QED
      BY <2>1, <3>1, ConfigAssumption DEF TickIssuing
  <2>4. Distance(rr_ptr, w)' = Distance(rr_ptr, w) - i - 1
    BY <1>2, <2>2, <2>3, AdvanceShortens
  <2>5. Distance(rr_ptr, w)' < n - 1
    <3>1. Distance(rr_ptr, w) < n /\ Distance(rr_ptr, w) \in Warp
      BY <1>2, <1>5, DistanceIsPosition DEF IssueWithin
    <3> QED
      BY <2>4, <3>1, ConfigAssumption DEF Warp
  <2>6. NoHazard(w)'
    BY <1>1, <1>4, <1>5, BusyNext DEF Eligible, NoHazard, CanIssue, InstrMeta
  <2> QED
    BY <1>1, <2>5, <2>6 DEF IssueWithin, Eligible, HasWork
<1>6. CASE ~Eligible(w)
  <2>1. n > Warps /\ \A s \in Stage : Blocks(s, w) => s + Warps < n
    BY <1>6 DEF IssueWithin
  <2>2. ASSUME NEW s \in Stage, Blocks(s, w)'
        PROVE  s + Warps < n - 1
    <3>1. s + 1 \in Stage /\ Blocks(s + 1, w)
      BY <1>1, <1>4, <2>2, InFlightNext DEF Blocks, InstrMeta
    <3> QED
      BY <2>1, <3>1, ConfigAssumption DEF Stage
  <2>3. CASE Eligible(w)'
    <3>1. Distance(rr_ptr, w)' < n - 1
      BY <1>3, <2>1, ConfigAssumption DEF Warp
    <3> QED
      BY <1>1, <2>3, <3>1 DEF IssueWithin
  <2>4. CASE ~Eligible(w)'
    <3>1. PICK s \in Stage : Blocks(s, w)'
      BY <1>1, <1>4, <2>4
      DEF Eligible, HasWork, NoHazard, CanIssue, BusyIsInFlight, Blocks, InstrMeta
    <3>2. n - 1 > Warps
      BY <2>2, <3>1, ConfigAssumption DEF Stage
    <3> QED
      BY <1>1, <2>2, <2>4, <3>2 DEF IssueWithin
  <2> QED
    BY <2>3, <2>4
<1> QED
  BY <1>5, <1>6

(* Every presented instruction issues within ExecLatency + Warps ticks,    *)
(* for every configuration and every program.                              *)
THEOREM WaitIsBounded == Spec => BoundedWait
<1> DEFINE Step == Tick => \A w \in Warp :
               HasInstr(w) =>
                   /\ IssueWithin(w, ExecLatency + Warps)
                   /\ \A n \in 1 .. ExecLatency + Warps :
                          IssueWithin(w, n) => \/ out'.issued_warp = w
                                               \/ IssueWithin(w, n - 1)'
<1>1. TypeOK /\ BusyIsInFlight' /\ state = AllReady => Step
  <2> SUFFICES ASSUME TypeOK, BusyIsInFlight', state = AllReady, Tick,
                      NEW w \in Warp, HasInstr(w)
               PROVE  /\ IssueWithin(w, ExecLatency + Warps)
                      /\ \A n \in 1 .. ExecLatency + Warps :
                             IssueWithin(w, n) => \/ out'.issued_warp = w
                                                  \/ IssueWithin(w, n - 1)'
    OBVIOUS
  <2> PICK issued \in Optional(Warp) : TickIssuing(issued)
    BY DEF Tick
  <2>1. out'.issued_warp = issued
    BY DEF TickIssuing
  <2> QED
    BY <2>1, WaitBoundHolds, WaitBoundShrinks
<1> HIDE DEF Step
<1>2. Spec => [][Step]_vars
  BY <1>1, TypeCorrect, NoStuckBusy, AlwaysReady, PTL DEF Spec
<1> QED
  BY <1>2 DEF Step, BoundedWait

-----------------------------------------------------------------------------
(* Cycle accounting, with the counters wrapping at any modulus.            *)
LEMMA ModOfSum ==
    ASSUME NEW a \in Counter, NEW b \in Counter, NEW c \in Counter
    PROVE  (a + b + c) % CounterMod =
               IF a + b + c < CounterMod THEN a + b + c
               ELSE IF a + b + c < 2 * CounterMod THEN a + b + c - CounterMod
               ELSE a + b + c - 2 * CounterMod
BY ConfigAssumption DEF Counter

LEMMA IncStep ==
    ASSUME NEW a \in Counter
    PROVE  Inc(a) \in Counter /\ Inc(a) = IF a + 1 < CounterMod THEN a + 1 ELSE 0
BY ConfigAssumption DEF Counter, Inc

(* Booking one cycle in any one of three buckets moves their sum by one.   *)
LEMMA OneBucket ==
    ASSUME NEW a \in Counter, NEW b \in Counter, NEW c \in Counter, NEW t \in Counter,
           (a + b + c) % CounterMod = t
    PROVE  (Inc(a) + b + c) % CounterMod = Inc(t)
<1>1. Inc(a) \in Counter
  BY IncStep
<1> QED
  BY <1>1, IncStep, ModOfSum, ConfigAssumption DEF Counter

LEMMA TickBooksOnce ==
    ASSUME TypeOK, CycleAccounting, Tick
    PROVE  CycleAccounting'
<1> PICK issued \in Optional(Warp) : TickIssuing(issued)
  BY DEF Tick
<1> DEFINE counted == Counted(Exiting(stages), issued)
           n == counters.instructions
           d == counters.stall_data
           e == counters.stall_no_warp
<1>1. counters \in PerfCounters
  BY DEF TypeOK
<1>2. n \in Counter /\ d \in Counter /\ e \in Counter /\ counters.cycles \in Counter
  BY <1>1 DEF PerfCounters
<1>3. counters' = [c \in DOMAIN counters |->
                     IF c \in counted THEN Inc(counters[c]) ELSE counters[c]]
  BY DEF TickIssuing, CountersNext
<1>4. "cycles" \in counted
  BY DEF Counted
<1>5. \/ "instructions" \in counted /\ "stall_data" \notin counted /\ "stall_no_warp" \notin counted
      \/ "instructions" \notin counted /\ "stall_data" \in counted /\ "stall_no_warp" \notin counted
      \/ "instructions" \notin counted /\ "stall_data" \notin counted /\ "stall_no_warp" \in counted
  <2>1. CASE issued # Nullopt
    BY <2>1 DEF Counted
  <2>2. CASE issued = Nullopt
    <3>1. EligibleWarps = {}
      <4>1. \A w \in EligibleWarps : w # Nullopt
        BY ConfigAssumption DEF EligibleWarps
      <4> QED
        BY <2>2, <4>1, SelectsSound DEF TickIssuing
    <3>2. AnyDataStall \/ ~AnyWork
      BY <3>1 DEF EligibleWarps, Eligible, AnyWork, AnyDataStall
    <3> QED
      BY <2>2, <3>2 DEF Counted
  <2> QED
    BY <2>1, <2>2
<1> HIDE DEF counted
<1>6. /\ counters'.cycles = Inc(counters.cycles)
      /\ counters'.instructions = IF "instructions" \in counted THEN Inc(n) ELSE n
      /\ counters'.stall_data = IF "stall_data" \in counted THEN Inc(d) ELSE d
      /\ counters'.stall_no_warp = IF "stall_no_warp" \in counted THEN Inc(e) ELSE e
  BY <1>1, <1>3, <1>4 DEF PerfCounters
<1> HIDE DEF n, d, e
<1>7. (n + d + e) % CounterMod = counters.cycles
  BY DEF CycleAccounting, n, d, e
<1>8. /\ n + d + e = d + n + e /\ Inc(d) + n + e = n + Inc(d) + e
      /\ n + d + e = e + n + d /\ Inc(e) + n + d = n + d + Inc(e)
  BY <1>2, IncStep, ConfigAssumption DEF Counter
<1>9. /\ (Inc(n) + d + e) % CounterMod = Inc(counters.cycles)
      /\ (n + Inc(d) + e) % CounterMod = Inc(counters.cycles)
      /\ (n + d + Inc(e)) % CounterMod = Inc(counters.cycles)
  <2>1. (Inc(n) + d + e) % CounterMod = Inc(counters.cycles)
    BY <1>2, <1>7, OneBucket
  <2>2. (Inc(d) + n + e) % CounterMod = Inc(counters.cycles)
    BY <1>2, <1>7, <1>8, OneBucket
  <2>3. (Inc(e) + n + d) % CounterMod = Inc(counters.cycles)
    BY <1>2, <1>7, <1>8, OneBucket
  <2> QED
    BY <1>8, <2>1, <2>2, <2>3
<1> QED
  BY <1>5, <1>6, <1>9 DEF CycleAccounting

(* Every cycle is booked exactly once, for every configuration, program    *)
(* and counter width.                                                      *)
THEOREM CyclesBookedOnce == Spec => []CycleAccounting
<1>1. ASSUME counters = ZeroCounters PROVE CycleAccounting
  BY <1>1, ConfigAssumption DEF ZeroCounters, CycleAccounting
<1>2. Init => CycleAccounting
  BY <1>1 DEF Init, Constructed
<1>3. TypeOK /\ CycleAccounting /\ [Next]_vars => CycleAccounting'
  <2> SUFFICES ASSUME TypeOK, CycleAccounting, [Next]_vars PROVE CycleAccounting'
    OBVIOUS
  <2>1. CASE PresentAny
    BY <2>1 DEF PresentAny, Present, CycleAccounting
  <2>2. CASE Tick
    BY <2>2, TickBooksOnce
  <2>3. CASE Reset
    BY <2>3, ConfigAssumption DEF Reset, ZeroCounters, CycleAccounting
  <2>4. CASE UNCHANGED vars
    BY <2>4 DEF vars, CycleAccounting
  <2> QED
    BY <2>1, <2>2, <2>3, <2>4 DEF Next
<1> QED
  BY <1>2, <1>3, TypeCorrect, PTL DEF Spec

-----------------------------------------------------------------------------
(* Write-back accounting.  A tick moves every occupied stage one nearer to *)
(* the exit, hands out stage 0 and fills the last stage if it issues.      *)
Occupied == {s \in Stage : stages[s] # Nullopt}

LEMMA OccupiedFinite == IsFiniteSet(Occupied) /\ Cardinality(Occupied) \in Nat
<1>1. IsFiniteSet(Stage)
  BY FS_Interval, ConfigAssumption DEF Stage
<1>2. IsFiniteSet(Occupied)
  BY <1>1, FS_Subset DEF Occupied
<1> QED
  BY <1>2, FS_CardinalityType

(* Moving a set of stages down by one keeps its size.                      *)
LEMMA ShiftedSize ==
    ASSUME NEW S \in SUBSET Int, IsFiniteSet(S)
    PROVE  LET T == {s - 1 : s \in S}
           IN  IsFiniteSet(T) /\ Cardinality(T) = Cardinality(S)
<1> DEFINE T == {s - 1 : s \in S}
           f == [s \in S |-> s - 1]
<1>1. f \in Bijection(S, T)
  <2>1. f \in [S -> T]
    OBVIOUS
  <2>2. \A a, b \in S : f[a] = f[b] => a = b
    OBVIOUS
  <2>3. \A t \in T : \E s \in S : f[s] = t
    OBVIOUS
  <2> HIDE DEF f, T
  <2> QED
    BY <2>1, <2>2, <2>3 DEF Bijection, Injection, IsInjective, Surjection
<1> HIDE DEF f, T
<1>2. ExistsBijection(S, T)
  BY <1>1 DEF ExistsBijection
<1> QED
  BY <1>2, FS_Bijection, Zenon DEF T

LEMMA OccupiedNext ==
    ASSUME TypeOK, NEW issued \in Optional(Warp), TickIssuing(issued)
    PROVE  Cardinality(Occupied') =
               Cardinality(Occupied) - (IF stages[0] = Nullopt THEN 0 ELSE 1)
                                     + (IF issued = Nullopt THEN 0 ELSE 1)
<1> DEFINE behind == Occupied \ {0}
           moved  == {s - 1 : s \in behind}
<1>1. 0 \in Stage /\ ExecLatency - 1 \in Stage /\ Stage \subseteq Int
  BY ConfigAssumption DEF Stage
<1>2. IsFiniteSet(Occupied) /\ Cardinality(Occupied) \in Nat
  BY OccupiedFinite
<1>3. /\ IsFiniteSet(behind)
      /\ Cardinality(behind) = IF 0 \in Occupied THEN Cardinality(Occupied) - 1
                               ELSE Cardinality(Occupied)
  BY <1>2, FS_RemoveElement, Zenon
<1>4. 0 \in Occupied <=> stages[0] # Nullopt
  BY <1>1 DEF Occupied
<1>5. behind \in SUBSET Int
  BY <1>1 DEF Occupied
<1>6. IsFiniteSet(moved) /\ Cardinality(moved) = Cardinality(behind)
  BY <1>3, <1>5, ShiftedSize, Zenon
<1>7. \A t \in Stage : t # ExecLatency - 1 => (t \in Occupied' <=> t \in moved)
  <2> SUFFICES ASSUME NEW t \in Stage, t # ExecLatency - 1
               PROVE  t \in Occupied' <=> t \in moved
    OBVIOUS
  <2>1. t + 1 \in Stage /\ t + 1 # 0 /\ (t + 1) - 1 = t
    BY ConfigAssumption DEF Stage
  <2>2. stages'[t] = stages[t + 1]
    BY StagesNext
  <2>3. t \in Occupied' <=> t + 1 \in behind
    BY <2>1, <2>2 DEF Occupied
  <2>4. t \in moved <=> t + 1 \in behind
    BY <1>5, <2>1
  <2> QED
    BY <2>3, <2>4
<1>8. moved \subseteq Stage \ {ExecLatency - 1}
  BY ConfigAssumption DEF Occupied, Stage
<1>9. ExecLatency - 1 \in Occupied' <=> issued # Nullopt
  <2>1. CASE issued = Nullopt
    BY <1>1, <2>1, StagesNext DEF Occupied
  <2>2. CASE issued # Nullopt
    <3>1. issued \in Warp /\ warp_instrs[issued] \in InstrMeta
      <4>1. issued \in EligibleWarps
        BY <2>2, SelectsSound DEF TickIssuing
      <4> QED
        BY <4>1, ProgramAssumption
        DEF EligibleWarps, Eligible, HasWork, HasInstr, TypeOK, Optional
    <3>2. stages'[ExecLatency - 1]
            = [warp_id |-> issued, dst |-> warp_instrs[issued].dst,
               has_dst |-> warp_instrs[issued].has_dst]
      BY <2>2, StagesNext
    <3>3. stages'[ExecLatency - 1] \in WbResult
      BY <3>1, <3>2 DEF WbResult, InstrMeta
    <3> QED
      BY <1>1, <2>2, <3>3, ConfigAssumption DEF Occupied
  <2> QED
    BY <2>1, <2>2
<1> HIDE DEF behind, moved
<1>10. Occupied' = IF issued = Nullopt THEN moved ELSE moved \cup {ExecLatency - 1}
  <2>1. Occupied' \subseteq Stage
    BY DEF Occupied
  <2>2. CASE issued = Nullopt
    <3>1. \A t : t \in Occupied' <=> t \in moved
      BY <1>7, <1>8, <1>9, <2>1, <2>2
    <3>2. Occupied' = moved
      BY <3>1, Zenon
    <3> QED
      BY <2>2, <3>2
  <2>3. CASE issued # Nullopt
    BY <1>1, <1>7, <1>8, <1>9, <2>1, <2>3
  <2> QED
    BY <2>2, <2>3
<1>11. /\ ExecLatency - 1 \notin moved
       /\ Cardinality(moved \cup {ExecLatency - 1}) = Cardinality(moved) + 1
  BY <1>6, <1>8, FS_AddElement
<1> QED
  BY <1>2, <1>3, <1>4, <1>6, <1>10, <1>11

(* WritebackAccounting names no witness for the number of times the        *)
(* counters have wrapped, and the remainder of a sum by an unknown modulus *)
(* cannot be taken apart again: the invariant that is carried through the  *)
(* steps names it.                                                         *)
Pending ==
    \E wraps \in Int :
        counters.wb_count + Cardinality(Occupied)
            = counters.instructions + wraps * CounterMod

LEMMA ModUnique ==
    ASSUME NEW q \in Int, NEW r \in Counter
    PROVE  (r + q * CounterMod) % CounterMod = r
BY ConfigAssumption DEF Counter

LEMMA PendingIsAccounted == TypeOK /\ Pending => WritebackAccounting
<1> SUFFICES ASSUME TypeOK, Pending PROVE WritebackAccounting
  OBVIOUS
<1>1. counters.instructions \in Counter
  BY DEF TypeOK, PerfCounters
<1>2. PICK q \in Int : counters.wb_count + Cardinality(Occupied)
                          = counters.instructions + q * CounterMod
  BY DEF Pending
<1>3. (counters.instructions + q * CounterMod) % CounterMod = counters.instructions
  BY <1>1, ModUnique
<1> QED
  BY <1>2, <1>3, Zenon DEF WritebackAccounting, Occupied

(* Counting one more, on both sides or on one with one less in flight.     *)
LEMMA CountOne ==
    ASSUME NEW a \in Counter, NEW b \in Counter, NEW n \in Int, NEW q \in Int,
           a + n = b + q * CounterMod
    PROVE  /\ \E p \in Int : a + n + 1 = Inc(b) + p * CounterMod
           /\ \E p \in Int : Inc(a) + n - 1 = b + p * CounterMod
           /\ \E p \in Int : Inc(a) + n = Inc(b) + p * CounterMod
<1>1. /\ (q + 1) * CounterMod = q * CounterMod + CounterMod
      /\ (q - 1) * CounterMod = q * CounterMod - CounterMod
      /\ q * CounterMod \in Int
  BY ConfigAssumption
<1>2. /\ Inc(a) = IF a + 1 < CounterMod THEN a + 1 ELSE 0
      /\ Inc(b) = IF b + 1 < CounterMod THEN b + 1 ELSE 0
  BY IncStep, Zenon
<1>3. a \in Int /\ b \in Int /\ CounterMod \in Int /\ a + 1 <= CounterMod /\ b + 1 <= CounterMod
  BY ConfigAssumption DEF Counter
<1>4. q + 1 \in Int /\ q - 1 \in Int
  OBVIOUS
<1> DEFINE Q == q * CounterMod
<1>5. Q \in Int /\ a + n = b + Q
  BY <1>1
<1> HIDE DEF Q
<1>6. \/ a + n + 1 = Inc(b) + Q
      \/ a + n + 1 = Inc(b) + (Q + CounterMod)
  BY <1>2, <1>3, <1>5
<1>7. \/ Inc(a) + n - 1 = b + Q
      \/ Inc(a) + n - 1 = b + (Q - CounterMod)
  BY <1>2, <1>3, <1>5
<1>8. \/ Inc(a) + n = Inc(b) + Q
      \/ Inc(a) + n = Inc(b) + (Q - CounterMod)
      \/ Inc(a) + n = Inc(b) + (Q + CounterMod)
  BY <1>2, <1>3, <1>5
<1>9. (q + 1) * CounterMod = Q + CounterMod /\ (q - 1) * CounterMod = Q - CounterMod
  BY <1>1 DEF Q
<1>10. \E p \in Int : a + n + 1 = Inc(b) + p * CounterMod
  BY <1>4, <1>6, <1>9, Zenon DEF Q
<1>11. \E p \in Int : Inc(a) + n - 1 = b + p * CounterMod
  BY <1>4, <1>7, <1>9, Zenon DEF Q
<1>12. \E p \in Int : Inc(a) + n = Inc(b) + p * CounterMod
  BY <1>4, <1>8, <1>9, Zenon DEF Q
<1> QED
  BY <1>10, <1>11, <1>12

LEMMA TickKeepsPending ==
    ASSUME TypeOK, Pending, Tick
    PROVE  Pending'
<1> PICK issued \in Optional(Warp) : TickIssuing(issued)
  BY DEF Tick
<1> DEFINE counted == Counted(Exiting(stages), issued)
           a == counters.wb_count
           b == counters.instructions
           n == Cardinality(Occupied)
<1>1. a \in Counter /\ b \in Counter /\ n \in Int
  BY OccupiedFinite DEF TypeOK, PerfCounters
<1>2. /\ "wb_count" \in counted <=> stages[0] # Nullopt
      /\ "instructions" \in counted <=> issued # Nullopt
  BY DEF Counted, Exiting
<1>3. counters' = [c \in DOMAIN counters |->
                     IF c \in counted THEN Inc(counters[c]) ELSE counters[c]]
  BY DEF TickIssuing, CountersNext
<1> HIDE DEF counted
<1>4. /\ counters'.wb_count = IF stages[0] # Nullopt THEN Inc(a) ELSE a
      /\ counters'.instructions = IF issued # Nullopt THEN Inc(b) ELSE b
  BY <1>2, <1>3 DEF TypeOK, PerfCounters
<1>5. Cardinality(Occupied') = n - (IF stages[0] = Nullopt THEN 0 ELSE 1)
                                 + (IF issued = Nullopt THEN 0 ELSE 1)
  BY OccupiedNext
<1>6. PICK q \in Int : a + n = b + q * CounterMod
  BY DEF Pending
<1> HIDE DEF a, b, n
<1>7. /\ \E p \in Int : a + n + 1 = Inc(b) + p * CounterMod
      /\ \E p \in Int : Inc(a) + n - 1 = b + p * CounterMod
      /\ \E p \in Int : Inc(a) + n = Inc(b) + p * CounterMod
  BY <1>1, <1>6, CountOne
<1>8. Inc(a) \in Int /\ Inc(b) \in Int /\ a \in Int /\ b \in Int
  BY <1>1, IncStep DEF Counter
<1> DEFINE wb == counters'.wb_count
           ins == counters'.instructions
           m == Cardinality(Occupied')
<1> HIDE DEF wb, ins, m
<1>9. \E p \in Int : wb + m = ins + p * CounterMod
  <2>1. CASE stages[0] = Nullopt /\ issued = Nullopt
    <3>1. wb = a /\ ins = b /\ m = n
      BY <1>1, <1>4, <1>5, <2>1 DEF wb, ins, m
    <3> QED
      BY <1>6, <3>1, Zenon
  <2>2. CASE stages[0] = Nullopt /\ issued # Nullopt
    <3>1. wb = a /\ ins = Inc(b) /\ m = n + 1
      BY <1>1, <1>4, <1>5, <2>2 DEF wb, ins, m
    <3>2. wb + m = a + n + 1
      BY <1>1, <1>8, <3>1
    <3> QED
      BY <1>7, <3>1, <3>2, Zenon
  <2>3. CASE stages[0] # Nullopt /\ issued = Nullopt
    <3>1. wb = Inc(a) /\ ins = b /\ m = n - 1
      BY <1>1, <1>4, <1>5, <2>3 DEF wb, ins, m
    <3>2. wb + m = Inc(a) + n - 1
      BY <1>1, <1>8, <3>1
    <3> QED
      BY <1>7, <3>1, <3>2, Zenon
  <2>4. CASE stages[0] # Nullopt /\ issued # Nullopt
    <3>1. wb = Inc(a) /\ ins = Inc(b) /\ m = n
      BY <1>1, <1>4, <1>5, <2>4 DEF wb, ins, m
    <3> QED
      BY <1>7, <3>1, Zenon
  <2> QED
    BY <2>1, <2>2, <2>3, <2>4
<1> QED
  BY <1>9, Zenon DEF Pending, wb, ins, m

(* Every issued instruction is in the pipe or was counted as one           *)
(* write-back, for every configuration, program and counter width.         *)
THEOREM WritebacksAccounted == Spec => []WritebackAccounting
<1>1. ASSUME stages = EmptyPipe, counters = ZeroCounters PROVE Pending
  <2>1. Occupied = {}
    BY <1>1 DEF EmptyPipe, Occupied
  <2>2. Cardinality(Occupied) = 0
    BY <2>1, FS_EmptySet, Zenon
  <2>3. 0 + 0 = 0 + 0 * CounterMod
    BY ConfigAssumption
  <2> QED
    BY <1>1, <2>2, <2>3 DEF ZeroCounters, Pending
<1>2. Init => Pending
  BY <1>1 DEF Init, Constructed
<1>3. TypeOK /\ Pending /\ [Next]_vars => Pending'
  <2> SUFFICES ASSUME TypeOK, Pending, [Next]_vars PROVE Pending'
    OBVIOUS
  <2>1. CASE PresentAny
    BY <2>1 DEF PresentAny, Present, Pending, Occupied
  <2>2. CASE Tick
    BY <2>2, TickKeepsPending
  <2>3. CASE Reset
    <3>1. stages' = EmptyPipe /\ counters' = ZeroCounters
      BY <2>3 DEF Reset
    <3>2. Occupied' = {}
      BY <3>1 DEF EmptyPipe, Occupied
    <3>3. Cardinality(Occupied') = 0
      BY <3>2, FS_EmptySet, Zenon
    <3>4. 0 + 0 = 0 + 0 * CounterMod
      BY ConfigAssumption
    <3> QED
      BY <3>1, <3>3, <3>4 DEF ZeroCounters, Pending
  <2>4. CASE UNCHANGED vars
    BY <2>4 DEF vars, Pending, Occupied
  <2> QED
    BY <2>1, <2>2, <2>3, <2>4 DEF Next
<1> QED
  BY <1>2, <1>3, TypeCorrect, PendingIsAccounted, PTL DEF Spec
-----------------------------------------------------------------------------
(* MiniSM implements InOrder, for every configuration and every            *)
(* accumulating program.                                                   *)

(* The abstract specification brings its own copies of the type names.     *)
LEMMA SameTypes ==
    /\ Abstract!Warp = Warp
    /\ \A T : Abstract!Optional(T) = Optional(T)
    /\ Abstract!WbResult = WbResult
BY DEF Abstract!Warp, Warp, Abstract!Optional, Optional, Abstract!WbResult, WbResult,
       Abstract!Reg, Reg

(* what InOrder sees of the instruction in stage s                         *)
Seen(s) == [warp_id |-> stages[s].warp_id, dst |-> stages[s].dst,
            has_dst |-> stages[s].has_dst, left |-> s]

LEMMA FlightMembers ==
    ASSUME NEW f
    PROVE  f \in InOrderFlight <=> \E s \in Stage : stages[s] # Nullopt /\ f = Seen(s)
BY DEF InOrderFlight, Seen

(* An instruction in flight feeds warp w exactly if it writes one of the   *)
(* sources of w's next instruction.                                        *)
LEMMA FeedsIsInFlight ==
    ASSUME NEW w \in Warp, NEW s \in Stage, stages[s] # Nullopt
    PROVE  Abstract!Feeds(Seen(s), w)
               <=> InFlight(s, w, warp_instrs[w].src0) \/ InFlight(s, w, warp_instrs[w].src1)
BY DEF Abstract!Feeds, Seen, InFlight

(* The scoreboard and the abstract specification let the same warps run:   *)
(* the busy bits are exactly the writes in flight.                         *)
LEMMA RunnableIsEligible ==
    ASSUME TypeOK, BusyIsInFlight, InFlightIsBusy, state = AllReady
    PROVE  Abstract!Runnable = EligibleWarps
<1>1. ASSUME NEW w \in Warp, HasInstr(w)
      PROVE  NoHazard(w) <=> ~ \E f \in InOrderFlight : Abstract!Feeds(f, w)
  <2>1. warp_instrs[w] \in InstrMeta
    BY <1>1, ProgramAssumption DEF HasInstr, TypeOK, Optional
  <2>2. warp_instrs[w].src0 \in Reg /\ warp_instrs[w].src1 \in Reg
    BY <2>1 DEF InstrMeta
  <2>3. \A r \in Reg : Idx(w, r) \in busy <=> \E s \in Stage : InFlight(s, w, r)
    BY DEF BusyIsInFlight, InFlightIsBusy
  <2>4. (\E f \in InOrderFlight : Abstract!Feeds(f, w))
            <=> \E s \in Stage : \/ InFlight(s, w, warp_instrs[w].src0)
                                 \/ InFlight(s, w, warp_instrs[w].src1)
    <3>1. \A s \in Stage : \A r : InFlight(s, w, r) => stages[s] # Nullopt
      BY DEF InFlight
    <3> QED
      BY <3>1, FlightMembers, FeedsIsInFlight
  <2> QED
    BY <2>2, <2>3, <2>4 DEF NoHazard, CanIssue
<1>2. \A w \in Warp : Eligible(w) <=> HasInstr(w) /\ NoHazard(w)
  BY DEF Eligible, HasWork, IsReady, AllReady
<1>3. \A w \in Warp : HasInstr(w) <=> warp_instrs[w] # Nullopt
  BY DEF HasInstr
<1> QED
  BY <1>1, <1>2, <1>3, SameTypes DEF Abstract!Runnable, EligibleWarps

(* The pipe hands out the instruction that has no ticks left.              *)
LEMMA ExitIsWriteback ==
    ASSUME TypeOK
    PROVE  Abstract!IsWriteback(Exiting(stages))
<1>1. 0 \in Stage
  BY ConfigAssumption DEF Stage
<1>2. \A f \in InOrderFlight : f.left = 0 => stages[0] # Nullopt /\ f = Seen(0)
  BY FlightMembers DEF Seen
<1>3. CASE stages[0] = Nullopt
  BY <1>2, <1>3 DEF Abstract!IsWriteback, Exiting
<1>4. CASE stages[0] # Nullopt
  <2>1. stages[0] \in WbResult
    BY <1>1, <1>4 DEF TypeOK, Optional
  <2>2. stages[0] = [warp_id |-> stages[0].warp_id, dst |-> stages[0].dst,
                     has_dst |-> stages[0].has_dst]
    BY <2>1 DEF WbResult
  <2>3. Seen(0) \in InOrderFlight /\ Seen(0).left = 0
    BY <1>1, <1>4, FlightMembers DEF Seen
  <2> QED
    BY <2>2, <2>3 DEF Abstract!IsWriteback, Exiting, Seen
<1> QED
  BY <1>3, <1>4

(* One tick ages what is in flight, by one stage, and adds the issue.      *)
LEMMA FlightNext ==
    ASSUME TypeOK, NEW issued \in Optional(Warp), TickIssuing(issued)
    PROVE  InOrderFlight' = Abstract!Aged \cup
               (IF issued = Nullopt THEN {} ELSE {Abstract!Issued(issued, ExecLatency - 1)})
<1> DEFINE last == ExecLatency - 1
           new == IF issued = Nullopt THEN {} ELSE {Abstract!Issued(issued, last)}
<1>1. last \in Stage /\ \A s \in Stage : s # last => s + 1 \in Stage /\ s + 1 > 0
  BY ConfigAssumption DEF Stage
<1>2. \A s \in Stage : s > 0 => s - 1 \in Stage /\ s - 1 # last /\ (s - 1) + 1 = s
  BY ConfigAssumption DEF Stage
<1>3. \A f : f \in InOrderFlight' <=> \E s \in Stage : stages'[s] # Nullopt /\ f = Seen(s)'
  BY DEF InOrderFlight, Seen
<1>4. \A f : f \in Abstract!Aged <=>
           \E s \in Stage : s > 0 /\ stages[s] # Nullopt /\ f = [Seen(s) EXCEPT !.left = s - 1]
  <2>1. \A s : Seen(s).left = s
    BY DEF Seen
  <2>2. \A f : f \in Abstract!Aged <=>
             \E g \in InOrderFlight : g.left > 0 /\ f = [g EXCEPT !.left = g.left - 1]
    BY Zenon DEF Abstract!Aged
  <2>3. ASSUME NEW f
        PROVE  f \in Abstract!Aged <=>
                   \E s \in Stage : /\ s > 0 /\ stages[s] # Nullopt
                                    /\ f = [Seen(s) EXCEPT !.left = s - 1]
    <3>1. ASSUME NEW g \in InOrderFlight, g.left > 0, f = [g EXCEPT !.left = g.left - 1]
          PROVE  \E s \in Stage : /\ s > 0 /\ stages[s] # Nullopt
                                  /\ f = [Seen(s) EXCEPT !.left = s - 1]
      <4>1. PICK s \in Stage : stages[s] # Nullopt /\ g = Seen(s)
        BY FlightMembers
      <4>2. g.left = s
        BY <2>1, <4>1
      <4> QED
        BY <3>1, <4>1, <4>2
    <3>2. ASSUME NEW s \in Stage, s > 0, stages[s] # Nullopt,
                 f = [Seen(s) EXCEPT !.left = s - 1]
          PROVE  \E g \in InOrderFlight : g.left > 0 /\ f = [g EXCEPT !.left = g.left - 1]
      <4>1. Seen(s) \in InOrderFlight /\ Seen(s).left = s
        BY <2>1, <3>2, FlightMembers
      <4> QED
        BY <3>2, <4>1, Zenon
    <3> QED
      BY <2>2, <3>1, <3>2
  <2> QED
    BY <2>3
<1>5. \A s \in Stage : s # last => /\ stages'[s] = stages[s + 1]
                                   /\ Seen(s)' = [Seen(s + 1) EXCEPT !.left = s]
  <2>1. \A s \in Stage : s # last => stages'[s] = stages[s + 1]
    BY StagesNext
  <2> QED
    BY <2>1 DEF Seen
<1>6. \A f : f \in Abstract!Aged
               <=> \E s \in Stage : s # last /\ stages'[s] # Nullopt /\ f = Seen(s)'
  <2>1. ASSUME NEW s \in Stage, s > 0, stages[s] # Nullopt
        PROVE  \E t \in Stage : /\ t # last /\ stages'[t] # Nullopt
                                /\ Seen(t)' = [Seen(s) EXCEPT !.left = s - 1]
    <3>1. s - 1 \in Stage /\ s - 1 # last /\ (s - 1) + 1 = s
      BY <1>2, <2>1
    <3>2. stages'[s - 1] = stages[s] /\ Seen(s - 1)' = [Seen(s) EXCEPT !.left = s - 1]
      BY <1>5, <3>1
    <3> QED
      BY <2>1, <3>1, <3>2
  <2>2. ASSUME NEW t \in Stage, t # last, stages'[t] # Nullopt
        PROVE  \E s \in Stage : /\ s > 0 /\ stages[s] # Nullopt
                                /\ Seen(t)' = [Seen(s) EXCEPT !.left = s - 1]
    <3>1. t + 1 \in Stage /\ t + 1 > 0 /\ (t + 1) - 1 = t
      BY <1>1, <2>2 DEF Stage
    <3> QED
      BY <1>5, <2>2, <3>1
  <2> QED
    BY <1>4, <2>1, <2>2
<1>7. \A f : f \in new <=> stages'[last] # Nullopt /\ f = Seen(last)'
  <2>1. CASE issued = Nullopt
    BY <2>1, StagesNext
  <2>2. CASE issued # Nullopt
    <3>1. stages'[last] = [warp_id |-> issued, dst |-> warp_instrs[issued].dst,
                           has_dst |-> warp_instrs[issued].has_dst]
      BY <2>2, StagesNext
    <3>2. stages'[last] # Nullopt
      <4>1. issued \in Warp /\ warp_instrs[issued] \in InstrMeta
        <5>1. issued \in EligibleWarps
          BY <2>2, SelectsSound DEF TickIssuing
        <5> QED
          BY <5>1, ProgramAssumption
          DEF EligibleWarps, Eligible, HasWork, HasInstr, TypeOK, Optional
      <4>2. stages'[last] \in WbResult
        BY <3>1, <4>1 DEF InstrMeta, WbResult
      <4> QED
        BY <4>2, ConfigAssumption
    <3>3. Seen(last)' = Abstract!Issued(issued, last)
      BY <3>1 DEF Seen, Abstract!Issued
    <3> QED
      BY <2>2, <3>2, <3>3
  <2> QED
    BY <2>1, <2>2
<1> HIDE DEF new
<1>8. \A f : f \in InOrderFlight' <=> f \in Abstract!Aged \/ f \in new
  BY <1>1, <1>3, <1>6, <1>7
<1> QED
  BY <1>8 DEF new

(* A tick of the Mini-SM is a tick of the abstract specification.          *)
LEMMA TickImplements ==
    ASSUME TypeOK, BusyIsInFlight, InFlightIsBusy, state = AllReady, Tick
    PROVE  Abstract!Tick
<1> PICK issued \in Optional(Warp) : TickIssuing(issued)
  BY DEF Tick
<1> DEFINE wb == Exiting(stages)
<1>1. wb \in Optional(WbResult)
  BY ConfigAssumption DEF TypeOK, Stage, Exiting
<1>2. Abstract!IsWriteback(wb)
  BY ExitIsWriteback
<1>3. out' = [issued_warp |-> issued, writeback |-> wb] /\ warp_instrs' = warp_instrs
  BY DEF TickIssuing
<1>4. CASE issued = Nullopt
  <2>1. EligibleWarps = {}
    BY <1>4, SelectsSound, ConfigAssumption DEF TickIssuing, EligibleWarps
  <2>2. InOrderFlight' = Abstract!Aged
    BY <1>4, FlightNext
  <2> QED
    BY <1>1, <1>2, <1>3, <1>4, <2>1, <2>2, RunnableIsEligible, SameTypes
    DEF Abstract!Tick, Abstract!Idle
<1>5. CASE issued # Nullopt
  <2>1. issued \in EligibleWarps /\ issued \in Warp
    BY <1>5, SelectsSound DEF TickIssuing, EligibleWarps
  <2>2. InOrderFlight' = Abstract!Aged \cup {Abstract!Issued(issued, ExecLatency - 1)}
    BY <1>5, FlightNext
  <2>3. Abstract!Issue(issued, wb)
    BY <1>3, <2>1, <2>2, RunnableIsEligible DEF Abstract!Issue
  <2> QED
    BY <1>1, <1>2, <1>3, <2>1, <2>3, SameTypes DEF Abstract!Tick
<1> QED
  BY <1>4, <1>5

(* The front end implements the abstract specification: exact waiting, no  *)
(* idle cycle while a warp could issue, write-backs after ExecLatency      *)
(* ticks and in the order of the issues (mini_sm.cpp:13-83).               *)
THEOREM ImplementsInOrderSpec ==
    ASSUME Accumulating
    PROVE  Spec => ImplementsInOrder
<1>1. Init => Abstract!Init
  BY FlightMembers, SameTypes
  DEF Init, Constructed, EmptyPipe, Abstract!Init, InOrderFlight
<1>2. TypeOK /\ BusyIsInFlight /\ InFlightIsBusy /\ state = AllReady /\ [Next]_vars
        => [Abstract!Next]_(Abstract!vars)
  <2> SUFFICES ASSUME TypeOK, BusyIsInFlight, InFlightIsBusy, state = AllReady, [Next]_vars
               PROVE  [Abstract!Next]_(Abstract!vars)
    OBVIOUS
  <2>1. CASE PresentAny
    <3>1. PICK w \in Warp, instr \in Optional(Program) : Present(w, instr)
      BY <2>1 DEF PresentAny
    <3>2. InOrderFlight' = InOrderFlight
      BY <3>1 DEF Present, InOrderFlight
    <3>3. Abstract!Present(w, instr)
      BY <3>1, <3>2 DEF Present, Abstract!Present
    <3> QED
      BY <3>3, SameTypes DEF Abstract!Next
  <2>2. CASE Tick
    BY <2>2, TickImplements DEF Abstract!Next
  <2>3. CASE Reset
    <3>1. InOrderFlight' = {}
      BY <2>3 DEF Reset, EmptyPipe, InOrderFlight
    <3> QED
      BY <2>3, <3>1 DEF Reset, Abstract!Flush, Abstract!Next
  <2>4. CASE UNCHANGED vars
    BY <2>4 DEF vars, Abstract!vars, InOrderFlight
  <2> QED
    BY <2>1, <2>2, <2>3, <2>4 DEF Next
<1> QED
  BY <1>1, <1>2, TypeCorrect, NoStuckBusy, InterlockExact, AlwaysReady, PTL
  DEF Spec, ImplementsInOrder, Abstract!Spec
=============================================================================
