-------------------------- MODULE MiniSMTopProofs ---------------------------
(***************************************************************************)
(* Proofs about MiniSMTop for every configuration and every program: the   *)
(* RTL front end implements the C++ model, so that what MiniSMProofs shows *)
(* of the one holds of the other.                                          *)
(***************************************************************************)
EXTENDS MiniSMTop, WellFoundedInduction, TLAPS

(* The mapping of MiniSMTop!Cpp, in names.                                 *)
Flat(b)   == UNION {{w * Regs + r : r \in b[w]} : w \in Warp}
Slots     == [w \in Warp |-> IF warp_has_instr[w] THEN warp_instr[w] ELSE Nullopt]
Turned(p) == [s \in Stage |-> AsWbResult(p[ExecLatency - 1 - s])]

(* the C++ model under the same mapping, together with its theorems        *)
Proved == INSTANCE MiniSMProofs WITH
    warp_instrs <- [w \in Warp |-> IF warp_has_instr[w] THEN warp_instr[w] ELSE Nullopt],
    busy        <- UNION {{w * Regs + r : r \in reg_busy_q[w]} : w \in Warp},
    state       <- warp_state_q,
    rr_ptr      <- rr_ptr_q,
    stages      <- [s \in Stage |-> AsWbResult(pipe[ExecLatency - 1 - s])],
    counters    <- CppCounters,
    out         <- sampled

LEMMA ProvedAssumptions == Proved!ConfigAssumption /\ Proved!ProgramAssumption
BY ConfigAssumption, TopAssumption, Zenon
DEF ConfigAssumption, Proved!ConfigAssumption, Proved!ProgramAssumption, Proved!Warp, Warp,
    Proved!InstrMeta, InstrMeta, Proved!WbResult, WbResult, Proved!Reg, Reg

-----------------------------------------------------------------------------
(* The counters.  A 64-bit counter is the 32-bit one and how often that    *)
(* has wrapped, itself counted modulo Rounds.                              *)
Rounds == CounterMod \div RtlCounterMod

LEMMA RoundsAre == Rounds \in Nat \ {0} /\ CounterMod = Rounds * RtlCounterMod
<1>1. PICK n \in 1 .. CounterMod : CounterMod = n * RtlCounterMod
  BY TopAssumption
<1>2. RtlCounterMod \in Nat \ {0} /\ n \in Nat \ {0}
  BY TopAssumption, ConfigAssumption
<1>3. CounterMod \div RtlCounterMod = n
  BY <1>1, <1>2
<1> QED
  BY <1>1, <1>2, <1>3 DEF Rounds

LEMMA CarryOver ==
    ASSUME NEW wrap \in 0 .. Rounds - 1, NEW low \in 0 .. RtlCounterMod - 1
    PROVE  Inc(wrap * RtlCounterMod + low) =
               (IF low = RtlCounterMod - 1 THEN (wrap + 1) % Rounds ELSE wrap) * RtlCounterMod
                   + ((low + 1) % RtlCounterMod)
<1> DEFINE R == RtlCounterMod
<1>1. R \in Nat \ {0} /\ Rounds \in Nat \ {0} /\ CounterMod = Rounds * R
  BY RoundsAre, TopAssumption
<1>2. CASE low = R - 1
  <2>1. wrap * R + low + 1 = (wrap + 1) * R
    BY <1>1, <1>2
  <2>2. (low + 1) % R = 0
    BY <1>1, <1>2
  <2>3. CASE wrap = Rounds - 1
    <3>1. (wrap + 1) % Rounds = 0 /\ (wrap + 1) * R = CounterMod
      BY <1>1, <2>3
    <3>2. CounterMod % CounterMod = 0
      BY ConfigAssumption
    <3> QED
      BY <1>1, <1>2, <2>1, <2>2, <3>1, <3>2 DEF Inc
  <2>4. CASE wrap # Rounds - 1
    <3>1. (wrap + 1) % Rounds = wrap + 1
      BY <1>1, <2>4
    <3>2. (wrap + 1) * R \in 0 .. CounterMod - 1
      <4>1. wrap + 1 \in Nat /\ wrap + 1 <= Rounds - 1
        BY <1>1, <2>4
      <4>2. (wrap + 1) * R <= (Rounds - 1) * R
        BY <1>1, <4>1
      <4>3. (Rounds - 1) * R = CounterMod - R
        BY <1>1
      <4> QED
        BY <1>1, <4>1, <4>2, <4>3
    <3>3. ((wrap + 1) * R) % CounterMod = (wrap + 1) * R
      BY <3>2, ConfigAssumption
    <3> QED
      BY <1>1, <1>2, <2>1, <2>2, <3>1, <3>3 DEF Inc
  <2> QED
    BY <2>3, <2>4
<1>3. CASE low # R - 1
  <2>1. (low + 1) % R = low + 1
    BY <1>1, <1>3
  <2>2. wrap * R + low + 1 \in 0 .. CounterMod - 1
    <3>1. wrap \in Nat /\ wrap <= Rounds - 1
      BY <1>1
    <3>2. wrap * R <= (Rounds - 1) * R
      BY <1>1, <3>1
    <3>3. (Rounds - 1) * R = CounterMod - R
      BY <1>1
    <3> QED
      BY <1>1, <1>3, <3>1, <3>2, <3>3
  <2>3. (wrap * R + low + 1) % CounterMod = wrap * R + low + 1
    BY <2>2, ConfigAssumption
  <2>4. Inc(wrap * R + low) = (wrap * R + low + 1) % CounterMod
    BY Zenon DEF Inc
  <2> QED
    BY <1>3, <2>1, <2>3, <2>4, <1>1
<1> QED
  BY <1>2, <1>3

-----------------------------------------------------------------------------
(* The scheduler.  A set of naturals has a least element, so the CHOOSE of *)
(* issue_warp_id finds the first selectable warp of the scan.              *)
LEMMA LeastElement ==
    ASSUME NEW T \in SUBSET Nat, T # {}
    PROVE  \E n \in T : \A m \in T : ~(m < n)
<1> DEFINE R == OpToRel(<, Nat)
<1>1. \A m, n \in Nat : m < n => <<m, n>> \in R
  BY DEF OpToRel
<1>2. IsWellFoundedOn(R, Nat)
  BY NatLessThanWellFounded, Zenon
<1>3. T \subseteq Nat
  OBVIOUS
<1> HIDE DEF R
<1>4. \E n \in T : \A m \in T : ~(<<m, n>> \in R)
  BY <1>2, <1>3, WFMin, Zenon
<1> QED
  BY <1>1, <1>4

LEMMA EveryWarpScanned ==
    ASSUME NEW rr \in Warp, NEW w \in Warp
    PROVE  \E i \in Warp : (rr + i) % Warps = w
<1>1. Proved!Warp = Warp
  BY DEF Proved!Warp, Warp
<1>2. Proved!Distance(rr, w) \in Warp /\ Proved!Scanned(rr, Proved!Distance(rr, w)) = w
  BY <1>1, ProvedAssumptions, Proved!DistanceIsPosition
<1> QED
  BY <1>2, Zenon DEF Proved!Scanned

At(i) == (rr_ptr_q + i) % Warps

(* what the scheduler puts on its outputs                                  *)
LEMMA FirstSelectable ==
    ASSUME TypeOK, issue_valid
    PROVE  \E i \in Warp : /\ issue_warp_id = At(i)
                           /\ issue_warp_id \in Selectable
                           /\ \A j \in 0 .. i - 1 : At(j) \notin Selectable
<1> DEFINE T == {i \in Warp : At(i) \in Selectable}
           First(i) == At(i) \in Selectable /\ \A j \in 0 .. i - 1 : At(j) \notin Selectable
<1>1. T \in SUBSET Nat /\ T # {}
  <2>1. PICK w \in Selectable : TRUE
    BY DEF issue_valid
  <2>2. w \in Warp /\ rr_ptr_q \in Warp
    BY DEF Selectable, TypeOK
  <2>3. \E i \in Warp : At(i) = w
    BY <2>2, EveryWarpScanned, Zenon DEF At
  <2> QED
    BY <2>3, ConfigAssumption DEF Warp
<1>2. PICK n \in T : \A m \in T : ~(m < n)
  BY <1>1, LeastElement
<1>3. n \in Warp /\ First(n)
  <2>1. ASSUME NEW j \in 0 .. n - 1 PROVE j \in Warp /\ j < n
    BY <1>1, <1>2, ConfigAssumption DEF Warp
  <2> QED
    BY <1>2, <2>1
<1>4. issue_warp_id = At(CHOOSE i \in Warp : First(i))
  BY Zenon DEF issue_warp_id, At
<1> HIDE DEF First
<1>5. (CHOOSE i \in Warp : First(i)) \in Warp /\ First(CHOOSE i \in Warp : First(i))
  BY <1>3, Zenon
<1> QED
  BY <1>4, <1>5, Zenon DEF First

LEMMA IssueType ==
    ASSUME TypeOK
    PROVE  /\ issue_warp_id \in Warp
           /\ issue_valid => issue_warp_id \in Selectable
           /\ ~issue_valid => issue_warp_id = 0
<1>1. 0 \in Warp
  BY ConfigAssumption DEF Warp
<1>2. issue_valid => issue_warp_id \in Selectable
  BY FirstSelectable
<1>3. ~issue_valid => issue_warp_id = 0
  BY DEF issue_warp_id
<1> QED
  BY <1>1, <1>2, <1>3 DEF Selectable

-----------------------------------------------------------------------------
(* Type correctness.                                                       *)
LEMMA ClockType ==
    ASSUME TypeOK, Clock
    PROVE  TypeOK'
<1>1. 0 \in Stage /\ ExecLatency - 1 \in Stage /\ \A s \in Stage : s # 0 => s - 1 \in Stage
  BY ConfigAssumption DEF Stage
<1>2. issue_warp_id \in Warp /\ issuing \in InstrMeta
  BY IssueType, TopAssumption DEF issuing, TypeOK
<1>3. wb \in PipeEntry
  BY <1>1 DEF wb, TypeOK
<1>4. reg_busy_q' \in [Warp -> SUBSET Reg]
  <2> DEFINE cleared == IF wb.valid /\ wb.has_dst
                        THEN [reg_busy_q EXCEPT ![wb.warp_id] = @ \ {wb.dst}]
                        ELSE reg_busy_q
  <2>1. cleared \in [Warp -> SUBSET Reg]
    BY DEF TypeOK
  <2>2. reg_busy_q' = IF issue_valid /\ issuing.has_dst
                      THEN [cleared EXCEPT ![issue_warp_id] = @ \cup {issuing.dst}]
                      ELSE cleared
    BY Zenon DEF Clock, ScoreboardEdge
  <2>3. issuing.dst \in Reg
    BY <1>2 DEF InstrMeta
  <2> HIDE DEF cleared
  <2> QED
    BY <1>2, <2>1, <2>2, <2>3
<1>5. rr_ptr_q' \in Warp
  BY <1>2, ConfigAssumption DEF Clock, PointerEdge, TypeOK, Warp
<1>6. pipe' \in [Stage -> PipeEntry]
  <2> DEFINE entry == [valid |-> issue_valid, warp_id |-> issue_warp_id,
                       dst |-> issuing.dst, has_dst |-> issuing.has_dst]
  <2>1. issue_valid \in BOOLEAN
    BY DEF issue_valid
  <2>2. entry \in PipeEntry
    BY <1>2, <2>1 DEF PipeEntry, InstrMeta
  <2>3. pipe' = [s \in Stage |-> IF s = 0 THEN entry ELSE pipe[s - 1]]
    BY Zenon DEF Clock, PipeEdge
  <2> HIDE DEF entry
  <2> QED
    BY <1>1, <2>2, <2>3 DEF TypeOK
<1>7. counters' \in [DOMAIN ZeroCounters -> 0 .. RtlCounterMod - 1]
  <2>1. counters \in [DOMAIN ZeroCounters -> 0 .. RtlCounterMod - 1]
    BY DEF TypeOK
  <2>2. \A c \in 0 .. RtlCounterMod - 1 : (c + 1) % RtlCounterMod \in 0 .. RtlCounterMod - 1
    BY TopAssumption
  <2>3. counters' = [c \in DOMAIN counters |->
            IF c \in Counted THEN (counters[c] + 1) % RtlCounterMod ELSE counters[c]]
    BY Zenon DEF Clock, CountersEdge
  <2> QED
    BY <2>1, <2>2, <2>3
<1>9. wraps' \in [DOMAIN ZeroCounters -> 0 .. (CounterMod \div RtlCounterMod) - 1]
  <2>1. wraps \in [DOMAIN ZeroCounters -> 0 .. Rounds - 1]
    BY DEF TypeOK, Rounds
  <2>2. \A c \in 0 .. Rounds - 1 : (c + 1) % Rounds \in 0 .. Rounds - 1
    BY RoundsAre
  <2>3. wraps' = [c \in DOMAIN wraps |->
            IF c \in Counted /\ counters[c] = RtlCounterMod - 1
            THEN (wraps[c] + 1) % Rounds ELSE wraps[c]]
    BY Zenon DEF Clock, WrapsEdge, Rounds
  <2> QED
    BY <2>1, <2>2, <2>3 DEF Rounds
<1>8. sampled' \in [issued_warp : Optional(Warp), writeback : Optional(WbResult)]
  BY <1>2, <1>3 DEF Clock, Observed, Optional, PipeEntry, WbResult
<1> QED
  BY <1>4, <1>5, <1>6, <1>7, <1>8, <1>9 DEF Clock, TypeOK

(* Every index of the RTL stays in range, whatever the testbench drives.   *)
THEOREM TopTypeCorrect == Spec => []TypeOK
<1>1. /\ 0 \in Warp /\ 0 \in Reg
      /\ ZeroCounters \in [DOMAIN ZeroCounters -> 0 .. RtlCounterMod - 1]
      /\ ZeroCounters \in [DOMAIN ZeroCounters -> 0 .. (CounterMod \div RtlCounterMod) - 1]
  <2>1. 0 \in 0 .. RtlCounterMod - 1 /\ 0 \in 0 .. (CounterMod \div RtlCounterMod) - 1
    BY RoundsAre, TopAssumption DEF Rounds
  <2> QED
    BY <2>1, ConfigAssumption DEF Warp, Reg, ZeroCounters
<1>2. Init => TypeOK
  BY <1>1 DEF Init, TypeOK, Invalid, PipeEntry, Optional
<1>3. TypeOK /\ [Next]_topVars => TypeOK'
  <2> SUFFICES ASSUME TypeOK, [Next]_topVars PROVE TypeOK'
    OBVIOUS
  <2>1. CASE DriveAny
    BY <2>1 DEF DriveAny, Drive, regs, TypeOK
  <2>2. CASE Clock
    BY <2>2, ClockType
  <2>3. CASE ResetEdge
    BY <1>1, <2>3 DEF ResetEdge, TypeOK, Invalid, PipeEntry
  <2>4. CASE UNCHANGED topVars
    BY <2>4 DEF topVars, regs, TypeOK
  <2> QED
    BY <2>1, <2>2, <2>3, <2>4 DEF Next
<1> QED
  BY <1>2, <1>3, PTL DEF Spec

-----------------------------------------------------------------------------
(* The refinement, one register at a time.  The flat busy vector of the    *)
(* C++ scoreboard has exactly the bits of the rows.                        *)
LEMMA FlatIs ==
    ASSUME NEW b, NEW x
    PROVE  x \in Flat(b) <=> \E w \in Warp : \E r \in b[w] : x = w * Regs + r
BY DEF Flat

LEMMA FlatMember ==
    ASSUME NEW b \in [Warp -> SUBSET Reg], NEW w \in Warp, NEW r \in Reg
    PROVE  w * Regs + r \in Flat(b) <=> r \in b[w]
<1>1. ASSUME NEW v \in Warp, NEW q \in Reg, w * Regs + r = v * Regs + q
      PROVE  w = v /\ r = q
  <2>1. w \in Proved!Warp /\ v \in Proved!Warp /\ r \in Proved!Reg /\ q \in Proved!Reg
    BY DEF Proved!Warp, Warp, Proved!Reg, Reg
  <2>2. Proved!Idx(w, r) = Proved!Idx(v, q)
    BY <1>1, Zenon DEF Proved!Idx
  <2> QED
    BY <2>1, <2>2, ProvedAssumptions, Proved!IdxInjective
<1>2. ASSUME w * Regs + r \in Flat(b) PROVE r \in b[w]
  <2>1. PICK v \in Warp : \E q \in b[v] : w * Regs + r = v * Regs + q
    BY <1>2, FlatIs
  <2>2. PICK q \in b[v] : w * Regs + r = v * Regs + q
    BY <2>1
  <2>3. q \in Reg
    OBVIOUS
  <2> QED
    BY <1>1, <2>2, <2>3
<1>3. ASSUME r \in b[w] PROVE w * Regs + r \in Flat(b)
  BY <1>3, FlatIs
<1> QED
  BY <1>2, <1>3

LEMMA FlatAdd ==
    ASSUME NEW b \in [Warp -> SUBSET Reg], NEW w \in Warp, NEW r \in Reg
    PROVE  Flat([b EXCEPT ![w] = @ \cup {r}]) = Flat(b) \cup {w * Regs + r}
<1> DEFINE c == [b EXCEPT ![w] = @ \cup {r}]
<1>1. \A v \in Warp : c[v] = IF v = w THEN b[v] \cup {r} ELSE b[v]
  OBVIOUS
<1> HIDE DEF c
<1>2. \A v \in Warp : \A q : q \in c[v] <=> q \in b[v] \/ (v = w /\ q = r)
  BY <1>1
<1>3. \A x : x \in Flat(c) <=> x \in Flat(b) \/ x = w * Regs + r
  <2>1. \A x : x \in Flat(b) <=> \E v \in Warp : \E q \in b[v] : x = v * Regs + q
    BY FlatIs, Zenon
  <2>2. \A x : x \in Flat(c) <=> \E v \in Warp : \E q \in c[v] : x = v * Regs + q
    BY FlatIs, Zenon
  <2> QED
    BY <1>2, <2>1, <2>2, Zenon
<1> QED
  BY <1>3, Zenon DEF c

LEMMA FlatRemove ==
    ASSUME NEW b \in [Warp -> SUBSET Reg], NEW w \in Warp, NEW r \in Reg
    PROVE  Flat([b EXCEPT ![w] = @ \ {r}]) = Flat(b) \ {w * Regs + r}
<1> DEFINE c == [b EXCEPT ![w] = @ \ {r}]
<1>1. \A v \in Warp : c[v] = IF v = w THEN b[v] \ {r} ELSE b[v]
  OBVIOUS
<1>2. c \in [Warp -> SUBSET Reg]
  OBVIOUS
<1> HIDE DEF c
<1>3. w * Regs + r \notin Flat(c)
  <2>1. r \notin c[w]
    BY <1>1
  <2> QED
    BY <1>2, <2>1, FlatMember, Zenon
<1>4. \A v \in Warp : \A q : q \in c[v] <=> q \in b[v] /\ ~(v = w /\ q = r)
  BY <1>1
<1>5. \A x : x # w * Regs + r => (x \in Flat(c) <=> x \in Flat(b))
  <2>1. \A x : x \in Flat(b) <=> \E v \in Warp : \E q \in b[v] : x = v * Regs + q
    BY FlatIs, Zenon
  <2>2. \A x : x \in Flat(c) <=> \E v \in Warp : \E q \in c[v] : x = v * Regs + q
    BY FlatIs, Zenon
  <2> QED
    BY <1>4, <2>1, <2>2, Zenon
<1>6. \A x : x \in Flat(c) <=> x \in Flat(b) /\ x # w * Regs + r
  BY <1>3, <1>5, Zenon
<1> QED
  BY <1>6, Zenon DEF c

LEMMA CppSets ==
    /\ Cpp!Warp = Warp /\ Cpp!Reg = Reg /\ Cpp!Stage = Stage
    /\ Cpp!InstrMeta = InstrMeta /\ Cpp!WbResult = WbResult
    /\ \A T : Cpp!Optional(T) = Optional(T)
    /\ \A c : Cpp!Inc(c) = Inc(c)
    /\ Cpp!ZeroCounters = ZeroCounters
BY Zenon
DEF Cpp!Warp, Warp, Cpp!Reg, Reg, Cpp!Stage, Stage, Cpp!InstrMeta, InstrMeta,
    Cpp!WbResult, WbResult, Cpp!Optional, Optional, Cpp!Inc, Inc,
    Cpp!ZeroCounters, ZeroCounters

(* Eligibility.                                                            *)
LEMMA SlotsAre ==
    ASSUME TypeOK, NEW w \in Warp
    PROVE  /\ Slots[w] # Nullopt <=> warp_has_instr[w]
           /\ warp_has_instr[w] => Slots[w] = warp_instr[w]
           /\ warp_instr[w] \in InstrMeta
<1>1. warp_instr[w] \in InstrMeta /\ warp_instr[w] # Nullopt
  BY TopAssumption, ConfigAssumption DEF TypeOK
<1> QED
  BY <1>1 DEF Slots

LEMMA SameSignals ==
    ASSUME TypeOK, NEW w \in Warp
    PROVE  /\ Cpp!HasWork(w) <=> warp_has_instr[w] /\ warp_ready(w)
           /\ warp_has_instr[w] => (Cpp!NoHazard(w) <=> can_issue(w))
<1>1. Cpp!HasWork(w) <=> Slots[w] # Nullopt /\ warp_state_q[w] = "READY"
  BY Zenon DEF Cpp!HasWork, Cpp!HasInstr, Cpp!IsReady, Slots
<1>2. Cpp!NoHazard(w) <=> /\ w * Regs + Slots[w].src0 \notin Flat(reg_busy_q)
                          /\ w * Regs + Slots[w].src1 \notin Flat(reg_busy_q)
  BY Zenon DEF Cpp!NoHazard, Cpp!CanIssue, Cpp!Idx, Slots, Flat
<1>3. reg_busy_q \in [Warp -> SUBSET Reg]
  BY DEF TypeOK
<1>4. warp_instr[w].src0 \in Reg /\ warp_instr[w].src1 \in Reg
  BY SlotsAre DEF InstrMeta
<1>5. /\ w * Regs + warp_instr[w].src0 \in Flat(reg_busy_q) <=> warp_instr[w].src0 \in reg_busy_q[w]
      /\ w * Regs + warp_instr[w].src1 \in Flat(reg_busy_q) <=> warp_instr[w].src1 \in reg_busy_q[w]
  BY <1>3, <1>4, FlatMember, Zenon
<1>6. warp_has_instr[w] => Slots[w] = warp_instr[w]
  BY SlotsAre
<1>7. Slots[w] # Nullopt <=> warp_has_instr[w]
  BY SlotsAre
<1> QED
  BY <1>1, <1>2, <1>5, <1>6, <1>7, Zenon DEF warp_ready, can_issue

LEMMA SameEligible ==
    ASSUME TypeOK
    PROVE  Cpp!EligibleWarps = Selectable
<1>1. \A w : w \in Cpp!EligibleWarps <=> w \in Warp /\ Cpp!HasWork(w) /\ Cpp!NoHazard(w)
  BY CppSets, Zenon DEF Cpp!EligibleWarps, Cpp!Eligible
<1>2. \A w : w \in Selectable <=> w \in Warp /\ warp_ready(w) /\ can_issue(w) /\ warp_has_instr[w]
  BY Zenon DEF Selectable
<1>3. \A w : w \in Cpp!EligibleWarps <=> w \in Selectable
  BY <1>1, <1>2, SameSignals, Zenon
<1> QED
  BY <1>3, Zenon

Issued == IF issue_valid THEN issue_warp_id ELSE Nullopt

LEMMA IssuedType ==
    ASSUME TypeOK
    PROVE  /\ Issued \in Optional(Warp)
           /\ Issued # Nullopt <=> issue_valid
           /\ issue_valid => Issued = issue_warp_id /\ warp_has_instr[Issued]
<1>1. issue_warp_id \in Warp /\ issue_warp_id # Nullopt
  BY IssueType, ConfigAssumption
<1> QED
  BY <1>1, IssueType DEF Issued, Optional, Selectable

LEMMA SameSelection ==
    ASSUME TypeOK
    PROVE  Cpp!Selects(rr_ptr_q, Cpp!EligibleWarps, Issued)
<1>1. CASE issue_valid
  <2>1. PICK i \in Warp : /\ issue_warp_id = At(i)
                          /\ issue_warp_id \in Selectable
                          /\ \A j \in 0 .. i - 1 : At(j) \notin Selectable
    BY <1>1, FirstSelectable
  <2>2. Issued = issue_warp_id /\ Selectable # {}
    BY <1>1 DEF Issued, issue_valid
  <2> QED
    BY <2>1, <2>2, SameEligible, CppSets, Zenon DEF Cpp!Selects, Cpp!Scanned, At
<1>2. CASE ~issue_valid
  BY <1>2, SameEligible, Zenon DEF Cpp!Selects, Issued, issue_valid
<1> QED
  BY <1>1, <1>2

(* The write-back port.                                                    *)
Leaving == AsWbResult(wb)

LEMMA LeavingIs ==
    ASSUME TypeOK
    PROVE  /\ wb \in PipeEntry
           /\ Leaving # Nullopt <=> wb.valid
           /\ wb.valid => /\ Leaving.warp_id = wb.warp_id
                          /\ Leaving.dst = wb.dst
                          /\ Leaving.has_dst = wb.has_dst
           /\ Cpp!Exiting(Turned(pipe)) = Leaving
<1>1. 0 \in Stage /\ ExecLatency - 1 \in Stage /\ ExecLatency - 1 - 0 = ExecLatency - 1
  BY ConfigAssumption DEF Stage
<1>2. wb \in PipeEntry
  BY <1>1 DEF TypeOK, wb
<1> DEFINE r == [warp_id |-> wb.warp_id, dst |-> wb.dst, has_dst |-> wb.has_dst]
<1>3. r \in WbResult /\ r # Nullopt
  BY <1>2, ConfigAssumption DEF PipeEntry, WbResult
<1>4. Leaving = IF wb.valid THEN r ELSE Nullopt
  BY Zenon DEF Leaving, AsWbResult
<1>5. Cpp!Exiting(Turned(pipe)) = Leaving
  BY <1>1 DEF Cpp!Exiting, Turned, Leaving, wb
<1> QED
  BY <1>2, <1>3, <1>4, <1>5

LEMMA BusyEdge ==
    ASSUME TypeOK, Clock
    PROVE  Flat(reg_busy_q') = Cpp!ScoreboardNext(Leaving, Issued)
<1> DEFINE rows == IF wb.valid /\ wb.has_dst
                   THEN [reg_busy_q EXCEPT ![wb.warp_id] = @ \ {wb.dst}]
                   ELSE reg_busy_q
           cleared == IF Leaving # Nullopt /\ Leaving.has_dst
                      THEN Cpp!Clear(Flat(reg_busy_q), Leaving.warp_id, Leaving.dst)
                      ELSE Flat(reg_busy_q)
<1>1. reg_busy_q \in [Warp -> SUBSET Reg]
  BY DEF TypeOK
<1>2. wb.warp_id \in Warp /\ wb.dst \in Reg
  BY LeavingIs DEF PipeEntry
<1>3. rows \in [Warp -> SUBSET Reg]
  BY <1>1
<1>4. Flat(rows) = cleared
  <2>1. CASE wb.valid /\ wb.has_dst
    <3>1. Flat(rows) = Flat(reg_busy_q) \ {wb.warp_id * Regs + wb.dst}
      BY <1>1, <1>2, <2>1, FlatRemove
    <3>2. cleared = Cpp!Clear(Flat(reg_busy_q), wb.warp_id, wb.dst)
      BY <2>1, LeavingIs
    <3> QED
      BY <3>1, <3>2, Zenon DEF Cpp!Clear, Cpp!Idx
  <2>2. CASE ~(wb.valid /\ wb.has_dst)
    BY <2>2, LeavingIs
  <2> QED
    BY <2>1, <2>2
<1>5. reg_busy_q' = IF issue_valid /\ issuing.has_dst
                    THEN [rows EXCEPT ![issue_warp_id] = @ \cup {issuing.dst}]
                    ELSE rows
  BY Zenon DEF Clock, ScoreboardEdge
<1>6. Cpp!ScoreboardNext(Leaving, Issued) =
          IF Issued # Nullopt /\ Slots[Issued].has_dst
          THEN Cpp!MarkBusy(cleared, Issued, Slots[Issued].dst) ELSE cleared
  BY Zenon DEF Cpp!ScoreboardNext, Slots, Flat
<1> HIDE DEF rows, cleared
<1>7. issue_valid => /\ Issued = issue_warp_id /\ issue_warp_id \in Warp
                     /\ Slots[Issued] = issuing /\ issuing.dst \in Reg
  BY IssueType, IssuedType, SlotsAre DEF issuing, InstrMeta
<1>8. CASE issue_valid /\ issuing.has_dst
  <2>1. Flat(reg_busy_q') = Flat(rows) \cup {issue_warp_id * Regs + issuing.dst}
    <3>1. reg_busy_q' = [rows EXCEPT ![issue_warp_id] = @ \cup {issuing.dst}]
      BY <1>5, <1>8
    <3>2. issue_warp_id \in Warp /\ issuing.dst \in Reg
      BY <1>7, <1>8
    <3>3. Flat([rows EXCEPT ![issue_warp_id] = @ \cup {issuing.dst}])
            = Flat(rows) \cup {issue_warp_id * Regs + issuing.dst}
      BY <1>3, <3>2, FlatAdd, Zenon
    <3> QED
      BY <3>1, <3>3, Zenon
  <2>2. Cpp!ScoreboardNext(Leaving, Issued) = Cpp!MarkBusy(cleared, issue_warp_id, issuing.dst)
    BY <1>6, <1>7, <1>8, IssuedType
  <2> QED
    BY <1>4, <2>1, <2>2, Zenon DEF Cpp!MarkBusy, Cpp!Idx
<1>9. CASE ~(issue_valid /\ issuing.has_dst)
  BY <1>4, <1>5, <1>6, <1>7, <1>9, IssuedType
<1> QED
  BY <1>8, <1>9

LEMMA PipeEdgeAgrees ==
    ASSUME TypeOK, Clock
    PROVE  Turned(pipe') = Cpp!PipeNext(Issued)
<1> DEFINE entry == [valid |-> issue_valid, warp_id |-> issue_warp_id,
                     dst |-> issuing.dst, has_dst |-> issuing.has_dst]
           pushed == [warp_id |-> Issued, dst |-> Slots[Issued].dst,
                      has_dst |-> Slots[Issued].has_dst]
           last == ExecLatency - 1
           shifted == [s \in Stage |-> IF s = last THEN Nullopt ELSE Turned(pipe)[s + 1]]
<1>1. last \in Stage /\ \A s \in Stage : /\ last - s \in Stage
                                         /\ last - s = 0 <=> s = last
                                         /\ s # last => s + 1 \in Stage /\ (last - s) - 1 = last - (s + 1)
  BY ConfigAssumption DEF Stage
<1>2. pipe' = [s \in Stage |-> IF s = 0 THEN entry ELSE pipe[s - 1]]
  BY Zenon DEF Clock, PipeEdge
<1>3. Cpp!PipeNext(Issued) = IF Issued = Nullopt THEN shifted
                             ELSE [shifted EXCEPT ![last] = pushed]
  BY Zenon DEF Cpp!PipeNext, Cpp!Shift, Cpp!Push, Cpp!Stage, Stage, Slots, Turned
<1> HIDE DEF entry, pushed
<1>4. Turned(pipe') = [s \in Stage |-> IF s = last THEN AsWbResult(entry)
                                       ELSE AsWbResult(pipe[(last - s) - 1])]
  BY <1>1, <1>2 DEF Turned
<1>5. \A s \in Stage : s # last => Turned(pipe)[s + 1] = AsWbResult(pipe[(last - s) - 1])
  BY <1>1 DEF Turned
<1>6. AsWbResult(entry) = IF issue_valid THEN pushed ELSE Nullopt
  <2>1. issue_valid => Slots[Issued] = issuing /\ Issued = issue_warp_id
    BY IssueType, IssuedType, SlotsAre DEF issuing
  <2>2. CASE issue_valid
    BY <2>1, <2>2 DEF AsWbResult, entry, pushed
  <2>3. CASE ~issue_valid
    BY <2>3 DEF AsWbResult, entry
  <2> QED
    BY <2>2, <2>3
<1> HIDE DEF last
<1>7. CASE issue_valid
  BY <1>1, <1>3, <1>4, <1>5, <1>6, <1>7, IssuedType
<1>8. CASE ~issue_valid
  BY <1>1, <1>3, <1>4, <1>5, <1>6, <1>8, IssuedType
<1> QED
  BY <1>7, <1>8

LEMMA PointerEdgeAgrees ==
    ASSUME TypeOK
    PROVE  PointerEdge = IF Issued = Nullopt THEN rr_ptr_q ELSE Cpp!Advance(Issued)
<1>1. CASE issue_valid
  <2>1. issue_warp_id \in Proved!Warp
    BY IssueType DEF Proved!Warp, Warp
  <2>2. Proved!Advance(issue_warp_id) = IF issue_warp_id + 1 < Warps THEN issue_warp_id + 1 ELSE 0
    BY <2>1, ProvedAssumptions, Proved!AdvanceIs
  <2>3. Cpp!Advance(issue_warp_id) = Proved!Advance(issue_warp_id)
    BY Zenon DEF Cpp!Advance, Proved!Advance
  <2>4. PointerEdge = IF issue_warp_id = Warps - 1 THEN 0 ELSE issue_warp_id + 1
    BY <1>1 DEF PointerEdge
  <2>5. issue_warp_id + 1 < Warps <=> issue_warp_id # Warps - 1
    BY IssueType, ConfigAssumption DEF Warp
  <2> QED
    BY <1>1, <2>2, <2>3, <2>4, <2>5, IssuedType, Zenon
<1>2. CASE ~issue_valid
  BY <1>2, IssuedType DEF PointerEdge
<1> QED
  BY <1>1, <1>2

LEMMA SameCounted ==
    ASSUME TypeOK
    PROVE  Cpp!Counted(Leaving, Issued) = Counted
<1>1. Cpp!AnyDataStall <=> scoreboard_blocked
  BY SameSignals, CppSets, Zenon DEF Cpp!AnyDataStall, scoreboard_blocked
<1>2. ~issue_valid /\ ~scoreboard_blocked => ~Cpp!AnyWork
  BY SameSignals, CppSets DEF Cpp!AnyWork, scoreboard_blocked, issue_valid, Selectable
<1>3. Cpp!Counted(Leaving, Issued) =
          {"cycles"}
              \cup (IF Leaving # Nullopt THEN {"wb_count"} ELSE {})
              \cup (IF Issued # Nullopt THEN {"instructions", "cycles_issuing"}
                    ELSE IF Cpp!AnyDataStall THEN {"stall_data"}
                    ELSE IF ~Cpp!AnyWork THEN {"stall_no_warp"} ELSE {})
  BY Zenon DEF Cpp!Counted
<1>4. (Leaving # Nullopt <=> wb.valid) /\ (Issued # Nullopt <=> issue_valid)
  BY LeavingIs, IssuedType
<1> QED
  BY <1>1, <1>2, <1>3, <1>4 DEF Counted

(* A 32-bit counter that wraps carries into the bits it does not have.     *)
LEMMA CountersEdgeAgrees ==
    ASSUME TypeOK, Clock
    PROVE  CppCounters' = Cpp!CountersNext(Leaving, Issued)
<1> DEFINE C == DOMAIN ZeroCounters
<1>1. /\ counters \in [C -> 0 .. RtlCounterMod - 1]
      /\ wraps \in [C -> 0 .. Rounds - 1]
  BY DEF TypeOK, Rounds
<1>2. CppCounters = [c \in C |-> wraps[c] * RtlCounterMod + counters[c]]
  BY <1>1 DEF CppCounters
<1>3. counters' = [c \in C |-> IF c \in Counted THEN (counters[c] + 1) % RtlCounterMod
                              ELSE counters[c]]
  BY <1>1, Zenon DEF Clock, CountersEdge
<1>4. wraps' = [c \in C |-> IF c \in Counted /\ counters[c] = RtlCounterMod - 1
                           THEN (wraps[c] + 1) % Rounds ELSE wraps[c]]
  BY <1>1, Zenon DEF Clock, WrapsEdge, Rounds
<1>5. Cpp!CountersNext(Leaving, Issued) =
          [c \in C |-> IF c \in Counted THEN Inc(CppCounters[c]) ELSE CppCounters[c]]
  <2>1. Cpp!CountersNext(Leaving, Issued) =
            [c \in DOMAIN CppCounters |->
                IF c \in Cpp!Counted(Leaving, Issued) THEN Cpp!Inc(CppCounters[c])
                ELSE CppCounters[c]]
    BY Zenon DEF Cpp!CountersNext
  <2>2. DOMAIN CppCounters = C
    BY <1>2
  <2> QED
    BY <2>1, <2>2, SameCounted, CppSets
<1> HIDE DEF C
<1>6. ASSUME NEW c \in C
      PROVE  wraps'[c] * RtlCounterMod + counters'[c] =
                 IF c \in Counted THEN Inc(CppCounters[c]) ELSE CppCounters[c]
  <2>1. CppCounters[c] = wraps[c] * RtlCounterMod + counters[c]
    BY <1>2
  <2>2. wraps[c] \in 0 .. Rounds - 1 /\ counters[c] \in 0 .. RtlCounterMod - 1
    BY <1>1
  <2>3. CASE c \in Counted
    <3>1. counters'[c] = (counters[c] + 1) % RtlCounterMod
      BY <1>3, <2>3
    <3>2. wraps'[c] = IF counters[c] = RtlCounterMod - 1
                      THEN (wraps[c] + 1) % Rounds ELSE wraps[c]
      BY <1>4, <2>3
    <3> QED
      BY <2>1, <2>2, <2>3, <3>1, <3>2, CarryOver, Zenon
  <2>4. CASE c \notin Counted
    <3>1. counters'[c] = counters[c] /\ wraps'[c] = wraps[c]
      BY <1>3, <1>4, <2>4
    <3> QED
      BY <2>1, <2>4, <3>1, Zenon
  <2> QED
    BY <2>3, <2>4
<1>7. DOMAIN counters' = C
  BY <1>3
<1>8. CppCounters' = [c \in C |-> wraps'[c] * RtlCounterMod + counters'[c]]
  BY <1>7, Zenon DEF CppCounters
<1> QED
  BY <1>5, <1>6, <1>8, Zenon

LEMMA ZeroCountersAgree ==
    ASSUME NEW low, low = ZeroCounters, NEW high, high = ZeroCounters
    PROVE  [c \in DOMAIN low |-> high[c] * RtlCounterMod + low[c]] = Cpp!ZeroCounters
<1>1. \A c \in DOMAIN ZeroCounters : ZeroCounters[c] = 0
  BY DEF ZeroCounters
<1>2. 0 * RtlCounterMod + 0 = 0
  BY TopAssumption
<1>3. [c \in DOMAIN low |-> high[c] * RtlCounterMod + low[c]] = [c \in DOMAIN ZeroCounters |-> 0]
  BY <1>1, <1>2
<1>4. ZeroCounters = [c \in DOMAIN ZeroCounters |-> 0]
  BY DEF ZeroCounters
<1> QED
  BY <1>3, <1>4, CppSets, Zenon

(* One clock edge is one tick.                                             *)
LEMMA ClockIsTick ==
    ASSUME TypeOK, Clock
    PROVE  Cpp!Tick
<1>1. Cpp!Exiting(Turned(pipe)) = Leaving
  BY LeavingIs
<1>2. sampled' = [issued_warp |-> Issued, writeback |-> Leaving]
  BY Zenon DEF Clock, Observed, Issued, Leaving, AsWbResult
<1>3. /\ Slots' = Slots /\ warp_state_q' = warp_state_q
      /\ rr_ptr_q' = PointerEdge
  BY DEF Clock, Slots
<1>4. PICK issued \in Cpp!Optional(Cpp!Warp) : issued = Issued
  BY IssuedType, CppSets
<1>5. /\ Cpp!Selects(rr_ptr_q, Cpp!EligibleWarps, issued)
      /\ sampled' = [issued_warp |-> issued, writeback |-> Leaving]
      /\ Flat(reg_busy_q)' = Cpp!ScoreboardNext(Leaving, issued)
      /\ Turned(pipe)' = Cpp!PipeNext(issued)
      /\ rr_ptr_q' = IF issued = Nullopt THEN rr_ptr_q ELSE Cpp!Advance(issued)
      /\ CppCounters' = Cpp!CountersNext(Leaving, issued)
  <2>1. Flat(reg_busy_q)' = Flat(reg_busy_q') /\ Turned(pipe)' = Turned(pipe')
    BY DEF Flat, Turned
  <2> QED
    BY <1>2, <1>3, <1>4, <2>1, BusyEdge, PipeEdgeAgrees, PointerEdgeAgrees,
       CountersEdgeAgrees, SameSelection, Zenon
<1>6. Cpp!TickIssuing(issued)
  BY <1>1, <1>3, <1>5, Zenon DEF Cpp!TickIssuing, Slots, Turned, Flat
<1> QED
  BY <1>6, Zenon DEF Cpp!Tick

LEMMA ResetValues ==
    /\ Flat([w \in Warp |-> {}]) = Cpp!NothingBusy
    /\ [w \in Warp |-> "READY"] = Cpp!AllReady
    /\ Turned([s \in Stage |-> Invalid]) = Cpp!EmptyPipe
<1>1. Flat([w \in Warp |-> {}]) = {}
  BY DEF Flat
<1>2. \A s \in Stage : ExecLatency - 1 - s \in Stage
  BY ConfigAssumption DEF Stage
<1>3. AsWbResult(Invalid) = Nullopt
  BY DEF AsWbResult, Invalid
<1>4. Turned([s \in Stage |-> Invalid]) = [s \in Stage |-> Nullopt]
  BY <1>2, <1>3 DEF Turned
<1> QED
  BY <1>1, <1>4, CppSets, Zenon DEF Cpp!NothingBusy, Cpp!AllReady, Cpp!EmptyPipe

LEMMA DriveIsPresent ==
    ASSUME TypeOK, DriveAny
    PROVE  Cpp!PresentAny
<1>1. PICK w \in Warp, has_instr \in BOOLEAN, instr \in Program : Drive(w, has_instr, instr)
  BY DEF DriveAny
<1> DEFINE slot == IF has_instr THEN instr ELSE Nullopt
<1>2. slot \in Optional(Program)
  BY DEF Optional
<1>3. Slots' = [Slots EXCEPT ![w] = slot]
  BY <1>1 DEF Drive, Slots, TypeOK
<1>4. /\ Flat(reg_busy_q)' = Flat(reg_busy_q) /\ Turned(pipe)' = Turned(pipe)
      /\ UNCHANGED <<warp_state_q, rr_ptr_q, CppCounters, sampled>>
  BY <1>1 DEF Drive, regs, Flat, Turned, CppCounters
<1> HIDE DEF slot
<1>5. Cpp!Present(w, slot)
  BY <1>3, <1>4, Zenon DEF Cpp!Present, Slots, Flat, Turned
<1> QED
  BY <1>2, <1>5, CppSets, Zenon DEF Cpp!PresentAny

(* Every clock edge of the RTL is a tick of the C++ model with the same    *)
(* issue and write-back; the 32-bit counters of the RTL                    *)
(* (mini_sm_top.sv:65-72) hold the lower bits of the 64-bit ones of        *)
(* PerfCounters (simt_types.h:48-57), and agree while none has wrapped.    *)
THEOREM TopImplementsCpp == Spec => MatchesCpp
<1>1. Init => Cpp!Init
  <2> SUFFICES ASSUME Init PROVE Cpp!Init
    OBVIOUS
  <2>1. Slots = [w \in Warp |-> Nullopt]
    BY DEF Init, Slots
  <2>2. /\ Flat(reg_busy_q) = Cpp!NothingBusy /\ warp_state_q = Cpp!AllReady
        /\ Turned(pipe) = Cpp!EmptyPipe
    BY ResetValues DEF Init
  <2>3. rr_ptr_q = 0 /\ CppCounters = Cpp!ZeroCounters
        /\ sampled = [issued_warp |-> Nullopt, writeback |-> Nullopt]
    BY ZeroCountersAgree DEF Init, CppCounters
  <2> QED
    BY <2>1, <2>2, <2>3, CppSets, Zenon DEF Cpp!Init, Cpp!Constructed, Slots, Flat, Turned
<1>2. TypeOK /\ [Next]_topVars => [Cpp!Next]_(Cpp!vars)
  <2> SUFFICES ASSUME TypeOK, [Next]_topVars PROVE [Cpp!Next]_(Cpp!vars)
    OBVIOUS
  <2>1. CASE DriveAny
    BY <2>1, DriveIsPresent DEF Cpp!Next
  <2>2. CASE Clock
    BY <2>2, ClockIsTick DEF Cpp!Next
  <2>3. CASE ResetEdge
    <3>1. /\ Flat(reg_busy_q)' = Cpp!NothingBusy /\ warp_state_q' = Cpp!AllReady
          /\ Turned(pipe)' = Cpp!EmptyPipe
      <4>1. /\ reg_busy_q' = [w \in Warp |-> {}] /\ pipe' = [s \in Stage |-> Invalid]
            /\ warp_state_q' = [w \in Warp |-> "READY"]
        BY <2>3 DEF ResetEdge
      <4>2. Flat(reg_busy_q)' = Flat(reg_busy_q') /\ Turned(pipe)' = Turned(pipe')
        BY DEF Flat, Turned
      <4> QED
        BY <4>1, <4>2, ResetValues
    <3>2. rr_ptr_q' = 0 /\ CppCounters' = Cpp!ZeroCounters
          /\ Slots' = Slots /\ sampled' = sampled
      <4>1. counters' = ZeroCounters /\ wraps' = ZeroCounters
        BY <2>3 DEF ResetEdge
      <4>2. CppCounters' = Cpp!ZeroCounters
        BY <4>1, ZeroCountersAgree DEF CppCounters
      <4> QED
        BY <2>3, <4>2 DEF ResetEdge, Slots
    <3>3. Cpp!Reset
      BY <3>1, <3>2, CppSets, Zenon DEF Cpp!Reset, Slots, Flat, Turned
    <3> QED
      BY <3>3 DEF Cpp!Next
  <2>4. CASE UNCHANGED topVars
    BY <2>4 DEF topVars, regs, Cpp!vars, Slots, Flat, Turned, CppCounters
  <2> QED
    BY <2>1, <2>2, <2>3, <2>4 DEF Next
<1> QED
  BY <1>1, <1>2, TopTypeCorrect, PTL DEF Spec, MatchesCpp, Cpp!Spec

-----------------------------------------------------------------------------
(* What MiniSMProofs shows of the C++ model holds of the RTL.              *)
LEMMA SameSpec == MatchesCpp => Proved!Spec
<1>1. Cpp!Init => Proved!Init
  BY
  DEF Cpp!Init, Proved!Init, Cpp!Constructed, Proved!Constructed,
      Cpp!NothingBusy, Proved!NothingBusy, Cpp!AllReady, Proved!AllReady,
      Cpp!EmptyPipe, Proved!EmptyPipe, Cpp!ZeroCounters, Proved!ZeroCounters,
      Cpp!Warp, Proved!Warp, Cpp!Stage, Proved!Stage
<1>2. [Cpp!Next]_(Cpp!vars) => [Proved!Next]_(Proved!vars)
  BY
  DEF Cpp!Next, Proved!Next, Cpp!PresentAny, Proved!PresentAny,
      Cpp!Present, Proved!Present, Cpp!Tick, Proved!Tick,
      Cpp!TickIssuing, Proved!TickIssuing, Cpp!Reset, Proved!Reset,
      Cpp!vars, Proved!vars, Cpp!HasInstr, Proved!HasInstr,
      Cpp!NoHazard, Proved!NoHazard, Cpp!HasWork, Proved!HasWork,
      Cpp!Eligible, Proved!Eligible,
      Cpp!EligibleWarps, Proved!EligibleWarps,
      Cpp!ScoreboardNext, Proved!ScoreboardNext,
      Cpp!PipeNext, Proved!PipeNext, Cpp!AnyWork, Proved!AnyWork,
      Cpp!AnyDataStall, Proved!AnyDataStall, Cpp!Counted, Proved!Counted,
      Cpp!CountersNext, Proved!CountersNext,
      Cpp!ZeroCounters, Proved!ZeroCounters, Cpp!Idx, Proved!Idx,
      Cpp!NothingBusy, Proved!NothingBusy, Cpp!CanIssue, Proved!CanIssue,
      Cpp!MarkBusy, Proved!MarkBusy, Cpp!Clear, Proved!Clear,
      Cpp!Scanned, Proved!Scanned, Cpp!Selects, Proved!Selects,
      Cpp!Advance, Proved!Advance, Cpp!AllReady, Proved!AllReady,
      Cpp!IsReady, Proved!IsReady, Cpp!EmptyPipe, Proved!EmptyPipe,
      Cpp!Exiting, Proved!Exiting, Cpp!Shift, Proved!Shift,
      Cpp!Push, Proved!Push, Cpp!Warp, Proved!Warp, Cpp!Reg, Proved!Reg,
      Cpp!Stage, Proved!Stage, Cpp!Optional, Proved!Optional,
      Cpp!Inc, Proved!Inc
<1> QED
  BY <1>1, <1>2, PTL DEF MatchesCpp, Cpp!Spec, Proved!Spec

(* No busy bit of the RTL outlives its write, each cycle is booked once,   *)
(* each issue is in the pipe or was counted as a write-back, and an        *)
(* instruction that is presented issues within ExecLatency + Warps edges   *)
(* (mini_sm_top.sv:233-283).                                               *)
THEOREM TopInherits ==
    Spec => /\ []Proved!BusyIsInFlight
            /\ []Proved!CycleAccounting
            /\ []Proved!WritebackAccounting
            /\ Proved!BoundedWait
<1>1. Spec => Proved!Spec
  BY TopImplementsCpp, SameSpec, PTL
<1> QED
  BY <1>1, ProvedAssumptions, Proved!NoStuckBusy, Proved!CyclesBookedOnce,
     Proved!WritebacksAccounted, Proved!WaitIsBounded, PTL

(* RAW order in the RTL: a program that accumulates never issues past an   *)
(* unfinished write of one of its sources (phase4_testbench.md:16), and    *)
(* the RTL makes the same promise as the C++ model, without scoreboard,    *)
(* pointer or pipeline: InOrder.                                           *)
THEOREM TopRawOrder ==
    ASSUME Proved!Accumulating
    PROVE  Spec => Proved!NoRawHazard /\ Proved!ImplementsInOrder
<1>1. Spec => Proved!Spec
  BY TopImplementsCpp, SameSpec, PTL
<1> QED
  BY <1>1, ProvedAssumptions, Proved!RawOrder, Proved!ImplementsInOrderSpec, PTL
=============================================================================
