--------------------------- MODULE ExecMaskProofs ---------------------------
(***************************************************************************)
(* The datapath, for every number of lanes and every width of a word.      *)
(***************************************************************************)
EXTENDS ExecMask, TLAPS

(* What is left of a number that leaves the range of a word by at most     *)
(* once in either direction.                                               *)
LEMMA WrapOnce ==
    ASSUME NEW x \in Int
    PROVE  /\ Truncated(x) \in Word
           /\ x \in Word => Truncated(x) = x
           /\ x + 2 * Half \in Word => Truncated(x) = x + 2 * Half
<1> DEFINE M == 2 * Half
<1>1. M \in Nat \ {0} /\ Word = 0 .. M - 1
  BY ExecMaskAssumption DEF Word
<1> HIDE DEF M
<1>2. \A r \in 0 .. M - 1 : \A q \in Int : (r + q * M) % M = r
  BY <1>1
<1>3. x % M \in 0 .. M - 1
  BY <1>1
<1>4. x \in 0 .. M - 1 => x % M = x
  BY <1>1
<1>5. ASSUME x + M \in 0 .. M - 1 PROVE x % M = x + M
  <2>1. ((x + M) + (-1) * M) % M = x + M
    BY <1>2, <1>5
  <2>2. (x + M) + (-1) * M = x
    BY <1>1
  <2> QED
    BY <2>1, <2>2
<1> QED
  BY <1>1, <1>3, <1>4, <1>5 DEF Truncated, M

LEMMA LaneOutType ==
    ASSUME NEW sel \in Sel, NEW x \in Word, NEW y \in Word
    PROVE  LaneOut(sel, x, y) \in Word
<1>1. 0 \in Word /\ 1 \in Word /\ x \in Int /\ y \in Int
  BY ExecMaskAssumption DEF Word
<1>2. /\ Truncated(x + y) \in Word
      /\ Truncated(x - y) \in Word
      /\ Truncated(x * y) \in Word
  <2>1. x + y \in Int /\ x - y \in Int /\ x * y \in Int
    BY <1>1
  <2> QED
    BY <2>1, WrapOnce
<1>3. BitAnd(x, y) \in Word /\ BitOr(x, y) \in Word /\ BitXor(x, y) \in Word
  BY ExecMaskAssumption
<1> QED
  BY <1>1, <1>2, <1>3 DEF LaneOut, Sel

InputsOK == in \in InputWires

LEMMA InputsStayOK == Spec => []InputsOK
<1>1. Init => InputsOK
  BY ExecMaskAssumption DEF Init, InputsOK, InputWires, Sel, Word
<1>2. InputsOK /\ [Next]_in => InputsOK'
  <2> SUFFICES ASSUME InputsOK, [Next]_in PROVE in' \in InputWires
    BY DEF InputsOK
  <2>1. in \in InputWires
    BY DEF InputsOK
  <2>2. ASSUME NEW wire \in {"in_valid", "mask_enable", "invert"}, in' = [in EXCEPT ![wire] = ~@]
        PROVE  in' \in InputWires
    <3>1. in[wire] \in BOOLEAN
      BY <2>1 DEF InputWires
    <3>2. PICK level \in BOOLEAN : level = ~in[wire]
      OBVIOUS
    <3>3. in' = [in EXCEPT ![wire] = level]
      BY <2>2, <3>2
    <3> QED
      BY <2>1, <3>3 DEF InputWires
  <2>3. ASSUME NEW sel \in Sel, in' = [in EXCEPT !.sel = sel] PROVE in' \in InputWires
    BY <2>1, <2>3 DEF InputWires
  <2>4. ASSUME NEW mask \in SUBSET Lane, in' = [in EXCEPT !.lane_mask_in = mask]
        PROVE  in' \in InputWires
    BY <2>1, <2>4 DEF InputWires
  <2>5. ASSUME NEW l \in Lane, NEW x \in Word, in' = [in EXCEPT !.a[l] = x]
        PROVE  in' \in InputWires
    BY <2>1, <2>5 DEF InputWires
  <2>6. ASSUME NEW l \in Lane, NEW x \in Word, in' = [in EXCEPT !.b[l] = x]
        PROVE  in' \in InputWires
    BY <2>1, <2>6 DEF InputWires
  <2>7. CASE UNCHANGED in
    BY <2>1, <2>7
  <2> QED
    BY <2>2, <2>3, <2>4, <2>5, <2>6, <2>7 DEF Next
<1> QED
  BY <1>1, <1>2, PTL DEF Spec

LEMMA ResultType ==
    ASSUME InputsOK, NEW l \in Lane
    PROVE  /\ result[l] \in Word /\ in.a[l] \in Word /\ in.b[l] \in Word
           /\ lane_out(l) \in Word
           /\ result[l] = IF l \in in.lane_mask_in THEN lane_out(l) ELSE in.a[l]
<1>1. in.a[l] \in Word /\ in.b[l] \in Word /\ in.sel \in Sel
  BY DEF InputsOK, InputWires
<1>2. lane_out(l) \in Word
  BY <1>1, LaneOutType DEF lane_out
<1> QED
  BY <1>1, <1>2 DEF result

(* Whatever the operation and the operands, a lane holds a word after the  *)
(* instruction, of every width (simd_lane_alu.sv:24-54).                   *)
THEOREM DatapathTypeCorrect == Spec => []TypeOK
<1>1. InputsOK => TypeOK
  <2> SUFFICES ASSUME InputsOK PROVE TypeOK
    OBVIOUS
  <2>1. \A l \in Lane : result[l] \in Word
    BY ResultType
  <2>2. result = [l \in Lane |-> result[l]]
    BY DEF result
  <2> QED
    BY <2>1, <2>2 DEF TypeOK, InputsOK
<1> QED
  BY <1>1, InputsStayOK, PTL

(* The THEN and the ELSE mask of a compare partition the mask, for every   *)
(* number of lanes (simt_exec_mask_update.sv:67-75,                        *)
(* predicate_mask_unit.sv:20-35).                                          *)
THEOREM MaskIsPartitioned == Spec => []SidesPartitionMask
<1>1. InputsOK => SidesPartitionMask
  <2> SUFFICES ASSUME InputsOK PROVE SidesPartitionMask
    OBVIOUS
  <2>1. in.lane_mask_in \subseteq Lane
    BY DEF InputsOK, InputWires
  <2>2. cond \subseteq Lane
    BY DEF cond
  <2>3. lane_mask_next \subseteq in.lane_mask_in
    BY DEF lane_mask_next, MaskNext
  <2>4. any_active_next = \E l \in in.lane_mask_in : l \in lane_mask_next
    BY <2>3 DEF any_active_next
  <2>5. CASE in.in_valid /\ in.mask_enable
    BY <2>1, <2>2, <2>4, <2>5 DEF SidesPartitionMask, MaskNext, pmu_en, out_valid
  <2>6. CASE ~(in.in_valid /\ in.mask_enable)
    BY <2>4, <2>6 DEF SidesPartitionMask, lane_mask_next, MaskNext, pmu_en, out_valid
  <2> QED
    BY <2>5, <2>6
<1> QED
  BY <1>1, InputsStayOK, PTL

(* the flag that tells the sign of a word                                  *)
Sign(x) == IF Signed(x) = 0 THEN "zero" ELSE IF Signed(x) > 0 THEN "pos" ELSE "neg"

LEMMA BothFlagsTellSign ==
    ASSUME NEW x \in Word
    PROVE  LaneFlags(x) = {Sign(x)} /\ PassedFlags(x) = {Sign(x)}
<1>1. x \in Int /\ 0 <= x /\ x < 2 * Half /\ Half \in Int /\ Half > 0
  BY ExecMaskAssumption DEF Word
<1>2. Sign(x) = IF x = 0 THEN "zero" ELSE IF x >= Half THEN "neg" ELSE "pos"
  BY <1>1 DEF Sign, Signed
<1> QED
  BY <1>1, <1>2 DEF LaneFlags, PassedFlags, SignBit

(* The two pieces of code that compute the flags, of a lane that executes  *)
(* and of one that is off, tell of every word the same                     *)
(* (simd_lane_alu.sv:57-65, simt_alu_core.sv:58-65).                       *)
THEOREM FlagsAreRight == Spec => []FlagsTellResult
<1>1. InputsOK => FlagsTellResult
  <2> SUFFICES ASSUME InputsOK, NEW l \in Lane PROVE flags[l] = {Sign(result[l])}
    BY DEF FlagsTellResult, Sign
  <2>1. flags[l] = IF l \in in.lane_mask_in THEN LaneFlags(lane_out(l)) ELSE PassedFlags(in.a[l])
    BY DEF flags
  <2> QED
    BY <2>1, ResultType, BothFlagsTellSign
<1> QED
  BY <1>1, InputsStayOK, PTL

(* what the instructions say of two operands                               *)
OrderAgrees(x, y) ==
    LET difference == LaneOut("SUB", x, y)
        less(v, w) == LaneOut("SLT", v, w) = 1
        overflow   == SignBit(x) # SignBit(y) /\ SignBit(difference) # SignBit(x)
    IN  /\ less(x, y) <=> ("neg" \in LaneFlags(difference)) # overflow
        /\ less(y, x) <=> ~less(x, y) /\ "zero" \notin LaneFlags(difference)

(* For words of every width: SLT is the order of the signed values, and    *)
(* the flags of a subtraction tell that order up to its overflow           *)
(* (simd_lane_alu.sv:28-48, 57-65).                                        *)
THEOREM CompareMatchesSubtract == Spec => []ComparesAgree
<1>1. ASSUME NEW x \in Word, NEW y \in Word PROVE OrderAgrees(x, y)
  <2> DEFINE d == LaneOut("SUB", x, y)
  <2>1. x \in 0 .. 2 * Half - 1 /\ y \in 0 .. 2 * Half - 1 /\ Half \in Nat \ {0}
    BY ExecMaskAssumption DEF Word
  <2>2. d = IF x >= y THEN x - y ELSE x - y + 2 * Half
    <3>1. d = Truncated(x - y)
      BY DEF LaneOut
    <3>2. x - y \in Int /\ IF x >= y THEN x - y \in Word ELSE x - y + 2 * Half \in Word
      BY <2>1 DEF Word
    <3> QED
      BY <3>1, <3>2, WrapOnce
  <2>3. \A v, w \in 0 .. 2 * Half - 1 :
            LaneOut("SLT", v, w) = 1 <=> Signed(v) < Signed(w)
    BY DEF LaneOut
  <2> HIDE DEF d
  <2>4. ("neg" \in LaneFlags(d) <=> d >= Half) /\ ("zero" \in LaneFlags(d) <=> d = 0)
    BY <2>1, <2>2 DEF LaneFlags, SignBit
  <2>5. /\ SignBit(x) = (x >= Half) /\ SignBit(y) = (y >= Half) /\ SignBit(d) = (d >= Half)
        /\ Signed(x) = IF x < Half THEN x ELSE x - 2 * Half
        /\ Signed(y) = IF y < Half THEN y ELSE y - 2 * Half
    BY DEF SignBit, Signed
  <2> DEFINE overflow == SignBit(x) # SignBit(y) /\ SignBit(d) # SignBit(x)
  <2>6. overflow <=> (x >= Half) # (y >= Half) /\ (d >= Half) # (x >= Half)
    BY <2>5
  <2>7. Signed(x) < Signed(y) <=> (d >= Half) # overflow
    BY <2>1, <2>2, <2>5, <2>6
  <2>8. Signed(y) < Signed(x) <=> ~(Signed(x) < Signed(y)) /\ d # 0
    BY <2>1, <2>2, <2>5
  <2> QED
    BY <2>1, <2>3, <2>4, <2>7, <2>8 DEF d, OrderAgrees
<1>2. InputsOK => ComparesAgree
  <2> SUFFICES ASSUME InputsOK PROVE \A l \in Lane : OrderAgrees(in.a[l], in.b[l])
    BY Zenon DEF ComparesAgree, OrderAgrees
  <2> QED
    BY <1>1, ResultType
<1> QED
  BY <1>2, InputsStayOK, PTL
=============================================================================
