------------------------------ MODULE ExecMask ------------------------------
(***************************************************************************)
(* The combinational datapath rtl/top/simt_exec_mask_update.sv: one ALU    *)
(* per lane executes an instruction under a lane mask, and a compare       *)
(* instruction also yields the mask for the THEN or the ELSE side of a     *)
(* branch.  It keeps no state: the state is the values on its input wires, *)
(* which whoever drives it changes one at a time.                          *)
(***************************************************************************)
EXTENDS Integers

CONSTANTS
    Lane,     \* LANES of them
    Half,     \* 2^(DATA_WIDTH - 1), the number of words without a sign
    BitAnd(_, _), BitOr(_, _), BitXor(_, _) \* the bitwise operators on words

VARIABLE in \* the input wires

Word == 0 .. 2 * Half - 1

ASSUME ExecMaskAssumption ==
    /\ Lane # {}
    /\ Half \in Nat \ {0}
    /\ \A x, y \in Word : BitAnd(x, y) \in Word /\ BitOr(x, y) \in Word /\ BitXor(x, y) \in Word

(* the eight values of sel; the last one is no operation                   *)
Sel == {"ADD", "SUB", "MUL", "AND", "OR", "XOR", "SLT", "NONE"}

InputWires == [in_valid : BOOLEAN, sel : Sel, lane_mask_in : SUBSET Lane,
               a : [Lane -> Word], b : [Lane -> Word],
               mask_enable : BOOLEAN, invert : BOOLEAN]

(* the wires as the testbench first drives them                            *)
Init == in = [in_valid |-> FALSE, sel |-> "SLT", lane_mask_in |-> {},
              a |-> [l \in Lane |-> 0], b |-> [l \in Lane |-> 0],
              mask_enable |-> FALSE, invert |-> FALSE]

(* A wire takes another value.                                             *)
Next == \/ \E wire \in {"in_valid", "mask_enable", "invert"} :
               in' = [in EXCEPT ![wire] = ~@]
        \/ \E sel \in Sel : in' = [in EXCEPT !.sel = sel]
        \/ \E mask \in SUBSET Lane : in' = [in EXCEPT !.lane_mask_in = mask]
        \/ \E l \in Lane, x \in Word : in' = [in EXCEPT !.a[l] = x]
        \/ \E l \in Lane, x \in Word : in' = [in EXCEPT !.b[l] = x]

Spec == Init /\ [][Next]_in

-----------------------------------------------------------------------------
(* simd_lane_alu: one lane *)

(* a bug to catch: the bits are compared without their sign *)
UnsignedValue(x) == x

(* two's complement                                                        *)
Signed(x) == IF x < Half THEN x ELSE x - 2 * Half

(* a bug to catch: a carry or a high bit stays *)
Untruncated(x) == x

(* the low bits of a result                                                *)
Truncated(x) == x % (2 * Half)

LaneOut(sel, in0, in1) ==
    CASE sel = "ADD"  -> Truncated(in0 + in1)
      [] sel = "SUB"  -> Truncated(in0 - in1)
      [] sel = "MUL"  -> Truncated(in0 * in1)
      [] sel = "AND"  -> BitAnd(in0, in1)
      [] sel = "OR"   -> BitOr(in0, in1)
      [] sel = "XOR"  -> BitXor(in0, in1)
      [] sel = "SLT"  -> IF Signed(in0) < Signed(in1) THEN 1 ELSE 0
      [] sel = "NONE" -> 0

SignBit(x) == x >= Half

(* the flags of a lane that executes, from the output of its ALU           *)
LaneFlags(out) == IF out = 0 THEN {"zero"}
                  ELSE IF SignBit(out) THEN {"neg"} ELSE {"pos"}

-----------------------------------------------------------------------------
(* simt_alu_core: all lanes; a lane that is off passes its operand a on    *)

lane_out(l) == LaneOut(in.sel, in.a[l], in.b[l])

result == [l \in Lane |-> IF l \in in.lane_mask_in THEN lane_out(l) ELSE in.a[l]]

(* the flags of a lane that is off, from its operand                       *)
PassedFlags(x) == (IF x = 0 THEN {"zero"} ELSE {})
                      \cup (IF x # 0 /\ ~SignBit(x) THEN {"pos"} ELSE {})
                      \cup (IF SignBit(x) THEN {"neg"} ELSE {})

(* a bug to catch: the flags of the ALU of a lane that is off *)
UnmaskedFlags == [l \in Lane |-> LaneFlags(lane_out(l))]

(* zero_l, pos_l and neg_l: for each lane the set of those that are 1      *)
flags == [l \in Lane |-> IF l \in in.lane_mask_in THEN LaneFlags(lane_out(l))
                         ELSE PassedFlags(in.a[l])]

-----------------------------------------------------------------------------
(* simt_exec_mask_update and predicate_mask_unit: the next mask *)

(* bit 0 of the result, of a lane that is off too                          *)
cond == {l \in Lane : in.sel = "SLT" /\ result[l] % 2 = 1}

(* simt_alu is never busy: its output is valid when its input is           *)
out_valid == in.in_valid

pmu_en == in.mask_enable /\ out_valid

(* a bug to catch: the ELSE side takes the lanes that are off *)
UnmaskedNext(invert) == IF ~pmu_en THEN in.lane_mask_in
                        ELSE IF invert THEN Lane \ cond ELSE in.lane_mask_in \cap cond

MaskNext(invert) == IF ~pmu_en THEN in.lane_mask_in
                    ELSE in.lane_mask_in \cap (IF invert THEN Lane \ cond ELSE cond)

lane_mask_next == MaskNext(in.invert)
any_active_next == lane_mask_next # {}

-----------------------------------------------------------------------------
(* What a lane holds after the instruction is a word again, whatever the   *)
(* operation (simd_lane_alu.sv:24-54).                                     *)
TypeOK == in \in InputWires /\ result \in [Lane -> Word]

(* The THEN and the ELSE mask of the same compare share no lane and lose   *)
(* none, whatever the lanes that are off hold in the bit that is taken for *)
(* their condition; a side without lanes is reported; and while nothing    *)
(* valid is on the wires the mask stays (simt_exec_mask_update.sv:67-75,   *)
(* predicate_mask_unit.sv:20-35).                                          *)
SidesPartitionMask ==
    /\ any_active_next = \E l \in in.lane_mask_in : l \in lane_mask_next
    /\ IF in.in_valid /\ in.mask_enable
       THEN /\ MaskNext(FALSE) \cap MaskNext(TRUE) = {}
            /\ MaskNext(FALSE) \cup MaskNext(TRUE) = in.lane_mask_in
       ELSE lane_mask_next = in.lane_mask_in

(* Exactly one flag of a lane is up and tells the sign of its result, on   *)
(* the lanes that are off too, whose flags another piece of code computes  *)
(* (simd_lane_alu.sv:57-65, simt_alu_core.sv:58-65).                       *)
FlagsTellResult ==
    \A l \in Lane :
        flags[l] = {IF Signed(result[l]) = 0 THEN "zero"
                    ELSE IF Signed(result[l]) > 0 THEN "pos" ELSE "neg"}

(* The instructions agree on the order of two operands: exactly one of     *)
(* a < b, b < a and "SUB yields zero" holds, and SLT says what the sign of *)
(* the difference says, or the opposite if the subtraction overflows.  A   *)
(* branch on a compare and one on the flags of a subtraction split the     *)
(* lanes alike (simd_lane_alu.sv:28-48, 57-65).                            *)
ComparesAgree ==
    \A l \in Lane :
        LET x == in.a[l]
            y == in.b[l]
            difference == LaneOut("SUB", x, y)
            less(v, w) == LaneOut("SLT", v, w) = 1
            overflow   == SignBit(x) # SignBit(y) /\ SignBit(difference) # SignBit(x)
        IN  /\ less(x, y) <=> ("neg" \in LaneFlags(difference)) # overflow
            /\ less(y, x) <=> ~less(x, y) /\ "zero" \notin LaneFlags(difference)
=============================================================================
