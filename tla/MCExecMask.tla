----------------------------- MODULE MCExecMask -----------------------------
EXTENDS ExecMask, Bitwise, TLC

(* the operators on the words of this width                               *)
WordAnd(x, y) == x & y
WordOr(x, y)  == x | y
WordXor(x, y) == x ^^ y

(* The lanes are interchangeable. *)
LaneSymmetry == Permutations(Lane)
=============================================================================
