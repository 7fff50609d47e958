-------------------------- MODULE MCDivergenceTop ---------------------------
EXTENDS DivergenceTop, TLC

(* an instruction that blocks its own successor *)
BranchProgram == {[src0 |-> 0, src1 |-> 0, dst |-> 0, has_dst |-> TRUE]}

(* The lanes of a warp are interchangeable. *)
LaneSymmetry == Permutations(Lane)
=============================================================================
