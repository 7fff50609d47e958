---------------------------- MODULE PdomCtrlRtl -----------------------------
(***************************************************************************)
(* One pdom_ctrl.sv on its own: what the hardware does with every input    *)
(* sequence, and how it relates to the C++ class that models it.           *)
(***************************************************************************)
EXTENDS PdomRtl, Sequences

VARIABLE pdom

Init == pdom = PdomReset

Edge(in) == pdom' = PdomEdge(pdom, in)

Reset == pdom' = PdomReset

(* as tb_divergence_phase4.sv and test_divergence.cpp drive it: a branch   *)
(* never fires in the cycle of a path_done                                 *)
Separate(in) == ~(in.branch_fire /\ in.path_done)

Next         == Reset \/ \E in \in PdomPorts : Edge(in)
NextSeparate == Reset \/ \E in \in PdomPorts : Separate(in) /\ Edge(in)

Spec         == Init /\ [][Next]_pdom
SeparateSpec == Init /\ [][NextSeparate]_pdom

-----------------------------------------------------------------------------
TypeOK == pdom \in PdomRegs

(* the C++ controller, read off the registers                              *)
Cpp == INSTANCE PdomCtrl WITH
           curr_mask   <- pdom.curr_mask,
           state       <- pdom.state,
           stack       <- [i \in 1 .. pdom.stack.count |-> pdom.stack.mem[i - 1]],
           pop_pending <- pdom.stack.popped

(* The C++ class is a "cycle-accurate C++ model of pdom_ctrl.sv"           *)
(* (pdom_ctrl.h:28): every clock edge is a call of tick() with the same    *)
(* inputs, which returns what the ports show in that cycle, "valid at the  *)
(* START of the cycle" (pdom_ctrl.h:18-19).                                *)
CycleAccurate ==
    /\ Cpp!Spec
    /\ [][Reset \/ \E in \in PdomPorts : Edge(in) /\ Cpp!TickReturning(in, Outputs(pdom))]_pdom
=============================================================================
