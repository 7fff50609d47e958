----------------------------- MODULE MCMiniSMTop ----------------------------
EXTENDS MiniSMTop

(* One that may follow itself, so that two writes of a register are in     *)
(* flight, and one without a destination, which waits for them.            *)
TopProgram ==
    {[src0 |-> 0, src1 |-> 0, dst |-> 1, has_dst |-> TRUE],
     [src0 |-> 0, src1 |-> 1, dst |-> 0, has_dst |-> FALSE]}
=============================================================================
