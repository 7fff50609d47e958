------------------------------ MODULE MCMiniSM ------------------------------
EXTENDS MiniSM

AnyProgram == [src0 : 0 .. Regs - 1, src1 : 0 .. Regs - 1,
               dst : 0 .. Regs - 1, has_dst : BOOLEAN]

(* r0 + r1 -> r0, the workload of main.cpp, an instruction that overwrites *)
(* its only source, and one that writes nothing                            *)
SmallProgram ==
    {[src0 |-> 0, src1 |-> 1, dst |-> 0, has_dst |-> TRUE],
     [src0 |-> 1, src1 |-> 1, dst |-> 1, has_dst |-> TRUE],
     [src0 |-> 0, src1 |-> 1, dst |-> 1, has_dst |-> FALSE]}

(* two instructions that block each other and themselves write twice the   *)
(* same register                                                           *)
CrossProgram ==
    {[src0 |-> 0, src1 |-> 0, dst |-> 1, has_dst |-> TRUE],
     [src0 |-> 1, src1 |-> 1, dst |-> 0, has_dst |-> TRUE]}
=============================================================================
