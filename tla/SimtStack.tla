------------------------------ MODULE SimtStack -----------------------------
(***************************************************************************)
(* rtl/core/simt_stack.sv: the reconvergence stack as a record of its      *)
(* registers.  mask_mem and pc_mem are one memory of entries; the entry    *)
(* that a pop removes is registered, so it is visible one cycle later.     *)
(***************************************************************************)
EXTENDS Integers

CONSTANTS
    Lane,  \* LANES
    Depth, \* DEPTH
    PC     \* the values of a PC_W-bit word

StackEntry == [mask : SUBSET Lane, pc : PC]

StackRegs == [count : 0 .. Depth, mem : [0 .. Depth - 1 -> StackEntry], popped : StackEntry]

(* the state that rst leaves                                               *)
StackReset == LET zero == [mask |-> {}, pc |-> 0]
              IN  [count |-> 0, mem |-> [i \in 0 .. Depth - 1 |-> zero], popped |-> zero]

Empty(st) == st.count = 0
(* a bug to catch: full is noticed one entry too late *)
LateFull(st) == st.count > Depth
Full(st)  == st.count = Depth

(* One clock edge outside reset: all decisions look at the old count, so a *)
(* push together with a pop overwrites the slot that is popped.            *)
StackEdge(st, push, entry, pop) ==
    LET do_pop  == pop /\ ~Empty(st)
        do_push == push /\ ~Full(st)
        slot    == IF do_pop THEN st.count - 1 ELSE st.count
    IN  [count  |-> st.count + (IF do_push THEN 1 ELSE 0) - (IF do_pop THEN 1 ELSE 0),
         mem    |-> IF do_push THEN [st.mem EXCEPT ![slot] = entry] ELSE st.mem,
         popped |-> IF do_pop THEN st.mem[st.count - 1] ELSE st.popped]
=============================================================================
