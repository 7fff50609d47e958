------------------------------ MODULE PdomRtl -------------------------------
(***************************************************************************)
(* rtl/control/pdom_ctrl.sv, as a record of its registers and the function *)
(* that one clock edge computes.  Every right-hand side reads the          *)
(* registers before the edge, stack_empty and stack_full included.         *)
(***************************************************************************)
EXTENDS SimtStack

(* a lane, a stack entry and the address 0 exist *)
ASSUME PdomRtlAssumption == Lane # {} /\ Depth \in Nat \ {0} /\ 0 \in PC

PdomRegs == [curr_mask : SUBSET Lane, state : {"RUN", "POP_WAIT"}, stack : StackRegs]

PdomPorts == [branch_fire : BOOLEAN, branch_cond : SUBSET Lane,
              reconverge_pc : PC, path_done : BOOLEAN]

PdomReset == [curr_mask |-> Lane, state |-> "RUN", stack |-> StackReset]

ThenMask(p, in) == in.branch_cond \cap p.curr_mask
ElseMask(p, in) == p.curr_mask \ in.branch_cond

diverged(p) == ~Empty(p.stack)

(* the output ports, assigned from the registers                           *)
Outputs(p) == [active_mask |-> p.curr_mask, stack_empty |-> Empty(p.stack),
               stack_full |-> Full(p.stack), diverged |-> diverged(p)]

st_push(p, in) == /\ p.state = "RUN" /\ in.branch_fire
                  /\ ThenMask(p, in) # {} /\ ElseMask(p, in) # {}
                  /\ ~Full(p.stack)
st_pop(p, in)  == p.state = "RUN" /\ in.path_done /\ ~Empty(p.stack)

(* a bug to catch: no lane runs on when none takes the branch *)
ThenMaskEdge(p, in) ==
    IF p.state = "POP_WAIT" THEN p.stack.popped.mask
    ELSE IF in.path_done /\ Empty(p.stack) THEN Lane
    ELSE IF in.branch_fire THEN ThenMask(p, in)
    ELSE p.curr_mask

(* In RUN the assignment of path_done follows, and so overrides, the one   *)
(* of the branch.                                                          *)
MaskEdge(p, in) ==
    IF p.state = "POP_WAIT" THEN p.stack.popped.mask
    ELSE IF in.path_done /\ Empty(p.stack) THEN Lane
    ELSE IF in.branch_fire /\ ThenMask(p, in) # {} THEN ThenMask(p, in)
    ELSE p.curr_mask

PdomEdge(p, in) ==
    [curr_mask |-> MaskEdge(p, in),
     state     |-> IF st_pop(p, in) THEN "POP_WAIT" ELSE "RUN",
     stack     |-> StackEdge(p.stack, st_push(p, in),
                             [mask |-> ElseMask(p, in), pc |-> in.reconverge_pc],
                             st_pop(p, in))]
=============================================================================
