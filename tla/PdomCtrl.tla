------------------------------ MODULE PdomCtrl ------------------------------
(***************************************************************************)
(* The C++ divergence controller of one warp (sim/src/pdom_ctrl.cpp).  A   *)
(* mask is the set of its active lanes.  A branch on which the active      *)
(* lanes disagree pushes the lanes that do not take it and goes on with    *)
(* the others; when the current path is done the top entry is popped, and  *)
(* becomes the current mask one tick later (POP_WAIT).                     *)
(***************************************************************************)
EXTENDS Integers, Sequences

CONSTANTS
    Lane,  \* the lanes of the warp: Config::lanes of them
    Depth, \* Config::pdom_depth
    PC     \* the reconvergence addresses

ASSUME PdomAssumption ==
    /\ Lane # {}
    /\ Depth \in Nat \ {0}
    /\ 0 \in PC

VARIABLES
    curr_mask,  \* curr_mask_
    state,      \* state_
    stack,      \* stack_[0 .. sp_ - 1], the top last
    pop_pending \* pop_pending_

vars == <<curr_mask, state, stack, pop_pending>>

PdomInput == [branch_fire : BOOLEAN, branch_cond : SUBSET Lane,
              reconverge_pc : PC, path_done : BOOLEAN]

StackEntry == [mask : SUBSET Lane, pc : PC]

NoEntry == [mask |-> {}, pc |-> 0]

Init ==
    /\ curr_mask = Lane
    /\ state = "RUN"
    /\ stack = <<>>
    /\ pop_pending = NoEntry

(* Step 2: the split of the current mask by the branch condition           *)
ThenMask(in) == in.branch_cond \cap curr_mask
(* a bug to catch: lanes that were off come back on the ELSE side *)
UnmaskedElse(in) == Lane \ in.branch_cond
ElseMask(in) == curr_mask \ in.branch_cond

(* a bug to catch: a push although no lane takes the branch *)
OneSidedDivergence(in) == in.branch_fire /\ ElseMask(in) # {}
TrueDivergence(in) == in.branch_fire /\ ThenMask(in) # {} /\ ElseMask(in) # {}

(* a bug to catch: no lane runs on when none takes the branch *)
ThenMaskOnly(in) == IF in.branch_fire THEN ThenMask(in) ELSE curr_mask

(* The lanes that run after the branch: those that take it, or all the     *)
(* active ones when none takes it (then the ELSE mask is the whole mask).  *)
MaskAfterBranch(in) ==
    IF in.branch_fire /\ ThenMask(in) # {} THEN ThenMask(in) ELSE curr_mask

(* a bug to catch: full is noticed one entry too late *)
OverfullStack(in) ==
    IF TrueDivergence(in) /\ Len(stack) <= Depth
    THEN Append(stack, [mask |-> ElseMask(in), pc |-> in.reconverge_pc])
    ELSE stack

(* a full stack takes no entry                                             *)
StackAfterBranch(in) ==
    IF TrueDivergence(in) /\ Len(stack) < Depth
    THEN Append(stack, [mask |-> ElseMask(in), pc |-> in.reconverge_pc])
    ELSE stack

(* RUN: the branch first, then path_done on what the branch left behind    *)
PathGoesOn(in) ==
    /\ ~in.path_done
    /\ curr_mask' = MaskAfterBranch(in)
    /\ stack' = StackAfterBranch(in)
    /\ UNCHANGED <<state, pop_pending>>

(* a bug to catch: the entry is read but stays on the stack *)
PeekDeferred(in) ==
    LET stk == StackAfterBranch(in)
    IN  /\ in.path_done
        /\ stk # <<>>
        /\ curr_mask' = MaskAfterBranch(in)
        /\ pop_pending' = stk[Len(stk)]
        /\ stack' = stk
        /\ state' = "POP_WAIT"

PopDeferred(in) ==
    LET stk == StackAfterBranch(in)
    IN  /\ in.path_done
        /\ stk # <<>>
        /\ curr_mask' = MaskAfterBranch(in)
        /\ pop_pending' = stk[Len(stk)]
        /\ stack' = SubSeq(stk, 1, Len(stk) - 1)
        /\ state' = "POP_WAIT"

Reconverge(in) ==
    /\ in.path_done
    /\ StackAfterBranch(in) = <<>>
    /\ curr_mask' = Lane
    /\ UNCHANGED <<state, stack, pop_pending>>

Run(in) ==
    /\ state = "RUN"
    /\ PathGoesOn(in) \/ PopDeferred(in) \/ Reconverge(in)

(* POP_WAIT applies the popped entry, whatever the inputs are              *)
PopWait ==
    /\ state = "POP_WAIT"
    /\ curr_mask' = pop_pending.mask
    /\ state' = "RUN"
    /\ UNCHANGED <<stack, pop_pending>>

PdomOutput == [active_mask : SUBSET Lane, stack_empty : BOOLEAN,
               stack_full : BOOLEAN, diverged : BOOLEAN]

(* what tick() returns, captured before it changes anything: the accessors *)
(* active_mask() and diverged() show the same                              *)
Output == [active_mask |-> curr_mask, stack_empty |-> stack = <<>>,
           stack_full |-> Len(stack) >= Depth, diverged |-> stack # <<>>]

Tick(in) == Run(in) \/ PopWait

TickReturning(in, out) == Tick(in) /\ out = Output

Reset ==
    /\ curr_mask' = Lane
    /\ state' = "RUN"
    /\ stack' = <<>>
    /\ pop_pending' = NoEntry

Next == Reset \/ \E in \in PdomInput : Tick(in)

Spec == Init /\ [][Next]_vars

-----------------------------------------------------------------------------
TypeOK ==
    /\ curr_mask \in SUBSET Lane
    /\ state \in {"RUN", "POP_WAIT"}
    /\ stack \in Seq(StackEntry) /\ Len(stack) <= Depth
    /\ pop_pending \in StackEntry

(* the lanes that run now, or will after the pop that is under way         *)
RunningMask == IF state = "POP_WAIT" THEN pop_pending.mask ELSE curr_mask

(* The running path and the deferred paths never share a lane, and none of *)
(* them is empty: no lane executes both sides of a branch, and no pop      *)
(* leaves the warp without active lanes (pdom_ctrl.cpp:32-60).             *)
PathsAreDisjoint ==
    /\ RunningMask # {}
    /\ \A i \in 1 .. Len(stack) :
           /\ stack[i].mask # {}
           /\ stack[i].mask \cap RunningMask = {}
           /\ \A j \in 1 .. i - 1 : stack[i].mask \cap stack[j].mask = {}
=============================================================================
