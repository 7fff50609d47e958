----------------------------- MODULE PdomLanes ------------------------------
(***************************************************************************)
(* PdomCtrl with two history variables that remember, from one full        *)
(* reconvergence to the next, which lanes have completed their path and    *)
(* which ones a branch on a full stack has switched off without deferring  *)
(* them.                                                                   *)
(***************************************************************************)
EXTENDS PdomCtrl, FiniteSets

ASSUME LanesAssumption == IsFiniteSet(Lane)

VARIABLES
    finished, \* the lanes that have completed their path
    dropped   \* the lanes a full stack has switched off

lvars == <<curr_mask, state, stack, pop_pending, finished, dropped>>

LInit == Init /\ finished = {} /\ dropped = {}

Reconverges(in) == in.path_done /\ StackAfterBranch(in) = <<>>

(* the ELSE lanes of a branch that does not find room on the stack         *)
DroppedBy(in) == IF TrueDivergence(in) /\ Len(stack) = Depth THEN ElseMask(in) ELSE {}

(* Completing a path: the lanes that run after this tick's branch are done *)
(* with it.  A full reconvergence starts over.                             *)
LRun(in) ==
    /\ Run(in)
    /\ finished' = IF Reconverges(in) THEN {}
                   ELSE IF in.path_done THEN finished \cup MaskAfterBranch(in)
                   ELSE finished
    /\ dropped' = IF Reconverges(in) THEN {} ELSE dropped \cup DroppedBy(in)

LPopWait == PopWait /\ UNCHANGED <<finished, dropped>>

LReset == Reset /\ finished' = {} /\ dropped' = {}

LNext == LReset \/ LPopWait \/ \E in \in PdomInput : LRun(in)

LSpec == LInit /\ [][LNext]_lvars

PathEnds == \E in \in PdomInput : in.path_done /\ LRun(in)

(* Every tick of POP_WAIT comes, and no path runs for ever: the program on *)
(* a path is finite, and whoever runs it drives path_done at its end.      *)
FairSpec == LSpec /\ WF_lvars(LPopWait) /\ WF_lvars(PathEnds)

-----------------------------------------------------------------------------
Deferred == UNION {stack[i].mask : i \in 1 .. Len(stack)}

(* Between two reconvergences every lane is on exactly one side: it runs,  *)
(* it waits on the stack, it has completed its path, or a full stack has   *)
(* dropped it.  Nothing else loses a lane or brings one back               *)
(* (pdom_ctrl.cpp:37-60).                                                  *)
LanesConserved ==
    /\ RunningMask \cup Deferred \cup finished \cup dropped = Lane
    /\ (RunningMask \cup Deferred) \cap (finished \cup dropped) = {}
    /\ finished \cap dropped = {}

(* Every entry of the stack stands for at least one lane that still has to *)
(* run, and the running path for another: the stack is shorter than the    *)
(* number of lanes that are left, so a pdom_depth of lanes - 1 never       *)
(* overflows (pdom_ctrl.cpp:39-41).                                        *)
StackBelowLanes == Len(stack) < Cardinality(Lane \ (finished \cup dropped))

(* If paths end, a lane that waits on the stack runs again, however many   *)
(* branches the path that runs instead of it goes through, and a lane that *)
(* has been switched off, or has finished, comes back with the next full   *)
(* reconvergence (pdom_ctrl.cpp:47-54, 58-62).                             *)
LanesComeBack == \A lane \in Lane : []<>(lane \in RunningMask)
=============================================================================
