--------------------------- MODULE DivergenceTop ----------------------------
(***************************************************************************)
(* The whole of rtl/top/mini_sm_top.sv: the front end (MiniSMTop) with one *)
(* pdom_ctrl per warp and the two divergence counters.  A controller gets  *)
(* a branch when the scheduler issues one of its warp, and the lanes of an *)
(* issued instruction are those that its warp's controller has active.     *)
(* The front end knows nothing of what the controllers are doing.          *)
(*                                                                         *)
(* Every counter is 32 bits wide; the two of this module have a modulus of *)
(* their own so that a check can let them run without the others.          *)
(***************************************************************************)
EXTENDS MiniSMTop, PdomRtl, FiniteSets

CONSTANT EventMod \* total_diverge_events and masked_thread_cycles wrap here

ASSUME DivergenceAssumption == IsFiniteSet(Lane) /\ EventMod \in Nat \ {0}

VARIABLES
    pdom,                 \* the pdom_ctrl registers of each warp
    total_diverge_events,
    masked_thread_cycles,
    closed                \* history: the branches whose divergence is over or never was

dregs == <<pdom, total_diverge_events, masked_thread_cycles, closed>>
dvars == <<topVars, dregs>>

Event == 0 .. EventMod - 1

DInit ==
    /\ Init
    /\ pdom = [w \in Warp |-> PdomReset]
    /\ total_diverge_events = 0
    /\ masked_thread_cycles = 0
    /\ closed = 0

-----------------------------------------------------------------------------
(* Combinational signals.  is_branch and cond are warp_is_branch and       *)
(* warp_branch_cond of the issuing warp; nothing looks at those of the     *)
(* others.                                                                 *)

branch_fire(w, is_branch) == issue_valid /\ is_branch /\ issue_warp_id = w

Ports(w, is_branch, cond, done) ==
    [branch_fire |-> branch_fire(w, is_branch), branch_cond |-> cond,
     reconverge_pc |-> 0, path_done |-> done[w]]

(* a bug to catch: the mask of warp 0, whichever warp issues *)
WrongWarpMask(w) == pdom[0].curr_mask

warp_active_mask(w) == pdom[w].curr_mask

(* the lanes that execute the issued instruction                           *)
alu_lane_mask == warp_active_mask(issue_warp_id)

(* a bug to catch: a branch that every active lane takes is counted *)
CountsAnyBranch(is_branch, cond) ==
    issue_valid /\ is_branch /\ cond \cap alu_lane_mask # {}

(* the condition that the top counts, from the masks before the edge       *)
CountsEvent(is_branch, cond) ==
    /\ issue_valid /\ is_branch
    /\ cond \cap alu_lane_mask # {}
    /\ alu_lane_mask \ cond # {}

(* the inactive lanes of some warps, each with its warp                    *)
MaskedLanes(warps) == UNION {{w} \X (Lane \ warp_active_mask(w)) : w \in warps}

(* only warps whose stack is not empty count                               *)
MaskedThisCycle == Cardinality(MaskedLanes({w \in Warp : diverged(pdom[w])}))

-----------------------------------------------------------------------------
(* Sequential logic *)

PdomsEdge(is_branch, cond, done) ==
    pdom' = [w \in Warp |-> PdomEdge(pdom[w], Ports(w, is_branch, cond, done))]

(* a bug to catch: the counter does not wrap with its width *)
WideEventsEdge(is_branch, cond) ==
    total_diverge_events' = total_diverge_events + (IF CountsEvent(is_branch, cond) THEN 1 ELSE 0)

EventsEdge(is_branch, cond) ==
    total_diverge_events' =
        (total_diverge_events + (IF CountsEvent(is_branch, cond) THEN 1 ELSE 0)) % EventMod

MaskedEdge == masked_thread_cycles' = (masked_thread_cycles + MaskedThisCycle) % EventMod

(* A divergence of warp w is over when its entry is popped, or at once     *)
(* when a full stack has taken no entry and its ELSE lanes are just        *)
(* switched off.                                                           *)
Popped(w)  == pdom'[w].stack.count < pdom[w].stack.count
Dropped(w) == /\ pdom[w].state = "RUN"
              /\ pdom'[w].stack.count = pdom[w].stack.count
              /\ pdom[w].curr_mask \ pdom'[w].curr_mask # {}

(* A branch that would split the warp, and the warp does not go THEN.      *)
Ignored(w, in) == /\ in.branch_fire
                  /\ ThenMask(pdom[w], in) # {} /\ ElseMask(pdom[w], in) # {}
                  /\ pdom'[w].curr_mask # ThenMask(pdom[w], in)

ClosedEdge(is_branch, cond, done) ==
    LET over == {w \in Warp : \/ Popped(w) \/ Dropped(w)
                               \/ Ignored(w, Ports(w, is_branch, cond, done))}
    IN  closed' = (closed + Cardinality(over)) % EventMod

(* The testbenches end the path of a warp (done) in no cycle in which the  *)
(* warp branches.                                                          *)
Separate(is_branch, done) == \A w \in Warp : ~(branch_fire(w, is_branch) /\ done[w])

DClock ==
    /\ Clock
    /\ MaskedEdge
    /\ \E is_branch \in BOOLEAN, done \in [Warp -> BOOLEAN] :
           /\ is_branch => issue_valid
           /\ Separate(is_branch, done)
           /\ \E cond \in IF is_branch THEN SUBSET Lane ELSE {{}} :
                  /\ PdomsEdge(is_branch, cond, done)
                  /\ EventsEdge(is_branch, cond)
                  /\ ClosedEdge(is_branch, cond, done)

DReset ==
    /\ ResetEdge
    /\ pdom' = [w \in Warp |-> PdomReset]
    /\ total_diverge_events' = 0
    /\ masked_thread_cycles' = 0
    /\ closed' = 0

DDrive == DriveAny /\ UNCHANGED dregs

DNext == DDrive \/ DClock \/ DReset

DSpec == DInit /\ [][DNext]_dvars

-----------------------------------------------------------------------------
DTypeOK ==
    /\ TypeOK
    /\ pdom \in [Warp -> PdomRegs]
    /\ total_diverge_events \in Event
    /\ masked_thread_cycles \in Event
    /\ closed \in Event

(* Every event that the top has counted is an entry on the stack of some   *)
(* warp, a divergence that is over, or a branch that its controller did    *)
(* not follow, and each exactly once, for the events of all warps          *)
(* together: what the counter sees beside the controllers is what reaches  *)
(* them (mini_sm_top.sv:299-313, pdom_ctrl.sv:104-116).                    *)
EventsAccounted ==
    LET waiting == UNION {{w} \X (0 .. pdom[w].stack.count - 1) : w \in Warp}
    IN  total_diverge_events = (closed + Cardinality(waiting)) % EventMod

(* the controller of w splits its warp at this edge                        *)
Splits(w) == pdom'[w].stack.count > pdom[w].stack.count \/ Dropped(w)

(* The counter counts "true divergence events" (mini_sm_top.sv:75, 310):   *)
(* an edge adds one for every warp that splits, and nothing else.          *)
TrueEvents ==
    [][\/ DReset
       \/ DDrive
       \/ total_diverge_events' =
            (total_diverge_events + Cardinality({w \in Warp : Splits(w)})) % EventMod]_dvars

(* the lanes of warp w that wait: on the stack, or in the popped register  *)
WaitingLanes(w) ==
    (UNION {pdom[w].stack.mem[i].mask : i \in 0 .. pdom[w].stack.count - 1})
        \cup (IF pdom[w].state = "POP_WAIT" THEN pdom[w].stack.popped.mask ELSE {})

(* Whatever the scheduler issues and whenever, in the cycle of a POP_WAIT  *)
(* too, the instruction has a lane to run on and runs on none that waits   *)
(* for the other side of a branch (mini_sm_top.sv:230, pdom_ctrl.sv:149).  *)
IssueKeepsPathsApart ==
    issue_valid => /\ alu_lane_mask # {}
                   /\ alu_lane_mask \cap WaitingLanes(issue_warp_id) = {}

(* masked_thread_cycles counts the "thread-cycles lost to inactive         *)
(* masking" (mini_sm_top.sv:76): every cycle adds every inactive lane.     *)
MaskedCyclesExact ==
    [][\/ DReset
       \/ DDrive
       \/ masked_thread_cycles' =
            (masked_thread_cycles + Cardinality(MaskedLanes(Warp))) % EventMod]_dvars
=============================================================================
