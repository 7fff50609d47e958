---------------------------- MODULE Scoreboard ------------------------------
(***************************************************************************)
(* sim/src/scoreboard.cpp.  The vector<bool> busy_ is the set of its true  *)
(* positions: one flat vector shared by all warps and indexed by           *)
(* warp * regs_ + reg.                                                     *)
(***************************************************************************)
EXTENDS SimtTypes

Idx(warp, reg) == warp * Regs + reg
BusyIndex == 0 .. Warps * Regs - 1

NothingBusy == {}

(* a bug to catch: the second source is not looked at *)
FirstSourceCanIssue(busy, warp, src0, src1) == Idx(warp, src0) \notin busy

CanIssue(busy, warp, src0, src1) ==
    Idx(warp, src0) \notin busy /\ Idx(warp, src1) \notin busy

MarkBusy(busy, warp, reg) == busy \cup {Idx(warp, reg)}

(* a bug to catch: the bit is never cleared *)
NeverClear(busy, warp, reg) == busy

Clear(busy, warp, reg) == busy \ {Idx(warp, reg)}
=============================================================================
