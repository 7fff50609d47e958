--------------------------- MODULE WarpScheduler ----------------------------
(***************************************************************************)
(* sim/src/warp_scheduler.cpp: a round-robin arbiter.  select() scans the  *)
(* warps from rr_ptr_ on and returns the first eligible one.               *)
(***************************************************************************)
EXTENDS SimtTypes

(* the warp at position i of the scan *)
Scanned(rr, i) == (rr + i) % Warps

(* a bug to catch: every scan begins at warp 0 *)
FixedSelects(rr, eligible, w) ==
    IF eligible = {}
    THEN w = Nullopt
    ELSE w \in eligible /\ \A v \in eligible : w <= v

(* w is what select() returns when `eligible' is the set of warps with     *)
(* has_instr, ready and can_issue                                          *)
Selects(rr, eligible, w) ==
    IF eligible = {}
    THEN w = Nullopt
    ELSE \E i \in Warp : /\ w = Scanned(rr, i)
                         /\ w \in eligible
                         /\ \A j \in 0 .. i - 1 : Scanned(rr, j) \notin eligible

(* bugs to catch: no wrap after the last warp; the pointer stays put *)
UnwrappedAdvance(issued_warp) == issued_warp + 1
StayingAdvance(issued_warp) == issued_warp

Advance(issued_warp) == (issued_warp + 1) % Warps

(* how many warps the scan visits before w *)
Distance(rr, w) == (w + Warps - rr) % Warps
=============================================================================
