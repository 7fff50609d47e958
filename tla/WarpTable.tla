----------------------------- MODULE WarpTable ------------------------------
(***************************************************************************)
(* sim/src/warp_table.cpp: READY or STALLED per warp.                      *)
(***************************************************************************)
EXTENDS SimtTypes

WarpState == {"READY", "STALLED"}

AllReady == [w \in Warp |-> "READY"]

IsReady(state, w) == state[w] = "READY"
=============================================================================
