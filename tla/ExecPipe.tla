------------------------------ MODULE ExecPipe ------------------------------
(***************************************************************************)
(* sim/src/exec_pipe.cpp: a shift register of optional write-backs.  Stage *)
(* 0 leaves first; push() fills the last stage after tick() emptied it.    *)
(***************************************************************************)
EXTENDS SimtTypes

EmptyPipe == [s \in Stage |-> Nullopt]

(* bugs to catch: an instruction without destination leaves unnoticed; the *)
(* stage next to the last one is handed out                                *)
ExitingWithDst(stages) ==
    IF stages[0] # Nullopt /\ stages[0].has_dst THEN stages[0] ELSE Nullopt
EarlyExiting(stages) == stages[1]

(* what tick() returns *)
Exiting(stages) == stages[0]

(* what tick() leaves in the pipe *)
Shift(stages) ==
    [s \in Stage |-> IF s = ExecLatency - 1 THEN Nullopt ELSE stages[s + 1]]

Push(stages, entry) == [stages EXCEPT ![ExecLatency - 1] = entry]
=============================================================================
