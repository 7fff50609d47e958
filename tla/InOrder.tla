------------------------------ MODULE InOrder -------------------------------
(***************************************************************************)
(* What the front end of the Mini-SM promises to the programs of its       *)
(* warps, without scoreboard, pointer or pipeline: every warp issues its   *)
(* instructions in order, an instruction waits exactly as long as one in   *)
(* flight writes a register it reads, and a cycle goes unused only when    *)
(* every warp with an instruction has to wait.                             *)
(***************************************************************************)
EXTENDS SimtTypes

CONSTANT Program

VARIABLES
    slots,  \* the next instruction of each warp
    flight, \* the issued instructions, with the ticks that are left to them
    seen    \* what the latest tick issued and wrote back

vars == <<slots, flight, seen>>

Issued(w, left) ==
    [warp_id |-> w, dst |-> slots[w].dst, has_dst |-> slots[w].has_dst, left |-> left]

Init ==
    /\ slots = [w \in Warp |-> Nullopt]
    /\ flight = {}
    /\ seen = [issued_warp |-> Nullopt, writeback |-> Nullopt]

Present(w, instr) ==
    /\ slots' = [slots EXCEPT ![w] = instr]
    /\ UNCHANGED <<flight, seen>>

(* f produces an operand of the next instruction of warp w                 *)
Feeds(f, w) == /\ f.has_dst
               /\ f.warp_id = w
               /\ f.dst \in {slots[w].src0, slots[w].src1}

Runnable == {w \in Warp : slots[w] # Nullopt /\ ~ \E f \in flight : Feeds(f, w)}

(* one tick further, those that had none left are gone                     *)
Aged == {[f EXCEPT !.left = f.left - 1] : f \in {g \in flight : g.left > 0}}

IsWriteback(wb) ==
    IF \E f \in flight : f.left = 0
    THEN \E f \in flight : /\ f.left = 0
                           /\ wb = [warp_id |-> f.warp_id, dst |-> f.dst, has_dst |-> f.has_dst]
    ELSE wb = Nullopt

Idle(wb) ==
    /\ Runnable = {}
    /\ flight' = Aged
    /\ seen' = [issued_warp |-> Nullopt, writeback |-> wb]

Issue(w, wb) ==
    /\ w \in Runnable
    /\ flight' = Aged \cup {Issued(w, ExecLatency - 1)}
    /\ seen' = [issued_warp |-> w, writeback |-> wb]

Tick == \E wb \in Optional(WbResult) :
            /\ IsWriteback(wb)
            /\ Idle(wb) \/ \E w \in Warp : Issue(w, wb)
            /\ UNCHANGED slots

(* everything in flight is forgotten                                       *)
Flush == flight' = {} /\ UNCHANGED <<slots, seen>>

Next == \/ \E w \in Warp, instr \in Optional(Program) : Present(w, instr)
        \/ Tick
        \/ Flush

Spec == Init /\ [][Next]_vars
=============================================================================
