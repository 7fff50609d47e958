--------------------------- MODULE PdomRtlProofs ----------------------------
(***************************************************************************)
(* pdom_ctrl.sv implements the C++ PdomCtrl for every number of lanes,     *)
(* every depth and all addresses, as long as no branch fires in the cycle  *)
(* of a path_done.                                                         *)
(***************************************************************************)
EXTENDS PdomCtrlRtl, PdomEdgeProofs

-----------------------------------------------------------------------------
(* The registers stay within their widths: the count never passes DEPTH    *)
(* and no slot outside the memory is written or read                       *)
(* (simt_stack.sv:85-142), for every input in every cycle.                 *)
THEOREM PdomRtlTypeCorrect == Spec => []TypeOK
<1>1. Init => TypeOK
  BY PdomResetType DEF Init, TypeOK
<1>2. TypeOK /\ [Next]_pdom => TypeOK'
  BY PdomResetType, PdomEdgeType DEF Next, Reset, Edge, TypeOK
<1> QED
  BY <1>1, <1>2, PTL DEF Spec

LEMMA SeparateIsSpec == SeparateSpec => Spec
<1>1. [NextSeparate]_pdom => [Next]_pdom
  BY DEF NextSeparate, Next
<1> QED
  BY <1>1, PTL DEF SeparateSpec, Spec

-----------------------------------------------------------------------------
(* The C++ controller that the registers stand for.                        *)
LEMMA CppOperators ==
    ASSUME NEW in
    PROVE  /\ Cpp!ThenMask(in) = ThenMask(pdom, in)
           /\ Cpp!ElseMask(in) = ElseMask(pdom, in)
           /\ Cpp!PdomInput = PdomPorts
BY DEF Cpp!ThenMask, ThenMask, Cpp!ElseMask, ElseMask, Cpp!PdomInput, PdomPorts

(* The ports say of the registers what tick() says of its members.         *)
LEMMA PortsAreOutput ==
    ASSUME TypeOK
    PROVE  Outputs(pdom) = Cpp!Output
<1>1. pdom.stack \in StackRegs
  BY DEF TypeOK, PdomRegs
<1> DEFINE e == Entries(pdom.stack)
<1>2. Full(pdom.stack) = (Len(e) >= Depth) /\ Empty(pdom.stack) = (e = <<>>)
  <2>1. Len(e) = pdom.stack.count /\ pdom.stack.count \in 0 .. Depth
    BY <1>1, EntriesType, StackStatus
  <2>2. Empty(pdom.stack) <=> e = <<>>
    BY <1>1, StackStatus
  <2> HIDE DEF e
  <2>3. Full(pdom.stack) <=> Len(e) >= Depth
    BY <2>1, PdomRtlAssumption DEF Full
  <2> QED
    BY <2>2, <2>3 DEF Full, Empty
<1>3. Cpp!Output = [active_mask |-> pdom.curr_mask, stack_empty |-> e = <<>>,
                    stack_full |-> Len(e) >= Depth, diverged |-> e # <<>>]
  BY Zenon DEF Cpp!Output, Entries
<1> HIDE DEF e
<1> QED
  BY <1>2, <1>3, Zenon DEF Outputs, diverged

(* The step of the refinement: one clock edge without a branch in the      *)
(* cycle of a path_done is one tick of the C++ controller.                 *)
LEMMA EdgeIsTick ==
    ASSUME TypeOK, NEW in \in PdomPorts, Separate(in), Edge(in)
    PROVE  Cpp!Tick(in)
<1> DEFINE st == pdom.stack
           entry == [mask |-> ElseMask(pdom, in), pc |-> in.reconverge_pc]
<1>1. st \in StackRegs /\ pdom.state \in {"RUN", "POP_WAIT"} /\ pdom.curr_mask \subseteq Lane
  BY DEF TypeOK, PdomRegs
<1>2. entry \in StackEntry
  BY <1>1 DEF ElseMask, StackEntry, PdomPorts
<1>3. /\ pdom'.curr_mask = MaskEdge(pdom, in)
      /\ pdom'.state = IF st_pop(pdom, in) THEN "POP_WAIT" ELSE "RUN"
      /\ pdom'.stack = StackEdge(st, st_push(pdom, in), entry, st_pop(pdom, in))
  BY DEF Edge, PdomEdge
<1>4. st_push(pdom, in) \in BOOLEAN /\ st_pop(pdom, in) \in BOOLEAN
  BY DEF st_push, st_pop
<1>5. /\ Full(st) <=> ~(Len(Entries(st)) < Depth)
      /\ Empty(st) <=> Entries(st) = <<>>
  BY <1>1, StackStatus
<1> HIDE DEF entry
<1>9. ASSUME ~st_push(pdom, in), ~st_pop(pdom, in)
      PROVE  Entries(pdom'.stack) = Entries(st) /\ pdom'.stack.popped = st.popped
  <2>1. st_push(pdom, in) = FALSE /\ st_pop(pdom, in) = FALSE
    BY <1>4, <1>9
  <2>2. pdom'.stack = StackEdge(st, FALSE, entry, FALSE)
    BY <1>3, <2>1
  <2> QED
    BY <1>1, <2>2, HoldEdge
<1>6. CASE pdom.state = "POP_WAIT"
  <2>1. ~st_push(pdom, in) /\ ~st_pop(pdom, in)
    BY <1>6 DEF st_push, st_pop
  <2>2. Entries(pdom'.stack) = Entries(st) /\ pdom'.stack.popped = st.popped
    BY <1>9, <2>1
  <2>3. pdom'.curr_mask = st.popped.mask /\ pdom'.state = "RUN"
    BY <1>3, <1>6, <2>1 DEF MaskEdge
  <2> QED
    BY <1>6, <2>2, <2>3 DEF Cpp!Tick, Cpp!PopWait, Entries
<1>7. CASE pdom.state = "RUN" /\ in.path_done
  <2>1. ~in.branch_fire /\ ~st_push(pdom, in)
    BY <1>7 DEF Separate, st_push
  <2>2. Cpp!StackAfterBranch(in) = Entries(st) /\ Cpp!MaskAfterBranch(in) = pdom.curr_mask
    BY <2>1 DEF Cpp!StackAfterBranch, Cpp!MaskAfterBranch, Cpp!TrueDivergence, Entries
  <2>3. CASE Empty(st)
    <3>1. ~st_pop(pdom, in)
      BY <2>3 DEF st_pop
    <3>2. Entries(pdom'.stack) = Entries(st) /\ pdom'.stack.popped = st.popped
      BY <1>9, <2>1, <3>1
    <3>3. pdom'.curr_mask = Lane /\ pdom'.state = "RUN"
      BY <1>3, <1>7, <2>3, <3>1 DEF MaskEdge
    <3>4. Cpp!Reconverge(in)
      BY <1>5, <1>7, <2>2, <2>3, <3>2, <3>3 DEF Cpp!Reconverge, Entries
    <3> QED
      BY <1>7, <3>4 DEF Cpp!Tick, Cpp!Run
  <2>4. CASE ~Empty(st)
    <3>1. st_pop(pdom, in)
      BY <1>7, <2>4 DEF st_pop
    <3>2. pdom'.stack = StackEdge(st, FALSE, entry, TRUE)
      BY <1>3, <1>4, <2>1, <3>1
    <3>3. /\ Entries(pdom'.stack) = SubSeq(Entries(st), 1, Len(Entries(st)) - 1)
          /\ pdom'.stack.popped = Entries(st)[Len(Entries(st))]
      BY <1>1, <2>4, <3>2, PopEdge
    <3>4. pdom'.curr_mask = pdom.curr_mask /\ pdom'.state = "POP_WAIT"
      BY <1>3, <1>7, <2>1, <2>4, <3>1 DEF MaskEdge
    <3>5. Cpp!PopDeferred(in)
      BY <1>5, <1>7, <2>2, <2>4, <3>3, <3>4 DEF Cpp!PopDeferred, Entries
    <3> QED
      BY <1>7, <3>5 DEF Cpp!Tick, Cpp!Run
  <2> QED
    BY <2>3, <2>4
<1>8. CASE pdom.state = "RUN" /\ ~in.path_done
  <2>1. ~st_pop(pdom, in)
    BY <1>8 DEF st_pop
  <2>2. pdom'.curr_mask = Cpp!MaskAfterBranch(in) /\ pdom'.state = "RUN"
    BY <1>3, <1>8, <2>1, CppOperators DEF MaskEdge, Cpp!MaskAfterBranch
  <2>3. st_push(pdom, in) <=> Cpp!TrueDivergence(in) /\ Len(Entries(st)) < Depth
    BY <1>5, <1>8, CppOperators DEF st_push, Cpp!TrueDivergence
  <2>4. Entries(pdom'.stack) = Cpp!StackAfterBranch(in) /\ pdom'.stack.popped = st.popped
    <3>1. CASE st_push(pdom, in)
      <4>1. pdom'.stack = StackEdge(st, TRUE, entry, FALSE)
        BY <1>3, <1>4, <2>1, <3>1
      <4>2. ~Full(st)
        BY <3>1 DEF st_push
      <4>3. Cpp!StackAfterBranch(in) = Append(Entries(st), entry)
        BY <2>3, <3>1, CppOperators DEF Cpp!StackAfterBranch, Entries, entry
      <4>4. /\ Entries(StackEdge(st, TRUE, entry, FALSE)) = Append(Entries(st), entry)
            /\ StackEdge(st, TRUE, entry, FALSE).popped = st.popped
        BY <1>1, <1>2, <4>2, PushEdge
      <4> QED
        BY <4>1, <4>3, <4>4
    <3>2. CASE ~st_push(pdom, in)
      <4>1. Entries(pdom'.stack) = Entries(st) /\ pdom'.stack.popped = st.popped
        BY <1>9, <2>1, <3>2
      <4> QED
        BY <2>3, <3>2, <4>1 DEF Cpp!StackAfterBranch, Entries
    <3> QED
      BY <3>1, <3>2
  <2>5. Cpp!PathGoesOn(in)
    BY <1>8, <2>2, <2>4 DEF Cpp!PathGoesOn, Entries
  <2> QED
    BY <1>8, <2>5 DEF Cpp!Tick, Cpp!Run
<1> QED
  BY <1>1, <1>6, <1>7, <1>8

LEMMA ResetStack ==
    /\ PdomReset.stack = StackReset
    /\ Entries(StackReset) = <<>>
    /\ StackReset.popped = Cpp!NoEntry
<1>1. StackReset \in StackRegs /\ PdomReset.stack = StackReset
  BY PdomResetType DEF PdomReset, PdomRegs
<1>2. StackReset.count = 0 /\ StackReset.popped = Cpp!NoEntry
  BY DEF StackReset, Cpp!NoEntry
<1> QED
  BY <1>1, <1>2, StackStatus DEF Empty

(* pdom_ctrl.sv with its registered stack implements the C++ class: as     *)
(* long as no branch meets a path_done, every clock edge is a call of      *)
(* tick() with the same inputs, and what the call returns is on the ports  *)
(* (pdom_ctrl.h:16-28).                                                    *)
THEOREM RtlImplementsCpp == SeparateSpec => CycleAccurate
<1>1. Init => Cpp!Init
  <2> SUFFICES ASSUME Init PROVE Cpp!Init
    OBVIOUS
  <2>1. pdom.curr_mask = Lane /\ pdom.state = "RUN" /\ pdom.stack = StackReset
    BY DEF Init, PdomReset
  <2>2. Entries(pdom.stack) = <<>> /\ pdom.stack.popped = Cpp!NoEntry
    BY <2>1, ResetStack
  <2> QED
    BY <2>1, <2>2, Zenon DEF Cpp!Init, Entries
<1>2. TypeOK /\ [NextSeparate]_pdom => [Cpp!Next]_(Cpp!vars)
  <2> SUFFICES ASSUME TypeOK, [NextSeparate]_pdom PROVE [Cpp!Next]_(Cpp!vars)
    OBVIOUS
  <2>1. CASE Reset
    <3>1. Cpp!Reset
      BY <2>1, ResetStack DEF Reset, PdomReset, Cpp!Reset, Entries
    <3> QED
      BY <3>1 DEF Cpp!Next
  <2>2. ASSUME NEW in \in PdomPorts, Separate(in), Edge(in) PROVE Cpp!Next
    BY <2>2, EdgeIsTick, CppOperators DEF Cpp!Next
  <2>3. CASE UNCHANGED pdom
    BY <2>3 DEF Cpp!vars
  <2> QED
    BY <2>1, <2>2, <2>3 DEF NextSeparate
<1> DEFINE Calls == Reset \/ \E in \in PdomPorts : Edge(in) /\ Cpp!TickReturning(in, Outputs(pdom))
<1>3. TypeOK /\ [NextSeparate]_pdom => [Calls]_pdom
  <2>1. ASSUME TypeOK, NEW in \in PdomPorts, Separate(in), Edge(in)
        PROVE  Cpp!TickReturning(in, Outputs(pdom))
    BY <2>1, EdgeIsTick, PortsAreOutput DEF Cpp!TickReturning
  <2> QED
    BY <2>1 DEF NextSeparate
<1> QED
  BY <1>1, <1>2, <1>3, PdomRtlTypeCorrect, SeparateIsSpec, PTL
  DEF SeparateSpec, CycleAccurate, Cpp!Spec
=============================================================================
