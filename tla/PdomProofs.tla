----------------------------- MODULE PdomProofs ------------------------------
(***************************************************************************)
(* Proofs about the C++ divergence controller for every number of lanes,   *)
(* every depth of the stack and every input in every tick.                 *)
(***************************************************************************)
EXTENDS PdomLanes, TLAPS, FiniteSetTheorems

(* PathsAreDisjoint and Deferred, of any running mask and stack            *)
Disjoint(mask, stk) ==
    /\ mask # {}
    /\ \A i \in 1 .. Len(stk) :
           /\ stk[i].mask # {}
           /\ stk[i].mask \cap mask = {}
           /\ \A j \in 1 .. i - 1 : stk[i].mask \cap stk[j].mask = {}

Cover(stk) == UNION {stk[i].mask : i \in 1 .. Len(stk)}

-----------------------------------------------------------------------------
(* Facts about stacks.                                                     *)

LEMMA InCover ==
    ASSUME NEW stk, NEW l
    PROVE  l \in Cover(stk) <=> \E i \in 1 .. Len(stk) : l \in stk[i].mask
BY DEF Cover

LEMMA CoverOfStack ==
    ASSUME NEW stk \in Seq(StackEntry)
    PROVE  Cover(stk) \subseteq Lane
<1>1. \A i \in 1 .. Len(stk) : stk[i] \in StackEntry
  OBVIOUS
<1>2. \A i \in 1 .. Len(stk) : stk[i].mask \subseteq Lane
  BY <1>1 DEF StackEntry
<1> QED
  BY <1>2 DEF Cover

(* A push covers the lanes of the entry, and nothing else changes.         *)
LEMMA Push ==
    ASSUME NEW stk \in Seq(StackEntry), NEW e \in StackEntry, NEW mask,
           mask # {}, e.mask # {}, e.mask \cap mask = {},
           Disjoint(mask \cup e.mask, stk)
    PROVE  /\ Append(stk, e) \in Seq(StackEntry)
           /\ Len(Append(stk, e)) = Len(stk) + 1
           /\ Disjoint(mask, Append(stk, e))
           /\ Cover(Append(stk, e)) = Cover(stk) \cup e.mask
<1> DEFINE new == Append(stk, e)
<1>1. new \in Seq(StackEntry) /\ Len(new) = Len(stk) + 1 /\ Len(stk) \in Nat
  OBVIOUS
<1>2. new[Len(stk) + 1] = e /\ \A i \in 1 .. Len(stk) : new[i] = stk[i]
  OBVIOUS
<1> HIDE DEF new
<1>3. \A i \in 1 .. Len(new) : i \in 1 .. Len(stk) \/ i = Len(stk) + 1
  BY <1>1
<1>4. Disjoint(mask, new)
  <2>1. ASSUME NEW i \in 1 .. Len(new)
        PROVE  /\ new[i].mask # {}
               /\ new[i].mask \cap mask = {}
               /\ \A j \in 1 .. i - 1 : new[i].mask \cap new[j].mask = {}
    <3>1. CASE i \in 1 .. Len(stk)
      <4>1. \A j \in 1 .. i - 1 : j \in 1 .. Len(stk)
        BY <3>1, <1>1
      <4>2. /\ stk[i].mask # {}
            /\ stk[i].mask \cap (mask \cup e.mask) = {}
            /\ \A j \in 1 .. i - 1 : stk[i].mask \cap stk[j].mask = {}
        BY <3>1 DEF Disjoint
      <4> QED
        BY <3>1, <4>1, <4>2, <1>2
    <3>2. CASE i = Len(stk) + 1
      <4>1. \A j \in 1 .. i - 1 : j \in 1 .. Len(stk)
        BY <3>2, <1>1
      <4>2. \A j \in 1 .. Len(stk) : stk[j].mask \cap (mask \cup e.mask) = {}
        BY DEF Disjoint
      <4> QED
        BY <3>2, <4>1, <4>2, <1>2
    <3> QED
      BY <3>1, <3>2, <1>3
  <2> QED
    BY <2>1 DEF Disjoint
<1>5. ASSUME NEW l
      PROVE  l \in Cover(new) <=> l \in Cover(stk) \cup e.mask
  <2>1. l \in Cover(new) <=> \E i \in 1 .. Len(new) : l \in new[i].mask
    BY InCover
  <2>2. l \in Cover(stk) <=> \E i \in 1 .. Len(stk) : l \in stk[i].mask
    BY InCover
  <2>3. \A i \in 1 .. Len(stk) : i \in 1 .. Len(new)
    BY <1>1
  <2>4. Len(stk) + 1 \in 1 .. Len(new)
    BY <1>1
  <2> QED
    BY <2>1, <2>2, <2>3, <2>4, <1>2, <1>3
<1> QED
  BY <1>1, <1>4, <1>5 DEF new

(* A pop takes the lanes of the top entry off the stack, and they were on  *)
(* no other path.                                                          *)
LEMMA Pop ==
    ASSUME NEW stk \in Seq(StackEntry), NEW mask, stk # <<>>, Disjoint(mask, stk)
    PROVE  LET top  == stk[Len(stk)]
               rest == SubSeq(stk, 1, Len(stk) - 1)
           IN  /\ top \in StackEntry
               /\ rest \in Seq(StackEntry)
               /\ Len(rest) = Len(stk) - 1
               /\ Disjoint(top.mask, rest)
               /\ Cover(stk) = top.mask \cup Cover(rest)
               /\ mask \cap Cover(stk) = {}
<1> DEFINE top == stk[Len(stk)]
           rest == SubSeq(stk, 1, Len(stk) - 1)
<1>1. Len(stk) \in Nat \ {0}
  OBVIOUS
<1>2. /\ top \in StackEntry
      /\ rest \in Seq(StackEntry)
      /\ Len(rest) = Len(stk) - 1
      /\ \A i \in 1 .. Len(rest) : rest[i] = stk[i]
  BY <1>1
<1> HIDE DEF rest
<1>3. \A i \in 1 .. Len(stk) : i \in 1 .. Len(rest) \/ i = Len(stk)
  BY <1>1, <1>2
<1>4. Len(stk) \in 1 .. Len(stk) /\ \A i \in 1 .. Len(rest) :
          i \in 1 .. Len(stk) /\ i \in 1 .. Len(stk) - 1
  BY <1>1, <1>2
<1>5. Disjoint(top.mask, rest)
  <2>1. top.mask # {}
    BY <1>4 DEF Disjoint
  <2>2. ASSUME NEW i \in 1 .. Len(rest)
        PROVE  /\ rest[i].mask # {}
               /\ rest[i].mask \cap top.mask = {}
               /\ \A j \in 1 .. i - 1 : rest[i].mask \cap rest[j].mask = {}
    <3>1. top.mask \cap stk[i].mask = {}
      BY <1>4 DEF Disjoint
    <3>2. \A j \in 1 .. i - 1 : j \in 1 .. Len(rest)
      BY <1>2, <1>1
    <3>3. /\ stk[i].mask # {}
          /\ \A j \in 1 .. i - 1 : stk[i].mask \cap stk[j].mask = {}
      BY <1>4 DEF Disjoint
    <3> HIDE DEF top
    <3> QED
      BY <3>1, <3>2, <3>3, <1>2
  <2> QED
    BY <2>1, <2>2 DEF Disjoint
<1>6. ASSUME NEW l
      PROVE  l \in Cover(stk) <=> l \in top.mask \cup Cover(rest)
  <2>1. l \in Cover(stk) <=> \E i \in 1 .. Len(stk) : l \in stk[i].mask
    BY InCover
  <2>2. l \in Cover(rest) <=> \E i \in 1 .. Len(rest) : l \in rest[i].mask
    BY InCover
  <2> QED
    BY <2>1, <2>2, <1>2, <1>3, <1>4
<1>7. mask \cap Cover(stk) = {}
  BY DEF Disjoint, Cover
<1> QED
  BY <1>2, <1>5, <1>6, <1>7 DEF rest

-----------------------------------------------------------------------------
(* What a branch does to the paths of a running warp: they stay disjoint,  *)
(* and every lane stays on a path unless a full stack drops it.            *)

LEMMA Branch ==
    ASSUME TypeOK, Disjoint(curr_mask, stack), NEW in \in PdomInput
    PROVE  /\ MaskAfterBranch(in) \in SUBSET Lane
           /\ StackAfterBranch(in) \in Seq(StackEntry)
           /\ Len(StackAfterBranch(in)) <= Depth
           /\ Disjoint(MaskAfterBranch(in), StackAfterBranch(in))
           /\ MaskAfterBranch(in) \cup Cover(StackAfterBranch(in)) \cup DroppedBy(in)
                  = curr_mask \cup Cover(stack)
           /\ DroppedBy(in) \cap (MaskAfterBranch(in) \cup Cover(StackAfterBranch(in))) = {}
<1> DEFINE then == ThenMask(in)
           else == ElseMask(in)
           e == [mask |-> else, pc |-> in.reconverge_pc]
<1>1. /\ stack \in Seq(StackEntry) /\ Len(stack) \in Nat /\ Len(stack) <= Depth
      /\ curr_mask \subseteq Lane
      /\ Depth \in Nat
  BY PdomAssumption DEF TypeOK
<1>2. /\ then \cup else = curr_mask /\ then \cap else = {}
      /\ then \subseteq Lane /\ else \subseteq Lane
  BY <1>1 DEF ThenMask, ElseMask
<1>3. in.reconverge_pc \in PC /\ in.branch_fire \in BOOLEAN
  BY DEF PdomInput
<1>4. curr_mask \cap Cover(stack) = {}
  BY DEF Disjoint, Cover
<1>5. CASE ~TrueDivergence(in)
  <2>1. MaskAfterBranch(in) = curr_mask
    BY <1>5, <1>2 DEF MaskAfterBranch, TrueDivergence
  <2>2. StackAfterBranch(in) = stack /\ DroppedBy(in) = {}
    BY <1>5 DEF StackAfterBranch, DroppedBy
  <2> QED
    BY <2>1, <2>2, <1>1
<1>6. CASE TrueDivergence(in) /\ Len(stack) = Depth
  <2>1. /\ MaskAfterBranch(in) = then /\ then # {}
        /\ StackAfterBranch(in) = stack /\ DroppedBy(in) = else
    BY <1>6, <1>1 DEF MaskAfterBranch, StackAfterBranch, DroppedBy, TrueDivergence
  <2>2. Disjoint(then, stack)
    BY <2>1, <1>2 DEF Disjoint
  <2> HIDE DEF then, else
  <2> QED
    BY <2>1, <2>2, <1>1, <1>2, <1>4
<1>7. CASE TrueDivergence(in) /\ Len(stack) < Depth
  <2>1. /\ MaskAfterBranch(in) = then /\ then # {} /\ else # {}
        /\ StackAfterBranch(in) = Append(stack, e) /\ DroppedBy(in) = {}
    BY <1>7, <1>1 DEF MaskAfterBranch, StackAfterBranch, DroppedBy, TrueDivergence
  <2>2. e \in StackEntry /\ e.mask = else
    BY <1>2, <1>3 DEF StackEntry
  <2> HIDE DEF e, then, else
  <2>3. Disjoint(then \cup e.mask, stack)
    BY <2>2, <1>2
  <2>4. /\ Append(stack, e) \in Seq(StackEntry)
        /\ Len(Append(stack, e)) = Len(stack) + 1
        /\ Disjoint(then, Append(stack, e))
        /\ Cover(Append(stack, e)) = Cover(stack) \cup e.mask
    BY <2>1, <2>2, <2>3, <1>1, <1>2, Push
  <2> QED
    BY <2>1, <2>2, <2>4, <1>1, <1>2, <1>7
<1> QED
  BY <1>1, <1>5, <1>6, <1>7

-----------------------------------------------------------------------------
(* The inductive invariant: the paths and the lanes that are on none       *)
(* partition the warp.                                                     *)
Partition ==
    /\ TypeOK
    /\ PathsAreDisjoint
    /\ LanesConserved

LEMMA PathsDisjoint == PathsAreDisjoint <=> Disjoint(RunningMask, stack)
BY DEF PathsAreDisjoint, Disjoint

LEMMA DeferredCover == Deferred = Cover(stack)
BY DEF Deferred, Cover

LEMMA EmptyStack ==
    /\ <<>> \in Seq(StackEntry) /\ Len(<<>>) = 0
    /\ Cover(<<>>) = {}
    /\ \A mask : Disjoint(mask, <<>>) <=> mask # {}
<1>1. <<>> \in Seq(StackEntry) /\ Len(<<>>) = 0 /\ 1 .. 0 = {}
  OBVIOUS
<1> QED
  BY <1>1 DEF Cover, Disjoint

(* All lanes run and nothing is deferred: the state of a reset and of a    *)
(* full reconvergence.                                                     *)
LEMMA Fresh ==
    ASSUME curr_mask' = Lane, state' = "RUN", stack' = <<>>,
           pop_pending' \in StackEntry, finished' = {}, dropped' = {}
    PROVE  Partition'
<1>1. RunningMask' = Lane
  BY DEF RunningMask
<1>2. TypeOK'
  BY EmptyStack, PdomAssumption DEF TypeOK
<1>3. Deferred' = {}
  BY EmptyStack DEF Deferred, Cover
<1>4. PathsAreDisjoint'
  BY EmptyStack, <1>1, PdomAssumption DEF PathsAreDisjoint
<1> QED
  BY <1>1, <1>2, <1>3, <1>4 DEF Partition, LanesConserved

LEMMA InitPartition == LInit => Partition
<1> SUFFICES ASSUME LInit PROVE Partition
  OBVIOUS
<1>1. NoEntry \in StackEntry
  BY PdomAssumption DEF NoEntry, StackEntry
<1>2. RunningMask = Lane /\ Deferred = {}
  BY EmptyStack DEF LInit, Init, RunningMask, Deferred, Cover
<1>3. TypeOK
  BY <1>1, EmptyStack, PdomAssumption DEF LInit, Init, TypeOK
<1>4. PathsAreDisjoint
  BY <1>2, EmptyStack, PdomAssumption DEF PathsAreDisjoint, LInit, Init
<1> QED
  BY <1>2, <1>3, <1>4 DEF Partition, LanesConserved, LInit

LEMMA RunKeepsPartition ==
    ASSUME Partition, NEW in \in PdomInput, LRun(in)
    PROVE  Partition'
<1> DEFINE mask == MaskAfterBranch(in)
           stk  == StackAfterBranch(in)
<1>1. state = "RUN" /\ RunningMask = curr_mask
  BY DEF LRun, Run, RunningMask
<1>2. TypeOK /\ Disjoint(curr_mask, stack)
  BY <1>1, PathsDisjoint DEF Partition
<1>3. /\ curr_mask \cup Cover(stack) \cup finished \cup dropped = Lane
      /\ (curr_mask \cup Cover(stack)) \cap (finished \cup dropped) = {}
      /\ finished \cap dropped = {}
  BY <1>1, DeferredCover DEF Partition, LanesConserved
<1>4. /\ mask \in SUBSET Lane
      /\ stk \in Seq(StackEntry) /\ Len(stk) <= Depth
      /\ Disjoint(mask, stk)
      /\ mask \cup Cover(stk) \cup DroppedBy(in) = curr_mask \cup Cover(stack)
      /\ DroppedBy(in) \cap (mask \cup Cover(stk)) = {}
  BY <1>2, Branch
<1>5. CASE PathGoesOn(in)
  <2>1. /\ curr_mask' = mask /\ stack' = stk
        /\ state' = "RUN" /\ pop_pending' = pop_pending
        /\ finished' = finished /\ dropped' = dropped \cup DroppedBy(in)
    BY <1>1, <1>5 DEF PathGoesOn, LRun, Reconverges
  <2> HIDE DEF mask, stk
  <2>2. TypeOK'
    BY <2>1, <1>2, <1>4 DEF TypeOK
  <2>3. RunningMask' = mask /\ Deferred' = Cover(stk)
    BY <2>1 DEF RunningMask, Deferred, Cover
  <2>4. PathsAreDisjoint'
    BY <2>1, <2>3, <1>4 DEF PathsAreDisjoint, Disjoint
  <2>5. LanesConserved'
    BY <2>1, <2>3, <1>3, <1>4 DEF LanesConserved
  <2> QED
    BY <2>2, <2>4, <2>5 DEF Partition
<1>6. CASE PopDeferred(in)
  <2> DEFINE top  == stk[Len(stk)]
             rest == SubSeq(stk, 1, Len(stk) - 1)
  <2>1. stk # <<>> /\ in.path_done
    BY <1>6 DEF PopDeferred
  <2>2. /\ curr_mask' = mask /\ stack' = rest
        /\ state' = "POP_WAIT" /\ pop_pending' = top
        /\ finished' = finished \cup mask /\ dropped' = dropped \cup DroppedBy(in)
    BY <1>6, <2>1 DEF PopDeferred, LRun, Reconverges
  <2> HIDE DEF mask, stk
  <2>3. /\ top \in StackEntry
        /\ rest \in Seq(StackEntry)
        /\ Len(rest) = Len(stk) - 1
        /\ Disjoint(top.mask, rest)
        /\ Cover(stk) = top.mask \cup Cover(rest)
        /\ mask \cap Cover(stk) = {}
    BY <2>1, <1>4, Pop
  <2>4. Len(rest) <= Depth
    BY <2>3, <1>4, PdomAssumption
  <2> HIDE DEF top, rest
  <2>5. TypeOK'
    BY <2>2, <2>3, <2>4, <1>4 DEF TypeOK
  <2>6. RunningMask' = top.mask /\ Deferred' = Cover(rest)
    BY <2>2 DEF RunningMask, Deferred, Cover
  <2>7. PathsAreDisjoint'
    BY <2>2, <2>3, <2>6 DEF PathsAreDisjoint, Disjoint
  <2>8. LanesConserved'
    BY <2>2, <2>3, <2>6, <1>3, <1>4 DEF LanesConserved
  <2> QED
    BY <2>5, <2>7, <2>8 DEF Partition
<1>7. CASE Reconverge(in)
  <2>1. stk = <<>> /\ in.path_done
    BY <1>7 DEF Reconverge
  <2>2. stack = <<>>
    <3>1. CASE stk = stack
      BY <3>1, <2>1
    <3>2. CASE stk # stack
      <4>1. stk = Append(stack, [mask |-> ElseMask(in), pc |-> in.reconverge_pc])
        BY <3>2 DEF StackAfterBranch
      <4>2. [mask |-> ElseMask(in), pc |-> in.reconverge_pc] \in StackEntry
        BY <1>2 DEF StackEntry, ElseMask, TypeOK, PdomInput
      <4> HIDE DEF stk
      <4>3. Len(stk) = Len(stack) + 1 /\ Len(stack) \in Nat
        BY <4>1, <4>2, <1>2 DEF TypeOK
      <4> QED
        BY <4>3, <2>1, EmptyStack
    <3> QED
      BY <3>1, <3>2
  <2>3. /\ curr_mask' = Lane /\ state' = "RUN" /\ stack' = <<>>
        /\ pop_pending' \in StackEntry
    BY <1>1, <1>2, <1>7, <2>2 DEF Reconverge, TypeOK
  <2>4. finished' = {} /\ dropped' = {}
    BY <2>1 DEF LRun, Reconverges
  <2> QED
    BY <2>3, <2>4, Fresh
<1> QED
  BY <1>5, <1>6, <1>7 DEF LRun, Run

LEMMA PopWaitKeepsPartition ==
    ASSUME Partition, LPopWait
    PROVE  Partition'
<1>1. /\ curr_mask' = pop_pending.mask /\ state' = "RUN"
      /\ stack' = stack /\ pop_pending' = pop_pending
      /\ finished' = finished /\ dropped' = dropped
  BY DEF LPopWait, PopWait
<1>2. RunningMask' = RunningMask /\ Deferred' = Deferred
  BY <1>1 DEF LPopWait, PopWait, RunningMask, Deferred
<1>3. TypeOK'
  BY <1>1 DEF Partition, TypeOK, StackEntry
<1>4. PathsAreDisjoint'
  BY <1>1, <1>2 DEF Partition, PathsAreDisjoint
<1>5. LanesConserved'
  BY <1>1, <1>2 DEF Partition, LanesConserved
<1> QED
  BY <1>3, <1>4, <1>5 DEF Partition

LEMMA StutterKeepsPartition ==
    ASSUME Partition, UNCHANGED lvars
    PROVE  Partition'
BY DEF Partition, lvars, TypeOK, PathsAreDisjoint, LanesConserved, RunningMask, Deferred

LEMMA StepKeepsPartition == Partition /\ [LNext]_lvars => Partition'
<1> SUFFICES ASSUME Partition, [LNext]_lvars PROVE Partition'
  OBVIOUS
<1>1. CASE LReset
  <2>1. NoEntry \in StackEntry
    BY PdomAssumption DEF NoEntry, StackEntry
  <2> QED
    BY <1>1, <2>1, Fresh DEF LReset, Reset
<1>2. CASE LPopWait
  BY <1>2, PopWaitKeepsPartition
<1>3. ASSUME NEW in \in PdomInput, LRun(in) PROVE Partition'
  BY <1>3, RunKeepsPartition
<1>4. CASE UNCHANGED lvars
  BY <1>4, StutterKeepsPartition
<1> QED
  BY <1>1, <1>2, <1>3, <1>4 DEF LNext

LEMMA AlwaysPartition == LSpec => []Partition
BY InitPartition, StepKeepsPartition, PTL DEF LSpec

-----------------------------------------------------------------------------
(* The controller stays within its types, its stack within its depth, for  *)
(* every number of lanes and every depth (pdom_ctrl.cpp:14-66).            *)
THEOREM PdomTypeCorrect == LSpec => []TypeOK
<1>1. Partition => TypeOK
  BY DEF Partition
<1> QED
  BY <1>1, AlwaysPartition, PTL

(* No lane ever executes both sides of a branch, and no pop leaves the     *)
(* warp without active lanes (pdom_ctrl.cpp:32-60).                        *)
THEOREM PathsNeverMeet == LSpec => []PathsAreDisjoint
<1>1. Partition => PathsAreDisjoint
  BY DEF Partition
<1> QED
  BY <1>1, AlwaysPartition, PTL

(* No lane is lost between two reconvergences but by a branch on a full    *)
(* stack, and none that has completed its path comes back                  *)
(* (pdom_ctrl.cpp:37-60).                                                  *)
THEOREM NoLaneIsLost == LSpec => []LanesConserved
<1>1. Partition => LanesConserved
  BY DEF Partition
<1> QED
  BY <1>1, AlwaysPartition, PTL

-----------------------------------------------------------------------------
(* Every path has a lane of its own: the lanes on the paths map onto       *)
(* 0 .. Len(stk), where 0 stands for the running path.                     *)
LEMMA MoreLanesThanPaths ==
    ASSUME NEW mask \in SUBSET Lane, NEW stk \in Seq(StackEntry), Disjoint(mask, stk)
    PROVE  Len(stk) < Cardinality(mask \cup Cover(stk))
<1> DEFINE lanes == mask \cup Cover(stk)
           depth == Len(stk)
           path  == [l \in lanes |-> IF l \in mask THEN 0
                                    ELSE CHOOSE i \in 1 .. depth : l \in stk[i].mask]
<1>1. depth \in Nat
  OBVIOUS
<1>2. path \in [lanes -> 0 .. depth]
  <2>1. ASSUME NEW l \in lanes, l \notin mask
        PROVE  (CHOOSE i \in 1 .. depth : l \in stk[i].mask) \in 0 .. depth
    <3>1. \E i \in 1 .. depth : l \in stk[i].mask
      BY <2>1, InCover
    <3> QED
      BY <3>1, <1>1
  <2>2. 0 \in 0 .. depth
    BY <1>1
  <2> HIDE DEF lanes, depth
  <2> QED
    BY <2>1, <2>2
<1>3. ASSUME NEW p \in 0 .. depth PROVE \E l \in lanes : path[l] = p
  <2>1. CASE p = 0
    <3>1. PICK l \in lanes : l \in mask
      BY DEF Disjoint
    <3> QED
      BY <3>1, <2>1
  <2>2. CASE p \in 1 .. depth
    <3>1. PICK l : l \in stk[p].mask
      BY <2>2 DEF Disjoint
    <3>2. l \in lanes
      BY <3>1, <2>2, InCover
    <3>3. l \notin mask
      BY <3>1, <2>2 DEF Disjoint
    <3>4. ASSUME NEW i \in 1 .. depth, l \in stk[i].mask PROVE i = p
      <4>1. ASSUME i < p PROVE FALSE
        <5>1. i \in 1 .. p - 1
          BY <4>1, <1>1
        <5> QED
          BY <5>1, <3>1, <3>4, <2>2 DEF Disjoint
      <4>2. ASSUME p < i PROVE FALSE
        <5>1. p \in 1 .. i - 1
          BY <4>2, <2>2, <1>1
        <5> QED
          BY <5>1, <3>1, <3>4 DEF Disjoint
      <4> QED
        BY <4>1, <4>2, <2>2
    <3>5. (CHOOSE i \in 1 .. depth : l \in stk[i].mask) = p
      BY <3>1, <3>4, <2>2
    <3> HIDE DEF lanes, depth
    <3> QED
      BY <3>2, <3>3, <3>5
  <2>3. p = 0 \/ p \in 1 .. depth
    BY <1>1
  <2> QED
    BY <2>1, <2>2, <2>3
<1>4. lanes \subseteq Lane
  BY CoverOfStack
<1>5. IsFiniteSet(lanes)
  BY <1>4, LanesAssumption, FS_Subset
<1>6. Cardinality(0 .. depth) = depth + 1
  BY <1>1, FS_Interval
<1>7. Cardinality(lanes) \in Nat
  BY <1>5, FS_CardinalityType
<1> HIDE DEF lanes, depth, path
<1>8. path \in Surjection(lanes, 0 .. depth)
  BY <1>2, <1>3 DEF Surjection
<1>9. Cardinality(0 .. depth) <= Cardinality(lanes)
  BY <1>8, <1>5, FS_Surjection
<1> QED
  BY <1>1, <1>6, <1>7, <1>9 DEF lanes, depth

LEMMA PartitionBoundsStack == Partition => StackBelowLanes
<1> SUFFICES ASSUME Partition PROVE StackBelowLanes
  OBVIOUS
<1>1. RunningMask \in SUBSET Lane
  BY DEF Partition, TypeOK, RunningMask, StackEntry
<1>2. Disjoint(RunningMask, stack)
  BY PathsDisjoint DEF Partition
<1>3. Lane \ (finished \cup dropped) = RunningMask \cup Cover(stack)
  BY DeferredCover DEF Partition, LanesConserved
<1> QED
  BY <1>1, <1>2, <1>3, MoreLanesThanPaths DEF Partition, TypeOK, StackBelowLanes

(* The stack is always shorter than the number of lanes that are left      *)
(* (pdom_ctrl.cpp:39-41).                                                  *)
THEOREM StackStaysBelowLanes == LSpec => []StackBelowLanes
BY AlwaysPartition, PartitionBoundsStack, PTL

-----------------------------------------------------------------------------
NothingDropped == dropped = {}

(* The two sides of the branch and the deferred paths would need Depth + 2 *)
(* lanes.                                                                  *)
LEMMA DeepStackTakesBranch ==
    ASSUME Depth >= Cardinality(Lane) - 1, TypeOK, Disjoint(curr_mask, stack),
           NEW in \in PdomInput
    PROVE  DroppedBy(in) = {}
<1> SUFFICES ASSUME TrueDivergence(in), Len(stack) = Depth PROVE FALSE
  BY DEF DroppedBy
<1> DEFINE then == ThenMask(in)
           e    == [mask |-> ElseMask(in), pc |-> in.reconverge_pc]
           new  == Append(stack, e)
<1>1. /\ stack \in Seq(StackEntry) /\ curr_mask \subseteq Lane
      /\ e \in StackEntry /\ e.mask = ElseMask(in)
  BY DEF TypeOK, StackEntry, ElseMask, PdomInput
<1>2. /\ then # {} /\ e.mask # {} /\ e.mask \cap then = {}
      /\ then \cup e.mask = curr_mask
  BY <1>1 DEF TrueDivergence, ThenMask, ElseMask
<1> HIDE DEF then, e
<1>3. new \in Seq(StackEntry) /\ Len(new) = Depth + 1 /\ Disjoint(then, new)
  BY <1>1, <1>2, Push
<1>4. then \in SUBSET Lane
  BY <1>1, <1>2
<1> HIDE DEF new
<1>5. Len(new) < Cardinality(then \cup Cover(new))
  BY <1>3, <1>4, MoreLanesThanPaths
<1>6. then \cup Cover(new) \in SUBSET Lane
  BY <1>3, <1>4, CoverOfStack
<1>7. /\ Cardinality(then \cup Cover(new)) <= Cardinality(Lane)
      /\ Cardinality(Lane) \in Nat /\ Cardinality(then \cup Cover(new)) \in Nat
  BY <1>6, LanesAssumption, FS_Subset, FS_CardinalityType
<1> QED
  BY <1>3, <1>5, <1>7, PdomAssumption

(* A stack with one entry less than there are lanes is deep enough: no     *)
(* branch ever finds it full, and no lane is ever dropped.  The default    *)
(* Config (simt_types.h:13-16) has as many entries as lanes.               *)
THEOREM DeepStackDropsNoLane ==
    ASSUME Depth >= Cardinality(Lane) - 1
    PROVE  LSpec => []NothingDropped
<1>1. LInit => NothingDropped
  BY DEF LInit, NothingDropped
<1>2. Partition /\ NothingDropped /\ [LNext]_lvars => NothingDropped'
  <2> SUFFICES ASSUME Partition, NothingDropped, [LNext]_lvars PROVE NothingDropped'
    OBVIOUS
  <2>1. ASSUME NEW in \in PdomInput, LRun(in) PROVE dropped' = {}
    <3>1. Disjoint(curr_mask, stack)
      BY <2>1, PathsDisjoint DEF Partition, LRun, Run, RunningMask
    <3>2. DroppedBy(in) = {}
      BY <3>1, DeepStackTakesBranch DEF Partition
    <3> QED
      BY <2>1, <3>2 DEF LRun, NothingDropped
  <2> QED
    BY <2>1 DEF LNext, LReset, LPopWait, lvars, NothingDropped
<1> QED
  BY <1>1, <1>2, AlwaysPartition, PTL DEF LSpec
=============================================================================
