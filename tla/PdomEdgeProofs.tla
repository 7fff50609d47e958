--------------------------- MODULE PdomEdgeProofs ---------------------------
(***************************************************************************)
(* What one clock edge of pdom_ctrl.sv and of its stack does to the        *)
(* registers of a single controller, whoever owns them.                    *)
(***************************************************************************)
EXTENDS PdomRtl, SequenceTheorems, TLAPS

-----------------------------------------------------------------------------
(* The stack: its registers, read as the sequence of its entries.          *)

Entries(st) == [i \in 1 .. st.count |-> st.mem[i - 1]]

LEMMA EntriesType ==
    ASSUME NEW st \in StackRegs
    PROVE  Entries(st) \in Seq(StackEntry) /\ Len(Entries(st)) = st.count
<1>1. st.count \in Nat /\ \A i \in 1 .. st.count : i - 1 \in 0 .. Depth - 1
  BY PdomRtlAssumption DEF StackRegs
<1>2. \A i \in 1 .. st.count : st.mem[i - 1] \in StackEntry
  BY <1>1 DEF StackRegs
<1> QED
  BY <1>1, <1>2 DEF Entries

(* Full, Empty and the count say of the registers what they say of the     *)
(* sequence.                                                               *)
LEMMA StackStatus ==
    ASSUME NEW st \in StackRegs
    PROVE  /\ Full(st) <=> ~(Len(Entries(st)) < Depth)
           /\ Empty(st) <=> Entries(st) = <<>>
           /\ st.count \in 0 .. Depth
<1>1. st.count \in 0 .. Depth /\ Len(Entries(st)) = st.count /\ Entries(st) \in Seq(StackEntry)
  BY EntriesType DEF StackRegs
<1> QED
  BY <1>1, PdomRtlAssumption DEF Full, Empty

LEMMA StackEdgeType ==
    ASSUME NEW st \in StackRegs, NEW push \in BOOLEAN, NEW pop \in BOOLEAN,
           NEW entry \in StackEntry
    PROVE  StackEdge(st, push, entry, pop) \in StackRegs
<1>1. st.count \in 0 .. Depth /\ st.mem \in [0 .. Depth - 1 -> StackEntry] /\ st.popped \in StackEntry
  BY DEF StackRegs
<1> DEFINE do_pop  == pop /\ ~Empty(st)
           do_push == push /\ ~Full(st)
           slot    == IF do_pop THEN st.count - 1 ELSE st.count
           count   == st.count + (IF do_push THEN 1 ELSE 0) - (IF do_pop THEN 1 ELSE 0)
           mem     == IF do_push THEN [st.mem EXCEPT ![slot] = entry] ELSE st.mem
           popped  == IF do_pop THEN st.mem[st.count - 1] ELSE st.popped
<1>2. count \in 0 .. Depth
  BY <1>1, PdomRtlAssumption DEF Empty, Full
<1>3. mem \in [0 .. Depth - 1 -> StackEntry]
  BY <1>1, PdomRtlAssumption DEF Empty, Full
<1>4. popped \in StackEntry
  BY <1>1, PdomRtlAssumption DEF Empty
<1>5. StackEdge(st, push, entry, pop) = [count |-> count, mem |-> mem, popped |-> popped]
  BY DEF StackEdge
<1> HIDE DEF count, mem, popped
<1> QED
  BY <1>2, <1>3, <1>4, <1>5 DEF StackRegs

LEMMA PushEdge ==
    ASSUME NEW st \in StackRegs, ~Full(st), NEW entry \in StackEntry
    PROVE  /\ Entries(StackEdge(st, TRUE, entry, FALSE)) = Append(Entries(st), entry)
           /\ StackEdge(st, TRUE, entry, FALSE).popped = st.popped
<1> DEFINE next == StackEdge(st, TRUE, entry, FALSE)
<1>1. st.count \in 0 .. Depth - 1 /\ st.mem \in [0 .. Depth - 1 -> StackEntry]
  BY PdomRtlAssumption DEF StackRegs, Full
<1>2. next.count = st.count + 1 /\ next.mem = [st.mem EXCEPT ![st.count] = entry] /\ next.popped = st.popped
  BY <1>1 DEF StackEdge
<1>3. Entries(st) \in Seq(StackEntry) /\ Len(Entries(st)) = st.count
  BY EntriesType
<1>4. next \in StackRegs
  BY StackEdgeType
<1>5. /\ Append(Entries(st), entry) \in Seq(StackEntry)
      /\ Len(Append(Entries(st), entry)) = st.count + 1
      /\ \A i \in 1 .. st.count : Append(Entries(st), entry)[i] = Entries(st)[i]
      /\ Append(Entries(st), entry)[st.count + 1] = entry
  BY <1>3, AppendProperties
<1> HIDE DEF next
<1>6. Entries(next) \in Seq(StackEntry) /\ Len(Entries(next)) = st.count + 1
  BY <1>2, <1>4, EntriesType
<1>7. \A i \in 1 .. st.count + 1 : Entries(next)[i] = next.mem[i - 1]
  BY <1>2 DEF Entries
<1>8. \A i \in 1 .. st.count : Entries(st)[i] = st.mem[i - 1]
  BY DEF Entries
<1>9. ASSUME NEW i \in 1 .. st.count + 1
      PROVE  Entries(next)[i] = Append(Entries(st), entry)[i]
  <2>1. CASE i = st.count + 1
    BY <1>1, <1>2, <1>5, <1>7, <2>1, PdomRtlAssumption
  <2>2. CASE i # st.count + 1
    <3>1. i \in 1 .. st.count /\ i - 1 \in 0 .. Depth - 1 /\ i - 1 # st.count
      BY <1>1, <2>2, PdomRtlAssumption
    <3>2. next.mem[i - 1] = st.mem[i - 1]
      BY <1>1, <1>2, <3>1
    <3> QED
      BY <1>5, <1>7, <1>8, <3>1, <3>2
  <2> QED
    BY <2>1, <2>2
<1>10. Entries(next) = Append(Entries(st), entry)
  BY <1>5, <1>6, <1>9, SeqEqual
<1> QED
  BY <1>2, <1>10 DEF next

LEMMA PopEdge ==
    ASSUME NEW st \in StackRegs, ~Empty(st), NEW entry
    PROVE  /\ Entries(StackEdge(st, FALSE, entry, TRUE))
                  = SubSeq(Entries(st), 1, Len(Entries(st)) - 1)
           /\ StackEdge(st, FALSE, entry, TRUE).popped = Entries(st)[Len(Entries(st))]
<1> DEFINE next == StackEdge(st, FALSE, entry, TRUE)
<1>1. st.count \in 1 .. Depth
  BY PdomRtlAssumption DEF StackRegs, Empty
<1>2. next.count = st.count - 1 /\ next.mem = st.mem /\ next.popped = st.mem[st.count - 1]
  BY <1>1 DEF StackEdge, Empty
<1>3. Entries(st) \in Seq(StackEntry) /\ Len(Entries(st)) = st.count
  BY EntriesType
<1>4. \A i \in 1 .. st.count : Entries(st)[i] = st.mem[i - 1]
  BY DEF Entries
<1> HIDE DEF next
<1>5. Entries(next) = [i \in 1 .. st.count - 1 |-> st.mem[i - 1]]
  BY <1>2 DEF Entries
<1>6. SubSeq(Entries(st), 1, st.count - 1) = [i \in 1 .. st.count - 1 |-> Entries(st)[i]]
  BY <1>1, <1>3
<1>7. \A i \in 1 .. st.count - 1 : i \in 1 .. st.count
  BY <1>1
<1>8. st.count \in 1 .. st.count
  BY <1>1
<1> QED
  BY <1>2, <1>3, <1>4, <1>5, <1>6, <1>7, <1>8 DEF next

LEMMA HoldEdge ==
    ASSUME NEW st \in StackRegs, NEW entry
    PROVE  /\ Entries(StackEdge(st, FALSE, entry, FALSE)) = Entries(st)
           /\ StackEdge(st, FALSE, entry, FALSE).popped = st.popped
<1>1. st.count \in Nat
  BY PdomRtlAssumption DEF StackRegs
<1> QED
  BY <1>1 DEF StackEdge, Entries

-----------------------------------------------------------------------------
(* The whole controller.                                                   *)
LEMMA PdomEdgeIs ==
    ASSUME NEW p \in PdomRegs, NEW in \in PdomPorts
    PROVE  LET entry == [mask |-> ElseMask(p, in), pc |-> in.reconverge_pc]
           IN  /\ entry \in StackEntry
               /\ st_push(p, in) \in BOOLEAN /\ st_pop(p, in) \in BOOLEAN
               /\ PdomEdge(p, in).curr_mask = MaskEdge(p, in)
               /\ PdomEdge(p, in).state = IF st_pop(p, in) THEN "POP_WAIT" ELSE "RUN"
               /\ PdomEdge(p, in).stack
                      = StackEdge(p.stack, st_push(p, in), entry, st_pop(p, in))
<1> DEFINE entry == [mask |-> ElseMask(p, in), pc |-> in.reconverge_pc]
<1>1. entry \in StackEntry
  BY DEF ElseMask, StackEntry, PdomPorts, PdomRegs
<1>2. st_push(p, in) \in BOOLEAN /\ st_pop(p, in) \in BOOLEAN
  BY DEF st_push, st_pop
<1> QED
  BY <1>1, <1>2 DEF PdomEdge

LEMMA PdomEdgeType ==
    ASSUME NEW p \in PdomRegs, NEW in \in PdomPorts
    PROVE  PdomEdge(p, in) \in PdomRegs
<1> DEFINE entry == [mask |-> ElseMask(p, in), pc |-> in.reconverge_pc]
<1>1. /\ entry \in StackEntry
      /\ st_push(p, in) \in BOOLEAN /\ st_pop(p, in) \in BOOLEAN
  BY PdomEdgeIs
<1>2. p.stack \in StackRegs /\ p.curr_mask \in SUBSET Lane
  BY DEF PdomRegs
<1> HIDE DEF entry
<1>3. StackEdge(p.stack, st_push(p, in), entry, st_pop(p, in)) \in StackRegs
  BY <1>1, <1>2, StackEdgeType
<1>4. p.stack.popped.mask \in SUBSET Lane
  BY <1>2 DEF StackRegs, StackEntry
<1>5. MaskEdge(p, in) \in SUBSET Lane
  BY <1>2, <1>4 DEF MaskEdge, ThenMask
<1>6. PdomEdge(p, in) =
          [curr_mask |-> MaskEdge(p, in),
           state |-> IF st_pop(p, in) THEN "POP_WAIT" ELSE "RUN",
           stack |-> StackEdge(p.stack, st_push(p, in), entry, st_pop(p, in))]
  BY DEF PdomEdge, entry
<1> QED
  BY <1>3, <1>5, <1>6 DEF PdomRegs

LEMMA PdomResetType == PdomReset \in PdomRegs
<1>1. StackReset \in StackRegs
  BY PdomRtlAssumption DEF StackReset, StackRegs, StackEntry
<1> QED
  BY <1>1 DEF PdomReset, PdomRegs

(* The three things an edge does to the stack of a controller that gets no *)
(* branch in the cycle of a path_done.                                     *)
Diverging(p, in) == in.branch_fire /\ ThenMask(p, in) # {} /\ ElseMask(p, in) # {}

LEMMA PdomSteps ==
    ASSUME NEW p \in PdomRegs, NEW in \in PdomPorts, ~(in.branch_fire /\ in.path_done)
    PROVE  LET q == PdomEdge(p, in)
               n == p.stack.count
           IN  \/ /\ p.state = "RUN" /\ n < Depth /\ Diverging(p, in)
                  /\ q.state = "RUN" /\ q.curr_mask = ThenMask(p, in)
                  /\ q.stack.count = n + 1
                  /\ q.stack.mem = [p.stack.mem EXCEPT ![n] =
                         [mask |-> ElseMask(p, in), pc |-> in.reconverge_pc]]
               \/ /\ p.state = "RUN" /\ n > 0 /\ ~Diverging(p, in)
                  /\ q.state = "POP_WAIT" /\ q.curr_mask = p.curr_mask
                  /\ q.stack.count = n - 1
                  /\ q.stack.mem = p.stack.mem
                  /\ q.stack.popped = p.stack.mem[n - 1]
               \/ /\ q.state = "RUN" /\ q.stack = p.stack
                  /\ \/ p.state = "POP_WAIT" /\ q.curr_mask = p.stack.popped.mask
                     \/ /\ p.state = "RUN" /\ ~Diverging(p, in)
                        /\ q.curr_mask = p.curr_mask \/ (n = 0 /\ q.curr_mask = Lane)
                     \/ /\ p.state = "RUN" /\ n = Depth /\ Diverging(p, in)
                        /\ q.curr_mask = ThenMask(p, in)
<1> DEFINE q == PdomEdge(p, in)
           n == p.stack.count
           entry == [mask |-> ElseMask(p, in), pc |-> in.reconverge_pc]
<1>1. p.stack \in StackRegs /\ p.state \in {"RUN", "POP_WAIT"} /\ p.curr_mask \subseteq Lane
  BY DEF PdomRegs
<1>2. n \in 0 .. Depth /\ (Empty(p.stack) <=> n = 0) /\ (Full(p.stack) <=> n = Depth)
  BY <1>1 DEF StackRegs, Empty, Full
<1>3. p.stack = [count |-> n, mem |-> p.stack.mem, popped |-> p.stack.popped]
  BY <1>1 DEF StackRegs
<1>4. /\ st_push(p, in) \in BOOLEAN /\ st_pop(p, in) \in BOOLEAN
      /\ q.curr_mask = MaskEdge(p, in)
      /\ q.state = IF st_pop(p, in) THEN "POP_WAIT" ELSE "RUN"
      /\ q.stack = StackEdge(p.stack, st_push(p, in), entry, st_pop(p, in))
  BY PdomEdgeIs
<1> HIDE DEF q, entry
<1>5. /\ StackEdge(p.stack, FALSE, entry, FALSE) = p.stack
      /\ n < Depth => /\ StackEdge(p.stack, TRUE, entry, FALSE).count = n + 1
                      /\ StackEdge(p.stack, TRUE, entry, FALSE).mem
                             = [p.stack.mem EXCEPT ![n] = entry]
      /\ n > 0 => /\ StackEdge(p.stack, FALSE, entry, TRUE).count = n - 1
                  /\ StackEdge(p.stack, FALSE, entry, TRUE).mem = p.stack.mem
                  /\ StackEdge(p.stack, FALSE, entry, TRUE).popped = p.stack.mem[n - 1]
  BY <1>2, <1>3, PdomRtlAssumption DEF StackEdge
<1>6. CASE p.state = "POP_WAIT"
  <2>1. st_push(p, in) = FALSE /\ st_pop(p, in) = FALSE
    BY <1>6 DEF st_push, st_pop
  <2> QED
    BY <1>4, <1>5, <1>6, <2>1 DEF MaskEdge, q
<1>7. CASE p.state = "RUN" /\ in.path_done
  <2>1. st_push(p, in) = FALSE /\ ~Diverging(p, in) /\ ~in.branch_fire
    BY <1>7 DEF st_push, Diverging
  <2>2. CASE n = 0
    <3>1. st_pop(p, in) = FALSE
      BY <1>2, <2>2 DEF st_pop
    <3> QED
      BY <1>2, <1>4, <1>5, <1>7, <2>1, <2>2, <3>1 DEF MaskEdge, q
  <2>3. CASE n # 0
    <3>1. st_pop(p, in) = TRUE /\ n > 0
      BY <1>2, <1>7, <2>3, PdomRtlAssumption DEF st_pop
    <3> QED
      BY <1>2, <1>4, <1>5, <1>7, <2>1, <2>3, <3>1 DEF MaskEdge, q
  <2> QED
    BY <2>2, <2>3
<1>8. CASE p.state = "RUN" /\ ~in.path_done
  <2>1. st_pop(p, in) = FALSE
    BY <1>8 DEF st_pop
  <2>2. q.state = "RUN"
    BY <1>4, <2>1
  <2>3. q.curr_mask = IF in.branch_fire /\ ThenMask(p, in) # {} THEN ThenMask(p, in) ELSE p.curr_mask
    BY <1>4, <1>8 DEF MaskEdge
  <2>4. CASE Diverging(p, in) /\ n < Depth
    <3>1. st_push(p, in) = TRUE
      BY <1>2, <1>8, <2>4, PdomRtlAssumption DEF st_push, Diverging
    <3> QED
      BY <1>4, <1>5, <1>8, <2>1, <2>2, <2>3, <2>4, <3>1 DEF Diverging, q, entry
  <2>5. CASE Diverging(p, in) /\ ~(n < Depth)
    <3>1. n = Depth /\ st_push(p, in) = FALSE
      BY <1>2, <2>5, PdomRtlAssumption DEF st_push
    <3> QED
      BY <1>4, <1>5, <1>8, <2>1, <2>2, <2>3, <2>5, <3>1 DEF Diverging, q
  <2>6. CASE ~Diverging(p, in)
    <3>1. st_push(p, in) = FALSE
      BY <2>6 DEF st_push, Diverging
    <3>2. q.curr_mask = p.curr_mask
      BY <2>3, <2>6 DEF Diverging, ThenMask, ElseMask
    <3> QED
      BY <1>4, <1>5, <1>8, <2>1, <2>2, <2>6, <3>1, <3>2 DEF q
  <2> QED
    BY <2>4, <2>5, <2>6
<1> QED
  BY <1>1, <1>6, <1>7, <1>8

-----------------------------------------------------------------------------
(* The paths of one controller: the lanes that run, those of every entry   *)
(* and those that have just been popped are disjoint and not empty.  In    *)
(* POP_WAIT the mask still has the lanes of the path that has ended.       *)
Path(p, i) == p.stack.mem[i].mask
Waiting(p) == 0 .. p.stack.count - 1

Apart(lanes, others) == lanes # {} /\ others # {} /\ lanes \cap others = {}

PathsApart(p) ==
    /\ p.curr_mask # {}
    /\ \A i \in Waiting(p) : Apart(p.curr_mask, Path(p, i))
    /\ \A i, j \in Waiting(p) : i # j => Apart(Path(p, i), Path(p, j))
    /\ p.state = "POP_WAIT" =>
           /\ Apart(p.curr_mask, p.stack.popped.mask)
           /\ \A i \in Waiting(p) : Apart(p.stack.popped.mask, Path(p, i))

LEMMA ApartFacts ==
    /\ \A S, T : Apart(S, T) => Apart(T, S) /\ S # {} /\ T # {}
    /\ \A S, T, U : Apart(S, T) /\ U \subseteq S /\ U # {} => Apart(U, T)
BY DEF Apart

LEMMA EdgeKeepsPathsApart ==
    ASSUME NEW p \in PdomRegs, NEW in \in PdomPorts, ~(in.branch_fire /\ in.path_done),
           PathsApart(p)
    PROVE  PathsApart(PdomEdge(p, in))
<1> DEFINE q == PdomEdge(p, in)
           n == p.stack.count
           entry == [mask |-> ElseMask(p, in), pc |-> in.reconverge_pc]
<1> SUFFICES PathsApart(q)
  OBVIOUS
<1>1. /\ n \in 0 .. Depth /\ p.curr_mask \subseteq Lane
      /\ p.stack.mem \in [0 .. Depth - 1 -> StackEntry]
  BY DEF PdomRegs, StackRegs
<1>2. Waiting(p) = 0 .. n - 1 /\ Waiting(p) \subseteq 0 .. Depth - 1
  BY <1>1, PdomRtlAssumption DEF Waiting
<1>3. /\ p.curr_mask # {}
      /\ \A i \in Waiting(p) : Apart(p.curr_mask, Path(p, i))
      /\ \A i, j \in Waiting(p) : i # j => Apart(Path(p, i), Path(p, j))
      /\ p.state = "POP_WAIT" =>
             /\ Apart(p.curr_mask, p.stack.popped.mask)
             /\ \A i \in Waiting(p) : Apart(p.stack.popped.mask, Path(p, i))
  BY Zenon DEF PathsApart
<1> HIDE DEF q
<1>4. CASE /\ p.state = "RUN" /\ n < Depth /\ Diverging(p, in)
           /\ q.state = "RUN" /\ q.curr_mask = ThenMask(p, in)
           /\ q.stack.count = n + 1 /\ q.stack.mem = [p.stack.mem EXCEPT ![n] = entry]
  <2>1. Waiting(q) = Waiting(p) \cup {n} /\ n \in 0 .. Depth - 1 /\ n \notin Waiting(p)
    BY <1>1, <1>2, <1>4, PdomRtlAssumption DEF Waiting
  <2>2. Path(q, n) = ElseMask(p, in) /\ \A i \in Waiting(p) : Path(q, i) = Path(p, i)
    <3> DEFINE mem == p.stack.mem
    <3>1. q.stack.mem = [mem EXCEPT ![n] = entry]
      BY <1>4
    <3>2. \A i \in Waiting(p) : i \in 0 .. Depth - 1 /\ i # n
      BY <1>2, <2>1
    <3> HIDE DEF mem
    <3>3. q.stack.mem[n] = entry /\ \A i \in Waiting(p) : q.stack.mem[i] = mem[i]
      BY <1>1, <2>1, <3>1, <3>2 DEF mem
    <3>4. entry.mask = ElseMask(p, in)
      OBVIOUS
    <3> HIDE DEF entry
    <3> QED
      BY <3>3, <3>4, Zenon DEF Path, mem
  <2>3. /\ ThenMask(p, in) # {} /\ ElseMask(p, in) # {}
        /\ Apart(ThenMask(p, in), ElseMask(p, in))
        /\ ThenMask(p, in) \subseteq p.curr_mask /\ ElseMask(p, in) \subseteq p.curr_mask
    BY <1>4 DEF Diverging, ThenMask, ElseMask, Apart
  <2>4. \A i \in Waiting(p) : /\ Apart(ThenMask(p, in), Path(p, i))
                              /\ Apart(ElseMask(p, in), Path(p, i))
    BY <1>3, <2>3, ApartFacts, Zenon
  <2>5. \A i \in Waiting(q) : Apart(q.curr_mask, Path(q, i))
    BY <1>4, <2>1, <2>2, <2>3, <2>4
  <2>6. \A i, j \in Waiting(q) : i # j => Apart(Path(q, i), Path(q, j))
    <3> SUFFICES ASSUME NEW i \in Waiting(q), NEW j \in Waiting(q), i # j
                 PROVE  Apart(Path(q, i), Path(q, j))
      OBVIOUS
    <3>1. (i = n \/ i \in Waiting(p)) /\ (j = n \/ j \in Waiting(p))
      BY <2>1
    <3>2. CASE i = n
      BY <2>2, <2>4, <3>1, <3>2
    <3>3. CASE j = n
      BY <2>2, <2>4, <3>1, <3>3, ApartFacts
    <3>4. CASE i # n /\ j # n
      BY <1>3, <2>2, <3>1, <3>4
    <3> QED
      BY <3>2, <3>3, <3>4
  <2>7. q.curr_mask # {} /\ q.state # "POP_WAIT"
    BY <1>4, <2>3
  <2> QED
    BY <2>5, <2>6, <2>7, Zenon DEF PathsApart
<1>5. CASE /\ p.state = "RUN" /\ n > 0
           /\ q.state = "POP_WAIT" /\ q.curr_mask = p.curr_mask
           /\ q.stack.count = n - 1 /\ q.stack.mem = p.stack.mem
           /\ q.stack.popped = p.stack.mem[n - 1]
  <2>1. /\ n - 1 \in Waiting(p)
        /\ \A i \in Waiting(q) : i \in Waiting(p) /\ i # n - 1
    BY <1>1, <1>5, PdomRtlAssumption DEF Waiting
  <2>2. q.stack.popped.mask = Path(p, n - 1) /\ \A i : Path(q, i) = Path(p, i)
    BY <1>5, Zenon DEF Path
  <2> QED
    BY <1>3, <1>5, <2>1, <2>2, Zenon DEF PathsApart
<1>6. CASE q.state = "RUN" /\ q.stack = p.stack
  <2>1. Waiting(q) = Waiting(p) /\ \A i : Path(q, i) = Path(p, i)
    BY <1>6, Zenon DEF Waiting, Path
  <2>2. q.state # "POP_WAIT"
    BY <1>6
  <2>3. ASSUME q.curr_mask # {}, \A i \in Waiting(p) : Apart(q.curr_mask, Path(p, i))
        PROVE  PathsApart(q)
    <3>1. \A i \in Waiting(q) : i \in Waiting(p) /\ Path(q, i) = Path(p, i)
      BY <2>1
    <3>2. \A i \in Waiting(q) : Apart(q.curr_mask, Path(q, i))
      BY <2>3, <3>1
    <3>3. \A i, j \in Waiting(q) : i # j => Apart(Path(q, i), Path(q, j))
      BY <1>3, <3>1
    <3> QED
      BY <2>2, <2>3, <3>2, <3>3 DEF PathsApart
  <2>4. CASE p.state = "POP_WAIT" /\ q.curr_mask = p.stack.popped.mask
    BY <1>3, <2>3, <2>4, ApartFacts, Zenon
  <2>5. CASE q.curr_mask = p.curr_mask
    BY <1>3, <2>3, <2>5, Zenon
  <2>6. CASE n = 0 /\ q.curr_mask = Lane
    <3>1. Waiting(p) = {}
      BY <1>2, <2>6
    <3> QED
      BY <2>3, <2>6, <3>1, PdomRtlAssumption
  <2>7. CASE Diverging(p, in) /\ q.curr_mask = ThenMask(p, in)
    <3>1. ThenMask(p, in) # {} /\ ThenMask(p, in) \subseteq p.curr_mask
      BY <2>7 DEF Diverging, ThenMask
    <3> QED
      BY <1>3, <2>3, <2>7, <3>1, ApartFacts, Zenon
  <2> QED
    BY <1>6, <2>4, <2>5, <2>6, <2>7, PdomSteps DEF q
<1> QED
  BY <1>4, <1>5, <1>6, PdomSteps DEF q

LEMMA ResetKeepsPathsApart == PathsApart(PdomReset)
<1>1. PdomReset.stack.count = 0 /\ PdomReset.curr_mask = Lane /\ PdomReset.state = "RUN"
  BY DEF PdomReset, StackReset
<1>2. Waiting(PdomReset) = {}
  BY <1>1 DEF Waiting
<1> QED
  BY <1>1, <1>2, PdomRtlAssumption DEF PathsApart
=============================================================================
