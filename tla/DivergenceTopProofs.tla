------------------------ MODULE DivergenceTopProofs -------------------------
(***************************************************************************)
(* The whole top, for every number of warps and lanes, every stack depth   *)
(* and every width of the counters: the controllers do not disturb the     *)
(* front end, no issued instruction runs on a waiting lane, and every      *)
(* counted divergence is on a stack, over, or one that the controller did  *)
(* not follow.                                                             *)
(***************************************************************************)
EXTENDS DivergenceTop, MiniSMTopProofs, PdomEdgeProofs, FiniteSetTheorems

-----------------------------------------------------------------------------
(* The front end.                                                          *)
LEMMA StepOfFrontEnd == [DNext]_dvars => [Next]_topVars
<1> SUFFICES ASSUME [DNext]_dvars PROVE [Next]_topVars
  OBVIOUS
<1>1. CASE DDrive
  BY <1>1 DEF DDrive, Next
<1>2. CASE DClock
  BY <1>2 DEF DClock, Next
<1>3. CASE DReset
  BY <1>3 DEF DReset, Next
<1>4. CASE UNCHANGED dvars
  BY <1>4 DEF dvars
<1> QED
  BY <1>1, <1>2, <1>3, <1>4 DEF DNext

(* The controllers and their counters add no behaviour to the front end    *)
(* and take no guard from it: with them it is still the MiniSM of the C++  *)
(* model (mini_sm.h:13, mini_sm_top.sv:60-230).                            *)
THEOREM WholeTopImplementsCpp == DSpec => MatchesCpp
<1>1. DInit => Init
  BY DEF DInit
<1>2. DSpec => Spec
  BY <1>1, StepOfFrontEnd, PTL DEF DSpec, Spec
<1> QED
  BY <1>2, TopImplementsCpp, PTL

-----------------------------------------------------------------------------
(* Types.                                                                  *)
LEMMA MaskedCardinality ==
    ASSUME pdom \in [Warp -> PdomRegs], NEW warps \in SUBSET Warp
    PROVE  Cardinality(MaskedLanes(warps)) \in Nat
<1>1. MaskedLanes(warps) \subseteq Warp \X Lane
  BY DEF MaskedLanes
<1>2. IsFiniteSet(Warp)
  BY ConfigAssumption, FS_Interval DEF Warp
<1>3. IsFiniteSet(Warp \X Lane)
  BY <1>2, DivergenceAssumption, FS_Product
<1>4. IsFiniteSet(MaskedLanes(warps))
  BY <1>1, <1>3, FS_Subset
<1> QED
  BY <1>4, FS_CardinalityType

LEMMA Wraps == \A n \in Nat : n % EventMod \in Event
BY DivergenceAssumption DEF Event

LEMMA PortsType ==
    ASSUME NEW w \in Warp, NEW is_branch \in BOOLEAN, NEW cond \in SUBSET Lane,
           NEW done \in [Warp -> BOOLEAN]
    PROVE  Ports(w, is_branch, cond, done) \in PdomPorts
<1>1. branch_fire(w, is_branch) \in BOOLEAN
  BY DEF branch_fire
<1> QED
  BY <1>1, PdomRtlAssumption DEF Ports, PdomPorts

(* the warps whose divergence ends at this edge, or does not come about    *)
Over(is_branch, cond, done) ==
    {w \in Warp : \/ Popped(w) \/ Dropped(w)
                  \/ Ignored(w, Ports(w, is_branch, cond, done))}

LEMMA WarpsFinite == \A S \in SUBSET Warp : IsFiniteSet(S) /\ Cardinality(S) \in Nat
<1>1. IsFiniteSet(Warp)
  BY ConfigAssumption, FS_Interval DEF Warp
<1> QED
  BY <1>1, FS_Subset, FS_CardinalityType

(* The inputs of a clock edge.                                             *)
LEMMA DClockInputs ==
    ASSUME DClock
    PROVE  \E is_branch \in BOOLEAN, done \in [Warp -> BOOLEAN], cond \in SUBSET Lane :
               /\ is_branch => issue_valid
               /\ Separate(is_branch, done)
               /\ PdomsEdge(is_branch, cond, done)
               /\ EventsEdge(is_branch, cond)
               /\ ClosedEdge(is_branch, cond, done)
<1>1. PICK is_branch \in BOOLEAN, done \in [Warp -> BOOLEAN] :
          /\ is_branch => issue_valid
          /\ Separate(is_branch, done)
          /\ \E cond \in IF is_branch THEN SUBSET Lane ELSE {{}} :
                 /\ PdomsEdge(is_branch, cond, done)
                 /\ EventsEdge(is_branch, cond)
                 /\ ClosedEdge(is_branch, cond, done)
  BY DEF DClock
<1>2. PICK cond \in SUBSET Lane : /\ PdomsEdge(is_branch, cond, done)
                                  /\ EventsEdge(is_branch, cond)
                                  /\ ClosedEdge(is_branch, cond, done)
  <2>1. (IF is_branch THEN SUBSET Lane ELSE {{}}) \subseteq SUBSET Lane
    OBVIOUS
  <2> QED
    BY <1>1, <2>1
<1> QED
  BY <1>1, <1>2

(* Every controller stays within its registers and every counter within    *)
(* its width (mini_sm_top.sv:287-315), whoever branches and whenever a     *)
(* path ends.                                                              *)
THEOREM DivergenceTypeCorrect == DSpec => []DTypeOK
<1>1. 0 \in Event
  BY DivergenceAssumption DEF Event
<1>2. DInit => Init
  BY DEF DInit
<1>3. DSpec => []TypeOK
  BY <1>2, StepOfFrontEnd, TopTypeCorrect, PTL DEF DSpec, Spec
<1> DEFINE Ours == /\ pdom \in [Warp -> PdomRegs]
                   /\ total_diverge_events \in Event
                   /\ masked_thread_cycles \in Event
                   /\ closed \in Event
<1>4. DInit => Ours
  BY <1>1, PdomResetType DEF DInit
<1>5. Ours /\ [DNext]_dvars => Ours'
  <2> SUFFICES ASSUME Ours, [DNext]_dvars PROVE Ours'
    OBVIOUS
  <2>1. CASE DDrive
    BY <2>1 DEF DDrive, dregs
  <2>2. CASE DClock
    <3>1. PICK is_branch \in BOOLEAN, done \in [Warp -> BOOLEAN], cond \in SUBSET Lane :
              /\ PdomsEdge(is_branch, cond, done)
              /\ EventsEdge(is_branch, cond)
              /\ ClosedEdge(is_branch, cond, done)
      BY <2>2, DClockInputs
    <3>2. pdom' \in [Warp -> PdomRegs]
      BY <3>1, PortsType, PdomEdgeType DEF PdomsEdge
    <3>3. total_diverge_events' \in Event
      <4>1. total_diverge_events + (IF CountsEvent(is_branch, cond) THEN 1 ELSE 0) \in Nat
        BY DivergenceAssumption DEF Event
      <4> QED
        BY <3>1, <4>1, Wraps DEF EventsEdge
    <3>4. closed' \in Event
      <4>1. Over(is_branch, cond, done) \in SUBSET Warp
        BY DEF Over
      <4>2. Cardinality(Over(is_branch, cond, done)) \in Nat
        BY <4>1, WarpsFinite
      <4>3. closed' = (closed + Cardinality(Over(is_branch, cond, done))) % EventMod
        BY <3>1, Zenon DEF ClosedEdge, Over
      <4>4. closed + Cardinality(Over(is_branch, cond, done)) \in Nat
        BY <4>2, DivergenceAssumption DEF Event
      <4> QED
        BY <4>3, <4>4, Wraps
    <3>5. masked_thread_cycles' \in Event
      <4>1. MaskedThisCycle \in Nat
        BY MaskedCardinality DEF MaskedThisCycle
      <4>2. masked_thread_cycles + MaskedThisCycle \in Nat
        BY <4>1, DivergenceAssumption DEF Event
      <4> QED
        BY <2>2, <4>2, Wraps DEF DClock, MaskedEdge
    <3> QED
      BY <3>2, <3>3, <3>4, <3>5
  <2>3. CASE DReset
    BY <1>1, <2>3, PdomResetType DEF DReset
  <2>4. CASE UNCHANGED dvars
    BY <2>4 DEF dvars, dregs
  <2> QED
    BY <2>1, <2>2, <2>3, <2>4 DEF DNext
<1>6. TypeOK /\ Ours <=> DTypeOK
  BY DEF DTypeOK
<1> QED
  BY <1>3, <1>4, <1>5, <1>6, PTL DEF DSpec

-----------------------------------------------------------------------------
(* Paths.  IssueKeepsPathsApart looks at the issuing warp only; what every *)
(* edge preserves is that the paths of every controller are apart.         *)
AllPathsApart == \A w \in Warp : PathsApart(pdom[w])

LEMMA EdgeKeepsAllApart ==
    ASSUME DTypeOK, AllPathsApart, DClock
    PROVE  AllPathsApart'
<1>1. PICK is_branch \in BOOLEAN, done \in [Warp -> BOOLEAN], cond \in SUBSET Lane :
          Separate(is_branch, done) /\ PdomsEdge(is_branch, cond, done)
  BY DClockInputs
<1> SUFFICES ASSUME NEW w \in Warp PROVE PathsApart(pdom'[w])
  BY DEF AllPathsApart, PathsApart, Waiting, Path
<1> DEFINE in == Ports(w, is_branch, cond, done)
<1>2. pdom[w] \in PdomRegs /\ in \in PdomPorts
  BY PortsType DEF DTypeOK
<1>3. ~(in.branch_fire /\ in.path_done)
  BY <1>1 DEF Separate, Ports
<1>4. PathsApart(pdom[w])
  BY DEF AllPathsApart
<1>5. pdom'[w] = PdomEdge(pdom[w], in)
  BY <1>1 DEF PdomsEdge
<1> HIDE DEF in
<1>6. PathsApart(PdomEdge(pdom[w], in))
  BY <1>2, <1>3, <1>4, EdgeKeepsPathsApart
<1> QED
  BY <1>5, <1>6

LEMMA ApartSuffices == DTypeOK /\ AllPathsApart => IssueKeepsPathsApart
<1> SUFFICES ASSUME DTypeOK, AllPathsApart, issue_valid
             PROVE  /\ alu_lane_mask # {}
                    /\ alu_lane_mask \cap WaitingLanes(issue_warp_id) = {}
  BY DEF IssueKeepsPathsApart
<1>1. PICK w \in Warp : w = issue_warp_id
  BY IssueType DEF DTypeOK
<1>2. PathsApart(pdom[w])
  BY DEF AllPathsApart
<1>3. /\ pdom[w].curr_mask # {}
      /\ \A i \in 0 .. pdom[w].stack.count - 1 :
             pdom[w].curr_mask \cap pdom[w].stack.mem[i].mask = {}
      /\ pdom[w].state = "POP_WAIT" => pdom[w].curr_mask \cap pdom[w].stack.popped.mask = {}
  BY <1>2 DEF PathsApart, Apart, Waiting, Path
<1>4. pdom[w].curr_mask \cap WaitingLanes(w) = {}
  BY <1>3 DEF WaitingLanes
<1>5. alu_lane_mask = pdom[w].curr_mask
  BY <1>1 DEF alu_lane_mask, warp_active_mask
<1> QED
  BY <1>1, <1>3, <1>4, <1>5

LEMMA PathsStayApart == DSpec => []AllPathsApart
<1>1. DInit => AllPathsApart
  BY ResetKeepsPathsApart DEF DInit, AllPathsApart
<1>2. DTypeOK /\ AllPathsApart /\ [DNext]_dvars => AllPathsApart'
  <2> SUFFICES ASSUME DTypeOK, AllPathsApart, [DNext]_dvars PROVE AllPathsApart'
    OBVIOUS
  <2>1. CASE DClock
    BY <2>1, EdgeKeepsAllApart
  <2>2. CASE DReset
    <3>1. \A w \in Warp : pdom'[w] = PdomReset
      BY <2>2 DEF DReset
    <3>2. \A w \in Warp : PathsApart(pdom'[w])
      BY <3>1, ResetKeepsPathsApart
    <3> QED
      BY <3>2 DEF AllPathsApart, PathsApart, Waiting, Path
  <2>3. CASE DDrive \/ UNCHANGED dvars
    <3>1. pdom' = pdom
      BY <2>3 DEF DDrive, dvars, dregs
    <3> QED
      BY <3>1 DEF AllPathsApart, PathsApart, Waiting, Path
  <2> QED
    BY <2>1, <2>2, <2>3 DEF DNext
<1> QED
  BY <1>1, <1>2, DivergenceTypeCorrect, PTL DEF DSpec

(* In every cycle in which the scheduler issues, that of a POP_WAIT        *)
(* included, the instruction has a lane and no lane of it waits on the     *)
(* stack of its warp or in the popped register (mini_sm_top.sv:230,        *)
(* pdom_ctrl.sv:149).                                                      *)
THEOREM IssuedLanesDoNotWait == DSpec => []IssueKeepsPathsApart
BY PathsStayApart, ApartSuffices, DivergenceTypeCorrect, PTL

-----------------------------------------------------------------------------
(* Counting.  Rows(c) has a pair for every entry of stacks with c[w]       *)
(* entries; PushesAndPops says how many it has after some of them push and *)
(* some of them pop.                                                       *)
Rows(c) == UNION {{w} \X (0 .. c[w] - 1) : w \in Warp}

LEMMA RowIs ==
    ASSUME NEW c, NEW x
    PROVE  x \in Rows(c) <=> \E w \in Warp : \E i \in 0 .. c[w] - 1 : x = <<w, i>>
BY DEF Rows

LEMMA RowsFinite ==
    ASSUME NEW c \in [Warp -> 0 .. Depth]
    PROVE  IsFiniteSet(Rows(c)) /\ Cardinality(Rows(c)) \in Nat
<1>1. \A w \in Warp : 0 .. c[w] - 1 \subseteq 0 .. Depth
  BY PdomRtlAssumption
<1>2. Rows(c) \subseteq Warp \X (0 .. Depth)
  BY <1>1, RowIs
<1>3. IsFiniteSet(Warp) /\ IsFiniteSet(0 .. Depth)
  BY ConfigAssumption, PdomRtlAssumption, FS_Interval DEF Warp
<1>4. IsFiniteSet(Warp \X (0 .. Depth))
  BY <1>3, FS_Product
<1> QED
  BY <1>2, <1>4, FS_Subset, FS_CardinalityType

(* one row of each of some warps                                           *)
OneEach(S, c) == {<<w, c[w]>> : w \in S}

LEMMA OneEachCardinality ==
    ASSUME NEW S \in SUBSET Warp, NEW c
    PROVE  IsFiniteSet(OneEach(S, c)) /\ Cardinality(OneEach(S, c)) = Cardinality(S)
<1> DEFINE f == [w \in S |-> <<w, c[w]>>]
<1>1. f \in [S -> OneEach(S, c)]
  BY DEF OneEach
<1>2. \A v, w \in S : f[v] = f[w] => v = w
  OBVIOUS
<1>3. \A x \in OneEach(S, c) : \E w \in S : f[w] = x
  BY DEF OneEach
<1>4. ExistsBijection(S, OneEach(S, c))
  BY <1>1, <1>2, <1>3 DEF ExistsBijection, Bijection, Injection, Surjection, IsInjective
<1> QED
  BY <1>4, WarpsFinite, FS_Bijection

LEMMA DisjointUnion ==
    ASSUME NEW S, NEW T, IsFiniteSet(S), IsFiniteSet(T), S \cap T = {}
    PROVE  Cardinality(S \cup T) = Cardinality(S) + Cardinality(T)
<1>1. Cardinality(S) \in Nat /\ Cardinality(T) \in Nat
  BY FS_CardinalityType
<1>2. Cardinality(S \cup T) = Cardinality(S) + Cardinality(T) - Cardinality(S \cap T)
  BY FS_Union
<1>3. Cardinality(S \cap T) = 0
  BY FS_EmptySet
<1> QED
  BY <1>1, <1>2, <1>3

LEMMA PushesAndPops ==
    ASSUME NEW c \in [Warp -> 0 .. Depth], NEW d \in [Warp -> 0 .. Depth],
           NEW pushes \in SUBSET Warp, NEW pops \in SUBSET Warp,
           \A w \in Warp : \/ w \in pushes /\ w \notin pops /\ d[w] = c[w] + 1
                           \/ w \in pops /\ w \notin pushes /\ c[w] = d[w] + 1
                           \/ w \notin pushes /\ w \notin pops /\ d[w] = c[w]
    PROVE  Cardinality(Rows(d)) + Cardinality(pops)
               = Cardinality(Rows(c)) + Cardinality(pushes)
<1> DEFINE new == OneEach(pushes, c)
           old == OneEach(pops, d)
<1>1. \A w \in Warp : c[w] \in Nat /\ d[w] \in Nat
  BY PdomRtlAssumption
<1>2. ASSUME NEW w \in Warp, NEW i
      PROVE  /\ <<w, i>> \in Rows(c) <=> i \in 0 .. c[w] - 1
             /\ <<w, i>> \in Rows(d) <=> i \in 0 .. d[w] - 1
             /\ <<w, i>> \in new <=> w \in pushes /\ i = c[w]
             /\ <<w, i>> \in old <=> w \in pops /\ i = d[w]
  BY RowIs DEF OneEach
<1>3. \A x \in Rows(c) \cup Rows(d) \cup new \cup old : \E w \in Warp : \E i : x = <<w, i>>
  BY RowIs DEF OneEach
<1> HIDE DEF new, old
<1>4. ASSUME NEW w \in Warp, NEW i
      PROVE  /\ <<w, i>> \in Rows(c) \cup new <=> <<w, i>> \in Rows(d) \cup old
             /\ <<w, i>> \notin Rows(c) \cap new
             /\ <<w, i>> \notin Rows(d) \cap old
  BY <1>1, <1>2
<1>5. Rows(c) \cup new = Rows(d) \cup old
  BY <1>3, <1>4
<1>6. Rows(c) \cap new = {} /\ Rows(d) \cap old = {}
  BY <1>3, <1>4
<1>7. /\ IsFiniteSet(new) /\ Cardinality(new) = Cardinality(pushes)
      /\ IsFiniteSet(old) /\ Cardinality(old) = Cardinality(pops)
  BY OneEachCardinality DEF new, old
<1>8. /\ Cardinality(Rows(c) \cup new) = Cardinality(Rows(c)) + Cardinality(new)
      /\ Cardinality(Rows(d) \cup old) = Cardinality(Rows(d)) + Cardinality(old)
  BY <1>6, <1>7, RowsFinite, DisjointUnion
<1> QED
  BY <1>5, <1>7, <1>8

-----------------------------------------------------------------------------
(* Counters that wrap.                                                     *)
LEMMA EventModUnique ==
    ASSUME NEW r \in Event, NEW q \in Int
    PROVE  (r + q * EventMod) % EventMod = r
BY DivergenceAssumption DEF Event

LEMMA Quotient ==
    ASSUME NEW x \in Nat
    PROVE  \E q \in Int : x = (x % EventMod) + q * EventMod
<1> DEFINE T == {n \in Nat : \E q \in Int : x = n + q * EventMod}
<1>1. x \in T
  <2>1. 0 \in Int /\ x = x + 0 * EventMod
    BY DivergenceAssumption
  <2> QED
    BY <2>1
<1>2. T \in SUBSET Nat /\ T # {}
  BY <1>1
<1>3. PICK r \in T : \A m \in T : ~(m < r)
  <2> HIDE DEF T
  <2> QED
    BY <1>2, LeastElement
<1>4. PICK q \in Int : x = r + q * EventMod
  OBVIOUS
<1>5. r \in Event
  <2> SUFFICES ASSUME r \notin Event PROVE FALSE
    OBVIOUS
  <2>1. r \in Nat /\ r - EventMod \in Nat /\ r - EventMod < r
    BY DivergenceAssumption DEF Event
  <2>2. x = (r - EventMod) + (q + 1) * EventMod
    <3>1. (q + 1) * EventMod = q * EventMod + EventMod /\ q * EventMod \in Int
      BY DivergenceAssumption
    <3> DEFINE Q == q * EventMod
               Q1 == (q + 1) * EventMod
    <3> HIDE DEF Q, Q1
    <3>2. x = r + Q /\ Q1 = Q + EventMod /\ Q \in Int
      BY <1>4, <3>1, Zenon DEF Q, Q1
    <3>3. x = (r - EventMod) + Q1
      BY <2>1, <3>2, DivergenceAssumption
    <3> QED
      BY <3>3, Zenon DEF Q1
  <2>3. q + 1 \in Int
    OBVIOUS
  <2>4. r - EventMod \in T
    BY <2>1, <2>2, <2>3
  <2> QED
    BY <1>3, <2>1, <2>4, Zenon
<1>6. x % EventMod = r
  BY <1>4, <1>5, EventModUnique
<1> QED
  BY <1>4, <1>6

(* Both counters move on: the sides of the equation stay equal up to a     *)
(* multiple of the modulus.                                                *)
LEMMA CountersMove ==
    ASSUME NEW a \in Event, NEW b \in Event, NEW x \in Nat, NEW y \in Nat,
           NEW n \in Nat, NEW m \in Nat, NEW k \in Int,
           a + n = b + k * EventMod, m + x = n + y
    PROVE  \E q \in Int : ((a + x) % EventMod) + m = ((b + y) % EventMod) + q * EventMod
<1>1. a \in Nat /\ b \in Nat /\ EventMod \in Int
  BY DivergenceAssumption DEF Event
<1> a + x \in Nat /\ b + y \in Nat
  BY <1>1
<1>2. PICK i \in Int : a + x = ((a + x) % EventMod) + i * EventMod
  BY Quotient, Zenon
<1>3. PICK j \in Int : b + y = ((b + y) % EventMod) + j * EventMod
  BY Quotient, Zenon
<1>4. (k + j - i) * EventMod = k * EventMod + j * EventMod - i * EventMod
  BY <1>1
<1> DEFINE A == (a + x) % EventMod
           B == (b + y) % EventMod
           K == k * EventMod
           I == i * EventMod
           J == j * EventMod
           Q == (k + j - i) * EventMod
<1>5. A \in Int /\ B \in Int /\ K \in Int /\ I \in Int /\ J \in Int /\ Q \in Int
  BY <1>1, DivergenceAssumption
<1> HIDE DEF A, B, K, I, J, Q
<1>6. a + n = b + K /\ a + x = A + I /\ b + y = B + J /\ Q = K + J - I
  BY <1>2, <1>3, <1>4, Zenon DEF A, B, K, I, J, Q
<1>7. A + m = B + Q
  BY <1>1, <1>5, <1>6
<1>8. k + j - i \in Int
  OBVIOUS
<1> QED
  BY <1>7, <1>8, Zenon DEF A, B, Q

-----------------------------------------------------------------------------
(* What a clock edge does with the divergences of warp w: the event that   *)
(* is counted for it is pushed or lost at once, an entry may be popped, or *)
(* nothing happens.  In POP_WAIT the popped lanes are not those of THEN,   *)
(* because the paths are apart, so a counted branch shows as not followed. *)
Lost(w, is_branch, cond, done) ==
    Dropped(w) \/ Ignored(w, Ports(w, is_branch, cond, done))

LEMMA EventSteps ==
    ASSUME DTypeOK, AllPathsApart, NEW is_branch \in BOOLEAN, NEW done \in [Warp -> BOOLEAN],
           NEW cond \in SUBSET Lane, NEW w \in Warp,
           Separate(is_branch, done), PdomsEdge(is_branch, cond, done)
    PROVE  LET n == pdom[w].stack.count
               m == pdom'[w].stack.count
               counts == CountsEvent(is_branch, cond) /\ issue_warp_id = w
               lost == Lost(w, is_branch, cond, done)
           IN  \/ counts /\ ~lost /\ ~Popped(w) /\ m = n + 1
               \/ counts /\ lost /\ ~Popped(w) /\ m = n
               \/ ~counts /\ ~lost /\ Popped(w) /\ n = m + 1
               \/ ~counts /\ ~lost /\ ~Popped(w) /\ m = n
<1> DEFINE in == Ports(w, is_branch, cond, done)
           p == pdom[w]
           q == PdomEdge(p, in)
           n == p.stack.count
           counts == CountsEvent(is_branch, cond) /\ issue_warp_id = w
           lost == Lost(w, is_branch, cond, done)
<1>1. p \in PdomRegs /\ in \in PdomPorts
  BY PortsType DEF DTypeOK
<1>2. ~(in.branch_fire /\ in.path_done)
  BY DEF Separate, Ports
<1>3. pdom'[w] = q
  BY DEF PdomsEdge
<1>4. Diverging(p, in) <=> counts
  BY DEF Diverging, Ports, ThenMask, ElseMask, CountsEvent, branch_fire, alu_lane_mask, warp_active_mask
<1>5. n \in 0 .. Depth /\ n \in Nat /\ p.curr_mask \subseteq Lane
  BY <1>1, PdomRtlAssumption DEF PdomRegs, StackRegs
<1>6. Ignored(w, in) <=> /\ counts
                         /\ q.curr_mask # ThenMask(p, in)
  <2>1. Diverging(p, in) <=> /\ in.branch_fire
                             /\ ThenMask(p, in) # {} /\ ElseMask(p, in) # {}
    BY Zenon DEF Diverging
  <2> HIDE DEF in, counts
  <2> QED
    BY <1>3, <1>4, <2>1, Zenon DEF Ignored
<1>7. /\ Popped(w) <=> q.stack.count < n
      /\ Dropped(w) <=> /\ p.state = "RUN"
                        /\ q.stack.count = n
                        /\ p.curr_mask \ q.curr_mask # {}
  BY <1>3, Zenon DEF Popped, Dropped
<1>8. \/ /\ p.state = "RUN" /\ n < Depth /\ Diverging(p, in)
         /\ q.stack.count = n + 1 /\ q.curr_mask = ThenMask(p, in)
      \/ /\ p.state = "RUN" /\ n > 0 /\ ~Diverging(p, in)
         /\ q.stack.count = n - 1
      \/ /\ q.stack = p.stack
         /\ \/ p.state = "POP_WAIT" /\ q.curr_mask = p.stack.popped.mask
            \/ /\ p.state = "RUN" /\ ~Diverging(p, in)
               /\ q.curr_mask = p.curr_mask \/ (n = 0 /\ q.curr_mask = Lane)
            \/ /\ p.state = "RUN" /\ n = Depth /\ Diverging(p, in)
               /\ q.curr_mask = ThenMask(p, in)
  <2> HIDE DEF in
  <2> QED
    BY <1>1, <1>2, PdomSteps
<1>9. Diverging(p, in) /\ q.curr_mask = ThenMask(p, in) => p.curr_mask \ q.curr_mask # {}
  BY DEF Diverging, ThenMask, ElseMask
<1>10. p.state = "POP_WAIT" => p.stack.popped.mask # ThenMask(p, in)
  <2>1. PathsApart(p)
    BY DEF AllPathsApart
  <2>2. p.state = "POP_WAIT" => /\ p.curr_mask \cap p.stack.popped.mask = {}
                                /\ p.stack.popped.mask # {}
    BY <2>1, Zenon DEF PathsApart, Apart
  <2> QED
    BY <2>2 DEF ThenMask
<1> SUFFICES \/ counts /\ ~lost /\ ~Popped(w) /\ q.stack.count = n + 1
             \/ counts /\ lost /\ ~Popped(w) /\ q.stack.count = n
             \/ ~counts /\ ~lost /\ Popped(w) /\ n = q.stack.count + 1
             \/ ~counts /\ ~lost /\ ~Popped(w) /\ q.stack.count = n
  BY <1>3
<1>11. lost <=> Dropped(w) \/ Ignored(w, in)
  BY Zenon DEF Lost
<1> HIDE DEF in, q, counts, lost
<1> QED
  BY <1>4, <1>5, <1>6, <1>7, <1>8, <1>9, <1>10, <1>11

(* The entries on the stacks of all warps.                                 *)
Waits == UNION {{w} \X (0 .. pdom[w].stack.count - 1) : w \in Warp}

Counts == [w \in Warp |-> pdom[w].stack.count]

LEMMA WaitsAreRows ==
    ASSUME NEW r \in [Warp -> PdomRegs], NEW c, c = [w \in Warp |-> r[w].stack.count]
    PROVE  /\ UNION {{w} \X (0 .. r[w].stack.count - 1) : w \in Warp} = Rows(c)
           /\ c \in [Warp -> 0 .. Depth]
<1>1. \A w \in Warp : c[w] = r[w].stack.count
  OBVIOUS
<1>2. UNION {{w} \X (0 .. r[w].stack.count - 1) : w \in Warp} = Rows(c)
  BY <1>1 DEF Rows
<1> QED
  BY <1>2 DEF PdomRegs, StackRegs

(* Over one clock edge the entries and the divergences that are over       *)
(* account together for the event that is counted, if one is.              *)
LEMMA EdgeAccounts ==
    ASSUME DTypeOK, DTypeOK', AllPathsApart, NEW is_branch \in BOOLEAN, NEW done \in [Warp -> BOOLEAN],
           NEW cond \in SUBSET Lane,
           Separate(is_branch, done), PdomsEdge(is_branch, cond, done)
    PROVE  Cardinality(Waits') + Cardinality(Over(is_branch, cond, done))
               = Cardinality(Waits) + (IF CountsEvent(is_branch, cond) THEN 1 ELSE 0)
<1> DEFINE c == Counts
           d == Counts'
           event == CountsEvent(is_branch, cond)
           pushes == {w \in Warp : d[w] = c[w] + 1}
           pops == {w \in Warp : Popped(w)}
           losses == {w \in Warp : Lost(w, is_branch, cond, done)}
<1>1. /\ Waits = Rows(c) /\ c \in [Warp -> 0 .. Depth]
      /\ Waits' = Rows(d) /\ d \in [Warp -> 0 .. Depth]
  <2>1. pdom \in [Warp -> PdomRegs] /\ pdom' \in [Warp -> PdomRegs]
    BY DEF DTypeOK
  <2>2. c = [w \in Warp |-> pdom[w].stack.count] /\ d = [w \in Warp |-> pdom'[w].stack.count]
    BY DEF Counts
  <2> HIDE DEF c, d
  <2>3. Waits = Rows(c) /\ c \in [Warp -> 0 .. Depth]
    BY <2>1, <2>2, WaitsAreRows, Zenon DEF Waits
  <2>4. Waits' = Rows(d) /\ d \in [Warp -> 0 .. Depth]
    BY <2>1, <2>2, WaitsAreRows, Zenon DEF Waits
  <2> QED
    BY <2>3, <2>4
<1>2. \A w \in Warp :
          \/ event /\ issue_warp_id = w /\ w \notin losses /\ w \notin pops /\ d[w] = c[w] + 1
          \/ event /\ issue_warp_id = w /\ w \in losses /\ w \notin pops /\ d[w] = c[w]
          \/ ~(event /\ issue_warp_id = w) /\ w \notin losses /\ w \in pops /\ c[w] = d[w] + 1
          \/ ~(event /\ issue_warp_id = w) /\ w \notin losses /\ w \notin pops /\ d[w] = c[w]
  <2> SUFFICES ASSUME NEW w \in Warp
               PROVE  \/ event /\ issue_warp_id = w /\ w \notin losses /\ w \notin pops /\ d[w] = c[w] + 1
                      \/ event /\ issue_warp_id = w /\ w \in losses /\ w \notin pops /\ d[w] = c[w]
                      \/ ~(event /\ issue_warp_id = w) /\ w \notin losses /\ w \in pops /\ c[w] = d[w] + 1
                      \/ ~(event /\ issue_warp_id = w) /\ w \notin losses /\ w \notin pops /\ d[w] = c[w]
    OBVIOUS
  <2>1. c[w] = pdom[w].stack.count /\ d[w] = pdom'[w].stack.count
    BY DEF Counts
  <2>2. (w \in losses <=> Lost(w, is_branch, cond, done)) /\ (w \in pops <=> Popped(w))
    BY Zenon
  <2> HIDE DEF c, d, losses, pops
  <2> QED
    BY <2>1, <2>2, EventSteps, Zenon
<1>3. issue_warp_id \in Warp
  BY IssueType DEF DTypeOK
<1>4. \A w \in Warp : c[w] \in Nat /\ d[w] \in Nat
  BY <1>1, PdomRtlAssumption
<1>5. PICK u \in Warp : u = issue_warp_id
  BY <1>3
<1> HIDE DEF c, d, event, pops, losses
<1>6. \A w \in Warp : \/ w \in pushes /\ w \notin pops /\ d[w] = c[w] + 1
                      \/ w \in pops /\ w \notin pushes /\ c[w] = d[w] + 1
                      \/ w \notin pushes /\ w \notin pops /\ d[w] = c[w]
  BY <1>2, <1>4
<1>7. /\ \A w \in Warp : ~(w \in pops /\ w \in losses) /\ ~(w \in pushes /\ w \in losses)
      /\ \A w \in Warp : w \in pushes \/ w \in losses <=> event /\ w = u
  BY <1>2, <1>4, <1>5
<1>8. pushes \subseteq Warp /\ pops \subseteq Warp /\ losses \subseteq Warp
  BY DEF pops, losses
<1> HIDE DEF pushes
<1>9. Cardinality(Rows(d)) + Cardinality(pops) = Cardinality(Rows(c)) + Cardinality(pushes)
  BY <1>1, <1>6, <1>8, PushesAndPops
<1>10. Over(is_branch, cond, done) = pops \cup losses /\ pops \cap losses = {}
  <2>1. Over(is_branch, cond, done) = pops \cup losses
    BY DEF Over, pops, losses, Lost
  <2> QED
    BY <1>7, <1>8, <2>1
<1>11. Cardinality(Over(is_branch, cond, done)) = Cardinality(pops) + Cardinality(losses)
  BY <1>8, <1>10, WarpsFinite, DisjointUnion
<1>12. Cardinality(pushes) + Cardinality(losses) = IF event THEN 1 ELSE 0
  <2>1. pushes \cup losses = (IF event THEN {u} ELSE {}) /\ pushes \cap losses = {}
    BY <1>7, <1>8
  <2>2. Cardinality(pushes \cup losses) = Cardinality(pushes) + Cardinality(losses)
    BY <1>8, <2>1, WarpsFinite, DisjointUnion
  <2>3. Cardinality({u}) = 1 /\ Cardinality({}) = 0
    BY FS_Singleton, FS_EmptySet
  <2> QED
    BY <2>1, <2>2, <2>3
<1>13. /\ Cardinality(pushes) \in Nat /\ Cardinality(pops) \in Nat /\ Cardinality(losses) \in Nat
       /\ Cardinality(Rows(c)) \in Nat /\ Cardinality(Rows(d)) \in Nat
  BY <1>1, <1>8, WarpsFinite, RowsFinite
<1>14. Cardinality(Rows(d)) + Cardinality(Over(is_branch, cond, done))
           = Cardinality(Rows(c)) + (IF event THEN 1 ELSE 0)
  BY <1>9, <1>11, <1>12, <1>13
<1> QED
  BY <1>1, <1>14, Zenon DEF event

-----------------------------------------------------------------------------
(* EventsAccounted speaks of the counters modulo their width.  That is not *)
(* enough to argue with, so the invariant names the multiple.              *)
EventsPending ==
    \E rounds \in Int : closed + Cardinality(Waits) = total_diverge_events + rounds * EventMod
LEMMA WaitsFinite ==
    ASSUME NEW r \in [Warp -> PdomRegs]
    PROVE  Cardinality(UNION {{w} \X (0 .. r[w].stack.count - 1) : w \in Warp}) \in Nat
<1> DEFINE c == [w \in Warp |-> r[w].stack.count]
<1> HIDE DEF c
<1>1. /\ UNION {{w} \X (0 .. r[w].stack.count - 1) : w \in Warp} = Rows(c)
      /\ c \in [Warp -> 0 .. Depth]
  BY WaitsAreRows, Zenon DEF c
<1> QED
  BY <1>1, RowsFinite

LEMMA PendingSuffices == DTypeOK /\ EventsPending => EventsAccounted
<1> SUFFICES ASSUME DTypeOK, EventsPending PROVE EventsAccounted
  OBVIOUS
<1>1. PICK rounds \in Int :
          closed + Cardinality(Waits) = total_diverge_events + rounds * EventMod
  BY DEF EventsPending
<1>2. (total_diverge_events + rounds * EventMod) % EventMod = total_diverge_events
  BY EventModUnique DEF DTypeOK
<1> QED
  BY <1>1, <1>2, Zenon DEF EventsAccounted, Waits

LEMMA EdgeKeepsPending ==
    ASSUME DTypeOK, DTypeOK', AllPathsApart, EventsPending, DClock
    PROVE  EventsPending'
<1>1. PICK is_branch \in BOOLEAN, done \in [Warp -> BOOLEAN], cond \in SUBSET Lane :
          /\ Separate(is_branch, done)
          /\ PdomsEdge(is_branch, cond, done)
          /\ EventsEdge(is_branch, cond)
          /\ ClosedEdge(is_branch, cond, done)
  BY DClockInputs
<1>2. PICK rounds \in Int :
          closed + Cardinality(Waits) = total_diverge_events + rounds * EventMod
  BY DEF EventsPending
<1> DEFINE x == Cardinality(Over(is_branch, cond, done))
           y == IF CountsEvent(is_branch, cond) THEN 1 ELSE 0
           n == Cardinality(Waits)
           m == Cardinality(Waits')
<1>3. closed' = (closed + x) % EventMod
  BY <1>1, Zenon DEF ClosedEdge, Over, Lost
<1>4. total_diverge_events' = (total_diverge_events + y) % EventMod
  BY <1>1 DEF EventsEdge
<1>5. m + x = n + y
  BY <1>1, EdgeAccounts
<1>6. /\ closed \in Event /\ total_diverge_events \in Event
      /\ x \in Nat /\ y \in Nat /\ n \in Nat /\ m \in Nat
  <2>1. n \in Nat /\ m \in Nat
    BY WaitsFinite, Zenon DEF DTypeOK, Waits
  <2>2. x \in Nat
    BY WarpsFinite DEF Over
  <2> QED
    BY <2>1, <2>2 DEF DTypeOK
<1> HIDE DEF x, y, n
<1>7. closed + n = total_diverge_events + rounds * EventMod
  BY <1>2 DEF n
<1>8. \E q \in Int : closed' + m = total_diverge_events' + q * EventMod
  <2> HIDE DEF m
  <2>1. \E q \in Int : ((closed + x) % EventMod) + m
                           = ((total_diverge_events + y) % EventMod) + q * EventMod
    BY <1>5, <1>6, <1>7, <1>2, CountersMove
  <2> QED
    BY <1>3, <1>4, <2>1, Zenon
<1> QED
  BY <1>8, Zenon DEF EventsPending

(* Every event that the top has counted is an entry on the stack of some   *)
(* warp, a divergence that is over, or a branch that its controller did    *)
(* not follow, and each once, however many warps diverge, pop and overflow *)
(* in the same cycle and however often the counter wraps                   *)
(* (mini_sm_top.sv:299-313, pdom_ctrl.sv:104-116).                         *)
THEOREM CountedEventsAccounted == DSpec => []EventsAccounted
<1>1. ASSUME \A w \in Warp : pdom[w] = PdomReset PROVE Waits = {}
  BY <1>1 DEF Waits, PdomReset, StackReset
<1>2. DInit => EventsPending
  <2> SUFFICES ASSUME DInit PROVE EventsPending
    OBVIOUS
  <2>1. closed = 0 /\ total_diverge_events = 0 /\ Cardinality(Waits) = 0
    BY <1>1, FS_EmptySet DEF DInit
  <2>2. 0 + 0 = 0 + 0 * EventMod /\ 0 \in Int
    BY DivergenceAssumption
  <2> QED
    BY <2>1, <2>2, Zenon DEF EventsPending
<1>3. DTypeOK /\ DTypeOK' /\ AllPathsApart /\ EventsPending /\ [DNext]_dvars => EventsPending'
  <2> SUFFICES ASSUME DTypeOK, DTypeOK', AllPathsApart, EventsPending, [DNext]_dvars
               PROVE  EventsPending'
    OBVIOUS
  <2>1. CASE DClock
    BY <2>1, EdgeKeepsPending
  <2>2. CASE DReset
    <3>1. closed' = 0 /\ total_diverge_events' = 0 /\ Waits' = {}
      BY <2>2 DEF DReset, Waits, PdomReset, StackReset
    <3>2. 0 + 0 = 0 + 0 * EventMod /\ 0 \in Int /\ Cardinality({}) = 0
      BY DivergenceAssumption, FS_EmptySet
    <3> QED
      BY <3>1, <3>2, Zenon DEF EventsPending
  <2>3. CASE DDrive \/ UNCHANGED dvars
    <3>1. UNCHANGED <<pdom, closed, total_diverge_events>>
      BY <2>3 DEF DDrive, dvars, dregs
    <3>2. Waits' = Waits
      BY <3>1 DEF Waits
    <3> QED
      BY <3>1, <3>2, Zenon DEF EventsPending
  <2> QED
    BY <2>1, <2>2, <2>3 DEF DNext
<1> QED
  BY <1>2, <1>3, PendingSuffices, PathsStayApart, DivergenceTypeCorrect, PTL DEF DSpec
-----------------------------------------------------------------------------
(* One controller, of any warp, among the others and behind the scheduler. *)
CONSTANT chosen

Ctrl == INSTANCE PdomRtlProofs WITH pdom <- pdom[chosen]

LEMMA ChosenControllerSteps ==
    ASSUME chosen \in Warp, [DNext]_dvars
    PROVE  [Ctrl!NextSeparate]_(pdom[chosen])
<1>1. CASE DClock
  <2>1. PICK is_branch \in BOOLEAN, done \in [Warp -> BOOLEAN], cond \in SUBSET Lane :
            Separate(is_branch, done) /\ PdomsEdge(is_branch, cond, done)
    BY <1>1, DClockInputs
  <2> DEFINE in == Ports(chosen, is_branch, cond, done)
  <2>2. in \in PdomPorts /\ ~(in.branch_fire /\ in.path_done)
    BY <2>1, PortsType DEF Separate, Ports
  <2>3. pdom'[chosen] = PdomEdge(pdom[chosen], in)
    BY <2>1 DEF PdomsEdge
  <2> HIDE DEF in
  <2>4. in \in Ctrl!PdomPorts /\ Ctrl!Separate(in)
    BY <2>2 DEF Ctrl!PdomPorts, PdomPorts, Ctrl!Separate
  <2>5. Ctrl!PdomEdge(pdom[chosen], in) = PdomEdge(pdom[chosen], in)
    BY DEF Ctrl!PdomEdge, PdomEdge, Ctrl!MaskEdge, MaskEdge, Ctrl!ThenMask, ThenMask,
           Ctrl!ElseMask, ElseMask, Ctrl!st_push, st_push, Ctrl!st_pop, st_pop,
           Ctrl!StackEdge, StackEdge, Ctrl!Empty, Empty, Ctrl!Full, Full
  <2> QED
    BY <2>3, <2>4, <2>5 DEF Ctrl!NextSeparate, Ctrl!Edge
<1>2. CASE DReset
  BY <1>2 DEF DReset, Ctrl!NextSeparate, Ctrl!Reset, Ctrl!PdomReset, PdomReset, Ctrl!StackReset, StackReset
<1>3. CASE DDrive \/ UNCHANGED dvars
  BY <1>3 DEF DDrive, dvars, dregs
<1> QED
  BY <1>1, <1>2, <1>3 DEF DNext

(* Every controller of the top is the C++ PdomCtrl, tick for tick, and     *)
(* shows on its ports what tick() returns: what surrounds it keeps the     *)
(* condition under which the two agree (pdom_ctrl.h:18-28,                 *)
(* mini_sm_top.sv:196-216).                                                *)
THEOREM ControllersImplementCpp ==
    ASSUME chosen \in Warp
    PROVE  DSpec => Ctrl!CycleAccurate
<1>1. DInit => Ctrl!Init
  BY DEF DInit, Ctrl!Init, Ctrl!PdomReset, PdomReset, Ctrl!StackReset, StackReset
<1>2. [DNext]_dvars => [Ctrl!NextSeparate]_(pdom[chosen])
  BY ChosenControllerSteps
<1>3. DSpec => Ctrl!SeparateSpec
  BY <1>1, <1>2, PTL DEF DSpec, Ctrl!SeparateSpec
<1>4. Ctrl!SeparateSpec => Ctrl!CycleAccurate
  BY PdomRtlAssumption, Ctrl!RtlImplementsCpp
<1> QED
  BY <1>3, <1>4, PTL
=============================================================================
