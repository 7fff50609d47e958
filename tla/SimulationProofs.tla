-------------------------- MODULE SimulationProofs --------------------------
(***************************************************************************)
(* The program mini_sm_sim, for every command line, every number of warps, *)
(* every latency and every number of cycles: how it reads its arguments,   *)
(* how it ends, and the throughput it reports.                             *)
(***************************************************************************)
EXTENDS Simulation, SequenceTheorems, WellFoundedInduction, TLAPS

(* a set of naturals has a least element *)
LEMMA LeastElement ==
    ASSUME NEW T \in SUBSET Nat, T # {}
    PROVE  \E n \in T : \A m \in T : ~(m < n)
<1> DEFINE R == OpToRel(<, Nat)
<1>1. \A m, n \in Nat : m < n => <<m, n>> \in R
  BY DEF OpToRel
<1>2. IsWellFoundedOn(R, Nat)
  BY NatLessThanWellFounded, Zenon
<1>3. T \subseteq Nat
  OBVIOUS
<1> HIDE DEF R
<1>4. \E n \in T : \A m \in T : ~(<<m, n>> \in R)
  BY <1>2, <1>3, WFMin, Zenon
<1> QED
  BY <1>1, <1>4

-----------------------------------------------------------------------------
(* The command line.  IsValue is defined by recursion: a function that     *)
(* satisfies its equation exists for every prefix of the arguments.        *)
After(f, p) == p > 1 /\ argv[p - 1] \in DOMAIN Key /\ ~f[p - 1]

LEMMA IsValueExists ==
    ASSUME NEW n \in Nat
    PROVE  \E f : f = [p \in 1 .. n |-> After(f, p)]
<1> DEFINE Exists(m) == \E f : f = [p \in 1 .. m |-> After(f, p)]
           T == {m \in Nat : ~Exists(m)}
<1>1. Exists(0)
  <2>1. \A f, g : [p \in 1 .. 0 |-> After(f, p)] = [p \in 1 .. 0 |-> After(g, p)]
    OBVIOUS
  <2> QED
    BY <2>1
<1>2. ASSUME NEW m \in Nat, Exists(m) PROVE Exists(m + 1)
  <2>1. PICK f : f = [p \in 1 .. m |-> After(f, p)]
    BY <1>2
  <2> DEFINE g == [p \in 1 .. m + 1 |-> IF p <= m THEN f[p] ELSE After(f, p)]
  <2>2. \A p \in 1 .. m : f[p] = After(f, p)
    BY <2>1
  <2>3. ASSUME NEW p \in 1 .. m + 1 PROVE g[p] = After(g, p)
    <3>1. CASE p = 1
      <4>1. After(f, p) = FALSE /\ After(g, p) = FALSE
        BY <3>1 DEF After
      <4>2. g[p] = After(f, p)
        BY <2>2
      <4> HIDE DEF g
      <4> QED
        BY <4>1, <4>2, Zenon
    <3>2. CASE p > 1
      <4>1. p - 1 \in 1 .. m + 1 /\ p - 1 <= m
        BY <3>2
      <4>2. g[p - 1] = f[p - 1]
        BY <4>1
      <4>3. g[p] = After(f, p)
        BY <2>2
      <4> HIDE DEF g
      <4> QED
        BY <4>2, <4>3 DEF After
    <3> QED
      BY <3>1, <3>2
  <2>4. g = [p \in 1 .. m + 1 |-> g[p]]
    OBVIOUS
  <2>5. g = [p \in 1 .. m + 1 |-> After(g, p)]
    <3> HIDE DEF g
    <3> QED
      BY <2>3, <2>4
  <2> QED
    BY <2>5, Zenon
<1> HIDE DEF Exists
<1> SUFFICES ASSUME ~Exists(n) PROVE FALSE
  BY DEF Exists
<1>3. T \in SUBSET Nat /\ n \in T
  OBVIOUS
<1>4. PICK m \in T : \A k \in T : ~(k < m)
  <2> HIDE DEF T
  <2> QED
    BY <1>3, LeastElement
<1>5. m \in Nat /\ ~Exists(m) /\ m # 0
  BY <1>1
<1>6. m - 1 \in Nat /\ m - 1 < m /\ m - 1 + 1 = m
  BY <1>5
<1>7. Exists(m - 1)
  BY <1>4, <1>6
<1> QED
  BY <1>2, <1>5, <1>6, <1>7

LEMMA IsValueIs ==
    ASSUME argv \in Seq(STRING)
    PROVE  \A p \in 1 .. Len(argv) : IsValue[p] = After(IsValue, p)
<1>1. \E f : f = [p \in 1 .. Len(argv) |-> After(f, p)]
  BY IsValueExists
<1>2. \E f : f = [p \in 1 .. Len(argv) |-> p > 1 /\ argv[p - 1] \in DOMAIN Key /\ ~f[p - 1]]
  BY <1>1, Zenon DEF After
<1> QED
  BY <1>2 DEF IsValue, After

LEMMA KeyIs ==
    /\ \A option \in DOMAIN Key : Key[option] \in {"warps", "exec_latency", "cycles", "stats_file"}
    /\ DOMAIN Key \cap HelpOptions = {}
    /\ DOMAIN Key = FileOptions \cup NumberOptions
    /\ FileOptions \cap NumberOptions = {}
    /\ \A option \in DOMAIN Key : option \in FileOptions <=> Key[option] = "stats_file"
<1>1. DOMAIN Key = {"--warps", "-w", "--exec-latency", "-l", "--cycles", "-c", "--stats-file", "-s"}
  BY DEF Key
<1>2. \A option \in DOMAIN Key : Key[option] \in {"warps", "exec_latency", "cycles", "stats_file"}
  BY DEF Key
<1>3. DOMAIN Key \cap HelpOptions = {}
  BY <1>1 DEF HelpOptions
<1> QED
  BY <1>2, <1>3 DEF FileOptions, NumberOptions
-----------------------------------------------------------------------------
(* Where the loop over the arguments stands: what it has taken so far is   *)
(* what the arguments before i mean, none of them ends the program, and i  *)
(* is no value.                                                            *)
ValueOf(key, p) == IF key = "stats_file" THEN argv[p] ELSE Numerals[argv[p]]

Latest(key, p, j) == p < j /\ \A q \in ValuesOf(key) : q < j => q <= p

(* c is the configuration that the arguments before j mean                 *)
Means(c, j) ==
    \A key \in DOMAIN Defaults :
        \/ /\ \A p \in ValuesOf(key) : ~(p < j)
           /\ c[key] = Defaults[key]
        \/ \E p \in ValuesOf(key) : Latest(key, p, j) /\ c[key] = ValueOf(key, p)

Ends == BadNumbers \cup Helps

FirstEnd(p) == \A q \in Ends : p <= q

Config == [warps : Int, exec_latency : Int, cycles : Int, stats_file : STRING \cup {NoFile}]

Running == {"run", "write", "exit", "undefined"}

(* main is at x, before argument j, with configuration c                   *)
ParsedTo(x, j, c) ==
    /\ x \in {"parse", "usage", "aborted"} \cup Running
    /\ j \in 1 .. Len(argv) + 1
    /\ c \in Config
    /\ c.cycles < CounterMod
    /\ x = "parse" => /\ j <= Len(argv) => ~IsValue[j]
                      /\ FirstEnd(j)
                      /\ Means(c, j)
    /\ x = "usage" => \E p \in Helps : FirstEnd(p)
    /\ x \in Running => Ends = {} /\ Means(c, Len(argv) + 1)
    /\ x = "aborted" => \/ \E p \in BadNumbers : FirstEnd(p)
                        \/ /\ Ends = {} /\ Means(c, Len(argv) + 1)
                           /\ c.warps < 0 \/ c.exec_latency < 0 \/ c.stats_file # NoFile
    /\ x = "write" => c.stats_file # NoFile

ParseOK == argv \in Argvs /\ ParsedTo(pc, i, config)

LEMMA EndsAre ==
    ASSUME argv \in Argvs, NEW p
    PROVE  /\ p \in Ends => p \in 1 .. Len(argv)
           /\ p \in 1 .. Len(argv) => (p \in Ends <=> \/ p \in Helps \/ p \in BadNumbers)
           /\ p \in Helps <=> /\ p \in 1 .. Len(argv)
                              /\ argv[p] \in HelpOptions
                              /\ ~IsValue[p]
           /\ p \in BadNumbers <=> /\ p \in 2 .. Len(argv)
                                   /\ IsValue[p]
                                   /\ argv[p - 1] \in NumberOptions
                                   /\ argv[p] \notin DOMAIN Numerals
           /\ \A key : p \in ValuesOf(key) <=> /\ p \in 2 .. Len(argv)
                                               /\ IsValue[p]
                                               /\ Key[argv[p - 1]] = key
<1>1. argv \in Seq(STRING) /\ Len(argv) \in Nat
  BY SimulationAssumption
<1> QED
  BY <1>1 DEF Ends, Helps, BadNumbers, ValuesOf

(* The value of position p follows from that of the one before.            *)
LEMMA NextValue ==
    ASSUME argv \in Argvs, NEW p \in 1 .. Len(argv), ~IsValue[p]
    PROVE  /\ p + 1 \in 1 .. Len(argv) => IsValue[p + 1] = (argv[p] \in DOMAIN Key)
           /\ p + 2 \in 1 .. Len(argv) /\ argv[p] \in DOMAIN Key => IsValue[p + 2] = FALSE
<1>1. argv \in Seq(STRING) /\ Len(argv) \in Nat
  BY SimulationAssumption
<1>2. \A q \in 1 .. Len(argv) : IsValue[q] = After(IsValue, q)
  BY <1>1, IsValueIs
<1>3. p + 1 \in 1 .. Len(argv) => IsValue[p + 1] = (argv[p] \in DOMAIN Key)
  <2> SUFFICES ASSUME p + 1 \in 1 .. Len(argv) PROVE IsValue[p + 1] = (argv[p] \in DOMAIN Key)
    OBVIOUS
  <2>1. p + 1 > 1 /\ p + 1 - 1 = p
    OBVIOUS
  <2>2. IsValue[p + 1] = (argv[p] \in DOMAIN Key /\ ~IsValue[p])
    BY <1>2, <2>1 DEF After
  <2> QED
    BY <2>2
<1>4. p + 2 \in 1 .. Len(argv) /\ argv[p] \in DOMAIN Key => IsValue[p + 2] = FALSE
  <2> SUFFICES ASSUME p + 2 \in 1 .. Len(argv), argv[p] \in DOMAIN Key PROVE IsValue[p + 2] = FALSE
    OBVIOUS
  <2>1. p + 1 \in 1 .. Len(argv) /\ p + 2 - 1 = p + 1
    BY <1>1
  <2>2. IsValue[p + 1]
    BY <1>3, <2>1
  <2> QED
    BY <1>2, <2>1, <2>2 DEF After
<1> QED
  BY <1>3, <1>4

LEMMA ArgumentsStay ==
    ASSUME argv' = argv
    PROVE  ParseOK' <=> argv \in Argvs /\ ParsedTo(pc', i', config')
<1>1. IsValue' = IsValue
  BY DEF IsValue
<1>2. Helps' = Helps /\ BadNumbers' = BadNumbers /\ Ends' = Ends
  BY <1>1 DEF Helps, BadNumbers, Ends
<1>3. \A key : ValuesOf(key)' = ValuesOf(key)
  BY <1>1 DEF ValuesOf
<1>4. \A c, j : Means(c, j)' <=> Means(c, j)
  BY <1>1, <1>3 DEF Means, ValueOf, Latest
<1>5. \A j : FirstEnd(j)' <=> FirstEnd(j)
  BY <1>2 DEF FirstEnd
<1>6. \A x, j, c : ParsedTo(x, j, c)' <=> ParsedTo(x, j, c)
  BY <1>1, <1>2, <1>4, <1>5 DEF ParsedTo
<1>7. ParseOK' <=> argv \in Argvs /\ ParsedTo(pc, i, config)'
  BY DEF ParseOK
<1> QED
  BY <1>6, <1>7

(* The loop takes the option at j and its value: c becomes d.              *)
LEMMA MeansValue ==
    ASSUME argv \in Argvs,
           NEW c \in Config, NEW d \in Config, NEW j \in 1 .. Len(argv),
           Means(c, j), ~IsValue[j], j < Len(argv), argv[j] \in DOMAIN Key,
           d = [c EXCEPT ![Key[argv[j]]] = ValueOf(Key[argv[j]], j + 1)]
    PROVE  Means(d, j + 2)
<1> DEFINE set == Key[argv[j]]
<1>1. Len(argv) \in Nat /\ argv \in Seq(STRING)
  BY SimulationAssumption
<1>2. j + 1 \in 2 .. Len(argv) /\ IsValue[j + 1] /\ j + 1 - 1 = j
  <2>1. j + 1 \in 2 .. Len(argv) /\ j + 1 \in 1 .. Len(argv) /\ j + 1 - 1 = j
    BY <1>1
  <2> QED
    BY <2>1, NextValue, Zenon
<1>3. \A key : j + 1 \in ValuesOf(key) <=> key = set
  BY <1>2, EndsAre
<1>4. \A key : j \notin ValuesOf(key)
  BY EndsAre
<1>5. \A key : \A p \in ValuesOf(key) : p \in Int
  BY EndsAre
<1> SUFFICES ASSUME NEW key \in DOMAIN Defaults
             PROVE  \/ /\ \A p \in ValuesOf(key) : ~(p < j + 2)
                       /\ d[key] = Defaults[key]
                    \/ \E p \in ValuesOf(key) : Latest(key, p, j + 2) /\ d[key] = ValueOf(key, p)
  BY DEF Means
<1>6. set \in DOMAIN c /\ key \in DOMAIN c
  BY KeyIs DEF Config, Defaults
<1>7. CASE key = set
  <2>1. j + 1 \in ValuesOf(key)
    BY <1>3, <1>7
  <2>2. d[key] = ValueOf(key, j + 1)
    BY <1>6, <1>7
  <2>3. Latest(key, j + 1, j + 2)
    BY <1>5 DEF Latest
  <2> QED
    BY <2>1, <2>2, <2>3
<1>8. CASE key # set
  <2>1. d[key] = c[key]
    BY <1>6, <1>8
  <2>2. \A p \in ValuesOf(key) : p < j <=> p < j + 2
    BY <1>3, <1>4, <1>5, <1>8
  <2>3. \A p \in ValuesOf(key) : Latest(key, p, j) => Latest(key, p, j + 2)
    BY <2>2 DEF Latest
  <2> HIDE DEF set
  <2> QED
    BY <2>1, <2>2, <2>3 DEF Means
<1> QED
  BY <1>7, <1>8

(* The loop passes over the argument at j, which is no option with a value. *)
LEMMA MeansOther ==
    ASSUME argv \in Argvs,
           NEW c \in Config, NEW j \in 1 .. Len(argv), Means(c, j), ~IsValue[j]
    PROVE  Means(c, j + 1)
<1>1. \A key : j \notin ValuesOf(key) /\ \A p \in ValuesOf(key) : p \in Int
  BY EndsAre
<1>2. \A key : \A p \in ValuesOf(key) : p < j <=> p < j + 1
  BY <1>1
<1>3. \A key : \A p \in ValuesOf(key) : Latest(key, p, j) => Latest(key, p, j + 1)
  BY <1>2 DEF Latest
<1> QED
  BY <1>2, <1>3 DEF Means

LEMMA ParseInit == Init => ParseOK
<1> SUFFICES ASSUME Init PROVE ParseOK
  OBVIOUS
<1> USE DEF Init
<1>1. argv \in Argvs /\ argv \in Seq(STRING) /\ Len(argv) \in Nat
  BY SimulationAssumption
<1>2. i \in 1 .. Len(argv) + 1 /\ i = 1
  BY <1>1
<1>3. config \in Config /\ config.cycles < CounterMod
  BY SimulationAssumption DEF Config, Defaults
<1>4. ASSUME i <= Len(argv) PROVE ~IsValue[i]
  <2>1. IsValue[1] = After(IsValue, 1)
    BY <1>1, <1>2, <1>4, IsValueIs
  <2>2. After(IsValue, 1) = FALSE
    BY DEF After
  <2> QED
    BY <1>2, <2>1, <2>2, Zenon
<1>5. \A p \in Ends : i <= p
  BY <1>1, <1>2, EndsAre
<1>6. Means(config, i)
  <2>1. \A key : \A p \in ValuesOf(key) : ~(p < i)
    BY <1>1, <1>2, EndsAre
  <2> QED
    BY <2>1 DEF Means
<1> QED
  BY <1>1, <1>2, <1>3, <1>4, <1>5, <1>6 DEF ParseOK, ParsedTo, FirstEnd, Running

(* An option and the value that follows it, unless that is a malformed     *)
(* number, end nothing, and what follows is no value.                      *)
LEMMA PastValue ==
    ASSUME argv \in Argvs, NEW j \in 1 .. Len(argv), ~IsValue[j], FirstEnd(j),
           j < Len(argv), argv[j] \in DOMAIN Key,
           argv[j] \in NumberOptions => argv[j + 1] \in DOMAIN Numerals
    PROVE  /\ j + 2 \in 1 .. Len(argv) + 1
           /\ j + 2 <= Len(argv) => ~IsValue[j + 2]
           /\ FirstEnd(j + 2)
<1>1. Len(argv) \in Nat /\ argv \in Seq(STRING)
  BY SimulationAssumption
<1>2. j + 1 \in 1 .. Len(argv) /\ j + 1 - 1 = j /\ j + 2 \in 1 .. Len(argv) + 1
  BY <1>1
<1>3. IsValue[j + 1]
  BY <1>2, NextValue, Zenon
<1>4. j + 2 <= Len(argv) => ~IsValue[j + 2]
  <2> SUFFICES ASSUME j + 2 <= Len(argv) PROVE ~IsValue[j + 2]
    OBVIOUS
  <2>1. j + 2 \in 1 .. Len(argv)
    BY <1>1
  <2> QED
    BY <2>1, NextValue, Zenon
<1>5. j \notin Ends
  <2>1. j \notin Helps
    BY KeyIs, EndsAre
  <2>2. j \notin BadNumbers
    BY EndsAre
  <2> QED
    BY <2>1, <2>2, Zenon DEF Ends
<1>6. j + 1 \notin Ends
  <2>1. j + 1 \notin Helps
    BY <1>3, EndsAre
  <2>2. j + 1 \notin BadNumbers
    BY <1>2, EndsAre
  <2> QED
    BY <2>1, <2>2, Zenon DEF Ends
<1>7. ASSUME NEW q \in Ends PROVE j + 2 <= q
  <2>1. q \in Int /\ q # j /\ q # j + 1
    BY <1>5, <1>6, EndsAre
  <2>2. j <= q
    BY DEF FirstEnd
  <2> QED
    BY <2>1, <2>2
<1> QED
  BY <1>2, <1>4, <1>7 DEF FirstEnd

LEMMA ParseStep == ParseOK /\ [Next]_vars => ParseOK'
<1> SUFFICES ASSUME ParseOK, [Next]_vars PROVE ParseOK'
  OBVIOUS
<1>1. argv' = argv
  <2>1. ASSUME TickOnce PROVE argv' = argv
    BY <2>1 DEF TickOnce, cliVars
  <2>2. ASSUME Configure PROVE argv' = argv
    BY <2>2 DEF Configure, cliVars
  <2> QED
    BY <2>1, <2>2 DEF Next, vars, cliVars, ParseNumber, ParseNonNumber, ParseFile, ParseHelp,
       ParseOther, ConfigureThrows, TickUndefined, PrintStats, OpenFails, WriteFile, Parsing
<1>2. argv \in Argvs /\ argv \in Seq(STRING) /\ Len(argv) \in Nat /\ ParsedTo(pc, i, config)
  BY SimulationAssumption DEF ParseOK
<1>3. i \in 1 .. Len(argv) + 1 /\ config \in Config /\ config.cycles < CounterMod
  BY <1>2 DEF ParsedTo
<1> SUFFICES ParsedTo(pc', i', config')
  BY <1>1, <1>2, ArgumentsStay
<1>4. ASSUME Parsing
      PROVE  /\ pc = "parse" /\ i \in 1 .. Len(argv) /\ ~IsValue[i]
             /\ FirstEnd(i) /\ Means(config, i)
  BY <1>2, <1>3, <1>4 DEF ParsedTo, Parsing
<1>5. ASSUME ParseNumber PROVE ParsedTo(pc', i', config')
  <2>1. /\ Parsing /\ argv[i] \in NumberOptions /\ i < Len(argv)
        /\ argv[i + 1] \in DOMAIN Numerals /\ i' = i + 2 /\ pc' = pc
        /\ config' = [config EXCEPT ![Key[argv[i]]] = Numerals[argv[i + 1]]]
    BY <1>5 DEF ParseNumber, HasValue
  <2>2. argv[i] \in DOMAIN Key /\ Key[argv[i]] \in {"warps", "exec_latency", "cycles"}
    BY <2>1, KeyIs
  <2>3. Numerals[argv[i + 1]] = ValueOf(Key[argv[i]], i + 1)
    BY <2>2 DEF ValueOf
  <2>4. Numerals[argv[i + 1]] \in Int /\ Numerals[argv[i + 1]] < CounterMod
    BY <2>1, SimulationAssumption
  <2>5. config' \in Config /\ config'.cycles < CounterMod
    BY <1>3, <2>1, <2>2, <2>4 DEF Config
  <2>6. Means(config', i + 2)
    BY <1>2, <1>3, <1>4, <2>1, <2>2, <2>3, <2>5, MeansValue
  <2>7. /\ i + 2 \in 1 .. Len(argv) + 1
        /\ i + 2 <= Len(argv) => ~IsValue[i + 2]
        /\ FirstEnd(i + 2)
    BY <1>2, <1>4, <2>1, <2>2, PastValue
  <2> QED
    BY <1>4, <2>1, <2>5, <2>6, <2>7 DEF ParsedTo, Running
<1>6. ASSUME ParseNonNumber PROVE ParsedTo(pc', i', config')
  <2>1. /\ Parsing /\ argv[i] \in NumberOptions /\ i < Len(argv)
        /\ argv[i + 1] \notin DOMAIN Numerals /\ i' = i /\ config' = config /\ pc' = "aborted"
    BY <1>6 DEF ParseNonNumber, HasValue, Abort
  <2>2. i + 1 \in 2 .. Len(argv) /\ i + 1 \in 1 .. Len(argv) /\ i + 1 - 1 = i /\ argv[i] \in DOMAIN Key
    BY <1>2, <1>4, <2>1, KeyIs
  <2>3. IsValue[i + 1]
    BY <1>2, <1>4, <2>1, <2>2, NextValue, Zenon
  <2>4. i + 1 \in BadNumbers
    <3>1. argv[i + 1 - 1] \in NumberOptions
      BY <1>3, <2>1, <2>2
    <3> QED
      BY <1>2, <1>3, <2>1, <2>2, <2>3, <3>1, EndsAre
  <2>5. i \notin Ends
    <3>1. i \notin Helps
      BY <1>2, <2>2, KeyIs, EndsAre
    <3>2. i \notin BadNumbers
      BY <1>2, <1>4, <2>1, EndsAre
    <3> QED
      BY <3>1, <3>2, Zenon DEF Ends
  <2>6. \A q \in Ends : q \in Int
    BY <1>2, EndsAre
  <2>7. FirstEnd(i + 1)
    BY <1>4, <2>1, <2>5, <2>6 DEF FirstEnd
  <2> QED
    BY <1>3, <2>1, <2>4, <2>7 DEF ParsedTo, Running
<1>7. ASSUME ParseFile PROVE ParsedTo(pc', i', config')
  <2>1. /\ Parsing /\ argv[i] \in FileOptions /\ i < Len(argv) /\ i' = i + 2 /\ pc' = pc
        /\ config' = [config EXCEPT !.stats_file = argv[i + 1]]
    BY <1>7 DEF ParseFile, HasValue
  <2>2. argv[i] \in DOMAIN Key /\ Key[argv[i]] = "stats_file" /\ argv[i] \notin NumberOptions
    BY <2>1, KeyIs
  <2>3. config' = [config EXCEPT ![Key[argv[i]]] = ValueOf(Key[argv[i]], i + 1)]
    BY <2>1, <2>2 DEF ValueOf
  <2>4. argv[i + 1] \in STRING
    BY <1>2, <1>4, <2>1
  <2>5. config' \in Config /\ config'.cycles < CounterMod
    BY <1>3, <2>1, <2>4 DEF Config
  <2>6. Means(config', i + 2)
    BY <1>2, <1>3, <1>4, <2>1, <2>2, <2>3, <2>5, MeansValue
  <2>7. /\ i + 2 \in 1 .. Len(argv) + 1
        /\ i + 2 <= Len(argv) => ~IsValue[i + 2]
        /\ FirstEnd(i + 2)
    BY <1>2, <1>4, <2>1, <2>2, PastValue
  <2> QED
    BY <1>4, <2>1, <2>5, <2>6, <2>7 DEF ParsedTo, Running
<1>8. ASSUME ParseHelp PROVE ParsedTo(pc', i', config')
  <2>1. Parsing /\ argv[i] \in HelpOptions /\ pc' = "usage" /\ i' = i /\ config' = config
    BY <1>8 DEF ParseHelp
  <2>2. i \in Helps
    BY <1>2, <1>4, <2>1, EndsAre
  <2> QED
    BY <1>3, <1>4, <2>1, <2>2 DEF ParsedTo, Running
<1>9. ASSUME ParseOther PROVE ParsedTo(pc', i', config')
  <2>1. /\ Parsing /\ ~(argv[i] \in DOMAIN Key /\ i < Len(argv)) /\ argv[i] \notin HelpOptions
        /\ i' = i + 1 /\ pc' = pc /\ config' = config
    BY <1>9 DEF ParseOther, HasValue
  <2>2. Means(config, i + 1)
    BY <1>2, <1>3, <1>4, <2>1, MeansOther
  <2>3. i + 1 \in 1 .. Len(argv) + 1
    BY <1>2, <1>4, <2>1
  <2>4. i + 1 <= Len(argv) => ~IsValue[i + 1]
    <3> SUFFICES ASSUME i + 1 <= Len(argv) PROVE ~IsValue[i + 1]
      OBVIOUS
    <3>1. i + 1 \in 1 .. Len(argv) /\ argv[i] \notin DOMAIN Key
      BY <1>2, <1>4, <2>1
    <3> QED
      BY <1>2, <1>4, <2>1, <3>1, NextValue, Zenon
  <2>5. i \notin Ends
    BY <1>2, <1>4, <2>1, EndsAre DEF Ends
  <2>6. \A q \in Ends : q \in Int
    BY <1>2, EndsAre
  <2>7. FirstEnd(i + 1)
    BY <1>4, <2>1, <2>5, <2>6 DEF FirstEnd
  <2> QED
    BY <1>3, <1>4, <2>1, <2>2, <2>3, <2>4, <2>7 DEF ParsedTo, Running
<1>10. ASSUME pc = "parse", i > Len(argv)
       PROVE  Ends = {} /\ Means(config, Len(argv) + 1)
  <2>1. i = Len(argv) + 1
    BY <1>2, <1>3, <1>10
  <2>2. FirstEnd(i) /\ Means(config, i)
    BY <1>2, <1>10 DEF ParsedTo
  <2>3. \A q \in Ends : q \in 1 .. Len(argv) /\ i <= q
    BY <1>2, <2>2, EndsAre DEF FirstEnd
  <2> QED
    BY <1>2, <2>1, <2>2, <2>3
<1>11. ASSUME ConfigureThrows PROVE ParsedTo(pc', i', config')
  <2>1. /\ pc = "parse" /\ i > Len(argv)
        /\ config.warps < 0 \/ config.exec_latency < 0
        /\ pc' = "aborted" /\ i' = i /\ config' = config
    BY <1>11 DEF ConfigureThrows, Abort, cliVars, warps, exec_latency
  <2> QED
    BY <1>3, <1>10, <2>1 DEF ParsedTo, Running
<1>12. ASSUME Configure PROVE ParsedTo(pc', i', config')
  <2>1. pc = "parse" /\ i > Len(argv) /\ pc' = "run" /\ i' = i /\ config' = config
    BY <1>12 DEF Configure, cliVars
  <2> QED
    BY <1>3, <1>10, <2>1 DEF ParsedTo, Running
<1>13. ASSUME TickOnce PROVE ParsedTo(pc', i', config')
  <2>1. pc' = pc /\ i' = i /\ config' = config
    BY <1>13 DEF TickOnce, cliVars
  <2> QED
    BY <1>2, <2>1
<1>14. ASSUME TickUndefined \/ WriteFile PROVE ParsedTo(pc', i', config')
  <2>1. pc \in Running /\ pc' \in {"exit", "undefined"} /\ i' = i /\ config' = config
    BY <1>14 DEF TickUndefined, WriteFile, cliVars, Running
  <2> QED
    BY <1>2, <2>1 DEF ParsedTo, Running
<1>15. ASSUME PrintStats PROVE ParsedTo(pc', i', config')
  <2>1. /\ pc = "run" /\ i' = i /\ config' = config
        /\ pc' = IF config.stats_file = NoFile THEN "exit" ELSE "write"
    BY <1>15 DEF PrintStats, cliVars
  <2> QED
    BY <1>2, <2>1 DEF ParsedTo, Running
<1>16. ASSUME OpenFails PROVE ParsedTo(pc', i', config')
  <2>1. pc = "write" /\ i' = i /\ config' = config /\ pc' = "aborted"
    BY <1>16 DEF OpenFails, Abort, cliVars
  <2> QED
    BY <1>2, <2>1 DEF ParsedTo, Running
<1>17. ASSUME UNCHANGED vars PROVE ParsedTo(pc', i', config')
  BY <1>2, <1>17 DEF vars, cliVars
<1> QED
  BY <1>5, <1>6, <1>7, <1>8, <1>9, <1>11, <1>12, <1>13, <1>14, <1>15, <1>16, <1>17 DEF Next

LEMMA MeantIs ==
    ASSUME argv \in Argvs, Means(config, Len(argv) + 1), NEW key \in DOMAIN Defaults
    PROVE  config[key] = Meant(key)
<1> DEFINE Last(p) == \A q \in ValuesOf(key) : q <= p
<1>1. Len(argv) \in Nat
  BY SimulationAssumption
<1>2. \A p \in ValuesOf(key) : p \in Int /\ p < Len(argv) + 1
  BY <1>1, EndsAre
<1>3. \/ ValuesOf(key) = {} /\ config[key] = Defaults[key]
      \/ \E p \in ValuesOf(key) : Last(p) /\ config[key] = ValueOf(key, p)
  BY <1>2 DEF Means, Latest
<1>4. ASSUME ValuesOf(key) = {}, config[key] = Defaults[key] PROVE config[key] = Meant(key)
  BY <1>4 DEF Meant
<1>5. ASSUME NEW p \in ValuesOf(key), Last(p), config[key] = ValueOf(key, p)
      PROVE  config[key] = Meant(key)
  <2>1. ValuesOf(key) # {}
    OBVIOUS
  <2>2. \A x \in ValuesOf(key) : Last(x) => x = p
    BY <1>2, <1>5
  <2>3. (CHOOSE x \in ValuesOf(key) : Last(x)) = p
    <3> HIDE DEF Last
    <3> QED
      BY <1>5, <2>2
  <2> QED
    BY <1>5, <2>1, <2>3 DEF Meant, ValueOf
<1> QED
  BY <1>3, <1>4, <1>5

LEMMA FirstIs ==
    ASSUME argv \in Argvs, NEW p \in Ends, FirstEnd(p)
    PROVE  (CHOOSE x \in Ends : \A q \in Ends : x <= q) = p
<1>1. \A q \in Ends : q \in Int
  BY EndsAre
<1>2. \A x \in Ends : FirstEnd(x) => x = p
  BY <1>1 DEF FirstEnd
<1>3. (CHOOSE x \in Ends : FirstEnd(x)) = p
  BY <1>2
<1> QED
  BY <1>3 DEF FirstEnd

LEMMA ParsedRight == ParseOK => ParsesAsMeant
<1> SUFFICES ASSUME ParseOK PROVE ParsesAsMeant
  OBVIOUS
<1> DEFINE first == CHOOSE p \in Ends : \A q \in Ends : p <= q
<1>1. argv \in Argvs /\ ParsedTo(pc, i, config)
  BY DEF ParseOK
<1>2. DOMAIN config = DOMAIN Defaults /\ "stats_file" \in DOMAIN Defaults
  BY <1>1 DEF ParsedTo, Config, Defaults
<1>3. \A p : p \in Ends /\ FirstEnd(p) => first = p
  BY <1>1, FirstIs
<1>4. pc = "usage" => Ends # {} /\ first \in Helps
  <2>1. Helps \subseteq Ends
    BY DEF Ends
  <2> HIDE DEF first
  <2> QED
    BY <1>1, <1>3, <2>1 DEF ParsedTo
<1>5. pc \in {"run", "write", "exit", "undefined"} =>
          Ends = {} /\ \A key \in DOMAIN config : config[key] = Meant(key)
  BY <1>1, <1>2, MeantIs DEF ParsedTo, Running
<1>6. ASSUME pc = "aborted"
      PROVE  IF Ends = {}
             THEN warps < 0 \/ exec_latency < 0 \/ Meant("stats_file") # NoFile
             ELSE first \in BadNumbers
  <2>1. CASE \E p \in BadNumbers : FirstEnd(p)
    <3>1. BadNumbers \subseteq Ends
      BY DEF Ends
    <3>2. Ends # {} /\ first \in BadNumbers
      <4> HIDE DEF first
      <4> QED
        BY <1>3, <2>1, <3>1
    <3> QED
      BY <3>2
  <2>2. CASE /\ Ends = {} /\ Means(config, Len(argv) + 1)
             /\ config.warps < 0 \/ config.exec_latency < 0 \/ config.stats_file # NoFile
    <3>1. config.stats_file = Meant("stats_file")
      BY <1>1, <1>2, <2>2, MeantIs
    <3> QED
      BY <2>2, <3>1 DEF warps, exec_latency
  <2> QED
    BY <1>1, <1>6, <2>1, <2>2 DEF ParsedTo
<1> QED
  BY <1>4, <1>5, <1>6 DEF ParsesAsMeant, Ends

(* For every list of arguments, of any length: the program means by them   *)
(* what the usage text says, the last value of each option counts, and the *)
(* first help or malformed number decides how it ends (main.cpp:46-59).    *)
THEOREM CommandLineIsMeant == Spec => []ParsesAsMeant
<1> QED
  BY ParseInit, ParseStep, ParsedRight, PTL DEF Spec

-----------------------------------------------------------------------------
(* How the program ends.  The cycles never exceed those asked for, so the  *)
(* counter cannot wrap, and are those asked for once the statistics are    *)
(* printed; nothing is written before that.                                *)
Counts == {"cycles", "instructions", "stall_data", "stall_no_warp", "cycles_issuing", "wb_count"}

Asked == IF cycles > 0 THEN cycles ELSE 0

OutputOK ==
    /\ counters \in [Counts -> Nat]
    /\ pc = "parse" => counters.cycles = 0
    /\ pc = "run" => counters.cycles <= Asked
    /\ pc \in {"write", "exit"} => counters.cycles = Asked /\ stdout \in Written(StdoutLines)
    /\ pc # "exit" => file = Nullopt
    /\ pc = "exit" => IF config.stats_file = NoFile
                      THEN file = Nullopt
                      ELSE file \in Written(FileLines)

LEMMA CyclesAre ==
    ASSUME ParseOK
    PROVE  cycles \in Int /\ cycles < CounterMod /\ CounterMod \in Nat \ {0}
BY SimulationAssumption DEF ParseOK, ParsedTo, Config, cycles

LEMMA CountersTick ==
    ASSUME ParseOK, OutputOK, TickOnce
    PROVE  counters' \in [Counts -> Nat] /\ counters'.cycles = counters.cycles + 1
<1>1. PICK W \in {warps}, L \in {exec_latency} \ {0} : SM(W, L)!Tick
  BY DEF TickOnce
<1>2. PICK issued : SM(W, L)!TickIssuing(issued)
  BY <1>1 DEF SM!Tick
<1> DEFINE counted == SM(W, L)!Counted(SM(W, L)!Exiting(stages), issued)
<1>3. counters' = [c \in DOMAIN counters |->
                     IF c \in counted THEN (counters[c] + 1) % CounterMod ELSE counters[c]]
  BY <1>2 DEF SM!TickIssuing, SM!CountersNext, SM!Inc
<1>4. "cycles" \in counted
  BY DEF SM!Counted
<1> HIDE DEF counted
<1>5. counters \in [Counts -> Nat] /\ "cycles" \in Counts
  BY DEF OutputOK, Counts
<1>6. CounterMod \in Nat \ {0} /\ \A n \in Nat : (n + 1) % CounterMod \in Nat
  BY CyclesAre
<1>7. counters.cycles \in Nat /\ counters.cycles + 1 < CounterMod
  BY <1>5, CyclesAre DEF TickOnce
<1>8. (counters.cycles + 1) % CounterMod = counters.cycles + 1
  BY <1>6, <1>7
<1>9. counters'.cycles = (counters.cycles + 1) % CounterMod
  BY <1>3, <1>4, <1>5
<1>10. counters' \in [Counts -> Nat]
  BY <1>3, <1>5, <1>6
<1> QED
  BY <1>8, <1>9, <1>10

LEMMA OutputInit == Init => OutputOK
<1> SUFFICES ASSUME Init PROVE OutputOK
  OBVIOUS
<1>1. counters = [cycles |-> 0, instructions |-> 0, stall_data |-> 0,
                  stall_no_warp |-> 0, cycles_issuing |-> 0, wb_count |-> 0]
  BY DEF Init, SM!Init, SM!Constructed, SM!ZeroCounters
<1>2. counters \in [Counts -> Nat] /\ counters.cycles = 0
  BY <1>1 DEF Counts
<1> QED
  BY <1>2 DEF OutputOK, Init

(* the lines depend on the counters alone *)
LEMMA LinesStay ==
    ASSUME counters' = counters
    PROVE  /\ Written(FileLines)' = Written(FileLines)
           /\ Written(StdoutLines)' = Written(StdoutLines)
<1>1. ipc' = ipc /\ warp_efficiency' = warp_efficiency
  BY DEF ipc, warp_efficiency
<1>2. \A key : Value(key)' = Value(key)
  BY <1>1 DEF Value
<1>3. \A keys : Lines(keys)' = Lines(keys)
  BY <1>2 DEF Lines
<1>4. FileLines' = FileLines /\ StdoutLines' = StdoutLines
  BY <1>3 DEF FileLines, StdoutLines, FileKeys, Quotients
<1> QED
  BY <1>4 DEF Written, Remains, Leading

LEMMA OutputStep == ParseOK /\ OutputOK /\ [Next]_vars => OutputOK'
<1> SUFFICES ASSUME ParseOK, OutputOK, [Next]_vars PROVE OutputOK'
  OBVIOUS
<1>1. counters \in [Counts -> Nat] /\ counters.cycles \in Nat
  BY DEF OutputOK, Counts
<1>2. ASSUME TickOnce PROVE OutputOK'
  <2>1. pc = "run" /\ counters.cycles < cycles /\ pc' = pc /\ config' = config /\ file' = file
    BY <1>2 DEF TickOnce, cliVars
  <2>2. Asked' = Asked /\ Asked = cycles
    BY <1>1, <2>1, CyclesAre DEF Asked, cycles
  <2>3. counters' \in [Counts -> Nat] /\ counters'.cycles = counters.cycles + 1
    BY <1>2, CountersTick
  <2>4. counters'.cycles <= Asked'
    BY <1>1, <2>1, <2>2, <2>3, CyclesAre
  <2> QED
    BY <2>1, <2>3, <2>4 DEF OutputOK
<1>3. ASSUME pc = "parse", pc' \in {"parse", "usage", "aborted"}, UNCHANGED <<file, counters>>
      PROVE  OutputOK'
  BY <1>3 DEF OutputOK
<1>4. ASSUME ParseNumber \/ ParseFile \/ ParseOther \/ ParseNonNumber \/ ParseHelp \/ ConfigureThrows
      PROVE  OutputOK'
  BY <1>3, <1>4 DEF ParseNumber, ParseFile, ParseOther, ParseNonNumber, ParseHelp, ConfigureThrows,
     Parsing, Abort, smVars
<1>5. ASSUME Configure PROVE OutputOK'
  <2>1. pc = "parse" /\ pc' = "run" /\ counters' = counters /\ file' = file /\ config' = config
    BY <1>5 DEF Configure, cliVars
  <2>2. counters'.cycles <= Asked'
    BY <2>1, CyclesAre DEF OutputOK, Asked, cycles
  <2> QED
    BY <2>1, <2>2 DEF OutputOK
<1>6. ASSUME TickUndefined PROVE OutputOK'
  BY <1>6 DEF TickUndefined, smVars, OutputOK
<1>7. ASSUME PrintStats PROVE OutputOK'
  <2>1. /\ pc = "run" /\ counters.cycles >= cycles /\ stdout' \in Written(StdoutLines)
        /\ pc' = IF config.stats_file = NoFile THEN "exit" ELSE "write"
        /\ counters' = counters /\ file' = file /\ config' = config
    BY <1>7 DEF PrintStats, cliVars, smVars
  <2>2. Asked' = Asked /\ counters.cycles = Asked
    BY <1>1, <2>1, CyclesAre DEF OutputOK, Asked, cycles
  <2>3. stdout' \in Written(StdoutLines)'
    BY <2>1, LinesStay
  <2> QED
    BY <2>1, <2>2, <2>3 DEF OutputOK
<1>8. ASSUME OpenFails PROVE OutputOK'
  BY <1>8 DEF OpenFails, Abort, smVars, OutputOK
<1>9. ASSUME WriteFile PROVE OutputOK'
  <2>1. /\ pc = "write" /\ pc' = "exit" /\ stdout' = stdout /\ config' = config /\ counters' = counters
    BY <1>9 DEF WriteFile, cliVars, smVars
  <2>2. file' \in Written(FileLines)
    BY <1>9 DEF WriteFile
  <2>3. /\ Written(FileLines)' = Written(FileLines)
        /\ Written(StdoutLines)' = Written(StdoutLines)
    BY <2>1, LinesStay
  <2>5. config.stats_file # NoFile
    BY <2>1 DEF ParseOK, ParsedTo
  <2>6. Asked' = Asked
    BY <2>1 DEF Asked, cycles
  <2> QED
    BY <2>1, <2>2, <2>3, <2>5, <2>6 DEF OutputOK
<1>10. ASSUME UNCHANGED vars PROVE OutputOK'
  <2>1. /\ Asked' = Asked
        /\ Written(FileLines)' = Written(FileLines)
        /\ Written(StdoutLines)' = Written(StdoutLines)
    BY <1>10, LinesStay DEF vars, cliVars, smVars, Asked, cycles
  <2> QED
    BY <1>10, <2>1 DEF OutputOK, vars, cliVars, smVars
<1> QED
  BY <1>2, <1>4, <1>5, <1>6, <1>7, <1>8, <1>9, <1>10 DEF Next

LEMMA LinesAre ==
    ASSUME OutputOK
    PROVE  /\ FileLines \in Seq(FileLine)
           /\ \E T : StdoutLines \in Seq(T)
<1> DEFINE Names == {"cycles", "instructions", "stall_data", "stall_structural",
                     "stall_memory", "stall_no_warp", "cycles_issuing", "wb_count",
                     "total_diverge_events", "masked_thread_cycles", "ipc", "warp_efficiency"}
<1>1. FileKeys \in Seq(Names) /\ Len(FileKeys) = 10
  BY DEF FileKeys
<1>2. \A k \in 1 .. 10 : FileKeys[k] # "ipc" /\ FileKeys[k] # "warp_efficiency"
  <2>1. \A k \in 1 .. 10 : k \in {1, 2, 3, 4, 5, 6, 7, 8, 9, 10}
    OBVIOUS
  <2>2. \A k \in {1, 2, 3, 4, 5, 6, 7, 8, 9, 10} : FileKeys[k] # "ipc" /\ FileKeys[k] # "warp_efficiency"
    BY DEF FileKeys
  <2> QED
    BY <2>1, <2>2
<1> HIDE DEF Names
<1>3. FileLines \in Seq(FileLine)
  <2>1. FileLines = [k \in 1 .. 10 |-> <<FileKeys[k], Value(FileKeys[k])>>]
    BY <1>1 DEF FileLines, Lines
  <2>2. \A k \in 1 .. 10 : Value(FileKeys[k]) \in Nat
    BY <1>2 DEF Value, OutputOK
  <2>3. \A k \in 1 .. 10 : <<FileKeys[k], Value(FileKeys[k])>> \in FileLine
    BY <1>1, <2>2 DEF FileLine
  <2>4. FileLines \in [1 .. 10 -> FileLine]
    BY <2>1, <2>3
  <2> QED
    BY <2>4, SeqDef
<1>4. \E T : StdoutLines \in Seq(T)
  <2> DEFINE keys == FileKeys \o Quotients
             line(k) == <<keys[k], Value(keys[k])>>
             T == {line(k) : k \in 1 .. Len(keys)}
  <2>1. keys \in Seq(Names)
    <3>1. Quotients \in Seq(Names)
      BY DEF Quotients, Names
    <3> QED
      BY <1>1, <3>1, ConcatProperties, Zenon
  <2>2. Len(keys) \in Nat
    BY <2>1, LenProperties
  <2>3. StdoutLines = [k \in 1 .. Len(keys) |-> line(k)]
    BY DEF StdoutLines, Lines
  <2> HIDE DEF keys, line
  <2>4. StdoutLines \in [1 .. Len(keys) -> T]
    BY <2>3
  <2> QED
    BY <2>2, <2>4, SeqDef
<1> QED
  BY <1>3, <1>4

(* Whatever is written of some lines, all but the end is theirs.           *)
LEMMA WrittenIs ==
    ASSUME NEW T, NEW all \in Seq(T), NEW lines \in Written(all)
    PROVE  /\ UpToCut(lines, all)
           /\ \/ \E n \in 0 .. Len(all) : lines = SubSeq(all, 1, n)
              \/ \E n \in 1 .. Len(all) : \E rest \in Remains(all[n]) :
                     lines = Append(SubSeq(all, 1, n - 1), <<all[n][1], rest>>)
<1>1. Len(all) \in Nat
  BY LenProperties
<1>2. \A n \in 0 .. Len(all) : /\ SubSeq(all, 1, n) \in Seq(T) /\ Len(SubSeq(all, 1, n)) = n
                               /\ \A k \in 1 .. n : SubSeq(all, 1, n)[k] = all[k]
  <2> SUFFICES ASSUME NEW n \in 0 .. Len(all)
               PROVE  /\ SubSeq(all, 1, n) \in Seq(T) /\ Len(SubSeq(all, 1, n)) = n
                      /\ \A k \in 1 .. n : SubSeq(all, 1, n)[k] = all[k]
    OBVIOUS
  <2>1. \A k \in 1 .. n : all[k] \in T
    BY <1>1, ElementOfSeq
  <2> QED
    BY <1>1, <2>1, SubSeqProperties
<1>3. SubSeq(all, 1, Len(all)) = all
  BY <1>1, <1>2, SeqEqual
<1>4. CASE ~WritesFail
  <2>1. lines = all
    BY <1>4 DEF Written
  <2>2. Len(all) \in 0 .. Len(all) /\ lines = SubSeq(all, 1, Len(all))
    BY <1>1, <1>3, <2>1
  <2>3. UpToCut(lines, all)
    BY <1>1, <2>1 DEF UpToCut
  <2> QED
    BY <2>2, <2>3
<1>5. CASE WritesFail
  <2>1. CASE \E n \in 0 .. Len(all) : lines = SubSeq(all, 1, n)
    BY <1>1, <1>2, <1>5, <2>1 DEF UpToCut
  <2>2. CASE \E n \in 1 .. Len(all) : \E rest \in Remains(all[n]) :
                 lines = Append(SubSeq(all, 1, n - 1), <<all[n][1], rest>>)
    <3>1. PICK n \in 1 .. Len(all) : \E rest \in Remains(all[n]) :
              lines = Append(SubSeq(all, 1, n - 1), <<all[n][1], rest>>)
      BY <2>2
    <3>2. PICK rest : lines = Append(SubSeq(all, 1, n - 1), <<all[n][1], rest>>)
      BY <3>1
    <3> DEFINE whole == SubSeq(all, 1, n - 1)
               last == <<all[n][1], rest>>
    <3>3. n - 1 \in 0 .. Len(all)
      BY <1>1
    <3>4. /\ whole \in Seq(T) /\ Len(whole) = n - 1
          /\ \A k \in 1 .. n - 1 : whole[k] = all[k]
      BY <1>2, <3>3
    <3>5. last[1] = all[n][1]
      OBVIOUS
    <3> HIDE DEF whole, last
    <3>6. whole \in Seq(T \cup {last})
      BY <3>4, SeqMonotonic
    <3>7. lines = Append(whole, last)
      BY <3>2 DEF whole, last
    <3>8. /\ Len(lines) = n /\ lines[n] = last
          /\ \A k \in 1 .. n - 1 : lines[k] = all[k]
      BY <3>4, <3>6, <3>7, AppendProperties
    <3>9. UpToCut(lines, all)
      <4>1. Len(lines) <= Len(all) /\ n \in Nat
        BY <1>1, <3>8
      <4>2. \A k \in 1 .. Len(lines) : \/ lines[k] = all[k]
                                       \/ k = Len(lines) /\ lines[k][1] = all[k][1]
        <5> SUFFICES ASSUME NEW k \in 1 .. Len(lines)
                     PROVE  \/ lines[k] = all[k]
                            \/ k = Len(lines) /\ lines[k][1] = all[k][1]
          OBVIOUS
        <5>1. k = n \/ k \in 1 .. n - 1
          BY <3>8, <4>1
        <5> QED
          BY <3>5, <3>8, <5>1, Zenon
      <4> QED
        BY <1>5, <4>1, <4>2 DEF UpToCut
    <3> QED
      BY <2>2, <3>9
  <2> QED
    BY <1>5, <2>1, <2>2 DEF Written
<1> QED
  BY <1>4, <1>5

LEMMA FileIsLines ==
    ASSUME NEW all \in Seq(FileLine), NEW lines \in Written(all)
    PROVE  lines \in Seq(FileLine)
<1>1. Len(all) \in Nat /\ \A n \in 1 .. Len(all) : all[n] \in FileLine
  BY LenProperties, ElementOfSeq
<1>2. \A n \in 0 .. Len(all) : SubSeq(all, 1, n) \in Seq(FileLine)
  <2> SUFFICES ASSUME NEW n \in 0 .. Len(all) PROVE SubSeq(all, 1, n) \in Seq(FileLine)
    OBVIOUS
  <2> QED
    BY <1>1, SubSeqProperties
<1>3. CASE \E n \in 0 .. Len(all) : lines = SubSeq(all, 1, n)
  BY <1>2, <1>3
<1>4. ASSUME NEW n \in 1 .. Len(all), NEW rest \in Remains(all[n]),
             lines = Append(SubSeq(all, 1, n - 1), <<all[n][1], rest>>)
      PROVE  lines \in Seq(FileLine)
  <2>1. rest \in Nat \cup {Nullopt}
    <3>1. Remains(all[n]) \subseteq {Nullopt} \cup Leading(all[n][2])
      BY DEF Remains
    <3>2. Leading(all[n][2]) \subseteq Nat
      BY DEF Leading
    <3> QED
      BY <3>1, <3>2
  <2>2. <<all[n][1], rest>> \in FileLine
    BY <1>1, <2>1 DEF FileLine
  <2>3. SubSeq(all, 1, n - 1) \in Seq(FileLine)
    BY <1>1, <1>2
  <2> QED
    BY <1>4, <2>2, <2>3, AppendProperties
<1> QED
  BY <1>3, <1>4, WrittenIs

LEMMA OutputRight == ParseOK /\ OutputOK => CleanExit
<1> SUFFICES ASSUME ParseOK, OutputOK, pc = "exit" PROVE CleanExit
  BY DEF CleanExit
<1>1. stdout \in Written(StdoutLines) /\ counters.cycles = Asked
  BY DEF OutputOK
<1>2. UpToCut(stdout, StdoutLines)
  <2>1. PICK T : StdoutLines \in Seq(T)
    BY LinesAre
  <2> QED
    BY <1>1, <2>1, WrittenIs
<1>3. config.stats_file = Meant("stats_file")
  BY MeantIs DEF ParseOK, ParsedTo, Running, Defaults
<1>4. CASE config.stats_file = NoFile
  BY <1>1, <1>2, <1>3, <1>4 DEF OutputOK, CleanExit, Asked
<1>5. CASE config.stats_file # NoFile
  <2>1. file \in Written(FileLines) /\ FileLines \in Seq(FileLine)
    BY <1>5, LinesAre DEF OutputOK
  <2>2. UpToCut(file, FileLines)
    BY <2>1, WrittenIs
  <2>3. file # Nullopt
    BY <2>1, FileIsLines, SimulationAssumption
  <2> QED
    BY <1>1, <1>2, <1>3, <1>5, <2>2, <2>3 DEF CleanExit, Asked
<1> QED
  BY <1>4, <1>5

(* For every command line and however the file system behaves: the exit    *)
(* code 0 after a simulation means that the cycles that were asked for     *)
(* have been simulated, that a file exists exactly if one was named, and   *)
(* that it and stdout say what was counted, to the last line but one at    *)
(* least (main.cpp:61-105).                                                *)
THEOREM ExitIsClean == Spec => []CleanExit
<1> QED
  BY ParseInit, ParseStep, OutputInit, OutputStep, OutputRight, PTL DEF Spec

-----------------------------------------------------------------------------
(* The throughput.  With W warps and a latency of L the whole run is fixed *)
(* by the number of the cycle: whether cycle c issues, and whose turn it   *)
(* is, the stages hold the issues of the last L cycles and exactly their   *)
(* destinations are busy.                                                  *)
Period(L) == L + 1
Burst(W, L) == IF W < Period(L) THEN W ELSE Period(L)

Issued(W, L, t) ==
    (t \div Period(L)) * Burst(W, L)
        + (IF (t % Period(L)) < Burst(W, L) THEN t % Period(L) ELSE Burst(W, L))

Issues(W, L, c) == (c % Period(L)) < Burst(W, L)
Turn(W, L, c)   == Issued(W, L, c) % W

Occupant(W, L, c) ==
    IF c >= 0 /\ Issues(W, L, c)
    THEN [warp_id |-> Turn(W, L, c), dst |-> 0, has_dst |-> TRUE] ELSE Nullopt

Window(W, L, t) == {c \in (t - L) .. (t - 1) : c >= 0 /\ Issues(W, L, c)}

Scheduled(W, L, t) ==
    /\ W \in Nat /\ L \in Nat
    /\ warp_instrs = [w \in 0 .. W - 1 |-> Accumulate]
    /\ state = [w \in 0 .. W - 1 |-> "READY"]
    /\ W > 0 => rr_ptr = Turn(W, L, t)
    /\ stages = [s \in 0 .. L - 1 |-> Occupant(W, L, t - L + s)]
    /\ busy = {Turn(W, L, c) * Regs : c \in Window(W, L, t)}
    /\ counters.instructions = Issued(W, L, t)
    /\ counters.cycles_issuing = Issued(W, L, t)
    /\ counters.stall_data = IF W > 0 THEN t - Issued(W, L, t) ELSE 0
    /\ counters.stall_no_warp = IF W > 0 THEN 0 ELSE t

ScheduleOK ==
    /\ pc = "parse" => /\ busy = {} /\ rr_ptr = 0
                       /\ \A c \in Counts : counters[c] = 0
    /\ pc \in {"run", "write", "exit"} => Scheduled(warps, exec_latency, counters.cycles)

(* arithmetic *)
LEMMA Times ==
    ASSUME NEW a \in Nat, NEW b \in Nat, NEW m \in Nat
    PROVE  /\ a * m \in Nat
           /\ a <= b => a * m <= b * m
           /\ a < b => a * m + m <= b * m
<1>1. a * m \in Nat
  OBVIOUS
<1>2. ASSUME a <= b PROVE a * m <= b * m
  <2>1. PICK k \in Nat : b = a + k
    BY <1>2
  <2>2. b * m = a * m + k * m /\ k * m \in Nat /\ a * m \in Nat
    BY <2>1
  <2> QED
    BY <2>2
<1>3. ASSUME a < b PROVE a * m + m <= b * m
  <2>1. PICK k \in Nat : b = a + 1 + k
    BY <1>3
  <2>2. b * m = a * m + m + k * m /\ k * m \in Nat /\ a * m \in Nat
    BY <2>1
  <2> QED
    BY <2>2
<1> QED
  BY <1>1, <1>2, <1>3

Splits(n, m, q, r) == q \in Nat /\ r \in 0 .. m - 1 /\ n = r + q * m

LEMMA Quotient ==
    ASSUME NEW n \in Nat, NEW m \in Nat \ {0}
    PROVE  \E q, r : Splits(n, m, q, r)
<1> DEFINE T == {r \in Nat : \E q \in Nat : n = r + q * m}
<1>1. T \in SUBSET Nat /\ n \in T
  <2>1. n = n + 0 * m /\ 0 \in Nat
    OBVIOUS
  <2> QED
    BY <2>1
<1>2. PICK r \in T : \A x \in T : ~(x < r)
  <2> HIDE DEF T
  <2> QED
    BY <1>1, LeastElement
<1>3. PICK q \in Nat : n = r + q * m
  OBVIOUS
<1>4. r < m
  <2> SUFFICES ASSUME r >= m PROVE FALSE
    OBVIOUS
  <2>1. r - m \in Nat /\ r - m < r /\ q + 1 \in Nat
    OBVIOUS
  <2>2. q * m \in Nat /\ (q + 1) * m = q * m + m
    OBVIOUS
  <2>3. n = (r - m) + (q + 1) * m
    BY <1>3, <2>1, <2>2
  <2> QED
    BY <1>2, <2>1, <2>3
<1>5. r \in 0 .. m - 1
  BY <1>4
<1> QED
  BY <1>3, <1>5 DEF Splits

LEMMA Remainder ==
    ASSUME NEW n, NEW m \in Nat \ {0}, NEW q, NEW r, Splits(n, m, q, r)
    PROVE  (n % m) = r /\ (n \div m) = q
<1>1. q \in Nat /\ r \in 0 .. m - 1 /\ n = r + q * m
  BY DEF Splits
<1>2. ((r + q * m) % m) = r
  BY <1>1
<1>3. ((r + q * m) \div m) = q
  BY <1>1
<1> QED
  BY <1>1, <1>2, <1>3

(* Cycle r + q * Period is the cycle r of the burst q.                     *)
LEMMA InBurst ==
    ASSUME NEW W \in Nat, NEW L \in Nat, NEW c, NEW q, NEW r, Splits(c, Period(L), q, r)
    PROVE  /\ q \in Nat /\ r \in 0 .. L /\ c = r + q * Period(L)
           /\ Issues(W, L, c) <=> r < Burst(W, L)
           /\ Issued(W, L, c) = q * Burst(W, L) + (IF r < Burst(W, L) THEN r ELSE Burst(W, L))
<1>1. Period(L) \in Nat \ {0} /\ Period(L) - 1 = L
  BY DEF Period
<1>2. (c % Period(L)) = r /\ (c \div Period(L)) = q
  BY <1>1, Remainder
<1>3. q \in Nat /\ r \in 0 .. L /\ c = r + q * Period(L)
  BY <1>1 DEF Splits
<1> QED
  BY <1>2, <1>3, Zenon DEF Issues, Issued

(* Cycle c adds its own issue, and no cycle more than one.                 *)
LEMMA IssuedSteps ==
    ASSUME NEW W \in Nat, NEW L \in Nat, NEW c \in Nat
    PROVE  /\ Issued(W, L, c) \in Nat
           /\ Issued(W, L, c) <= c
           /\ Issued(W, L, c + 1) = IF Issues(W, L, c) THEN Issued(W, L, c) + 1 ELSE Issued(W, L, c)
<1> DEFINE P == Period(L)
           B == Burst(W, L)
<1>1. P = L + 1 /\ P \in Nat \ {0} /\ B \in Nat /\ B <= P
  BY DEF Burst, Period
<1>2. PICK q, r : Splits(c, P, q, r)
  BY <1>1, Quotient
<1>3. /\ q \in Nat /\ r \in 0 .. L /\ c = r + q * P
      /\ Issues(W, L, c) <=> r < B
      /\ Issued(W, L, c) = q * B + (IF r < B THEN r ELSE B)
  BY <1>2, InBurst
<1>4. \A x, y : Splits(c + 1, P, x, y) => Issued(W, L, c + 1) = x * B + (IF y < B THEN y ELSE B)
  BY InBurst
<1> HIDE DEF P, B
<1>5. q * B \in Nat /\ q * P \in Nat /\ q * B <= q * P
  <2>1. B * q <= P * q
    BY <1>1, <1>3, Times
  <2> QED
    BY <1>1, <1>3, <2>1
<1>6. (q + 1) * P = q * P + P /\ (q + 1) * B = q * B + B
  BY <1>1, <1>3
<1>7. CASE r < L
  <2>1. Splits(c + 1, P, q, r + 1)
    BY <1>1, <1>3, <1>5, <1>7 DEF Splits
  <2>2. Issued(W, L, c + 1) = q * B + (IF r + 1 < B THEN r + 1 ELSE B)
    BY <1>4, <2>1
  <2> QED
    BY <1>1, <1>3, <1>5, <2>2
<1>8. CASE r = L
  <2>1. Splits(c + 1, P, q + 1, 0)
    BY <1>1, <1>3, <1>5, <1>6, <1>8 DEF Splits
  <2>2. Issued(W, L, c + 1) = (q + 1) * B + (IF 0 < B THEN 0 ELSE B)
    BY <1>4, <2>1
  <2> QED
    BY <1>1, <1>3, <1>5, <1>6, <1>8, <2>2
<1> QED
  BY <1>3, <1>7, <1>8

(* Of two cycles that issue, less than a period apart, the later one       *)
(* follows after less than a burst.                                        *)
LEMMA IssuesApart ==
    ASSUME NEW W \in Nat, NEW L \in Nat, NEW c \in Nat, NEW d \in Nat,
           c < d, d <= c + L, Issues(W, L, c), Issues(W, L, d)
    PROVE  /\ Issued(W, L, c) < Issued(W, L, d)
           /\ Issued(W, L, d) < Issued(W, L, c) + W
<1> DEFINE P == Period(L)
           B == Burst(W, L)
<1>1. P = L + 1 /\ B \in Nat /\ B <= P /\ B <= W /\ P \in Nat \ {0}
  BY DEF Burst, Period
<1>2. PICK q, r : Splits(c, P, q, r)
  BY <1>1, Quotient
<1>3. PICK x, y : Splits(d, P, x, y)
  BY <1>1, Quotient
<1>4. q \in Nat /\ r \in 0 .. L /\ c = r + q * P /\ r < B /\ Issued(W, L, c) = q * B + r
  BY <1>2, InBurst
<1>5. x \in Nat /\ y \in 0 .. L /\ d = y + x * P /\ y < B /\ Issued(W, L, d) = x * B + y
  BY <1>3, InBurst
<1> HIDE DEF P, B
<1>6. q * P \in Nat /\ x * P \in Nat /\ q * B \in Nat /\ x * B \in Nat
  BY <1>1, <1>4, <1>5
<1>7. x = q \/ x = q + 1
  <2>1. ASSUME x < q PROVE FALSE
    <3>1. x * P + P <= q * P
      BY <1>1, <1>4, <1>5, <2>1, Times
    <3> QED
      BY <1>1, <1>4, <1>5, <1>6, <3>1
  <2>2. ASSUME q + 1 < x PROVE FALSE
    <3>1. (q + 1) * P + P <= x * P
      BY <1>1, <1>4, <1>5, <2>2, Times
    <3>2. (q + 1) * P = q * P + P
      BY <1>1, <1>4
    <3> QED
      BY <1>1, <1>4, <1>5, <1>6, <3>1, <3>2
  <2> QED
    BY <1>4, <1>5, <2>1, <2>2
<1>8. CASE x = q
  BY <1>1, <1>4, <1>5, <1>6, <1>8
<1>9. CASE x = q + 1
  <2>1. x * P = q * P + P /\ x * B = q * B + B
    BY <1>1, <1>4, <1>9
  <2> QED
    BY <1>1, <1>4, <1>5, <1>6, <2>1
<1> QED
  BY <1>7, <1>8, <1>9

LEMMA TurnIs ==
    ASSUME NEW W \in Nat \ {0}, NEW L \in Nat, NEW c \in Nat
    PROVE  Turn(W, L, c) \in 0 .. W - 1
<1>1. Issued(W, L, c) \in Nat
  BY IssuedSteps
<1> QED
  BY <1>1 DEF Turn

(* The turns of a window differ.                                           *)
LEMMA TurnsDiffer ==
    ASSUME NEW W \in Nat \ {0}, NEW L \in Nat, NEW c \in Nat, NEW d \in Nat,
           c < d, d <= c + L, Issues(W, L, c), Issues(W, L, d)
    PROVE  Turn(W, L, c) # Turn(W, L, d)
<1> DEFINE a == Issued(W, L, c)
           b == Issued(W, L, d)
<1>1. a \in Nat /\ b \in Nat /\ a < b /\ b < a + W
  BY IssuedSteps, IssuesApart
<1> SUFFICES ASSUME (a % W) = (b % W) PROVE FALSE
  BY DEF Turn
<1> HIDE DEF a, b
<1>2. PICK p, u : Splits(a, W, p, u)
  BY <1>1, Quotient
<1>3. PICK q, v : Splits(b, W, q, v)
  BY <1>1, Quotient
<1>4. u = v
  BY <1>2, <1>3, Remainder
<1>5. p \in Nat /\ q \in Nat /\ u \in Nat /\ a = u + p * W /\ b = u + q * W
  BY <1>2, <1>3, <1>4 DEF Splits
<1>6. p * W \in Nat /\ q * W \in Nat /\ (p < q => p * W + W <= q * W) /\ (q <= p => q * W <= p * W)
  BY <1>5, Times
<1> QED
  BY <1>1, <1>5, <1>6

(* An issue passes the turn on to the next warp.                           *)
LEMMA TurnNext ==
    ASSUME NEW W \in Nat \ {0}, NEW L \in Nat, NEW c \in Nat
    PROVE  Turn(W, L, c + 1) = IF Issues(W, L, c) THEN (Turn(W, L, c) + 1) % W ELSE Turn(W, L, c)
<1> DEFINE a == Issued(W, L, c)
<1>1. a \in Nat
  BY IssuedSteps
<1>2. Issued(W, L, c + 1) = IF Issues(W, L, c) THEN a + 1 ELSE a
  BY IssuedSteps
<1>3. Turn(W, L, c) = (a % W) /\ Turn(W, L, c + 1) = IF Issues(W, L, c) THEN (a + 1) % W ELSE a % W
  BY <1>2 DEF Turn
<1> HIDE DEF a
<1>4. PICK q, u : Splits(a, W, q, u)
  BY <1>1, Quotient
<1>5. q \in Nat /\ u \in 0 .. W - 1 /\ a = u + q * W /\ (a % W) = u
  BY <1>4, Remainder DEF Splits
<1>6. ((a + 1) % W) = ((u + 1) % W)
  <2>1. q * W \in Nat /\ (q + 1) * W = q * W + W
    BY <1>5
  <2>2. CASE u + 1 < W
    <3>1. Splits(a + 1, W, q, u + 1)
      BY <1>5, <2>1, <2>2 DEF Splits
    <3>2. ((a + 1) % W) = u + 1
      BY <3>1, Remainder
    <3>3. ((u + 1) % W) = u + 1
      BY <1>5, <2>2
    <3> QED
      BY <3>2, <3>3
  <2>3. CASE u + 1 = W
    <3>1. Splits(a + 1, W, q + 1, 0)
      BY <1>5, <2>1, <2>3 DEF Splits
    <3>2. ((a + 1) % W) = 0
      BY <3>1, Remainder
    <3>3. (W % W) = 0
      OBVIOUS
    <3> QED
      BY <2>3, <3>2, <3>3
  <2> QED
    BY <1>5, <2>2, <2>3
<1> QED
  BY <1>3, <1>5, <1>6

(* A cycle that does not issue has had the turn of every warp in the       *)
(* window: there are no more warps than cycles in it.                      *)
LEMMA EveryTurn ==
    ASSUME NEW W \in Nat \ {0}, NEW L \in Nat, NEW t \in Nat, ~Issues(W, L, t),
           NEW w \in 0 .. W - 1
    PROVE  \E c \in Window(W, L, t) : Turn(W, L, c) = w
<1> DEFINE P == Period(L)
           B == Burst(W, L)
<1>1. P = L + 1 /\ B \in Nat /\ P \in Nat \ {0} /\ (B = W \/ B = P)
  BY DEF Burst, Period
<1>2. PICK q, r : Splits(t, P, q, r)
  BY <1>1, Quotient
<1>3. q \in Nat /\ r \in 0 .. L /\ t = r + q * P /\ ~(r < B)
  BY <1>2, InBurst
<1>4. B = W /\ w < B /\ w < r /\ w \in 0 .. L
  BY <1>1, <1>3
<1> DEFINE c == w + q * P
<1>5. Splits(c, P, q, w)
  BY <1>1, <1>3, <1>4 DEF Splits
<1>6. Issues(W, L, c) /\ Issued(W, L, c) = q * B + w
  BY <1>4, <1>5, InBurst
<1> HIDE DEF P, B
<1>7. q * P \in Nat
  BY <1>1, <1>3
<1>8. c \in (t - L) .. (t - 1) /\ c >= 0
  BY <1>3, <1>4, <1>7
<1>9. Turn(W, L, c) = w
  <2>1. ((w + q * W) % W) = w
    BY <1>3
  <2>2. Issued(W, L, c) = w + q * W
    BY <1>3, <1>4, <1>6
  <2> QED
    BY <2>1, <2>2 DEF Turn
<1> QED
  BY <1>6, <1>8, <1>9 DEF Window

LEMMA WindowNext ==
    ASSUME NEW W \in Nat, NEW L \in Nat \ {0}, NEW t \in Nat
    PROVE  Window(W, L, t + 1) = (Window(W, L, t) \ {t - L}) \cup (IF Issues(W, L, t) THEN {t} ELSE {})
BY DEF Window

(* Registers 0 and 1 of different warps are different positions.           *)
LEMMA Positions ==
    ASSUME NEW v \in Nat, NEW w \in Nat
    PROVE  /\ v * Regs = w * Regs <=> v = w
           /\ v * Regs # w * Regs + 1
           /\ v * Regs \in Nat
<1>1. Regs \in Nat /\ Regs > 1
  BY SimulationAssumption
<1>2. v * Regs \in Nat /\ w * Regs \in Nat
  BY <1>1
<1>3. (v < w => v * Regs + Regs <= w * Regs) /\ (w < v => w * Regs + Regs <= v * Regs)
  BY <1>1, Times
<1> QED
  BY <1>1, <1>2, <1>3

LEMMA WindowIs ==
    ASSUME NEW W \in Nat, NEW L \in Nat, NEW t \in Nat, NEW c \in Window(W, L, t)
    PROVE  /\ c \in Nat /\ c < t /\ t <= c + L /\ Issues(W, L, c)
           /\ W # 0 /\ Turn(W, L, c) \in 0 .. W - 1
<1>1. c \in Nat /\ c < t /\ t <= c + L /\ Issues(W, L, c)
  BY DEF Window
<1>2. W # 0
  <2>1. (c % Period(L)) \in Nat
    BY <1>1 DEF Period
  <2> QED
    BY <1>1, <2>1 DEF Issues, Burst, Period
<1> QED
  BY <1>1, <1>2, TurnIs

LEMMA EntryIs ==
    ASSUME NEW w \in Nat
    PROVE  [warp_id |-> w, dst |-> 0, has_dst |-> TRUE] # Nullopt
<1>1. [warp_id |-> w, dst |-> 0, has_dst |-> TRUE] \in [warp_id : Nat, dst : Nat, has_dst : BOOLEAN]
  OBVIOUS
<1> QED
  BY <1>1, SimulationAssumption

LEMMA WhoIsEligible ==
    ASSUME NEW W \in Nat, NEW L \in Nat \ {0}, NEW t \in Nat, Scheduled(W, L, t)
    PROVE  /\ \A w \in 0 .. W - 1 : SM(W, L)!HasWork(w)
           /\ \A w \in 0 .. W - 1 : SM(W, L)!NoHazard(w) <=>
                  \A c \in Window(W, L, t) : Turn(W, L, c) # w
<1>1. ASSUME NEW w \in 0 .. W - 1 PROVE warp_instrs[w] = Accumulate /\ state[w] = "READY"
  BY DEF Scheduled
<1>2. ASSUME NEW w \in 0 .. W - 1 PROVE SM(W, L)!HasWork(w)
  BY <1>1, SimulationAssumption DEF SM!HasWork, SM!HasInstr, SM!IsReady
<1>3. ASSUME NEW w \in 0 .. W - 1
      PROVE  SM(W, L)!NoHazard(w) <=> \A c \in Window(W, L, t) : Turn(W, L, c) # w
  <2>1. SM(W, L)!NoHazard(w) <=> w * Regs + 0 \notin busy /\ w * Regs + 1 \notin busy
    BY <1>1 DEF SM!NoHazard, SM!CanIssue, SM!Idx, Accumulate
  <2>2. w * Regs + 0 = w * Regs
    BY SimulationAssumption
  <2>3. busy = {Turn(W, L, c) * Regs : c \in Window(W, L, t)}
    BY DEF Scheduled
  <2>4. \A c \in Window(W, L, t) : /\ Turn(W, L, c) * Regs = w * Regs <=> Turn(W, L, c) = w
                                   /\ Turn(W, L, c) * Regs # w * Regs + 1
    <3>1. \A c \in Window(W, L, t) : Turn(W, L, c) \in Nat
      BY WindowIs
    <3> QED
      BY <3>1, Positions
  <2> QED
    BY <2>1, <2>2, <2>3, <2>4
<1> QED
  BY <1>2, <1>3

(* Which warp the scheduler picks in cycle t. *)
LEMMA WhoIssues ==
    ASSUME NEW W \in Nat, NEW L \in Nat \ {0}, NEW t \in Nat, Scheduled(W, L, t),
           NEW issued, SM(W, L)!TickIssuing(issued)
    PROVE  issued = IF Issues(W, L, t) THEN Turn(W, L, t) ELSE Nullopt
<1> DEFINE eligible == SM(W, L)!EligibleWarps
<1>1. eligible = {w \in 0 .. W - 1 : \A c \in Window(W, L, t) : Turn(W, L, c) # w}
  BY WhoIsEligible DEF SM!EligibleWarps, SM!Eligible, SM!Warp
<1>2. SM(W, L)!Selects(rr_ptr, eligible, issued)
  BY DEF SM!TickIssuing
<1> HIDE DEF eligible
<1>3. CASE Issues(W, L, t)
  <2>1. W # 0
    <3>1. (t % Period(L)) \in Nat
      BY DEF Period
    <3> QED
      BY <1>3, <3>1 DEF Issues, Burst, Period
  <2>2. rr_ptr = Turn(W, L, t) /\ rr_ptr \in 0 .. W - 1
    BY <2>1, TurnIs DEF Scheduled
  <2>3. rr_ptr \in eligible
    <3>1. \A c \in Window(W, L, t) : Turn(W, L, c) # Turn(W, L, t)
      BY <1>3, <2>1, WindowIs, TurnsDiffer
    <3> QED
      BY <1>1, <2>2, <3>1
  <2>4. PICK k \in 0 .. W - 1 :
            /\ issued = (rr_ptr + k) % W
            /\ \A j \in 0 .. k - 1 : ((rr_ptr + j) % W) \notin eligible
    BY <1>2, <2>3 DEF SM!Selects, SM!Scanned, SM!Warp
  <2>5. ((rr_ptr + 0) % W) = rr_ptr
    BY <2>1, <2>2
  <2>6. k = 0
    BY <2>3, <2>4, <2>5
  <2> QED
    BY <1>3, <2>2, <2>4, <2>5, <2>6
<1>4. CASE ~Issues(W, L, t)
  <2>1. eligible = {}
    <3>1. ASSUME NEW w \in 0 .. W - 1 PROVE w \notin eligible
      <4>1. W \in Nat \ {0}
        OBVIOUS
      <4> QED
        BY <1>1, <1>4, <4>1, EveryTurn
    <3> QED
      BY <1>1, <3>1
  <2> QED
    BY <1>2, <1>4, <2>1 DEF SM!Selects
<1> QED
  BY <1>3, <1>4

(* The write-back of cycle t - L clears, the issue of cycle t marks.       *)
LEMMA BusyNext ==
    ASSUME NEW W \in Nat, NEW L \in Nat \ {0}, NEW t \in Nat, Scheduled(W, L, t),
           NEW issued, SM(W, L)!TickIssuing(issued)
    PROVE  busy' = {Turn(W, L, c) * Regs : c \in Window(W, L, t + 1)}
<1> DEFINE Position(c) == Turn(W, L, c) * Regs
           wb      == Occupant(W, L, t - L)
           cleared == {Position(c) : c \in Window(W, L, t) \ {t - L}}
<1>1. stages[0] = wb /\ busy = {Position(c) : c \in Window(W, L, t)}
  BY DEF Scheduled
<1>2. \A n \in Nat : n + 0 = n
  OBVIOUS
<1>3. \A c \in Window(W, L, t) : Turn(W, L, c) \in Nat /\ Position(c) \in Nat
  BY WindowIs, Positions
<1>4. cleared = IF wb # Nullopt /\ wb.has_dst THEN busy \ {SM(W, L)!Idx(wb.warp_id, wb.dst)} ELSE busy
  <2>1. CASE t - L \in Window(W, L, t)
    <3>1. wb = [warp_id |-> Turn(W, L, t - L), dst |-> 0, has_dst |-> TRUE] /\ wb # Nullopt
      BY <1>3, <2>1, EntryIs DEF Occupant, Window
    <3>2. SM(W, L)!Idx(wb.warp_id, wb.dst) = Position(t - L)
      BY <1>2, <1>3, <2>1, <3>1 DEF SM!Idx
    <3>3. \A c \in Window(W, L, t) \ {t - L} : Position(c) # Position(t - L)
      <4>1. ASSUME NEW c \in Window(W, L, t) \ {t - L} PROVE Turn(W, L, c) # Turn(W, L, t - L)
        <5>1. t - L \in Nat /\ c \in Nat /\ t - L < c /\ c <= t - L + L /\ W \in Nat \ {0}
              /\ Issues(W, L, c) /\ Issues(W, L, t - L)
          BY <2>1, WindowIs DEF Window
        <5> QED
          BY <5>1, TurnsDiffer
      <4> QED
        BY <1>3, <2>1, <4>1, Positions
    <3> HIDE DEF Position, wb
    <3>4. cleared = busy \ {Position(t - L)}
      BY <1>1, <2>1, <3>3
    <3> QED
      BY <3>1, <3>2, <3>4
  <2>2. CASE t - L \notin Window(W, L, t)
    <3>1. wb = Nullopt
      BY <2>2 DEF Occupant, Window
    <3> QED
      BY <1>1, <2>2, <3>1
  <2> QED
    BY <2>1, <2>2
<1>5. issued = IF Issues(W, L, t) THEN Turn(W, L, t) ELSE Nullopt
  BY WhoIssues
<1>6. busy' = IF issued # Nullopt /\ warp_instrs[issued].has_dst
              THEN cleared \cup {SM(W, L)!Idx(issued, warp_instrs[issued].dst)} ELSE cleared
  <2> HIDE DEF cleared
  <2> QED
    BY <1>1, <1>4 DEF SM!TickIssuing, SM!ScoreboardNext, SM!Exiting, SM!Clear, SM!MarkBusy
<1>7. CASE Issues(W, L, t)
  <2>1. W # 0 /\ issued \in 0 .. W - 1
    <3>1. (t % Period(L)) \in Nat
      BY DEF Period
    <3>2. W # 0
      BY <1>7, <3>1 DEF Issues, Burst, Period
    <3> QED
      BY <1>5, <1>7, <3>2, TurnIs
  <2>2. issued # Nullopt /\ warp_instrs[issued] = Accumulate
    BY <2>1, SimulationAssumption DEF Scheduled
  <2>3. SM(W, L)!Idx(issued, warp_instrs[issued].dst) = Position(t)
    BY <1>2, <1>5, <1>7, <2>1, <2>2, Positions DEF SM!Idx, Accumulate
  <2>4. busy' = cleared \cup {Position(t)}
    BY <1>6, <2>2, <2>3 DEF Accumulate
  <2> HIDE DEF Position
  <2>5. Window(W, L, t + 1) = (Window(W, L, t) \ {t - L}) \cup {t}
    BY <1>7, WindowNext
  <2>6. busy' = {Position(c) : c \in Window(W, L, t + 1)}
    BY <2>4, <2>5
  <2> QED
    BY <2>6 DEF Position
<1>8. CASE ~Issues(W, L, t)
  <2>1. Window(W, L, t + 1) = Window(W, L, t) \ {t - L}
    BY <1>8, WindowNext
  <2> QED
    BY <1>5, <1>6, <1>8, <2>1
<1> QED
  BY <1>7, <1>8

LEMMA StagesNext ==
    ASSUME NEW W \in Nat, NEW L \in Nat \ {0}, NEW t \in Nat, Scheduled(W, L, t),
           NEW issued, SM(W, L)!TickIssuing(issued)
    PROVE  stages' = [s \in 0 .. L - 1 |-> Occupant(W, L, (t + 1) - L + s)]
<1> DEFINE shifted == [s \in 0 .. L - 1 |-> IF s = L - 1 THEN Nullopt ELSE stages[s + 1]]
<1>1. stages = [s \in 0 .. L - 1 |-> Occupant(W, L, t - L + s)]
  BY DEF Scheduled
<1>2. issued = IF Issues(W, L, t) THEN Turn(W, L, t) ELSE Nullopt
  BY WhoIssues
<1>3. stages' = IF issued = Nullopt THEN shifted
                ELSE [shifted EXCEPT ![L - 1] = [warp_id |-> issued,
                                                 dst     |-> warp_instrs[issued].dst,
                                                 has_dst |-> warp_instrs[issued].has_dst]]
  BY DEF SM!TickIssuing, SM!PipeNext, SM!Shift, SM!Push, SM!Stage
<1>4. \A s \in 0 .. L - 1 : s # L - 1 => shifted[s] = Occupant(W, L, (t + 1) - L + s)
  <2> SUFFICES ASSUME NEW s \in 0 .. L - 1, s # L - 1
               PROVE  shifted[s] = Occupant(W, L, (t + 1) - L + s)
    OBVIOUS
  <2>1. s + 1 \in 0 .. L - 1 /\ t - L + (s + 1) = (t + 1) - L + s
    OBVIOUS
  <2>2. stages[s + 1] = Occupant(W, L, t - L + (s + 1))
    BY <1>1, <2>1
  <2> QED
    BY <2>1, <2>2
<1>5. L - 1 \in 0 .. L - 1 /\ (t + 1) - L + (L - 1) = t
  OBVIOUS
<1>6. CASE Issues(W, L, t)
  <2>1. W # 0 /\ issued \in 0 .. W - 1 /\ issued = Turn(W, L, t)
    <3>1. (t % Period(L)) \in Nat
      BY DEF Period
    <3>2. W # 0
      BY <1>6, <3>1 DEF Issues, Burst, Period
    <3> QED
      BY <1>2, <1>6, <3>2, TurnIs
  <2>2. issued # Nullopt /\ warp_instrs[issued] = Accumulate
    BY <2>1, SimulationAssumption DEF Scheduled
  <2>3. stages' = [shifted EXCEPT ![L - 1] = [warp_id |-> issued, dst |-> 0, has_dst |-> TRUE]]
    BY <1>3, <2>2 DEF Accumulate
  <2>4. Occupant(W, L, t) = [warp_id |-> issued, dst |-> 0, has_dst |-> TRUE]
    BY <1>6, <2>1 DEF Occupant
  <2> QED
    BY <1>4, <1>5, <2>3, <2>4
<1>7. CASE ~Issues(W, L, t)
  <2>1. stages' = shifted /\ Occupant(W, L, t) = Nullopt
    BY <1>2, <1>3, <1>7 DEF Occupant
  <2> QED
    BY <1>4, <1>5, <2>1
<1> QED
  BY <1>6, <1>7

(* No counter wraps: none exceeds the cycles, which stay below CounterMod. *)
LEMMA CountersNextAre ==
    ASSUME NEW W \in Nat, NEW L \in Nat \ {0}, NEW t \in Nat, Scheduled(W, L, t),
           counters \in [Counts -> Nat], counters.cycles = t, t + 1 < CounterMod,
           NEW issued, SM(W, L)!TickIssuing(issued)
    PROVE  /\ counters'.instructions = Issued(W, L, t + 1)
           /\ counters'.cycles_issuing = Issued(W, L, t + 1)
           /\ counters'.stall_data = IF W > 0 THEN (t + 1) - Issued(W, L, t + 1) ELSE 0
           /\ counters'.stall_no_warp = IF W > 0 THEN 0 ELSE t + 1
<1> DEFINE counted == SM(W, L)!Counted(SM(W, L)!Exiting(stages), issued)
           I == Issued(W, L, t)
<1>1. counters' = [c \in DOMAIN counters |->
                      IF c \in counted THEN (counters[c] + 1) % CounterMod ELSE counters[c]]
  BY DEF SM!TickIssuing, SM!CountersNext, SM!Inc
<1>2. issued = IF Issues(W, L, t) THEN Turn(W, L, t) ELSE Nullopt
  BY WhoIssues
<1>3. /\ I \in Nat /\ I <= t
      /\ Issued(W, L, t + 1) = IF Issues(W, L, t) THEN I + 1 ELSE I
  BY IssuedSteps
<1>4. CounterMod \in Nat \ {0} /\ \A n \in Nat : n <= t => ((n + 1) % CounterMod) = n + 1
  BY SimulationAssumption
<1>5. DOMAIN counters = Counts
  OBVIOUS
<1>6. CASE Issues(W, L, t)
  <2>1. W # 0 /\ issued \in 0 .. W - 1
    <3>1. (t % Period(L)) \in Nat
      BY DEF Period
    <3>2. W # 0
      BY <1>6, <3>1 DEF Issues, Burst, Period
    <3> QED
      BY <1>2, <1>6, <3>2, TurnIs
  <2>2. issued # Nullopt
    BY <2>1, SimulationAssumption
  <2>3. /\ "instructions" \in counted /\ "cycles_issuing" \in counted
        /\ "stall_data" \notin counted /\ "stall_no_warp" \notin counted
    BY <2>2 DEF SM!Counted
  <2> HIDE DEF counted, I
  <2>4. /\ counters'.instructions = (counters.instructions + 1) % CounterMod
        /\ counters'.cycles_issuing = (counters.cycles_issuing + 1) % CounterMod
        /\ counters'.stall_data = counters.stall_data /\ counters'.stall_no_warp = counters.stall_no_warp
    BY <1>1, <1>5, <2>3 DEF Counts
  <2>5. /\ counters.instructions = I /\ counters.cycles_issuing = I
        /\ counters.stall_data = t - I /\ counters.stall_no_warp = 0 /\ W > 0
    BY <2>1 DEF Scheduled, I
  <2>6. ((I + 1) % CounterMod) = I + 1
    BY <1>3, <1>4
  <2> QED
    BY <1>3, <1>6, <2>4, <2>5, <2>6
<1>7. CASE ~Issues(W, L, t)
  <2>1. issued = Nullopt
    BY <1>2, <1>7
  <2>2. SM(W, L)!AnyWork <=> W > 0
    BY WhoIsEligible DEF SM!AnyWork, SM!Warp
  <2>3. W > 0 => SM(W, L)!AnyDataStall
    <3>1. ASSUME W > 0 PROVE SM(W, L)!AnyDataStall
      <4>1. 0 \in 0 .. W - 1 /\ W \in Nat \ {0}
        BY <3>1
      <4>2. \E c \in Window(W, L, t) : Turn(W, L, c) = 0
        BY <1>7, <4>1, EveryTurn
      <4> QED
        BY <4>1, <4>2, WhoIsEligible DEF SM!AnyDataStall, SM!Warp
    <3> QED
      BY <3>1
  <2>4. W = 0 => ~SM(W, L)!AnyDataStall
    BY DEF SM!AnyDataStall, SM!Warp
  <2>5. /\ "instructions" \notin counted /\ "cycles_issuing" \notin counted
        /\ "stall_data" \in counted <=> W > 0
        /\ "stall_no_warp" \in counted <=> W = 0
    BY <2>1, <2>2, <2>3, <2>4 DEF SM!Counted
  <2> HIDE DEF counted, I
  <2>6. /\ counters'.instructions = counters.instructions
        /\ counters'.cycles_issuing = counters.cycles_issuing
        /\ counters'.stall_data = IF W > 0 THEN (counters.stall_data + 1) % CounterMod ELSE counters.stall_data
        /\ counters'.stall_no_warp = IF W = 0 THEN (counters.stall_no_warp + 1) % CounterMod
                                              ELSE counters.stall_no_warp
    BY <1>1, <1>5, <2>5 DEF Counts
  <2>7. /\ counters.instructions = I /\ counters.cycles_issuing = I
        /\ counters.stall_data = IF W > 0 THEN t - I ELSE 0
        /\ counters.stall_no_warp = IF W > 0 THEN 0 ELSE t
    BY DEF Scheduled, I
  <2>8. ((t + 1) % CounterMod) = t + 1 /\ ((t - I + 1) % CounterMod) = t - I + 1 /\ t - I + 1 = (t + 1) - I
    BY <1>3, <1>4
  <2> QED
    BY <1>3, <1>7, <2>6, <2>7, <2>8
<1> QED
  BY <1>6, <1>7

LEMMA ScheduleTick ==
    ASSUME ParseOK, OutputOK, ScheduleOK, TickOnce
    PROVE  Scheduled(warps, exec_latency, counters.cycles)'
<1>1. PICK W \in {warps}, L \in {exec_latency} \ {0} : SM(W, L)!Tick
  BY DEF TickOnce
<1>2. PICK issued : SM(W, L)!TickIssuing(issued)
  BY <1>1 DEF SM!Tick
<1>3. PICK t : t = counters.cycles
  OBVIOUS
<1>4. W = warps /\ L = exec_latency /\ W' = warps' /\ L' = exec_latency'
  BY <1>1 DEF TickOnce, cliVars, warps, exec_latency
<1>5. Scheduled(W, L, t)
  BY <1>3, <1>4 DEF ScheduleOK, TickOnce
<1>6. W \in Nat /\ L \in Nat \ {0}
  BY <1>1, <1>5 DEF Scheduled
<1>7. counters \in [Counts -> Nat] /\ t \in Nat /\ t + 1 < CounterMod
  <2>1. counters \in [Counts -> Nat] /\ t \in Nat
    BY <1>3 DEF OutputOK, Counts
  <2> QED
    BY <1>3, <2>1, CyclesAre DEF TickOnce
<1>8. counters'.cycles = t + 1
  BY <1>3, CountersTick
<1>9. warp_instrs' = warp_instrs /\ state' = state
  BY <1>2 DEF SM!TickIssuing
<1>10. W > 0 => rr_ptr' = Turn(W, L, t + 1)
  <2> SUFFICES ASSUME W > 0 PROVE rr_ptr' = Turn(W, L, t + 1)
    OBVIOUS
  <2>1. W \in Nat \ {0} /\ Turn(W, L, t) \in 0 .. W - 1
    <3>1. W \in Nat \ {0}
      BY <1>6
    <3> QED
      BY <1>6, <1>7, <3>1, TurnIs
  <2>2. Turn(W, L, t) # Nullopt
    BY <2>1, SimulationAssumption
  <2>3. issued = IF Issues(W, L, t) THEN Turn(W, L, t) ELSE Nullopt
    BY <1>2, <1>5, <1>6, <1>7, WhoIssues
  <2>4. rr_ptr' = IF issued = Nullopt THEN rr_ptr ELSE (issued + 1) % W
    BY <1>2 DEF SM!TickIssuing, SM!Advance
  <2>5. rr_ptr = Turn(W, L, t)
    BY <1>5 DEF Scheduled
  <2>6. Turn(W, L, t + 1) = IF Issues(W, L, t) THEN (Turn(W, L, t) + 1) % W ELSE Turn(W, L, t)
    BY <1>6, <1>7, <2>1, TurnNext
  <2> QED
    BY <2>2, <2>3, <2>4, <2>5, <2>6
<1>11. stages' = [s \in 0 .. L - 1 |-> Occupant(W, L, (t + 1) - L + s)]
  BY <1>2, <1>5, <1>6, <1>7, StagesNext
<1>12. busy' = {Turn(W, L, c) * Regs : c \in Window(W, L, t + 1)}
  BY <1>2, <1>5, <1>6, <1>7, BusyNext
<1>13. /\ counters'.instructions = Issued(W, L, t + 1)
       /\ counters'.cycles_issuing = Issued(W, L, t + 1)
       /\ counters'.stall_data = IF W > 0 THEN (t + 1) - Issued(W, L, t + 1) ELSE 0
       /\ counters'.stall_no_warp = IF W > 0 THEN 0 ELSE t + 1
  BY <1>2, <1>3, <1>5, <1>6, <1>7, CountersNextAre
<1>14. Scheduled(W, L, t + 1)'
  <2>1. /\ warp_instrs' = [w \in 0 .. W - 1 |-> Accumulate]
        /\ state' = [w \in 0 .. W - 1 |-> "READY"]
    BY <1>5, <1>9 DEF Scheduled
  <2>2. W \in Nat /\ L \in Nat
    BY <1>6
  <2> QED
    BY <1>10, <1>11, <1>12, <1>13, <2>1, <2>2, Zenon DEF Scheduled
<1> QED
  BY <1>4, <1>8, <1>14

LEMMA ScheduleInit == Init => ScheduleOK
<1> SUFFICES ASSUME Init PROVE ScheduleOK
  OBVIOUS
<1>1. /\ busy = {} /\ rr_ptr = 0 /\ pc = "parse"
      /\ counters = [cycles |-> 0, instructions |-> 0, stall_data |-> 0,
                     stall_no_warp |-> 0, cycles_issuing |-> 0, wb_count |-> 0]
  BY DEF Init, SM!Init, SM!Constructed, SM!ZeroCounters, SM!NothingBusy
<1>2. \A c \in Counts : counters[c] = 0
  BY <1>1 DEF Counts
<1> QED
  BY <1>1, <1>2 DEF ScheduleOK

(* the MiniSM that Configure builds *)
LEMMA ScheduleConfigure ==
    ASSUME ParseOK, OutputOK, ScheduleOK, Configure
    PROVE  Scheduled(warps, exec_latency, counters.cycles)'
<1>1. PICK W \in {warps} \cap Nat, L \in {exec_latency} \cap Nat :
          /\ state' = SM(W, L)!AllReady
          /\ stages' = SM(W, L)!EmptyPipe
          /\ warp_instrs' = [w \in 0 .. W - 1 |-> Accumulate]
  BY DEF Configure
<1>2. /\ W = warps /\ L = exec_latency /\ warps' = warps /\ exec_latency' = exec_latency
      /\ pc = "parse" /\ busy' = busy /\ rr_ptr' = rr_ptr /\ counters' = counters
  BY <1>1 DEF Configure, cliVars, warps, exec_latency
<1>3. /\ busy' = {} /\ rr_ptr' = 0 /\ counters'.cycles = 0
      /\ counters'.instructions = 0 /\ counters'.cycles_issuing = 0
      /\ counters'.stall_data = 0 /\ counters'.stall_no_warp = 0
  BY <1>2 DEF ScheduleOK, Counts
<1>4. state' = [w \in 0 .. W - 1 |-> "READY"]
  BY <1>1 DEF SM!AllReady, SM!Warp
<1>5. Issued(W, L, 0) = 0
  <2>1. PICK t \in Nat : t = 0
    OBVIOUS
  <2>2. Issued(W, L, t) \in Nat /\ Issued(W, L, t) <= t
    BY IssuedSteps
  <2> QED
    BY <2>1, <2>2
<1>6. W > 0 => rr_ptr' = Turn(W, L, 0)
  BY <1>3, <1>5 DEF Turn
<1>7. stages' = [s \in 0 .. L - 1 |-> Occupant(W, L, 0 - L + s)]
  <2>1. \A s \in 0 .. L - 1 : Occupant(W, L, 0 - L + s) = Nullopt
    <3>1. \A s \in 0 .. L - 1 : ~(0 - L + s >= 0)
      OBVIOUS
    <3> QED
      BY <3>1 DEF Occupant
  <2> QED
    BY <1>1, <2>1 DEF SM!EmptyPipe, SM!Stage
<1>8. busy' = {Turn(W, L, c) * Regs : c \in Window(W, L, 0)}
  <2>1. Window(W, L, 0) = {}
    BY DEF Window
  <2> QED
    BY <1>3, <2>1
<1>9. 0 - Issued(W, L, 0) = 0
  BY <1>5
<1>10. /\ counters'.stall_data = IF W > 0 THEN 0 - Issued(W, L, 0) ELSE 0
       /\ counters'.stall_no_warp = IF W > 0 THEN 0 ELSE 0
  BY <1>3, <1>9
<1>11. Scheduled(W, L, 0)'
  BY <1>1, <1>3, <1>4, <1>5, <1>6, <1>7, <1>8, <1>10, Zenon DEF Scheduled
<1> QED
  BY <1>2, <1>3, <1>11

LEMMA ScheduleStep == ParseOK /\ OutputOK /\ ScheduleOK /\ [Next]_vars => ScheduleOK'
<1> SUFFICES ASSUME ParseOK, OutputOK, ScheduleOK, [Next]_vars PROVE ScheduleOK'
  OBVIOUS
<1>1. ASSUME pc = "parse", pc' \in {"parse", "usage", "aborted"}, UNCHANGED smVars
      PROVE  ScheduleOK'
  BY <1>1 DEF ScheduleOK, smVars
<1>2. ASSUME ParseNumber \/ ParseFile \/ ParseOther \/ ParseNonNumber \/ ParseHelp \/ ConfigureThrows
      PROVE  ScheduleOK'
  BY <1>1, <1>2 DEF ParseNumber, ParseFile, ParseOther, ParseNonNumber, ParseHelp, ConfigureThrows,
     Parsing, Abort
<1>3. ASSUME Configure PROVE ScheduleOK'
  <2>1. pc' = "run"
    BY <1>3 DEF Configure
  <2> QED
    BY <1>3, <2>1, ScheduleConfigure DEF ScheduleOK
<1>4. ASSUME TickOnce PROVE ScheduleOK'
  <2>1. pc' = "run"
    BY <1>4 DEF TickOnce
  <2> QED
    BY <1>4, <2>1, ScheduleTick DEF ScheduleOK
<1>5. ASSUME TickUndefined \/ OpenFails PROVE ScheduleOK'
  BY <1>5 DEF TickUndefined, OpenFails, Abort, ScheduleOK
<1>6. ASSUME UNCHANGED <<config, smVars>> PROVE Scheduled(warps, exec_latency, counters.cycles)' <=>
                                                Scheduled(warps, exec_latency, counters.cycles)
  <2>1. PICK W, L, t : W = warps /\ L = exec_latency /\ t = counters.cycles
    OBVIOUS
  <2>2. W = warps' /\ L = exec_latency' /\ t = counters'.cycles
    BY <1>6, <2>1 DEF warps, exec_latency, smVars
  <2>3. Scheduled(W, L, t)' <=> Scheduled(W, L, t)
    BY <1>6 DEF Scheduled, smVars
  <2> QED
    BY <2>1, <2>2, <2>3
<1>7. ASSUME PrintStats \/ WriteFile PROVE ScheduleOK'
  <2>1. pc \in {"run", "write"} /\ pc' \in {"write", "exit"} /\ UNCHANGED <<config, smVars>>
    BY <1>7 DEF PrintStats, WriteFile, cliVars
  <2> QED
    BY <1>6, <2>1 DEF ScheduleOK
<1>8. ASSUME UNCHANGED vars PROVE ScheduleOK'
  <2>1. pc' = pc /\ UNCHANGED <<config, smVars>>
    BY <1>8 DEF vars, cliVars
  <2> QED
    BY <1>6, <2>1 DEF ScheduleOK, smVars
<1> QED
  BY <1>2, <1>3, <1>4, <1>5, <1>7, <1>8 DEF Next

LEMMA ScheduleLaw == OutputOK /\ ScheduleOK => IpcLaw
<1> SUFFICES ASSUME OutputOK, ScheduleOK, pc \in {"run", "write", "exit"} PROVE IpcLaw
  BY DEF IpcLaw
<1>1. PICK W, L, t : W = warps /\ L = exec_latency /\ t = counters.cycles
  OBVIOUS
<1>2. Scheduled(W, L, t) /\ t \in Nat
  BY <1>1 DEF ScheduleOK, OutputOK, Counts
<1>3. W \in Nat /\ L \in Nat
  BY <1>2 DEF Scheduled
<1>4. IssuedAfter(counters.cycles) = Issued(W, L, t)
  BY <1>1 DEF IssuedAfter, Issued, Burst, Period
<1>5. Issued(W, L, t) \in Nat /\ (W = 0 => Issued(W, L, t) = 0)
  <2>1. W = 0 => Issued(W, L, t) = 0
    <3> SUFFICES ASSUME W = 0 PROVE Issued(W, L, t) = 0
      OBVIOUS
    <3>1. Burst(W, L) = 0 /\ Period(L) \in Nat \ {0}
      BY <1>3 DEF Burst, Period
    <3>2. PICK q, r : Splits(t, Period(L), q, r)
      BY <1>2, <3>1, Quotient
    <3>3. q \in Nat /\ r \in 0 .. L /\ Issued(W, L, t) = q * Burst(W, L) + (IF r < Burst(W, L) THEN r ELSE Burst(W, L))
      BY <1>3, <3>2, InBurst
    <3> QED
      BY <3>1, <3>3
  <2> QED
    BY <1>2, <1>3, <2>1, IssuedSteps
<1>6. /\ counters.instructions = Issued(W, L, t) /\ counters.cycles_issuing = Issued(W, L, t)
      /\ counters.stall_data = IF W > 0 THEN t - Issued(W, L, t) ELSE 0
      /\ counters.stall_no_warp = IF W > 0 THEN 0 ELSE t
  BY <1>2 DEF Scheduled
<1>7. counters.stall_data + counters.stall_no_warp = t - Issued(W, L, t)
  BY <1>2, <1>3, <1>5, <1>6
<1> QED
  BY <1>1, <1>3, <1>4, <1>6, <1>7 DEF IpcLaw

(* The throughput that main.cpp:7-10 announces, exactly and for every      *)
(* number of warps, every latency and after every number of cycles: bursts *)
(* of as many issues as there are warps, one burst every exec_latency + 1  *)
(* cycles, and a cycle that issues nothing is a data stall (mini_sm.cpp:   *)
(* 20-72).                                                                 *)
THEOREM ThroughputLaw == Spec => []IpcLaw
<1> QED
  BY ParseInit, ParseStep, OutputInit, OutputStep, ScheduleInit, ScheduleStep, ScheduleLaw, PTL DEF Spec
=============================================================================
