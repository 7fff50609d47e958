----------------------------- MODULE Simulation -----------------------------
(***************************************************************************)
(* The program mini_sm_sim (sim/src/main.cpp): it reads its arguments,     *)
(* builds a Mini-SM of that configuration, in which every warp presents    *)
(* r0 + r1 -> r0 forever, calls tick() `--cycles' times, prints the        *)
(* counters and, with --stats-file, writes them to a file.                 *)
(*                                                                         *)
(* The file system may refuse to open the file, and what is written to it  *)
(* or to stdout may be cut short at any character; the program notices the *)
(* first only.                                                             *)
(***************************************************************************)
EXTENDS Integers, Sequences

CONSTANTS
    Argvs,         \* the argument lists: sequences of strings
    Numerals,      \* the strings that std::stoi accepts, with their values
    DefaultCycles, \* 2000 in the code
    WritesFail,    \* whether what is written may be cut short
    Regs, CounterMod, Nullopt

(* what an option sets, by its long and its short name                     *)
Key == [option \in {"--warps", "-w", "--exec-latency", "-l", "--cycles", "-c",
                    "--stats-file", "-s"} |->
            CASE option \in {"--warps", "-w"}        -> "warps"
              [] option \in {"--exec-latency", "-l"} -> "exec_latency"
              [] option \in {"--cycles", "-c"}       -> "cycles"
              [] OTHER                               -> "stats_file"]

FileOptions == {option \in DOMAIN Key : Key[option] = "stats_file"}
NumberOptions == DOMAIN Key \ FileOptions
HelpOptions == {"--help", "-h"}

(* r0 + r1 -> r0, what every warp presents                                 *)
Accumulate == [src0 |-> 0, src1 |-> 1, dst |-> 0, has_dst |-> TRUE]

(* the keys of the statistics file, in order *)
FileKeys == <<"cycles", "instructions", "stall_data", "stall_structural",
              "stall_memory", "stall_no_warp", "cycles_issuing", "wb_count",
              "total_diverge_events", "masked_thread_cycles">>

(* a line that was cut before its first digit has no number *)
FileLine == {FileKeys[k] : k \in 1 .. Len(FileKeys)} \X (Nat \cup {Nullopt})

(* what stdout shows in addition, as numerator and denominator; a          *)
(* percentage keeps its quotient                                           *)
Quotients == <<"ipc", "warp_efficiency">>

(* A number of cycles is an int and fits into a counter, a uint64_t.       *)
ASSUME SimulationAssumption ==
    /\ \A argv \in Argvs : argv \in Seq(STRING)
    /\ \A numeral \in DOMAIN Numerals : Numerals[numeral] \in Int /\ Numerals[numeral] < CounterMod
    /\ DefaultCycles \in Int /\ DefaultCycles < CounterMod
    /\ CounterMod \in Nat \ {0}
    /\ Regs \in Nat /\ Regs > 1
    /\ WritesFail \in BOOLEAN
    /\ Nullopt \notin {Accumulate} \cup Nat \cup Seq(FileLine)
    /\ Nullopt \notin [warp_id : Nat, dst : Nat, has_dst : BOOLEAN]

VARIABLES
    pc,     \* where main is
    argv, i,
    config, \* warps, exec_latency, cycles and stats_file
    stdout, \* the lines that are printed: pairs of key and value
    file,   \* the lines of the file, Nullopt while there is none
    warp_instrs, busy, state, rr_ptr, stages, counters, out \* the MiniSM

cliVars == <<argv, i, config>>
smVars == <<warp_instrs, busy, state, rr_ptr, stages, counters, out>>
vars == <<pc, cliVars, stdout, file, smVars>>

(* a MiniSM with W warps and a latency of L                                *)
SM(W, L) == INSTANCE MiniSM WITH
                Warps <- W, ExecLatency <- L, Program <- {Accumulate}

NoFile == "" \* no path was given

Defaults == [warps |-> 4, exec_latency |-> 4, cycles |-> DefaultCycles, stats_file |-> NoFile]

Init ==
    /\ pc = "parse"
    /\ argv \in Argvs
    /\ i = 1
    /\ config = Defaults
    /\ stdout = <<>>
    /\ file = Nullopt
    /\ SM(1, 1)!Init \* a MiniSM of any size: Configure gives it its own

-----------------------------------------------------------------------------
(* The loop over the arguments *)

Parsing == pc = "parse" /\ i <= Len(argv) /\ UNCHANGED <<argv, stdout, file, smVars>>

(* an option is one only if an argument follows it                         *)
HasValue(options) == argv[i] \in options /\ i < Len(argv)

Abort == pc' = "aborted"

ParseNumber ==
    /\ Parsing
    /\ HasValue(NumberOptions)
    /\ argv[i + 1] \in DOMAIN Numerals
    /\ config' = [config EXCEPT ![Key[argv[i]]] = Numerals[argv[i + 1]]]
    /\ i' = i + 2
    /\ UNCHANGED pc

(* std::stoi throws, and nobody catches                                    *)
ParseNonNumber ==
    /\ Parsing
    /\ HasValue(NumberOptions)
    /\ argv[i + 1] \notin DOMAIN Numerals
    /\ Abort
    /\ UNCHANGED <<i, config>>

(* a bug to catch: the path is looked at again as an option *)
RereadFile ==
    /\ Parsing
    /\ HasValue(FileOptions)
    /\ config' = [config EXCEPT !.stats_file = argv[i + 1]]
    /\ i' = i + 1
    /\ UNCHANGED pc

ParseFile ==
    /\ Parsing
    /\ HasValue(FileOptions)
    /\ config' = [config EXCEPT !.stats_file = argv[i + 1]]
    /\ i' = i + 2
    /\ UNCHANGED pc

ParseHelp ==
    /\ Parsing
    /\ argv[i] \in HelpOptions
    /\ pc' = "usage"
    /\ UNCHANGED <<i, config>>

(* anything else is passed over, an option without a value too             *)
ParseOther ==
    /\ Parsing
    /\ ~HasValue(DOMAIN Key)
    /\ argv[i] \notin HelpOptions
    /\ i' = i + 1
    /\ UNCHANGED <<pc, config>>

-----------------------------------------------------------------------------
(* The simulation *)

warps        == config.warps
exec_latency == config.exec_latency
cycles       == config.cycles

(* a vector with a negative number of elements cannot be built             *)
ConfigureThrows ==
    /\ pc = "parse"
    /\ i > Len(argv)
    /\ warps < 0 \/ exec_latency < 0
    /\ Abort
    /\ UNCHANGED <<cliVars, stdout, file, smVars>>

Configure ==
    /\ pc = "parse"
    /\ i > Len(argv)
    /\ \E W \in {warps} \cap Nat, L \in {exec_latency} \cap Nat :
           /\ state' = SM(W, L)!AllReady
           /\ stages' = SM(W, L)!EmptyPipe
           /\ warp_instrs' = [w \in 0 .. W - 1 |-> Accumulate]
    /\ pc' = "run"
    /\ UNCHANGED <<cliVars, stdout, file, busy, rr_ptr, counters, out>>

(* a bug to catch: one tick too many *)
TickOnceMore ==
    /\ pc = "run"
    /\ counters.cycles <= cycles
    /\ \E W \in {warps}, L \in {exec_latency} \ {0} : SM(W, L)!Tick
    /\ UNCHANGED <<pc, cliVars, stdout, file>>

TickOnce ==
    /\ pc = "run"
    /\ counters.cycles < cycles
    /\ \E W \in {warps}, L \in {exec_latency} \ {0} : SM(W, L)!Tick
    /\ UNCHANGED <<pc, cliVars, stdout, file>>

(* The pipe has no stage 0: undefined behaviour, followed no further.      *)
TickUndefined ==
    /\ pc = "run"
    /\ counters.cycles < cycles
    /\ exec_latency = 0
    /\ pc' = "undefined"
    /\ UNCHANGED <<cliVars, stdout, file, smVars>>

-----------------------------------------------------------------------------
(* The statistics *)

ipc             == IF counters.cycles > 0 THEN <<counters.instructions, counters.cycles>> ELSE <<0, 1>>
warp_efficiency == IF counters.cycles > 0 THEN <<counters.cycles_issuing, counters.cycles>> ELSE <<0, 1>>

Value(key) == CASE key \in DOMAIN counters    -> counters[key]
                [] key = "ipc"                -> ipc
                [] key = "warp_efficiency"    -> warp_efficiency
                [] OTHER                      -> 0 \* never incremented

Lines(keys) == [k \in 1 .. Len(keys) |-> <<keys[k], Value(keys[k])>>]

FileLines   == Lines(FileKeys)
StdoutLines == Lines(FileKeys \o Quotients)

(* the number that its leading digits make; it has ten of them at most     *)
Leading(v) == {n \in 1 .. v : \E k \in 1 .. 9 : n = v \div 10^k}

(* What is left of the value of a line that is cut; that of a quotient is  *)
(* not looked at.                                                          *)
Remains(line) ==
    {Nullopt} \cup IF line[1] \in {"ipc", "warp_efficiency"} THEN {} ELSE Leading(line[2])

(* what has been written, when nobody looks at the stream after writing    *)
Written(lines) ==
    IF ~WritesFail THEN {lines}
    ELSE {SubSeq(lines, 1, n) : n \in 0 .. Len(lines)}
             \cup UNION {{Append(SubSeq(lines, 1, n - 1), <<lines[n][1], rest>>) :
                              rest \in Remains(lines[n])} : n \in 1 .. Len(lines)}

PrintStats ==
    /\ pc = "run"
    /\ counters.cycles >= cycles
    /\ stdout' \in Written(StdoutLines)
    /\ pc' = IF config.stats_file = NoFile THEN "exit" ELSE "write"
    /\ UNCHANGED <<cliVars, file, smVars>>

(* A process that aborts does not flush its standard output.               *)
OpenFails ==
    /\ pc = "write"
    /\ Abort
    /\ stdout' \in {stdout, <<>>}
    /\ UNCHANGED <<cliVars, file, smVars>>

WriteFile ==
    /\ pc = "write"
    /\ file' \in Written(FileLines)
    /\ pc' = "exit"
    /\ UNCHANGED <<cliVars, stdout, smVars>>

Next == \/ ParseNumber \/ ParseNonNumber \/ ParseFile \/ ParseHelp \/ ParseOther
        \/ ConfigureThrows \/ Configure \/ TickOnce \/ TickUndefined
        \/ PrintStats \/ OpenFails \/ WriteFile

Spec == Init /\ [][Next]_vars

-----------------------------------------------------------------------------
(* What the command line means, said without a loop: an argument is a      *)
(* value if the one before it is an option that is not a value itself.     *)
IsValue[p \in 1 .. Len(argv)] ==
    p > 1 /\ argv[p - 1] \in DOMAIN Key /\ ~IsValue[p - 1]

ValuesOf(key) == {p \in 2 .. Len(argv) : IsValue[p] /\ Key[argv[p - 1]] = key}

BadNumbers == {p \in 2 .. Len(argv) : /\ IsValue[p]
                                      /\ argv[p - 1] \in NumberOptions
                                      /\ argv[p] \notin DOMAIN Numerals}

Helps == {p \in 1 .. Len(argv) : argv[p] \in HelpOptions /\ ~IsValue[p]}

Meant(key) ==
    IF ValuesOf(key) = {} THEN Defaults[key]
    ELSE LET last == argv[CHOOSE p \in ValuesOf(key) : \A q \in ValuesOf(key) : q <= p]
         IN  IF key = "stats_file" THEN last ELSE Numerals[last]

(* The command line means what the usage text says, for every list of      *)
(* arguments: the last value given to an option counts, an option that     *)
(* comes last, or that is itself a value, is none, and the first help or   *)
(* malformed number decides how the program ends (main.cpp:46-59).         *)
ParsesAsMeant ==
    LET ends == BadNumbers \cup Helps
        first == CHOOSE p \in ends : \A q \in ends : p <= q
    IN  /\ pc = "usage" => ends # {} /\ first \in Helps
        /\ pc \in {"run", "write", "exit", "undefined"} =>
               ends = {} /\ \A key \in DOMAIN config : config[key] = Meant(key)
        /\ pc = "aborted" => IF ends = {}
                              THEN warps < 0 \/ exec_latency < 0 \/ Meant("stats_file") # NoFile
                              ELSE first \in BadNumbers

(* The throughput main.cpp:7-10 announces, exactly: a warp whose           *)
(* instruction is in the pipe waits for its write-back and one more cycle, *)
(* so a burst of as many issues as there are warps repeats every           *)
(* exec_latency + 1 cycles and, with more warps than the latency, every    *)
(* cycle issues.                                                           *)
IssuedAfter(t) ==
    LET period == exec_latency + 1
        burst  == IF warps < period THEN warps ELSE period
        phase  == t % period
    IN  (t \div period) * burst + (IF phase < burst THEN phase ELSE burst)

(* The statistics follow that law after every tick, for every number of    *)
(* warps and every latency, and a cycle that issues nothing is a data      *)
(* stall unless there is no warp at all.                                   *)
IpcLaw ==
    pc \in {"run", "write", "exit"} =>
        /\ counters.instructions = IssuedAfter(counters.cycles)
        /\ counters.cycles_issuing = counters.instructions
        /\ counters.stall_data + counters.stall_no_warp = counters.cycles - counters.instructions
        /\ IF warps = 0 THEN counters.stall_data = 0 ELSE counters.stall_no_warp = 0

(* every line but the last is one of all, and all are there if no write    *)
(* has failed                                                              *)
UpToCut(lines, all) ==
    /\ Len(lines) <= Len(all)
    /\ \A k \in 1 .. Len(lines) : \/ lines[k] = all[k]
                                  \/ k = Len(lines) /\ lines[k][1] = all[k][1]
    /\ ~WritesFail => lines = all

(* Exit code 0 after a simulation: the cycles that were asked for have     *)
(* been simulated, a file exists exactly if one was named, and it and      *)
(* stdout say what was counted at the end, to the last line but one        *)
(* however the writing went (main.cpp:61-105).                             *)
CleanExit ==
    pc = "exit" =>
        /\ counters.cycles = IF cycles > 0 THEN cycles ELSE 0
        /\ (file = Nullopt) = (Meant("stats_file") = NoFile)
        /\ UpToCut(stdout, StdoutLines)
        /\ file # Nullopt => UpToCut(file, FileLines)
=============================================================================
