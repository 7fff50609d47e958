---------------------------- MODULE MCSimulation ----------------------------
EXTENDS Simulation

(* What an argument may be: every option by at least one of its names, the *)
(* help, numbers, a word and the empty word.                               *)
Words == {"--warps", "-w", "--exec-latency", "-c", "-s", "-h", "", "stats.txt", "0", "2", "5", "-1"}

(* the command line of perf_sweep.py *)
SweepArgv == <<"--warps", "2", "--exec-latency", "2", "--cycles", "12", "--stats-file", "stats.txt">>

CommandLines == {SweepArgv} \cup UNION {[1 .. n -> Words] : n \in 0 .. 4}

SmallNumerals == [numeral \in {"0", "2", "5", "12", "-1"} |->
                      CASE numeral = "0"  -> 0
                        [] numeral = "2"  -> 2
                        [] numeral = "5"  -> 5
                        [] numeral = "12" -> 12
                        [] numeral = "-1" -> -1]
=============================================================================
