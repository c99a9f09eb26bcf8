------------------------------ MODULE CommandLine ------------------------------
(***************************************************************************)
(* One execution of the program: the commands run, compare and visualize   *)
(* of cli/commands.py, with the settings they build (config.py), the       *)
(* comparison loop (engine/runner.py) and the files they write.  The       *)
(* engine of EventLog is the one inside; a command starts it afresh for    *)
(* every strategy.                                                         *)
(*                                                                         *)
(* The parser is modelled in CsvParser.  Here a command comes with the     *)
(* list the parser makes of its input file, and loading the file may fail. *)
(***************************************************************************)
EXTENDS SimulationProps, EventLog, Reports, Comparison

CONSTANT Commands   \* the command lines that may be given

CommandNames == {"run", "compare", "visualize"}

\* parse_csv() returns valid requests with distinct ids, ordered by time
\* (EngineTakesFiles in CsvParserProofs).
ASSUME CommandAssumption ==
  /\ {"nearest_car", "round_robin", "zone_based"} \subseteq Injected
  /\ Commands \subseteq [name: CommandNames, strategies: Seq(STRING),
                         output_dir: BOOLEAN, parsed: Seq(Request)]
  /\ \A c \in Commands :
       /\ c.parsed \in Workloads
       /\ c.name = "run" => Len(c.strategies) = 1
       /\ \A p \in DOMAIN c.parsed :
            /\ ValidRequest(c.parsed[p])
            /\ \A q \in DOMAIN c.parsed : p < q =>
                 /\ c.parsed[p].passenger_id # c.parsed[q].passenger_id
                 /\ c.parsed[p].request_time <= c.parsed[q].request_time

VARIABLES command,    \* the command line
          step,       \* how far the command is, or how it ended
          remaining,  \* the strategy names run_comparison() has still to run
          names,      \* the keys of the dict `results', in its order
          results,    \* strategy name -> SimulationResult
          shown,      \* what was printed, by strategy
          to_write,   \* the files still to be written
          files,      \* what has been written into the output directory
          torn        \* the file whose write broke off, if it had been opened

commandVars == <<command, step, remaining, names, results, shown, to_write, files, torn>>
allVars == <<logVars, commandVars>>

\* The registry of strategies.py, and available_strategies(): sorted.
Registry == {"nearest_car", "round_robin", "zone_based"}
Available == <<"nearest_car", "round_robin", "zone_based">>

\* validate_strategy() of config.py.
AcceptedStrategies == Registry \cup {"all"}

DefaultStrategy == "nearest_car"

\* Ended well, by a ValidationError, an error of the parser, the ValueError of
\* get_strategy(), an ImportError, a ZeroDivisionError, an OSError.
Over == {"DONE", "INVALID_SETTINGS", "INPUT_ERROR", "UNKNOWN_STRATEGY",
         "NO_MATPLOTLIB", "ZERO_DIVISION", "WRITE_ERROR"}

NoFunction == [key \in {} |-> 0]

With(f, key, value) ==
  [x \in DOMAIN f \cup {key} |-> IF x = key THEN value ELSE f[x]]

\* Until an engine is created its variables say nothing.
CommandInit ==
  /\ command \in Commands
  /\ requests = command.parsed
  /\ strategy = DefaultStrategy
  /\ LogInit
  /\ step = "SETTINGS"
  /\ remaining = command.strategies
  /\ names = <<>>
  /\ results = NoFunction
  /\ shown = NoFunction
  /\ to_write = <<>>
  /\ files = NoFunction
  /\ torn = {}

-----------------------------------------------------------------------------
(* Settings and input *)

\* Only run passes a strategy; the others keep the default.
BuildSettings ==
  /\ step = "SETTINGS"
  /\ step' = IF command.name = "run" /\ command.strategies[1] \notin AcceptedStrategies
             THEN "INVALID_SETTINGS" ELSE "LOAD"
  /\ UNCHANGED <<logVars, command, remaining, names, results, shown, to_write, files, torn>>

\* The file may be missing, unreadable or rejected.
LoadInput ==
  /\ step = "LOAD"
  /\ step' \in {"NEXT_STRATEGY", "INPUT_ERROR"}
  /\ UNCHANGED <<logVars, command, remaining, names, results, shown, to_write, files, torn>>

-----------------------------------------------------------------------------
(* The comparison loop; run makes a single pass through it *)

\* A fault: get_strategy() hands out the one instance of the registry.
SharedStrategy(name) == strategy' = name /\ UNCHANGED next_index

\* get_strategy(): a new instance.
GetStrategy(name) == strategy' = name /\ next_index' = 0

\* SimulationEngine() and initialize().
FreshEngine ==
  /\ tick' = 0
  /\ phase' = "START"
  /\ unassigned' = {}
  /\ status' = [p \in Passengers |-> "ABSENT"]
  /\ assigned_elevator' = [p \in Passengers |-> None]
  /\ assigned_time' = [p \in Passengers |-> None]
  /\ pickup_time' = [p \in Passengers |-> None]
  /\ delivery_time' = [p \in Passengers |-> None]
  /\ elevators' = [e \in Elevators |-> IdleCar(StartFloor(e))]
  /\ position_log' = [rows |-> 0, last |-> [e \in Elevators |-> StartFloor(e)]]
  /\ events' = <<>>
  /\ position_rows' = <<>>
  /\ UNCHANGED requests

\* An unknown name raises ValueError, and what has run before it is lost.
NextStrategy ==
  /\ step = "NEXT_STRATEGY"
  /\ remaining # <<>>
  /\ IF Head(remaining) \in Registry
     THEN step' = "SIMULATE" /\ GetStrategy(Head(remaining)) /\ FreshEngine
     ELSE step' = "UNKNOWN_STRATEGY" /\ UNCHANGED logVars
  /\ UNCHANGED <<command, remaining, names, results, shown, to_write, files, torn>>

Simulate ==
  /\ step = "SIMULATE"
  /\ LogStep
  /\ UNCHANGED commandVars

\* SimulationResult
Result ==
  [total_ticks |-> tick, status |-> status,
   request_time |-> [p \in Passengers |-> requests[p].request_time],
   pickup_time |-> pickup_time, delivery_time |-> delivery_time,
   position_rows |-> position_rows, events |-> events]

\* A name given twice keeps its place in the dict.
Collect ==
  /\ step = "SIMULATE"
  /\ phase \in Ended
  /\ results' = With(results, Head(remaining), Result)
  /\ names' = IF Head(remaining) \in Range(names) THEN names
              ELSE Append(names, Head(remaining))
  /\ remaining' = Tail(remaining)
  /\ step' = "NEXT_STRATEGY"
  /\ UNCHANGED <<logVars, command, shown, to_write, files, torn>>

-----------------------------------------------------------------------------
(* Output *)

\* The files of each command in the order in which they are written.
Outputs ==
  LET perStrategy ==
        [i \in 1..2 * Len(names) |->
           <<IF i % 2 = 1 THEN "positions" ELSE "statistics", names[(i + 1) \div 2]>>]
  IN  CASE command.name = "run"     -> perStrategy
        [] command.name = "compare" -> Append(perStrategy, <<"comparison_summary">>)
        [] OTHER -> <<<<"time_distributions">>, <<"efficiency_vs_fairness">>,
                      <<"strategy_summary">>, <<"analysis">>>>

Table == [n \in Range(names) |-> TableRow(results[n])]

\* run and compare print first and write if there is a directory to write to;
\* visualize has a default directory.  Only now does it import matplotlib,
\* which may be missing, and then computes the analysis before it writes.
AfterShow ==
  IF command.name = "visualize"
  THEN {"NO_MATPLOTLIB", IF DividesByZero(names, results) THEN "ZERO_DIVISION" ELSE "WRITE"}
  ELSE {IF command.output_dir THEN "WRITE" ELSE "DONE"}

Show ==
  /\ step = "NEXT_STRATEGY"
  /\ remaining = <<>>
  /\ step' \in AfterShow
  /\ to_write' = IF step' = "WRITE" THEN Outputs ELSE <<>>
  /\ shown' = CASE command.name = "run" ->
                     [n \in Range(names) |-> FormatStatistics(results[n])]
                [] command.name = "compare" -> Table
                [] OTHER -> NoFunction
  /\ UNCHANGED <<logVars, command, remaining, names, results, files, torn>>

Content(key) ==
  CASE key[1] = "positions"  -> PositionLog(results[key[2]])
    [] key[1] = "statistics" -> FormatStatistics(results[key[2]])
    [] key[1] = "comparison_summary" -> Table
    [] key[1] = "time_distributions" -> TimeDistributions(names, results)
    [] key[1] = "efficiency_vs_fairness" -> EfficiencyAndFairness(names, results)
    [] key[1] = "strategy_summary" -> EfficiencyAndFairness(names, results)
    [] key[1] = "analysis" -> Analysis(names, results)

WriteFile ==
  /\ step = "WRITE"
  /\ to_write # <<>>
  /\ files' = With(files, Head(to_write), Content(Head(to_write)))
  /\ to_write' = Tail(to_write)
  /\ step' = IF Tail(to_write) = <<>> THEN "DONE" ELSE "WRITE"
  /\ UNCHANGED <<logVars, command, remaining, names, results, shown, torn>>

\* A fault: it starts again with the first file.
WriteRetries ==
  /\ step = "WRITE"
  /\ to_write # <<>>
  /\ to_write' = Outputs
  /\ UNCHANGED <<logVars, command, step, remaining, names, results, shown, files, torn>>

\* A fault: the error is swallowed and the next file is written.
WriteFailsUnnoticed ==
  /\ step = "WRITE"
  /\ to_write # <<>>
  /\ to_write' = Tail(to_write)
  /\ step' = IF Tail(to_write) = <<>> THEN "DONE" ELSE "WRITE"
  /\ torn' \in {torn, torn \cup {Head(to_write)}}
  /\ UNCHANGED <<logVars, command, remaining, names, results, shown, files>>

\* The file cannot be opened, or it is: that empties it, and what the write then
\* leaves in it is anybody's guess.  The files already written stay.
WriteFails ==
  /\ step = "WRITE"
  /\ to_write # <<>>
  /\ step' = "WRITE_ERROR"
  /\ torn' \in {torn, torn \cup {Head(to_write)}}
  /\ UNCHANGED <<logVars, command, remaining, names, results, shown, to_write, files>>

\* The process has exited.
Exited == step \in Over /\ UNCHANGED allVars

CommandNext ==
  BuildSettings \/ LoadInput \/ NextStrategy \/ Simulate \/ Collect \/ Show
    \/ WriteFile \/ WriteFails \/ Exited

CommandSpec == CommandInit /\ [][CommandNext]_allVars

\* Where the program stands: every step of the command, of the engine and of
\* the loops over passengers and files moves it.
ProgramCounter == <<step, phase, unassigned, to_write>>

\* One thread from top to bottom: it takes its next step.  This is
\* WF_ProgramCounter(CommandNext) with its ENABLED written out: until the
\* process has exited there is a next step.
FairCommandSpec ==
  /\ CommandSpec
  /\ []<>(step \in Over) \/ []<><<TRUE>>_ProgramCounter
=============================================================================
