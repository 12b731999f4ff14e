--------------------------- MODULE BenchmarkTool ---------------------------
(***************************************************************************)
(* The program benchmark_acquisition: reads its arguments one by one,      *)
(* checks where the reports shall go before anything runs, runs the        *)
(* benchmark and delivers the reports.  The run itself is module           *)
(* AcquisitionBenchmark; here it is a choice of what it may return.        *)
(*                                                                         *)
(* Two paths may lead to one file (links), so the file system maps files,  *)
(* not paths, to contents.  A path that exists leads to a file that does;  *)
(* a link to a file that does not exist yet does not exist either, and     *)
(* resolves to its own name.  MaxArguments bounds the command line.        *)
(***************************************************************************)
EXTENDS Naturals, Sequences

CONSTANTS
  Paths,         \* from path names to what the file system says of them
  WorkloadArgs,  \* names given to --workload, "all" not among them
  MaxArguments

ASSUME ToolAssumption == MaxArguments \in Nat /\ "all" \notin WorkloadArgs

NoPath == "not given"
ReportFiles == {Paths[p].file : p \in DOMAIN Paths}

\* The kinds of arguments that are not refused.
Arguments ==
       {<<"--workload", w>> : w \in WorkloadArgs \cup {"all"}}
  \cup {<<"--samples", "3">>}
  \cup {<<option, p>> : option \in {"--json", "--csv"}, p \in DOMAIN Paths}

VARIABLES
  tool_stage,
  arguments_read,
  names,          \* options.workload_names
  json_path, csv_path,
  run_artifacts,  \* what run_acquisition_benchmark returned
  files,          \* contents of every file
  files_before,   \* history: contents when the program started
  printed,        \* whether the report is on the standard output
  exit            \* exit status, and "usage" for a help text

tool_options == <<arguments_read, names, json_path, csv_path>>
tool_vars == <<tool_stage, tool_options, run_artifacts, files, files_before, printed, exit>>

NotRun == [error |-> FALSE, ok |-> FALSE]

ToolInit ==
  /\ tool_stage = "arguments"
  /\ arguments_read = 0
  /\ names = << >>
  /\ json_path = NoPath /\ csv_path = NoPath
  /\ run_artifacts = NotRun
  /\ files \in [ReportFiles -> {"absent", "earlier"}]
  /\ \A p \in DOMAIN Paths : Paths[p].exists <=> files[Paths[p].file] # "absent"
  /\ files_before = files
  /\ printed = FALSE
  /\ exit = "running"

Exit(status) == tool_stage' = "ended" /\ exit' = status

-----------------------------------------------------------------------------
\* Values of one option replace each other, except the names of workloads, which
\* add up until "all" clears them.
ReadArgument(argument) ==
  /\ tool_stage = "arguments" /\ arguments_read < MaxArguments
  /\ arguments_read' = arguments_read + 1
  /\ names' = CASE argument[1] # "--workload" -> names
                [] argument[2] = "all"        -> << >>
                [] OTHER                      -> Append(names, argument[2])
  /\ json_path' = IF argument[1] = "--json" THEN argument[2] ELSE json_path
  /\ csv_path' = IF argument[1] = "--csv" THEN argument[2] ELSE csv_path
  /\ UNCHANGED <<tool_stage, run_artifacts, files, files_before, printed, exit>>

\* --help and --list-workloads end the program, whatever follows them.
ShowUsage ==
  /\ tool_stage = "arguments" /\ arguments_read < MaxArguments
  /\ Exit("usage")
  /\ UNCHANGED <<tool_options, run_artifacts, files, files_before, printed>>

\* An unknown option, a missing value, or one that cannot be parsed.
RefuseArgument ==
  /\ tool_stage = "arguments" /\ arguments_read < MaxArguments
  /\ Exit("failure")
  /\ UNCHANGED <<tool_options, run_artifacts, files, files_before, printed>>

EndArguments ==
  /\ tool_stage = "arguments"
  /\ tool_stage' = "validate"
  /\ UNCHANGED <<tool_options, run_artifacts, files, files_before, printed, exit>>

-----------------------------------------------------------------------------
PathUsable(p) ==
  /\ Paths[p].resolves
  /\ Paths[p].exists => Paths[p].regular
  /\ Paths[p].parent

\* Variant: only equal names are refused.
SamePath(p, q) == p = q

\* Equal after resolution, or links to one existing file.
SameFile(p, q) ==
  \/ Paths[p].resolved = Paths[q].resolved
  \/ Paths[p].exists /\ Paths[q].exists /\ Paths[p].file = Paths[q].file

OutputsValid ==
  /\ \A p \in {json_path, csv_path} : p = NoPath \/ PathUsable(p)
  /\ json_path = NoPath \/ csv_path = NoPath \/ ~SameFile(json_path, csv_path)

ValidateOutputPaths ==
  /\ tool_stage = "validate"
  /\ IF OutputsValid THEN tool_stage' = "run" /\ UNCHANGED exit ELSE Exit("failure")
  /\ UNCHANGED <<tool_options, run_artifacts, files, files_before, printed>>

\* Variant: the message is printed and the reports are written all the same.
NeverAborts(error) == FALSE

\* An error message ends the program.
Aborts(error) == error

CallBenchmark ==
  /\ tool_stage = "run"
  /\ \E error, ok \in BOOLEAN :
       /\ ~(error /\ ok)
       /\ run_artifacts' = [error |-> error, ok |-> ok]
       /\ IF Aborts(error) THEN Exit("failure") ELSE tool_stage' = "write json" /\ UNCHANGED exit
  /\ UNCHANGED <<tool_options, files, files_before, printed>>

-----------------------------------------------------------------------------
Written(result) == result = "complete"

\* write_file: the file may not open, or be truncated and then not be filled.
WriteReportFile(path, contents, next) ==
  IF path = NoPath
  THEN tool_stage' = next /\ UNCHANGED <<files, exit>>
  ELSE \E result \in {"not opened", "partial", "complete"} :
         /\ files' = CASE result = "not opened" -> files
                       [] result = "partial"    -> [files EXCEPT ![Paths[path].file] = "partial"]
                       [] OTHER                 -> [files EXCEPT ![Paths[path].file] = contents]
         /\ IF Written(result) THEN tool_stage' = next /\ UNCHANGED exit ELSE Exit("failure")

WriteJson ==
  /\ tool_stage = "write json"
  /\ WriteReportFile(json_path, "json report", "write csv")
  /\ UNCHANGED <<tool_options, run_artifacts, files_before, printed>>

WriteCsv ==
  /\ tool_stage = "write csv"
  /\ WriteReportFile(csv_path, "csv report", "print")
  /\ UNCHANGED <<tool_options, run_artifacts, files_before, printed>>

\* The standard output comes last, and the exit status tells whether all went well.
PrintReport ==
  /\ tool_stage = "print"
  /\ printed' = TRUE
  /\ Exit(IF run_artifacts.ok THEN "success" ELSE "failure")
  /\ UNCHANGED <<tool_options, run_artifacts, files, files_before>>

ToolNext ==
  \/ \E argument \in Arguments : ReadArgument(argument)
  \/ ShowUsage \/ RefuseArgument \/ EndArguments
  \/ ValidateOutputPaths \/ CallBenchmark
  \/ WriteJson \/ WriteCsv \/ PrintReport

ToolSpec == ToolInit /\ [][ToolNext]_tool_vars

-----------------------------------------------------------------------------
Holds(path, contents) == path # NoPath => files[Paths[path].file] = contents

\* A report on the standard output means that every requested file holds its own
\* report, complete, and success in addition that the report says ok: a script that
\* looks at the output or at the exit status may read the files.
DeliveredReportsAreWhole ==
  /\ printed => Holds(json_path, "json report") /\ Holds(csv_path, "csv report")
  /\ exit = "success" => printed /\ run_artifacts.ok

\* Only the files that were named change, and none before the benchmark has returned
\* a report: refused arguments and aborted runs leave earlier reports alone.
EarlierReportsSurvive ==
  \A f \in ReportFiles :
    files[f] # files_before[f] =>
      /\ f \in {Paths[p].file : p \in {json_path, csv_path} \ {NoPath}}
      /\ run_artifacts.error = FALSE /\ tool_stage \in {"write csv", "print", "ended"}

\* No path leads through a link to a file that another path names and that does not
\* exist yet: two paths to one file resolve to one name or both exist.
LinksHaveTargets ==
  \A p, q \in DOMAIN Paths :
    Paths[p].file = Paths[q].file /\ Paths[p].resolved # Paths[q].resolved
      => Paths[p].exists /\ Paths[q].exists

\* JSON and CSV paths identify different files before the benchmark runs: aliases
\* through symlinks or hard links are rejected (docs/benchmarking.md).
AliasesAreRejected ==
  tool_stage \notin {"arguments", "validate", "ended"} /\ NoPath \notin {json_path, csv_path}
    => Paths[json_path].file # Paths[csv_path].file

=============================================================================
