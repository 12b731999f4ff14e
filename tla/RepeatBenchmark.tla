--------------------------- MODULE RepeatBenchmark ---------------------------
(***************************************************************************)
(* repeat_acquisition_benchmark.py: runs the benchmark several times as a  *)
(* process of its own, keeps every report in an output directory and adds  *)
(* a summary at the end.  Several invocations may share one directory and  *)
(* one build: each may be killed at any moment, and the directory is not   *)
(* locked between the check that it is empty and the first report.         *)
(***************************************************************************)
EXTENDS Naturals, Sequences

CONSTANTS
  Invocations,   \* invocations of the script with the same output directory
  Runs,          \* --runs
  Builds,        \* what a build of the benchmark may produce
  ModeSets       \* implementations and modes that a report may hold

ASSUME RunsAssumption == Runs \in Nat \ {0} /\ Builds # {} /\ ModeSets # {}

Absent == [state |-> "absent"]

\* Names in the directory: the report and the stderr text of a run, and the summary.
Report(i) == <<"report", i>>
Stderr(i) == <<"stderr", i>>
Summary == <<"summary", 0>>
Files == {Report(i) : i \in 1 .. Runs} \cup {Stderr(i) : i \in 1 .. Runs} \cup {Summary}

NoOutcome == [ok |-> FALSE, stderr |-> FALSE, build |-> CHOOSE b \in Builds : TRUE,
              modes |-> CHOOSE m \in ModeSets : TRUE]

VARIABLES
  directory,   \* file -> Absent or its writer, its content and whether it is whole
  binary,      \* what is at the benchmark's path
  phase,       \* per invocation
  completed,   \* per invocation: the outcome of the last benchmark process
  reports      \* per invocation: the reports collected

repeat_vars == <<directory, binary, phase, completed, reports>>

RepeatInit ==
  /\ directory = [f \in Files |-> Absent]
  /\ binary \in Builds
  /\ phase = [p \in Invocations |-> "started"]
  /\ completed = [p \in Invocations |-> NoOutcome]
  /\ reports = [p \in Invocations |-> << >>]

Goto(p, next) == phase' = [phase EXCEPT ![p] = next]

\* The output directory must be new or empty.
CheckDirectory(p) ==
  /\ phase[p] = "started"
  /\ Goto(p, IF \A f \in Files : directory[f] = Absent THEN "checked" ELSE "failed")
  /\ UNCHANGED <<directory, binary, completed, reports>>

\* Build, which replaces the binary also under another invocation, or --skip-build.
Build(p) ==
  /\ phase[p] = "checked"
  /\ \/ \E build \in Builds : binary' = build /\ Goto(p, "built")
     \/ UNCHANGED binary /\ Goto(p, "built")
     \/ UNCHANGED binary /\ Goto(p, "failed")
  /\ UNCHANGED <<directory, completed, reports>>

\* One benchmark process; ok covers its exit code, ok=true and mode_lookup of its report.
RunBenchmark(p) ==
  /\ phase[p] = "built"
  /\ \E ok \in BOOLEAN, stderr \in BOOLEAN, modes \in ModeSets :
       completed' = [completed EXCEPT ![p] =
         [ok |-> ok, stderr |-> stderr, build |-> binary, modes |-> modes]]
  /\ Goto(p, "ran")
  /\ UNCHANGED <<directory, binary, reports>>

\* Variant: opening a file for writing truncates one that exists.
MayOpenAny(file) == TRUE

\* open("x")
MayOpen(file) == directory[file] = Absent

\* open creates an empty file; the next action writes and closes it.
Open(p, file, next) ==
  IF MayOpen(file)
    THEN /\ directory' = [directory EXCEPT ![file] =
              [state |-> "open", by |-> p, content |-> completed[p]]]
         /\ Goto(p, next)
    ELSE Goto(p, "failed") /\ UNCHANGED directory

Write(p, file, next) ==
  /\ directory' = [directory EXCEPT ![file] =
       [state |-> "whole", by |-> p, content |-> completed[p]]]
  /\ Goto(p, next)

Run(p) == Len(reports[p]) + 1

\* The report is kept whatever the outcome of the process.
OpenReport(p) == phase[p] = "ran" /\ Open(p, Report(Run(p)), "writing report")

WriteReport(p) ==
  /\ phase[p] = "writing report"
  /\ Write(p, Report(Run(p)), IF completed[p].stderr THEN "stderr" ELSE "kept")

OpenStderr(p) == phase[p] = "stderr" /\ Open(p, Stderr(Run(p)), "writing stderr")

WriteStderr(p) == phase[p] = "writing stderr" /\ Write(p, Stderr(Run(p)), "kept")

KeepOutput(p) ==
  /\ OpenReport(p) \/ WriteReport(p) \/ OpenStderr(p) \/ WriteStderr(p)
  /\ UNCHANGED <<binary, completed, reports>>

\* A process that failed ends the invocation; after the last run it summarizes.
JudgeRun(p) ==
  /\ phase[p] = "kept"
  /\ IF ~completed[p].ok THEN Goto(p, "failed") /\ UNCHANGED reports
     ELSE /\ reports' = [reports EXCEPT ![p] = Append(@, completed[p])]
          /\ Goto(p, IF Run(p) = Runs THEN "collected" ELSE "built")
  /\ UNCHANGED <<directory, binary, completed>>

\* summarize_reports: the metadata and the modes of all reports must be equal.
SameMetadata(collected) ==
  \A i \in DOMAIN collected : /\ collected[i].build = collected[1].build
                              /\ collected[i].modes = collected[1].modes

SummarizeReports(p) ==
  /\ phase[p] = "collected"
  /\ IF SameMetadata(reports[p])
       THEN Open(p, Summary, "writing summary")
       ELSE Goto(p, "failed") /\ UNCHANGED directory
  /\ UNCHANGED <<binary, completed, reports>>

WriteSummary(p) ==
  /\ phase[p] = "writing summary"
  /\ Write(p, Summary, "done")
  /\ UNCHANGED <<binary, completed, reports>>

Ended(p) == phase[p] \in {"done", "failed", "killed"}

\* The invocation is killed, with the file it was writing left behind.
Kill(p) ==
  /\ ~Ended(p)
  /\ Goto(p, "killed")
  /\ UNCHANGED <<directory, binary, completed, reports>>

RepeatNext == \E p \in Invocations :
  \/ CheckDirectory(p) \/ Build(p) \/ RunBenchmark(p) \/ KeepOutput(p)
  \/ JudgeRun(p) \/ SummarizeReports(p) \/ WriteSummary(p) \/ Kill(p)

RepeatSpec == RepeatInit /\ [][RepeatNext]_repeat_vars

-----------------------------------------------------------------------------
\* A summary stands beside the whole set of reports it was made of: every run has a
\* report, all from the invocation that wrote the summary, successful, from one build
\* and with the same modes, and no other invocation's output is among them, however
\* many invocations share the directory and whenever they are killed.
SummaryCoversOneCompleteSet ==
  directory[Summary].state = "whole" =>
    LET by == directory[Summary].by
    IN  /\ \A f \in Files : directory[f] # Absent => directory[f].by = by
        /\ \A i \in 1 .. Runs : /\ directory[Report(i)].state = "whole"
                                /\ directory[Report(i)].content.ok
                                /\ directory[Report(i)].content = reports[by][i]
        /\ SameMetadata([i \in 1 .. Runs |-> directory[Report(i)].content])

=============================================================================
