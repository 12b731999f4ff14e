------------------------ MODULE AcquisitionBenchmark ------------------------
(***************************************************************************)
(* One call of run_acquisition_benchmark.  For each selected workload it   *)
(* builds a synthetic search with a known answer, checks the reference     *)
(* search against that answer and every available implementation against   *)
(* the reference on every capture, and times those that passed in three    *)
(* modes, in shuffled order, with warm-up rounds before timed samples.     *)
(*                                                                         *)
(* A search is abstract: it returns the right result, a result that        *)
(* differs from it in one respect, or a failure.  MaxFaults bounds the     *)
(* wrong outcomes of one call, MaxOperations the searches of one sample,   *)
(* whose number the clock decides.                                         *)
(***************************************************************************)
EXTENDS Integers, Sequences, FiniteSets

CONSTANTS
  Workloads,      \* the fixed table, a function from names to definitions
  Calls,          \* options with the accelerated implementations of the host
  CaptureCount,   \* kPerCaptureWindowCount, 2
  SizeMax,        \* the largest size_t
  MaxOperations,
  MaxFaults

\* samples: timed_sample_count; duration_valid: the minimum is finite, positive.
Options == [names : Seq(STRING), warmup_rounds : Nat, samples : Nat,
            duration_valid : BOOLEAN]

ASSUME BenchmarkAssumption ==
  /\ CaptureCount \in Nat \ {0}
  /\ SizeMax \in Nat
  /\ MaxOperations \in Nat \ {0}
  /\ MaxFaults \in Nat
  /\ Calls \subseteq [options : Options, host : SUBSET {"neon", "sme2"}]

\* The table in its order, by size.
InOrder(names) ==
  \A i, j \in DOMAIN names : i < j => Workloads[names[i]].iq < Workloads[names[j]].iq

\* The table is a constant of the source; every workload has a frequency next to the
\* centre of its grid.
ASSUME WorkloadsAssumption ==
  /\ IsFiniteSet(DOMAIN Workloads) /\ DOMAIN Workloads # {}
  /\ \E s \in [1 .. Cardinality(DOMAIN Workloads) -> DOMAIN Workloads] : InOrder(s)
  /\ \A name \in DOMAIN Workloads :
       LET d == Workloads[name]
       IN  {d.iq, d.preamble, d.timings, d.cfos} \subseteq Nat /\ d.cfos >= 3

Implementations == {"reference", "neon", "sme2"}
\* The order of WorkloadResult::implementations.
ImplementationOrder == <<"reference", "neon", "sme2">>
Modes == {"steady_state", "per_capture", "setup_inclusive"}
Tasks == Implementations \X Modes

NoError == "none"

-----------------------------------------------------------------------------
(* The synthetic workload of prepare_workload.                             *)

\* checked_complex_mac_count: zero stands for overflow.
MacCount(d) ==
  IF \/ d.timings > SizeMax \div d.cfos
     \/ d.timings * d.cfos > SizeMax \div d.preamble
  THEN 0
  ELSE d.timings * d.cfos * d.preamble

\* The windows of all timings fit, and the grid of frequencies has a centre.
DefinitionValid(d) ==
  /\ d.preamble # 0 /\ d.timings # 0 /\ d.cfos # 0
  /\ (d.timings + d.preamble - 1) % (SizeMax + 1) <= d.iq
  /\ d.cfos % 2 # 0
  /\ MacCount(d) # 0

\* In steps of kCfoSpacingHz around zero.
FrequencyGrid(d) == [i \in 1 .. d.cfos |-> i - 1 - d.cfos \div 2]

\* Where prepare_workload adds the preamble to the noise.
TrueHypothesis(d) ==
  <<(3 * d.timings) \div 5, FrequencyGrid(d)[d.cfos \div 2 + 2]>>

CandidateCount(d) == d.timings * d.cfos

-----------------------------------------------------------------------------
(* Outcomes of a search, and the comparison with the reference.            *)

\* What the reference may find in a capture: the true hypothesis, and a second best and
\* scores that the noise decides.  The score tolerances are one.
SecondBests == {<<0, 0>>, <<0, -1>>}
ReferenceResults(d) ==
  {[ok |-> TRUE, implementation |-> "reference", best |-> TrueHypothesis(d),
    second_best |-> h, count |-> CandidateCount(d),
    score |-> IF h = <<0, 0>> THEN 9 ELSE 7, second_score |-> 5] : h \in SecondBests}

\* What an implementation should find where the reference found this.
RightResult(id, reference) == [reference EXCEPT !.implementation = id]

FailedResult(id) ==
  [ok |-> FALSE, implementation |-> id, best |-> << >>, second_best |-> << >>,
   count |-> 0, score |-> 0, second_score |-> 0]

\* The result of another implementation, of other hypotheses, with a hypothesis missing,
\* with another score, or none.
WrongResults(id, reference) ==
  LET right == RightResult(id, reference) IN
  {FailedResult(id),
   [right EXCEPT !.implementation = "unavailable"],
   [right EXCEPT !.best = right.second_best, !.second_best = right.best],
   [right EXCEPT !.count = @ - 1],
   [right EXCEPT !.score = @ - 2],
   [right EXCEPT !.second_score = @ - 2]}
  \cup {[right EXCEPT !.second_best = h] : h \in SecondBests \ {right.second_best}}

FindsTruth(result, d) ==
  /\ result.ok
  /\ result.best = TrueHypothesis(d)

\* reference_valid: its second best and its scores are taken as they are.
ReferenceValid(result, d) == FindsTruth(result, d) /\ result.count = CandidateCount(d)

\* Variant: only the best candidate is compared.
VerifyBestOnly(id, result, reference, d) ==
  FindsTruth(result, d)

VerifyCorrectness(id, result, reference, d) ==
  /\ FindsTruth(result, d)
  /\ result.count = CandidateCount(d)
  /\ result.best = reference.best
  /\ result.second_best = reference.second_best
  /\ result.score \in (reference.score - 1) .. (reference.score + 1)
  /\ result.second_score \in (reference.second_score - 1) .. (reference.second_score + 1)
  /\ result.implementation = id

-----------------------------------------------------------------------------
VARIABLES
  options, host,  \* inputs of the call
  stage,
  selected,       \* names of the workloads to run
  current,        \* number of the workload in hand
  references,     \* per_capture_reference_results
  position,       \* implementation and capture being verified
  correctness,    \* per implementation: passed, per_capture_cases_passed
  modes,          \* per task: valid, number of samples, published speedups
  next_capture,   \* next_per_capture_index modulo CaptureCount
  round,          \* of warm-up or timing
  pending,        \* tasks of the round not executed yet
  report_ok,
  report,         \* the finished workloads
  artifacts,      \* what the call returns
  faults,         \* wrong outcomes so far
  incidents       \* history: <<workload, implementation, mode or "check">>

verification == <<references, position, correctness>>
timing == <<modes, next_capture, round, pending>>
outcome == <<report_ok, report, artifacts>>
vars == <<options, host, stage, selected, current, verification, timing,
          outcome, faults, incidents>>

Captures == 0 .. CaptureCount - 1

Available(id) == id = "reference" \/ id \in host

\* A ModeResult before any sample.
FreshMode == [valid |-> FALSE, samples |-> 0, vs_reference |-> FALSE, vs_neon |-> FALSE]
FreshModes == [task \in Tasks |-> FreshMode]
FreshCorrectness == [id \in Implementations |-> [passed |-> FALSE, cases |-> 0]]

NoArtifacts == [ok |-> FALSE, error |-> NoError, report |-> << >>]

BenchmarkInit ==
  /\ \E call \in Calls : options = call.options /\ host = call.host
  /\ stage = "start"
  /\ selected = << >>
  /\ current = 0
  /\ references = << >>
  /\ position = [implementation |-> 1, capture |-> 0]
  /\ correctness = FreshCorrectness
  /\ modes = FreshModes
  /\ next_capture = [id \in Implementations |-> 0]
  /\ round = 0
  /\ pending = {}
  /\ report_ok = TRUE
  /\ report = << >>
  /\ artifacts = NoArtifacts
  /\ faults = 0
  /\ incidents = {}

Definition == Workloads[selected[current]]

\* Counts n faults against the bound.
Faults(n) == faults + n <= MaxFaults /\ faults' = faults + n

Incident(id, what) == incidents' = incidents \cup {<<current, id, what>>}

\* Returns with error_message and without a report.
ReturnError(message) ==
  /\ stage' = "done"
  /\ artifacts' = [NoArtifacts EXCEPT !.error = message]
  /\ UNCHANGED <<report_ok, report>>

-----------------------------------------------------------------------------
(* Options and selection.                                                  *)

OptionsInvalid == options.samples < 3 \/ ~options.duration_valid

\* select_workloads: no name selects the table.
SelectionError(names) ==
  \/ \E i, j \in DOMAIN names : i # j /\ names[i] = names[j]
  \/ \E i \in DOMAIN names : names[i] \notin DOMAIN Workloads

AllWorkloads ==
  CHOOSE s \in [1 .. Cardinality(DOMAIN Workloads) -> DOMAIN Workloads] : InOrder(s)

Refuse ==
  /\ stage = "start"
  /\ \/ OptionsInvalid /\ ReturnError("options")
     \/ ~OptionsInvalid /\ SelectionError(options.names) /\ ReturnError("selection")
  /\ UNCHANGED <<options, host, selected, current, verification, timing,
                 faults, incidents>>

Select ==
  /\ stage = "start"
  /\ ~OptionsInvalid /\ ~SelectionError(options.names)
  /\ selected' = IF options.names = << >> THEN AllWorkloads ELSE options.names
  /\ stage' = "prepare"
  /\ UNCHANGED <<options, host, current, verification, timing, outcome,
                 faults, incidents>>

-----------------------------------------------------------------------------
(* Preparation and verification of one workload.                           *)

\* A new WorkloadResult, so nothing of the previous workload is left.
PrepareWorkload ==
  /\ stage = "prepare" /\ current < Len(selected)
  /\ current' = current + 1
  /\ DefinitionValid(Workloads[selected[current + 1]])
  /\ references' = << >>
  /\ position' = [implementation |-> 1, capture |-> 0]
  /\ correctness' = FreshCorrectness
  /\ modes' = FreshModes
  /\ next_capture' = [id \in Implementations |-> 0]
  /\ round' = 0
  /\ pending' = {}
  /\ stage' = "reference"
  /\ UNCHANGED <<options, host, selected, outcome, faults, incidents>>

\* An invalid definition, a plan that cannot be prepared, tables that do not match.
RejectWorkload ==
  /\ stage = "prepare" /\ current < Len(selected)
  /\ Faults(1)
  /\ ReturnError("workload")
  /\ UNCHANGED <<options, host, selected, current, verification, timing,
                 incidents>>

\* The checked reference search on the next capture.
CheckReference ==
  /\ stage = "reference"
  /\ \/ /\ \E r \in ReferenceResults(Definition) : references' = Append(references, r)
        /\ stage' = IF Len(references') = CaptureCount THEN "verify" ELSE stage
        /\ UNCHANGED <<faults, outcome>>
     \/ /\ \E b \in ReferenceResults(Definition) :
             \E r \in WrongResults("reference", b) : ~ReferenceValid(r, Definition)
        /\ Faults(1)
        /\ ReturnError("reference")
        /\ UNCHANGED references
  /\ UNCHANGED <<options, host, selected, current, position, correctness, timing,
                 incidents>>

Verified == ImplementationOrder[position.implementation]

\* execute_checked and verify_correctness for one capture.  The SME2 path prepares
\* its workspace first; where that fails, the result is a failed one.
VerifyCapture ==
  /\ stage = "verify" /\ position.implementation <= 3
  /\ Available(Verified) /\ position.capture < CaptureCount
  /\ LET c == position.capture
         reference == references[c + 1]
     IN \E right \in BOOLEAN :
        \E r \in IF right THEN {RightResult(Verified, reference)}
                 ELSE WrongResults(Verified, reference) :
          LET ok == VerifyCorrectness(Verified, r, reference, Definition)
              cases == correctness[Verified].cases + (IF ok THEN 1 ELSE 0)
          IN /\ correctness' = [correctness EXCEPT
                  ![Verified] = [passed |-> ok /\ (c = 0 \/ @.passed), cases |-> cases]]
             /\ IF right THEN UNCHANGED <<faults, incidents>>
                ELSE Faults(1) /\ Incident(Verified, "check")
             /\ position' = [position EXCEPT !.capture = c + 1]
  /\ UNCHANGED <<options, host, stage, selected, current, references, timing, outcome>>

\* Ends the verification of one implementation, and opens its modes if it passed and, for
\* SME2, if the workspace could be prepared again for the first capture.
FinishImplementation ==
  /\ stage = "verify" /\ position.implementation <= 3
  /\ Available(Verified) /\ position.capture = CaptureCount
  /\ LET again == Verified = "sme2" /\ correctness["sme2"].passed IN
     \E prepared \in IF again THEN BOOLEAN ELSE {TRUE} :
       LET passed == correctness[Verified].passed /\ prepared IN
       /\ correctness' = [correctness EXCEPT ![Verified].passed = passed]
       /\ modes' = [task \in Tasks |->
                      IF task[1] # Verified THEN modes[task]
                      ELSE [modes[task] EXCEPT !.valid = passed]]
       /\ IF prepared THEN UNCHANGED <<faults, incidents>>
          ELSE Faults(1) /\ Incident("sme2", "check")
  /\ position' = [implementation |-> position.implementation + 1, capture |-> 0]
  /\ UNCHANGED <<options, host, stage, selected, current, references, next_capture,
                 round, pending, outcome>>

\* An implementation that the host cannot execute keeps its default results.
SkipUnavailable ==
  /\ stage = "verify" /\ position.implementation <= 3
  /\ ~Available(Verified)
  /\ position' = [implementation |-> position.implementation + 1, capture |-> 0]
  /\ UNCHANGED <<options, host, stage, selected, current, references, correctness,
                 timing, outcome, faults, incidents>>

\* The report notes an available implementation that did not pass.
JudgeWorkload ==
  /\ stage = "verify" /\ position.implementation = 4
  /\ report_ok' = (/\ report_ok
                   /\ \A id \in Implementations :
                        Available(id) => correctness[id].passed)
  /\ stage' = "warm-up"
  /\ UNCHANGED <<options, host, selected, current, verification, timing,
                 report, artifacts, faults, incidents>>

-----------------------------------------------------------------------------
(* Timing.                                                                 *)

ActiveTasks == {task \in Tasks : modes[task].valid}

Rounds == IF stage = "warm-up" THEN options.warmup_rounds ELSE options.samples

BeginRound ==
  /\ stage \in {"warm-up", "timing"} /\ pending = {}
  /\ round < Rounds
  /\ round' = round + 1
  /\ pending' = ActiveTasks
  /\ UNCHANGED <<options, host, stage, selected, current, verification,
                 modes, next_capture, outcome, faults, incidents>>

EndRounds ==
  /\ stage \in {"warm-up", "timing"} /\ pending = {}
  /\ round = Rounds
  /\ round' = 0
  /\ stage' = IF stage = "warm-up" THEN "timing" ELSE "summarize"
  /\ UNCHANGED <<options, host, selected, current, verification, modes,
                 next_capture, pending, outcome, faults, incidents>>

\* Variant: the index is not brought back into the bank.
UnwrappedCapture(index, n) == index + n

NextCapture(index, n) == (index + n) % CaptureCount

\* execute_task, n times: a per-capture operation takes the next capture of the bank.
\* The packing before an SME2 operation does nothing for the contiguous timings of
\* prepare_workload.
Execute(task, n) ==
  next_capture' =
    IF task[2] = "per_capture"
    THEN [next_capture EXCEPT ![task[1]] = NextCapture(@, n)]
    ELSE next_capture

\* Variant: a failure is recorded and the mode stays open.
KeepMode(mode) == mode

\* A mode that failed once is not timed or published any more.
CloseMode(mode) == [mode EXCEPT !.valid = FALSE]

\* Variant: a failed sample leaves the report as it was.
FailureIgnored(ok) == ok

FailureNoted(ok) == FALSE

ExecutionFails(task) ==
  /\ modes' = [modes EXCEPT ![task] = CloseMode(@)]
  /\ report_ok' = FailureNoted(report_ok)
  /\ Faults(1)
  /\ Incident(task[1], task[2])

\* One warm-up search of a task, in an order that the shuffle chooses.
WarmUp(task) ==
  /\ stage = "warm-up" /\ task \in pending
  /\ pending' = pending \ {task}
  /\ Execute(task, 1)
  /\ \/ UNCHANGED <<modes, report_ok, faults, incidents>>
     \/ ExecutionFails(task)
  /\ UNCHANGED <<options, host, stage, selected, current, verification, round, report,
                 artifacts>>

\* measure_sample: searches until the minimum duration is over; the sample of a
\* search that fails is dropped, with those before it.
TimeSample(task) ==
  /\ stage = "timing" /\ task \in pending
  /\ pending' = pending \ {task}
  /\ \E n \in 1 .. MaxOperations : Execute(task, n)
  /\ \/ /\ modes' = [modes EXCEPT ![task].samples = @ + 1]
        /\ UNCHANGED <<report_ok, faults, incidents>>
     \/ ExecutionFails(task)
  /\ UNCHANGED <<options, host, stage, selected, current, verification, round, report,
                 artifacts>>

\* Drops incomplete modes, computes speedups and closes the workload.
Summarize ==
  /\ stage = "summarize"
  /\ LET complete == [task \in Tasks |->
                        modes[task].valid /\ modes[task].samples = options.samples]
         finished == [task \in Tasks |->
           [modes[task] EXCEPT
              !.valid = complete[task],
              !.vs_reference = complete[task] /\ complete[<<"reference", task[2]>>],
              !.vs_neon = complete[task] /\ complete[<<"neon", task[2]>>]]]
     IN /\ modes' = finished
        /\ report_ok' = (report_ok /\ \A task \in Tasks :
                           modes[task].valid => complete[task])
        /\ report' = Append(report, [correctness |-> correctness, modes |-> finished])
  /\ stage' = "prepare"
  /\ UNCHANGED <<options, host, selected, current, verification,
                 next_capture, round, pending, artifacts, faults, incidents>>

-----------------------------------------------------------------------------
\* What the JSON and CSV reports say of a mode: its samples only when it is valid.
Published(mode) ==
  IF mode.valid THEN [valid |-> TRUE, samples |-> mode.samples,
                      vs_reference |-> mode.vs_reference, vs_neon |-> mode.vs_neon]
  ELSE [FreshMode EXCEPT !.vs_reference = mode.vs_reference, !.vs_neon = mode.vs_neon]

Serialize ==
  /\ stage = "prepare" /\ current = Len(selected)
  /\ stage' = "done"
  /\ artifacts' =
       [ok |-> report_ok, error |-> NoError,
        report |-> [n \in DOMAIN report |->
                      [correctness |-> report[n].correctness,
                       modes |-> [task \in Tasks |-> Published(report[n].modes[task])]]]]
  /\ UNCHANGED <<options, host, selected, current, verification, timing,
                 report_ok, report, faults, incidents>>

\* bad_alloc in any workload discards the whole report.
AllocationFails ==
  /\ stage \notin {"start", "done"}
  /\ Faults(1)
  /\ ReturnError("allocation")
  /\ UNCHANGED <<options, host, selected, current, verification, timing,
                 incidents>>

BenchmarkNext ==
  \/ Refuse \/ Select
  \/ PrepareWorkload \/ RejectWorkload \/ CheckReference
  \/ VerifyCapture \/ FinishImplementation \/ SkipUnavailable \/ JudgeWorkload
  \/ BeginRound \/ EndRounds
  \/ \E task \in Tasks : WarmUp(task) \/ TimeSample(task)
  \/ Summarize \/ Serialize \/ AllocationFails

BenchmarkSpec == BenchmarkInit /\ [][BenchmarkNext]_vars

-----------------------------------------------------------------------------
Mode == [valid : BOOLEAN, samples : Nat, vs_reference : BOOLEAN, vs_neon : BOOLEAN]
Correctness == [passed : BOOLEAN, cases : Nat]

\* Every variable has values that the C++ types and the loops allow.
TypeOK ==
  /\ [options |-> options, host |-> host] \in Calls
  /\ stage \in {"start", "prepare", "reference", "verify", "warm-up", "timing",
                "summarize", "done"}
  /\ current \in Nat
  /\ position.implementation \in 1 .. 4 /\ position.capture \in 0 .. CaptureCount
  /\ correctness \in [Implementations -> Correctness]
  /\ modes \in [Tasks -> Mode]
  /\ next_capture \in [Implementations -> Captures]
  /\ round \in Nat
  /\ pending \subseteq Tasks
  /\ report_ok \in BOOLEAN
  /\ faults \in 0 .. MaxFaults

\* Only an available implementation that agreed with the reference on every capture is
\* executed for timing or has samples (run_timing relies on mode.valid alone).
OnlyVerifiedPathsAreTimed ==
  \A task \in Tasks :
    task \in pending \/ modes[task].samples > 0 =>
      /\ Available(task[1])
      /\ correctness[task[1]] = [passed |-> TRUE, cases |-> CaptureCount]
      /\ <<current, task[1], "check">> \notin incidents

\* A mode of workload n with all its samples, of an implementation that passed, in which
\* no search failed.
Complete(samples, happened, n, mode, task) ==
  /\ mode[task].valid /\ mode[task].samples = samples
  /\ \A what \in {"check", task[2]} : <<n, task[1], what>> \notin happened

CompleteModes(samples, happened, n, mode) ==
  LET complete(task) == Complete(samples, happened, n, mode, task)
  IN  \A task \in Tasks :
        /\ mode[task].valid => complete(task)
        /\ mode[task].vs_reference => complete(task) /\ complete(<<"reference", task[2]>>)
        /\ mode[task].vs_neon => complete(task) /\ complete(<<"neon", task[2]>>)

\* A published timing has all its samples and none of its searches failed; a published
\* speedup divides two such timings.
PublishedTimingIsComplete ==
  \A n \in DOMAIN artifacts.report :
    CompleteModes(options.samples, incidents, n, artifacts.report[n].modes)

\* A returned report covers every selected workload and says ok exactly when nothing
\* went wrong in any of them, whatever was unavailable.
ReportOkIsTruthful ==
  stage = "done" /\ artifacts.error = NoError =>
    /\ Len(artifacts.report) = Len(selected) /\ selected # << >>
    /\ artifacts.ok <=> incidents = {}

=============================================================================
