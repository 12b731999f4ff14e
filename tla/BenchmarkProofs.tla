-------------------------- MODULE BenchmarkProofs --------------------------
(***************************************************************************)
(* The benchmark, the program that delivers its reports and the script     *)
(* that repeats it: invariants for any table of workloads, any options,    *)
(* any number of faults, any paths and any number of invocations.          *)
(*                                                                         *)
(* AcquisitionBenchmark: a mode is open or has samples only after the      *)
(* comparisons of its implementation have passed, and what went wrong is   *)
(* remembered by workload, so that every published mode answers to it.     *)
(* BenchmarkTool: requested files change in the two writing steps only.    *)
(* RepeatBenchmark: files are created exclusively, and an invocation       *)
(* creates the report of its first run before any other file: whoever      *)
(* created that report owns the directory.                                 *)
(***************************************************************************)
EXTENDS AcquisitionBenchmark, BenchmarkTool, RepeatBenchmark, Integers,
        FiniteSetTheorems, SequenceTheorems, TLAPS

\* AcquisitionBenchmark.

\* The stages in which a workload is in hand.
Working == {"reference", "verify", "warm-up", "timing", "summarize"}

\* When an implementation is verified.
Turn(id) == CASE id = "reference" -> 1 [] id = "neon" -> 2 [] OTHER -> 3

\* The captures of the workload on which an implementation was compared.
Compared(id) ==
  IF Turn(id) < position.implementation THEN CaptureCount
  ELSE IF Turn(id) = position.implementation THEN position.capture ELSE 0

TypePart ==
  /\ TypeOK
  /\ position \in [implementation : 1 .. 4, capture : 0 .. CaptureCount]
  /\ pending \subseteq ActiveTasks
  /\ \A i \in incidents :
       /\ i[1] \in 1 .. current /\ i[2] \in Implementations
       /\ i = <<i[1], i[2], i[3]>>

SelectionPart ==
  /\ selected \in Seq(DOMAIN Workloads)
  /\ current <= Len(selected)
  /\ stage = "start" => current = 0 /\ report = << >> /\ report_ok /\ incidents = {}
  /\ stage \notin {"start", "done"} => selected # << >>
  /\ stage \in Working => current >= 1

ReferencesPart ==
  /\ stage \in {"reference", "verify"} =>
       references \in Seq(ReferenceResults(Definition))
  /\ stage = "reference" => Len(references) < CaptureCount
  /\ stage = "verify" => Len(references) = CaptureCount

\* An implementation passed so far if nothing happened in its checks.
CorrectnessPart ==
  \A id \in Implementations :
    IF Available(id) /\ Compared(id) > 0
    THEN /\ correctness[id].passed <=> <<current, id, "check">> \notin incidents
         /\ correctness[id].passed => correctness[id].cases = Compared(id)
    ELSE /\ correctness[id] = [passed |-> FALSE, cases |-> 0]
         /\ <<current, id, "check">> \notin incidents

\* Modes are open and have samples only after their implementation has passed.
ModesPart ==
  \A task \in Tasks :
    /\ modes[task].valid \/ modes[task].samples > 0 =>
         /\ Turn(task[1]) < position.implementation
         /\ Available(task[1]) /\ correctness[task[1]].passed
    /\ modes[task].valid => <<current, task[1], task[2]>> \notin incidents

RoundsPart ==
  /\ stage \in {"reference", "verify"} => pending = {} /\ round = 0
  /\ stage = "summarize" => pending = {}
  /\ stage = "reference" => modes = FreshModes /\ position = [implementation |-> 1, capture |-> 0]
  /\ stage \in {"reference", "verify", "warm-up"} =>
       \A task \in Tasks : modes[task].samples = 0
  /\ stage \in {"warm-up", "timing", "summarize"} => position.implementation = 4
  /\ \A task \in ActiveTasks :
       /\ stage = "timing" =>
            IF task \in pending THEN modes[task].samples + 1 = round
            ELSE modes[task].samples = round
       /\ stage = "summarize" => modes[task].samples = options.samples

ReportPart ==
  /\ report \in Seq([correctness : [Implementations -> Correctness], modes : [Tasks -> Mode]])
  /\ Len(report) <= current
  /\ stage = "prepare" => Len(report) = current
  /\ stage \in Working => Len(report) + 1 = current
  /\ \A n \in DOMAIN report : CompleteModes(options.samples, incidents, n, report[n].modes)

\* The flag of the report and the incidents so far.
OkPart ==
  /\ stage \in {"prepare", "reference", "warm-up", "timing", "summarize"} =>
       (report_ok <=> incidents = {})
  /\ stage = "reference" => \A i \in incidents : i[1] # current
  /\ stage = "verify" =>
       /\ report_ok <=> \A i \in incidents : i[1] = current
       /\ \A i \in incidents : i[1] = current => i[3] = "check"
  /\ stage # "done" => artifacts = NoArtifacts

ArtifactsPart == PublishedTimingIsComplete /\ ReportOkIsTruthful

BenchmarkInv ==
  /\ TypePart /\ SelectionPart /\ ReferencesPart /\ CorrectnessPart /\ ModesPart
  /\ RoundsPart /\ ReportPart /\ OkPart /\ ArtifactsPart

-----------------------------------------------------------------------------

\* A task is an implementation and a mode, and no mode is called like the checks.
LEMMA TaskNames ==
  ASSUME NEW task \in Tasks
  PROVE  /\ task[1] \in Implementations /\ task[2] \in Modes
         /\ task = <<task[1], task[2]>>
         /\ task[2] # "check"
BY DEF Tasks, Modes

\* Implementations are verified in turn.
LEMMA Turns ==
  /\ \A id \in Implementations : Turn(id) \in 1 .. 3
  /\ \A k \in 1 .. 3 : /\ ImplementationOrder[k] \in Implementations
                       /\ Turn(ImplementationOrder[k]) = k
  /\ \A id \in Implementations, k \in 1 .. 3 : Turn(id) = k => id = ImplementationOrder[k]
  /\ ImplementationOrder[3] = "sme2" /\ Turn("sme2") = 3
  /\ ImplementationOrder[1] = "reference" /\ ImplementationOrder[2] = "neon"
BY DEF Turn, Implementations, ImplementationOrder

\* Workloads have numbers.
LEMMA Definitions ==
  ASSUME NEW name \in DOMAIN Workloads
  PROVE  /\ Workloads[name].timings \in Nat
         /\ Workloads[name].cfos \in Nat /\ Workloads[name].cfos >= 3
BY WorkloadsAssumption

\* The index of the next capture stays in the bank.
LEMMA CapturesWrap ==
  /\ 0 \in Captures
  /\ \A index \in Captures, n \in Nat : NextCapture(index, n) \in Captures
<1>1. CaptureCount \in Nat /\ CaptureCount > 0
  BY BenchmarkAssumption
<1>2. ASSUME NEW index \in Captures, NEW n \in Nat
      PROVE  NextCapture(index, n) \in Captures
  <2>1. index + n \in Nat
    BY <1>1 DEF Captures
  <2> DEFINE m == index + n
  <2> HIDE DEF m
  <2>2. m \in Nat
    BY <2>1 DEF m
  <2>3. m % CaptureCount \in 0 .. CaptureCount - 1
    BY <1>1, <2>2
  <2> QED
    BY <2>3 DEF NextCapture, Captures, m
<1> QED
  BY <1>1, <1>2 DEF Captures

\* The comparison with the reference accepts the right result and no other, whatever the
\* reference found besides the true hypothesis.
LEMMA OnlyRightPasses ==
  ASSUME NEW name \in DOMAIN Workloads, NEW id \in Implementations,
         NEW reference \in ReferenceResults(Workloads[name])
  PROVE  LET d == Workloads[name] IN
         /\ VerifyCorrectness(id, RightResult(id, reference), reference, d)
         /\ \A r \in WrongResults(id, reference) :
              ~VerifyCorrectness(id, r, reference, d)
<1> DEFINE d == Workloads[name]
           truth == TrueHypothesis(d)
           count == CandidateCount(d)
           half == d.cfos \div 2
           right == RightResult(id, reference)
<1>1. d.timings \in Nat /\ d.cfos \in Nat /\ d.cfos >= 3
  BY Definitions
<1>2. truth \notin SecondBests
  <2>1. half \in Nat /\ half + 2 \in 1 .. d.cfos /\ half + 2 - 1 - half = 1
    BY <1>1
  <2>2. FrequencyGrid(d)[half + 2] = 1
    BY <2>1 DEF FrequencyGrid
  <2> QED
    BY <2>2 DEF TrueHypothesis, SecondBests
<1>3. count \in Nat
  BY <1>1 DEF CandidateCount
<1>4. /\ reference.ok = TRUE /\ reference.best = truth
      /\ reference.second_best \in SecondBests /\ reference.count = count
      /\ reference.score \in Nat /\ reference.second_score \in Nat
      /\ reference = [ok |-> TRUE, implementation |-> "reference", best |-> truth,
                      second_best |-> reference.second_best, count |-> count,
                      score |-> reference.score, second_score |-> reference.second_score]
  BY DEF ReferenceResults
<1> HIDE DEF d, truth, count
<1>5. /\ right = [ok |-> TRUE, implementation |-> id, best |-> truth,
                  second_best |-> reference.second_best, count |-> count,
                  score |-> reference.score, second_score |-> reference.second_score]
      /\ right.ok = TRUE /\ right.implementation = id /\ right.best = truth
      /\ right.second_best = reference.second_best /\ right.count = count
      /\ right.score = reference.score /\ right.second_score = reference.second_score
  <2> DEFINE second == reference.second_best
             score == reference.score
             second_score == reference.second_score
  <2>1. reference = [ok |-> TRUE, implementation |-> "reference", best |-> truth,
                     second_best |-> second, count |-> count,
                     score |-> score, second_score |-> second_score]
    BY <1>4
  <2>2. right = [reference EXCEPT !.implementation = id]
    BY DEF RightResult
  <2> HIDE DEF right, second, score, second_score
  <2>3. right = [ok |-> TRUE, implementation |-> id, best |-> truth,
                 second_best |-> second, count |-> count,
                 score |-> score, second_score |-> second_score]
    BY <2>1, <2>2
  <2> QED
    BY <2>3 DEF second, score, second_score
<1> HIDE DEF right
<1>6. ASSUME NEW r \in WrongResults(id, reference)
      PROVE  ~VerifyCorrectness(id, r, reference, d)
  <2>1. SUFFICES ASSUME r.ok, r.best = truth, r.count = count,
                        r.second_best = reference.second_best,
                        r.score \in (reference.score - 1) .. (reference.score + 1),
                        r.second_score \in (reference.second_score - 1)
                                             .. (reference.second_score + 1),
                        r.implementation = id
                 PROVE  FALSE
    BY <1>4 DEF VerifyCorrectness, FindsTruth, truth, count
  <2>2. r # FailedResult(id)
    BY <2>1 DEF FailedResult
  <2>3. r # [right EXCEPT !.implementation = "unavailable"]
    BY <1>5, <2>1 DEF Implementations
  <2>4. r # [right EXCEPT !.best = right.second_best, !.second_best = right.best]
    BY <1>2, <1>4, <1>5, <2>1
  <2>5. r # [right EXCEPT !.count = @ - 1]
    BY <1>3, <1>5, <2>1
  <2>6. r # [right EXCEPT !.score = @ - 2]
    BY <1>4, <1>5, <2>1
  <2>7. r # [right EXCEPT !.second_score = @ - 2]
    BY <1>4, <1>5, <2>1
  <2>8. ASSUME NEW h \in SecondBests \ {right.second_best}
        PROVE  r # [right EXCEPT !.second_best = h]
    BY <1>5, <2>1, <2>8
  <2> QED
    BY <2>2, <2>3, <2>4, <2>5, <2>6, <2>7, <2>8 DEF WrongResults, right
<1>7. VerifyCorrectness(id, right, reference, d)
  BY <1>4, <1>5 DEF VerifyCorrectness, FindsTruth, truth, count
<1> QED
  BY <1>6, <1>7 DEF d, right

\* The table can be put in order, so that selecting all workloads selects each of them.
LEMMA TableInOrder ==
  AllWorkloads \in Seq(DOMAIN Workloads) /\ AllWorkloads # << >>
<1> DEFINE n == Cardinality(DOMAIN Workloads)
<1>1. n \in Nat /\ n # 0
  BY WorkloadsAssumption, FS_CardinalityType, FS_EmptySet
<1>2. AllWorkloads \in [1 .. n -> DOMAIN Workloads]
  BY WorkloadsAssumption DEF AllWorkloads
<1> HIDE DEF n
<1> QED
  BY <1>1, <1>2

\* The call starts without anything done.
LEMMA BenchmarkInitInv == BenchmarkInit => BenchmarkInv
<1> SUFFICES ASSUME BenchmarkInit PROVE BenchmarkInv
  OBVIOUS
<1>1. CaptureCount \in Nat \ {0} /\ MaxFaults \in Nat /\ 0 \in Captures
  BY BenchmarkAssumption, CapturesWrap
<1>2. /\ stage = "start" /\ selected = << >> /\ current = 0 /\ references = << >>
      /\ position = [implementation |-> 1, capture |-> 0] /\ correctness = FreshCorrectness
      /\ modes = FreshModes /\ round = 0 /\ pending = {}
      /\ next_capture = [id \in Implementations |-> 0]
      /\ report_ok = TRUE /\ report = << >> /\ artifacts = NoArtifacts
      /\ faults = 0 /\ incidents = {}
  BY DEF BenchmarkInit
<1>3. [options |-> options, host |-> host] \in Calls
  <2>1. PICK call \in Calls : options = call.options /\ host = call.host
    BY DEF BenchmarkInit
  <2>2. call \in [options : Options, host : SUBSET {"neon", "sme2"}]
    BY BenchmarkAssumption
  <2>3. call = [options |-> call.options, host |-> call.host]
    BY <2>2
  <2> QED
    BY <2>1, <2>3
<1>4. modes \in [Tasks -> Mode] /\ \A task \in Tasks : modes[task] = FreshMode
  BY <1>2 DEF FreshModes, FreshMode, Mode
<1>5. correctness \in [Implementations -> Correctness]
      /\ \A id \in Implementations : correctness[id] = [passed |-> FALSE, cases |-> 0]
  BY <1>2 DEF FreshCorrectness, Correctness
<1>6. TypePart
  BY <1>1, <1>2, <1>3, <1>4, <1>5 DEF TypePart, TypeOK
<1>7. SelectionPart /\ ReferencesPart /\ OkPart /\ ReportPart
  BY <1>2 DEF SelectionPart, ReferencesPart, OkPart, ReportPart, Working
<1>8. CorrectnessPart
  <2>1. \A id \in Implementations : Compared(id) = 0
    BY <1>2, Turns DEF Compared
  <2> QED
    BY <1>2, <1>5, <2>1 DEF CorrectnessPart
<1>9. ModesPart /\ RoundsPart
  BY <1>2, <1>4 DEF ModesPart, RoundsPart, ActiveTasks, FreshMode
<1>10. ArtifactsPart
  BY <1>2 DEF ArtifactsPart, PublishedTimingIsComplete, ReportOkIsTruthful, NoArtifacts
<1> QED
  BY <1>6, <1>7, <1>8, <1>9, <1>10 DEF BenchmarkInv

-----------------------------------------------------------------------------

\* What depends on a workload alone stays while the workload is the same.
LEMMA SameWorkload ==
  ASSUME UNCHANGED <<selected, current>>
  PROVE  /\ Definition' = Definition
         /\ ReferenceResults(Definition)' = ReferenceResults(Definition)
<1>1. Definition' = Definition
  BY DEF Definition
<1> QED
  BY <1>1 DEF ReferenceResults, SecondBests, TrueHypothesis, FrequencyGrid, CandidateCount

\* The verdicts stay while nothing is verified and nothing happens.
LEMMA SameVerdicts ==
  ASSUME CorrectnessPart, UNCHANGED <<host, current, position, correctness, incidents>>
  PROVE  CorrectnessPart'
BY DEF CorrectnessPart, Available, Compared

\* The modes stay while nothing is timed.
LEMMA SameModes ==
  ASSUME ModesPart,
         UNCHANGED <<host, current, position, correctness, incidents, modes>>
  PROVE  ModesPart'
BY DEF ModesPart, Available

\* The workloads in the report stay as they are.
LEMMA SameReports ==
  ASSUME \A n \in DOMAIN report : CompleteModes(options.samples, incidents, n, report[n].modes),
         UNCHANGED <<options, report, incidents>>
  PROVE  \A n \in DOMAIN report' : CompleteModes(options'.samples, incidents', n, report'[n].modes)
OBVIOUS

\* The call ends with an error message and without a report.
LEMMA ErrorStep ==
  ASSUME BenchmarkInv, NEW message, message # NoError, ReturnError(message),
         UNCHANGED <<options, host, selected, current, verification, timing, incidents>>,
         faults' \in 0 .. MaxFaults
  PROVE  BenchmarkInv'
<1>1. /\ stage' = "done" /\ artifacts' = [NoArtifacts EXCEPT !.error = message]
      /\ UNCHANGED <<options, host, selected, current, references, position, correctness,
                     modes, next_capture, round, pending, report_ok, report, incidents>>
  BY DEF ReturnError, verification, timing
<1>2. artifacts'.report = << >> /\ artifacts'.error = message
  BY <1>1 DEF NoArtifacts
<1>3. TypePart'
  BY <1>1 DEF BenchmarkInv, TypePart, TypeOK, ActiveTasks
<1>4. SelectionPart' /\ ReferencesPart' /\ RoundsPart' /\ OkPart'
  BY <1>1 DEF BenchmarkInv, SelectionPart, ReferencesPart, RoundsPart, OkPart, Working, ActiveTasks
<1>5. CorrectnessPart' /\ ModesPart'
  BY <1>1, SameVerdicts, SameModes DEF BenchmarkInv
<1>6. ReportPart'
  BY <1>1, SameReports DEF BenchmarkInv, ReportPart, Working
<1>7. ArtifactsPart'
  BY <1>1, <1>2 DEF ArtifactsPart, PublishedTimingIsComplete, ReportOkIsTruthful
<1> QED
  BY <1>3, <1>4, <1>5, <1>6, <1>7 DEF BenchmarkInv

\* Invalid options and unknown or repeated names end the call,
LEMMA RefuseInv == ASSUME BenchmarkInv, Refuse PROVE BenchmarkInv'
<1>1. PICK message \in {"options", "selection"} : ReturnError(message)
  BY DEF Refuse
<1>2. message # NoError
  BY DEF NoError
<1>3. faults' \in 0 .. MaxFaults
  BY DEF Refuse, BenchmarkInv, TypePart, TypeOK
<1> QED
  BY <1>1, <1>2, <1>3, ErrorStep DEF Refuse

\* an invalid workload does,
LEMMA RejectWorkloadInv == ASSUME BenchmarkInv, RejectWorkload PROVE BenchmarkInv'
<1>1. ReturnError("workload") /\ "workload" # NoError
  BY DEF RejectWorkload, NoError
<1>2. faults' \in 0 .. MaxFaults
  BY BenchmarkAssumption DEF RejectWorkload, Faults, BenchmarkInv, TypePart, TypeOK
<1> QED
  BY <1>1, <1>2, ErrorStep DEF RejectWorkload

\* and a failed allocation does.
LEMMA AllocationFailsInv == ASSUME BenchmarkInv, AllocationFails PROVE BenchmarkInv'
<1>1. ReturnError("allocation") /\ "allocation" # NoError
  BY DEF AllocationFails, NoError
<1>2. faults' \in 0 .. MaxFaults
  BY BenchmarkAssumption DEF AllocationFails, Faults, BenchmarkInv, TypePart, TypeOK
<1> QED
  BY <1>1, <1>2, ErrorStep DEF AllocationFails

\* The selection holds names of the table, and one at least.
LEMMA SelectInv == ASSUME BenchmarkInv, Select PROVE BenchmarkInv'
<1>1. /\ stage = "start" /\ stage' = "prepare"
      /\ UNCHANGED <<options, host, current, references, position, correctness,
                     modes, next_capture, round, pending, report_ok, report, artifacts, faults,
                     incidents>>
  BY DEF Select, verification, timing, outcome
<1>2. selected' \in Seq(DOMAIN Workloads) /\ selected' # << >>
  <2>1. CASE options.names = << >>
    BY <2>1, TableInOrder DEF Select
  <2>2. CASE options.names # << >>
    <3>1. options.names \in Seq(STRING)
      <4>1. [options |-> options, host |-> host] \in [options : Options, host : SUBSET {"neon", "sme2"}]
        BY BenchmarkAssumption DEF BenchmarkInv, TypePart, TypeOK
      <4> QED
        BY <4>1 DEF Options
    <3>2. \A i \in DOMAIN options.names : options.names[i] \in DOMAIN Workloads
      BY DEF Select, SelectionError
    <3>3. selected' = options.names
      BY <2>2 DEF Select
    <3> QED
      BY <2>2, <3>1, <3>2, <3>3
  <2> QED
    BY <2>1, <2>2
<1>3. current = 0 /\ report = << >> /\ report_ok /\ incidents = {}
  BY <1>1 DEF BenchmarkInv, SelectionPart
<1>4. TypePart'
  BY <1>1 DEF BenchmarkInv, TypePart, TypeOK, ActiveTasks
<1>5. SelectionPart' /\ ReferencesPart' /\ RoundsPart' /\ OkPart'
  BY <1>1, <1>2, <1>3 DEF BenchmarkInv, SelectionPart, ReferencesPart, RoundsPart, OkPart, Working, ActiveTasks
<1>6. CorrectnessPart' /\ ModesPart'
  BY <1>1, SameVerdicts, SameModes DEF BenchmarkInv
<1>7. ReportPart'
  BY <1>1, <1>3, SameReports DEF BenchmarkInv, ReportPart, Working
<1>8. ArtifactsPart'
  BY <1>1 DEF BenchmarkInv, ArtifactsPart, OkPart, NoArtifacts, PublishedTimingIsComplete, ReportOkIsTruthful
<1> QED
  BY <1>4, <1>5, <1>6, <1>7, <1>8 DEF BenchmarkInv

-----------------------------------------------------------------------------

\* A workload starts with nothing of the one before.
LEMMA PrepareWorkloadInv == ASSUME BenchmarkInv, PrepareWorkload PROVE BenchmarkInv'
<1>1. /\ stage = "prepare" /\ stage' = "reference" /\ current < Len(selected) /\ current' = current + 1
      /\ references' = << >> /\ position' = [implementation |-> 1, capture |-> 0]
      /\ correctness' = FreshCorrectness /\ modes' = FreshModes
      /\ next_capture' = [id \in Implementations |-> 0] /\ round' = 0 /\ pending' = {}
      /\ UNCHANGED <<options, host, selected, report_ok, report, artifacts, faults, incidents>>
  BY DEF PrepareWorkload, outcome
<1>2. CaptureCount \in Nat \ {0} /\ 0 \in Captures
  BY BenchmarkAssumption, CapturesWrap
<1>3. current \in Nat /\ Len(report) = current /\ \A i \in incidents : i[1] \in 1 .. current
  BY <1>1 DEF BenchmarkInv, TypePart, TypeOK, ReportPart
<1>4. modes' \in [Tasks -> Mode] /\ \A task \in Tasks : modes'[task] = FreshMode
  BY <1>1 DEF FreshModes, FreshMode, Mode
<1>5. correctness' \in [Implementations -> Correctness]
      /\ \A id \in Implementations : correctness'[id] = [passed |-> FALSE, cases |-> 0]
  BY <1>1 DEF FreshCorrectness, Correctness
<1>6. TypePart'
  BY <1>1, <1>2, <1>3, <1>4, <1>5 DEF BenchmarkInv, TypePart, TypeOK
<1>7. SelectionPart'
  BY <1>1, <1>3 DEF BenchmarkInv, SelectionPart, Working
<1>8. ReferencesPart'
  BY <1>1, <1>2 DEF ReferencesPart
<1>9. CorrectnessPart'
  <2>1. \A id \in Implementations : Compared(id)' = 0
    BY <1>1, Turns DEF Compared
  <2>2. \A id \in Implementations : <<current', id, "check">> \notin incidents'
    BY <1>1, <1>3
  <2>3. \A id \in Implementations : ~(Compared(id)' > 0)
    BY <2>1
  <2> QED
    BY <1>5, <2>2, <2>3, Zenon DEF CorrectnessPart
<1>10. ModesPart' /\ RoundsPart'
  BY <1>1, <1>4 DEF ModesPart, RoundsPart, ActiveTasks, FreshMode
<1>11. ReportPart'
  BY <1>1, <1>3, SameReports DEF BenchmarkInv, ReportPart, Working
<1>12. OkPart'
  BY <1>1, <1>3 DEF BenchmarkInv, OkPart
<1>13. ArtifactsPart'
  BY <1>1 DEF BenchmarkInv, ArtifactsPart, OkPart, NoArtifacts, PublishedTimingIsComplete, ReportOkIsTruthful
<1> QED
  BY <1>6, <1>7, <1>8, <1>9, <1>10, <1>11, <1>12, <1>13 DEF BenchmarkInv

\* A call that is not over has published nothing.
LEMMA NothingPublished ==
  ASSUME BenchmarkInv, stage # "done", stage' # "done", UNCHANGED artifacts
  PROVE  ArtifactsPart'
BY DEF BenchmarkInv, ArtifactsPart, OkPart, NoArtifacts, PublishedTimingIsComplete, ReportOkIsTruthful

\* The reference is right on every capture before anything is compared with it.
LEMMA CheckReferenceInv == ASSUME BenchmarkInv, CheckReference PROVE BenchmarkInv'
<1>1. CASE ReturnError("reference") /\ Faults(1) /\ UNCHANGED references
  <2>1. "reference" # NoError
    BY DEF NoError
  <2>2. faults' \in 0 .. MaxFaults
    BY <1>1, BenchmarkAssumption DEF Faults, BenchmarkInv, TypePart, TypeOK
  <2> QED
    BY <1>1, <2>1, <2>2, ErrorStep DEF CheckReference, verification
<1>2. CASE /\ \E r \in ReferenceResults(Definition) : references' = Append(references, r)
           /\ stage' = IF Len(references') = CaptureCount THEN "verify" ELSE stage
           /\ UNCHANGED <<faults, outcome>>
  <2> DEFINE results == ReferenceResults(Definition)
  <2>1. /\ stage = "reference" /\ stage' \in {"reference", "verify"}
        /\ UNCHANGED <<options, host, selected, current, position, correctness,
                       modes, next_capture, round, pending, report_ok, report, artifacts, faults,
                       incidents>>
    BY <1>2 DEF CheckReference, timing, outcome
  <2>2. references \in Seq(results) /\ Len(references) < CaptureCount /\ results' = results
    BY <2>1, SameWorkload DEF BenchmarkInv, ReferencesPart
  <2>3. ReferencesPart'
    <3>1. CaptureCount \in Nat
      BY BenchmarkAssumption
    <3> HIDE DEF results
    <3>2. PICK r \in results : references' = Append(references, r)
      BY <1>2 DEF results
    <3>3. references' \in Seq(results) /\ Len(references') = Len(references) + 1
          /\ Len(references) \in Nat
      BY <2>2, <3>2
    <3>4. /\ stage' = "reference" => Len(references') < CaptureCount
          /\ stage' = "verify" => Len(references') = CaptureCount
      BY <1>2, <2>1, <2>2, <3>1, <3>3
    <3>5. references' \in Seq(results')
      BY <2>2, <3>3
    <3> QED
      BY <3>4, <3>5 DEF ReferencesPart, results
  <2>4. TypePart'
    BY <2>1 DEF BenchmarkInv, TypePart, TypeOK, ActiveTasks
  <2>5. SelectionPart'
    BY <2>1 DEF BenchmarkInv, SelectionPart, Working
  <2>6. CorrectnessPart' /\ ModesPart'
    BY <2>1, SameVerdicts, SameModes DEF BenchmarkInv
  <2>7. RoundsPart'
    BY <2>1 DEF BenchmarkInv, RoundsPart, ActiveTasks
  <2>8. ReportPart'
    BY <2>1, SameReports DEF BenchmarkInv, ReportPart, Working
  <2>9. OkPart'
    BY <2>1 DEF BenchmarkInv, OkPart
  <2>10. ArtifactsPart'
    BY <2>1, NothingPublished
  <2> QED
    BY <2>3, <2>4, <2>5, <2>6, <2>7, <2>8, <2>9, <2>10 DEF BenchmarkInv
<1> QED
  BY <1>1, <1>2 DEF CheckReference

\* An implementation that cannot be executed keeps what it has: nothing.
LEMMA SkipUnavailableInv == ASSUME BenchmarkInv, SkipUnavailable PROVE BenchmarkInv'
<1>1. /\ stage = "verify" /\ position.implementation <= 3 /\ ~Available(Verified)
      /\ position' = [implementation |-> position.implementation + 1, capture |-> 0]
      /\ UNCHANGED <<options, host, stage, selected, current, references, correctness,
                     modes, next_capture, round, pending, report_ok, report, artifacts, faults,
                     incidents>>
  BY DEF SkipUnavailable, timing, outcome
<1>2. /\ position.implementation \in 1 .. 3 /\ CaptureCount \in Nat
      /\ position'.implementation = position.implementation + 1
      /\ position'.capture = 0
  BY <1>1, BenchmarkAssumption DEF BenchmarkInv, TypePart
<1>3. TypePart'
  BY <1>1, <1>2 DEF BenchmarkInv, TypePart, TypeOK, ActiveTasks
<1>4. SelectionPart' /\ OkPart'
  BY <1>1 DEF BenchmarkInv, SelectionPart, OkPart, Working
<1>5. ReferencesPart'
  BY <1>1, SameWorkload DEF BenchmarkInv, ReferencesPart
<1>6. CorrectnessPart'
  <2>1. ASSUME NEW id \in Implementations, Available(id)
        PROVE  Compared(id)' = Compared(id)
    <3>1. id # Verified
      BY <1>1, <2>1
    <3>2. Turn(id) # position.implementation /\ Turn(id) \in 1 .. 3
      BY <1>2, <3>1, Turns DEF Verified
    <3> QED
      BY <1>2, <3>2 DEF Compared
  <2>2. \A id : Available(id)' = Available(id)
    BY <1>1 DEF Available
  <2> QED
    BY <1>1, <2>1, <2>2 DEF BenchmarkInv, CorrectnessPart
<1>7. ModesPart'
  BY <1>1, <1>2, Turns, TaskNames DEF BenchmarkInv, ModesPart, Available
<1>8. RoundsPart'
  BY <1>1 DEF BenchmarkInv, RoundsPart, ActiveTasks
<1>9. ReportPart'
  BY <1>1, SameReports DEF BenchmarkInv, ReportPart, Working
<1>10. ArtifactsPart'
  BY <1>1, NothingPublished
<1> QED
  BY <1>3, <1>4, <1>5, <1>6, <1>7, <1>8, <1>9, <1>10 DEF BenchmarkInv

\* An incident of a later workload says nothing about an earlier one.
LEMMA LaterIncident ==
  ASSUME NEW samples, NEW before, NEW after, NEW n, NEW mode,
         CompleteModes(samples, before, n, mode),
         \A i \in after : i \in before \/ i[1] # n
  PROVE  CompleteModes(samples, after, n, mode)
<1>1. ASSUME NEW task, Complete(samples, before, n, mode, task)
      PROVE  Complete(samples, after, n, mode, task)
  <2>1. ASSUME NEW what, <<n, task[1], what>> \in after
        PROVE  <<n, task[1], what>> \in before
    <3> DEFINE i == <<n, task[1], what>>
    <3>1. i[1] = n
      OBVIOUS
    <3> HIDE DEF i
    <3>2. i \in before
      BY <2>1, <3>1 DEF i
    <3> QED
      BY <3>2 DEF i
  <2> QED
    BY <1>1, <2>1 DEF Complete
<1> QED
  BY <1>1 DEF CompleteModes

\* Incidents of the workload in hand leave the report as it is.
LEMMA EarlierReports ==
  ASSUME BenchmarkInv, Len(report) < current, UNCHANGED <<options, report>>,
         \A i \in incidents' : i \in incidents \/ i[1] = current
  PROVE  \A n \in DOMAIN report' : CompleteModes(options'.samples, incidents', n, report'[n].modes)
<1> SUFFICES ASSUME NEW n \in DOMAIN report
             PROVE  CompleteModes(options.samples, incidents', n, report[n].modes)
  OBVIOUS
<1>1. CompleteModes(options.samples, incidents, n, report[n].modes)
  BY DEF BenchmarkInv, ReportPart
<1>2. n # current
  <2>1. Len(report) \in Nat /\ n \in 1 .. Len(report)
    BY DEF BenchmarkInv, ReportPart
  <2> QED
    BY <2>1
<1>3. \A i \in incidents' : i \in incidents \/ i[1] # n
  BY <1>2
<1> QED
  BY <1>1, <1>3, LaterIncident

\* What the comparison of one capture does: the verdict is whether the search was right.
CaptureStep(id, right) ==
  /\ correctness' = [correctness EXCEPT ![id] =
       [passed |-> right /\ (position.capture = 0 \/ @.passed),
        cases |-> @.cases + (IF right THEN 1 ELSE 0)]]
  /\ IF right THEN UNCHANGED <<faults, incidents>>
     ELSE Faults(1) /\ Incident(id, "check")
  /\ position' = [position EXCEPT !.capture = @ + 1]

\* Every comparison is such a step.
LEMMA VerifyCaptureStep ==
  ASSUME BenchmarkInv, VerifyCapture
  PROVE  \E right \in BOOLEAN : CaptureStep(Verified, right)
<1> DEFINE c == position.capture
           d == Definition
           id == Verified
<1>1. /\ stage = "verify" /\ position.implementation \in 1 .. 3
      /\ c \in Nat /\ c < CaptureCount /\ CaptureCount \in Nat
  BY BenchmarkAssumption DEF VerifyCapture, BenchmarkInv, TypePart, TypeOK
<1>2. id \in Implementations
  BY <1>1, Turns DEF Verified
<1> DEFINE reference == references[c + 1]
<1>3. reference \in ReferenceResults(d)
  <2> DEFINE results == ReferenceResults(d)
  <2>1. references \in Seq(results) /\ Len(references) = CaptureCount
    BY <1>1 DEF BenchmarkInv, ReferencesPart
  <2> HIDE DEF results
  <2>2. c + 1 \in 1 .. Len(references)
    BY <1>1, <2>1
  <2>3. reference \in results
    BY <2>1, <2>2
  <2> QED
    BY <2>3 DEF results
<1>4. /\ VerifyCorrectness(id, RightResult(id, reference), reference, d)
      /\ \A r \in WrongResults(id, reference) : ~VerifyCorrectness(id, r, reference, d)
  <2>1. selected[current] \in DOMAIN Workloads
    <3>1. current \in 1 .. Len(selected) /\ selected \in Seq(DOMAIN Workloads)
      BY <1>1 DEF BenchmarkInv, SelectionPart, TypePart, TypeOK, Working
    <3> QED
      BY <3>1
  <2> HIDE DEF reference
  <2> QED
    BY <1>2, <1>3, <2>1, OnlyRightPasses DEF Definition
<1>5. PICK right \in BOOLEAN :
        \E r \in IF right THEN {RightResult(id, reference)} ELSE WrongResults(id, reference) :
          LET ok == VerifyCorrectness(id, r, reference, d)
              cases == correctness[id].cases + (IF ok THEN 1 ELSE 0)
          IN /\ correctness' = [correctness EXCEPT
                  ![id] = [passed |-> ok /\ (c = 0 \/ @.passed), cases |-> cases]]
             /\ IF right THEN UNCHANGED <<faults, incidents>>
                ELSE Faults(1) /\ Incident(id, "check")
             /\ position' = [position EXCEPT !.capture = c + 1]
  BY DEF VerifyCapture
<1> HIDE DEF d, id, reference
<1>6. PICK r \in IF right THEN {RightResult(id, reference)} ELSE WrongResults(id, reference) :
        /\ correctness' = [correctness EXCEPT ![id] =
             [passed |-> VerifyCorrectness(id, r, reference, d) /\ (c = 0 \/ @.passed),
              cases |-> correctness[id].cases
                          + (IF VerifyCorrectness(id, r, reference, d) THEN 1 ELSE 0)]]
        /\ IF right THEN UNCHANGED <<faults, incidents>> ELSE Faults(1) /\ Incident(id, "check")
        /\ position' = [position EXCEPT !.capture = c + 1]
  BY <1>5
<1>7. VerifyCorrectness(id, r, reference, d) <=> right
  BY <1>4, <1>6
<1>8. correctness' = [correctness EXCEPT ![id] =
         [passed |-> right /\ (c = 0 \/ @.passed), cases |-> @.cases + (IF right THEN 1 ELSE 0)]]
  <2>1. CASE right
    BY <1>6, <1>7, <2>1
  <2>2. CASE ~right
    BY <1>6, <1>7, <2>2
  <2> QED
    BY <2>1, <2>2
<1>9. CaptureStep(id, right)
  BY <1>6, <1>8 DEF CaptureStep
<1> QED
  BY <1>9 DEF id

\* A comparison adds its verdict to that of the implementation, and changes nothing of
\* an implementation that may be timed.
LEMMA VerifyCaptureInv == ASSUME BenchmarkInv, VerifyCapture PROVE BenchmarkInv'
<1> DEFINE id == Verified
           k == position.implementation
           c == position.capture
<1>1. PICK right \in BOOLEAN : CaptureStep(id, right)
  BY VerifyCaptureStep
<1>2. /\ stage = "verify" /\ k \in 1 .. 3 /\ Available(id)
      /\ c \in Nat /\ c < CaptureCount /\ CaptureCount \in Nat
      /\ UNCHANGED <<options, host, stage, selected, current, references,
                     modes, next_capture, round, pending, report_ok, report, artifacts>>
  BY BenchmarkAssumption DEF VerifyCapture, BenchmarkInv, TypePart, TypeOK, timing, outcome
<1>3. id \in Implementations /\ Turn(id) = k
  BY <1>2, Turns DEF Verified
<1> HIDE DEF id
<1>4. /\ position' \in [implementation : 1 .. 4, capture : 0 .. CaptureCount]
      /\ position'.implementation = k /\ position'.capture = c + 1
  BY <1>1, <1>2 DEF CaptureStep, BenchmarkInv, TypePart
<1>5. /\ correctness' \in [Implementations -> Correctness]
      /\ \A other \in Implementations : other # id => correctness'[other] = correctness[other]
      /\ correctness'[id].passed <=> right /\ (c = 0 \/ correctness[id].passed)
      /\ correctness'[id].cases = correctness[id].cases + (IF right THEN 1 ELSE 0)
  <2>1. correctness \in [Implementations -> Correctness]
    BY DEF BenchmarkInv, TypePart, TypeOK
  <2> DEFINE verdict == [passed |-> right /\ (c = 0 \/ correctness[id].passed),
                         cases |-> correctness[id].cases + (IF right THEN 1 ELSE 0)]
  <2>2. correctness[id].cases \in Nat
    BY <1>3, <2>1 DEF Correctness
  <2>3. verdict \in Correctness
    BY <2>2 DEF Correctness
  <2>4. correctness' = [correctness EXCEPT ![id] = verdict]
    BY <1>1 DEF CaptureStep
  <2>5. /\ verdict.passed <=> right /\ (c = 0 \/ correctness[id].passed)
        /\ verdict.cases = correctness[id].cases + (IF right THEN 1 ELSE 0)
    OBVIOUS
  <2> HIDE DEF verdict
  <2> QED
    BY <1>3, <2>1, <2>3, <2>4, <2>5
<1>6. /\ faults' \in 0 .. MaxFaults
      /\ right => incidents' = incidents
      /\ ~right => incidents' = incidents \cup {<<current, id, "check">>}
  BY <1>1, BenchmarkAssumption DEF CaptureStep, Faults, Incident, BenchmarkInv, TypePart, TypeOK
<1>8. current \in Nat /\ current >= 1
  BY <1>2 DEF BenchmarkInv, TypePart, TypeOK, SelectionPart, Working
<1>9. TypePart'
  <2>1. \A i \in incidents' : i[1] \in 1 .. current' /\ i[2] \in Implementations
                             /\ i = <<i[1], i[2], i[3]>>
    BY <1>2, <1>3, <1>6, <1>8 DEF BenchmarkInv, TypePart
  <2>2. ActiveTasks' = ActiveTasks
    BY <1>2 DEF ActiveTasks
  <2> QED
    BY <1>2, <1>4, <1>5, <1>6, <2>1, <2>2 DEF BenchmarkInv, TypePart, TypeOK
<1>10. SelectionPart'
  BY <1>2 DEF BenchmarkInv, SelectionPart
<1>11. ReferencesPart'
  BY <1>2, SameWorkload DEF BenchmarkInv, ReferencesPart
<1>12. CorrectnessPart'
  <2> SUFFICES ASSUME NEW other \in Implementations
               PROVE  IF Available(other) /\ Compared(other)' > 0
                      THEN /\ correctness'[other].passed <=> <<current, other, "check">> \notin incidents'
                           /\ correctness'[other].passed => correctness'[other].cases = Compared(other)'
                      ELSE /\ correctness'[other] = [passed |-> FALSE, cases |-> 0]
                           /\ <<current, other, "check">> \notin incidents'
    BY <1>2 DEF CorrectnessPart, Available
  <2>1. IF Available(other) /\ Compared(other) > 0
        THEN /\ correctness[other].passed <=> <<current, other, "check">> \notin incidents
             /\ correctness[other].passed => correctness[other].cases = Compared(other)
        ELSE /\ correctness[other] = [passed |-> FALSE, cases |-> 0]
             /\ <<current, other, "check">> \notin incidents
    BY DEF BenchmarkInv, CorrectnessPart
  <2>2. CASE other # id
    <3>1. Compared(other)' = Compared(other)
      <4>1. Turn(other) # k
        BY <1>2, <1>3, <2>2, Turns
      <4> QED
        BY <1>4, <4>1 DEF Compared
    <3>2. <<current, other, "check">> \in incidents' <=> <<current, other, "check">> \in incidents
      BY <1>6, <2>2
    <3> QED
      BY <1>5, <2>1, <2>2, <3>1, <3>2
  <2>3. CASE other = id
    <3>1. Compared(other) = c /\ Compared(other)' = c + 1
      <4>1. Turn(other) = k /\ ~(k < k)
        BY <1>2, <1>3, <2>3
      <4> QED
        BY <1>4, <4>1 DEF Compared
    <3>2. c = 0 => correctness[id].passed = FALSE /\ correctness[id].cases = 0
                   /\ <<current, id, "check">> \notin incidents
      BY <2>1, <2>3, <3>1
    <3>3. c # 0 => /\ correctness[id].passed <=> <<current, id, "check">> \notin incidents
                   /\ correctness[id].passed => correctness[id].cases = c
      BY <1>2, <2>1, <2>3, <3>1
    <3>4. correctness'[id].passed <=> <<current, id, "check">> \notin incidents'
      BY <1>5, <1>6, <3>2, <3>3
    <3>5. correctness'[id].passed => correctness'[id].cases = c + 1
      BY <1>5, <3>2, <3>3
    <3>6. Available(other) /\ Compared(other)' > 0
      BY <1>2, <2>3, <3>1
    <3> QED
      BY <2>3, <3>1, <3>4, <3>5, <3>6
  <2> QED
    BY <2>2, <2>3
<1>13. ModesPart'
  <2> SUFFICES ASSUME NEW task \in Tasks
               PROVE  /\ modes[task].valid \/ modes[task].samples > 0 =>
                           /\ Turn(task[1]) < k
                           /\ Available(task[1]) /\ correctness'[task[1]].passed
                      /\ modes[task].valid => <<current, task[1], task[2]>> \notin incidents'
    BY <1>2, <1>4 DEF ModesPart, Available
  <2>1. task[1] \in Implementations /\ task[2] # "check"
    BY TaskNames
  <2>2. /\ modes[task].valid \/ modes[task].samples > 0 =>
             Turn(task[1]) < k /\ Available(task[1]) /\ correctness[task[1]].passed
        /\ modes[task].valid => <<current, task[1], task[2]>> \notin incidents
    BY DEF BenchmarkInv, ModesPart
  <2>3. modes[task].valid \/ modes[task].samples > 0 => task[1] # id
    BY <1>2, <1>3, <2>2
  <2> QED
    BY <1>5, <1>6, <2>1, <2>2, <2>3
<1>14. RoundsPart'
  BY <1>2 DEF BenchmarkInv, RoundsPart, ActiveTasks
<1>15. ReportPart'
  <2>1. Len(report) + 1 = current /\ report' = report /\ options' = options
    BY <1>2 DEF BenchmarkInv, ReportPart, Working
  <2>2. \A n \in DOMAIN report' : CompleteModes(options'.samples, incidents', n, report'[n].modes)
    BY <1>6, <2>1, EarlierReports DEF BenchmarkInv, ReportPart
  <2> QED
    BY <1>2, <2>1, <2>2 DEF BenchmarkInv, ReportPart, Working
<1>16. OkPart'
  BY <1>2, <1>6 DEF BenchmarkInv, OkPart
<1>17. ArtifactsPart'
  BY <1>2, NothingPublished
<1> QED
  BY <1>9, <1>10, <1>11, <1>12, <1>13, <1>14, <1>15, <1>16, <1>17 DEF BenchmarkInv

\* The modes of an implementation are opened by its verdict, and those of SME2 by one
\* more preparation of its workspace.
LEMMA FinishImplementationInv == ASSUME BenchmarkInv, FinishImplementation PROVE BenchmarkInv'
<1> DEFINE k == position.implementation
<1>1. /\ stage = "verify" /\ k \in 1 .. 3 /\ position.capture = CaptureCount
      /\ CaptureCount \in Nat /\ CaptureCount > 0 /\ Available(Verified)
      /\ position' = [implementation |-> k + 1, capture |-> 0]
      /\ UNCHANGED <<options, host, stage, selected, current, references, next_capture,
                     round, pending, report_ok, report, artifacts>>
  BY BenchmarkAssumption DEF FinishImplementation, BenchmarkInv, TypePart, TypeOK, outcome
<1>2. PICK id \in Implementations : id = Verified /\ Turn(id) = k
  BY <1>1, Turns DEF Verified
<1>3. PICK prepared \in BOOLEAN :
        LET again == id = "sme2" /\ correctness["sme2"].passed
            passed == correctness[id].passed /\ prepared
        IN /\ prepared \in IF again THEN BOOLEAN ELSE {TRUE}
           /\ correctness' = [correctness EXCEPT ![id].passed = passed]
           /\ modes' = [task \in Tasks |->
                          IF task[1] # id THEN modes[task]
                          ELSE [modes[task] EXCEPT !.valid = passed]]
           /\ IF prepared THEN UNCHANGED <<faults, incidents>>
              ELSE Faults(1) /\ Incident("sme2", "check")
  BY <1>2 DEF FinishImplementation
<1> DEFINE passed == correctness[id].passed /\ prepared
<1>4. position'.implementation = k + 1 /\ position'.capture = 0
  BY <1>1
<1>5. correctness \in [Implementations -> Correctness] /\ modes \in [Tasks -> Mode]
  BY DEF BenchmarkInv, TypePart, TypeOK
<1>6. /\ correctness' \in [Implementations -> Correctness]
      /\ \A other \in Implementations : other # id => correctness'[other] = correctness[other]
      /\ correctness'[id].passed <=> passed
      /\ correctness'[id].cases = correctness[id].cases
  <2>1. correctness' = [correctness EXCEPT ![id].passed = passed] /\ passed \in BOOLEAN
    BY <1>3
  <2> HIDE DEF passed
  <2> DEFINE verdict == [correctness[id] EXCEPT !.passed = passed]
  <2>2. correctness[id] \in Correctness
    BY <1>5
  <2>3. verdict \in Correctness /\ verdict.passed = passed /\ verdict.cases = correctness[id].cases
    BY <2>1, <2>2 DEF Correctness
  <2>4. correctness' = [correctness EXCEPT ![id] = verdict]
    BY <1>5, <2>1
  <2> HIDE DEF verdict
  <2> QED
    BY <1>5, <2>3, <2>4
<1>7. /\ modes' \in [Tasks -> Mode]
      /\ \A task \in Tasks : /\ task[1] # id => modes'[task] = modes[task]
                             /\ task[1] = id => (modes'[task].valid <=> passed)
                             /\ modes'[task].samples = modes[task].samples
  <2>1. passed \in BOOLEAN
    OBVIOUS
  <2>2. modes' = [task \in Tasks |-> IF task[1] # id THEN modes[task]
                                     ELSE [modes[task] EXCEPT !.valid = passed]]
    BY <1>3
  <2> HIDE DEF passed
  <2> QED
    BY <1>5, <2>1, <2>2 DEF Mode
<1>8. /\ faults' \in 0 .. MaxFaults
      /\ prepared => incidents' = incidents
      /\ ~prepared => id = "sme2" /\ incidents' = incidents \cup {<<current, id, "check">>}
  <2>1. CASE prepared
    BY <1>3, <2>1 DEF BenchmarkInv, TypePart, TypeOK
  <2>2. CASE ~prepared
    <3>1. Faults(1) /\ Incident("sme2", "check")
      BY <1>3, <2>2
    <3>2. id = "sme2"
      BY <1>3, <2>2
    <3>3. faults \in 0 .. MaxFaults
      BY DEF BenchmarkInv, TypePart, TypeOK
    <3> QED
      BY <2>2, <3>1, <3>2, <3>3, BenchmarkAssumption DEF Faults, Incident
  <2> QED
    BY <2>1, <2>2
<1>10. current \in Nat /\ current >= 1
  BY <1>1 DEF BenchmarkInv, TypePart, TypeOK, SelectionPart, Working
<1> HIDE DEF passed
<1>11. \A task \in Tasks : task[1] = id => ~modes[task].valid /\ modes[task].samples = 0
  <2> SUFFICES ASSUME NEW task \in Tasks, task[1] = id
               PROVE  ~modes[task].valid /\ modes[task].samples = 0
    OBVIOUS
  <2>1. modes[task].valid \/ modes[task].samples > 0 => Turn(id) < k
    BY DEF BenchmarkInv, ModesPart
  <2>2. modes[task].samples \in Nat
    BY <1>5 DEF Mode
  <2> QED
    BY <1>1, <1>2, <2>1, <2>2
<1>12. TypePart'
  <2>1. \A i \in incidents' : i[1] \in 1 .. current' /\ i[2] \in Implementations
                             /\ i = <<i[1], i[2], i[3]>>
    BY <1>1, <1>8, <1>10 DEF BenchmarkInv, TypePart
  <2>2. pending = {}
    BY <1>1 DEF BenchmarkInv, RoundsPart
  <2>3. position' \in [implementation : 1 .. 4, capture : 0 .. CaptureCount]
    BY <1>1
  <2> QED
    BY <1>1, <1>6, <1>7, <1>8, <2>1, <2>2, <2>3 DEF BenchmarkInv, TypePart, TypeOK
<1>13. SelectionPart'
  BY <1>1 DEF BenchmarkInv, SelectionPart
<1>14. ReferencesPart'
  BY <1>1, SameWorkload DEF BenchmarkInv, ReferencesPart
<1>15. CorrectnessPart'
  <2> SUFFICES ASSUME NEW other \in Implementations
               PROVE  IF Available(other) /\ Compared(other)' > 0
                      THEN /\ correctness'[other].passed <=> <<current, other, "check">> \notin incidents'
                           /\ correctness'[other].passed => correctness'[other].cases = Compared(other)'
                      ELSE /\ correctness'[other] = [passed |-> FALSE, cases |-> 0]
                           /\ <<current, other, "check">> \notin incidents'
    BY <1>1 DEF CorrectnessPart, Available
  <2>1. IF Available(other) /\ Compared(other) > 0
        THEN /\ correctness[other].passed <=> <<current, other, "check">> \notin incidents
             /\ correctness[other].passed => correctness[other].cases = Compared(other)
        ELSE /\ correctness[other] = [passed |-> FALSE, cases |-> 0]
             /\ <<current, other, "check">> \notin incidents
    BY DEF BenchmarkInv, CorrectnessPart
  <2>2. Turn(other) \in 1 .. 3
    BY Turns
  <2>3. CASE other # id
    <3>1. Turn(other) # k
      BY <1>1, <1>2, <2>3, Turns
    <3>2. Compared(other)' = Compared(other)
      BY <1>1, <1>4, <2>2, <3>1 DEF Compared
    <3>3. <<current, other, "check">> \in incidents' <=> <<current, other, "check">> \in incidents
      BY <1>8, <2>3
    <3> QED
      BY <1>6, <2>1, <2>3, <3>2, <3>3
  <2>4. CASE other = id
    <3>1. Compared(other) = CaptureCount /\ Compared(other)' = CaptureCount
      BY <1>1, <1>2, <1>4, <2>4 DEF Compared
    <3>2. Available(other)
      BY <1>1, <1>2, <2>4
    <3>3. /\ correctness[id].passed <=> <<current, id, "check">> \notin incidents
          /\ correctness[id].passed => correctness[id].cases = CaptureCount
      BY <1>1, <2>1, <2>4, <3>1, <3>2
    <3>4. correctness'[id].passed <=> <<current, id, "check">> \notin incidents'
      BY <1>6, <1>8, <3>3 DEF passed
    <3>5. correctness'[id].passed => correctness'[id].cases = CaptureCount
      BY <1>6, <3>3 DEF passed
    <3> QED
      BY <1>1, <2>4, <3>1, <3>2, <3>4, <3>5
  <2> QED
    BY <2>3, <2>4
<1>16. ModesPart'
  <2> SUFFICES ASSUME NEW task \in Tasks
               PROVE  /\ modes'[task].valid \/ modes'[task].samples > 0 =>
                           /\ Turn(task[1]) < k + 1
                           /\ Available(task[1]) /\ correctness'[task[1]].passed
                      /\ modes'[task].valid => <<current, task[1], task[2]>> \notin incidents'
    BY <1>1, <1>4 DEF ModesPart, Available
  <2>1. task[1] \in Implementations /\ task[2] # "check" /\ Turn(task[1]) \in 1 .. 3
    BY TaskNames, Turns
  <2>2. /\ modes[task].valid \/ modes[task].samples > 0 =>
             Turn(task[1]) < k /\ Available(task[1]) /\ correctness[task[1]].passed
        /\ modes[task].valid => <<current, task[1], task[2]>> \notin incidents
    BY DEF BenchmarkInv, ModesPart
  <2>3. CASE task[1] # id
    <3>1. modes'[task] = modes[task] /\ correctness'[task[1]] = correctness[task[1]]
      BY <1>6, <1>7, <2>1, <2>3
    <3> QED
      BY <1>1, <1>8, <2>1, <2>2, <2>3, <3>1
  <2>4. CASE task[1] = id
    <3>1. modes'[task].samples = 0 /\ (modes'[task].valid <=> passed)
      BY <1>7, <1>11, <2>4
    <3>2. <<current, task[1], task[2]>> \notin incidents
      <4>1. \A i \in incidents : i[1] = current => i[3] = "check"
        BY <1>1 DEF BenchmarkInv, OkPart
      <4> QED
        BY <2>1, <4>1
    <3> QED
      BY <1>1, <1>2, <1>6, <1>8, <2>1, <2>4, <3>1, <3>2
  <2> QED
    BY <2>3, <2>4
<1>17. RoundsPart'
  BY <1>1, <1>7 DEF BenchmarkInv, RoundsPart, ActiveTasks
<1>18. ReportPart'
  <2>1. Len(report) + 1 = current /\ Len(report) \in Nat
    BY <1>1 DEF BenchmarkInv, ReportPart, Working
  <2>2. \A i \in incidents' : i \in incidents \/ i[1] = current
    BY <1>8
  <2>3. \A n \in DOMAIN report' : CompleteModes(options'.samples, incidents', n, report'[n].modes)
    BY <1>1, <2>1, <2>2, EarlierReports
  <2> QED
    BY <1>1, <2>1, <2>3 DEF BenchmarkInv, ReportPart, Working
<1>19. OkPart'
  BY <1>1, <1>8 DEF BenchmarkInv, OkPart
<1>20. ArtifactsPart'
  BY <1>1, NothingPublished
<1> QED
  BY <1>12, <1>13, <1>14, <1>15, <1>16, <1>17, <1>18, <1>19, <1>20 DEF BenchmarkInv

\* The verdicts of a workload go into the flag of the report.
LEMMA JudgeWorkloadInv == ASSUME BenchmarkInv, JudgeWorkload PROVE BenchmarkInv'
<1>1. /\ stage = "verify" /\ stage' = "warm-up" /\ position.implementation = 4
      /\ report_ok' = (report_ok /\ \A id \in Implementations : Available(id) => correctness[id].passed)
      /\ UNCHANGED <<options, host, selected, current, references, position, correctness,
                     modes, next_capture, round, pending, report, artifacts, faults, incidents>>
  BY DEF JudgeWorkload, verification, timing
<1>2. \A id \in Implementations :
        <<current, id, "check">> \in incidents <=> Available(id) /\ ~correctness[id].passed
  <2>1. \A id \in Implementations : Compared(id) > 0
    BY <1>1, Turns, BenchmarkAssumption DEF Compared
  <2> QED
    BY <2>1 DEF BenchmarkInv, CorrectnessPart
<1>3. report_ok' <=> incidents = {}
  <2>1. /\ report_ok <=> \A i \in incidents : i[1] = current
        /\ \A i \in incidents : i[1] = current => i[3] = "check"
    BY <1>1 DEF BenchmarkInv, OkPart
  <2>2. \A i \in incidents : i = <<i[1], i[2], i[3]>> /\ i[2] \in Implementations
    BY DEF BenchmarkInv, TypePart
  <2>3. ASSUME report_ok' PROVE incidents = {}
    BY <1>1, <1>2, <2>1, <2>2, <2>3
  <2>4. ASSUME incidents = {} PROVE report_ok'
    BY <1>1, <1>2, <2>1, <2>4
  <2> QED
    BY <2>3, <2>4
<1>4. TypePart'
  BY <1>1 DEF BenchmarkInv, TypePart, TypeOK, ActiveTasks
<1>5. SelectionPart' /\ ReferencesPart'
  BY <1>1 DEF BenchmarkInv, SelectionPart, ReferencesPart, Working
<1>6. CorrectnessPart' /\ ModesPart'
  BY <1>1, SameVerdicts, SameModes DEF BenchmarkInv
<1>7. RoundsPart'
  BY <1>1 DEF BenchmarkInv, RoundsPart, ActiveTasks
<1>8. ReportPart'
  BY <1>1, SameReports DEF BenchmarkInv, ReportPart, Working
<1>9. OkPart'
  BY <1>1, <1>3 DEF BenchmarkInv, OkPart
<1>10. ArtifactsPart'
  BY <1>1, NothingPublished
<1> QED
  BY <1>4, <1>5, <1>6, <1>7, <1>8, <1>9, <1>10 DEF BenchmarkInv

-----------------------------------------------------------------------------

\* A round begins with every open mode pending.
LEMMA BeginRoundInv == ASSUME BenchmarkInv, BeginRound PROVE BenchmarkInv'
<1>1. /\ stage \in {"warm-up", "timing"} /\ pending = {} /\ round' = round + 1 /\ pending' = ActiveTasks
      /\ UNCHANGED <<options, host, stage, selected, current, references, position, correctness,
                     modes, next_capture, report_ok, report, artifacts, faults, incidents>>
  BY DEF BeginRound, verification, outcome
<1>2. ActiveTasks' = ActiveTasks /\ ActiveTasks \subseteq Tasks
  BY <1>1 DEF ActiveTasks
<1>3. TypePart'
  BY <1>1, <1>2 DEF BenchmarkInv, TypePart, TypeOK
<1>4. SelectionPart' /\ ReferencesPart' /\ OkPart'
  BY <1>1 DEF BenchmarkInv, SelectionPart, ReferencesPart, OkPart, Working
<1>5. CorrectnessPart' /\ ModesPart'
  BY <1>1, SameVerdicts, SameModes DEF BenchmarkInv
<1>6. RoundsPart'
  <2>1. stage = "timing" => \A task \in ActiveTasks : modes[task].samples + 1 = round'
    BY <1>1 DEF BenchmarkInv, RoundsPart
  <2> QED
    BY <1>1, <1>2, <2>1 DEF BenchmarkInv, RoundsPart
<1>7. ReportPart'
  BY <1>1, SameReports DEF BenchmarkInv, ReportPart, Working
<1>8. ArtifactsPart'
  BY <1>1, NothingPublished
<1> QED
  BY <1>3, <1>4, <1>5, <1>6, <1>7, <1>8 DEF BenchmarkInv

\* After the rounds every open mode has a sample of each.
LEMMA EndRoundsInv == ASSUME BenchmarkInv, EndRounds PROVE BenchmarkInv'
<1>1. /\ stage \in {"warm-up", "timing"} /\ pending = {} /\ round = Rounds /\ round' = 0
      /\ stage' = IF stage = "warm-up" THEN "timing" ELSE "summarize"
      /\ UNCHANGED <<options, host, selected, current, references, position, correctness,
                     modes, next_capture, pending, report_ok, report, artifacts,
                     faults, incidents>>
  BY DEF EndRounds, verification, outcome
<1>2. ActiveTasks' = ActiveTasks /\ ActiveTasks \subseteq Tasks
  BY <1>1 DEF ActiveTasks
<1>3. TypePart'
  BY <1>1, <1>2 DEF BenchmarkInv, TypePart, TypeOK
<1>4. SelectionPart' /\ ReferencesPart' /\ OkPart'
  BY <1>1 DEF BenchmarkInv, SelectionPart, ReferencesPart, OkPart, Working
<1>5. CorrectnessPart' /\ ModesPart'
  BY <1>1, SameVerdicts, SameModes DEF BenchmarkInv
<1>6. RoundsPart'
  <2>1. CASE stage = "warm-up"
    BY <1>1, <1>2, <2>1 DEF BenchmarkInv, RoundsPart
  <2>2. CASE stage = "timing"
    <3>1. \A task \in ActiveTasks : modes[task].samples = options.samples
      BY <1>1, <2>2 DEF BenchmarkInv, RoundsPart, Rounds
    <3> QED
      BY <1>1, <1>2, <2>2, <3>1 DEF BenchmarkInv, RoundsPart
  <2> QED
    BY <1>1, <2>1, <2>2
<1>7. ReportPart'
  BY <1>1, SameReports DEF BenchmarkInv, ReportPart, Working
<1>8. ArtifactsPart'
  BY <1>1, NothingPublished
<1> QED
  BY <1>3, <1>4, <1>5, <1>6, <1>7, <1>8 DEF BenchmarkInv

\* A search takes a capture of the bank.
LEMMA ExecuteStep ==
  ASSUME BenchmarkInv, NEW task \in Tasks, NEW n \in Nat, Execute(task, n)
  PROVE  next_capture' \in [Implementations -> Captures]
<1>1. next_capture \in [Implementations -> Captures] /\ task[1] \in Implementations
  BY TaskNames DEF BenchmarkInv, TypePart, TypeOK
<1>2. NextCapture(next_capture[task[1]], n) \in Captures
  BY <1>1, CapturesWrap
<1> QED
  BY <1>1, <1>2 DEF Execute

\* A search that works leaves the modes as they are, or adds a sample in its turn.
LEMMA GoodSearch ==
  ASSUME BenchmarkInv, stage \in {"warm-up", "timing"}, NEW task \in pending, NEW n \in Nat,
         pending' = pending \ {task}, Execute(task, n),
         modes' = IF stage = "timing" THEN [modes EXCEPT ![task].samples = @ + 1] ELSE modes,
         UNCHANGED <<options, host, stage, selected, current, references, position, correctness,
                     round, report_ok, report, artifacts, faults, incidents>>
  PROVE  BenchmarkInv'
<1>1. task \in Tasks /\ modes \in [Tasks -> Mode] /\ modes[task].valid = TRUE
  BY DEF BenchmarkInv, TypePart, TypeOK, ActiveTasks, Mode
<1>2. next_capture' \in [Implementations -> Captures]
  BY <1>1, ExecuteStep
<1>3. /\ modes' \in [Tasks -> Mode]
      /\ \A other \in Tasks : other # task => modes'[other] = modes[other]
      /\ modes'[task].valid = TRUE
      /\ modes'[task].samples = IF stage = "timing" THEN modes[task].samples + 1
                                ELSE modes[task].samples
      /\ modes[task].samples \in Nat
  BY <1>1 DEF Mode
<1>4. ActiveTasks' = ActiveTasks /\ ActiveTasks \subseteq Tasks
  BY <1>1, <1>3 DEF ActiveTasks
<1>5. TypePart'
  BY <1>2, <1>3, <1>4 DEF BenchmarkInv, TypePart, TypeOK
<1>6. SelectionPart' /\ ReferencesPart' /\ OkPart'
  BY DEF BenchmarkInv, SelectionPart, ReferencesPart, OkPart, Working
<1>7. CorrectnessPart'
  BY SameVerdicts DEF BenchmarkInv
<1>8. ModesPart'
  <2> SUFFICES ASSUME NEW other \in Tasks
               PROVE  /\ modes'[other].valid \/ modes'[other].samples > 0 =>
                           /\ Turn(other[1]) < position.implementation
                           /\ Available(other[1]) /\ correctness[other[1]].passed
                      /\ modes'[other].valid => <<current, other[1], other[2]>> \notin incidents
    BY <1>2 DEF ModesPart, Available
  <2>1. /\ modes[other].valid \/ modes[other].samples > 0 =>
             Turn(other[1]) < position.implementation /\ Available(other[1]) /\ correctness[other[1]].passed
        /\ modes[other].valid => <<current, other[1], other[2]>> \notin incidents
    BY DEF BenchmarkInv, ModesPart
  <2> QED
    BY <1>1, <1>3, <2>1
<1>9. RoundsPart'
  <2>1. stage = "warm-up" => \A other \in Tasks : modes'[other].samples = 0
    BY DEF BenchmarkInv, RoundsPart
  <2>2. ASSUME stage = "timing", NEW other \in ActiveTasks
        PROVE  IF other \in pending' THEN modes'[other].samples + 1 = round
               ELSE modes'[other].samples = round
    <3>1. IF other \in pending THEN modes[other].samples + 1 = round
          ELSE modes[other].samples = round
      BY <2>2 DEF BenchmarkInv, RoundsPart
    <3> QED
      BY <1>3, <1>4, <2>2, <3>1
  <2>3. stage' = stage /\ round' = round /\ position' = position
    OBVIOUS
  <2> QED
    BY <1>4, <2>1, <2>2, <2>3 DEF BenchmarkInv, RoundsPart
<1>10. ReportPart'
  BY SameReports DEF BenchmarkInv, ReportPart, Working
<1>11. ArtifactsPart'
  BY NothingPublished
<1> QED
  BY <1>5, <1>6, <1>7, <1>8, <1>9, <1>10, <1>11 DEF BenchmarkInv

\* A search that fails closes its mode, and the report is not ok any more.
LEMMA BadSearch ==
  ASSUME BenchmarkInv, stage \in {"warm-up", "timing"}, NEW task \in pending, NEW n \in Nat,
         pending' = pending \ {task}, Execute(task, n), ExecutionFails(task),
         UNCHANGED <<options, host, stage, selected, current, references, position, correctness,
                     round, report, artifacts>>
  PROVE  BenchmarkInv'
<1>1. task \in Tasks /\ modes \in [Tasks -> Mode]
  BY DEF BenchmarkInv, TypePart, TypeOK
<1>2. next_capture' \in [Implementations -> Captures]
  BY <1>1, ExecuteStep
<1>3. /\ modes' \in [Tasks -> Mode]
      /\ \A other \in Tasks : other # task => modes'[other] = modes[other]
      /\ modes'[task].valid = FALSE
      /\ modes'[task].samples = modes[task].samples
  BY <1>1 DEF ExecutionFails, CloseMode, Mode
<1>4. /\ faults' \in 0 .. MaxFaults /\ report_ok' = FALSE
      /\ incidents' = incidents \cup {<<current, task[1], task[2]>>}
  BY BenchmarkAssumption
     DEF ExecutionFails, FailureNoted, Faults, Incident, BenchmarkInv, TypePart, TypeOK
<1>5. ActiveTasks' = ActiveTasks \ {task} /\ ActiveTasks \subseteq Tasks
  BY <1>1, <1>3 DEF ActiveTasks
<1>6. task[1] \in Implementations /\ task[2] # "check"
  BY <1>1, TaskNames
<1>7. current \in Nat /\ current >= 1
  BY DEF BenchmarkInv, TypePart, TypeOK, SelectionPart, Working
<1>8. TypePart'
  <2>1. \A i \in incidents' : i[1] \in 1 .. current' /\ i[2] \in Implementations
                             /\ i = <<i[1], i[2], i[3]>>
    BY <1>4, <1>6, <1>7 DEF BenchmarkInv, TypePart
  <2> QED
    BY <1>2, <1>3, <1>4, <1>5, <2>1 DEF BenchmarkInv, TypePart, TypeOK
<1>9. SelectionPart' /\ ReferencesPart'
  BY DEF BenchmarkInv, SelectionPart, ReferencesPart, Working
<1>10. OkPart'
  BY <1>4 DEF BenchmarkInv, OkPart
<1>11. CorrectnessPart'
  <2>1. \A id : <<current, id, "check">> \in incidents' <=> <<current, id, "check">> \in incidents
    BY <1>4, <1>6
  <2> QED
    BY <2>1 DEF BenchmarkInv, CorrectnessPart, Available, Compared
<1>12. ModesPart'
  <2> SUFFICES ASSUME NEW other \in Tasks
               PROVE  /\ modes'[other].valid \/ modes'[other].samples > 0 =>
                           /\ Turn(other[1]) < position.implementation
                           /\ Available(other[1]) /\ correctness[other[1]].passed
                      /\ modes'[other].valid => <<current, other[1], other[2]>> \notin incidents'
    BY <1>2 DEF ModesPart, Available
  <2>1. /\ modes[other].valid \/ modes[other].samples > 0 =>
             Turn(other[1]) < position.implementation /\ Available(other[1]) /\ correctness[other[1]].passed
        /\ modes[other].valid => <<current, other[1], other[2]>> \notin incidents
    BY DEF BenchmarkInv, ModesPart
  <2>2. other = <<other[1], other[2]>> /\ task = <<task[1], task[2]>>
    BY <1>1, TaskNames
  <2>3. other # task => other[1] # task[1] \/ other[2] # task[2]
    BY <2>2
  <2> QED
    BY <1>3, <1>4, <2>1, <2>3
<1>13. RoundsPart'
  <2>1. stage = "warm-up" => \A other \in Tasks : modes'[other].samples = 0
    BY <1>3 DEF BenchmarkInv, RoundsPart
  <2>2. ASSUME stage = "timing", NEW other \in ActiveTasks, other # task
        PROVE  IF other \in pending' THEN modes'[other].samples + 1 = round
               ELSE modes'[other].samples = round
    BY <1>3, <1>5, <2>2 DEF BenchmarkInv, RoundsPart
  <2>3. stage' = stage /\ round' = round /\ position' = position
    OBVIOUS
  <2> QED
    BY <1>5, <2>1, <2>2, <2>3 DEF BenchmarkInv, RoundsPart
<1>14. ReportPart'
  <2>1. Len(report) + 1 = current /\ Len(report) \in Nat
    BY DEF BenchmarkInv, ReportPart, Working
  <2>2. \A i \in incidents' : i \in incidents \/ i[1] = current
    BY <1>4
  <2>3. \A m \in DOMAIN report' : CompleteModes(options'.samples, incidents', m, report'[m].modes)
    BY <2>1, <2>2, EarlierReports
  <2> QED
    BY <2>1, <2>3 DEF BenchmarkInv, ReportPart, Working
<1>15. ArtifactsPart'
  BY NothingPublished
<1> QED
  BY <1>8, <1>9, <1>10, <1>11, <1>12, <1>13, <1>14, <1>15 DEF BenchmarkInv

\* Warming up is searching without samples,
LEMMA WarmUpInv == ASSUME BenchmarkInv, NEW task \in Tasks, WarmUp(task) PROVE BenchmarkInv'
<1>1. /\ stage = "warm-up" /\ task \in pending /\ pending' = pending \ {task} /\ Execute(task, 1)
      /\ UNCHANGED <<options, host, stage, selected, current, references, position, correctness,
                     round, report, artifacts>>
  BY DEF WarmUp, verification
<1>2. 1 \in Nat
  OBVIOUS
<1>3. CASE UNCHANGED <<modes, report_ok, faults, incidents>>
  <2>1. modes' = IF stage = "timing" THEN [modes EXCEPT ![task].samples = @ + 1] ELSE modes
    BY <1>1, <1>3
  <2> QED
    BY <1>1, <1>2, <1>3, <2>1, GoodSearch
<1>4. CASE ExecutionFails(task)
  BY <1>1, <1>2, <1>4, BadSearch
<1> QED
  BY <1>3, <1>4 DEF WarmUp

\* and timing is searching until the clock has run.
LEMMA TimeSampleInv == ASSUME BenchmarkInv, NEW task \in Tasks, TimeSample(task) PROVE BenchmarkInv'
<1>1. /\ stage = "timing" /\ task \in pending /\ pending' = pending \ {task}
      /\ UNCHANGED <<options, host, stage, selected, current, references, position, correctness,
                     round, report, artifacts>>
  BY DEF TimeSample, verification
<1>2. PICK n \in 1 .. MaxOperations : Execute(task, n)
  BY DEF TimeSample
<1>3. n \in Nat
  BY BenchmarkAssumption
<1>4. CASE /\ modes' = [modes EXCEPT ![task].samples = @ + 1]
           /\ UNCHANGED <<report_ok, faults, incidents>>
  <2>1. modes' = IF stage = "timing" THEN [modes EXCEPT ![task].samples = @ + 1] ELSE modes
    BY <1>1, <1>4
  <2> QED
    BY <1>1, <1>2, <1>3, <1>4, <2>1, GoodSearch
<1>5. CASE ExecutionFails(task)
  BY <1>1, <1>2, <1>3, <1>5, BadSearch
<1> QED
  BY <1>4, <1>5 DEF TimeSample

-----------------------------------------------------------------------------

\* Incomplete modes are dropped, and speedups relate complete ones.
LEMMA SummarizeModes ==
  ASSUME BenchmarkInv, Summarize
  PROVE  /\ modes' \in [Tasks -> Mode]
         /\ \A task \in Tasks :
              /\ modes'[task].valid <=> modes[task].valid /\ modes[task].samples = options.samples
              /\ modes'[task].samples = modes[task].samples
              /\ modes'[task].vs_reference => modes'[task].valid /\ modes'[<<"reference", task[2]>>].valid
              /\ modes'[task].vs_neon => modes'[task].valid /\ modes'[<<"neon", task[2]>>].valid
         /\ report_ok' <=> report_ok /\ \A task \in Tasks :
                             modes[task].valid => modes[task].samples = options.samples
         /\ report' = Append(report, [correctness |-> correctness, modes |-> modes'])
<1> DEFINE complete == [task \in Tasks |-> modes[task].valid /\ modes[task].samples = options.samples]
           finished == [task \in Tasks |->
             [modes[task] EXCEPT
                !.valid = complete[task],
                !.vs_reference = complete[task] /\ complete[<<"reference", task[2]>>],
                !.vs_neon = complete[task] /\ complete[<<"neon", task[2]>>]]]
<1>1. /\ modes' = finished
      /\ report_ok' = (report_ok /\ \A task \in Tasks : modes[task].valid => complete[task])
      /\ report' = Append(report, [correctness |-> correctness, modes |-> finished])
  BY DEF Summarize
<1>2. modes \in [Tasks -> Mode]
  BY DEF BenchmarkInv, TypePart, TypeOK
<1>3. complete \in [Tasks -> BOOLEAN]
  OBVIOUS
<1>4. \A task \in Tasks :
        complete[task] <=> modes[task].valid /\ modes[task].samples = options.samples
  OBVIOUS
<1>5. \A task \in Tasks : <<"reference", task[2]>> \in Tasks /\ <<"neon", task[2]>> \in Tasks
  BY TaskNames DEF Tasks, Implementations
<1> HIDE DEF complete
<1>6. ASSUME NEW task \in Tasks
      PROVE  /\ finished[task] \in Mode
             /\ finished[task].valid <=> complete[task]
             /\ finished[task].samples = modes[task].samples
             /\ finished[task].vs_reference => complete[task] /\ complete[<<"reference", task[2]>>]
             /\ finished[task].vs_neon => complete[task] /\ complete[<<"neon", task[2]>>]
  <2> DEFINE mode == modes[task]
             all == complete[task]
             one == complete[task] /\ complete[<<"reference", task[2]>>]
             two == complete[task] /\ complete[<<"neon", task[2]>>]
  <2>1. mode \in Mode /\ all \in BOOLEAN /\ one \in BOOLEAN /\ two \in BOOLEAN
    BY <1>2, <1>3
  <2>2. finished[task] = [mode EXCEPT !.valid = all, !.vs_reference = one, !.vs_neon = two]
    OBVIOUS
  <2> HIDE DEF mode, all, one, two, finished
  <2>3. /\ finished[task] \in Mode /\ finished[task].valid = all /\ finished[task].samples = mode.samples
        /\ finished[task].vs_reference = one /\ finished[task].vs_neon = two
    BY <2>1, <2>2 DEF Mode
  <2> QED
    BY <2>3 DEF mode, all, one, two
<1>7. finished \in [Tasks -> Mode]
  BY <1>6
<1> HIDE DEF finished
<1> QED
  BY <1>1, <1>4, <1>5, <1>6, <1>7

\* A finished workload goes into the report as it is.
LEMMA SummarizeInv == ASSUME BenchmarkInv, Summarize PROVE BenchmarkInv'
<1>1. /\ stage = "summarize" /\ stage' = "prepare"
      /\ UNCHANGED <<options, host, selected, current, references, position, correctness,
                     next_capture, round, pending, artifacts, faults, incidents>>
  BY DEF Summarize, verification
<1>2. /\ modes' \in [Tasks -> Mode]
      /\ \A task \in Tasks :
           /\ modes'[task].valid <=> modes[task].valid /\ modes[task].samples = options.samples
           /\ modes'[task].samples = modes[task].samples
           /\ modes'[task].vs_reference => modes'[task].valid /\ modes'[<<"reference", task[2]>>].valid
           /\ modes'[task].vs_neon => modes'[task].valid /\ modes'[<<"neon", task[2]>>].valid
      /\ report_ok' <=> report_ok /\ \A task \in Tasks :
                          modes[task].valid => modes[task].samples = options.samples
      /\ report' = Append(report, [correctness |-> correctness, modes |-> modes'])
  BY SummarizeModes
<1>3. pending = {} /\ position.implementation = 4
      /\ \A task \in Tasks : modes[task].valid => modes[task].samples = options.samples
  BY <1>1 DEF BenchmarkInv, RoundsPart, ActiveTasks
<1>4. TypePart'
  <2>1. report_ok' \in BOOLEAN
    BY DEF Summarize
  <2> QED
    BY <1>1, <1>2, <1>3, <2>1 DEF BenchmarkInv, TypePart, TypeOK
<1>5. SelectionPart' /\ ReferencesPart'
  BY <1>1 DEF BenchmarkInv, SelectionPart, ReferencesPart, Working
<1>6. CorrectnessPart'
  BY <1>1, SameVerdicts DEF BenchmarkInv
<1>7. ModesPart'
  BY <1>1, <1>2 DEF BenchmarkInv, ModesPart, Available
<1>8. RoundsPart'
  BY <1>1 DEF RoundsPart
<1>9. OkPart'
  BY <1>1, <1>2, <1>3 DEF BenchmarkInv, OkPart
<1>10. ReportPart'
  <2> DEFINE WorkloadEntry == [correctness : [Implementations -> Correctness], modes : [Tasks -> Mode]]
             entry == [correctness |-> correctness, modes |-> modes']
  <2>1. report \in Seq(WorkloadEntry) /\ Len(report) + 1 = current /\ entry \in WorkloadEntry
    BY <1>1, <1>2 DEF BenchmarkInv, ReportPart, Working, TypePart, TypeOK
  <2>2. report' = Append(report, entry) /\ entry.modes = modes'
    BY <1>2
  <2>3. \A n \in DOMAIN report : CompleteModes(options.samples, incidents, n, report[n].modes)
    BY DEF BenchmarkInv, ReportPart
  <2> HIDE DEF WorkloadEntry, entry
  <2>4. /\ report' \in Seq(WorkloadEntry) /\ Len(report') = current
        /\ DOMAIN report' = DOMAIN report \cup {current}
        /\ \A n \in DOMAIN report : report'[n] = report[n]
        /\ report'[current] = entry
    BY <2>1, <2>2
  <2>5. ASSUME NEW task \in Tasks, modes'[task].valid
        PROVE  Complete(options.samples, incidents, current, modes', task)
    <3>1. modes[task].valid /\ modes[task].samples = options.samples
      BY <1>2, <2>5
    <3>2. task[1] \in Implementations
      BY TaskNames
    <3>3. /\ Available(task[1]) /\ correctness[task[1]].passed
          /\ <<current, task[1], task[2]>> \notin incidents
      BY <3>1 DEF BenchmarkInv, ModesPart
    <3>4. Compared(task[1]) > 0
      BY <1>3, <3>2, Turns, BenchmarkAssumption DEF Compared
    <3>5. <<current, task[1], "check">> \notin incidents
      BY <3>2, <3>3, <3>4 DEF BenchmarkInv, CorrectnessPart
    <3> QED
      BY <1>2, <2>5, <3>1, <3>3, <3>5 DEF Complete
  <2>6. \A task \in Tasks : <<"reference", task[2]>> \in Tasks /\ <<"neon", task[2]>> \in Tasks
    BY TaskNames DEF Tasks, Implementations
  <2>7. CompleteModes(options.samples, incidents, current, modes')
    BY <1>2, <2>5, <2>6 DEF CompleteModes
  <2>8. \A n \in DOMAIN report' : CompleteModes(options'.samples, incidents', n, report'[n].modes)
    BY <1>1, <2>2, <2>3, <2>4, <2>7
  <2> QED
    BY <1>1, <2>1, <2>4, <2>8 DEF ReportPart, Working, WorkloadEntry
<1>11. ArtifactsPart'
  BY <1>1, NothingPublished
<1> QED
  BY <1>4, <1>5, <1>6, <1>7, <1>8, <1>9, <1>10, <1>11 DEF BenchmarkInv

\* What is published of a complete mode is complete.
LEMMA PublishedModes ==
  ASSUME NEW samples, NEW happened, NEW n, NEW mode \in [Tasks -> Mode],
         NEW published, published = [task \in Tasks |-> Published(mode[task])],
         CompleteModes(samples, happened, n, mode)
  PROVE  CompleteModes(samples, happened, n, published)
<1>1. ASSUME NEW task \in Tasks
      PROVE  /\ published[task].valid <=> mode[task].valid
             /\ published[task].valid => published[task].samples = mode[task].samples
             /\ published[task].vs_reference <=> mode[task].vs_reference
             /\ published[task].vs_neon <=> mode[task].vs_neon
  <2> DEFINE m == mode[task]
  <2>1. m \in Mode /\ published[task] = Published(m)
    OBVIOUS
  <2> HIDE DEF m
  <2>2. /\ Published(m).valid = m.valid
        /\ m.valid => Published(m).samples = m.samples
        /\ Published(m).vs_reference = m.vs_reference
        /\ Published(m).vs_neon = m.vs_neon
    BY <2>1 DEF Published, FreshMode, Mode
  <2> QED
    BY <2>1, <2>2 DEF m
<1>2. ASSUME NEW task \in Tasks, Complete(samples, happened, n, mode, task)
      PROVE  Complete(samples, happened, n, published, task)
  BY <1>1, <1>2 DEF Complete
<1>3. \A task \in Tasks : <<"reference", task[2]>> \in Tasks /\ <<"neon", task[2]>> \in Tasks
  BY TaskNames DEF Tasks, Implementations
<1> QED
  BY <1>1, <1>2, <1>3 DEF CompleteModes

\* The report is returned when every workload is in it.
LEMMA SerializeInv == ASSUME BenchmarkInv, Serialize PROVE BenchmarkInv'
<1> DEFINE published(n) == [task \in Tasks |-> Published(report[n].modes[task])]
           returned == [n \in DOMAIN report |->
                          [correctness |-> report[n].correctness, modes |-> published(n)]]
<1>1. /\ stage = "prepare" /\ current = Len(selected) /\ stage' = "done"
      /\ artifacts' = [ok |-> report_ok, error |-> NoError, report |-> returned]
      /\ UNCHANGED <<options, host, selected, current, references, position, correctness,
                     modes, next_capture, round, pending, report_ok, report, faults, incidents>>
  BY DEF Serialize, verification, timing
<1>2. TypePart'
  BY <1>1 DEF BenchmarkInv, TypePart, TypeOK, ActiveTasks
<1>3. SelectionPart' /\ ReferencesPart' /\ RoundsPart' /\ OkPart'
  BY <1>1 DEF BenchmarkInv, SelectionPart, ReferencesPart, RoundsPart, OkPart, Working, ActiveTasks
<1>4. CorrectnessPart' /\ ModesPart'
  BY <1>1, SameVerdicts, SameModes DEF BenchmarkInv
<1>5. ReportPart'
  BY <1>1, SameReports DEF BenchmarkInv, ReportPart, Working
<1>6. artifacts'.report = returned /\ artifacts'.ok = report_ok
  BY <1>1
<1>7. report \in Seq([correctness : [Implementations -> Correctness], modes : [Tasks -> Mode]])
      /\ Len(report) = current
      /\ \A n \in DOMAIN report : CompleteModes(options.samples, incidents, n, report[n].modes)
  BY <1>1 DEF BenchmarkInv, ReportPart
<1>8. PublishedTimingIsComplete'
  <2>1. ASSUME NEW n \in DOMAIN report
        PROVE  CompleteModes(options.samples, incidents, n, published(n))
    <3>1. report[n].modes \in [Tasks -> Mode]
      <4> DEFINE WorkloadEntry == [correctness : [Implementations -> Correctness], modes : [Tasks -> Mode]]
      <4>1. \A entry \in WorkloadEntry : entry.modes \in [Tasks -> Mode]
        OBVIOUS
      <4>2. report \in Seq(WorkloadEntry)
        BY <1>7
      <4> HIDE DEF WorkloadEntry
      <4>3. report[n] \in WorkloadEntry
        BY <4>2
      <4> QED
        BY <4>1, <4>3
    <3> QED
      BY <1>7, <3>1, PublishedModes
  <2>2. DOMAIN returned = DOMAIN report /\ \A n \in DOMAIN report : returned[n].modes = published(n)
    OBVIOUS
  <2> HIDE DEF returned, published
  <2> QED
    BY <1>1, <1>6, <2>1, <2>2 DEF PublishedTimingIsComplete
<1>9. ReportOkIsTruthful'
  <2>1. DOMAIN report = 1 .. current /\ current \in Nat
    BY <1>7 DEF BenchmarkInv, TypePart, TypeOK
  <2> HIDE DEF published
  <2>2. Len(returned) = current
    BY <2>1
  <2>3. selected # << >> /\ (report_ok <=> incidents = {})
    BY <1>1 DEF BenchmarkInv, SelectionPart, OkPart
  <2> HIDE DEF returned
  <2> QED
    BY <1>1, <1>6, <2>2, <2>3 DEF ReportOkIsTruthful
<1> QED
  BY <1>2, <1>3, <1>4, <1>5, <1>8, <1>9 DEF BenchmarkInv, ArtifactsPart

\* Nothing happens.
LEMMA BenchmarkStutter == ASSUME BenchmarkInv, UNCHANGED vars PROVE BenchmarkInv'
<1>1. UNCHANGED <<options, host, stage, selected, current, references, position, correctness,
                  modes, next_capture, round, pending, report_ok, report, artifacts, faults, incidents>>
  BY DEF vars, verification, timing, outcome
<1>2. TypePart' /\ SelectionPart' /\ RoundsPart' /\ OkPart'
  BY <1>1 DEF BenchmarkInv, TypePart, TypeOK, SelectionPart, RoundsPart, OkPart, Working, ActiveTasks
<1>3. ReferencesPart'
  BY <1>1, SameWorkload DEF BenchmarkInv, ReferencesPart
<1>4. CorrectnessPart' /\ ModesPart'
  BY <1>1, SameVerdicts, SameModes DEF BenchmarkInv
<1>5. ReportPart'
  BY <1>1, SameReports DEF BenchmarkInv, ReportPart, Working
<1>6. ArtifactsPart'
  BY <1>1 DEF BenchmarkInv, ArtifactsPart, PublishedTimingIsComplete, ReportOkIsTruthful
<1> QED
  BY <1>2, <1>3, <1>4, <1>5, <1>6 DEF BenchmarkInv

\* Every step keeps the invariant.
LEMMA BenchmarkStep == BenchmarkInv /\ [BenchmarkNext]_vars => BenchmarkInv'
<1> SUFFICES ASSUME BenchmarkInv, [BenchmarkNext]_vars PROVE BenchmarkInv'
  OBVIOUS
<1>1. ASSUME NEW task \in Tasks, WarmUp(task) \/ TimeSample(task) PROVE BenchmarkInv'
  BY <1>1, WarmUpInv, TimeSampleInv
<1> QED
  BY <1>1, BenchmarkStutter, RefuseInv, SelectInv, PrepareWorkloadInv, RejectWorkloadInv,
     CheckReferenceInv, VerifyCaptureInv, FinishImplementationInv, SkipUnavailableInv,
     JudgeWorkloadInv, BeginRoundInv, EndRoundsInv, SummarizeInv, SerializeInv, AllocationFailsInv
     DEF BenchmarkNext

\* The invariant holds throughout a call.
LEMMA BenchmarkInvariance == BenchmarkSpec => []BenchmarkInv
BY BenchmarkInitInv, BenchmarkStep, PTL DEF BenchmarkSpec

\* For any table of workloads, host, options, faults and order of tasks, every variable
\* of the benchmark has a value that its C++ type and the loops allow.
THEOREM BenchmarkIsTyped == BenchmarkSpec => []TypeOK
<1>1. BenchmarkInv => TypeOK
  BY DEF BenchmarkInv, TypePart
<1> QED
  BY <1>1, BenchmarkInvariance, PTL

\* An implementation is executed for timing, or has samples, only when it is available
\* and agreed with the reference on every capture of the workload in hand.
THEOREM TimedPathsAreVerified == BenchmarkSpec => []OnlyVerifiedPathsAreTimed
<1>1. BenchmarkInv => OnlyVerifiedPathsAreTimed
  <2> SUFFICES ASSUME BenchmarkInv, NEW task \in Tasks,
                      task \in pending \/ modes[task].samples > 0
               PROVE  /\ Available(task[1])
                      /\ correctness[task[1]] = [passed |-> TRUE, cases |-> CaptureCount]
                      /\ <<current, task[1], "check">> \notin incidents
    BY DEF OnlyVerifiedPathsAreTimed
  <2>1. /\ Turn(task[1]) < position.implementation
        /\ Available(task[1]) /\ correctness[task[1]].passed
    BY DEF BenchmarkInv, TypePart, ModesPart, ActiveTasks
  <2>2. task[1] \in Implementations
    BY TaskNames
  <2>3. Compared(task[1]) = CaptureCount /\ CaptureCount > 0
    BY <2>1, BenchmarkAssumption DEF Compared
  <2>4. /\ correctness[task[1]].cases = CaptureCount
        /\ <<current, task[1], "check">> \notin incidents
    BY <2>1, <2>2, <2>3 DEF BenchmarkInv, CorrectnessPart
  <2>5. correctness[task[1]] \in Correctness
    BY <2>2 DEF BenchmarkInv, TypePart, TypeOK
  <2>6. correctness[task[1]] = [passed |-> TRUE, cases |-> CaptureCount]
    BY <2>1, <2>4, <2>5 DEF Correctness
  <2> QED
    BY <2>1, <2>4, <2>6
<1> QED
  BY <1>1, BenchmarkInvariance, PTL

\* A published timing has all its samples, none of its searches failed, and a published
\* speedup divides two such timings.
THEOREM PublishedTimingsAreComplete == BenchmarkSpec => []PublishedTimingIsComplete
<1>1. BenchmarkInv => PublishedTimingIsComplete
  BY DEF BenchmarkInv, ArtifactsPart
<1> QED
  BY <1>1, BenchmarkInvariance, PTL

\* A returned report covers every selected workload, and its ok is the truth.
THEOREM ReturnedOkIsTruthful == BenchmarkSpec => []ReportOkIsTruthful
<1>1. BenchmarkInv => ReportOkIsTruthful
  BY DEF BenchmarkInv, ArtifactsPart
<1> QED
  BY <1>1, BenchmarkInvariance, PTL

-----------------------------------------------------------------------------
\* BenchmarkTool.

\* The stages in which the paths have been accepted, and those after the run.
Accepted == {"run", "write json", "write csv", "print"}
Delivering == {"write json", "write csv", "print"}

FilesTyped ==
  files \in [ReportFiles -> {"absent", "earlier", "partial", "json report", "csv report"}]

\* What a writing step may do: its own file holds the report, or the program ends.
ReportStep(path, contents, next) ==
  /\ FilesTyped'
  /\ \A f \in ReportFiles : f # Paths[path].file \/ path = NoPath => files'[f] = files[f]
  /\ tool_stage' \in {next, "ended"}
  /\ tool_stage' = next => exit' = exit /\ (path # NoPath => files'[Paths[path].file] = contents)
  /\ tool_stage' = "ended" => exit' = "failure"

\* Requested files do not change, or hold what they are to hold.
PathsPart ==
  /\ tool_stage \in {"arguments", "validate", "ended"} \cup Accepted
  /\ json_path \in DOMAIN Paths \cup {NoPath}
  /\ csv_path \in DOMAIN Paths \cup {NoPath}
  /\ tool_stage \in Accepted => OutputsValid

FilesPart ==
  /\ FilesTyped
  /\ tool_stage \in {"arguments", "validate", "run", "write json"} => files = files_before
  /\ tool_stage \in Delivering => run_artifacts.error = FALSE
  /\ tool_stage # "ended" => printed = FALSE /\ exit = "running"
  /\ EarlierReportsSurvive

ReportsPart ==
  /\ tool_stage = "write csv" => Holds(json_path, "json report")
  /\ tool_stage = "print" => Holds(json_path, "json report") /\ Holds(csv_path, "csv report")
  /\ DeliveredReportsAreWhole

-----------------------------------------------------------------------------

\* The command line names paths of the file system.
LEMMA PathsInvariant == ToolSpec => []PathsPart
<1>1. ToolInit => PathsPart
  BY DEF ToolInit, PathsPart, Accepted
<1>2. PathsPart /\ [ToolNext]_tool_vars => PathsPart'
  <2> SUFFICES ASSUME PathsPart, [ToolNext]_tool_vars PROVE PathsPart'
    OBVIOUS
  <2>1. ASSUME NEW argument \in Arguments, ReadArgument(argument) PROVE PathsPart'
    <3>1. argument[1] \in {"--json", "--csv"} => argument[2] \in DOMAIN Paths
      BY DEF Arguments
    <3>2. /\ json_path' \in DOMAIN Paths \cup {NoPath} /\ csv_path' \in DOMAIN Paths \cup {NoPath}
          /\ tool_stage = "arguments" /\ tool_stage' = "arguments"
      BY <2>1, <3>1 DEF ReadArgument, PathsPart
    <3> QED
      BY <3>2 DEF PathsPart, Accepted
  <2>2. ASSUME UNCHANGED <<json_path, csv_path>>,
               tool_stage' \in {"arguments", "validate", "ended"} \cup Accepted,
               tool_stage' \in Accepted => tool_stage \in Accepted \/ OutputsValid
        PROVE  PathsPart'
    BY <2>2 DEF PathsPart, OutputsValid
  <2>3. CASE ShowUsage \/ RefuseArgument \/ EndArguments
    BY <2>2, <2>3 DEF ShowUsage, RefuseArgument, EndArguments, Exit, tool_options, Accepted
  <2>4. CASE ValidateOutputPaths
    BY <2>2, <2>4 DEF ValidateOutputPaths, Exit, tool_options, Accepted
  <2>5. CASE CallBenchmark
    BY <2>2, <2>5 DEF CallBenchmark, Exit, tool_options, Accepted
  <2>6. CASE WriteJson
    <3>1. tool_stage' \in {"write csv", "ended"}
      BY <2>6 DEF WriteJson, WriteReportFile, Exit
    <3> QED
      BY <2>2, <2>6, <3>1 DEF WriteJson, tool_options, Accepted
  <2>7. CASE WriteCsv
    <3>1. tool_stage' \in {"print", "ended"}
      BY <2>7 DEF WriteCsv, WriteReportFile, Exit
    <3> QED
      BY <2>2, <2>7, <3>1 DEF WriteCsv, tool_options, Accepted
  <2>8. CASE PrintReport
    BY <2>2, <2>8 DEF PrintReport, Exit, tool_options, Accepted
  <2>9. CASE UNCHANGED tool_vars
    BY <2>9 DEF tool_vars, tool_options, PathsPart, OutputsValid
  <2> QED
    BY <2>1, <2>3, <2>4, <2>5, <2>6, <2>7, <2>8, <2>9 DEF ToolNext
<1> QED
  BY <1>1, <1>2, PTL DEF ToolSpec

\* A report that is written changes no file but its own.
LEMMA WriteStep ==
  ASSUME NEW path \in DOMAIN Paths \cup {NoPath},
         NEW contents \in {"json report", "csv report"}, NEW next \in {"write csv", "print"},
         FilesTyped, WriteReportFile(path, contents, next)
  PROVE  ReportStep(path, contents, next)
<1> USE DEF ReportStep, FilesTyped
<1>1. CASE path = NoPath
  BY <1>1 DEF WriteReportFile
<1>2. CASE path # NoPath
  <2>1. Paths[path].file \in ReportFiles
    BY <1>2 DEF ReportFiles
  <2>2. PICK result \in {"not opened", "partial", "complete"} :
          /\ files' = CASE result = "not opened" -> files
                        [] result = "partial"    -> [files EXCEPT ![Paths[path].file] = "partial"]
                        [] OTHER                 -> [files EXCEPT ![Paths[path].file] = contents]
          /\ IF Written(result) THEN tool_stage' = next /\ UNCHANGED exit ELSE Exit("failure")
    BY <1>2 DEF WriteReportFile
  <2>3. CASE result = "complete"
    BY <1>2, <2>1, <2>2, <2>3 DEF Written
  <2>4. CASE result = "partial"
    BY <1>2, <2>1, <2>2, <2>4 DEF Written, Exit
  <2>5. CASE result = "not opened"
    BY <1>2, <2>2, <2>5 DEF Written, Exit
  <2> QED
    BY <2>2, <2>3, <2>4, <2>5
<1> QED
  BY <1>1, <1>2

\* Files change in the two writing steps only.
LEMMA FilesInvariant == ToolSpec => []FilesPart
<1>1. ToolInit => FilesPart
  BY DEF ToolInit, FilesPart, FilesTyped, EarlierReportsSurvive, Delivering
<1>2. PathsPart /\ FilesPart /\ [ToolNext]_tool_vars => FilesPart'
  <2> SUFFICES ASSUME PathsPart, FilesPart, [ToolNext]_tool_vars PROVE FilesPart'
    OBVIOUS
  <2>1. CASE \/ \E argument \in Arguments : ReadArgument(argument)
             \/ ShowUsage \/ RefuseArgument \/ EndArguments \/ ValidateOutputPaths \/ CallBenchmark
    <3>1. /\ tool_stage \in {"arguments", "validate", "run"} /\ UNCHANGED <<files, files_before>>
          /\ tool_stage' \in {"arguments", "validate", "run", "write json", "ended"}
      BY <2>1 DEF ReadArgument, ShowUsage, RefuseArgument, EndArguments, ValidateOutputPaths,
                  CallBenchmark, Exit
    <3>2. tool_stage' # "ended" => printed' = FALSE /\ exit' = "running"
      BY <2>1, <3>1 DEF ReadArgument, ShowUsage, RefuseArgument, EndArguments, ValidateOutputPaths,
                  CallBenchmark, Exit, FilesPart
    <3>3. tool_stage' = "write json" => run_artifacts'.error = FALSE
      <4>1. CASE CallBenchmark
        <5>1. PICK error \in BOOLEAN, ok \in BOOLEAN :
                /\ run_artifacts' = [error |-> error, ok |-> ok]
                /\ IF error THEN Exit("failure") ELSE tool_stage' = "write json" /\ UNCHANGED exit
          BY <4>1 DEF CallBenchmark, Aborts
        <5>2. CASE error
          BY <5>1, <5>2 DEF Exit
        <5>3. CASE ~error
          BY <5>1, <5>3
        <5> QED
          BY <5>2, <5>3
      <4>2. CASE ~CallBenchmark
        <5>1. tool_stage' # "write json"
          BY <2>1, <4>2 DEF ReadArgument, ShowUsage, RefuseArgument, EndArguments,
                            ValidateOutputPaths, Exit
        <5> QED
          BY <5>1
      <4> QED
        BY <4>1, <4>2
    <3>4. files' = files_before'
      BY <3>1 DEF FilesPart
    <3> QED
      BY <3>1, <3>2, <3>3, <3>4 DEF FilesPart, FilesTyped, EarlierReportsSurvive, Delivering
  <2>2. CASE WriteJson
    <3>1. /\ tool_stage = "write json" /\ WriteReportFile(json_path, "json report", "write csv")
          /\ UNCHANGED <<json_path, csv_path, run_artifacts, files_before, printed>>
      BY <2>2 DEF WriteJson, tool_options
    <3>2. json_path \in DOMAIN Paths \cup {NoPath}
      BY DEF PathsPart
    <3>3. FilesTyped
      BY DEF FilesPart
    <3>4. PICK path \in DOMAIN Paths \cup {NoPath} : path = json_path
      BY <3>2
    <3>6. WriteReportFile(path, "json report", "write csv")
      BY <3>1, <3>4 DEF WriteReportFile
    <3>7. ReportStep(path, "json report", "write csv")
      BY <3>3, <3>4, <3>6, WriteStep
    <3> QED
      BY <3>1, <3>4, <3>7 DEF ReportStep, FilesPart, FilesTyped, EarlierReportsSurvive, Delivering
  <2>3. CASE WriteCsv
    <3>1. /\ tool_stage = "write csv" /\ WriteReportFile(csv_path, "csv report", "print")
          /\ UNCHANGED <<json_path, csv_path, run_artifacts, files_before, printed>>
      BY <2>3 DEF WriteCsv, tool_options
    <3>2. csv_path \in DOMAIN Paths \cup {NoPath}
      BY DEF PathsPart
    <3>3. FilesTyped
      BY DEF FilesPart
    <3>4. PICK path \in DOMAIN Paths \cup {NoPath} : path = csv_path
      BY <3>2
    <3>6. WriteReportFile(path, "csv report", "print")
      BY <3>1, <3>4 DEF WriteReportFile
    <3>7. ReportStep(path, "csv report", "print")
      BY <3>3, <3>4, <3>6, WriteStep
    <3> QED
      BY <3>1, <3>4, <3>7 DEF ReportStep, FilesPart, FilesTyped, EarlierReportsSurvive, Delivering
  <2>4. CASE PrintReport
    BY <2>4 DEF PrintReport, Exit, tool_options, FilesPart, FilesTyped, EarlierReportsSurvive, Delivering
  <2>5. CASE UNCHANGED tool_vars
    BY <2>5 DEF tool_vars, tool_options, FilesPart, FilesTyped, EarlierReportsSurvive
  <2> QED
    BY <2>1, <2>2, <2>3, <2>4, <2>5 DEF ToolNext
<1> QED
  BY <1>1, <1>2, PathsInvariant, PTL DEF ToolSpec

\* Whatever is written where and however the program ends, only requested files change,
\* and none before the benchmark has returned a report.
THEOREM ToolKeepsEarlierReports == ToolSpec => []EarlierReportsSurvive
<1>1. FilesPart => EarlierReportsSurvive
  BY DEF FilesPart
<1> QED
  BY <1>1, FilesInvariant, PTL

\* Where no path hides behind a link without a target, a printed report means that both
\* requested files hold their reports, and success that the report is ok.
THEOREM ToolDeliversWholeReports ==
  ASSUME LinksHaveTargets
  PROVE  ToolSpec => []DeliveredReportsAreWhole
<1>1. ToolInit => ReportsPart
  BY DEF ToolInit, ReportsPart, DeliveredReportsAreWhole
<1>2. PathsPart /\ FilesPart /\ ReportsPart /\ [ToolNext]_tool_vars => ReportsPart'
  <2> SUFFICES ASSUME PathsPart, FilesPart, ReportsPart, [ToolNext]_tool_vars PROVE ReportsPart'
    OBVIOUS
  <2>1. CASE \/ \E argument \in Arguments : ReadArgument(argument)
             \/ ShowUsage \/ RefuseArgument \/ EndArguments \/ ValidateOutputPaths \/ CallBenchmark
    <3>1. /\ tool_stage \in {"arguments", "validate", "run"} /\ printed' = printed
          /\ tool_stage' \in {"arguments", "validate", "run", "write json", "ended"}
          /\ exit' \in {exit, "usage", "failure"}
      BY <2>1 DEF ReadArgument, ShowUsage, RefuseArgument, EndArguments, ValidateOutputPaths,
                  CallBenchmark, Exit
    <3>2. printed = FALSE /\ exit = "running"
      BY <3>1 DEF FilesPart
    <3> QED
      BY <3>1, <3>2 DEF ReportsPart, DeliveredReportsAreWhole
  <2>2. CASE WriteJson
    <3>1. /\ tool_stage = "write json" /\ WriteReportFile(json_path, "json report", "write csv")
          /\ UNCHANGED <<json_path, csv_path, run_artifacts, files_before, printed>>
      BY <2>2 DEF WriteJson, tool_options
    <3>2. json_path \in DOMAIN Paths \cup {NoPath}
      BY DEF PathsPart
    <3>3. FilesTyped /\ printed = FALSE /\ exit = "running"
      BY <3>1 DEF FilesPart
    <3>4. PICK path \in DOMAIN Paths \cup {NoPath} : path = json_path
      BY <3>2
    <3>6. WriteReportFile(path, "json report", "write csv")
      BY <3>1, <3>4 DEF WriteReportFile
    <3>7. ReportStep(path, "json report", "write csv")
      BY <3>3, <3>4, <3>6, WriteStep
    <3> QED
      BY <3>1, <3>3, <3>4, <3>7 DEF ReportStep, ReportsPart, DeliveredReportsAreWhole, Holds
  <2>3. CASE WriteCsv
    <3>1. /\ tool_stage = "write csv" /\ WriteReportFile(csv_path, "csv report", "print")
          /\ UNCHANGED <<json_path, csv_path, run_artifacts, files_before, printed>>
      BY <2>3 DEF WriteCsv, tool_options
    <3>2. /\ json_path \in DOMAIN Paths \cup {NoPath} /\ csv_path \in DOMAIN Paths \cup {NoPath}
          /\ json_path # NoPath /\ csv_path # NoPath => ~SameFile(json_path, csv_path)
      BY <3>1 DEF PathsPart, OutputsValid, Accepted
    <3>3. FilesTyped /\ printed = FALSE /\ exit = "running"
      BY <3>1 DEF FilesPart
    <3>4. PICK path \in DOMAIN Paths \cup {NoPath} : path = csv_path
      BY <3>2
    <3>6. WriteReportFile(path, "csv report", "print")
      BY <3>1, <3>4 DEF WriteReportFile
    <3>7. ReportStep(path, "csv report", "print")
      BY <3>3, <3>4, <3>6, WriteStep
    <3>5. json_path # NoPath => files'[Paths[json_path].file] = "json report"
      <4> SUFFICES ASSUME json_path # NoPath
                   PROVE  files'[Paths[json_path].file] = "json report"
        OBVIOUS
      <4>1. files[Paths[json_path].file] = "json report" /\ Paths[json_path].file \in ReportFiles
        BY <3>1, <3>2 DEF ReportsPart, Holds, ReportFiles
      <4>2. csv_path # NoPath => Paths[json_path].file # Paths[csv_path].file
        BY <3>2 DEF LinksHaveTargets, SameFile
      <4> QED
        BY <3>4, <3>7, <4>1, <4>2 DEF ReportStep
    <3> QED
      BY <3>1, <3>3, <3>4, <3>5, <3>7 DEF ReportStep, ReportsPart, DeliveredReportsAreWhole, Holds
  <2>4. CASE PrintReport
    BY <2>4 DEF PrintReport, Exit, tool_options, ReportsPart, DeliveredReportsAreWhole, Holds
  <2>5. CASE UNCHANGED tool_vars
    BY <2>5 DEF tool_vars, tool_options, ReportsPart, DeliveredReportsAreWhole, Holds
  <2> QED
    BY <2>1, <2>2, <2>3, <2>4, <2>5 DEF ToolNext
<1>3. ReportsPart => DeliveredReportsAreWhole
  BY DEF ReportsPart
<1> QED
  BY <1>1, <1>2, <1>3, PathsInvariant, FilesInvariant, PTL DEF ToolSpec

\* Under the same condition the aliases that the documentation speaks of are rejected
\* before the benchmark runs; the run benchmark_alias shows what happens without it.
THEOREM ToolRejectsAliases ==
  ASSUME LinksHaveTargets
  PROVE  ToolSpec => []AliasesAreRejected
<1>1. PathsPart => AliasesAreRejected
  <2> SUFFICES ASSUME PathsPart, tool_stage \notin {"arguments", "validate", "ended"},
                      json_path # NoPath, csv_path # NoPath,
                      Paths[json_path].file = Paths[csv_path].file
               PROVE  FALSE
    BY DEF AliasesAreRejected
  <2>1. json_path \in DOMAIN Paths /\ csv_path \in DOMAIN Paths /\ ~SameFile(json_path, csv_path)
    BY DEF PathsPart, OutputsValid, Accepted
  <2> QED
    BY <2>1 DEF LinksHaveTargets, SameFile
<1> QED
  BY <1>1, PathsInvariant, PTL

-----------------------------------------------------------------------------
\* RepeatBenchmark.

Outcome == [ok : BOOLEAN, stderr : BOOLEAN, build : Builds, modes : ModeSets]

Entry == [state : {"open", "whole"}, by : Invocations, content : Outcome]

Stages == {"started", "checked", "built", "ran", "writing report", "stderr",
           "writing stderr", "kept", "collected", "writing summary", "done",
           "failed", "killed"}

Typed ==
  /\ directory \in [Files -> {Absent} \cup Entry]
  /\ binary \in Builds
  /\ phase \in [Invocations -> Stages]
  /\ completed \in [Invocations -> Outcome]
  /\ reports \in [Invocations -> Seq(Outcome)]

Whole(p, result) == [state |-> "whole", by |-> p, content |-> result]

Created(file, p) == directory[file] # Absent /\ directory[file].by = p

\* The reports that p collected are in the directory.
Collected(p) ==
  \A i \in 1 .. Len(reports[p]) :
    /\ i <= Runs
    /\ directory[Report(i)] = Whole(p, reports[p][i])
    /\ reports[p][i].ok = TRUE

\* What the phase of p says of its files.
Progress(p) ==
  /\ phase[p] \in {"started", "checked"} => Len(reports[p]) = 0
  /\ phase[p] \in {"built", "ran", "writing report", "stderr", "writing stderr", "kept"}
       => Len(reports[p]) < Runs
  /\ phase[p] = "writing report" => Created(Report(Run(p)), p)
  /\ phase[p] \in {"stderr", "writing stderr", "kept"}
       => directory[Report(Run(p))] = Whole(p, completed[p])
  /\ phase[p] = "writing stderr" => Created(Stderr(Run(p)), p)
  /\ phase[p] \in {"collected", "writing summary", "done"} => Len(reports[p]) = Runs
  /\ phase[p] = "writing summary" => Created(Summary, p)

\* All files are of the invocation that created the first report.
OneOwner ==
  \A f \in Files :
    directory[f] # Absent =>
      /\ directory[Report(1)] # Absent
      /\ directory[Report(1)].by = directory[f].by

SummaryIsOfAll ==
  \A p \in Invocations :
    Created(Summary, p) => Len(reports[p]) = Runs /\ SameMetadata(reports[p])

RepeatInv ==
  /\ Typed
  /\ \A p \in Invocations : Collected(p) /\ Progress(p)
  /\ OneOwner
  /\ SummaryIsOfAll

-----------------------------------------------------------------------------

\* Names of reports, their errors and the summary are distinct.
LEMMA FileNames ==
  /\ \A i \in 1 .. Runs : Report(i) \in Files /\ Stderr(i) \in Files
  /\ Summary \in Files /\ Report(1) \in Files
  /\ \A i, j \in Nat : /\ Report(i) = Report(j) => i = j
                       /\ Report(i) # Stderr(j)
                       /\ Report(i) # Summary /\ Stderr(i) # Summary
BY RunsAssumption DEF Report, Stderr, Summary, Files

\* An absent file is no entry.
LEMMA Entries == Absent \notin Entry
BY DEF Absent, Entry

\* A file that was opened is an entry that is not whole,
LEMMA OpenEntry ==
  ASSUME NEW p \in Invocations, NEW result \in Outcome
  PROVE  LET entry == [state |-> "open", by |-> p, content |-> result]
         IN  entry \in Entry /\ entry.by = p /\ entry # Absent
BY Entries DEF Entry

\* and a file that was written is a whole one.
LEMMA WholeEntry ==
  ASSUME NEW p \in Invocations, NEW result \in Outcome
  PROVE  /\ Whole(p, result) \in Entry
         /\ Whole(p, result).by = p
         /\ Whole(p, result) # Absent
BY Entries DEF Whole, Entry

\* No file, no process, no summary.
LEMMA RepeatInitInv == RepeatInit => RepeatInv
<1> SUFFICES ASSUME RepeatInit PROVE RepeatInv
  OBVIOUS
<1>1. NoOutcome \in Outcome
  BY RunsAssumption DEF NoOutcome, Outcome
<1>2. Typed
  BY <1>1 DEF RepeatInit, Typed, Stages
<1>3. \A p \in Invocations : Len(reports[p]) = 0 /\ phase[p] = "started"
  BY DEF RepeatInit
<1>4. ASSUME NEW p \in Invocations PROVE Collected(p) /\ Progress(p)
  <2>1. Len(reports[p]) = 0 /\ phase[p] = "started"
    BY <1>3
  <2>2. Collected(p)
    BY <2>1 DEF Collected
  <2> QED
    BY <2>1, <2>2 DEF Progress
<1>5. \A f \in Files : directory[f] = Absent
  BY DEF RepeatInit
<1> QED
  BY <1>2, <1>4, <1>5, FileNames DEF RepeatInv, OneOwner, SummaryIsOfAll, Created

-----------------------------------------------------------------------------

\* A step of p that leaves the directory and the collected reports alone.
LEMMA QuietStep ==
  ASSUME RepeatInv, NEW p \in Invocations, NEW next \in Stages, NEW result \in Outcome,
         phase' = [phase EXCEPT ![p] = next],
         completed' = [completed EXCEPT ![p] = result],
         binary' \in Builds, UNCHANGED <<directory, reports>>,
         Progress(p)'
  PROVE  RepeatInv'
<1>1. Typed'
  BY DEF RepeatInv, Typed
<1>2. \A q \in Invocations : Collected(q)'
  BY DEF RepeatInv, Collected
<1>3. ASSUME NEW q \in Invocations, q # p PROVE Progress(q)'
  <2>1. phase'[q] = phase[q] /\ completed'[q] = completed[q] /\ Progress(q)
    BY <1>3 DEF RepeatInv, Typed
  <2> QED
    BY <2>1 DEF Progress, Created, Run
<1>4. OneOwner' /\ SummaryIsOfAll'
  BY DEF RepeatInv, OneOwner, SummaryIsOfAll, Created, SameMetadata
<1> QED
  BY <1>1, <1>2, <1>3, <1>4 DEF RepeatInv

\* A step of p that creates a file, or writes one that it created: the first report, or
\* another while the first is of p, and none that it collected.
LEMMA DirectoryStep ==
  ASSUME RepeatInv, NEW p \in Invocations, NEW next \in Stages,
         NEW file \in Files, NEW entry \in Entry, entry.by = p,
         directory' = [directory EXCEPT ![file] = entry],
         directory[file] = Absent \/ directory[file].by = p,
         file = Report(1) \/ Created(Report(1), p),
         \A i \in 1 .. Len(reports[p]) : Report(i) # file,
         file = Summary => Len(reports[p]) = Runs /\ SameMetadata(reports[p]),
         phase' = [phase EXCEPT ![p] = next],
         UNCHANGED <<binary, completed, reports>>,
         Progress(p)'
  PROVE  RepeatInv'
<1>1. Typed'
  BY DEF RepeatInv, Typed
<1>2. directory'[file] = entry /\ entry # Absent
  BY Entries DEF RepeatInv, Typed
<1>3. \A g \in Files : g # file => directory'[g] = directory[g]
  BY DEF RepeatInv, Typed
<1>4. ASSUME NEW q \in Invocations, q # p, NEW g \in Files, Created(g, q)
      PROVE  g # file /\ directory'[g] = directory[g]
  BY <1>3, <1>4 DEF Created
<1>5. ASSUME NEW q \in Invocations PROVE Collected(q)'
  <2> SUFFICES ASSUME NEW i \in 1 .. Len(reports[q])
               PROVE  directory'[Report(i)] = directory[Report(i)]
    BY DEF RepeatInv, Collected
  <2>1. Len(reports[q]) \in Nat /\ Collected(q) /\ reports[q][i] \in Outcome
    BY LenProperties, ElementOfSeq DEF RepeatInv, Typed
  <2>2. i \in 1 .. Runs /\ Created(Report(i), q)
    <3>1. i <= Runs /\ directory[Report(i)] = Whole(q, reports[q][i])
      BY <2>1 DEF Collected
    <3> QED
      BY <2>1, <3>1, WholeEntry, RunsAssumption DEF Created
  <2>3. CASE q = p
    BY <1>3, <2>2, <2>3, FileNames
  <2>4. CASE q # p
    BY <1>4, <2>2, <2>4, FileNames
  <2> QED
    BY <2>3, <2>4
<1>6. ASSUME NEW q \in Invocations, q # p PROVE Progress(q)'
  <2>1. phase'[q] = phase[q] /\ completed'[q] = completed[q] /\ Progress(q)
    BY <1>6 DEF RepeatInv, Typed
  <2>2. Len(reports[q]) \in Nat /\ Run(q)' = Run(q)
    BY LenProperties DEF RepeatInv, Typed, Run
  <2>3. Len(reports[q]) < Runs => Report(Run(q)) \in Files /\ Stderr(Run(q)) \in Files
    BY <2>2, RunsAssumption, FileNames DEF Run
  <2>4. ASSUME NEW g \in Files, Created(g, q) PROVE Created(g, q)'
    BY <1>4, <1>6, <2>4 DEF Created
  <2>5. ASSUME Len(reports[q]) < Runs, directory[Report(Run(q))] = Whole(q, completed[q])
        PROVE  directory'[Report(Run(q))] = directory[Report(Run(q))]
    <3>1. completed[q] \in Outcome
      BY DEF RepeatInv, Typed
    <3>2. Created(Report(Run(q)), q)
      BY <2>5, <3>1, WholeEntry DEF Created
    <3> QED
      BY <1>4, <1>6, <2>3, <2>5, <3>2
  <2> QED
    BY <2>1, <2>2, <2>3, <2>4, <2>5, FileNames DEF Progress
<1>7. OneOwner'
  <2> SUFFICES ASSUME NEW g \in Files, directory'[g] # Absent
               PROVE  /\ directory'[Report(1)] # Absent
                      /\ directory'[Report(1)].by = directory'[g].by
    BY DEF OneOwner
  <2>1. CASE g = file
    BY <1>2, <1>3, <2>1, FileNames DEF Created
  <2>2. CASE g # file
    <3>1. /\ directory'[g] = directory[g] /\ directory[Report(1)] # Absent
          /\ directory[Report(1)].by = directory[g].by
      BY <1>3, <2>2 DEF RepeatInv, OneOwner
    <3> QED
      BY <1>2, <1>3, <3>1, FileNames DEF Created
  <2> QED
    BY <2>1, <2>2
<1>8. SummaryIsOfAll'
  <2> SUFFICES ASSUME NEW q \in Invocations, Created(Summary, q)'
               PROVE  Len(reports[q]) = Runs /\ SameMetadata(reports[q])
    BY DEF SummaryIsOfAll, SameMetadata
  <2>1. CASE file = Summary
    BY <1>2, <2>1 DEF Created
  <2>2. CASE file # Summary
    BY <1>3, <2>2, FileNames DEF Created, RepeatInv, SummaryIsOfAll
  <2> QED
    BY <2>1, <2>2
<1> QED
  BY <1>1, <1>5, <1>6, <1>7, <1>8 DEF RepeatInv

\* An invocation that has written a report owns the directory.
LEMMA OwnsDirectory ==
  ASSUME RepeatInv, NEW p \in Invocations
  PROVE  /\ Len(reports[p]) \in Nat
         /\ Len(reports[p]) >= 1 => Created(Report(1), p)
         /\ \A f \in Files : Created(f, p) => Created(Report(1), p)
<1>1. reports[p] \in Seq(Outcome) /\ Len(reports[p]) \in Nat
  BY LenProperties DEF RepeatInv, Typed
<1>2. Len(reports[p]) >= 1 => Created(Report(1), p)
  <2> SUFFICES ASSUME Len(reports[p]) >= 1 PROVE Created(Report(1), p)
    OBVIOUS
  <2>1. reports[p][1] \in Outcome /\ directory[Report(1)] = Whole(p, reports[p][1])
    BY <1>1, ElementOfSeq DEF RepeatInv, Collected
  <2> QED
    BY <2>1, WholeEntry DEF Created
<1> QED
  BY <1>1, <1>2 DEF RepeatInv, OneOwner, Created

\* The report of the run in hand is none of those collected.
LEMMA RunIsNew ==
  ASSUME RepeatInv, NEW p \in Invocations, Len(reports[p]) < Runs
  PROVE  /\ Run(p) \in 1 .. Runs /\ Report(Run(p)) \in Files /\ Stderr(Run(p)) \in Files
         /\ \A i \in 1 .. Len(reports[p]) : /\ Report(i) # Report(Run(p))
                                            /\ Report(i) # Stderr(Run(p))
         /\ Report(Run(p)) # Summary /\ Stderr(Run(p)) # Summary
         /\ Report(Run(p)) # Stderr(Run(p))
         /\ Report(Run(p)) = Report(1) \/ Created(Report(1), p)
BY OwnsDirectory, FileNames, RunsAssumption DEF Run

-----------------------------------------------------------------------------

\* The check reads the directory only.
LEMMA CheckDirectoryInv ==
  ASSUME RepeatInv, NEW p \in Invocations, CheckDirectory(p) PROVE RepeatInv'
<1>1. completed' = [completed EXCEPT ![p] = completed[p]] /\ completed[p] \in Outcome
  BY DEF CheckDirectory, RepeatInv, Typed
<1>2. PICK next \in {"checked", "failed"} : phase' = [phase EXCEPT ![p] = next]
  BY DEF CheckDirectory, Goto
<1>3. Progress(p)' /\ next \in Stages /\ binary' \in Builds /\ UNCHANGED <<directory, reports>>
  BY <1>2 DEF CheckDirectory, RepeatInv, Typed, Progress, Stages
<1> QED
  BY <1>1, <1>2, <1>3, QuietStep

\* A build changes no report.
LEMMA BuildInv ==
  ASSUME RepeatInv, NEW p \in Invocations, Build(p) PROVE RepeatInv'
<1>1. completed' = [completed EXCEPT ![p] = completed[p]] /\ completed[p] \in Outcome
  BY DEF Build, RepeatInv, Typed
<1>2. PICK next \in {"built", "failed"} : phase' = [phase EXCEPT ![p] = next]
  BY DEF Build, Goto
<1>3. next \in Stages /\ binary' \in Builds /\ UNCHANGED <<directory, reports>>
  BY <1>2 DEF Build, RepeatInv, Typed, Stages
<1>4. Len(reports[p]) = 0 /\ phase'[p] = next
  BY <1>2 DEF Build, RepeatInv, Typed, Progress
<1>5. Progress(p)'
  <2>1. Len(reports'[p]) < Runs /\ phase'[p] \in {"built", "failed"}
    BY <1>2, <1>3, <1>4, RunsAssumption
  <2> QED
    BY <2>1 DEF Progress
<1> QED
  BY <1>1, <1>2, <1>3, <1>5, QuietStep

\* The result of a repetition names the build that ran.
LEMMA RunBenchmarkInv ==
  ASSUME RepeatInv, NEW p \in Invocations, RunBenchmark(p) PROVE RepeatInv'
<1>1. PICK result \in Outcome : completed' = [completed EXCEPT ![p] = result]
  BY DEF RunBenchmark, Outcome, RepeatInv, Typed
<1>2. phase' = [phase EXCEPT ![p] = "ran"] /\ "ran" \in Stages
  BY DEF RunBenchmark, Goto, Stages
<1>3. Progress(p)' /\ binary' \in Builds /\ UNCHANGED <<directory, reports>>
  BY <1>2 DEF RunBenchmark, RepeatInv, Typed, Progress
<1> QED
  BY <1>1, <1>2, <1>3, QuietStep

\* A file that is there already ends the invocation.
LEMMA RefusedOpenInv ==
  ASSUME RepeatInv, NEW p \in Invocations, Goto(p, "failed") \/ Goto(p, "killed"),
         UNCHANGED <<directory, binary, completed, reports>>
  PROVE  RepeatInv'
<1>1. completed' = [completed EXCEPT ![p] = completed[p]] /\ completed[p] \in Outcome
  BY DEF RepeatInv, Typed
<1>2. PICK next \in {"failed", "killed"} : phase' = [phase EXCEPT ![p] = next]
  BY DEF Goto
<1>3. Progress(p)' /\ next \in Stages /\ binary' \in Builds
  BY <1>2 DEF RepeatInv, Typed, Progress, Stages
<1> QED
  BY <1>1, <1>2, <1>3, QuietStep

\* Exclusive creation makes the invocation the owner of a report.
LEMMA OpenReportInv ==
  ASSUME RepeatInv, NEW p \in Invocations, OpenReport(p), UNCHANGED <<binary, completed, reports>>
  PROVE  RepeatInv'
<1> DEFINE file == Report(Run(p))
           entry == [state |-> "open", by |-> p, content |-> completed[p]]
<1>1. CASE ~MayOpen(file)
  BY <1>1, RefusedOpenInv DEF OpenReport, Open
<1>2. CASE MayOpen(file)
  <2>1. /\ directory[file] = Absent /\ Len(reports[p]) < Runs
        /\ directory' = [directory EXCEPT ![file] = entry]
        /\ phase' = [phase EXCEPT ![p] = "writing report"] /\ "writing report" \in Stages
    BY <1>2 DEF OpenReport, Open, MayOpen, Goto, RepeatInv, Progress, Stages
  <2>2. entry \in Entry /\ entry.by = p /\ entry # Absent
    BY OpenEntry DEF RepeatInv, Typed
  <2>3. /\ file \in Files /\ file # Summary
        /\ \A i \in 1 .. Len(reports[p]) : Report(i) # file
        /\ file = Report(1) \/ Created(Report(1), p)
    BY <2>1, RunIsNew
  <2>4. directory'[file] = entry /\ phase'[p] = "writing report"
    BY <2>1, <2>3 DEF RepeatInv, Typed
  <2> HIDE DEF entry
  <2>5. Progress(p)'
    BY <2>1, <2>2, <2>4 DEF Progress, Created, Run
  <2> QED
    BY <2>1, <2>2, <2>3, <2>5, DirectoryStep
<1> QED
  BY <1>1, <1>2

\* A written report is its owner's.
LEMMA WriteReportInv ==
  ASSUME RepeatInv, NEW p \in Invocations, WriteReport(p), UNCHANGED <<binary, completed, reports>>
  PROVE  RepeatInv'
<1> DEFINE file == Report(Run(p))
           entry == Whole(p, completed[p])
<1>1. /\ Created(file, p) /\ Len(reports[p]) < Runs
      /\ directory' = [directory EXCEPT ![file] = entry]
  BY DEF WriteReport, Write, RepeatInv, Progress, Whole
<1>2. PICK next \in {"stderr", "kept"} : phase' = [phase EXCEPT ![p] = next]
  BY DEF WriteReport, Write, Goto
<1>3. entry \in Entry /\ entry.by = p
  BY WholeEntry DEF RepeatInv, Typed
<1>4. /\ file \in Files /\ file # Summary
      /\ \A i \in 1 .. Len(reports[p]) : Report(i) # file
      /\ file = Report(1) \/ Created(Report(1), p)
  BY <1>1, RunIsNew
<1>5. directory'[file] = entry /\ phase'[p] = next /\ next \in Stages
  BY <1>1, <1>2, <1>4 DEF RepeatInv, Typed, Stages
<1>6. Progress(p)'
  BY <1>1, <1>5 DEF Progress, Run
<1> HIDE DEF entry
<1> QED
  BY <1>1, <1>2, <1>3, <1>4, <1>5, <1>6, DirectoryStep DEF Created

\* The error file is created like the report.
LEMMA OpenStderrInv ==
  ASSUME RepeatInv, NEW p \in Invocations, OpenStderr(p), UNCHANGED <<binary, completed, reports>>
  PROVE  RepeatInv'
<1> DEFINE file == Stderr(Run(p))
           entry == [state |-> "open", by |-> p, content |-> completed[p]]
<1>1. CASE ~MayOpen(file)
  BY <1>1, RefusedOpenInv DEF OpenStderr, Open
<1>2. CASE MayOpen(file)
  <2>1. /\ directory[file] = Absent /\ Len(reports[p]) < Runs
        /\ directory' = [directory EXCEPT ![file] = entry]
        /\ phase' = [phase EXCEPT ![p] = "writing stderr"] /\ "writing stderr" \in Stages
        /\ directory[Report(Run(p))] = Whole(p, completed[p])
    BY <1>2 DEF OpenStderr, Open, MayOpen, Goto, RepeatInv, Progress, Stages
  <2>2. entry \in Entry /\ entry.by = p /\ entry # Absent
    BY OpenEntry DEF RepeatInv, Typed
  <2>3. /\ file \in Files /\ file # Summary /\ Report(Run(p)) \in Files /\ Report(Run(p)) # file
        /\ \A i \in 1 .. Len(reports[p]) : Report(i) # file
    BY <2>1, RunIsNew
  <2>4. Created(Report(1), p)
    <3>1. Created(Report(Run(p)), p)
      <4>1. completed[p] \in Outcome
        BY DEF RepeatInv, Typed
      <4> QED
        BY <2>1, <4>1, WholeEntry DEF Created
    <3> QED
      BY <2>3, <3>1, OwnsDirectory
  <2>5. /\ directory'[file] = entry /\ phase'[p] = "writing stderr"
        /\ directory'[Report(Run(p))] = directory[Report(Run(p))]
    BY <2>1, <2>3 DEF RepeatInv, Typed
  <2> HIDE DEF entry
  <2>6. Progress(p)'
    BY <2>1, <2>2, <2>5 DEF Progress, Created, Run
  <2> QED
    BY <2>1, <2>2, <2>3, <2>4, <2>6, DirectoryStep
<1> QED
  BY <1>1, <1>2

\* With it the repetition is complete.
LEMMA WriteStderrInv ==
  ASSUME RepeatInv, NEW p \in Invocations, WriteStderr(p), UNCHANGED <<binary, completed, reports>>
  PROVE  RepeatInv'
<1> DEFINE file == Stderr(Run(p))
           entry == Whole(p, completed[p])
<1>1. /\ Created(file, p) /\ Len(reports[p]) < Runs
      /\ directory' = [directory EXCEPT ![file] = entry]
      /\ phase' = [phase EXCEPT ![p] = "kept"] /\ "kept" \in Stages
      /\ directory[Report(Run(p))] = Whole(p, completed[p])
  BY DEF WriteStderr, Write, Goto, RepeatInv, Progress, Whole, Stages
<1>2. entry \in Entry /\ entry.by = p
  BY WholeEntry DEF RepeatInv, Typed
<1>3. /\ file \in Files /\ file # Summary /\ Report(Run(p)) \in Files /\ Report(Run(p)) # file
      /\ \A i \in 1 .. Len(reports[p]) : Report(i) # file
  BY <1>1, RunIsNew
<1>4. Created(Report(1), p)
  BY <1>1, <1>3, OwnsDirectory
<1>5. phase'[p] = "kept" /\ directory'[Report(Run(p))] = directory[Report(Run(p))]
  BY <1>1, <1>3 DEF RepeatInv, Typed
<1>6. Progress(p)'
  BY <1>1, <1>5 DEF Progress, Run
<1> HIDE DEF entry
<1> QED
  BY <1>1, <1>2, <1>3, <1>4, <1>6, DirectoryStep DEF Created

-----------------------------------------------------------------------------

\* The report of the last process joins those collected.
LEMMA JudgeRunInv ==
  ASSUME RepeatInv, NEW p \in Invocations, JudgeRun(p) PROVE RepeatInv'
<1>1. CASE ~completed[p].ok
  BY <1>1, RefusedOpenInv DEF JudgeRun
<1>2. CASE completed[p].ok
  <2>1. /\ reports' = [reports EXCEPT ![p] = Append(@, completed[p])]
        /\ UNCHANGED <<directory, binary, completed>>
        /\ phase[p] = "kept"
    BY <1>2 DEF JudgeRun
  <2>2. PICK next \in {"collected", "built"} :
          /\ phase' = [phase EXCEPT ![p] = next]
          /\ next = "collected" <=> Run(p) = Runs
    BY <1>2 DEF JudgeRun, Goto
  <2>3. /\ reports[p] \in Seq(Outcome) /\ completed[p] \in Outcome
        /\ Len(reports[p]) \in Nat /\ Len(reports[p]) < Runs
        /\ directory[Report(Run(p))] = Whole(p, completed[p])
    BY <2>1, LenProperties DEF RepeatInv, Typed, Progress
  <2>4. /\ reports'[p] \in Seq(Outcome) /\ Len(reports'[p]) = Run(p)
        /\ \A i \in 1 .. Len(reports[p]) : reports'[p][i] = reports[p][i]
        /\ reports'[p][Run(p)] = completed[p]
    BY <2>1, <2>3, AppendProperties DEF RepeatInv, Typed, Run
  <2>5. ASSUME NEW q \in Invocations, q # p
        PROVE  reports'[q] = reports[q] /\ phase'[q] = phase[q]
    BY <2>1, <2>2, <2>5 DEF RepeatInv, Typed
  <2>6. Typed'
    BY <2>1, <2>2, <2>4 DEF RepeatInv, Typed, Stages
  <2>7. Collected(p)'
    <3> SUFFICES ASSUME NEW i \in 1 .. Run(p)
                 PROVE  /\ i <= Runs
                        /\ directory[Report(i)] = Whole(p, reports'[p][i])
                        /\ reports'[p][i].ok = TRUE
      BY <2>1, <2>4 DEF Collected
    <3>1. CASE i = Run(p)
      <4>1. completed[p].ok = TRUE
        BY <1>2, <2>3 DEF Outcome
      <4> QED
        BY <2>3, <2>4, <3>1, <4>1, RunsAssumption DEF Run
    <3>2. CASE i # Run(p)
      <4>1. i \in 1 .. Len(reports[p])
        BY <2>3, <3>2 DEF Run
      <4> QED
        BY <2>4, <4>1 DEF RepeatInv, Collected
    <3> QED
      BY <3>1, <3>2
  <2>8. Progress(p)'
    <3>1. phase'[p] = next
      BY <2>2 DEF RepeatInv, Typed
    <3>2. next = "collected" => Len(reports'[p]) = Runs
      BY <2>2, <2>4
    <3>3. next = "built" => Len(reports'[p]) < Runs
      BY <2>2, <2>3, <2>4, RunsAssumption DEF Run
    <3> QED
      BY <3>1, <3>2, <3>3 DEF Progress
  <2>9. ASSUME NEW q \in Invocations, q # p PROVE Collected(q)' /\ Progress(q)'
    <3>1. Collected(q) /\ Progress(q)
      BY DEF RepeatInv
    <3> QED
      BY <2>1, <2>5, <2>9, <3>1 DEF Collected, Progress, Created, Run
  <2>10. OneOwner'
    BY <2>1 DEF RepeatInv, OneOwner, Created
  <2>11. SummaryIsOfAll'
    <3> SUFFICES ASSUME NEW q \in Invocations, Created(Summary, q)
                 PROVE  Len(reports'[q]) = Runs /\ SameMetadata(reports'[q])
      BY <2>1 DEF SummaryIsOfAll, Created, SameMetadata
    <3>1. Len(reports[q]) = Runs /\ SameMetadata(reports[q])
      BY DEF RepeatInv, SummaryIsOfAll
    <3>2. q # p
      BY <2>3, <3>1, RunsAssumption
    <3> QED
      BY <2>5, <3>1, <3>2
  <2> QED
    BY <2>6, <2>7, <2>8, <2>9, <2>10, <2>11 DEF RepeatInv
<1> QED
  BY <1>1, <1>2

\* A summary is made of reports that agree.
LEMMA SummarizeReportsInv ==
  ASSUME RepeatInv, NEW p \in Invocations, SummarizeReports(p) PROVE RepeatInv'
<1> DEFINE entry == [state |-> "open", by |-> p, content |-> completed[p]]
<1>1. CASE ~SameMetadata(reports[p]) \/ ~MayOpen(Summary)
  BY <1>1, RefusedOpenInv DEF SummarizeReports, Open
<1>2. CASE SameMetadata(reports[p]) /\ MayOpen(Summary)
  <2>1. /\ directory[Summary] = Absent /\ Len(reports[p]) = Runs
        /\ directory' = [directory EXCEPT ![Summary] = entry]
        /\ phase' = [phase EXCEPT ![p] = "writing summary"] /\ "writing summary" \in Stages
        /\ UNCHANGED <<binary, completed, reports>>
    BY <1>2 DEF SummarizeReports, Open, MayOpen, Goto, RepeatInv, Progress, Stages
  <2>2. entry \in Entry /\ entry.by = p /\ entry # Absent
    BY OpenEntry DEF RepeatInv, Typed
  <2>3. /\ Summary \in Files /\ Created(Report(1), p)
        /\ \A i \in 1 .. Len(reports[p]) : Report(i) # Summary
    <3>1. Len(reports[p]) >= 1 /\ Len(reports[p]) \in Nat
      <4>1. Runs >= 1 /\ Runs \in Nat
        BY RunsAssumption
      <4> QED
        BY <2>1, <4>1
    <3>2. Created(Report(1), p)
      BY <3>1, OwnsDirectory
    <3> QED
      BY <3>1, <3>2, FileNames
  <2>4. directory'[Summary] = entry /\ phase'[p] = "writing summary"
    BY <2>1, <2>3 DEF RepeatInv, Typed
  <2> HIDE DEF entry
  <2>5. Progress(p)'
    BY <2>1, <2>2, <2>4 DEF Progress, Created
  <2> QED
    BY <1>2, <2>1, <2>2, <2>3, <2>5, DirectoryStep
<1> QED
  BY <1>1, <1>2

\* It is written once they all do.
LEMMA WriteSummaryInv ==
  ASSUME RepeatInv, NEW p \in Invocations, WriteSummary(p) PROVE RepeatInv'
<1> DEFINE entry == Whole(p, completed[p])
<1>1. /\ Created(Summary, p) /\ Len(reports[p]) = Runs
      /\ directory' = [directory EXCEPT ![Summary] = entry]
      /\ phase' = [phase EXCEPT ![p] = "done"] /\ "done" \in Stages
      /\ UNCHANGED <<binary, completed, reports>>
  BY DEF WriteSummary, Write, Goto, RepeatInv, Progress, Whole, Stages
<1>2. entry \in Entry /\ entry.by = p
  BY WholeEntry DEF RepeatInv, Typed
<1>3. /\ Summary \in Files /\ Created(Report(1), p)
      /\ \A i \in 1 .. Len(reports[p]) : Report(i) # Summary
      /\ SameMetadata(reports[p])
  BY <1>1, OwnsDirectory, FileNames, RunsAssumption DEF RepeatInv, SummaryIsOfAll
<1>4. phase'[p] = "done"
  BY <1>1 DEF RepeatInv, Typed
<1>5. Progress(p)'
  BY <1>1, <1>4 DEF Progress
<1> HIDE DEF entry
<1> QED
  BY <1>1, <1>2, <1>3, <1>5, DirectoryStep DEF Created

-----------------------------------------------------------------------------

\* Every step keeps the invariant.
LEMMA RepeatStep == RepeatInv /\ [RepeatNext]_repeat_vars => RepeatInv'
<1> SUFFICES ASSUME RepeatInv, [RepeatNext]_repeat_vars PROVE RepeatInv'
  OBVIOUS
<1>1. CASE UNCHANGED repeat_vars
  <2>1. /\ directory' = directory /\ binary' = binary /\ phase' = phase
        /\ completed' = completed /\ reports' = reports
    BY <1>1 DEF repeat_vars
  <2>2. \A p \in Invocations : Collected(p)' /\ Progress(p)'
    BY <2>1 DEF RepeatInv, Collected, Progress, Created, Run
  <2> QED
    BY <2>1, <2>2 DEF RepeatInv, Typed, OneOwner, SummaryIsOfAll, Created, SameMetadata
<1>2. ASSUME NEW p \in Invocations, KeepOutput(p) PROVE RepeatInv'
  BY <1>2, OpenReportInv, WriteReportInv, OpenStderrInv, WriteStderrInv DEF KeepOutput
<1>3. ASSUME NEW p \in Invocations, Kill(p) PROVE RepeatInv'
  BY <1>3, RefusedOpenInv DEF Kill
<1> QED
  BY <1>1, <1>2, <1>3, CheckDirectoryInv, BuildInv, RunBenchmarkInv, JudgeRunInv,
     SummarizeReportsInv, WriteSummaryInv DEF RepeatNext

\* The invariant holds in every history of the directory.
LEMMA RepeatInvariance == RepeatSpec => []RepeatInv
BY RepeatInitInv, RepeatStep, PTL DEF RepeatSpec

\* A summary covers one complete set of reports of the invocation that wrote it, for any
\* number of invocations in one directory and of runs, whenever they are killed (main).
THEOREM SummaryIsOfOneSet == RepeatSpec => []SummaryCoversOneCompleteSet
<1>1. RepeatInv => SummaryCoversOneCompleteSet
  <2> SUFFICES ASSUME RepeatInv, directory[Summary].state = "whole"
               PROVE  SummaryCoversOneCompleteSet
    BY DEF SummaryCoversOneCompleteSet
  <2> DEFINE by == directory[Summary].by
             contents == [i \in 1 .. Runs |-> directory[Report(i)].content]
  <2>1. directory[Summary] # Absent
    BY DEF Absent
  <2>2. by \in Invocations /\ Created(Summary, by)
    BY <2>1, FileNames DEF RepeatInv, Typed, Entry, Created
  <2> HIDE DEF by
  <2>3. Len(reports[by]) = Runs /\ SameMetadata(reports[by]) /\ Collected(by)
    BY <2>2 DEF RepeatInv, SummaryIsOfAll
  <2>4. \A f \in Files : directory[f] # Absent => directory[f].by = by
    BY <2>2, FileNames DEF RepeatInv, OneOwner, Created
  <2>5. ASSUME NEW i \in 1 .. Runs
        PROVE  /\ directory[Report(i)].state = "whole"
               /\ directory[Report(i)].content.ok = TRUE
               /\ directory[Report(i)].content = reports[by][i]
    <3>1. directory[Report(i)] = Whole(by, reports[by][i]) /\ reports[by][i].ok = TRUE
      BY <2>3 DEF Collected
    <3>2. /\ Whole(by, reports[by][i]).state = "whole"
          /\ Whole(by, reports[by][i]).content = reports[by][i]
      BY DEF Whole
    <3> QED
      BY <3>1, <3>2
  <2>6. SameMetadata(contents)
    <3>1. \A i \in 1 .. Runs : contents[i] = reports[by][i]
      BY <2>5
    <3>2. reports[by] \in Seq(Outcome) /\ DOMAIN reports[by] = 1 .. Runs
      BY <2>2, <2>3, LenProperties DEF RepeatInv, Typed
    <3> QED
      BY <2>3, <3>1, <3>2, RunsAssumption DEF SameMetadata
  <2> QED
    BY <2>4, <2>5, <2>6 DEF SummaryCoversOneCompleteSet, by
<1> QED
  BY <1>1, RepeatInvariance, PTL

=============================================================================
