# Formal model of the Satcom Acquisition and Trust Lab

TLA+ modules of the acquisition searches, the replay pipeline, the trust score, the decoders, the
readers of recordings and metadata, and the programs and scripts around them; the TLC instances
that check them; and proofs about all of these, for every size. Source paths below are relative to the
repository.

## 1. Inventory

Everything inside a program is single-threaded C++17: no locks, no messages, no state kept between
calls except plans and workspaces that a caller owns. Concurrency exists only between processes: a
recording may still grow while it is read, and several invocations of the repeat script may share a
directory and a build. Persistence is the report files of the benchmark. What is hard lies in plans,
captures and workspaces that a caller reuses in any order; three implementations of one search that
must agree to the last tie; loops with vector tails; `size_t` arithmetic on sizes from files and
flags; NaN and infinity in scores and thresholds; and stages that report evidence after failing midway.

| Component | State | Operations | What is hard | Correct when | Status |
| --- | --- | --- | --- | --- | --- |
| Plan (`src/acquisition/acquisition_plan.cpp`) | the caller's `AcquisitionPlan` | `prepare_acquisition_plan` | reset on failure; table size and grid contiguity in `size_t` | a failed preparation leaves nothing that a run accepts | modelled, proved |
| Reference search (`acquisition_reference.cpp`) | loop indices, best, second best | checked run, steady-state run | ties, NaN, plan older than the capture | the two candidates are the two best; reads stay in the capture | modelled, proved |
| NEON search (`acquisition_neon.cpp`) | loop indices, tile in hand | checked run, two tilings | tile tails, gaps, wrap-around, order of candidates | same candidates as the reference in the same order | modelled, proved |
| SME2 search (`acquisition_sme2.cpp`, `acquisition_sme2_kernel.cpp`) | `Sme2AcquisitionWorkspace` kept by the caller | prepare, pack, prepared run, steady-state run, one-shot run | stale workspace; predicated tails; row offsets | an admitted run works on a workspace of its plan, and of its capture where the caller packed it; refines the reference | modelled, proved |
| Dispatch (`acquisition_runner.cpp`) | none | `run_acquisition` | an implementation this host lacks | reports it rather than running another | modelled |
| Acquisition gate (`src/demo/replay_acquisition.cpp`) | diagnostics | `acquire_and_align_replay_frame` | `size_t` sums, NaN separation and thresholds | an accepted peak stands out and leaves a whole frame | modelled, proved |
| Pipeline (`src/demo/replay_pipeline.cpp`) | `PreparedReplayFrame`, `ReplayResult` | `prepare_demo_frame`, `run_demo_replay` | failure of each stage, evidence kept | result matches the stages passed | partly (signal abstract), proved |
| Trust (`src/trust/`) | features, breakdown, assessment | features, score, band | caps and flags interact; boundary scores | no credit for stages not passed | modelled, proved |
| Soft demodulator (`src/dsp/soft_demod.cpp`) | soft bits, statistics | `soft_demodulate_bpsk` | clipping by rounding | statistics match the soft bits | partly (soft bits are an outcome) |
| Frame search (`src/dsp/framing.cpp`) | best and second best offset, frame descriptor | `find_frames` | ties of sync scores, displaced best, last offset | first best offset, true margin | modelled, proved |
| Front end (`src/dsp/front_end_dsp.cpp`) | none | `run_front_end` | float32 overflow of mean and energy | finite in, finite out for sane inputs | not modelled |
| Convolutional code (`src/fec/convolutional_codec.cpp`, `branch_metrics_*`) | path metrics, decisions | encode, branch metrics (three paths), decode, CRC-8, bit packing | tie-breaks, traceback start, vector tails, metric range; what the CRC lets through | a best path, tail removed; vector paths prepare the reference's tables; no burst of eight bits passes for a payload | modelled, proved |
| LDPC (`src/fec/ldpc_bitflip.cpp`) | the block in hand | `ldpc_decode_reference` | oscillation, giving up without saying so | single errors restored where the code allows it | modelled, proved |
| IQ reader (`src/util/iq_reader.cpp`) | samples read so far | `load_iq_from_file` | partial sample at a chunk boundary, read error, growing file | all of the file's samples or none | modelled, proved |
| `replay_demo`, `acquisition_demo`, `metadata_numbers.h` (`tools/`) | options, metadata, plan, result | main of each, metadata parsing, exact sizes | precedence of sidecar, flags and defaults; rounding of sizes; end of the timing grid | a rejected sidecar leaves the defaults intact; success means the truth is the peak | partly, proved |
| Benchmark (`tools/acquisition_benchmark.cpp`) | workload, workspace, modes, report | `run_acquisition_benchmark` | correctness gate over implementations and captures, a search failing while timed | only verified paths are timed, only complete timings published | partly, proved |
| `benchmark_acquisition` (`tools/`) | options, report files | main | two paths to one file, half-written reports | a delivered report is whole | modelled, proved |
| Repeat script (`scripts/repeat_acquisition_benchmark.py`) | directory of reports | one invocation | directory checked long before it is written; kills; rebuilt binary | a summary covers one complete set | partly, proved |
| Check programs (`tools/check_*`) | none | comparisons of kernels with the reference | tolerances | - | not modelled |
| Other scripts (`scripts/`) | files, child processes | fixture generation, Android transfer, build checks | - | - | not modelled |

Interaction: `replay_demo` resolves a `ReplayConfig` and calls `run_demo_replay`, which reads
two files, runs the front end, the acquisition gate (plan, dispatch, one of three searches),
demodulation, frame search, a decoder and the CRC, and hands the evidence of all of them to the
trust functions. `acquisition_demo`, the benchmark and the check programs call plan and searches
directly; the last two keep plans and workspaces over many captures, which is what the caller actions
of the search modules stand for. The repeat script runs `benchmark_acquisition` as a child process and
reads its reports.

The hazards of the code are listed with their lines in `PROJECT.json`, each with the properties
that would catch it.

## 2. Modules

### Acquisition

`AcquisitionPlan` holds the preparation as operators: `PlanError(config)` is the chain of early
returns and `PreparedPlan(config)` the plan left in the output argument, which is the empty plan
after any error. Sizes are `0 .. SizeMax` with sums modulo `SizeMax + 1`.

`AcquisitionCandidates` holds what all three searches repeat in the source: input checks,
top two (`ConsiderCandidate`), separation, final result. A correlation is a function of frequency
and window, so a capture (`Recording[c]`) gives its length, whether it is finite, and a score per
(frequency, window start). Scores are `0 .. Infinity` or NaN; the two special values stand
for float32 overflow in the accelerated kernels. `>` is C++'s: false with NaN.

`AcquisitionSearch` is the reference search as a state machine. Actions: `PreparePlan`,
`LoadCapture` (the caller, between runs), `RejectRun`, `StartSearch`, `Evaluate` (one hypothesis),
`Finish`. It is also the abstract specification that the next two implement.

`NeonSearch` replaces `Evaluate` by the tiling: `TryNarrowerTile`, `LoadTile`, `LoadSingleTiming`
compute the windows of a whole tile at once, `ConsiderLane` hands them to the top two one by
one. `TileFits` has both cases of the source, the contiguous grid (counts only) and the general
one (`ConsecutiveTimings`). The refinement maps the end of a frequency's timings to the start of the
next frequency, because the reference advances both indices in one step.

`Sme2Search` has the workspace as a variable. Caller actions: `PreparePlan`, `LoadCapture`,
`DiscardWorkspace`, `PrepareWorkspace`, `PackCapture`. A run is `RejectInput`, `RejectWorkspace` or
`StartKernel`, then `KernelBatch` (four predicated vectors), `ScoreCandidate`, `Finish`. A packed
sample is a pair (capture, position), so stale or misplaced copies are visible. The code cannot check that
the copied samples are those of the plan and capture; `acquisition_sme2.h:37-39` asks the callers for it. A run on
a stale copy is therefore a behaviour of the model. The history variable `packed_for` notes for what the
caller last packed, and `Contract`, that this is the plan and capture searched, is a premise of the
properties about the samples and scores: what the workspace's sizes, layout and first timing are is stated
without it.

### Replay

`TrustScore` has features, weighted score with its caps, flags and band, in exact arithmetic
of steps of 1/`Unit`. `ReplayAcquisition` has the acquisition gate. `ReplayPipeline` composes
them into one replay, an action per stage: `LoadFiles`, `CheckSamplesPerSymbol`,
`PrepareAcquisition`, `SearchCapture`, `AlignFrame`, `Demodulate`, `FindFrame`, `Decode`, `ScoreTrust`.
`Decode` includes the returns of `src/demo/replay_pipeline.cpp:190-202`, which leave the replay unscored.

`FrameSearch` is `find_frames` over a whole buffer: `RefuseFraming` and `StartFrameSearch` are its
checks, `ConsiderOffset` is one turn of its loop (`Consider` keeps best and second best), `ReportFrame` the
threshold and the descriptor. The pipeline searches buffers of exactly one frame, so its `FindFrame` is one
step; `OneFrameHasOneOffset` (section 5) joins the two.

The acquisition search of the pipeline is a single step too, the two best of all hypotheses (`TopTwoResult`),
which is what the search modules are proved to compute (`SearchResultIsTopTwo`, section 5).

### Codes and readers

`ViterbiDecoder` is one decode by any of the three decoders: `PrepareTile` fills the branch-metric
tables one symbol (reference, NEON remainder), one NEON tile or one streaming vector at a time,
`AddCompareSelect` takes one symbol, `TraceBack` one step back, `Finish` drops the tail; `RefuseInput`
and the last branch of `Finish` are the early returns. The strict comparison in state order is
`Survivor`: the lowest state among equals. `kNegInf` is the constant `NegInf`.

`LdpcBitFlip` is one call of the bit-flipping decoder: `Begin` takes the hard decisions of a block,
`FlipBits` is one round, `FinishBlock` stores it and begins the next; `RefuseBlocks` is the length check.

`FrameCheck` is what follows the decoder in `run_demo_replay`: `PackBits` makes bytes of the decoded bits,
`ConsumeByte` is the loop of `crc8_bytes` (eight times `CrcShift`), `CompareCrc` the verdict. What was
sent is the payload and CRC of the fixture generator (`FrameOf`), whose CRC is a translation of its own, from the
script (`GeneratorCrc`), and the decoder's errors are a set of wrong bits. A
byte is the set of its bits that are one, so that exclusive or is symmetric difference.

`ReplayStages` puts three detailed stages of a replay in sequence: `LoadIq` is a step of `IqReader`, `FindFrames`
one of `FrameSearch`, `CheckPayload` one of `FrameCheck`, each begun only behind the success of the one before, while the
recorder may go on writing. What lies between them is in `ReplayPipeline`.

`IqReader` counts the file in bytes. `OpenFile`, `ReadChunk` and `ReadError` are the reader's steps,
`RefusePath` the failed open, and `ExtendRecording` another process that appends in between.

`MetadataNumbers` has `metadata_numbers.h`: which tokens are JSON numbers and how one becomes a
`size_t`, digit by digit with decimal point and exponent, exactly or not at all.

### Programs

`DemoPrograms` is one run of `replay_demo` or `acquisition_demo`. Both begin with `ReadArgument` (one
option at a time) and `ChooseMetadata`. `replay_demo` continues with `LoadReplayMetadata`, which has the
v2 contract and the fallback to the defaults, and `RunReplay`; `acquisition_demo` with
`LoadAcquisitionMetadata`, `LoadFiles`, `BeginGrid` and `ExtendGrid` (one timing), `SearchRecording` and
`Report`. It extends `ReplayAcquisition`, so plan and search are those of the other modules.

`AcquisitionBenchmark` is one call of `run_acquisition_benchmark`. `Select` or `Refuse` take the
options; `PrepareWorkload` and `CheckReference` build a search with a known answer and check the
reference on it; `VerifyCapture`, `SkipUnavailable`, `FinishImplementation` and `JudgeWorkload` are the
correctness gate over all implementations and captures; `BeginRound` and `EndRounds` shuffle the tasks,
`WarmUp` and `TimeSample` execute one; `Summarize` and `Serialize` make the report; `AllocationFails` is
the `catch` around it all. A search is an outcome: right, wrong in one respect, or failed; the reference that
becomes the baseline has the true best, and either of two second bests, as `reference_valid` asks for the best and
the count only. The SME2 workspace is not a variable: the timings of a workload are contiguous, so a preparation
stores no samples and is the same for every capture; whether it succeeds is part of the outcome. The history
variable `incidents` collects what went wrong.

`BenchmarkTool` is the program around it: `ReadArgument`, `ShowUsage`, `RefuseArgument`, `EndArguments`,
`ValidateOutputPaths`, `CallBenchmark`, `WriteJson`, `WriteCsv`, `PrintReport`. The file system maps
paths to files and files to contents, so that two paths may lead to one file.

`RepeatBenchmark` has any number of invocations of the script, interleaved: `CheckDirectory`, `Build`,
`RunBenchmark`, `KeepOutput` (exclusive creation of the files of a run), `JudgeRun`, `SummarizeReports`,
`WriteSummary`, and `Kill` at any of these points.

### Proofs and instances

`AcquisitionPlanProofs` has the lemmas about plans and peaks that the others share.
`AcquisitionSearchProofs`, `NeonSearchProofs`, `Sme2SearchProofs` and `ReplayPipelineProofs` hold the
theorems about the module that each is named for, the last one also about `FrameSearch`; `FecProofs` those
about `ViterbiDecoder`, `LdpcBitFlip`, `FrameCheck` and `ReplayStages`; `BenchmarkProofs` about `AcquisitionBenchmark`, `BenchmarkTool` and `RepeatBenchmark`;
`ProgramProofs` about `IqReader`, `MetadataNumbers` and `DemoPrograms`. The `MC*` modules
hold the instances. Operators under a comment that begins with "Variant" change a definition the way a
plausible bug would; `PROJECT.json` pairs each with the property that it breaks.

## 3. Runs

| Run | Bounds | Shows |
| --- | --- | --- |
| `acq_search` | sizes modulo 8; up to 3 timings and 2 frequencies; configurations that fail each check; captures of several lengths with tied, zero, infinite and NaN scores | top two, bounds of reads, separation, no success without a prepared plan, one hypothesis a step |
| `neon_search` | 4 lanes as on Arm; grids of up to several tiles of 32, 16, 8, 4 and a remainder; contiguous, gapped, descending grids and one that wraps around `SizeMax` | each lane has its own timing's window, no read past the capture, short remainder, every step leaves less to search, refinement of `AcquisitionSearch` |
| `sme2_search` | 2 lanes, so batches of 8 timings; grids of one and two batches with tails; two packed plans of equal shape that differ in their first timing; three captures | the workspace of an admitted run has the layout of its plan, and for callers that keep the contract of the header its samples are fresh and every entry of the table belongs to its hypothesis; no empty batch, refinement |
| `replay_pipeline` | frames of 6 symbols; captures with two, one, no timings, and a size at which preamble plus frame length wraps around; peak thresholds of zero, above one, NaN; five kinds of soft decisions | accepted frames fit, accepted peaks stand out, high confidence only for verified payloads, low confidence otherwise (one exact boundary case), no credit for stages not passed |
| `viterbi` | frames of 3 bits with each single inverted decision at two strengths, one of 5 bits; all inputs of 1, 2 and 4 decisions over {-2, 0, 1}, of 6 over {-1, 2}; odd and empty inputs; NEON tiles of 2 and streaming vectors of 3 symbols | equal tables by all paths, the best path kept into each state, metrics far from `kNegInf`, a best path returned, single errors corrected |
| `ldpc` | the parity checks of the source; all 4096 blocks, inputs of two blocks with an error in each, lengths 0, 11 and 13; 8 iterations as in the source | codewords and correctable single errors come out right, each block on its own |
| `replay_stages` | one stage meets all of its inputs, the others one that lets the replay go on. Reader: samples of 2 bytes, chunks of 2 samples, files up to 16 bytes that may grow at any time, a read error at any chunk, any sample not finite. Search: every buffer of up to 6 soft decisions in {-1, 0} and one of 8, sync words of 0 to 3 bits, frames of 0 to 2 decisions, thresholds of no, some and full agreement. Payload: 2 bytes, all zeros and two others; every error of up to 3 bits, every burst of 8, and the polynomial itself at each position | success of a read delivers exactly the whole samples of the file as last seen; the frame is the first best match, its rival the first best of the others; intact payloads are verified, bursts of 8 and odd errors are not |
| `demos` | up to 2 options; documents whole and with each field damaged; some 200 size tokens; sizes modulo 128, ranges that end within a step of the maximum; recordings of 6 and 127 samples, one of NaN, one absent | one source of configuration, exact sizes, the whole grid searched, success only when the true hypothesis is the peak |
| `benchmark` | two workloads instead of four, a bank of 2 captures as in the source (`tools/acquisition_benchmark.cpp:149`), sizes modulo 256; up to 2 searches a sample (`MaxOperations`) and one wrong search (`MaxFaults`); hosts with none, NEON, NEON and SME2 | only verified paths timed, published timings complete, `ok` truthful |
| `benchmark_tool` | up to 3 options (`MaxArguments`); ordinary paths, a hard link, a second spelling, a directory, a missing parent, a path that does not resolve | output and exit status imply whole report files; earlier reports survive refused or aborted runs |
| `benchmark_alias` | the same with a symbolic link to a report that does not exist yet | violates `AliasesAreRejected`, see section 4 |
| `repeat` | 2 invocations, 2 runs each, 2 builds, 2 sets of modes; kills at any point | a summary stands beside the complete set that it was made of |

Why the bounds suffice: the searches treat hypotheses alike, so two frequencies and the few
timings that fill each kind of tile and tail reach every path of their control; scores matter by
order only, and three levels with NaN and infinity give every order of best, second and newcomer.
A wrapped size needs one capture that is shorter than its frame.
Five offsets of a frame search give every order of best, second and newcomer, with scores that tie. Two
bytes of payload have a burst over a byte's end and one over the payload's, and the multiples of the polynomial,
which the CRC must let through, show that the verdict "crc ok" is reached by wrong payloads.
The decoder has memory of two bits: after three symbols every state has been left and merged
into, and five or seven symbols leave tiles of 2 and 3 both whole and partial. In the reader, chunks of two
samples and up to eight samples give whole, partial and empty last chunks and a sample cut in half. In the
benchmark a second fault can only add to what the first one already forbids, and two captures suffice
for one to pass the gate and the other to fail, in either order. Two options reach every pair that may contradict each other; the tool needs
three for two paths and one repetition. Two invocations are enough for one to find the other's files, and the
proof of `repeat` covers the rest. The caller's behaviour is unbounded in the search modules: the
instances explore every sequence of calls.

Deadlock is checked for the searches. The other modules describe one call or one program, which ends
in a final stage; their configurations set `CHECK_DEADLOCK FALSE`.

Fairness: a search, once entered, is a sequential call that keeps executing, so the specifications of the
three searches have `WF` on its own steps; nothing is assumed of the caller, who may never call. It is what
`ImplementsReference` needs, whose abstract side has the same fairness. That the loops of a search end is not left to
fairness: `SearchAdvances`, `TilingAdvances` and `KernelAdvances` say that each step leaves less to do. The
remaining modules state no fairness: they check safety only.

## 4. What the runs say about hard spots

- **Aliases (a disagreement of code and documentation).** `docs/benchmarking.md:8-10` says that the
  benchmark rejects JSON and CSV paths that are aliases of each other. A symbolic link to a report that
  does not exist yet is accepted beside that report (`tools/benchmark_acquisition.cpp:104`):
  `weakly_canonical` keeps the name of a link whose target is absent, and `equivalent` fails for absent
  files. The CSV report then overwrites the JSON report and the program succeeds. Without such a link
  `DeliveredReportsAreWhole` holds.
- `UnverifiedIsLowConfidence` names an exception: a frame that fails sync behind a flawless
  acquisition scores exactly 0.45 and is therefore "guarded". The sum
  0.15 + 0.15 + 0.10 + 0.05 is also exactly the 0.45f of the comparison in float32.
- A capture that is too short passes the length check at `src/demo/replay_acquisition.cpp:121` when
  preamble plus frame length wraps around. It is still refused, by the search's own window
  check; `AcceptedFrameInsideCapture` says so, and its mutant shows that this check is what saves it.
- NaN thresholds pass the range check and then reject every peak. NaN separations become 0
  through the argument order of `std::max(0.0, std::min(value, 1.0))`.
- `FrameIncomplete` and a disagreeing frame offset can never occur after an accepted
  acquisition (`AcceptedFrameInsideCapture`, `FrameSyncAgrees`): those branches of the code are defensive.
- A packed SME2 workspace keeps the first timing of an earlier plan when the new one has a packed grid,
  which no longer reads it. `AdmittedWorkspaceIsFresh` therefore compares what the kernel reads.
- The decoder does not use that the tail leads to state 0: its traceback starts at the best
  state. `SingleErrorCorrected` shows that one inverted decision is still corrected everywhere. Paths
  that differ in the last payload bit may then be only three decisions apart, so two errors
  near the end need not be.
- The metrics are never normalised, and `kNegInf` marks unreached states. `MetricFloor` is why this is
  sound for every input length: every reached metric stays above four times -128.
- `ldpc_decode_reference` returns true when it stops at the iteration bound as well, so its result does not
  tell success from giving up. It corrects a single error at any position but 1, 10 and 11 (counted
  from one), for which a codeword of weight two makes the answer ambiguous.
- When the search of `acquisition_demo` fails, the candidate keeps its defaults, timing 0 and 0 Hz,
  which may well be the truth of a fixture. `SuccessMeansTruthIsThePeak` depends on `ok` being asked first.
- The repeat script checks that its directory is empty long before it writes there. What keeps two
  invocations apart is only that files are created exclusively and that the first report comes first:
  the invocation that created it owns the directory, and the other fails.

## 5. Proofs

All theorems hold for every value of the constants under the assumptions that the modules name: sizes
are naturals, frequencies integers, NaN is not an integer, configurations and captures are well typed,
`Infinity` is positive, vectors have at least one lane, and so on.

**Reference search.** `Spec` implies `[]TypeOK`, `[]TopTwoOfEvaluated`, `[]WindowsInsideCapture`,
`[]SuccessNeedsPreparedPlan` and `[]SeparationIsFraction`.
The run checks the last two as one, `SuccessVouches`.
None of these but the top two is inductive alone. `Inv` adds that the loop indices are within the
plan while the search runs (`LoopOK`), that the count is the number of hypotheses before the
indices (`CountOK`), that the plan is empty or the prepared plan of some configuration (`PlanOK`), and
what a finished result keeps from the search (`DoneOK`). `LoopOK` carries `RunError = NoError`, from
which the window bounds follow. The heart is the lemma `ConsiderKeepsTopTwo`: adding one later
hypothesis with `ConsiderCandidate` turns the top two of H into those of H plus the newcomer,
by cases on the two comparisons and on NaN. Separation follows from top two, since the
second score cannot exceed the best.
`SearchAdvances` is an action property: each step of a search counts one hypothesis more of an unchanged plan,
and only a complete count ends it. It is the variant of the loops, and `SearchAdvancesCorrect` proves it for every
size.

**NEON search.** For vectors of any width and grids of any length, `[]LanesMatchTheirTimings`,
`[]TileReadsInsideCapture`, `[]ScalarRemainderIsShort`, together `TilesAreInPlace`. The invariant adds the position in the grid and that
narrower tiles suffice for the timings left (`NarrowTilesSuffice`); a contiguous grid cannot wrap
around, which is `AcquisitionPlanProofs`' part. `StepsImplementReference` is the safety part of
`ImplementsReference`: initial states map to initial states and every step to a step of
`AcquisitionSearch` or a stutter. The top two are then carried over by instantiating
`AcquisitionSearchProofs`. Every step lowers a measure (`TilingAdvances`): frequencies left, then timings
left, then the width of the tile to be tried, then whether one is to be loaded, in lexicographic order.

**SME2 search.** `[]CorrelationsBelongToHypotheses` and `[]AdmittedWorkspaceIsFresh` for every history
of the workspace, with the same step simulation and carried-over top two. The invariant says that the
workspace of a running kernel has the sizes and layout of its plan (`Admitted`), that a copy holds the samples of
what `packed_for` notes (`Copied`), and that, for a caller that keeps the contract of the header, the batches
before the current row and timing are filled (`BatchesDone`); the table is right only because the workspace is. Sizes, layout and first timing do not
depend on the contract; scores, top two and the step simulation do. `KernelAdvances` is the
lexicographic measure of this search: loop, rows left, timings left, which stay positive as every batch that
is begun has a timing of its row.

**Pipeline.** `SearchResultIsTopTwo`: every nonempty set of hypotheses has a peak (a well-founded minimum
over scores and then over their order), so the `CHOOSE` of `TopTwoResult` satisfies the `IsTopTwo` that
the searches establish; this joins pipeline and searches. Then `[]AcceptedFrameInsideCapture`,
`[]AcceptedPeakStandsOut`, `[]FrameSyncAgrees`, `[]HighConfidenceIsDecoded`,
`[]UnverifiedIsLowConfidence` (together `BandIsJustified`) and `[]ScoreWithinEvidence`. `IInv` has the types of the inputs, what is
known of frame, plan and diagnostics once measured, `Progress` (which stages a result must have passed to
stand where it does) and `Scored` (features and score computed from exactly that result; a replay whose decoder refused or returned
another number of bytes is `Unscored`). The key to
the wrap-around is `SearchedGrid`: a search that succeeded has checked its own windows, so the sum
that wrapped cannot have been accepted.

**Frame search.** `[]FrameIsFirstBest` and `[]UndamagedSyncIsFound` for buffers, words and frames of any
length. The invariant says that best and second best are the first best of the offsets before the current
one and the first best of these without the best (`IsTopTwoOf`); one more offset keeps it, by cases on the two
comparisons, because a later offset wins only with a larger score. A word of n bits has score n exactly where it
is undamaged, so the first best offset is the first undamaged one. `OneFrameHasOneOffset` derives from the same invariant what
`FindFrame` of the pipeline does in one step.

**Viterbi decoder.** Everything that is checked, for inputs of any length, any tile and vector width, and
any `NegInf` below `-4 * SoftLimit`. The first invariant, `IInv`, gives `[]TablesMatchReference` and
`[]MetricFloor` (half of the `MetricsAreSound` of the run) and has three parts. `Phases` has the types that the steps need; `TablesPart` says that
each symbol prepared so far has the metrics of its own two decisions, and that the preparation ends with
all of them. `MetricsPart` strengthens the floor, which is not inductive: from a metric of
-4 * `SoftLimit` the next symbol could sink further. The two branches that leave a state have opposite
metrics, so the best state, at or above zero, sends one successor to zero or above and both to
-2 * `SoftLimit` or above (`PairAboveHalfFloor`). These two successors together lead to all four states
(`PairLeadsEverywhere`), so one symbol later every state is at or above -4 * `SoftLimit`.

The second invariant, `PathsInv`, is about bit sequences, which the recurrence never forms: the metric of
a state is that of some sequence into it that no other beats (`SurvivorsPart`); the stored decision extends
every best sequence into the stored predecessor to a best one into the state (`LinksPart`); and the bits traced
back complete every best sequence into the state of the traceback to a best one of the whole input
(`TracePart`). A sequence into a state is one into a predecessor and a bit, so one symbol keeps it; with the
floor the mark is never mistaken for a metric. From it follow `[]SurvivorsAreBest` and
`[]DecodedIsBestPath`. `[]SingleErrorCorrected` needs a fact about the code: the sent sequence loses at most
one decision, and every sequence with another payload differs from it in at least three (both decisions of
the symbol of the first wrong bit, and at least one of the next symbol), so it correlates strictly less.

**LDPC.** `[]SingleErrorsAreRestored` for every matrix, block length, iteration bound and call, under the
premise `ZeroBlockIsRestored`: each correctable single error is removed from the block of zeros.
`SourceMatrixRestores` discharges it for the matrix of the source, by following the votes of each of these
blocks through the at most three rounds that it needs; the two theorems together are unconditional
for the code as written and hold for any iteration bound of at least three. `LdpcInv` says that every
finished block is what `Rounds` makes of its own hard decisions; the failed checks of a sum of a codeword
and an error are those of the error, so rounds commute with adding codewords (`DecodedSum`) and what works
on zeros works on every codeword.

**Payload check.** `[]IntactFrameIsVerified` and `[]ErrorsAreDetected` (bursts of eight bits, odd numbers of bits)
for payloads of any length and content and any set of wrong bits. `FrameInv` says that the register is that of the bytes consumed and that
the bytes compared are those sent plus those of the errors. A shift is linear in symmetric difference, so
the comparison succeeds exactly when the register of the errors alone, taken over the whole frame, is empty.
The first wrong byte of a burst leaves a lowest bit at or below its first wrong bit; a
second byte is wrong only above that bit and cannot cancel it, and no right byte empties a register that is not empty,
because a shift empties only the empty one. The polynomial has an even number of terms, so each shift
keeps the parity of the register, and an odd error never leaves it empty.
That the generator's register is the program's is a lemma about any bytes (`GeneratorCrcIsCrc8`): its shift and the
program's agree for every register. By the way that `ReplayStages` is put together, its runs are runs
of its three parts, so the theorems about these hold in the composition (`ReplayDetectsErrors` is one).

**Benchmark.** For any table of workloads, number of captures, rounds and samples, and any faults:
`[]TypeOK`, `[]OnlyVerifiedPathsAreTimed`, `[]PublishedTimingIsComplete`
and `[]ReportOkIsTruthful`. The invariant relates the modes in hand to the incidents of the current workload
(a valid mode has no incident), the pending tasks of a round to the valid modes, the number of samples to the
rounds done, and the report so far to the incidents of the workloads that it
covers. `WorkloadsAssumption` says that the table is finite, can be ordered by size and has a frequency on
both sides of its centre, which holds for the four rows of the source.

**Benchmark program.** `[]EarlierReportsSurvive` for every command line and file system.
`[]DeliveredReportsAreWhole` under the premise `LinksHaveTargets`: any two paths to one file resolve to
one name or both exist. It is false exactly for a link whose target does not exist yet, the case of section 4, where the
property fails; the instance asserts that its ordinary set of paths meets the premise and the other does not.
`ToolRejectsAliases` proves the documentation's own claim, `[]AliasesAreRejected`, under the same premise: links
without a target are the whole of the disagreement.

**Repeat script.** `[]SummaryCoversOneCompleteSet` for any number of invocations and runs. The invariant
says that all files are those of the invocation that created the first report (`OneOwner`) and how far
each invocation has come (`Progress`, `Collected`).

**IQ reader.** `[]AllSamplesOrNone` for files, chunks and samples of any size, however the file
grows: while reading, the vector holds the samples of the bytes read, and these are whole.

**Demo programs.** `[]ReplayHasOneSource`, `[]SearchedGridIsWhole` and `[]SuccessMeansTruthIsThePeak` for
every command line, every width of `size_t` and all files that `FilesAssumption` admits (documents whose
sizes are number tokens, absent or null; preambles with a length). `DemoInv` says of each stage what was
loaded before it. A grid that has begun holds `start + step * (i - 1)` at index i and nothing past the stop
(`GridBegun`), so the difference of stop and last timing does not wrap around (`NoWrapInRange`), one more
timing keeps it (`GridGrows`), and when none remains it is the whole range (`GridIsWhole`); here
the divisibility check before the loop is needed. The peak comes from `SearchResultIsTopTwo`'s lemmas. 

**Sizes.** `ParsedSizeIsExact`: for tokens of any length, in any form with point and exponent, and every width of
`size_t`, `parse_metadata_size` returns a size exactly when the token writes one, and that one;
`[]LoadedSizesAreExact` follows for `replay_demo`. What a token writes
is `ExactSizes`: the sizes from which dividing by ten, without a remainder, leads to the digits, or to which it leads
from them. The provers have no arithmetic of `^`, so the powers of ten in the code's overflow bound are a recursive function
whose laws are proved first. The proof follows the value of each prefix of the digits: the loop holds that
value as long as it fits, the bound on the number of digits (one more than `digits10`) refuses only what is
too large, and digits dropped by a negative shift are zeros, each of which divides the value by ten.

Induction: the theorems of the library that take a predicate cannot be instantiated, so the proofs use
sets instead, of lengths, indices or counterexamples, and the well-founded minimum of naturals
(`LeastNatural`, `NaturalInduction`). The functions defined by recursion are shown to exist in the same way
(`RecursionExists`).

Model-checked only: the fairness part of `ImplementsReference`, which needs `ENABLED`. The three searches'
measures above are proved; that a running call takes its next step is the assumption of fairness.

## 6. Abstractions

- Float arithmetic is abstract: a window has one score for all implementations. In the code
  float32 and float64 scores differ by rounding, so near-ties may resolve differently; the check
  programs compare with a tolerance. What the refinements show is the control: the same
  hypotheses, windows, order and refusals.
- The decoder's integers are unbounded; the `int16_t` tables cannot overflow, `int` path metrics could only
  after some eight million strong symbols. A branch-metric kernel that is not compiled is the reference.
- The trust score is exact where the code rounds float32. Band boundaries met exactly are
  discussed in section 4.
- Signals are abstract: a demodulated frame is a choice of outcome, and in
  `ReplayPipeline` so is the CRC. `FrameCheck` has what it detects; errors beyond that pass with a
  chance of one in 256, which is no matter of control.
- Buffers of a frame search are shorter than `size_t`'s maximum by word and frame, so the sum of the two sizes does
  not wrap around; both are constants of the demo.
- Metadata documents are abstract: a field is a token, absent, or null. The code looks a key up by its first
  occurrence in the text, so a key inside a string could be found instead; documents of the model have each
  key once. Doubles are read by `strtod`, which is external; sizes are modelled digit by digit.
- In the benchmark, searches are outcomes. A timed search is checked for success, not for the right
  candidate, as in the code. Statistics, memory and environment fields and the layout of reports are left
  out. The definition with a single frequency (`tools/acquisition_benchmark.cpp:771`) cannot be
  reached with the fixed table of workloads.
- The repeat script compares reports field by field; here it compares build and modes.
- `fread` returns less than was asked for only at the end of the file or after an error.
- Not modelled: peak ratio, ground-truth errors, labels and log lines, which decide nothing.
- An implementation that is not compiled or not executable reports itself unavailable; the gate and the
  benchmark have that (`Implementations`, `host`), the search modules model hosts that have the kernel.

Not modelled at all: the front end (float32 mean and power; it cannot refuse a loaded capture, and a
silent one just stays unscaled); the check programs (tests; their workspaces are in `Sme2Search`); fixture
generation, build checks and Android scripts (batch work on files without interaction); logging.

## 7. Plan

Done: plan, three searches, gate, pipeline, trust, decoders, LDPC, reader, metadata, programs,
benchmark, repeat script; frame search, CRC; proofs of every invariant and action property
that the runs check.

Left:

1. The Android transfer, if it ever gets retries.
2. Soft demodulation with its float32 scaling, if a library of floating point arithmetic becomes available.
