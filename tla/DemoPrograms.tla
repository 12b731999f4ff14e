---------------------------- MODULE DemoPrograms ----------------------------
(***************************************************************************)
(* The command-line programs replay_demo and acquisition_demo: arguments,  *)
(* the metadata file beside the recording, the configuration made of it,   *)
(* and the exit code.                                                      *)
(*                                                                         *)
(* replay_demo falls back on defaults when the metadata file it guessed    *)
(* cannot be used and stops when the one it was given cannot; it then runs *)
(* the replay, which ReplayPipeline models.  acquisition_demo needs the    *)
(* file, builds the timing grid from it and searches the recording.        *)
(***************************************************************************)
EXTENDS ReplayAcquisition, MetadataNumbers

CONSTANTS
  Disks,          \* per run: the documents at two paths, and what the preamble file holds
  Recordings,     \* captures at the given IQ path
  Default, Null, Missing,
                  \* a value nobody gave, JSON null, and a field that does not parse
  MaxArguments    \* bound: options on a command line

\* A metadata document, by field; size fields are tokens, Null or Missing.
ReplayFields ==
  <<"schema", "scenario", "signal_present", "true_timing_offset", "true_cfo_hz",
    "sample_rate_hz", "samples_per_symbol", "preamble_file">>

AcquisitionFields ==
  <<"scenario", "preamble_file", "sample_count", "preamble_length", "sample_rate_hz",
    "timing_search_start", "timing_search_stop_inclusive", "timing_search_step",
    "cfo_hypotheses_hz", "true_timing_offset", "true_cfo_hz">>

SizeFields ==
  {"true_timing_offset", "samples_per_symbol", "sample_count", "preamble_length",
   "timing_search_start", "timing_search_stop_inclusive", "timing_search_step"}

\* A size field of a document holds a token, if anything.
IsDocument(document) ==
  /\ \A field \in SizeFields :
       document[field] \in {Null, Missing} \/ document[field] \in Token
  /\ \/ document.cfo_hypotheses_hz \in {Null, Missing}
     \/ document.cfo_hypotheses_hz \in Seq(Frequencies \cup {NaN})

Preamble == [length : Size, finite : BOOLEAN, energy : BOOLEAN]

ASSUME FilesAssumption ==
  /\ \A d \in Disks :
       /\ \A path \in {"sidecar", "other"} : d[path] = Missing \/ IsDocument(d[path])
       /\ d.preamble = Missing \/ d.preamble \in Preamble
  /\ Recordings \subseteq Captures \cup {Missing}

\* The empty path names none of the files.
ASSUME DefaultAssumption == Default \notin {"sidecar", "other"}

VARIABLES
  program,
  disk,              \* one of Disks: [sidecar, other, preamble]
  recording,         \* the capture at the IQ path, or Missing
  arguments,
  stage,
  metadata,
  metadata_path,     \* Default while empty
  timing_offsets,
  plan,
  result

vars == <<program, disk, recording, arguments, stage, metadata, metadata_path,
          timing_offsets, plan, result>>

-----------------------------------------------------------------------------

NoArguments == [given |-> 0, metadata |-> Default, metadata_explicit |-> FALSE,
                preamble |-> Default, implementation |-> "reference",
                decoder |-> "viterbi-reference"]

\* FixtureMetadata of replay_demo as it is constructed
DefaultMetadata == [sample_rate_hz |-> 48000, samples_per_symbol |-> 8, preamble |-> Default,
                    ground_truth |-> [available |-> FALSE, signal_present |-> FALSE,
                                      timing_offset |-> Null, cfo_hz |-> Null]]

Init ==
  /\ program \in {"replay_demo", "acquisition_demo"}
  /\ disk \in Disks
  /\ recording \in Recordings
  /\ arguments = NoArguments
  /\ stage = "arguments"
  /\ metadata = DefaultMetadata
  /\ metadata_path = Default
  /\ timing_offsets = << >>
  /\ plan = EmptyPlan
  /\ result = NoResult

Exit(code) == stage' = code

\* The next option; --help and what is not an option end the program.
ReadArgument ==
  /\ stage = "arguments" /\ arguments.given < MaxArguments
  /\ \/ /\ \E path \in {Default, "sidecar", "other"} :
             arguments' = [arguments EXCEPT !.given = @ + 1, !.metadata = path,
                                            !.metadata_explicit = TRUE]
        /\ UNCHANGED stage
     \/ /\ program = "replay_demo"
        /\ \/ arguments' = [arguments EXCEPT !.given = @ + 1, !.preamble = "given"]
           \/ arguments' = [arguments EXCEPT !.given = @ + 1, !.decoder = "unknown"]
        /\ UNCHANGED stage
     \/ /\ \E name \in {"reference", "neon", "sme2", "unknown"} :
             arguments' = [arguments EXCEPT !.given = @ + 1, !.implementation = name]
        /\ UNCHANGED stage
     \/ Exit("help") /\ UNCHANGED arguments
     \/ Exit("refused") /\ UNCHANGED arguments
  /\ UNCHANGED <<program, disk, recording, metadata, metadata_path, timing_offsets, plan, result>>

(***************************************************************************)
(* After the arguments: unknown names end the program.  Without a metadata *)
(* path, --metadata "" included, the one beside the recording is taken;    *)
(* replay_demo takes it only when it exists.                               *)
(***************************************************************************)
ChooseMetadata ==
  /\ stage = "arguments"
  /\ IF arguments.implementation = "unknown" \/ arguments.decoder = "unknown"
       THEN Exit("refused") /\ UNCHANGED metadata_path
       ELSE /\ stage' = "metadata"
            /\ metadata_path' =
                 IF arguments.metadata # Default THEN arguments.metadata
                 ELSE IF program = "replay_demo" /\ disk.sidecar = Missing THEN Default
                 ELSE "sidecar"
  /\ UNCHANGED <<program, disk, recording, arguments, metadata, timing_offsets, plan, result>>

-----------------------------------------------------------------------------

SizeParses(value) == value # Missing /\ ParseMetadataSize(value) # Refused

\* true_timing_offset and true_cfo_hz may be null in a replay fixture only.
FieldParses(document, field) ==
  IF program = "replay_demo" /\ field \in {"true_timing_offset", "true_cfo_hz"}
     /\ document[field] = Null THEN TRUE
  ELSE IF field = "schema" THEN document.schema = "satcom-fec-trust-lab/replay-fixture-v2"
  ELSE IF document[field] = Null THEN FALSE
  ELSE IF field \in SizeFields THEN SizeParses(document[field])
  ELSE document[field] # Missing

\* The fields that a sequence of && conditions reaches and parses.
ParsedFields(document, fields) ==
  {fields[i] : i \in {i \in DOMAIN fields : \A j \in 1 .. i : FieldParses(document, fields[j])}}

AllParse(document, fields) ==
  ParsedFields(document, fields) = {fields[i] : i \in DOMAIN fields}

FieldValue(document, field) ==
  IF field \in SizeFields /\ document[field] # Null
    THEN ParseMetadataSize(document[field]) ELSE document[field]

\* replay_demo's local candidate: what was parsed before a field that does not parse.
ReplayCandidate(document, truth_available) ==
  LET parsed == ParsedFields(document, ReplayFields)
      value(field, default) == IF field \in parsed THEN FieldValue(document, field) ELSE default
  IN  [sample_rate_hz |-> value("sample_rate_hz", 48000),
       samples_per_symbol |-> value("samples_per_symbol", 8),
       preamble |-> IF truth_available THEN "fixture" ELSE Default,
       ground_truth |-> [available |-> truth_available,
                         signal_present |-> value("signal_present", FALSE),
                         timing_offset |-> value("true_timing_offset", Null),
                         cfo_hz |-> value("true_cfo_hz", Null)]]

ReplayContract(document) ==
  LET candidate == ReplayCandidate(document, TRUE)
  IN  /\ AllParse(document, ReplayFields)
      /\ candidate.ground_truth.signal_present =>
           Null \notin {candidate.ground_truth.timing_offset, candidate.ground_truth.cfo_hz}
      /\ candidate.sample_rate_hz > 0
      /\ candidate.samples_per_symbol # 0

\* Variant: the fields are parsed straight into the metadata of the caller.
FailedLoadInPlace(document) ==
  IF document = Missing THEN DefaultMetadata ELSE ReplayCandidate(document, FALSE)

\* What a load that fails leaves in the caller's metadata.
FailedLoad(document) == DefaultMetadata

\* The file may be gone, or fail to be read, although it was there.
LoadReplayMetadata ==
  /\ program = "replay_demo" /\ stage = "metadata"
  /\ \/ /\ metadata_path = Default
        /\ stage' = "configured" /\ UNCHANGED <<metadata, metadata_path>>
     \/ /\ metadata_path # Default
        /\ \E document \in {Missing, disk[metadata_path]} :
             IF document # Missing /\ ReplayContract(document)
               THEN /\ metadata' = ReplayCandidate(document, TRUE)
                    /\ stage' = "configured" /\ UNCHANGED metadata_path
               ELSE /\ metadata' = FailedLoad(document)
                    /\ IF arguments.metadata_explicit
                         THEN Exit("refused") /\ UNCHANGED metadata_path
                         ELSE stage' = "configured" /\ metadata_path' = Default
  /\ UNCHANGED <<program, disk, recording, arguments, timing_offsets, plan, result>>

\* ReplayConfig as run_demo_replay receives it.
ReplayConfiguration ==
  [sample_rate_hz |-> metadata.sample_rate_hz,
   samples_per_symbol |-> metadata.samples_per_symbol,
   ground_truth |-> metadata.ground_truth,
   preamble |-> IF arguments.preamble # Default THEN arguments.preamble ELSE metadata.preamble]

\* The replay runs and its outcome is the exit code; it needs its two files.
RunReplay ==
  /\ program = "replay_demo" /\ stage = "configured"
  /\ \E ok \in BOOLEAN :
       /\ ok => /\ recording # Missing
                /\ ReplayConfiguration.preamble = "fixture" => disk.preamble # Missing
       /\ Exit(IF ok THEN "success" ELSE "failure")
  /\ UNCHANGED <<program, disk, recording, arguments, metadata, metadata_path, timing_offsets,
                 plan, result>>

-----------------------------------------------------------------------------

Sizes(document) ==
  [field \in SizeFields \ {"samples_per_symbol"} |-> ParseMetadataSize(document[field])]

InvalidRange(m) ==
  \/ 0 \in {m.sample_count, m.preamble_length, m.timing_search_step}
  \/ m.timing_search_start > m.timing_search_stop_inclusive
  \/ m.preamble_length > m.sample_count
  \/ m.timing_search_stop_inclusive > m.sample_count - m.preamble_length

\* acquisition_demo's loader, which fills the metadata in place and ends the program on failure.
LoadAcquisitionMetadata ==
  /\ program = "acquisition_demo" /\ stage = "metadata"
  /\ LET document == disk[metadata_path]
     IN  \/ Exit("failure") /\ UNCHANGED metadata
         \/ /\ document # Missing
            /\ IF ~AllParse(document, AcquisitionFields) THEN Exit("failure") /\ UNCHANGED metadata
               ELSE IF document.sample_rate_hz <= 0 \/ InvalidRange(Sizes(document))
                 THEN Exit("failure") /\ UNCHANGED metadata
               ELSE /\ metadata' = [sizes |-> Sizes(document),
                                    cfo_hypotheses_hz |-> document.cfo_hypotheses_hz,
                                    true_cfo_hz |-> document.true_cfo_hz]
                    /\ stage' = "files"
  /\ UNCHANGED <<program, disk, recording, arguments, metadata_path, timing_offsets, plan, result>>

\* The recording and the preamble must be as long as the metadata says.
LoadFiles ==
  /\ stage = "files"
  /\ IF recording = Missing \/ disk.preamble = Missing THEN Exit("failure")
     ELSE IF \/ Recording[recording].length # metadata.sizes.sample_count
             \/ disk.preamble.length # metadata.sizes.preamble_length
       THEN Exit("failure")
     ELSE stage' = "grid"
  /\ UNCHANGED <<program, disk, recording, arguments, metadata, metadata_path, timing_offsets,
                 plan, result>>

\* The first timing of the grid, unless the step does not divide the range.
BeginGrid ==
  LET m == metadata.sizes
  IN  /\ stage = "grid" /\ timing_offsets = << >>
      /\ IF (m.timing_search_stop_inclusive - m.timing_search_start) % m.timing_search_step # 0
           THEN Exit("failure") /\ UNCHANGED timing_offsets
           ELSE timing_offsets' = <<m.timing_search_start>> /\ UNCHANGED stage
      /\ UNCHANGED <<program, disk, recording, arguments, metadata, metadata_path, plan, result>>

\* Variant: the loop ends when the next timing, which may wrap around, is past the stop.
GridDoneAfterAdding(timing) ==
  SizeAdd(timing, metadata.sizes.timing_search_step) > metadata.sizes.timing_search_stop_inclusive

GridDone(timing) ==
  SizeSubtract(metadata.sizes.timing_search_stop_inclusive, timing)
    < metadata.sizes.timing_search_step

LastTiming == timing_offsets[Len(timing_offsets)]

ExtendGrid ==
  /\ stage = "grid" /\ timing_offsets # << >> /\ ~GridDone(LastTiming)
  /\ timing_offsets' =
       Append(timing_offsets, SizeAdd(LastTiming, metadata.sizes.timing_search_step))
  /\ UNCHANGED <<program, disk, recording, arguments, stage, metadata, metadata_path, plan, result>>

\* prepare_acquisition_plan, whose failure ends the program, and run_acquisition.
SearchRecording ==
  LET config == [sample_rate_valid |-> TRUE,
                 preamble |-> disk.preamble,
                 timing_offsets |-> timing_offsets,
                 frequency_offsets_hz |-> metadata.cfo_hypotheses_hz]
  IN  /\ stage = "grid" /\ timing_offsets # << >> /\ GridDone(LastTiming)
      /\ plan' = PreparedPlan(config)
      /\ IF PlanError(config) # NoError
           THEN Exit("failure") /\ UNCHANGED result
           ELSE /\ result' = SearchResult(plan', recording, arguments.implementation)
                /\ stage' = "searched"
      /\ UNCHANGED <<program, disk, recording, arguments, metadata, metadata_path, timing_offsets>>

\* Variant: the default candidate of a search that failed may match the truth.
AcquisitionSuccessOfAny(r) ==
  /\ r.best.timing_offset = metadata.sizes.true_timing_offset
  /\ r.best.frequency_offset_hz = metadata.true_cfo_hz

AcquisitionSuccess(r) ==
  /\ r.ok
  /\ r.best.timing_offset = metadata.sizes.true_timing_offset
  /\ r.best.frequency_offset_hz = metadata.true_cfo_hz

Report ==
  /\ stage = "searched"
  /\ Exit(IF AcquisitionSuccess(result) THEN "success" ELSE "failure")
  /\ UNCHANGED <<program, disk, recording, arguments, metadata, metadata_path, timing_offsets,
                 plan, result>>

Next ==
  \/ ReadArgument \/ ChooseMetadata
  \/ LoadReplayMetadata \/ RunReplay
  \/ LoadAcquisitionMetadata \/ LoadFiles
  \/ BeginGrid \/ ExtendGrid \/ SearchRecording \/ Report

Spec == Init /\ [][Next]_vars

-----------------------------------------------------------------------------

\* A replay is configured from one source: a document that keeps the v2 contract, in
\* full, or the defaults, without ground truth.  A document named on the command line
\* is the source or there is no replay, and the reported metadata path tells which
\* source it was (load_fixture_metadata and the fallback of main).
ReplayHasOneSource ==
  program = "replay_demo" /\ stage \in {"configured", "success", "failure"} =>
    IF metadata_path = Default
      THEN /\ metadata = DefaultMetadata
           /\ arguments.metadata = Default
           /\ ReplayConfiguration.preamble = arguments.preamble
      ELSE /\ ReplayContract(disk[metadata_path])
           /\ metadata = ReplayCandidate(disk[metadata_path], TRUE)
           /\ arguments.metadata # Default => metadata_path = arguments.metadata

\* The samples per symbol that a replay takes from a document equal the number that the
\* document writes, in whatever form, and no document is refused whose number is a size
\* above zero and whose other fields keep the contract (parse_metadata_size).
LoadedSizesAreExact ==
  program = "replay_demo" =>
    \A path \in {"sidecar", "other"} :
      disk[path] # Missing /\ disk[path].samples_per_symbol \notin {Null, Missing} =>
        LET token == disk[path].samples_per_symbol
        IN  /\ stage = "configured" /\ metadata_path = path =>
                 ExactSizes(token) = {metadata.samples_per_symbol}
            /\ stage = "metadata" /\ IsJsonNumber(token) /\ ExactSizes(token) # {} =>
                 SizeParses(token)

\* The grid that is searched runs from the start to the stop of the metadata in equal
\* steps, in order, both ends included, and each of its windows is inside the recording:
\* a size_t that wraps around neither adds a timing nor loses one, and the search has no
\* timing to refuse (load_fixture_metadata, build_timing_hypotheses).
SearchedGridIsWhole ==
  /\ \A i, j \in DOMAIN timing_offsets : i < j => timing_offsets[i] < timing_offsets[j]
  /\ stage = "searched" =>
       LET m == metadata.sizes
           offsets == {timing_offsets[i] : i \in DOMAIN timing_offsets}
       IN  /\ offsets = {t \in m.timing_search_start .. m.timing_search_stop_inclusive :
                            (t - m.timing_search_start) % m.timing_search_step = 0}
           /\ m.timing_search_stop_inclusive \in offsets
           /\ \A t \in offsets : t + plan.preamble_length <= Recording[recording].length

\* acquisition_demo exits with success only when the true timing and frequency were
\* searched and no other hypothesis has a higher score.
SuccessMeansTruthIsThePeak ==
  program = "acquisition_demo" /\ stage = "success" =>
    \E h \in Hypotheses(plan) :
      LET candidate == CandidateOf(plan, recording, h)
      IN  /\ candidate.timing_offset = metadata.sizes.true_timing_offset
          /\ candidate.frequency_offset_hz = metadata.true_cfo_hz
          /\ IsPeak(plan, recording, h, Hypotheses(plan))

=============================================================================
