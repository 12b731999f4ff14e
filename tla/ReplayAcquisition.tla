-------------------------- MODULE ReplayAcquisition --------------------------
(***************************************************************************)
(* The acquisition stage of a replay (replay_acquisition.cpp): it builds   *)
(* the timing grid, prepares a plan, searches the whole capture, measures  *)
(* how clear the peak is and accepts or rejects it.  ReplayPipeline takes  *)
(* these steps in order.  The search is the two best of all hypotheses,    *)
(* which is what AcquisitionSearch computes step by step.                  *)
(***************************************************************************)
EXTENDS AcquisitionCandidates, TrustScore

CONSTANTS
  Implementations,  \* the search implementations that this build and host run
  Energy            \* per capture and window: preamble energy times window energy

ASSUME EnergyAssumption == Energy \in [Captures -> [Size -> 0 .. Infinity]]

SizeSubtract(a, b) == (a - b) % (SizeMax + 1)

ReplayAcquisitionConfig ==
  [sample_rate_valid       : BOOLEAN,
   implementation          : {"reference", "neon", "sme2"},
   cfo_hypotheses_hz       : Seq(Frequencies \cup {NaN}),
   minimum_normalized_peak : Int \cup {NaN},   \* thresholds, in steps of 1 / Unit
   minimum_peak_separation : Int \cup {NaN},
   preamble                : [length : Size, finite : BOOLEAN, energy : BOOLEAN],
   samples_per_symbol      : Size]

\* Default-constructed diagnostics: what a replay reports that stops before this stage.
NoDiagnostics == [requested_implementation |-> "reference",
                  selected_implementation  |-> "unavailable",
                  search_completed         |-> FALSE,
                  accepted                 |-> FALSE,
                  best                     |-> NoCandidate,
                  normalized_peak          |-> 0,
                  peak_separation          |-> 0,
                  confidence               |-> 0]

-----------------------------------------------------------------------------

(***************************************************************************)
(* The grid of all timings that leave room for the preamble and the frame: *)
(* 0 .. maximum_timing_offset.  The sum of the two lengths wraps around.   *)
(***************************************************************************)
WindowTooShort(preamble_length, frame_sample_count, c) ==
  Recording[c].length < SizeAdd(preamble_length, frame_sample_count)

TimingGrid(preamble_length, frame_sample_count, c) ==
  LET maximum_timing_offset ==
        SizeSubtract(SizeSubtract(Recording[c].length, preamble_length), frame_sample_count)
  IN  [i \in 1 .. maximum_timing_offset + 1 |-> i - 1]

SearchConfig(config, frame_sample_count, c) ==
  [sample_rate_valid    |-> config.sample_rate_valid,
   preamble             |-> config.preamble,
   timing_offsets       |-> TimingGrid(config.preamble.length, frame_sample_count, c),
   frequency_offsets_hz |-> config.cfo_hypotheses_hz]

-----------------------------------------------------------------------------

\* Variant: the search is entered without its checks.
SearchResultUnchecked(plan, c, implementation) ==
  IF implementation \notin Implementations \/ Hypotheses(plan) = {}
    THEN [NoResult EXCEPT !.error = "implementation unavailable"]
    ELSE TopTwoResult(plan, c)

\* run_acquisition: an implementation that this build or host lacks reports that.
SearchResult(plan, c, implementation) ==
  IF implementation \notin Implementations
    THEN [NoResult EXCEPT !.error = "implementation unavailable"]
  ELSE IF RunError(plan, c) # NoError
    THEN [NoResult EXCEPT !.error = RunError(plan, c)]
  ELSE TopTwoResult(plan, c)

-----------------------------------------------------------------------------

\* Correlation score over preamble and window energy; 0 when that cannot be formed.
NormalizedPeak(c, candidate) ==
  IF ~candidate.valid \/ candidate.score = NaN THEN 0
  ELSE IF Energy[c][candidate.timing_offset] = 0 THEN 0
  ELSE FractionOf(candidate.score, Energy[c][candidate.timing_offset])

\* Variant: a separation that is not a number counts as a clear peak.
SeparationTrustingNaN(r) ==
  IF r.normalized_peak_separation = NaN THEN Unit
  ELSE FractionOf(r.normalized_peak_separation[1], r.normalized_peak_separation[2])

\* The clamped peak separation: std::max and std::min turn NaN into 0.
ClampedSeparation(r) ==
  IF r.normalized_peak_separation = NaN THEN 0
  ELSE FractionOf(r.normalized_peak_separation[1], r.normalized_peak_separation[2])

\* sqrt(peak) * separation, rounded down to a step.
Confidence(peak, separation) ==
  CHOOSE k \in Fraction :
    /\ k * k * Unit <= peak * separation * separation
    /\ (k + 1) * (k + 1) * Unit > peak * separation * separation

\* a fraction rounded down to a step reaches a threshold in steps exactly when it did before
ReachesThresholds(config, peak, separation) ==
  /\ NaN \notin {config.minimum_normalized_peak, config.minimum_peak_separation}
  /\ peak >= config.minimum_normalized_peak
  /\ separation >= config.minimum_peak_separation

Diagnostics(config, c, r) ==
  LET peak == NormalizedPeak(c, r.best)
      separation == ClampedSeparation(r)
  IN  [requested_implementation |-> config.implementation,
       selected_implementation  |->
         IF config.implementation \in Implementations
           THEN config.implementation ELSE "unavailable",
       search_completed         |-> r.ok,
       accepted                 |-> r.ok /\ ReachesThresholds(config, peak, separation),
       best                     |-> r.best,
       normalized_peak          |-> IF r.ok THEN peak ELSE 0,
       peak_separation          |-> separation,
       confidence               |-> IF r.ok THEN Confidence(peak, separation) ELSE 0]

-----------------------------------------------------------------------------

\* A threshold that is not a number passes this check, and no peak reaches it.
ThresholdsInvalid(config) ==
  \E t \in {config.minimum_normalized_peak, config.minimum_peak_separation} :
    t # NaN /\ (t < 0 \/ t > Unit)

\* The error of acquire_and_align_replay_frame before it builds the grid, or NoError.
AlignmentError(config, frame_sample_count, c) ==
  IF ~config.sample_rate_valid THEN "sample rate"
  ELSE IF config.preamble.length = 0 THEN "preamble empty"
  ELSE IF frame_sample_count = 0 THEN "frame length zero"
  ELSE IF config.cfo_hypotheses_hz = << >> THEN "no CFO hypothesis"
  ELSE IF ThresholdsInvalid(config) THEN "thresholds"
  ELSE IF WindowTooShort(config.preamble.length, frame_sample_count, c)
    THEN "IQ window too short"
  ELSE NoError

\* The first sample of the frame, and whether the frame would pass the capture's end.
FrameStart(config, r) == SizeAdd(r.best.timing_offset, config.preamble.length)

FrameIncomplete(config, r, frame_sample_count, c) ==
  FrameStart(config, r) > SizeSubtract(Recording[c].length, frame_sample_count)

=============================================================================
