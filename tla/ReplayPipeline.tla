--------------------------- MODULE ReplayPipeline ---------------------------
(***************************************************************************)
(* One replay of a recorded capture (run_demo_replay): read two IQ files,  *)
(* condition the capture, acquire and align the frame, demodulate, find    *)
(* the frame, decode, check the CRC and score the trust in the outcome.    *)
(* A stage that fails ends the replay with the evidence gathered so far.   *)
(*                                                                         *)
(* The signal is abstract: a capture is what the front end leaves of it    *)
(* (Recording), and what its frame demodulates to is chosen from           *)
(* DemodOutcomes.                                                          *)
(***************************************************************************)
EXTENDS ReplayAcquisition, Sequences

CONSTANTS
  ReplayConfigs,   \* the configurations replayed
  DemodOutcomes,   \* what demodulation of an aligned frame may give
  SyncBits,        \* length of the sync word, 16
  CodedBits        \* coded bits of a frame, 244

ASSUME ReplayConfigsAssumption == ReplayConfigs \subseteq ReplayAcquisitionConfig
ASSUME FrameAssumption == SyncBits \in Nat \ {0} /\ CodedBits \in Nat \ {0}

\* matches: sync bits that agree; strength, weak: of the coded bits; clipped: of
\* all symbols.
DemodOutcome == [matches : 0 .. SyncBits, strength : Fraction, weak : Fraction,
                 clipped : Fraction]
ASSUME DemodAssumption == DemodOutcomes \subseteq DemodOutcome

VARIABLES
  config,       \* the ReplayConfig
  capture,      \* the conditioned capture
  stage,        \* the next step of the replay
  error,        \* error_message
  plan,         \* the acquisition plan
  search_result,  \* the AcquisitionResult
  diagnostics,  \* acquisition diagnostics
  frame_start,  \* first sample of the aligned frame
  demod,        \* demodulated symbols and their quality
  frame,        \* the frame descriptor
  payload,      \* "none", or whether the decoded bytes pass the CRC
  trust         \* score and band of the result

inputs == <<config, capture>>
acquisition == <<plan, search_result, diagnostics, frame_start>>
decoding == <<demod, frame, payload>>

vars == <<inputs, stage, error, acquisition, decoding, trust>>

-----------------------------------------------------------------------------

NoDemod == [symbol_count |-> 0, matches |-> 0, strength |-> 0, weak |-> Unit,
            clipped |-> 0]

NoFrame == [sync_start |-> 0, length |-> 0, correlation_score |-> 0,
            has_second_best |-> FALSE, second_best_score |-> 0]

\* A default-constructed score and TrustAssessment.
NoTrust == [score |-> 0, band |-> "low-confidence"]

Init ==
  /\ config \in ReplayConfigs
  /\ capture \in Captures
  /\ stage = "load"
  /\ error = NoError
  /\ plan = EmptyPlan
  /\ search_result = NoResult
  /\ diagnostics = NoDiagnostics
  /\ frame_start = 0
  /\ demod = NoDemod
  /\ frame = NoFrame
  /\ payload = "none"
  /\ trust = NoTrust

FrameSymbols == SyncBits + CodedBits

\* Variant: one symbol of slack after the frame.
FrameSamplesWithSlack(c) == (FrameSymbols + 1) * c.samples_per_symbol

FrameSamples(c) == FrameSymbols * c.samples_per_symbol

\* The replay ends at a failed stage; what it knows is scored.
Fail(message) == error' = message /\ stage' = "trust"

-----------------------------------------------------------------------------

\* Either file may be missing, truncated, empty or non-finite.
LoadFiles ==
  /\ stage = "load"
  /\ \/ Fail("failed to load IQ file")
     \/ Fail("failed to load acquisition preamble")
     \/ stage' = "symbols" /\ UNCHANGED error
  /\ UNCHANGED <<inputs, acquisition, decoding, trust>>

\* The front end never fails on a loaded capture; the frame must fit in size_t.
CheckSamplesPerSymbol ==
  /\ stage = "symbols"
  /\ IF \/ config.samples_per_symbol = 0
        \/ FrameSymbols > SizeMax \div config.samples_per_symbol
       THEN Fail("invalid samples per symbol")
       ELSE stage' = "acquire" /\ UNCHANGED error
  /\ UNCHANGED <<inputs, acquisition, decoding, trust>>

(***************************************************************************)
(* acquire_and_align_replay_frame in three steps: the checks and the plan, *)
(* the search and its gate, and the bounds of the aligned frame.           *)
(***************************************************************************)
PrepareAcquisition ==
  /\ stage = "acquire"
  /\ LET search == SearchConfig(config, FrameSamples(config), capture)
         refused == AlignmentError(config, FrameSamples(config), capture)
     IN  IF refused # NoError THEN Fail(refused) /\ UNCHANGED plan
         ELSE /\ plan' = PreparedPlan(search)
              /\ IF PlanError(search) # NoError
                   THEN Fail("acquisition plan failed")
                   ELSE stage' = "search" /\ UNCHANGED error
  /\ diagnostics' = [NoDiagnostics EXCEPT !.requested_implementation = config.implementation]
  /\ UNCHANGED <<inputs, search_result, frame_start, decoding, trust>>

SearchCapture ==
  /\ stage = "search"
  /\ search_result' = SearchResult(plan, capture, config.implementation)
  /\ diagnostics' = Diagnostics(config, capture, search_result')
  /\ IF ~search_result'.ok THEN Fail("acquisition search failed")
     ELSE IF ~diagnostics'.accepted THEN Fail("acquisition rejected")
     ELSE stage' = "align" /\ UNCHANGED error
  /\ UNCHANGED <<inputs, plan, frame_start, decoding, trust>>

AlignFrame ==
  /\ stage = "align"
  /\ IF FrameIncomplete(config, search_result, FrameSamples(config), capture)
       THEN /\ diagnostics' = [diagnostics EXCEPT !.accepted = FALSE]
            /\ Fail("incomplete frame")
            /\ UNCHANGED frame_start
       ELSE /\ frame_start' = FrameStart(config, search_result)
            /\ stage' = "demodulate"
            /\ UNCHANGED <<error, diagnostics>>
  /\ UNCHANGED <<inputs, plan, search_result, decoding, trust>>

\* The aligned frame is FrameSamples(config) long, one soft decision per symbol.
Demodulate ==
  /\ stage = "demodulate"
  /\ \E outcome \in DemodOutcomes :
       demod' = [symbol_count |-> FrameSamples(config) \div config.samples_per_symbol,
                 matches      |-> outcome.matches,
                 strength     |-> outcome.strength,
                 weak         |-> outcome.weak,
                 clipped      |-> outcome.clipped]
  /\ stage' = "frame"
  /\ UNCHANGED <<inputs, error, acquisition, frame, payload, trust>>

\* Sync bits that agree count one, others minus one; at most one may disagree.
SyncScore == 2 * demod.matches - SyncBits
LastSyncOffset == demod.symbol_count - FrameSymbols

(***************************************************************************)
(* find_frames and the comparison with the acquired alignment.  Only the   *)
(* score at offset zero is known from demod.matches; a buffer with more    *)
(* offsets could have its best score, and a second one, anywhere.          *)
(***************************************************************************)
FindFrame ==
  /\ stage = "frame"
  /\ \E offset \in 0 .. LastSyncOffset :
       IF SyncScore < SyncBits - 2
         THEN Fail("frame sync failed") /\ UNCHANGED frame
         ELSE /\ frame' = [sync_start        |-> offset,
                           length            |-> CodedBits,
                           correlation_score |-> SyncScore,
                           has_second_best   |-> LastSyncOffset > 0,
                           second_best_score |-> SyncScore]
              /\ IF offset # 0
                   THEN Fail("frame sync disagreed with acquisition")
                   ELSE stage' = "decode" /\ UNCHANGED error
  /\ UNCHANGED <<inputs, acquisition, demod, payload, trust>>

\* The decoded bytes pass the CRC or not.  A decoder that fails, or returns another
\* number of bytes, ends the replay without a score; with the frame and the payload of the
\* demo it never does.
Decode ==
  /\ stage = "decode"
  /\ \/ payload' = "crc ok" /\ stage' = "trust" /\ UNCHANGED error
     \/ payload' = "crc mismatch" /\ stage' = "trust" /\ error' = "CRC mismatch"
     \/ error' = "decoder failed" /\ stage' = "done" /\ UNCHANGED payload
  /\ UNCHANGED <<inputs, acquisition, demod, frame, trust>>

(***************************************************************************)
(* The features are computed from the prepared frame: a replay that failed *)
(* before decoding has no framed soft decisions and no evaluated CRC, but  *)
(* keeps the demodulation and acquisition evidence that it has.            *)
(***************************************************************************)
ScoreTrust ==
  /\ stage = "trust"
  /\ LET decoded == payload # "none"
         soft == [present |-> decoded, strength |-> demod.strength, weak |-> demod.weak]
         features == TrustFeatures(soft, frame, SyncBits, demod.clipped, diagnostics,
                                   decoded, payload = "crc ok")
         score == TrustScoreOf(features)
     IN  trust' = [score |-> score, band |-> Band(features, score)]
  /\ stage' = "done"
  /\ UNCHANGED <<inputs, error, acquisition, decoding>>

-----------------------------------------------------------------------------

Next ==
  \/ LoadFiles
  \/ CheckSamplesPerSymbol
  \/ PrepareAcquisition
  \/ SearchCapture
  \/ AlignFrame
  \/ Demodulate
  \/ FindFrame
  \/ Decode
  \/ ScoreTrust

Spec == Init /\ [][Next]_vars

\* ReplayResult.ok.
Ok == stage = "done" /\ payload = "crc ok"

-----------------------------------------------------------------------------

(***************************************************************************)
(* An accepted acquisition leaves the preamble and a whole frame inside    *)
(* the capture, in true arithmetic: also for sizes at which the sum of     *)
(* preamble and frame length wraps around and the first length check is    *)
(* passed by a capture that is too short.                                  *)
(***************************************************************************)
AcceptedFrameInsideCapture ==
  diagnostics.accepted =>
    /\ FrameSamples(config) > 0
    /\ diagnostics.best.timing_offset + config.preamble.length + FrameSamples(config)
         <= Recording[capture].length

(***************************************************************************)
(* An accepted peak is a number above zero that stands out from every      *)
(* other hypothesis of the grid by the configured separation, whichever of *)
(* them scored NaN and in whichever order they came.  A threshold of zero  *)
(* would also admit a peak that is NaN.                                    *)
(***************************************************************************)
AcceptedPeakStandsOut ==
  diagnostics.accepted /\ config.minimum_normalized_peak > 0 =>
    LET best == diagnostics.best
        windows == 0 .. Recording[capture].length - config.preamble.length - FrameSamples(config)
        required == config.minimum_peak_separation
    IN  /\ Greater(best.score, 0)
        /\ \A f \in DOMAIN config.cfo_hypotheses_hz, t \in windows :
             LET frequency == config.cfo_hypotheses_hz[f]
                 score == Recording[capture].score[<<frequency, t>>]
             IN  \/ frequency = best.frequency_offset_hz /\ t = best.timing_offset
                 \/ score = NaN
                 \/ Unit * (best.score - score) >= required * best.score

(***************************************************************************)
(* Once the IQ alignment is accepted the frame search cannot disagree with *)
(* it, so a frame that fails sync is reported as that.                     *)
(***************************************************************************)
FrameSyncAgrees == frame.sync_start = 0 /\ demod.symbol_count \in {0, FrameSymbols}

(***************************************************************************)
(* High confidence is only reported for a payload that passed its CRC in a *)
(* frame of an accepted acquisition, with strong soft decisions.           *)
(***************************************************************************)
HighConfidenceIsDecoded ==
  trust.band = "high-confidence" =>
    /\ Ok
    /\ diagnostics.accepted
    /\ frame.length = CodedBits
    /\ ~Above(demod.weak, 8)

(***************************************************************************)
(* A replay without a verified payload is low confidence, with one         *)
(* exception: a frame that fails sync behind a flawless acquisition, whose *)
(* peak and separation are both one in float32, scores exactly the 0.45    *)
(* that the low band excludes.                                             *)
(***************************************************************************)
UnverifiedIsLowConfidence ==
  stage = "done" /\ ~Ok =>
    \/ trust.band = "low-confidence"
    \/ /\ error = "frame sync failed"
       /\ diagnostics.confidence = Unit
       /\ trust.band = "guarded"

(***************************************************************************)
(* The band says no more than was verified, and no less than the evidence  *)
(* against it demands.                                                     *)
(***************************************************************************)
BandIsJustified == HighConfidenceIsDecoded /\ UnverifiedIsLowConfidence

(***************************************************************************)
(* The score never credits evidence of a stage that was not passed: a      *)
(* rejected acquisition keeps at most 0.15, a failed CRC at most 0.35, and *)
(* a replay that stopped before acquisition no more than the 0.05 of a     *)
(* demodulation that clipped nothing.                                      *)
(***************************************************************************)
ScoreWithinEvidence ==
  stage = "done" =>
    /\ ~diagnostics.accepted => trust.score <= 3 * Unit
    /\ payload = "crc mismatch" => trust.score <= 7 * Unit
    /\ diagnostics = NoDiagnostics => trust.score <= Unit

=============================================================================
