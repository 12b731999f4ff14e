----------------------------- MODULE TrustScore -----------------------------
(***************************************************************************)
(* Trust features, score and band (trust_features.cpp, trust_score.cpp).   *)
(*                                                                         *)
(* A fraction is a number of steps of 1 / Unit.  The weights of the score  *)
(* are multiples of 0.05, so a score is a number of steps of               *)
(* 1 / (20 * Unit), without the rounding of float32.                       *)
(***************************************************************************)
EXTENDS Integers

CONSTANT Unit   \* steps in one

ASSUME UnitAssumption == Unit \in Nat \ {0}

Fraction == 0 .. Unit

\* clamp to [0, 1]
ClampUnit(value) ==
  IF value < 0 THEN 0 ELSE IF value > Unit THEN Unit ELSE value

\* numerator / denominator, rounded down to a step and clamped.
FractionOf(numerator, denominator) ==
  IF numerator <= 0 THEN 0
  ELSE IF numerator >= denominator THEN Unit
  ELSE (numerator * Unit) \div denominator

\* value > percent / 100
Above(value, percent) == 100 * value > percent * Unit

\* score < percent / 100, and the cap of a score at percent / 100
ScoreBelow(score, percent) == 5 * score < percent * Unit
ScoreCap(score, percent) == IF 5 * score > percent * Unit THEN (percent * Unit) \div 5 ELSE score

-----------------------------------------------------------------------------

(***************************************************************************)
(* compute_trust_features.  soft is the framed soft decisions, as present, *)
(* mean strength and weak fraction; frame.length is zero without a frame.  *)
(***************************************************************************)
TrustFeatures(soft, frame, max_sync_score, clipped, acquisition, crc_evaluated, crc_ok) ==
  [soft_strength     |-> IF soft.present THEN soft.strength ELSE 0,
   weak_fraction     |-> IF soft.present THEN soft.weak ELSE Unit,
   frame_sync_score  |->
     IF max_sync_score > 0 /\ frame.length > 0
       THEN FractionOf(frame.correlation_score, max_sync_score) ELSE 0,
   frame_sync_margin |->
     IF max_sync_score > 0 /\ frame.length > 0
       THEN IF frame.has_second_best
              THEN FractionOf(frame.correlation_score - frame.second_best_score,
                              max_sync_score)
              ELSE Unit
       ELSE 0,
   acquisition_peak  |-> IF acquisition.search_completed
                           THEN acquisition.normalized_peak ELSE 0,
   peak_separation   |-> IF acquisition.search_completed
                           THEN acquisition.peak_separation ELSE 0,
   timing_ambiguity  |-> IF acquisition.search_completed
                           THEN Unit - acquisition.peak_separation ELSE Unit,
   uncertainty       |-> IF acquisition.search_completed
                           THEN Unit - acquisition.confidence ELSE Unit,
   accepted          |-> acquisition.accepted,
   clipped_fraction  |-> clipped,
   crc_evaluated     |-> crc_evaluated,
   crc_pass          |-> crc_evaluated /\ crc_ok]

WeightedSum(f) ==
    3 * ClampUnit(f.soft_strength)
  + 3 * ClampUnit(Unit - f.weak_fraction)
  + 3 * ClampUnit(f.acquisition_peak)
  + 3 * ClampUnit(f.peak_separation)
  + 2 * ClampUnit(Unit - f.uncertainty)
  + ClampUnit(f.frame_sync_score)
  + ClampUnit(f.frame_sync_margin)
  + ClampUnit(Unit - 4 * f.clipped_fraction)
  + IF f.crc_pass THEN 3 * Unit ELSE 0

\* Variant: the cap of a rejected acquisition also hides that of a failed CRC.
TrustScoreCappedOnce(f) ==
  IF ~f.accepted THEN ScoreCap(WeightedSum(f), 15) ELSE WeightedSum(f)

\* The score of compute_trust_score_breakdown.  It is between 0 and 1 without the
\* final clamp, as every quality is and the weights add up to one.
TrustScoreOf(f) ==
  LET gated == IF ~f.accepted THEN ScoreCap(WeightedSum(f), 15) ELSE WeightedSum(f)
  IN  IF f.crc_evaluated /\ ~f.crc_pass THEN ScoreCap(gated, 35) ELSE gated

-----------------------------------------------------------------------------

Assessment(f) ==
  [weak_soft_decisions   |-> Above(f.weak_fraction, 8),
   ambiguous_acquisition |-> Above(f.timing_ambiguity, 70) \/ Above(f.uncertainty, 65),
   acquisition_rejected  |-> ~f.accepted,
   ambiguous_frame_sync  |-> 100 * f.frame_sync_margin < 20 * Unit,
   demod_clipping        |-> Above(f.clipped_fraction, 5),
   crc_not_evaluated     |-> ~f.crc_evaluated,
   crc_failed            |-> f.crc_evaluated /\ ~f.crc_pass]

\* Variant: the flags of the assessment play no part.
BandOfScore(f, score) ==
  IF ~f.accepted \/ ScoreBelow(score, 45) THEN "low-confidence"
  ELSE IF ScoreBelow(score, 95) THEN "guarded"
  ELSE "high-confidence"

\* The band of assess_trust.
Band(f, score) ==
  LET a == Assessment(f)
  IN  IF a.acquisition_rejected \/ a.crc_failed \/ ScoreBelow(score, 45)
        THEN "low-confidence"
      ELSE IF \/ a.weak_soft_decisions \/ a.ambiguous_acquisition
              \/ a.ambiguous_frame_sync \/ a.demod_clipping
              \/ ScoreBelow(score, 95)
        THEN "guarded"
      ELSE "high-confidence"

=============================================================================
