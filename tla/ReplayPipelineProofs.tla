------------------------ MODULE ReplayPipelineProofs ------------------------
(***************************************************************************)
(* Proofs about the replay pipeline: the search that it takes in one step  *)
(* is well defined and finds the two best hypotheses, an accepted peak     *)
(* leaves a whole frame in the capture and stands out from all others, and *)
(* score and band of the result never exceed the evidence.  The frame      *)
(* search finds the first best offset of any buffer, and on a buffer of    *)
(* one frame does what the pipeline takes it to do.                        *)
(***************************************************************************)
EXTENDS ReplayPipeline, FrameSearch, AcquisitionPlanProofs, FiniteSetTheorems, TLAPS

-----------------------------------------------------------------------------
(* Fractions and the gate.                                                  *)

(***************************************************************************)
(* A quotient that is rounded down.                                        *)
(***************************************************************************)
LEMMA Quotient ==
  ASSUME NEW n \in Nat, NEW d \in Nat \ {0}
  PROVE  /\ n \div d \in Nat
         /\ (n \div d) * d <= n
         /\ n < (n \div d + 1) * d
  OBVIOUS

(***************************************************************************)
(* A smaller factor gives a smaller product.                               *)
(***************************************************************************)
LEMMA ProductMonotone ==
  ASSUME NEW a \in Int, NEW b \in Int, NEW k \in Nat, a <= b
  PROVE  a * k <= b * k
<1>1. b - a \in Nat
  OBVIOUS
<1>2. (b - a) * k \in Nat
  BY <1>1
<1>3. (b - a) * k = b * k - a * k
  OBVIOUS
<1> QED
  BY <1>2, <1>3

(***************************************************************************)
(* FractionOf is a fraction; it reaches a threshold only when the exact    *)
(* quotient does, and is above zero only for a numerator above zero.       *)
(***************************************************************************)
LEMMA FractionOfIsFraction ==
  ASSUME NEW numerator \in Int, NEW denominator \in Nat
  PROVE  /\ FractionOf(numerator, denominator) \in Fraction
         /\ numerator <= 0 => FractionOf(numerator, denominator) = 0
         /\ \A required \in Int :
              /\ 0 <= numerator /\ numerator <= denominator
              /\ FractionOf(numerator, denominator) >= required
              => Unit * numerator >= required * denominator
<1> USE UnitAssumption
<1> DEFINE q == (numerator * Unit) \div denominator
<1>1. CASE numerator <= 0
  <2>1. FractionOf(numerator, denominator) = 0
    BY <1>1 DEF FractionOf
  <2>2. ASSUME NEW required \in Int, 0 <= numerator, 0 >= required
        PROVE  Unit * numerator >= required * denominator
    <3>1. required * denominator <= 0 * denominator
      BY <2>2, ProductMonotone
    <3>2. numerator = 0
      BY <1>1, <2>2
    <3> QED
      BY <3>1, <3>2
  <2> QED
    BY <1>1, <2>1, <2>2 DEF Fraction
<1>2. CASE numerator > 0 /\ numerator >= denominator
  <2>1. FractionOf(numerator, denominator) = Unit
    BY <1>2 DEF FractionOf
  <2>2. ASSUME NEW required \in Int, numerator <= denominator, Unit >= required
        PROVE  Unit * numerator >= required * denominator
    <3>1. required * denominator <= Unit * denominator
      BY <2>2, ProductMonotone
    <3>2. numerator = denominator
      BY <1>2, <2>2
    <3> QED
      BY <3>1, <3>2
  <2> QED
    BY <1>2, <2>1, <2>2 DEF Fraction
<1>3. CASE numerator > 0 /\ numerator < denominator
  <2>1. FractionOf(numerator, denominator) = q
    BY <1>3 DEF FractionOf
  <2>2. numerator * Unit \in Nat /\ denominator \in Nat \ {0}
    BY <1>3
  <2>3. q \in Nat /\ q * denominator <= numerator * Unit
    BY <2>2, Quotient
  <2> HIDE DEF q
  <2>4. q <= Unit
    <3>1. SUFFICES ASSUME q >= Unit + 1 PROVE FALSE
      BY <2>3
    <3>2. (Unit + 1) * denominator <= q * denominator
      BY <2>3, <3>1, ProductMonotone
    <3>3. numerator * Unit <= denominator * Unit
      BY <1>3, ProductMonotone
    <3>4. (Unit + 1) * denominator = denominator * Unit + denominator
      OBVIOUS
    <3>5. q * denominator \in Int /\ numerator * Unit \in Int /\ denominator * Unit \in Int
      BY <2>3
    <3> QED
      BY <2>2, <2>3, <3>2, <3>3, <3>4, <3>5
  <2>5. ASSUME NEW required \in Int, q >= required
        PROVE  Unit * numerator >= required * denominator
    <3>1. required * denominator <= q * denominator
      BY <2>3, <2>5, ProductMonotone
    <3> QED
      BY <2>3, <3>1
  <2> QED
    BY <1>3, <2>1, <2>3, <2>4, <2>5 DEF Fraction
<1> QED
  BY <1>1, <1>2, <1>3

(***************************************************************************)
(* The square root in the confidence exists.                               *)
(***************************************************************************)
LEMMA ConfidenceIsFraction ==
  ASSUME NEW peak \in Fraction, NEW separation \in Fraction
  PROVE  Confidence(peak, separation) \in Fraction
<1> USE UnitAssumption DEF Fraction
<1> DEFINE x == peak * separation * separation
           Over == {k \in Fraction : (k + 1) * (k + 1) * Unit > x}
<1>1. x \in Nat /\ x <= Unit * Unit * Unit
  <2>1. peak * separation \in Nat /\ Unit * separation \in Nat /\ Unit * Unit \in Nat
    OBVIOUS
  <2>2. peak * separation <= Unit * separation /\ separation * Unit <= Unit * Unit
    BY ProductMonotone
  <2>3. peak * separation <= Unit * Unit
    BY <2>1, <2>2
  <2>4. (peak * separation) * separation <= (Unit * Unit) * separation
    BY <2>1, <2>3, ProductMonotone
  <2>5. separation * (Unit * Unit) <= Unit * (Unit * Unit)
    BY <2>1, ProductMonotone
  <2>6. (Unit * Unit) * separation = separation * (Unit * Unit)
    OBVIOUS
  <2>7. x \in Nat
    BY <2>1
  <2>8. (Unit * Unit) * separation \in Nat /\ Unit * (Unit * Unit) \in Nat
    BY <2>1
  <2> QED
    BY <2>4, <2>5, <2>6, <2>7, <2>8
<1> HIDE DEF x
<1>2. Unit \in Over
  <2>1. (Unit + 1) * (Unit + 1) * Unit = Unit * Unit * Unit + 2 * Unit * Unit + Unit
    OBVIOUS
  <2>2. 2 * Unit * Unit \in Nat /\ Unit * Unit * Unit \in Nat
    OBVIOUS
  <2> QED
    BY <1>1, <2>1, <2>2
<1>3. PICK least \in Over : \A k \in Over : least <= k
  <2>1. Over \subseteq Nat /\ Over # {}
    BY <1>2
  <2> HIDE DEF Over
  <2> QED
    BY <2>1, LeastNatural
<1>4. least * least * Unit <= x
  <2>1. CASE least = 0
    BY <1>1, <2>1
  <2>2. CASE least # 0
    <3>1. least - 1 \in Fraction /\ least - 1 \notin Over
      BY <1>3, <2>2
    <3>2. ((least - 1) + 1) * ((least - 1) + 1) * Unit <= x
      BY <1>1, <3>1
    <3>3. (least - 1) + 1 = least
      BY <1>3
    <3> QED
      BY <3>2, <3>3
  <2> QED
    BY <2>1, <2>2
<1>5. \E k \in Fraction : k * k * Unit <= x /\ (k + 1) * (k + 1) * Unit > x
  BY <1>3, <1>4
<1> QED
  BY <1>5 DEF Confidence, x

(***************************************************************************)
(* The separation of a completed search is a fraction, and reaches a       *)
(* threshold only when the best score stands out from every other number   *)
(* by that much.                                                           *)
(***************************************************************************)
LEMMA SeparationOfSearch ==
  ASSUME NEW p \in Plan, NEW c \in Captures, RunError(p, c) = NoError
  PROVE  LET r == TopTwoResult(p, c)
         IN  /\ ClampedSeparation(r) \in Fraction
             /\ Greater(r.best.score, 0) =>
                  \A required \in Int : ClampedSeparation(r) >= required =>
                    \A g \in Hypotheses(p) :
                      \/ CandidateOf(p, c, g) = r.best
                      \/ HypothesisScore(p, c, g) = NaN
                      \/ Unit * (r.best.score - HypothesisScore(p, c, g))
                           >= required * r.best.score
<1> USE NaNAssumption, UnitAssumption, InfinityAssumption
<1> DEFINE r == TopTwoResult(p, c)
           H == Hypotheses(p)
           S(h) == HypothesisScore(p, c, h)
<1>1. PICK h \in H :
        /\ IsPeak(p, c, h, H)
        /\ r.best = CandidateOf(p, c, h)
        /\ \/ H = {h} /\ r.second_best = NoCandidate
           \/ \E g \in H \ {h} : /\ IsPeak(p, c, g, H \ {h})
                                 /\ r.second_best = CandidateOf(p, c, g)
        /\ r.normalized_peak_separation = PeakSeparation(r.best, r.second_best)
  BY SearchedPeaks
<1> HIDE DEF r, H
<1>2. \A g \in H : /\ S(g) \in Score /\ CandidateOf(p, c, g).valid
                   /\ CandidateOf(p, c, g).score = S(g)
  BY HypothesisIsTyped DEF H
<1>3. r.best.valid /\ r.best.score = S(h) /\ S(h) \in Score
  BY <1>1, <1>2
<1>4. \A g \in H \ {h} : ~Greater(S(g), S(h))
  BY <1>1 DEF IsPeak
<1> HIDE DEF S
<1>5. 0 \in Fraction /\ Unit \in Fraction
  BY DEF Fraction
\* A threshold of zero or less is reached by every score.
<1>6. ASSUME Greater(r.best.score, 0), NEW required \in Int, required <= 0, NEW g \in H
      PROVE  \/ CandidateOf(p, c, g) = r.best
             \/ S(g) = NaN
             \/ Unit * (r.best.score - S(g)) >= required * r.best.score
  <2>1. CASE g = h
    BY <1>1, <2>1
  <2>2. CASE g # h /\ S(g) # NaN
    <3>1. S(g) \in Nat /\ S(h) \in Nat /\ S(g) <= S(h)
      BY <1>2, <1>3, <1>4, <1>6, <2>2 DEF Score, Greater
    <3>2. required * S(h) <= 0 * S(h)
      BY <1>6, <3>1, ProductMonotone
    <3>3. 0 * Unit <= (S(h) - S(g)) * Unit
      BY <3>1, ProductMonotone
    <3>4. (S(h) - S(g)) * Unit = Unit * (S(h) - S(g))
      BY <3>1
    <3>5. /\ required * S(h) \in Int /\ Unit * (S(h) - S(g)) \in Int
          /\ 0 * S(h) = 0 /\ 0 * Unit = 0
      BY <3>1
    <3>6. Unit * (S(h) - S(g)) >= required * S(h)
      BY <3>2, <3>3, <3>4, <3>5
    <3> QED
      BY <1>3, <3>6, Zenon
  <2> QED
    BY <2>1, <2>2
<1>7. CASE H = {h} /\ r.second_best = NoCandidate
  <2>1. PeakSeparation(r.best, r.second_best) = <<1, 1>>
    BY <1>7 DEF PeakSeparation, NoCandidate
  <2>2. ClampedSeparation(r) \in Fraction
    BY <1>1, <1>5, <2>1, FractionOfIsFraction DEF ClampedSeparation
  <2>3. \A g \in H : CandidateOf(p, c, g) = r.best
    BY <1>1, <1>7
  <2> QED
    BY <2>2, <2>3 DEF r, H, S
<1>8. CASE \E s \in H \ {h} : /\ IsPeak(p, c, s, H \ {h})
                              /\ r.second_best = CandidateOf(p, c, s)
  <2>1. PICK s \in H \ {h} : /\ IsPeak(p, c, s, H \ {h})
                             /\ r.second_best = CandidateOf(p, c, s)
    BY <1>8
  <2>2. r.second_best.valid /\ r.second_best.score = S(s) /\ S(s) \in Score
    BY <1>2, <2>1
  <2>3. CASE ~Greater(r.best.score, 0)
    <3>1. r.normalized_peak_separation = <<0, 1>>
      BY <1>1, <2>2, <2>3 DEF PeakSeparation
    <3>2. ClampedSeparation(r) \in Fraction
      BY <1>5, <3>1, FractionOfIsFraction DEF ClampedSeparation
    <3> QED
      BY <2>3, <3>2 DEF r, H, S
  <2>4. CASE Greater(r.best.score, 0) /\ r.normalized_peak_separation = NaN
    <3>1. ClampedSeparation(r) = 0
      BY <2>4 DEF ClampedSeparation
    <3>2. \A required \in Int : 0 >= required => required <= 0
      OBVIOUS
    <3> QED
      BY <1>5, <1>6, <2>4, <3>1, <3>2 DEF r, H, S
  <2>5. CASE Greater(r.best.score, 0) /\ r.normalized_peak_separation # NaN
    <3>1. /\ S(s) # NaN
          /\ r.normalized_peak_separation = <<S(h) - S(s), S(h)>>
      BY <1>1, <1>3, <2>2, <2>5 DEF PeakSeparation
    <3>2. /\ S(h) \in Nat /\ S(s) \in Nat
          /\ S(s) <= S(h) /\ S(h) - S(s) \in Int
          /\ 0 <= S(h) - S(s) /\ S(h) - S(s) <= S(h)
      BY <1>3, <1>4, <2>2, <2>5, <3>1 DEF Score, Greater
    <3>3. ClampedSeparation(r) = FractionOf(S(h) - S(s), S(h))
      BY <2>5, <3>1 DEF ClampedSeparation
    <3>4. ClampedSeparation(r) \in Fraction
      BY <3>2, <3>3, FractionOfIsFraction
    <3>5. ASSUME NEW required \in Int, ClampedSeparation(r) >= required, NEW g \in H
          PROVE  \/ CandidateOf(p, c, g) = r.best
                 \/ S(g) = NaN
                 \/ Unit * (r.best.score - S(g)) >= required * r.best.score
      <4>1. CASE g = h
        BY <1>1, <4>1
      <4>2. CASE g # h /\ S(g) # NaN
        <5>1. g = s \/ ~Greater(S(g), S(s))
          BY <2>1, <4>2 DEF IsPeak, S
        <5>2. S(g) \in Nat /\ S(g) <= S(s)
          BY <1>2, <3>1, <3>2, <4>2, <5>1 DEF Score, Greater
        <5>3. Unit * (S(h) - S(s)) >= required * S(h)
          BY <3>2, <3>3, <3>5, FractionOfIsFraction
        <5>4. (S(h) - S(s)) * Unit <= (S(h) - S(g)) * Unit
          BY <3>2, <5>2, ProductMonotone
        <5>5. /\ (S(h) - S(s)) * Unit = Unit * (S(h) - S(s))
              /\ (S(h) - S(g)) * Unit = Unit * (S(h) - S(g))
              /\ Unit * (S(h) - S(s)) \in Int /\ Unit * (S(h) - S(g)) \in Int
              /\ required * S(h) \in Int
          BY <3>2, <5>2
        <5> QED
          BY <1>3, <5>3, <5>4, <5>5
      <4> QED
        BY <4>1, <4>2
    <3> QED
      BY <3>4, <3>5 DEF r, H, S
  <2> QED
    BY <2>3, <2>4, <2>5
<1> QED
  BY <1>1, <1>7, <1>8

(***************************************************************************)
(* A result is refused or completed.                                       *)
(***************************************************************************)
LEMMA SearchOutcome ==
  ASSUME NEW p \in Plan, NEW c \in Captures, NEW implementation
  PROVE  LET r == SearchResult(p, c, implementation)
         IN  \/ /\ ~r.ok /\ r.ok \in BOOLEAN /\ r.best = NoCandidate
                /\ r.normalized_peak_separation = <<0, 1>>
             \/ r.ok /\ r.ok \in BOOLEAN /\ RunError(p, c) = NoError /\ r = TopTwoResult(p, c)
<1>1. CASE implementation \in Implementations /\ RunError(p, c) = NoError
  <2>1. SearchResult(p, c, implementation) = TopTwoResult(p, c)
    BY <1>1 DEF SearchResult
  <2>2. TopTwoResult(p, c).ok
    BY <1>1, SearchedPeaks
  <2>3. TopTwoResult(p, c).ok = TRUE
    <3> DEFINE kept(h) == [NoResult EXCEPT
                 !.best = CandidateOf(p, c, h),
                 !.second_best = IF Hypotheses(p) = {h} THEN NoCandidate
                                 ELSE CandidateOf(p, c, PeakOf(p, c, Hypotheses(p) \ {h})),
                 !.evaluated_candidate_count = FrequencyCount(p) * TimingCount(p)]
               h == PeakOf(p, c, Hypotheses(p))
    <3>1. TopTwoResult(p, c) = FinishedResult(kept(h))
      BY DEF TopTwoResult
    <3>2. kept(h).ok = FALSE /\ "ok" \in DOMAIN kept(h)
      BY DEF NoResult
    <3> HIDE DEF kept, h
    <3> QED
      BY <2>2, <3>1, <3>2 DEF FinishedResult
  <2> QED
    BY <1>1, <2>1, <2>3
<1>2. CASE ~(implementation \in Implementations /\ RunError(p, c) = NoError)
  <2>1. PICK message : SearchResult(p, c, implementation) = [NoResult EXCEPT !.error = message]
    BY <1>2 DEF SearchResult
  <2> QED
    BY <2>1 DEF NoResult
<1> QED
  BY <1>1, <1>2

(***************************************************************************)
(* The measures of the diagnostics are fractions.                          *)
(***************************************************************************)
LEMMA DiagnosticsAreFractions ==
  ASSUME NEW p \in Plan, NEW c \in Captures, NEW cfg \in ReplayAcquisitionConfig
  PROVE  LET r == SearchResult(p, c, cfg.implementation)
             d == Diagnostics(cfg, c, r)
         IN  /\ NormalizedPeak(c, r.best) \in Fraction
             /\ d.normalized_peak \in Fraction
             /\ d.peak_separation \in Fraction
             /\ d.confidence \in Fraction
             /\ d.accepted \in BOOLEAN /\ d.search_completed \in BOOLEAN
             /\ d.accepted => r.ok
<1> DEFINE r == SearchResult(p, c, cfg.implementation)
           d == Diagnostics(cfg, c, r)
<1>1. 0 \in Fraction
  BY UnitAssumption DEF Fraction
<1>2. r.ok \in BOOLEAN
  BY SearchOutcome
<1>3. NormalizedPeak(c, r.best) \in Fraction /\ ClampedSeparation(r) \in Fraction
  <2>1. CASE ~r.ok
    <3>1. r.best = NoCandidate /\ r.normalized_peak_separation = <<0, 1>>
      BY <2>1, SearchOutcome
    <3> HIDE DEF r
    <3>2. NormalizedPeak(c, r.best) = 0
      BY <3>1 DEF NormalizedPeak, NoCandidate
    <3>3. ClampedSeparation(r) \in Fraction
      BY <1>1, <3>1, FractionOfIsFraction DEF ClampedSeparation
    <3> QED
      BY <1>1, <3>2, <3>3
  <2>2. CASE r.ok
    <3>1. RunError(p, c) = NoError /\ r = TopTwoResult(p, c)
      BY <2>2, SearchOutcome
    <3>2. ClampedSeparation(r) \in Fraction
      BY <3>1, SeparationOfSearch
    <3>3. PICK h \in Hypotheses(p) : r.best = CandidateOf(p, c, h)
      BY <3>1, SearchedPeaks
    <3>4. r.best.score \in Score /\ r.best.timing_offset \in Size
      BY <3>3, HypothesisIsTyped
    <3>5. Energy[c][r.best.timing_offset] \in 0 .. Infinity
      BY <3>4, EnergyAssumption
    <3> HIDE DEF r
    <3>6. r.best.score = NaN \/ FractionOf(r.best.score, Energy[c][r.best.timing_offset]) \in Fraction
      BY <3>4, <3>5, FractionOfIsFraction, InfinityAssumption DEF Score
    <3> QED
      BY <1>1, <3>2, <3>6 DEF NormalizedPeak
  <2> QED
    BY <1>2, <2>1, <2>2
<1>4. Confidence(NormalizedPeak(c, r.best), ClampedSeparation(r)) \in Fraction
  BY <1>3, ConfidenceIsFraction
<1> HIDE DEF r
<1>5. /\ d.normalized_peak = IF r.ok THEN NormalizedPeak(c, r.best) ELSE 0
      /\ d.peak_separation = ClampedSeparation(r)
      /\ d.confidence = IF r.ok THEN Confidence(NormalizedPeak(c, r.best), ClampedSeparation(r)) ELSE 0
      /\ d.search_completed = r.ok
      /\ d.accepted = (r.ok /\ ReachesThresholds(cfg, NormalizedPeak(c, r.best), ClampedSeparation(r)))
  BY DEF Diagnostics
<1>6. ReachesThresholds(cfg, NormalizedPeak(c, r.best), ClampedSeparation(r)) \in BOOLEAN
  BY DEF ReachesThresholds
<1> HIDE DEF d
<1>7. d.accepted \in BOOLEAN /\ (d.accepted => r.ok)
  BY <1>2, <1>5, <1>6
<1> QED
  BY <1>1, <1>2, <1>3, <1>4, <1>5, <1>7 DEF r, d

(***************************************************************************)
(* The configuration of the search is one that a preparation can be given. *)
(***************************************************************************)
LEMMA SearchConfigIsTyped ==
  ASSUME NEW cfg \in ReplayAcquisitionConfig, NEW n \in Size, NEW c \in Captures
  PROVE  SearchConfig(cfg, n, c) \in Config
<1> DEFINE m == SizeSubtract(SizeSubtract(Recording[c].length, cfg.preamble.length), n)
           grid == TimingGrid(cfg.preamble.length, n, c)
<1>1. cfg.preamble.length \in Size /\ Recording[c].length \in Size
  BY CapturesAssumption DEF ReplayAcquisitionConfig, ReceivedIq
<1>2. m \in Size
  <2>1. /\ cfg.preamble.length \in 0 .. SizeMax /\ Recording[c].length \in 0 .. SizeMax
        /\ n \in 0 .. SizeMax /\ SizeMax \in Nat
    BY <1>1, SizeAssumption DEF Size
  <2>2. m \in 0 .. SizeMax
    BY <2>1 DEF SizeSubtract
  <2> HIDE DEF m
  <2> QED
    BY <2>2 DEF Size
<1>3. grid = [i \in 1 .. m + 1 |-> i - 1]
  BY DEF TimingGrid
<1> HIDE DEF m
<1>4. \A i \in 1 .. m + 1 : i - 1 \in Size
  BY <1>2, SizeAssumption DEF Size
<1>5. grid \in Seq(Size)
  <2>1. m + 1 \in Nat
    BY <1>2, SizeAssumption DEF Size
  <2> QED
    BY <1>3, <1>4, <2>1
<1> QED
  BY <1>5 DEF SearchConfig, Config, ReplayAcquisitionConfig

(***************************************************************************)
(* The grid of a replay that is searched: all timings that leave room for  *)
(* preamble and frame, and no other, wrap-around or not.                   *)
(***************************************************************************)
LEMMA SearchedGrid ==
  ASSUME NEW cfg \in ReplayAcquisitionConfig, NEW n \in Size, NEW c \in Captures,
         PlanError(SearchConfig(cfg, n, c)) = NoError,
         RunError(PreparedPlan(SearchConfig(cfg, n, c)), c) = NoError
  PROVE  LET p == PreparedPlan(SearchConfig(cfg, n, c))
             last == Recording[c].length - cfg.preamble.length - n
         IN  /\ p \in Plan
             /\ p.frequency_hypotheses = cfg.cfo_hypotheses_hz
             /\ last \in Nat
             /\ p.timing_offsets = [i \in 1 .. last + 1 |-> i - 1]
<1> DEFINE p == PreparedPlan(SearchConfig(cfg, n, c))
           L == Recording[c].length
           P == cfg.preamble.length
           m == SizeSubtract(SizeSubtract(L, P), n)
<1>1. P \in 0 .. SizeMax /\ L \in 0 .. SizeMax /\ n \in 0 .. SizeMax /\ SizeMax \in Nat
  BY CapturesAssumption, SizeAssumption DEF ReplayAcquisitionConfig, ReceivedIq, Size
<1>2. m \in 0 .. SizeMax
  BY <1>1 DEF SizeSubtract
<1>3. p \in Plan
  BY SearchConfigIsTyped, PreparedPlanType
<1>4. /\ p.frequency_hypotheses = cfg.cfo_hypotheses_hz
      /\ p.preamble_length = P
      /\ p.timing_offsets = [i \in 1 .. m + 1 |-> i - 1]
  <2>1. SearchConfig(cfg, n, c).timing_offsets = [i \in 1 .. m + 1 |-> i - 1]
    BY DEF SearchConfig, TimingGrid
  <2>2. /\ SearchConfig(cfg, n, c).frequency_offsets_hz = cfg.cfo_hypotheses_hz
        /\ SearchConfig(cfg, n, c).preamble.length = P
    BY DEF SearchConfig
  <2> HIDE DEF m
  <2> QED
    BY <2>1, <2>2 DEF PreparedPlan
<1>5. \A i \in DOMAIN p.timing_offsets :
        p.timing_offsets[i] + p.preamble_length <= Recording[c].length
  BY <1>3, RunnablePlan
<1> HIDE DEF p
<1>6. m + P <= L
  <2> HIDE DEF m, L
  <2>1. m + 1 \in DOMAIN p.timing_offsets /\ p.timing_offsets[m + 1] = m
    BY <1>1, <1>2, <1>4
  <2> QED
    BY <1>4, <1>5, <2>1 DEF L
<1>7. m = L - P - n
  <2> DEFINE N == SizeMax + 1
  <2>1. \A x, k \in Nat : x < k => x % k = x
    OBVIOUS
  <2>2. SizeSubtract(L, P) = L - P
    <3>1. L - P \in Nat /\ L - P < N /\ N \in Nat
      BY <1>1, <1>2, <1>6
    <3> QED
      BY <2>1, <3>1 DEF SizeSubtract
  <2>3. CASE L - P - n >= 0
    <3>1. L - P - n \in Nat /\ L - P - n < N /\ N \in Nat
      BY <1>1, <2>3
    <3> QED
      BY <2>1, <2>2, <3>1 DEF SizeSubtract
  <2>4. CASE L - P - n < 0
    <3>1. \A x \in Int, k \in Nat \ {0} : x < 0 /\ -x < k => x % k = x + k
      OBVIOUS
    <3>2. m = L - P - n + N
      <4>1. L - P - n \in Int /\ -(L - P - n) < N /\ N \in Nat \ {0}
        BY <1>1, <1>2, <1>6, <2>4
      <4> QED
        BY <2>2, <2>4, <3>1, <4>1 DEF SizeSubtract
    <3> HIDE DEF m
    <3> QED
      BY <1>1, <1>2, <1>6, <3>2
  <2> QED
    BY <1>1, <2>3, <2>4
<1> QED
  BY <1>2, <1>3, <1>4, <1>7 DEF p

(***************************************************************************)
(* An accepted result lies where a whole frame follows it and stands out   *)
(* from every other hypothesis of the grid.                                *)
(***************************************************************************)
LEMMA AcceptedResult ==
  ASSUME NEW cfg \in ReplayAcquisitionConfig, NEW n \in Size, NEW c \in Captures,
         PlanError(SearchConfig(cfg, n, c)) = NoError,
         Diagnostics(cfg, c, SearchResult(PreparedPlan(SearchConfig(cfg, n, c)), c,
                                          cfg.implementation)).accepted
  PROVE  LET peak == SearchResult(PreparedPlan(SearchConfig(cfg, n, c)), c,
                                  cfg.implementation).best
         IN  /\ peak.timing_offset + cfg.preamble.length + n <= Recording[c].length
             /\ cfg.minimum_normalized_peak > 0 =>
                  /\ Greater(peak.score, 0)
                  /\ \A f \in DOMAIN cfg.cfo_hypotheses_hz,
                        t \in 0 .. Recording[c].length - cfg.preamble.length - n :
                       LET frequency == cfg.cfo_hypotheses_hz[f]
                           score == Recording[c].score[<<frequency, t>>]
                       IN  \/ frequency = peak.frequency_offset_hz /\ t = peak.timing_offset
                           \/ score = NaN
                           \/ Unit * (peak.score - score)
                                >= cfg.minimum_peak_separation * peak.score
<1> USE NaNAssumption, UnitAssumption, InfinityAssumption
<1> DEFINE p == PreparedPlan(SearchConfig(cfg, n, c))
           r == SearchResult(p, c, cfg.implementation)
           last == Recording[c].length - cfg.preamble.length - n
<1>1. p \in Plan
  BY SearchConfigIsTyped, PreparedPlanType
<1>2. r.ok
  BY <1>1, DiagnosticsAreFractions
<1>3. RunError(p, c) = NoError /\ r = TopTwoResult(p, c)
  BY <1>1, <1>2, SearchOutcome
<1>4. ReachesThresholds(cfg, NormalizedPeak(c, r.best), ClampedSeparation(r))
  BY DEF Diagnostics
<1>5. /\ p.frequency_hypotheses = cfg.cfo_hypotheses_hz
      /\ last \in Nat
      /\ p.timing_offsets = [i \in 1 .. last + 1 |-> i - 1]
  BY <1>3, SearchedGrid
<1>6. PICK h \in Hypotheses(p) : r.best = CandidateOf(p, c, h)
  BY <1>1, <1>3, SearchedPeaks
<1>7. /\ ClampedSeparation(r) \in Fraction
      /\ Greater(r.best.score, 0) =>
           \A required \in Int : ClampedSeparation(r) >= required =>
             \A g \in Hypotheses(p) :
               \/ CandidateOf(p, c, g) = r.best
               \/ HypothesisScore(p, c, g) = NaN
               \/ Unit * (r.best.score - HypothesisScore(p, c, g)) >= required * r.best.score
  BY <1>1, <1>3, SeparationOfSearch
<1>8. Recording[c].length \in Int /\ cfg.preamble.length \in Int /\ n \in Int
  BY CapturesAssumption, SizeAssumption DEF ReplayAcquisitionConfig, ReceivedIq, Size
<1>9. NormalizedPeak(c, r.best) \in Fraction
  BY <1>1, DiagnosticsAreFractions
<1> HIDE DEF p, r
<1>10. r.best.timing_offset \in 0 .. last
  <2>1. h[2] \in DOMAIN p.timing_offsets /\ r.best.timing_offset = p.timing_offsets[h[2]]
    BY <1>1, <1>6, HypothesisIsTyped
  <2> HIDE DEF last
  <2> QED
    BY <1>5, <2>1
<1>11. r.best.timing_offset + cfg.preamble.length + n <= Recording[c].length
  BY <1>8, <1>10
<1>12. ASSUME cfg.minimum_normalized_peak > 0
       PROVE  Greater(r.best.score, 0)
  <2>1. /\ cfg.minimum_normalized_peak \in Int
        /\ NormalizedPeak(c, r.best) >= cfg.minimum_normalized_peak
    BY <1>4 DEF ReachesThresholds, ReplayAcquisitionConfig
  <2>2. NormalizedPeak(c, r.best) # 0
    BY <1>9, <1>12, <2>1 DEF Fraction
  <2>3. r.best.score \in Score /\ r.best.timing_offset \in Size
    BY <1>1, <1>6, HypothesisIsTyped
  <2>4. Energy[c][r.best.timing_offset] \in 0 .. Infinity
    BY <2>3, EnergyAssumption
  <2>5. /\ r.best.score # NaN
        /\ FractionOf(r.best.score, Energy[c][r.best.timing_offset]) # 0
    BY <2>2 DEF NormalizedPeak
  <2>6. r.best.score \in Int
    BY <2>3, <2>5 DEF Score
  <2>7. ~(r.best.score <= 0)
    BY <2>4, <2>5, <2>6, FractionOfIsFraction
  <2> QED
    BY <2>5, <2>6, <2>7 DEF Greater
<1>13. ASSUME cfg.minimum_normalized_peak > 0,
              NEW f \in DOMAIN cfg.cfo_hypotheses_hz, NEW t \in 0 .. last
       PROVE  \/ cfg.cfo_hypotheses_hz[f] = r.best.frequency_offset_hz
                   /\ t = r.best.timing_offset
              \/ Recording[c].score[<<cfg.cfo_hypotheses_hz[f], t>>] = NaN
              \/ Unit * (r.best.score - Recording[c].score[<<cfg.cfo_hypotheses_hz[f], t>>])
                   >= cfg.minimum_peak_separation * r.best.score
  <2> DEFINE g == <<f, t + 1>>
  <2>1. g \in Hypotheses(p) /\ p.timing_offsets[t + 1] = t
    <3>1. t + 1 \in 1 .. last + 1 /\ p.timing_offsets[t + 1] = t
      <4> HIDE DEF last
      <4> QED
        BY <1>5
    <3>2. /\ DOMAIN p.frequency_hypotheses = 1 .. FrequencyCount(p)
          /\ DOMAIN p.timing_offsets = 1 .. TimingCount(p)
      BY <1>1 DEF Plan, FrequencyCount, TimingCount
    <3> HIDE DEF last
    <3>3. DOMAIN p.timing_offsets = 1 .. last + 1
      BY <1>5
    <3> QED
      BY <1>5, <3>1, <3>2, <3>3 DEF Hypotheses
  <2>2. /\ HypothesisScore(p, c, g) = Recording[c].score[<<cfg.cfo_hypotheses_hz[f], t>>]
        /\ CandidateOf(p, c, g).frequency_offset_hz = cfg.cfo_hypotheses_hz[f]
        /\ CandidateOf(p, c, g).timing_offset = t
    BY <1>5, <2>1 DEF HypothesisScore, CandidateOf, CandidateFrom
  <2>3. /\ cfg.minimum_peak_separation \in Int
        /\ ClampedSeparation(r) >= cfg.minimum_peak_separation
    BY <1>4 DEF ReachesThresholds, ReplayAcquisitionConfig
  <2>4. Greater(r.best.score, 0)
    BY <1>12, <1>13
  <2> HIDE DEF g
  <2>5. \/ CandidateOf(p, c, g) = r.best
        \/ HypothesisScore(p, c, g) = NaN
        \/ Unit * (r.best.score - HypothesisScore(p, c, g))
             >= cfg.minimum_peak_separation * r.best.score
    BY <1>7, <2>1, <2>3, <2>4
  <2> QED
    BY <2>2, <2>5
<1> QED
  BY <1>11, <1>12, <1>13 DEF p, r

-----------------------------------------------------------------------------
(* The invariant of a replay.                                               *)

\* Configuration and capture stay what they were.
Inputs == config \in ReplayConfigs /\ capture \in Captures

\* From the acquisition on, the length of a frame is known to fit in size_t.
FrameFits ==
  stage \in {"acquire", "search", "align", "demodulate", "frame", "decode"} =>
    /\ config.samples_per_symbol \in Nat \ {0}
    /\ FrameSamples(config) \in Size \ {0}

\* The plan that is searched was prepared for this capture.
Searched == SearchConfig(config, FrameSamples(config), capture)

PlanIsPrepared ==
  stage = "search" => plan = PreparedPlan(Searched) /\ PlanError(Searched) = NoError

\* Measures are fractions, and the frame is the one that the sync search found.
FoundFrame == [sync_start        |-> 0,
               length            |-> CodedBits,
               correlation_score |-> SyncScore,
               has_second_best   |-> FALSE,
               second_best_score |-> SyncScore]

DiagnosticsMeasured ==
  /\ DOMAIN diagnostics = DOMAIN NoDiagnostics
  /\ diagnostics.normalized_peak \in Fraction
  /\ diagnostics.peak_separation \in Fraction
  /\ diagnostics.confidence \in Fraction
  /\ diagnostics.accepted \in BOOLEAN
  /\ diagnostics.search_completed \in BOOLEAN

FrameMeasured ==
  /\ demod.matches \in 0 .. SyncBits
  /\ demod.strength \in Fraction
  /\ demod.weak \in Fraction
  /\ demod.clipped \in Fraction
  /\ demod.symbol_count \in {0, FrameSymbols}
  /\ frame \in {NoFrame, FoundFrame}

\* The decoder failed, which ends a replay with a frame and without a score.
Unscored == stage = "done" /\ payload = "none" /\ frame = FoundFrame

\* How far a replay came, told from the evidence that it holds.
Progress ==
  /\ payload \in {"none", "crc ok", "crc mismatch"}
  /\ stage \in {"load", "symbols", "acquire", "search"} => ~diagnostics.accepted
  /\ stage \in {"align", "demodulate", "frame", "decode"} => diagnostics.accepted
  /\ stage = "frame" => demod.symbol_count = FrameSymbols
  /\ stage = "decode" => frame = FoundFrame
  /\ stage \notin {"trust", "done"} => payload = "none"
  /\ stage \in {"load", "symbols", "acquire", "search", "align", "demodulate", "frame"} =>
       frame = NoFrame
  /\ payload # "none" => frame = FoundFrame /\ diagnostics.accepted
  /\ stage \in {"trust", "done"} /\ payload = "none" /\ ~Unscored =>
       frame = NoFrame /\ (diagnostics.accepted => error = "frame sync failed")

\* The result is the score and band of all that evidence.
Features ==
  TrustFeatures([present |-> payload # "none", strength |-> demod.strength, weak |-> demod.weak],
                frame, SyncBits, demod.clipped, diagnostics, payload # "none", payload = "crc ok")

Scored ==
  trust = IF stage = "done" /\ ~Unscored
            THEN [score |-> TrustScoreOf(Features), band |-> Band(Features, TrustScoreOf(Features))]
            ELSE NoTrust

IInv ==
  /\ Inputs
  /\ FrameFits
  /\ PlanIsPrepared
  /\ DiagnosticsMeasured
  /\ FrameMeasured
  /\ Progress
  /\ Scored
  /\ AcceptedFrameInsideCapture
  /\ AcceptedPeakStandsOut

-----------------------------------------------------------------------------

(***************************************************************************)
(* A frame whose length passed the check has that length in size_t, and    *)
(* demodulates to its number of symbols.                                   *)
(***************************************************************************)
LEMMA FrameLength ==
  ASSUME NEW s \in Size, s # 0, FrameSymbols <= SizeMax \div s
  PROVE  /\ s \in Nat \ {0}
         /\ FrameSymbols * s \in Size \ {0}
         /\ (FrameSymbols * s) \div s = FrameSymbols
<1>1. s \in Nat \ {0} /\ SizeMax \in Nat /\ FrameSymbols \in Nat \ {0}
  BY SizeAssumption, FrameAssumption DEF Size, FrameSymbols
<1> DEFINE F == FrameSymbols
           q == SizeMax \div s
           n == F * s
<1>2. q \in Nat /\ q * s <= SizeMax
  BY <1>1, Quotient
<1> HIDE DEF q
<1>3. n <= q * s
  BY <1>1, <1>2, ProductMonotone DEF q
<1>4. n \in Nat \ {0}
  BY <1>1
<1>5. n \div s = F
  <2>1. n \div s \in Nat /\ (n \div s) * s <= n /\ n < (n \div s + 1) * s
    BY <1>1, <1>4, Quotient
  <2> DEFINE d == n \div s
  <2> HIDE DEF d
  <2>2. CASE d <= F - 1
    <3>1. (d + 1) * s <= F * s
      BY <1>1, <2>1, <2>2, ProductMonotone DEF d
    <3>2. (d + 1) * s \in Int
      BY <1>1, <2>1 DEF d
    <3> QED
      BY <1>1, <1>4, <2>1, <3>1, <3>2 DEF d
  <2>3. CASE d >= F + 1
    <3>1. (F + 1) * s <= d * s
      BY <1>1, <2>1, <2>3, ProductMonotone DEF d
    <3>2. (F + 1) * s = F * s + s /\ d * s \in Int
      BY <1>1, <2>1 DEF d
    <3> QED
      BY <1>1, <1>4, <2>1, <3>1, <3>2 DEF d
  <2> QED
    BY <1>1, <2>1, <2>2, <2>3 DEF d
<1>6. n \in Size
  <2> HIDE DEF n
  <2>1. q * s \in Nat
    BY <1>1, <1>2
  <2> QED
    BY <1>1, <1>2, <1>3, <1>4, <2>1 DEF Size
<1> QED
  BY <1>1, <1>4, <1>5, <1>6

(***************************************************************************)
(* The initial state satisfies the invariant.                              *)
(***************************************************************************)
LEMMA InitIInv == Init => IInv
<1> SUFFICES ASSUME Init PROVE IInv
  OBVIOUS
<1> USE UnitAssumption, FrameAssumption DEF Init
<1>1. Inputs /\ FrameFits /\ PlanIsPrepared /\ Scored
  BY DEF Inputs, FrameFits, PlanIsPrepared, Scored, Unscored
<1>2. DiagnosticsMeasured
  BY DEF DiagnosticsMeasured, NoDiagnostics, Fraction
<1>3. FrameMeasured
  BY DEF FrameMeasured, NoDemod, NoFrame, Fraction
<1>4. Progress
  BY DEF Progress, Unscored, NoDiagnostics
<1>5. AcceptedFrameInsideCapture /\ AcceptedPeakStandsOut
  BY DEF AcceptedFrameInsideCapture, AcceptedPeakStandsOut, NoDiagnostics
<1> QED
  BY <1>1, <1>2, <1>3, <1>4, <1>5 DEF IInv

(***************************************************************************)
(* What is known of an accepted peak stays true while inputs and           *)
(* diagnostics do.                                                         *)
(***************************************************************************)
LEMMA AcceptedStays ==
  ASSUME AcceptedFrameInsideCapture, AcceptedPeakStandsOut,
         UNCHANGED inputs, UNCHANGED diagnostics
  PROVE  AcceptedFrameInsideCapture' /\ AcceptedPeakStandsOut'
<1>1. config' = config /\ capture' = capture /\ diagnostics' = diagnostics
  BY DEF inputs
<1>2. AcceptedFrameInsideCapture'
  BY <1>1 DEF AcceptedFrameInsideCapture
<1>3. AcceptedPeakStandsOut'
  BY <1>1 DEF AcceptedPeakStandsOut
<1> QED
  BY <1>2, <1>3

(***************************************************************************)
(* Without an accepted peak neither property says anything.                *)
(***************************************************************************)
LEMMA NotAccepted ==
  ASSUME ~diagnostics'.accepted
  PROVE  AcceptedFrameInsideCapture' /\ AcceptedPeakStandsOut'
  BY DEF AcceptedFrameInsideCapture, AcceptedPeakStandsOut

-----------------------------------------------------------------------------
(* Every step keeps it.                                                     *)

(***************************************************************************)
(* The stages before the acquisition change the stage and the error only.  *)
(***************************************************************************)
LEMMA EarlyStepIInv ==
  ASSUME IInv, LoadFiles \/ CheckSamplesPerSymbol
  PROVE  IInv'
<1> USE DEF IInv
<1>1. /\ UNCHANGED <<inputs, acquisition, decoding, trust>>
      /\ stage \in {"load", "symbols"} /\ stage' \in {"symbols", "acquire", "trust"}
  BY DEF LoadFiles, CheckSamplesPerSymbol, Fail
<1>2. /\ config' = config /\ capture' = capture /\ plan' = plan
      /\ diagnostics' = diagnostics /\ demod' = demod /\ frame' = frame
      /\ payload' = payload /\ trust' = trust
  BY <1>1 DEF inputs, acquisition, decoding
<1>3. Inputs'
  BY <1>2 DEF Inputs
<1>4. FrameFits'
  <2>1. CASE stage' = "acquire"
    <3>1. /\ config.samples_per_symbol # 0
          /\ FrameSymbols <= SizeMax \div config.samples_per_symbol
      <4>1. CASE CheckSamplesPerSymbol
        <5>1. /\ config.samples_per_symbol \in Size
              /\ SizeMax \in Nat /\ FrameSymbols \in Nat
          BY ReplayConfigsAssumption, SizeAssumption, FrameAssumption
             DEF Inputs, ReplayAcquisitionConfig, FrameSymbols
        <5>2. /\ config.samples_per_symbol # 0
              /\ ~(FrameSymbols > SizeMax \div config.samples_per_symbol)
          BY <2>1, <4>1 DEF CheckSamplesPerSymbol, Fail
        <5>3. SizeMax \div config.samples_per_symbol \in Nat
          BY <5>1, <5>2, Quotient DEF Size
        <5> QED
          BY <5>1, <5>2, <5>3
      <4>2. CASE LoadFiles
        BY <2>1, <4>2 DEF LoadFiles, Fail
      <4> QED
        BY <4>1, <4>2
    <3>2. config.samples_per_symbol \in Size
      BY ReplayConfigsAssumption DEF Inputs, ReplayAcquisitionConfig
    <3>3. config.samples_per_symbol \in Nat \ {0} /\ FrameSamples(config) \in Size \ {0}
      BY <3>1, <3>2, FrameLength DEF FrameSamples
    <3> QED
      BY <1>2, <3>3 DEF FrameFits
  <2>2. CASE stage' # "acquire"
    BY <1>1, <2>2 DEF FrameFits
  <2> QED
    BY <2>1, <2>2
<1>5. PlanIsPrepared'
  BY <1>1 DEF PlanIsPrepared
<1>6. DiagnosticsMeasured' /\ FrameMeasured'
  BY <1>2 DEF DiagnosticsMeasured, FrameMeasured, FoundFrame, SyncScore
<1>7. Progress'
  BY <1>1, <1>2 DEF Progress, Unscored, FoundFrame, SyncScore
<1>8. Scored'
  BY <1>1, <1>2 DEF Scored, Unscored
<1>9. AcceptedFrameInsideCapture' /\ AcceptedPeakStandsOut'
  BY <1>1, <1>2, AcceptedStays
<1> QED
  BY <1>3, <1>4, <1>5, <1>6, <1>7, <1>8, <1>9

(***************************************************************************)
(* The preparation leaves a plan for this capture or fails.                *)
(***************************************************************************)
LEMMA PrepareAcquisitionIInv ==
  ASSUME IInv, PrepareAcquisition
  PROVE  IInv'
<1> USE DEF IInv
<1>1. /\ stage = "acquire" /\ stage' \in {"search", "trust"}
      /\ UNCHANGED <<inputs, search_result, frame_start, decoding, trust>>
      /\ diagnostics' = [NoDiagnostics EXCEPT !.requested_implementation = config.implementation]
  BY DEF PrepareAcquisition, Fail
<1>2. /\ config' = config /\ capture' = capture /\ demod' = demod /\ frame' = frame
      /\ payload' = payload /\ trust' = trust
  BY <1>1 DEF inputs, decoding
<1>3. ~diagnostics'.accepted
  BY <1>1 DEF NoDiagnostics
<1>4. Inputs'
  BY <1>2 DEF Inputs
<1>5. FrameFits'
  BY <1>1, <1>2 DEF FrameFits
<1>6. PlanIsPrepared'
  <2>1. stage' = "search" => plan' = PreparedPlan(Searched) /\ PlanError(Searched) = NoError
    BY DEF PrepareAcquisition, Fail, Searched
  <2> QED
    BY <1>2, <2>1 DEF PlanIsPrepared, Searched
<1>7. DiagnosticsMeasured'
  BY <1>1, UnitAssumption DEF DiagnosticsMeasured, NoDiagnostics, Fraction
<1>8. FrameMeasured'
  BY <1>2 DEF FrameMeasured, FoundFrame, SyncScore
<1>9. Progress'
  BY <1>1, <1>2, <1>3 DEF Progress, Unscored, FoundFrame, SyncScore
<1>10. Scored'
  BY <1>1, <1>2 DEF Scored, Unscored
<1> QED
  BY <1>3, <1>4, <1>5, <1>6, <1>7, <1>8, <1>9, <1>10, NotAccepted

(***************************************************************************)
(* The search accepts a peak only where the plan's grid has room for a     *)
(* frame and no other hypothesis comes near.                               *)
(***************************************************************************)
LEMMA SearchCaptureIInv ==
  ASSUME IInv, SearchCapture
  PROVE  IInv'
<1> USE DEF IInv
<1> DEFINE r == SearchResult(plan, capture, config.implementation)
<1>1. /\ stage = "search"
      /\ search_result' = r
      /\ diagnostics' = Diagnostics(config, capture, r)
      /\ UNCHANGED <<inputs, plan, frame_start, decoding, trust>>
  BY DEF SearchCapture
<1>2. /\ config' = config /\ capture' = capture /\ demod' = demod /\ frame' = frame
      /\ payload' = payload /\ trust' = trust
  BY <1>1 DEF inputs, decoding
<1>3. /\ config \in ReplayAcquisitionConfig /\ capture \in Captures
      /\ FrameSamples(config) \in Size \ {0}
      /\ plan = PreparedPlan(Searched) /\ PlanError(Searched) = NoError
  BY <1>1, ReplayConfigsAssumption DEF Inputs, FrameFits, PlanIsPrepared
<1>4. plan \in Plan
  <2>1. Searched \in Config
    BY <1>3, SearchConfigIsTyped DEF Searched
  <2> QED
    BY <1>3, <2>1, PreparedPlanType
<1>5. /\ diagnostics'.normalized_peak \in Fraction
      /\ diagnostics'.peak_separation \in Fraction
      /\ diagnostics'.confidence \in Fraction
      /\ diagnostics'.accepted \in BOOLEAN /\ diagnostics'.search_completed \in BOOLEAN
      /\ diagnostics'.accepted => r.ok
  BY <1>1, <1>3, <1>4, DiagnosticsAreFractions
<1>6. diagnostics'.best = r.best
  BY <1>1 DEF Diagnostics
<1>7. DiagnosticsMeasured'
  <2>1. DOMAIN diagnostics' = DOMAIN NoDiagnostics
    BY <1>1 DEF Diagnostics, NoDiagnostics
  <2> QED
    BY <1>5, <2>1 DEF DiagnosticsMeasured
<1>8. \/ diagnostics'.accepted /\ stage' = "align"
      \/ ~diagnostics'.accepted /\ stage' = "trust"
  <2> HIDE DEF r
  <2> QED
    BY <1>1, <1>5 DEF SearchCapture, Fail
<1>9. Inputs'
  BY <1>2 DEF Inputs
<1>10. FrameFits' /\ PlanIsPrepared'
  BY <1>1, <1>2, <1>8 DEF FrameFits, PlanIsPrepared
<1>11. FrameMeasured'
  BY <1>2 DEF FrameMeasured, FoundFrame, SyncScore
<1>12. Progress'
  BY <1>1, <1>2, <1>8 DEF Progress, Unscored, FoundFrame, SyncScore
<1>13. Scored'
  BY <1>1, <1>2, <1>8 DEF Scored, Unscored
<1>14. AcceptedFrameInsideCapture' /\ AcceptedPeakStandsOut'
  <2>1. CASE ~diagnostics'.accepted
    BY <2>1, NotAccepted
  <2>2. CASE diagnostics'.accepted
    <3>1. Diagnostics(config, capture, SearchResult(
            PreparedPlan(SearchConfig(config, FrameSamples(config), capture)), capture,
            config.implementation)).accepted
      BY <1>1, <1>3, <2>2 DEF Searched
    <3>2. /\ r.best.timing_offset + config.preamble.length + FrameSamples(config)
               <= Recording[capture].length
          /\ config.minimum_normalized_peak > 0 =>
               /\ Greater(r.best.score, 0)
               /\ \A f \in DOMAIN config.cfo_hypotheses_hz,
                     t \in 0 .. Recording[capture].length - config.preamble.length
                                  - FrameSamples(config) :
                    LET frequency == config.cfo_hypotheses_hz[f]
                        score == Recording[capture].score[<<frequency, t>>]
                    IN  \/ frequency = r.best.frequency_offset_hz /\ t = r.best.timing_offset
                        \/ score = NaN
                        \/ Unit * (r.best.score - score)
                             >= config.minimum_peak_separation * r.best.score
      BY <1>3, <3>1, AcceptedResult DEF Searched
    <3>3. FrameSamples(config) > 0
      BY <1>3, SizeAssumption DEF Size
    <3> HIDE DEF r
    <3> DEFINE peak == r.best
    <3>4. diagnostics'.best = peak
      BY <1>6
    <3> HIDE DEF peak
    <3>5. AcceptedFrameInsideCapture'
      BY <1>2, <3>2, <3>3, <3>4 DEF AcceptedFrameInsideCapture, peak
    <3>6. AcceptedPeakStandsOut'
      BY <1>2, <3>2, <3>4 DEF AcceptedPeakStandsOut, peak
    <3> QED
      BY <3>5, <3>6
  <2> QED
    BY <2>1, <2>2
<1> QED
  BY <1>7, <1>9, <1>10, <1>11, <1>12, <1>13, <1>14

(***************************************************************************)
(* The alignment keeps the accepted peak or takes its acceptance back.     *)
(***************************************************************************)
LEMMA AlignFrameIInv ==
  ASSUME IInv, AlignFrame
  PROVE  IInv'
<1> USE DEF IInv
<1>1. /\ stage = "align"
      /\ UNCHANGED <<inputs, plan, search_result, decoding, trust>>
      /\ \/ /\ diagnostics' = [diagnostics EXCEPT !.accepted = FALSE]
            /\ stage' = "trust"
         \/ diagnostics' = diagnostics /\ stage' = "demodulate"
  BY DEF AlignFrame, Fail
<1>2. /\ config' = config /\ capture' = capture /\ demod' = demod /\ frame' = frame
      /\ payload' = payload /\ trust' = trust
  BY <1>1 DEF inputs, decoding
<1>3. "accepted" \in DOMAIN diagnostics
  BY DEF DiagnosticsMeasured, NoDiagnostics
<1>4. \/ ~diagnostics'.accepted /\ stage' = "trust"
      \/ diagnostics' = diagnostics /\ stage' = "demodulate"
  BY <1>1, <1>3
<1>5. Inputs'
  BY <1>2 DEF Inputs
<1>6. FrameFits' /\ PlanIsPrepared'
  BY <1>1, <1>2 DEF FrameFits, PlanIsPrepared
<1>7. DiagnosticsMeasured'
  BY <1>1 DEF DiagnosticsMeasured, NoDiagnostics
<1>8. FrameMeasured'
  BY <1>2 DEF FrameMeasured, FoundFrame, SyncScore
<1>9. Progress'
  BY <1>1, <1>2, <1>4 DEF Progress, Unscored, FoundFrame, SyncScore
<1>10. Scored'
  BY <1>1, <1>2 DEF Scored, Unscored
<1>11. AcceptedFrameInsideCapture' /\ AcceptedPeakStandsOut'
  BY <1>1, <1>4, AcceptedStays, NotAccepted
<1> QED
  BY <1>5, <1>6, <1>7, <1>8, <1>9, <1>10, <1>11

(***************************************************************************)
(* A frame of whole symbols gives one soft decision for each of them.      *)
(***************************************************************************)
LEMMA DemodulateIInv ==
  ASSUME IInv, Demodulate
  PROVE  IInv'
<1> USE DEF IInv
<1>1. PICK outcome \in DemodOutcomes :
        demod' = [symbol_count |-> FrameSamples(config) \div config.samples_per_symbol,
                  matches      |-> outcome.matches,
                  strength     |-> outcome.strength,
                  weak         |-> outcome.weak,
                  clipped      |-> outcome.clipped]
  BY DEF Demodulate
<1>2. /\ stage = "demodulate" /\ stage' = "frame"
      /\ UNCHANGED <<inputs, error, acquisition, frame, payload, trust>>
  BY DEF Demodulate
<1>3. /\ config' = config /\ capture' = capture /\ diagnostics' = diagnostics
      /\ frame' = frame /\ payload' = payload /\ trust' = trust
  BY <1>2 DEF inputs, acquisition
<1>4. demod'.symbol_count = FrameSymbols
  <2>1. config.samples_per_symbol \in Nat \ {0} /\ FrameSymbols \in Nat
    BY <1>2, FrameAssumption DEF FrameFits, FrameSymbols
  <2>2. \A n \in Nat, s \in Nat \ {0} : (n * s) \div s = n
    OBVIOUS
  <2> QED
    BY <1>1, <2>1, <2>2 DEF FrameSamples
<1>5. outcome \in DemodOutcome
  BY DemodAssumption
<1>6. FrameMeasured'
  <2>1. frame' = NoFrame
    BY <1>2, <1>3 DEF Progress, Unscored
  <2> QED
    BY <1>1, <1>4, <1>5, <2>1 DEF FrameMeasured, DemodOutcome, FrameSymbols
<1>7. Inputs' /\ FrameFits' /\ PlanIsPrepared' /\ DiagnosticsMeasured'
  BY <1>2, <1>3 DEF Inputs, FrameFits, PlanIsPrepared, DiagnosticsMeasured
<1>8. Progress'
  BY <1>2, <1>3, <1>4 DEF Progress, Unscored, FrameSymbols
<1>9. Scored'
  BY <1>2, <1>3 DEF Scored, Unscored
<1>10. AcceptedFrameInsideCapture' /\ AcceptedPeakStandsOut'
  BY <1>2, <1>3, AcceptedStays
<1> QED
  BY <1>6, <1>7, <1>8, <1>9, <1>10

(***************************************************************************)
(* In a buffer of one frame the sync word can only be at its beginning.    *)
(***************************************************************************)
LEMMA FindFrameIInv ==
  ASSUME IInv, FindFrame
  PROVE  IInv'
<1> USE DEF IInv
<1>1. /\ stage = "frame"
      /\ UNCHANGED <<inputs, acquisition, demod, payload, trust>>
  BY DEF FindFrame
<1>2. /\ config' = config /\ capture' = capture /\ diagnostics' = diagnostics
      /\ demod' = demod /\ payload' = payload /\ trust' = trust
  BY <1>1 DEF inputs, acquisition
<1>3. LastSyncOffset = 0
  BY <1>1, FrameAssumption DEF Progress, Unscored, LastSyncOffset, FrameSymbols
<1>4. \/ stage' = "trust" /\ error' = "frame sync failed" /\ frame' = NoFrame
      \/ stage' = "decode" /\ frame' = FoundFrame
  <2>1. frame = NoFrame
    BY <1>1 DEF Progress, Unscored
  <2>2. PICK place \in 0 .. LastSyncOffset :
          IF SyncScore < SyncBits - 2
            THEN Fail("frame sync failed") /\ UNCHANGED frame
            ELSE /\ frame' = [sync_start        |-> place,
                              length            |-> CodedBits,
                              correlation_score |-> SyncScore,
                              has_second_best   |-> LastSyncOffset > 0,
                              second_best_score |-> SyncScore]
                 /\ IF place # 0
                      THEN Fail("frame sync disagreed with acquisition")
                      ELSE stage' = "decode" /\ UNCHANGED error
    BY DEF FindFrame
  <2>3. place = 0 /\ (LastSyncOffset > 0) = FALSE
    BY <1>3
  <2> QED
    BY <2>1, <2>2, <2>3 DEF Fail, FoundFrame
<1>5. FoundFrame' = FoundFrame
  BY <1>2 DEF FoundFrame, SyncScore
<1>6. Inputs' /\ PlanIsPrepared' /\ DiagnosticsMeasured'
  BY <1>1, <1>2, <1>4 DEF Inputs, PlanIsPrepared, DiagnosticsMeasured
<1>7. FrameFits'
  BY <1>1, <1>2 DEF FrameFits
<1>8. FrameMeasured'
  BY <1>2, <1>4, <1>5 DEF FrameMeasured, FrameSymbols
<1>9. Progress'
  BY <1>1, <1>2, <1>4, <1>5 DEF Progress, Unscored
<1>10. Scored'
  BY <1>1, <1>2, <1>4 DEF Scored, Unscored
<1>11. AcceptedFrameInsideCapture' /\ AcceptedPeakStandsOut'
  BY <1>1, <1>2, AcceptedStays
<1> QED
  BY <1>6, <1>7, <1>8, <1>9, <1>10, <1>11

(***************************************************************************)
(* A decoded frame passes its CRC or not, and a failed decoder ends it all.*)
(***************************************************************************)
LEMMA DecodeIInv ==
  ASSUME IInv, Decode
  PROVE  IInv'
<1> USE DEF IInv
<1>1. /\ stage = "decode"
      /\ \/ stage' = "trust" /\ payload' \in {"crc ok", "crc mismatch"}
         \/ stage' = "done" /\ payload' = payload
      /\ UNCHANGED <<inputs, acquisition, demod, frame, trust>>
  BY DEF Decode
<1>2. /\ config' = config /\ capture' = capture /\ diagnostics' = diagnostics
      /\ demod' = demod /\ frame' = frame /\ trust' = trust
  BY <1>1 DEF inputs, acquisition
<1>3. FoundFrame' = FoundFrame /\ frame = FoundFrame /\ payload = "none"
  BY <1>1, <1>2 DEF FoundFrame, SyncScore, Progress
<1>4. Inputs' /\ FrameFits' /\ PlanIsPrepared' /\ DiagnosticsMeasured'
  BY <1>1, <1>2 DEF Inputs, FrameFits, PlanIsPrepared, DiagnosticsMeasured
<1>5. FrameMeasured'
  BY <1>2, <1>3 DEF FrameMeasured, FrameSymbols
<1>6. stage' = "done" => Unscored'
  BY <1>1, <1>2, <1>3 DEF Unscored
<1>7. Progress'
  BY <1>1, <1>2, <1>3, <1>6 DEF Progress
<1>8. Scored'
  BY <1>1, <1>2, <1>6 DEF Scored
<1>9. AcceptedFrameInsideCapture' /\ AcceptedPeakStandsOut'
  BY <1>1, <1>2, AcceptedStays
<1> QED
  BY <1>4, <1>5, <1>7, <1>8, <1>9

(***************************************************************************)
(* The result is scored from the evidence that there is.                   *)
(***************************************************************************)
LEMMA ScoreTrustIInv ==
  ASSUME IInv, ScoreTrust
  PROVE  IInv'
<1> USE DEF IInv
<1>1. /\ stage = "trust" /\ stage' = "done"
      /\ trust' = [score |-> TrustScoreOf(Features),
                   band  |-> Band(Features, TrustScoreOf(Features))]
      /\ UNCHANGED <<inputs, error, acquisition, decoding>>
  BY DEF ScoreTrust, Features
<1>2. /\ config' = config /\ capture' = capture /\ diagnostics' = diagnostics
      /\ demod' = demod /\ frame' = frame /\ payload' = payload /\ error' = error
  BY <1>1 DEF inputs, acquisition, decoding
<1>3. FoundFrame' = FoundFrame
  BY <1>2 DEF FoundFrame, SyncScore
<1>4. Inputs' /\ FrameFits' /\ PlanIsPrepared' /\ DiagnosticsMeasured'
  BY <1>1, <1>2 DEF Inputs, FrameFits, PlanIsPrepared, DiagnosticsMeasured
<1>5. FrameMeasured'
  BY <1>2, <1>3 DEF FrameMeasured, FrameSymbols
<1>6. ~Unscored'
  <2>1. payload = "none" => frame = NoFrame
    BY <1>1 DEF Progress, Unscored
  <2>2. NoFrame # FoundFrame
    BY FrameAssumption DEF NoFrame, FoundFrame
  <2> QED
    BY <1>2, <1>3, <2>1, <2>2 DEF Unscored
<1>7. Progress'
  BY <1>1, <1>2, <1>3, <1>6 DEF Progress, Unscored
<1>8. Scored'
  <2>1. Features' = Features
    BY <1>2 DEF Features
  <2>2. trust' = [score |-> TrustScoreOf(Features'),
                  band  |-> Band(Features', TrustScoreOf(Features'))]
    BY <1>1, <2>1
  <2> QED
    BY <1>1, <1>6, <2>2 DEF Scored
<1>9. AcceptedFrameInsideCapture' /\ AcceptedPeakStandsOut'
  BY <1>1, <1>2, AcceptedStays
<1> QED
  BY <1>4, <1>5, <1>7, <1>8, <1>9

-----------------------------------------------------------------------------
(* What the invariant says of the result.                                   *)

(***************************************************************************)
(* The features of a replay are fractions, and its flags are its outcome.  *)
(***************************************************************************)
LEMMA FeaturesAreFractions ==
  ASSUME IInv
  PROVE  /\ Features.soft_strength \in Fraction
         /\ Features.weak_fraction \in Fraction
         /\ Features.acquisition_peak \in Fraction
         /\ Features.peak_separation \in Fraction
         /\ Features.timing_ambiguity \in Fraction
         /\ Features.uncertainty \in Fraction
         /\ Features.frame_sync_score \in Fraction
         /\ Features.frame_sync_margin \in Fraction
         /\ Features.clipped_fraction \in Fraction
         /\ Features.accepted = diagnostics.accepted
         /\ Features.crc_evaluated = (payload # "none")
         /\ Features.crc_pass = (payload = "crc ok")
<1> USE UnitAssumption, FrameAssumption DEF IInv
<1>1. 0 \in Fraction /\ Unit \in Fraction
  BY DEF Fraction
<1>2. Unit - diagnostics.peak_separation \in Fraction /\ Unit - diagnostics.confidence \in Fraction
  BY DEF DiagnosticsMeasured, Fraction
<1>3. SyncScore \in Int
  BY DEF FrameMeasured, SyncScore
<1>4. FractionOf(SyncScore, SyncBits) \in Fraction
  BY <1>3, FractionOfIsFraction
<1>5. frame = NoFrame \/ frame = FoundFrame
  BY DEF FrameMeasured
<1>6. Features.frame_sync_score \in Fraction /\ Features.frame_sync_margin \in Fraction
  <2>1. CASE frame = NoFrame
    BY <1>1, <2>1 DEF Features, TrustFeatures, NoFrame
  <2>2. CASE frame = FoundFrame
    BY <1>1, <1>4, <2>2 DEF Features, TrustFeatures, FoundFrame
  <2> QED
    BY <1>5, <2>1, <2>2
<1>7. /\ Features.soft_strength \in Fraction
      /\ Features.weak_fraction \in Fraction
      /\ Features.clipped_fraction \in Fraction
  BY <1>1 DEF Features, TrustFeatures, FrameMeasured
<1>8. /\ Features.acquisition_peak \in Fraction
      /\ Features.peak_separation \in Fraction
      /\ Features.timing_ambiguity \in Fraction
      /\ Features.uncertainty \in Fraction
  BY <1>1, <1>2 DEF Features, TrustFeatures, DiagnosticsMeasured
<1>9. /\ Features.accepted = diagnostics.accepted
      /\ Features.crc_evaluated = (payload # "none")
      /\ Features.crc_pass = (payload = "crc ok")
  BY DEF Features, TrustFeatures, Progress
<1> QED
  BY <1>6, <1>7, <1>8, <1>9

(***************************************************************************)
(* Without a decoded payload the soft decisions and the frame add nothing. *)
(***************************************************************************)
LEMMA UndecodedFeatures ==
  ASSUME IInv, stage = "done", payload = "none", ~Unscored
  PROVE  /\ Features.soft_strength = 0
         /\ Features.weak_fraction = Unit
         /\ Features.frame_sync_score = 0
         /\ Features.frame_sync_margin = 0
<1>1. frame = NoFrame
  BY DEF IInv, Progress
<1>2. ~(frame.length > 0)
  BY <1>1 DEF NoFrame
<1>3. Features.soft_strength = 0 /\ Features.weak_fraction = Unit
  BY DEF Features, TrustFeatures
<1>4. Features.frame_sync_score = 0 /\ Features.frame_sync_margin = 0
  BY <1>2 DEF Features, TrustFeatures
<1> QED
  BY <1>3, <1>4

(***************************************************************************)
(* A quality that is a fraction is not changed by clamping, and one that   *)
(* is computed from a fraction is at most one.                             *)
(***************************************************************************)
LEMMA ClampedQualities ==
  /\ \A q \in Fraction : ClampUnit(q) = q /\ Unit - q \in Fraction
  /\ \A q \in Fraction : ClampUnit(Unit - 4 * q) \in Fraction
<1> USE UnitAssumption DEF Fraction, ClampUnit
<1>1. \A q \in Fraction : ClampUnit(q) = q /\ Unit - q \in Fraction
  OBVIOUS
<1>2. \A q \in Fraction : ClampUnit(Unit - 4 * q) \in Fraction
  OBVIOUS
<1> QED
  BY <1>1, <1>2

(***************************************************************************)
(* The weighted sum of a replay that decoded nothing comes from peak,      *)
(* separation, confidence and clipping alone.                              *)
(***************************************************************************)
LEMMA WeightedSumOfFractions ==
  ASSUME IInv
  PROVE  /\ WeightedSum(Features) \in Nat
         /\ stage = "done" /\ payload = "none" /\ ~Unscored =>
              WeightedSum(Features) <= 3 * Features.acquisition_peak
                + 3 * Features.peak_separation + 2 * (Unit - Features.uncertainty) + Unit
<1> USE UnitAssumption
<1> DEFINE f == Features
           clip == ClampUnit(Unit - 4 * f.clipped_fraction)
           crc == IF f.crc_pass THEN 3 * Unit ELSE 0
<1>1. /\ f.soft_strength \in Fraction /\ f.weak_fraction \in Fraction
      /\ f.acquisition_peak \in Fraction /\ f.peak_separation \in Fraction
      /\ f.uncertainty \in Fraction /\ f.frame_sync_score \in Fraction
      /\ f.frame_sync_margin \in Fraction /\ f.clipped_fraction \in Fraction
      /\ f.crc_pass = (payload = "crc ok")
  BY FeaturesAreFractions
<1>2. clip \in Fraction /\ crc \in Nat
  <2>1. clip \in Fraction
    BY <1>1, ClampedQualities
  <2>2. crc \in Nat
    <3> HIDE DEF f
    <3> QED
      OBVIOUS
  <2> QED
    BY <2>1, <2>2
<1>3. stage = "done" /\ payload = "none" /\ ~Unscored =>
        /\ f.soft_strength = 0 /\ f.weak_fraction = Unit
        /\ f.frame_sync_score = 0 /\ f.frame_sync_margin = 0 /\ crc = 0
  BY <1>1, UndecodedFeatures
<1>4. WeightedSum(f) = 3 * ClampUnit(f.soft_strength) + 3 * ClampUnit(Unit - f.weak_fraction)
        + 3 * ClampUnit(f.acquisition_peak) + 3 * ClampUnit(f.peak_separation)
        + 2 * ClampUnit(Unit - f.uncertainty) + ClampUnit(f.frame_sync_score)
        + ClampUnit(f.frame_sync_margin) + clip + crc
  BY DEF WeightedSum
<1> HIDE DEF f, clip, crc
<1>5. WeightedSum(f) = 3 * f.soft_strength + 3 * (Unit - f.weak_fraction)
        + 3 * f.acquisition_peak + 3 * f.peak_separation
        + 2 * (Unit - f.uncertainty) + f.frame_sync_score
        + f.frame_sync_margin + clip + crc
  BY <1>1, <1>4, ClampedQualities
<1> DEFINE soft == f.soft_strength
           strong == Unit - f.weak_fraction
           peak == f.acquisition_peak
           separation == f.peak_separation
           certainty == Unit - f.uncertainty
           sync == f.frame_sync_score
           margin == f.frame_sync_margin
<1>6. \A q \in Fraction : q \in Nat /\ Unit - q \in Nat /\ q <= Unit
  BY DEF Fraction
<1>7. /\ soft \in Nat /\ strong \in Nat /\ peak \in Nat /\ separation \in Nat
      /\ certainty \in Nat /\ sync \in Nat /\ margin \in Nat
      /\ clip \in Nat /\ clip <= Unit /\ crc \in Nat
  BY <1>6, <1>1, <1>2
<1>8. stage = "done" /\ payload = "none" /\ ~Unscored =>
        soft = 0 /\ strong = 0 /\ sync = 0 /\ margin = 0 /\ crc = 0
  BY <1>3
<1>9. WeightedSum(f) = 3 * soft + 3 * strong + 3 * peak + 3 * separation + 2 * certainty
                         + sync + margin + clip + crc
  BY <1>5
<1> HIDE DEF soft, strong, peak, separation, certainty, sync, margin
<1>10. WeightedSum(f) \in Nat
  BY <1>7, <1>9
<1>11. stage = "done" /\ payload = "none" /\ ~Unscored =>
         WeightedSum(f) <= 3 * peak + 3 * separation + 2 * certainty + Unit
  BY <1>7, <1>8, <1>9
<1> QED
  BY <1>10, <1>11 DEF f, peak, separation, certainty

(***************************************************************************)
(* A cap bounds a score.                                                   *)
(***************************************************************************)
LEMMA CappedScore ==
  ASSUME NEW score \in Nat
  PROVE  /\ ScoreCap(score, 15) \in Nat /\ ScoreCap(score, 15) <= 3 * Unit
         /\ ScoreCap(score, 35) \in Nat /\ ScoreCap(score, 35) <= 7 * Unit
         /\ ScoreCap(score, 15) <= score
<1>1. (15 * Unit) \div 5 = 3 * Unit /\ (35 * Unit) \div 5 = 7 * Unit
  BY UnitAssumption
<1> QED
  BY <1>1, UnitAssumption DEF ScoreCap

(***************************************************************************)
(* The score of a replay is bounded by the caps of its evidence.           *)
(***************************************************************************)
LEMMA ScoreOfEvidence ==
  ASSUME IInv
  PROVE  /\ TrustScoreOf(Features) \in Nat
         /\ ~diagnostics.accepted => TrustScoreOf(Features) <= 3 * Unit
         /\ payload = "crc mismatch" => TrustScoreOf(Features) <= 7 * Unit
         /\ payload = "none" => TrustScoreOf(Features) <= WeightedSum(Features)
<1> DEFINE sum == WeightedSum(Features)
           gated == IF ~diagnostics.accepted THEN ScoreCap(sum, 15) ELSE sum
<1>1. sum \in Nat
  BY WeightedSumOfFractions
<1>2. TrustScoreOf(Features) =
        IF payload # "none" /\ payload # "crc ok" THEN ScoreCap(gated, 35) ELSE gated
  BY FeaturesAreFractions DEF TrustScoreOf
<1>3. ~diagnostics.accepted => payload = "none"
  BY DEF IInv, Progress
<1> HIDE DEF sum
<1>4. /\ gated \in Nat /\ gated <= sum
      /\ ~diagnostics.accepted => gated <= 3 * Unit
  BY <1>1, CappedScore
<1> HIDE DEF gated
<1>5. ScoreCap(gated, 35) \in Nat /\ ScoreCap(gated, 35) <= 7 * Unit
  BY <1>4, CappedScore
<1> QED
  BY <1>2, <1>3, <1>4, <1>5 DEF sum

(***************************************************************************)
(* A frame that was found begins at the first symbol.                      *)
(***************************************************************************)
LEMMA FrameSyncFollows == IInv => FrameSyncAgrees
  BY DEF IInv, FrameMeasured, FrameSyncAgrees, NoFrame, FoundFrame

(***************************************************************************)
(* The high band excludes a payload that was not decoded by its margin.    *)
(***************************************************************************)
LEMMA HighConfidenceFollows == IInv => HighConfidenceIsDecoded
<1> SUFFICES ASSUME IInv, trust.band = "high-confidence"
             PROVE  Ok /\ diagnostics.accepted /\ frame.length = CodedBits /\ ~Above(demod.weak, 8)
  BY DEF HighConfidenceIsDecoded
<1>1. /\ stage = "done" /\ ~Unscored
      /\ Band(Features, TrustScoreOf(Features)) = "high-confidence"
  BY DEF IInv, Scored, NoTrust
<1>2. /\ Features.accepted
      /\ ~(Features.crc_evaluated /\ ~Features.crc_pass)
      /\ ~Above(Features.weak_fraction, 8)
      /\ ~(100 * Features.frame_sync_margin < 20 * Unit)
  BY <1>1 DEF Band, Assessment
<1>3. payload # "none"
  <2>1. payload = "none" => Features.frame_sync_margin = 0
    BY <1>1, UndecodedFeatures
  <2>2. 100 * 0 < 20 * Unit
    BY UnitAssumption
  <2> QED
    BY <1>2, <2>1, <2>2, Zenon
<1>4. diagnostics.accepted /\ payload = "crc ok"
  BY <1>2, <1>3, FeaturesAreFractions
<1>5. frame.length = CodedBits
  <2>1. frame = FoundFrame
    BY <1>3 DEF IInv, Progress
  <2> QED
    BY <2>1 DEF FoundFrame
<1>6. Features.weak_fraction = demod.weak
  BY <1>3 DEF Features, TrustFeatures
<1> QED
  BY <1>1, <1>2, <1>4, <1>5, <1>6 DEF Ok

(***************************************************************************)
(* Without a verified payload the score cannot leave the low band, or just.*)
(***************************************************************************)
LEMMA UnverifiedFollows == IInv => UnverifiedIsLowConfidence
<1> USE UnitAssumption
<1> SUFFICES ASSUME IInv, stage = "done", ~Ok
             PROVE  \/ trust.band = "low-confidence"
                    \/ /\ error = "frame sync failed"
                       /\ diagnostics.confidence = Unit
                       /\ trust.band = "guarded"
  BY DEF UnverifiedIsLowConfidence
<1>0. CASE Unscored
  BY <1>0 DEF IInv, Scored, NoTrust
<1> DEFINE f == Features
           score == TrustScoreOf(Features)
<1>1. ~Unscored => trust.band = Band(f, score)
  BY DEF IInv, Scored
<1>2. payload \in {"none", "crc mismatch"}
  BY DEF IInv, Progress, Ok
<1>3. /\ f.accepted = diagnostics.accepted
      /\ f.crc_evaluated = (payload # "none") /\ f.crc_pass = (payload = "crc ok")
  BY FeaturesAreFractions
<1>4. CASE ~Unscored /\ (payload = "crc mismatch" \/ ~diagnostics.accepted)
  <2> HIDE DEF f, score
  <2>1. ~f.accepted \/ (f.crc_evaluated /\ ~f.crc_pass)
    BY <1>3, <1>4
  <2>2. Band(f, score) = "low-confidence"
    BY <2>1 DEF Band, Assessment
  <2> QED
    BY <1>1, <1>4, <2>2
<1>5. CASE ~Unscored /\ payload = "none" /\ diagnostics.accepted
  <2>1. error = "frame sync failed"
    BY <1>5 DEF IInv, Progress
  <2>2. score \in Nat
    BY ScoreOfEvidence
  <2>3. score <= 3 * f.acquisition_peak + 3 * f.peak_separation + 2 * (Unit - f.uncertainty) + Unit
    <3>1. score <= WeightedSum(Features)
      BY <1>5, ScoreOfEvidence
    <3>2. /\ WeightedSum(Features) \in Nat
          /\ WeightedSum(Features) <= 3 * Features.acquisition_peak
               + 3 * Features.peak_separation + 2 * (Unit - Features.uncertainty) + Unit
      BY <1>5, WeightedSumOfFractions
    <3>3. /\ Features.acquisition_peak \in Fraction /\ Features.peak_separation \in Fraction
          /\ Features.uncertainty \in Fraction
      BY FeaturesAreFractions
    <3> HIDE DEF score
    <3> QED
      BY <2>2, <3>1, <3>2, <3>3 DEF Fraction, score
  <2>4. /\ f.acquisition_peak \in 0 .. Unit /\ f.peak_separation \in 0 .. Unit
        /\ f.uncertainty \in 0 .. Unit
    BY FeaturesAreFractions DEF Fraction
  <2>5. f.uncertainty = (IF diagnostics.search_completed
                           THEN Unit - diagnostics.confidence ELSE Unit)
    BY DEF Features, TrustFeatures
  <2>6. diagnostics.confidence \in 0 .. Unit
    BY DEF IInv, DiagnosticsMeasured, Fraction
  <2>7. f.weak_fraction = Unit
    BY <1>5, UndecodedFeatures
  <2> HIDE DEF f, score
  <2>8. CASE diagnostics.confidence # Unit
    <3>1. Unit - f.uncertainty < Unit
      BY <2>4, <2>5, <2>6, <2>8
    <3>2. score < 9 * Unit
      BY <2>2, <2>3, <2>4, <3>1
    <3>3. Band(f, score) = "low-confidence"
      BY <2>2, <3>2 DEF Band, ScoreBelow
    <3> QED
      BY <1>1, <1>5, <3>3
  <2>9. CASE diagnostics.confidence = Unit
    <3>1. Above(f.weak_fraction, 8)
      BY <2>7 DEF Above
    <3>2. Band(f, score) \in {"low-confidence", "guarded"}
      BY <3>1 DEF Band, Assessment
    <3> QED
      BY <1>1, <1>5, <2>1, <2>9, <3>2
  <2> QED
    BY <2>8, <2>9
<1> QED
  BY <1>0, <1>2, <1>4, <1>5

(***************************************************************************)
(* The caps of the score are those that the property states.               *)
(***************************************************************************)
LEMMA ScoreFollows == IInv => ScoreWithinEvidence
<1> USE UnitAssumption
<1> SUFFICES ASSUME IInv, stage = "done"
             PROVE  /\ ~diagnostics.accepted => trust.score <= 3 * Unit
                    /\ payload = "crc mismatch" => trust.score <= 7 * Unit
                    /\ diagnostics = NoDiagnostics => trust.score <= Unit
  BY DEF ScoreWithinEvidence
<1>0. CASE Unscored
  <2>1. trust = NoTrust
    BY <1>0 DEF IInv, Scored
  <2>2. trust.score = 0
    BY <2>1 DEF NoTrust
  <2>3. 0 <= 3 * Unit /\ 0 <= 7 * Unit /\ 0 <= Unit
    OBVIOUS
  <2> QED
    BY <2>2, <2>3
<1>1. ~Unscored => trust.score = TrustScoreOf(Features)
  BY DEF IInv, Scored
<1>2. /\ TrustScoreOf(Features) \in Nat
      /\ ~diagnostics.accepted => TrustScoreOf(Features) <= 3 * Unit
      /\ payload = "crc mismatch" => TrustScoreOf(Features) <= 7 * Unit
      /\ payload = "none" => TrustScoreOf(Features) <= WeightedSum(Features)
  BY ScoreOfEvidence
<1>3. ASSUME diagnostics = NoDiagnostics, ~Unscored
      PROVE  TrustScoreOf(Features) <= Unit
  <2>1. payload = "none"
    BY <1>3 DEF IInv, Progress, NoDiagnostics
  <2>2. /\ Features.acquisition_peak = 0 /\ Features.peak_separation = 0
        /\ Features.uncertainty = Unit
    BY <1>3 DEF Features, TrustFeatures, NoDiagnostics
  <2>3. WeightedSum(Features) \in Nat /\ WeightedSum(Features) <= 3 * 0 + 3 * 0 + 2 * (Unit - Unit) + Unit
    BY <1>3, <2>1, <2>2, WeightedSumOfFractions
  <2> QED
    BY <1>2, <2>1, <2>3
<1> QED
  BY <1>0, <1>1, <1>2, <1>3

-----------------------------------------------------------------------------
(* The theorems.                                                            *)

(***************************************************************************)
(* The invariant holds throughout every replay.                            *)
(***************************************************************************)
THEOREM Invariance == Spec => []IInv
<1>1. Init => IInv
  BY InitIInv
<1>2. IInv /\ [Next]_vars => IInv'
  <2> SUFFICES ASSUME IInv, [Next]_vars PROVE IInv'
    OBVIOUS
  <2>1. CASE Next
    BY <2>1, EarlyStepIInv, PrepareAcquisitionIInv, SearchCaptureIInv, AlignFrameIInv,
       DemodulateIInv, FindFrameIInv, DecodeIInv, ScoreTrustIInv DEF Next
  <2>2. CASE UNCHANGED vars
    <3>1. /\ config' = config /\ capture' = capture /\ stage' = stage /\ error' = error
          /\ plan' = plan /\ diagnostics' = diagnostics /\ demod' = demod
          /\ frame' = frame /\ payload' = payload /\ trust' = trust
      BY <2>2 DEF vars, inputs, acquisition, decoding
    <3>2. FoundFrame' = FoundFrame /\ Features' = Features
      BY <3>1 DEF FoundFrame, SyncScore, Features
    <3>3. Inputs' /\ FrameFits' /\ PlanIsPrepared' /\ DiagnosticsMeasured'
      BY <3>1 DEF IInv, Inputs, FrameFits, PlanIsPrepared, DiagnosticsMeasured, Searched
    <3>4. FrameMeasured' /\ Progress'
      BY <3>1, <3>2 DEF IInv, FrameMeasured, Progress, Unscored, FrameSymbols
    <3>5. Scored'
      BY <3>1, <3>2 DEF IInv, Scored, Unscored
    <3>6. AcceptedFrameInsideCapture' /\ AcceptedPeakStandsOut'
      BY <3>1, AcceptedStays DEF IInv, inputs
    <3> QED
      BY <3>3, <3>4, <3>5, <3>6 DEF IInv
  <2> QED
    BY <2>1, <2>2
<1> QED
  BY <1>1, <1>2, PTL DEF Spec

(***************************************************************************)
(* An accepted acquisition leaves preamble and frame inside the capture,   *)
(* for every size_t and every configuration, wrap-around included.         *)
(***************************************************************************)
THEOREM AcceptedFrameFits == Spec => []AcceptedFrameInsideCapture
<1>1. IInv => AcceptedFrameInsideCapture
  BY DEF IInv
<1> QED
  BY <1>1, Invariance, PTL

(***************************************************************************)
(* An accepted peak stands out from every other hypothesis of the grid.    *)
(***************************************************************************)
THEOREM AcceptedPeakIsClear == Spec => []AcceptedPeakStandsOut
<1>1. IInv => AcceptedPeakStandsOut
  BY DEF IInv
<1> QED
  BY <1>1, Invariance, PTL

(***************************************************************************)
(* The frame search never disagrees with the acquisition.                  *)
(***************************************************************************)
THEOREM FrameSyncCorrect == Spec => []FrameSyncAgrees
  BY FrameSyncFollows, Invariance, PTL

(***************************************************************************)
(* High confidence is reported for verified payloads only.                 *)
(***************************************************************************)
THEOREM HighConfidenceCorrect == Spec => []HighConfidenceIsDecoded
  BY HighConfidenceFollows, Invariance, PTL

(***************************************************************************)
(* What is not verified is low confidence, but for the boundary case that  *)
(* the property names.                                                     *)
(***************************************************************************)
THEOREM UnverifiedCorrect == Spec => []UnverifiedIsLowConfidence
  BY UnverifiedFollows, Invariance, PTL

(***************************************************************************)
(* Both directions together: the band is justified by what was verified.   *)
(***************************************************************************)
THEOREM BandCorrect == Spec => []BandIsJustified
BY HighConfidenceCorrect, UnverifiedCorrect, PTL DEF BandIsJustified

(***************************************************************************)
(* The score is capped by the evidence, for fractions of any resolution.   *)
(***************************************************************************)
THEOREM ScoreCorrect == Spec => []ScoreWithinEvidence
  BY ScoreFollows, Invariance, PTL

-----------------------------------------------------------------------------
(* The frame search over any buffer.                                       *)

\* The correlation is an integer above the mark, and as large as the sync word
\* exactly when all of it agrees.
LEMMA CorrelationIs ==
  ASSUME sync_word \in SyncWords, NEW o
  PROVE  /\ CorrelateSync(o) \in Int
         /\ LowestInt < CorrelateSync(o)
         /\ CorrelateSync(o) <= Len(sync_word)
         /\ CorrelateSync(o) = Len(sync_word) <=> Undamaged(o)
<1> DEFINE n == Len(sync_word)
           all == 1 .. n
           agreeing == Agreeing(o)
           count == Cardinality(agreeing)
<1>1. n \in Nat /\ LowestInt \in Int /\ LowestInt < -n
  BY FrameSearchAssumption
<1>2. agreeing \in SUBSET all
  BY DEF Agreeing
<1>3. IsFiniteSet(all) /\ Cardinality(all) = n
  <2> HIDE DEF n
  <2>1. 1 \in Int /\ n \in Int
    BY <1>1
  <2>2. IsFiniteSet(1 .. n) /\ Cardinality(1 .. n) = IF 1 > n THEN 0 ELSE n - 1 + 1
    BY <2>1, FS_Interval
  <2> QED
    BY <1>1, <2>2
<1> HIDE DEF n, all, agreeing
<1>4. /\ IsFiniteSet(agreeing)
      /\ Cardinality(agreeing) <= Cardinality(all)
      /\ Cardinality(all) = Cardinality(agreeing) => all = agreeing
  BY <1>2, <1>3, FS_Subset
<1>5. count \in Nat
  BY <1>4, FS_CardinalityType
<1>6. CorrelateSync(o) = 2 * count - n
  BY DEF CorrelateSync, agreeing, n
<1>7. count <= n /\ (count = n <=> agreeing = all)
  BY <1>3, <1>4
<1> HIDE DEF count
<1>8. Undamaged(o) <=> agreeing = all
  BY DEF Undamaged, agreeing, all, n
<1>9. CorrelateSync(o) \in Int /\ LowestInt < CorrelateSync(o) /\ CorrelateSync(o) <= n
  BY <1>1, <1>5, <1>6, <1>7
<1>10. CorrelateSync(o) = n <=> count = n
  BY <1>1, <1>5, <1>6
<1> QED
  BY <1>7, <1>8, <1>9, <1>10 DEF n

(***************************************************************************)
(* What is kept after the first n offsets: the first best of them and the  *)
(* first best of the others, or the mark where there is none.              *)
(***************************************************************************)
KeptIs(kept, among) ==
  IF among = {} THEN kept.score = LowestInt
                ELSE /\ IsFirstBest(kept.offset, among)
                     /\ kept.score = CorrelateSync(kept.offset)

IsTopTwoOf(n) ==
  /\ KeptIs(best, 0 .. n - 1)
  /\ KeptIs(second_best, IF n = 0 THEN {} ELSE (0 .. n - 1) \ {best.offset})

FrameSearchInv ==
  /\ soft_bits \in Buffers /\ sync_word \in SyncWords
  /\ coded_bits_per_frame \in FrameLengths /\ min_correlation_score \in Thresholds
  /\ progress \in {"called", "searching", "found", "refused"}
  /\ progress = "called" => offset = 0 /\ best = NoMatch /\ second_best = NoMatch
  /\ progress \in {"called", "searching"} => frames = << >>
  /\ progress \in {"searching", "found"} => ~FramingInvalid
  /\ progress = "searching" => offset \in 0 .. MaxOffset + 1 /\ IsTopTwoOf(offset)
  /\ progress = "found" =>
       /\ IsTopTwoOf(MaxOffset + 1)
       /\ best.score >= min_correlation_score
       /\ frames = <<FrameAt>>
  /\ progress = "refused" /\ ~FramingInvalid =>
       /\ IsTopTwoOf(MaxOffset + 1)
       /\ best.score < min_correlation_score

LEMMA SearchSizes ==
  ASSUME FrameSearchInv
  PROVE  /\ Len(sync_word) \in Nat /\ coded_bits_per_frame \in Nat /\ Len(soft_bits) \in Nat
         /\ MaxOffset \in Int /\ min_correlation_score \in Int
         /\ ~FramingInvalid => MaxOffset \in Nat /\ FrameOffsets = 0 .. MaxOffset
<1>1. /\ Len(sync_word) \in Nat /\ coded_bits_per_frame \in Nat /\ Len(soft_bits) \in Nat
      /\ min_correlation_score \in Int
  BY FrameSearchAssumption DEF FrameSearchInv
<1>2. MaxOffset \in Int
  BY <1>1 DEF MaxOffset
<1>3. ASSUME ~FramingInvalid
      PROVE  MaxOffset \in Nat /\ FrameOffsets = 0 .. MaxOffset
  <2>1. MaxOffset \in Nat
    BY <1>1, <1>3 DEF MaxOffset, FramingInvalid
  <2>2. \A o \in Int : o \in FrameOffsets <=> o \in 0 .. MaxOffset
    BY <1>1 DEF MaxOffset, FrameOffsets
  <2>3. (\A o \in FrameOffsets : o \in Int) /\ \A o \in 0 .. MaxOffset : o \in Int
    BY <1>1 DEF FrameOffsets
  <2>4. \A o : o \in FrameOffsets <=> o \in 0 .. MaxOffset
    BY <2>2, <2>3
  <2> HIDE DEF MaxOffset
  <2>5. FrameOffsets = 0 .. MaxOffset
    BY <2>4
  <2> QED
    BY <2>1, <2>5
<1> QED
  BY <1>1, <1>2, <1>3

(***************************************************************************)
(* A later offset joins a set: it is the first best when it correlates     *)
(* better than the first best so far, which it otherwise leaves.           *)
(***************************************************************************)
LEMMA LaterOffset ==
  ASSUME sync_word \in SyncWords, NEW among \in SUBSET Int, NEW o \in Int,
         \A other \in among : other < o,
         NEW kept, KeptIs(kept, among)
  PROVE  LET match == [score |-> CorrelateSync(o), offset |-> o]
         IN  /\ match.score > kept.score => KeptIs(match, among \cup {o})
             /\ ~(match.score > kept.score) => KeptIs(kept, among \cup {o})
<1> DEFINE match == [score |-> CorrelateSync(o), offset |-> o]
<1>1. match.score = CorrelateSync(o) /\ match.offset = o
  OBVIOUS
<1>2. \A other : CorrelateSync(other) \in Int /\ LowestInt < CorrelateSync(other)
  BY CorrelationIs
<1>3. LowestInt \in Int
  BY FrameSearchAssumption
<1> HIDE DEF match
<1>4. CASE among = {}
  <2>1. match.score > kept.score
    BY <1>1, <1>2, <1>3, <1>4 DEF KeptIs
  <2>2. IsFirstBest(o, among \cup {o})
    BY <1>2, <1>4 DEF IsFirstBest
  <2> QED
    BY <1>1, <2>1, <2>2 DEF KeptIs, match
<1>5. CASE among # {}
  <2>1. IsFirstBest(kept.offset, among) /\ kept.score = CorrelateSync(kept.offset)
    BY <1>5 DEF KeptIs
  <2>2. kept.offset \in among /\ kept.offset \in Int /\ kept.offset < o
    BY <2>1 DEF IsFirstBest
  <2>3. CASE match.score > kept.score
    <3>1. IsFirstBest(o, among \cup {o})
      <4>1. ASSUME NEW other \in among \cup {o}
            PROVE  /\ CorrelateSync(other) <= CorrelateSync(o)
                   /\ other < o => CorrelateSync(other) < CorrelateSync(o)
        <5>1. CASE other = o
          BY <1>2, <5>1
        <5>2. CASE other \in among
          <6>1. CorrelateSync(other) <= CorrelateSync(kept.offset)
            BY <2>1, <5>2 DEF IsFirstBest
          <6>2. CorrelateSync(kept.offset) < CorrelateSync(o)
            BY <1>1, <1>2, <2>1, <2>3
          <6> QED
            BY <1>2, <6>1, <6>2
        <5> QED
          BY <5>1, <5>2
      <4> QED
        BY <4>1 DEF IsFirstBest
    <3> QED
      BY <1>1, <2>3, <3>1 DEF KeptIs, match
  <2>4. CASE ~(match.score > kept.score)
    <3>1. CorrelateSync(o) <= CorrelateSync(kept.offset)
      BY <1>1, <1>2, <2>1, <2>4
    <3>2. IsFirstBest(kept.offset, among \cup {o})
      BY <2>1, <2>2, <3>1 DEF IsFirstBest
    <3> QED
      BY <2>1, <2>4, <3>2 DEF KeptIs, match
  <2> QED
    BY <2>3, <2>4
<1> QED
  BY <1>4, <1>5 DEF match

\* The two kept after one more offset.
LEMMA ConsiderKeepsBoth ==
  ASSUME FrameSearchInv, ConsiderOffset
  PROVE  IsTopTwoOf(offset)'
<1> DEFINE match == [score |-> CorrelateSync(offset), offset |-> offset]
           before == 0 .. offset - 1
           others == before \ {best.offset}
<1>1. offset \in Nat /\ sync_word \in SyncWords /\ IsTopTwoOf(offset)
  BY SearchSizes DEF FrameSearchInv, ConsiderOffset
<1>2. Consider(match) /\ offset' = offset + 1
  BY DEF ConsiderOffset
<1>3. 0 .. offset = before \cup {offset} /\ 0 .. offset' - 1 = 0 .. offset /\ offset' # 0
  BY <1>1, <1>2
<1>4. /\ before \in SUBSET Int /\ others \in SUBSET Int
      /\ \A other \in before : other < offset
      /\ \A other \in others : other < offset
      /\ offset \notin before
  BY <1>1
<1>5. match.score = CorrelateSync(offset) /\ match.offset = offset
  OBVIOUS
<1>6. KeptIs(best, before) /\ (offset # 0 => KeptIs(second_best, others))
  BY <1>1 DEF IsTopTwoOf
<1>7. offset # 0 => best.offset \in before
  <2> SUFFICES ASSUME offset # 0 PROVE best.offset \in before
    OBVIOUS
  <2>1. before # {}
    BY <1>1
  <2> QED
    BY <1>6, <2>1 DEF KeptIs, IsFirstBest
<1>8. /\ KeptIs(best', 0 .. offset)
      /\ KeptIs(second_best', (0 .. offset) \ {best'.offset})
  <2>1. /\ match.score > best.score => KeptIs(match, before \cup {offset})
        /\ ~(match.score > best.score) => KeptIs(best, before \cup {offset})
    <3> HIDE DEF before
    <3> QED
      BY <1>1, <1>4, <1>6, LaterOffset
  <2>2. CASE match.score > best.score
    <3>1. best' = match /\ second_best' = best
      BY <1>2, <2>2 DEF Consider
    <3>2. (0 .. offset) \ {offset} = before
      BY <1>3, <1>4
    <3> HIDE DEF match, before
    <3> QED
      BY <1>3, <1>5, <1>6, <2>1, <2>2, <3>1, <3>2
  <2>3. CASE ~(match.score > best.score)
    <3>1. /\ best' = best
          /\ match.score > second_best.score => second_best' = match
          /\ ~(match.score > second_best.score) => second_best' = second_best
      BY <1>2, <2>3 DEF Consider
    <3>2. offset # 0
      <4> SUFFICES ASSUME offset = 0 PROVE FALSE
        OBVIOUS
      <4>1. before = {}
        BY <1>1
      <4>2. best.score = LowestInt
        BY <1>6, <4>1 DEF KeptIs
      <4>3. CorrelateSync(offset) \in Int /\ LowestInt < CorrelateSync(offset) /\ LowestInt \in Int
        BY <1>1, CorrelationIs, FrameSearchAssumption
      <4> QED
        BY <1>5, <2>3, <4>2, <4>3
    <3>3. (0 .. offset) \ {best.offset} = others \cup {offset}
      BY <1>3, <1>4, <1>7, <3>2
    <3>4. /\ match.score > second_best.score => KeptIs(match, others \cup {offset})
          /\ ~(match.score > second_best.score) => KeptIs(second_best, others \cup {offset})
      <4>1. KeptIs(second_best, others)
        BY <1>6, <3>2
      <4> HIDE DEF others
      <4> QED
        BY <1>1, <1>4, <4>1, LaterOffset
    <3> HIDE DEF match, before, others
    <3> QED
      BY <1>3, <2>1, <2>3, <3>1, <3>3, <3>4
  <2> QED
    BY <2>2, <2>3
<1>9. soft_bits' = soft_bits /\ sync_word' = sync_word
  BY DEF ConsiderOffset, search_input
<1>10. /\ KeptIs(best, 0 .. offset - 1)'
       /\ KeptIs(second_best, IF offset = 0 THEN {} ELSE (0 .. offset - 1) \ {best.offset})'
  BY <1>3, <1>8, <1>9 DEF KeptIs, IsFirstBest, CorrelateSync, Agreeing
<1> QED
  BY <1>10 DEF IsTopTwoOf

LEMMA FrameSearchInvInit == FrameSearchInit => FrameSearchInv
BY DEF FrameSearchInit, FrameSearchInv

LEMMA FrameSearchInvStep == FrameSearchInv /\ [FrameSearchNext]_search_vars => FrameSearchInv'
<1> SUFFICES ASSUME FrameSearchInv, [FrameSearchNext]_search_vars PROVE FrameSearchInv'
  OBVIOUS
<1>1. /\ Len(sync_word) \in Nat /\ MaxOffset \in Int
      /\ ~FramingInvalid => MaxOffset \in Nat
  BY SearchSizes
<1>2. UNCHANGED search_input =>
        /\ MaxOffset' = MaxOffset
        /\ FramingInvalid' <=> FramingInvalid
        /\ \A n : UNCHANGED <<best, second_best>> => (IsTopTwoOf(n)' <=> IsTopTwoOf(n))
  <2> SUFFICES ASSUME UNCHANGED search_input
               PROVE  /\ MaxOffset' = MaxOffset
                      /\ FramingInvalid' <=> FramingInvalid
                      /\ \A n : UNCHANGED <<best, second_best>> => (IsTopTwoOf(n)' <=> IsTopTwoOf(n))
    OBVIOUS
  <2>1. soft_bits' = soft_bits /\ sync_word' = sync_word /\ coded_bits_per_frame' = coded_bits_per_frame
    BY DEF search_input
  <2>2. MaxOffset' = MaxOffset /\ (FramingInvalid' <=> FramingInvalid)
    BY <2>1 DEF MaxOffset, FramingInvalid
  <2>3. ASSUME NEW n, UNCHANGED <<best, second_best>> PROVE IsTopTwoOf(n)' <=> IsTopTwoOf(n)
    BY <2>1, <2>3 DEF IsTopTwoOf, KeptIs, IsFirstBest, CorrelateSync, Agreeing
  <2> QED
    BY <2>2, <2>3
<1>3. CASE RefuseFraming
  BY <1>2, <1>3 DEF RefuseFraming, search_input, FrameSearchInv
<1>4. CASE StartFrameSearch
  <2>1. IsTopTwoOf(0)
    BY <1>4 DEF IsTopTwoOf, KeptIs, NoMatch, StartFrameSearch, FrameSearchInv
  <2>2. IsTopTwoOf(offset)' /\ ~FramingInvalid' /\ MaxOffset' = MaxOffset /\ MaxOffset \in Nat
    BY <1>1, <1>2, <1>4, <2>1 DEF StartFrameSearch, FrameSearchInv
  <2> QED
    BY <1>4, <2>2 DEF StartFrameSearch, search_input, FrameSearchInv
<1>5. CASE ConsiderOffset
  <2>1. IsTopTwoOf(offset)'
    BY <1>5, ConsiderKeepsBoth
  <2>2. /\ offset' \in 0 .. MaxOffset + 1 /\ MaxOffset' = MaxOffset /\ ~FramingInvalid'
        /\ progress' = "searching" /\ frames' = << >>
    BY <1>1, <1>2, <1>5 DEF ConsiderOffset, FrameSearchInv
  <2> QED
    BY <1>5, <2>1, <2>2 DEF ConsiderOffset, search_input, FrameSearchInv
<1>6. CASE ReportFrame
  <2>1. offset = MaxOffset + 1 /\ ~FramingInvalid /\ IsTopTwoOf(MaxOffset + 1) /\ frames = << >>
    BY <1>1, <1>6 DEF ReportFrame, FrameSearchInv
  <2>2. IsTopTwoOf(MaxOffset + 1)' /\ ~FramingInvalid'
    BY <1>2, <1>6, <2>1 DEF ReportFrame
  <2>3. best.score \in Int /\ min_correlation_score \in Int
    <3>1. 0 .. (MaxOffset + 1) - 1 # {}
      BY <1>1, <2>1
    <3>2. best.score = CorrelateSync(best.offset)
      BY <2>1, <3>1 DEF IsTopTwoOf, KeptIs
    <3> QED
      BY <3>2, SearchSizes, CorrelationIs DEF FrameSearchInv
  <2>4. CASE best.score < min_correlation_score
    BY <1>6, <2>1, <2>2, <2>4 DEF ReportFrame, search_input, FrameSearchInv
  <2>5. CASE ~(best.score < min_correlation_score)
    <3>1. progress' = "found" /\ frames' = <<FrameAt>>
      BY <1>6, <2>1, <2>5 DEF ReportFrame
    <3>2. FrameAt' = FrameAt
      BY <1>6 DEF ReportFrame, search_input, FrameAt
    <3> QED
      BY <1>6, <2>2, <2>3, <2>5, <3>1, <3>2 DEF ReportFrame, search_input, FrameSearchInv
  <2> QED
    BY <2>4, <2>5
<1>7. CASE UNCHANGED search_vars
  <2>1. FrameAt' = FrameAt /\ NoMatch' = NoMatch
    BY <1>7 DEF search_vars, search_input, FrameAt, NoMatch
  <2> QED
    BY <1>2, <1>7, <2>1 DEF search_vars, search_input, FrameSearchInv
<1> QED
  BY <1>3, <1>4, <1>5, <1>6, <1>7 DEF FrameSearchNext

THEOREM FrameSearchInvariant == FrameSearchSpec => []FrameSearchInv
BY FrameSearchInvInit, FrameSearchInvStep, PTL DEF FrameSearchSpec

\* The outcome of a search of a buffer that has room for a frame.
LEMMA SearchEnds ==
  ASSUME FrameSearchInv, progress \in {"found", "refused"}, ~FramingInvalid
  PROVE  /\ IsFirstBest(best.offset, FrameOffsets)
         /\ best.score = CorrelateSync(best.offset)
         /\ second_best.score # LowestInt <=> FrameOffsets \ {best.offset} # {}
         /\ FrameOffsets \ {best.offset} # {} =>
              /\ IsFirstBest(second_best.offset, FrameOffsets \ {best.offset})
              /\ second_best.score = CorrelateSync(second_best.offset)
         /\ progress = "found" => frames[1] = FrameAt
         /\ progress = "refused" => best.score < min_correlation_score
         /\ min_correlation_score \in Int
<1>1. /\ IsTopTwoOf(MaxOffset + 1)
      /\ progress = "found" => frames = <<FrameAt>>
      /\ progress = "refused" => best.score < min_correlation_score
  BY DEF FrameSearchInv
<1>2. MaxOffset \in Nat /\ FrameOffsets = 0 .. MaxOffset /\ min_correlation_score \in Int
  BY SearchSizes
<1>3. 0 .. (MaxOffset + 1) - 1 = FrameOffsets /\ FrameOffsets # {} /\ MaxOffset + 1 # 0
  <2> HIDE DEF MaxOffset
  <2> QED
    BY <1>2
<1>4. KeptIs(best, FrameOffsets) /\ KeptIs(second_best, FrameOffsets \ {best.offset})
  BY <1>1, <1>3 DEF IsTopTwoOf
<1>5. \A o : LowestInt # CorrelateSync(o)
  BY CorrelationIs, FrameSearchAssumption DEF FrameSearchInv
<1> QED
  BY <1>1, <1>2, <1>3, <1>4, <1>5 DEF KeptIs

(***************************************************************************)
(* FrameIsFirstBest for buffers, sync words and frames of any length.      *)
(***************************************************************************)
THEOREM FrameSearchCorrect == FrameSearchSpec => []FrameIsFirstBest
<1>1. FrameSearchInv => FrameIsFirstBest
  <2> SUFFICES ASSUME FrameSearchInv PROVE FrameIsFirstBest
    OBVIOUS
  <2>1. CASE progress = "found"
    <3>1. ~FramingInvalid
      BY <2>1 DEF FrameSearchInv
    <3>2. frames[1] = FrameAt
      BY <2>1, <3>1, SearchEnds
    <3>3. /\ FrameAt.sync_start_index = best.offset
          /\ FrameAt.correlation_score = best.score
          /\ FrameAt.has_second_best_correlation <=> second_best.score # LowestInt
          /\ FrameAt.second_best_sync_start_index = second_best.offset
          /\ second_best.score # LowestInt => FrameAt.second_best_correlation_score = second_best.score
      BY DEF FrameAt
    <3> DEFINE others == FrameOffsets \ {best.offset}
    <3>4. /\ IsFirstBest(best.offset, FrameOffsets)
          /\ best.score = CorrelateSync(best.offset)
          /\ second_best.score # LowestInt <=> others # {}
          /\ others # {} => /\ IsFirstBest(second_best.offset, others)
                            /\ second_best.score = CorrelateSync(second_best.offset)
      BY <2>1, <3>1, SearchEnds
    <3> QED
      BY <2>1, <3>2, <3>3, <3>4 DEF FrameIsFirstBest
  <2>2. CASE progress = "refused" /\ ~FramingInvalid
    <3>1. /\ IsFirstBest(best.offset, FrameOffsets)
          /\ CorrelateSync(best.offset) < min_correlation_score
          /\ min_correlation_score \in Int
      BY <2>2, SearchEnds
    <3>2. \A o : CorrelateSync(o) \in Int
      BY CorrelationIs DEF FrameSearchInv
    <3>3. \A o \in FrameOffsets : CorrelateSync(o) < min_correlation_score
      BY <3>1, <3>2 DEF IsFirstBest
    <3> QED
      BY <2>2, <3>3 DEF FrameIsFirstBest
  <2> QED
    BY <2>1, <2>2 DEF FrameIsFirstBest
<1> QED
  BY <1>1, FrameSearchInvariant, PTL

(***************************************************************************)
(* An undamaged sync word correlates better than every damaged one, so     *)
(* that it is found, wherever it lies, in buffers of any length.           *)
(***************************************************************************)
THEOREM UndamagedSyncCorrect == FrameSearchSpec => []UndamagedSyncIsFound
<1>1. FrameSearchInv => UndamagedSyncIsFound
  <2> DEFINE undamaged == {o \in FrameOffsets : Undamaged(o)}
             n == Len(sync_word)
             first == best.offset
             others == FrameOffsets \ {first}
  <2> SUFFICES ASSUME FrameSearchInv, progress \in {"found", "refused"}, ~FramingInvalid,
                      min_correlation_score <= n, undamaged # {}
               PROVE  /\ progress = "found"
                      /\ frames[1].sync_start_index \in undamaged
                      /\ \A o \in undamaged : frames[1].sync_start_index <= o
                      /\ frames[1].has_second_best_correlation =>
                           (frames[1].correlation_score = frames[1].second_best_correlation_score
                              <=> undamaged # {frames[1].sync_start_index})
    BY DEF UndamagedSyncIsFound
  <2>1. /\ IsFirstBest(first, FrameOffsets)
        /\ best.score = CorrelateSync(first)
        /\ second_best.score # LowestInt <=> others # {}
        /\ others # {} => /\ IsFirstBest(second_best.offset, others)
                          /\ second_best.score = CorrelateSync(second_best.offset)
        /\ progress = "found" => frames[1] = FrameAt
        /\ progress = "refused" => best.score < min_correlation_score
        /\ min_correlation_score \in Int
    BY SearchEnds
  <2>2. n \in Nat /\ FrameOffsets \subseteq Int
    BY SearchSizes
  <2>3. \A o : /\ CorrelateSync(o) \in Int /\ CorrelateSync(o) <= n
               /\ CorrelateSync(o) = n <=> Undamaged(o)
    BY CorrelationIs DEF FrameSearchInv
  <2> HIDE DEF n
  <2>4. PICK sent \in FrameOffsets : Undamaged(sent)
    OBVIOUS
  <2>5. CorrelateSync(first) = n
    BY <2>1, <2>2, <2>3, <2>4 DEF IsFirstBest
  <2>6. progress = "found" /\ frames[1] = FrameAt
    BY <2>1, <2>2, <2>5
  <2>7. first \in undamaged
    BY <2>1, <2>3, <2>5 DEF IsFirstBest
  <2>8. ASSUME NEW o \in undamaged PROVE first <= o
    <3>1. CorrelateSync(o) = n /\ o \in FrameOffsets /\ o \in Int /\ first \in Int
      BY <2>2, <2>3, <2>7
    <3>2. o < first => CorrelateSync(o) < CorrelateSync(first)
      BY <2>1, <3>1 DEF IsFirstBest
    <3> QED
      BY <2>2, <2>5, <3>1, <3>2
  <2>9. ASSUME second_best.score # LowestInt
        PROVE  best.score = second_best.score <=> undamaged # {first}
    <3>1. IsFirstBest(second_best.offset, others) /\ second_best.score = CorrelateSync(second_best.offset)
      BY <2>1, <2>9
    <3>2. second_best.offset \in others
      BY <3>1 DEF IsFirstBest
    <3>3. ASSUME best.score = second_best.score PROVE undamaged # {first}
      <4>1. Undamaged(second_best.offset)
        BY <2>1, <2>3, <2>5, <3>1, <3>3
      <4> QED
        BY <3>2, <4>1
    <3>4. ASSUME undamaged # {first} PROVE best.score = second_best.score
      <4>1. PICK o \in undamaged : o # first
        BY <2>7, <3>4
      <4>2. o \in others /\ CorrelateSync(o) = n
        BY <2>3, <4>1
      <4>3. CorrelateSync(o) <= CorrelateSync(second_best.offset)
        BY <3>1, <4>2 DEF IsFirstBest
      <4> QED
        BY <2>1, <2>2, <2>3, <2>5, <3>1, <4>2, <4>3
    <3> QED
      BY <3>3, <3>4
  <2>10. /\ FrameAt.sync_start_index = first
         /\ FrameAt.correlation_score = best.score
         /\ FrameAt.has_second_best_correlation <=> second_best.score # LowestInt
         /\ second_best.score # LowestInt => FrameAt.second_best_correlation_score = second_best.score
    BY DEF FrameAt
  <2> HIDE DEF undamaged, first, others
  <2> QED
    BY <2>6, <2>7, <2>8, <2>9, <2>10
<1> QED
  BY <1>1, FrameSearchInvariant, PTL

(***************************************************************************)
(* A buffer of exactly one frame, which is what the pipeline searches, has *)
(* the one offset zero, no second best, and the outcome that FindFrame of  *)
(* ReplayPipeline takes in one step: the score is that of the sync bits    *)
(* that agree, and the threshold alone decides.                            *)
(***************************************************************************)
THEOREM OneFrameHasOneOffset ==
  FrameSearchSpec =>
    [](/\ progress \in {"found", "refused"}
       /\ ~FramingInvalid
       /\ Len(soft_bits) = Len(sync_word) + coded_bits_per_frame
       => LET score == 2 * Cardinality(Agreeing(0)) - Len(sync_word)
          IN  /\ progress = "found" <=> score >= min_correlation_score
              /\ progress = "found" =>
                   /\ frames[1].sync_start_index = 0
                   /\ frames[1].length = coded_bits_per_frame
                   /\ frames[1].correlation_score = score
                   /\ ~frames[1].has_second_best_correlation
                   /\ frames[1].second_best_correlation_score = score)
<1> DEFINE score == 2 * Cardinality(Agreeing(0)) - Len(sync_word)
           OneFrame == /\ progress \in {"found", "refused"}
                       /\ ~FramingInvalid
                       /\ Len(soft_bits) = Len(sync_word) + coded_bits_per_frame
           Outcome == /\ progress = "found" <=> score >= min_correlation_score
                      /\ progress = "found" =>
                           /\ frames[1].sync_start_index = 0
                           /\ frames[1].length = coded_bits_per_frame
                           /\ frames[1].correlation_score = score
                           /\ ~frames[1].has_second_best_correlation
                           /\ frames[1].second_best_correlation_score = score
<1>1. FrameSearchInv => (OneFrame => Outcome)
  <2> SUFFICES ASSUME FrameSearchInv, OneFrame PROVE Outcome
    OBVIOUS
  <2>1. score = CorrelateSync(0) /\ CorrelateSync(0) \in Int
    BY CorrelationIs DEF CorrelateSync, FrameSearchInv
  <2>2. FrameOffsets = {0}
    <3>1. MaxOffset = 0
      BY SearchSizes DEF MaxOffset
    <3>2. FrameOffsets = 0 .. MaxOffset
      BY SearchSizes
    <3> QED
      BY <3>1, <3>2
  <2>3. best.offset = 0 /\ best.score = CorrelateSync(0)
    BY <2>2, SearchEnds DEF IsFirstBest
  <2>4. second_best.score = LowestInt
    BY <2>2, <2>3, SearchEnds
  <2>5. /\ progress = "found" => frames[1] = FrameAt
        /\ progress = "refused" => best.score < min_correlation_score
        /\ progress = "found" => best.score >= min_correlation_score
        /\ min_correlation_score \in Int
    BY SearchEnds DEF FrameSearchInv
  <2>6. progress = "found" <=> score >= min_correlation_score
    BY <2>1, <2>3, <2>5
  <2>7. /\ FrameAt.sync_start_index = 0
        /\ FrameAt.length = coded_bits_per_frame
        /\ FrameAt.correlation_score = best.score
        /\ ~FrameAt.has_second_best_correlation
        /\ FrameAt.second_best_correlation_score = best.score
    BY <2>3, <2>4 DEF FrameAt
  <2> QED
    BY <2>1, <2>3, <2>5, <2>6, <2>7
<1> HIDE DEF OneFrame, Outcome
<1>2. FrameSearchSpec => [](OneFrame => Outcome)
  BY <1>1, FrameSearchInvariant, PTL
<1> QED
  BY <1>2 DEF OneFrame, Outcome

=============================================================================
