------------------------ MODULE AcquisitionPlanProofs ------------------------
(***************************************************************************)
(* Lemmas about plans that the proofs of the searches share: what a        *)
(* preparation leaves, what a plan that a run accepts guarantees, what a   *)
(* contiguous grid looks like when size_t sums cannot wrap around, and     *)
(* that hypotheses of every plan have a peak.                              *)
(***************************************************************************)
EXTENDS AcquisitionCandidates, WellFoundedInduction, TLAPS

(***************************************************************************)
(* A sequence whose elements all lie in a smaller set is a sequence over   *)
(* that set: a configuration without NaN frequencies lists finite ones.    *)
(***************************************************************************)
LEMMA SeqNarrow ==
  ASSUME NEW S, NEW T, NEW seq \in Seq(S), \A i \in DOMAIN seq : seq[i] \in T
  PROVE  seq \in Seq(T)
<1>1. Len(seq) \in Nat /\ DOMAIN seq = 1 .. Len(seq) /\ seq = [i \in 1 .. Len(seq) |-> seq[i]]
  OBVIOUS
<1>2. seq \in [1 .. Len(seq) -> T]
  BY <1>1
<1> QED
  BY <1>1, <1>2

(***************************************************************************)
(* prepare_acquisition_plan leaves a well-typed plan, empty or filled in.  *)
(***************************************************************************)
LEMMA PreparedPlanType ==
  ASSUME NEW config \in Config
  PROVE  PreparedPlan(config) \in Plan
<1> USE SizeAssumption, FrequencyAssumption, NaNAssumption
<1>1. CASE PlanError(config) # NoError
  <2>1. EmptyPlan \in Plan
    BY DEF EmptyPlan, Plan, Size
  <2> QED
    BY <1>1, <2>1 DEF PreparedPlan
<1>2. CASE PlanError(config) = NoError
  <2> DEFINE freqs == config.frequency_offsets_hz
             count == Len(freqs) * config.preamble.length
  <2>1. /\ config.timing_offsets \in Seq(Size)
        /\ freqs \in Seq(Frequencies \cup {NaN})
        /\ config.preamble.length \in Size
    BY DEF Config
  <2>2. /\ config.timing_offsets # << >>
        /\ \A i \in DOMAIN freqs : freqs[i] # NaN
        /\ ~(count > SizeMax)
    BY <1>2, Zenon DEF PlanError, NoError
  <2>3. freqs \in Seq(Frequencies)
    <3>1. \A i \in DOMAIN freqs : freqs[i] \in Frequencies
      BY <2>1, <2>2
    <3> HIDE DEF freqs
    <3> QED
      BY <2>1, <3>1, SeqNarrow
  <2>4. count \in Size
    <3>1. Len(freqs) \in Nat /\ config.preamble.length \in Nat
      BY <2>1 DEF Size
    <3>2. count \in Nat
      BY <3>1
    <3> QED
      BY <2>2, <3>2 DEF Size
  <2>5. config.timing_offsets[1] \in Size
    BY <2>1, <2>2
  <2>6. TimingOffsetsAreContiguous(config.timing_offsets) \in BOOLEAN
    BY DEF TimingOffsetsAreContiguous
  <2> HIDE DEF freqs, count
  <2>7. PreparedPlan(config) =
          [preamble_length           |-> config.preamble.length,
           timing_offsets            |-> config.timing_offsets,
           frequency_hypotheses      |-> freqs,
           weight_count              |-> count,
           timing_offsets_contiguous |-> TimingOffsetsAreContiguous(config.timing_offsets),
           contiguous_timing_start   |-> config.timing_offsets[1]]
    BY <1>2 DEF PreparedPlan, freqs, count
  <2> QED
    BY <2>1, <2>3, <2>4, <2>5, <2>6, <2>7 DEF Plan
<1> QED
  BY <1>1, <1>2

(***************************************************************************)
(* What the checks of a run establish about its plan and capture.          *)
(***************************************************************************)
LEMMA RunnablePlan ==
  ASSUME NEW p \in Plan, NEW c \in Captures, RunError(p, c) = NoError
  PROVE  /\ FrequencyCount(p) \in Nat \ {0} /\ TimingCount(p) \in Nat \ {0}
         /\ p # EmptyPlan
         /\ \A i \in DOMAIN p.timing_offsets :
              p.timing_offsets[i] + p.preamble_length <= Recording[c].length
<1>1. ~PlanIncomplete(p) /\ ~TimingBeyondWindow(p, c)
  BY Zenon DEF RunError, NoError
<1>2. /\ p.timing_offsets \in Seq(Size) /\ p.frequency_hypotheses \in Seq(Frequencies)
      /\ p.preamble_length \in Int /\ Recording[c].length \in Int
  BY CapturesAssumption DEF Plan, Size, ReceivedIq
<1>3. FrequencyCount(p) \in Nat \ {0} /\ TimingCount(p) \in Nat \ {0}
  BY <1>1, <1>2 DEF PlanIncomplete, FrequencyCount, TimingCount
<1>4. p # EmptyPlan
  BY <1>1 DEF PlanIncomplete, EmptyPlan
<1>5. \A i \in DOMAIN p.timing_offsets : p.timing_offsets[i] \in Size
  BY <1>2
<1>6. \A i \in DOMAIN p.timing_offsets : p.timing_offsets[i] \in Int
  BY <1>5, SizeAssumption DEF Size
<1> QED
  BY <1>1, <1>2, <1>3, <1>4, <1>6 DEF TimingBeyondWindow
-----------------------------------------------------------------------------

(***************************************************************************)
(* Below SizeMax a size_t sum is the sum.                                  *)
(***************************************************************************)
LEMMA NoWrapAround ==
  ASSUME NEW a \in Size, NEW b \in Nat, a <= SizeMax - b
  PROVE  SizeAdd(a, b) = a + b
<1>1. a \in Nat /\ SizeMax \in Nat /\ a + b \in Nat /\ a + b < SizeMax + 1
  BY SizeAssumption DEF Size
<1>2. \A x, n \in Nat : x < n => x % n = x
  OBVIOUS
<1> QED
  BY <1>1, <1>2 DEF SizeAdd

-----------------------------------------------------------------------------
(* Every set of hypotheses has a peak.                                      *)

(***************************************************************************)
(* A set of natural numbers that is not empty has a least one.             *)
(***************************************************************************)
LEMMA LeastNatural ==
  ASSUME NEW S, S \subseteq Nat, S # {}
  PROVE  \E least \in S : \A n \in S : least <= n
<1> DEFINE R == OpToRel(<, Nat)
<1>1. \A m, n \in Nat : m < n => <<m, n>> \in R
  BY DEF OpToRel
<1>2. IsWellFoundedOn(R, Nat)
  BY NatLessThanWellFounded
<1> HIDE DEF R
<1>3. PICK least \in S : \A n \in S : <<n, least>> \notin R
  BY <1>2, WFMin
<1>4. \A n \in S : ~(n < least)
  BY <1>1, <1>3
<1>5. \A n \in S : n \in Nat /\ least \in Nat
  OBVIOUS
<1> QED
  BY <1>4, <1>5

(***************************************************************************)
(* A hypothesis of a plan has a number or NaN as its score, and its        *)
(* candidate is valid.                                                     *)
(***************************************************************************)
LEMMA HypothesisIsTyped ==
  ASSUME NEW p \in Plan, NEW c \in Captures, NEW h \in Hypotheses(p)
  PROVE  /\ h[1] \in Nat /\ h[2] \in Nat /\ h = <<h[1], h[2]>>
         /\ h[1] \in DOMAIN p.frequency_hypotheses /\ h[2] \in DOMAIN p.timing_offsets
         /\ p.frequency_hypotheses[h[1]] \in Frequencies
         /\ p.timing_offsets[h[2]] \in Size
         /\ HypothesisScore(p, c, h) \in Score
         /\ CandidateOf(p, c, h).valid
         /\ CandidateOf(p, c, h).score = HypothesisScore(p, c, h)
         /\ CandidateOf(p, c, h).timing_offset = p.timing_offsets[h[2]]
         /\ CandidateOf(p, c, h).frequency_offset_hz = p.frequency_hypotheses[h[1]]
<1>1. p.frequency_hypotheses \in Seq(Frequencies) /\ p.timing_offsets \in Seq(Size)
  BY DEF Plan
<1>2. /\ FrequencyCount(p) \in Nat /\ TimingCount(p) \in Nat
      /\ DOMAIN p.frequency_hypotheses = 1 .. FrequencyCount(p)
      /\ DOMAIN p.timing_offsets = 1 .. TimingCount(p)
  BY <1>1 DEF FrequencyCount, TimingCount
<1>3. h[1] \in 1 .. FrequencyCount(p) /\ h[2] \in 1 .. TimingCount(p) /\ h = <<h[1], h[2]>>
  BY DEF Hypotheses
<1>4. p.frequency_hypotheses[h[1]] \in Frequencies /\ p.timing_offsets[h[2]] \in Size
  BY <1>1, <1>2, <1>3
<1>5. Recording[c].score \in [Frequencies \X Size -> Score]
  BY CapturesAssumption DEF ReceivedIq
<1>6. Recording[c].score[<<p.frequency_hypotheses[h[1]], p.timing_offsets[h[2]]>>] \in Score
  BY <1>4, <1>5
<1> QED
  BY <1>2, <1>3, <1>4, <1>6 DEF HypothesisScore, CandidateOf, CandidateFrom

(***************************************************************************)
(* A set of hypotheses that is not empty has an earliest one.              *)
(***************************************************************************)
LEMMA EarliestExists ==
  ASSUME NEW G, G \subseteq Nat \X Nat, G # {}
  PROVE  \E h \in G : \A g \in G \ {h} : Earlier(h, g)
<1> DEFINE Firsts == {g[1] : g \in G}
<1>1. Firsts \subseteq Nat /\ Firsts # {}
  OBVIOUS
<1>2. PICK first \in Firsts : \A n \in Firsts : first <= n
  BY <1>1, LeastNatural
<1> DEFINE Seconds == {g[2] : g \in {g \in G : g[1] = first}}
<1>3. Seconds \subseteq Nat /\ Seconds # {}
  OBVIOUS
<1>4. PICK second \in Seconds : \A n \in Seconds : second <= n
  BY <1>3, LeastNatural
<1>5. PICK h \in G : h[1] = first /\ h[2] = second
  BY <1>4
<1>6. ASSUME NEW g \in G \ {h} PROVE Earlier(h, g)
  <2>1. g \in Nat \X Nat /\ h \in Nat \X Nat
    OBVIOUS
  <2>2. h[1] <= g[1]
    BY <1>2, <1>5
  <2>3. g[1] = h[1] => h[2] <= g[2]
    BY <1>4, <1>5
  <2>4. g[1] # h[1] \/ g[2] # h[2]
    BY <2>1
  <2> QED
    BY <2>1, <2>2, <2>3, <2>4 DEF Earlier
<1> QED
  BY <1>6

(***************************************************************************)
(* A set of hypotheses that is not empty has a peak: the earliest of the   *)
(* highest scores, or the very first hypothesis when that scored NaN.      *)
(***************************************************************************)
LEMMA PeakExists ==
  ASSUME NEW p \in Plan, NEW c \in Captures,
         NEW H, H \subseteq Hypotheses(p), H # {}
  PROVE  \E h \in H : IsPeak(p, c, h, H)
<1> DEFINE S(h) == HypothesisScore(p, c, h)
<1> USE NaNAssumption, InfinityAssumption
<1>1. \A h \in H : h \in Nat \X Nat /\ S(h) \in Score
  <2> TAKE h \in H
  <2> QED
    BY HypothesisIsTyped
<1>2. PICK first \in H : \A g \in H \ {first} : Earlier(first, g)
  BY <1>1, EarliestExists
<1> HIDE DEF S
<1>3. CASE S(first) = NaN
  <2>1. \A g \in H \ {first} : ~Earlier(g, first)
    BY <1>1, <1>2 DEF Earlier
  <2> QED
    BY <1>3, <2>1 DEF IsPeak, Greater, S
<1>4. CASE S(first) # NaN
  <2> DEFINE Depths == {Infinity - S(h) : h \in {h \in H : S(h) # NaN}}
  <2>1. Depths \subseteq Nat /\ Depths # {}
    BY <1>1, <1>4 DEF Score
  <2>2. PICK depth \in Depths : \A n \in Depths : depth <= n
    BY <2>1, LeastNatural
  <2>3. PICK top \in H : S(top) # NaN /\ depth = Infinity - S(top)
    BY <2>2
  <2>4. \A g \in H : S(g) # NaN => S(g) <= S(top)
    <3> TAKE g \in H
    <3> HAVE S(g) # NaN
    <3>1. Infinity - S(top) <= Infinity - S(g)
      BY <2>2, <2>3
    <3>2. S(g) \in Int /\ S(top) \in Int
      BY <1>1, <2>3 DEF Score
    <3> QED
      BY <3>1, <3>2
  <2> DEFINE Tops == {g \in H : S(g) = S(top)}
  <2>5. Tops \subseteq Nat \X Nat /\ Tops # {}
    BY <1>1
  <2> HIDE DEF Depths, Tops
  <2>6. PICK h \in Tops : \A g \in Tops \ {h} : Earlier(h, g)
    BY <2>5, EarliestExists
  <2> USE DEF Tops
  <2>7. ASSUME NEW g \in H \ {h}
        PROVE  /\ ~Greater(S(g), S(h))
               /\ Earlier(g, h) => \/ Greater(S(h), S(g))
                                   \/ S(g) = NaN /\ \E e \in H : Earlier(e, g)
    <3>1. S(h) = S(top) /\ S(h) # NaN /\ S(h) \in Int /\ h \in H
      BY <1>1, <2>3, <2>6 DEF Score
    <3>2. CASE S(g) = NaN
      <4>1. g # first
        BY <1>4, <3>2
      <4> QED
        BY <1>2, <3>2, <4>1 DEF Greater
    <3>3. CASE S(g) # NaN /\ S(g) = S(top)
      <4>1. Earlier(h, g)
        BY <2>6, <3>3
      <4>2. ~Earlier(g, h)
        BY <1>1, <3>1, <4>1 DEF Earlier
      <4> QED
        BY <3>1, <3>3, <4>2 DEF Greater
    <3>4. CASE S(g) # NaN /\ S(g) # S(top)
      <4>1. S(g) \in Int /\ S(g) <= S(top)
        BY <1>1, <2>4, <3>4 DEF Score
      <4> QED
        BY <3>1, <3>4, <4>1 DEF Greater
    <3> QED
      BY <3>2, <3>3, <3>4
  <2>8. IsPeak(p, c, h, H)
    BY <2>7 DEF IsPeak, S
  <2>9. h \in H
    BY <2>6
  <2> QED
    BY <2>8, <2>9, Zenon
<1> QED
  BY <1>3, <1>4

-----------------------------------------------------------------------------
(* The result of the search.                                                *)

(***************************************************************************)
(* What a search of a plan that the checks admit returns: the peak of all  *)
(* hypotheses, the peak of the others, and their separation.               *)
(***************************************************************************)
LEMMA SearchedPeaks ==
  ASSUME NEW p \in Plan, NEW c \in Captures, RunError(p, c) = NoError
  PROVE  LET r == TopTwoResult(p, c)
             H == Hypotheses(p)
         IN  \E h \in H :
               /\ IsPeak(p, c, h, H)
               /\ r.ok
               /\ r.best = CandidateOf(p, c, h)
               /\ \/ H = {h} /\ r.second_best = NoCandidate
                  \/ \E g \in H \ {h} : /\ IsPeak(p, c, g, H \ {h})
                                        /\ r.second_best = CandidateOf(p, c, g)
               /\ r.normalized_peak_separation = PeakSeparation(r.best, r.second_best)
<1> DEFINE H == Hypotheses(p)
           h == PeakOf(p, c, H)
           second == IF H = {h} THEN NoCandidate
                     ELSE CandidateOf(p, c, PeakOf(p, c, H \ {h}))
           r == TopTwoResult(p, c)
           kept == [NoResult EXCEPT
                      !.best = CandidateOf(p, c, h),
                      !.second_best = second,
                      !.evaluated_candidate_count = FrequencyCount(p) * TimingCount(p)]
<1>1. <<1, 1>> \in H
  BY RunnablePlan DEF Hypotheses
<1> HIDE DEF H
<1>2. \E k \in H : IsPeak(p, c, k, H)
  BY <1>1, PeakExists DEF H
<1>3. h \in H /\ IsPeak(p, c, h, H)
  BY <1>2 DEF PeakOf
<1>4. r = FinishedResult(kept)
  BY DEF TopTwoResult, H
<1> HIDE DEF r, h
<1>5. CandidateOf(p, c, h).valid
  BY <1>3, HypothesisIsTyped DEF H
<1>6. kept.best = CandidateOf(p, c, h) /\ kept.second_best = second
  BY DEF NoResult
<1>7. /\ r.ok /\ r.best = CandidateOf(p, c, h) /\ r.second_best = second
      /\ r.normalized_peak_separation = PeakSeparation(r.best, r.second_best)
  <2>1. r = [kept EXCEPT !.ok = TRUE,
                         !.normalized_peak_separation = PeakSeparation(kept.best, kept.second_best)]
    BY <1>4, <1>5, <1>6 DEF FinishedResult
  <2>2. DOMAIN kept = {"ok", "error", "best", "second_best", "evaluated_candidate_count",
                       "normalized_peak_separation"}
    BY DEF NoResult
  <2> QED
    BY <1>6, <2>1, <2>2
<1> HIDE DEF kept
<1>8. ASSUME H # {h}
      PROVE  \E g \in H \ {h} : /\ IsPeak(p, c, g, H \ {h})
                                /\ second = CandidateOf(p, c, g)
  <2> DEFINE g == PeakOf(p, c, H \ {h})
  <2>1. H \ {h} \subseteq Hypotheses(p) /\ H \ {h} # {}
    BY <1>3, <1>8 DEF H
  <2>2. \E k \in H \ {h} : IsPeak(p, c, k, H \ {h})
    BY <2>1, PeakExists
  <2>3. g \in H \ {h} /\ IsPeak(p, c, g, H \ {h})
    BY <2>2 DEF PeakOf
  <2>4. second = CandidateOf(p, c, g)
    BY <1>8
  <2> HIDE DEF g, second
  <2> QED
    BY <2>3, <2>4
<1>9. H = {h} => second = NoCandidate
  OBVIOUS
<1> HIDE DEF second
<1>10. \/ H = {h} /\ r.second_best = NoCandidate
       \/ \E g \in H \ {h} : /\ IsPeak(p, c, g, H \ {h})
                             /\ r.second_best = CandidateOf(p, c, g)
  BY <1>7, <1>8, <1>9
<1> QED
  BY <1>3, <1>7, <1>10 DEF H, r

(***************************************************************************)
(* The single step of the pipeline's search promises what the searches     *)
(* compute hypothesis by hypothesis: the two best of all, in their order.  *)
(***************************************************************************)
THEOREM SearchResultIsTopTwo ==
  ASSUME NEW p \in Plan, NEW c \in Captures, RunError(p, c) = NoError
  PROVE  IsTopTwo(p, c, TopTwoResult(p, c), Hypotheses(p))
<1> DEFINE H == Hypotheses(p)
           r == TopTwoResult(p, c)
<1>1. PICK h \in H : /\ IsPeak(p, c, h, H)
                     /\ r.best = CandidateOf(p, c, h)
                     /\ \/ H = {h} /\ r.second_best = NoCandidate
                        \/ \E g \in H \ {h} : /\ IsPeak(p, c, g, H \ {h})
                                              /\ r.second_best = CandidateOf(p, c, g)
  BY SearchedPeaks
<1> HIDE DEF H, r
<1>2. IsPeakOf(p, c, r.second_best, H \ {h})
  <2>1. CASE H = {h} /\ r.second_best = NoCandidate
    BY <2>1 DEF IsPeakOf, NoCandidate
  <2>2. CASE \E g \in H \ {h} : /\ IsPeak(p, c, g, H \ {h})
                                /\ r.second_best = CandidateOf(p, c, g)
    BY <2>2 DEF IsPeakOf
  <2> QED
    BY <1>1, <2>1, <2>2
<1>3. IsTopTwo(p, c, r, H)
  BY <1>1, <1>2 DEF IsTopTwo
<1> QED
  BY <1>3 DEF H, r

=============================================================================
