------------------------ MODULE AcquisitionCandidates ------------------------
(***************************************************************************)
(* Captures, candidates and results of an acquisition search, with the     *)
(* code that the reference, NEON and SME2 implementations each repeat: the *)
(* checks of a run's inputs, the choice of the two best candidates and the *)
(* peak separation.                                                        *)
(*                                                                         *)
(* A correlation is a function of the frequency and of the window of       *)
(* received samples it reads, so a recording gives the score of each       *)
(* frequency and window start.  A score is a number up to Infinity or NaN: *)
(* the float32 correlations of NEON and SME2 can overflow to an infinity   *)
(* or, with two of them, to NaN.  The float64 of the reference cannot.     *)
(***************************************************************************)
EXTENDS AcquisitionPlan

CONSTANTS
  Configs,    \* the configurations a caller may prepare
  Captures,   \* the captures a caller may search
  Infinity,   \* the score of an infinite correlation
  Recording   \* what each capture recorded

Score == (0 .. Infinity) \cup {NaN}

ReceivedIq == [length : Size,
               finite : BOOLEAN,
               score  : [Frequencies \X Size -> Score]]

ASSUME InfinityAssumption == Infinity \in Nat \ {0}
ASSUME ConfigsAssumption == Configs \subseteq Config
ASSUME CapturesAssumption == Recording \in [Captures -> ReceivedIq]

Candidate == [frequency_offset_hz : Int, timing_offset : Size,
              score : Score, valid : BOOLEAN]

NoCandidate == [frequency_offset_hz |-> 0, timing_offset |-> 0,
                score |-> 0, valid |-> FALSE]

RunErrors == {NoError, "plan is incomplete", "received IQ too short",
              "received IQ not finite", "invalid weight table",
              "timing beyond the window", "no candidate evaluated"}

\* An AcquisitionResult; the separation is a <<numerator, denominator>>.
Result == [ok : BOOLEAN, error : RunErrors, best : Candidate, second_best : Candidate,
           evaluated_candidate_count : Nat,
           normalized_peak_separation : (Int \X Int) \cup {NaN}]

NoResult == [ok |-> FALSE, error |-> NoError, best |-> NoCandidate,
             second_best |-> NoCandidate, evaluated_candidate_count |-> 0,
             normalized_peak_separation |-> <<0, 1>>]

-----------------------------------------------------------------------------

FrequencyCount(plan) == Len(plan.frequency_hypotheses)
TimingCount(plan) == Len(plan.timing_offsets)

PlanIncomplete(plan) ==
  \/ plan.preamble_length = 0
  \/ plan.timing_offsets = << >>
  \/ plan.frequency_hypotheses = << >>

WeightTableInvalid(plan) ==
  plan.weight_count # FrequencyCount(plan) * plan.preamble_length

\* Variant: the last admitted window ends one sample past the capture.
TimingBeyondWindowByTwo(plan, capture) ==
  \E i \in DOMAIN plan.timing_offsets :
    plan.timing_offsets[i] > Recording[capture].length - plan.preamble_length + 1

TimingBeyondWindow(plan, capture) ==
  \E i \in DOMAIN plan.timing_offsets :
    plan.timing_offsets[i] > Recording[capture].length - plan.preamble_length

\* The error a reference or NEON run reports before it searches, or NoError.
RunError(plan, capture) ==
  IF PlanIncomplete(plan) THEN "plan is incomplete"
  ELSE IF Recording[capture].length < plan.preamble_length THEN "received IQ too short"
  ELSE IF ~Recording[capture].finite THEN "received IQ not finite"
  ELSE IF WeightTableInvalid(plan) THEN "invalid weight table"
  ELSE IF TimingBeyondWindow(plan, capture) THEN "timing beyond the window"
  ELSE NoError

-----------------------------------------------------------------------------

\* Hypothesis <<f, i>> with the correlation of the window that begins at start.
CandidateFrom(plan, capture, f, i, start) ==
  [frequency_offset_hz |-> plan.frequency_hypotheses[f],
   timing_offset       |-> plan.timing_offsets[i],
   score               |-> Recording[capture].score[<<plan.frequency_hypotheses[f], start>>],
   valid               |-> TRUE]

\* The C++ > on double: false whenever one side is NaN.
Greater(a, b) == a # NaN /\ b # NaN /\ a > b

\* Variant: a new best is stored without moving the old one to second_best.
ConsiderCandidateLosingBest(r, candidate) ==
  IF ~r.best.valid \/ Greater(candidate.score, r.best.score)
    THEN [r EXCEPT !.best = candidate]
  ELSE IF ~r.second_best.valid \/ Greater(candidate.score, r.second_best.score)
    THEN [r EXCEPT !.second_best = candidate]
  ELSE r

\* Keep the two best candidates; an equal score does not displace an earlier one.
ConsiderCandidate(r, candidate) ==
  IF ~r.best.valid \/ Greater(candidate.score, r.best.score)
    THEN [r EXCEPT !.second_best = r.best, !.best = candidate]
  ELSE IF ~r.second_best.valid \/ Greater(candidate.score, r.second_best.score)
    THEN [r EXCEPT !.second_best = candidate]
  ELSE r

CountCandidate(r, candidate) ==
  [ConsiderCandidate(r, candidate) EXCEPT !.evaluated_candidate_count = @ + 1]

(***************************************************************************)
(* (best - second) / best as <<numerator, denominator>>: 1 without a       *)
(* second candidate, 0 unless the best score is above zero, NaN when only  *)
(* the second score is NaN or the best one is infinite.                    *)
(***************************************************************************)
PeakSeparation(best, second_best) ==
  IF ~second_best.valid THEN <<1, 1>>
  ELSE IF ~Greater(best.score, 0) THEN <<0, 1>>
  ELSE IF second_best.score = NaN \/ best.score = Infinity THEN NaN
  ELSE <<best.score - second_best.score, best.score>>

\* What every implementation does after its last candidate.
FinishedResult(r) ==
  IF r.best.valid
    THEN [r EXCEPT !.ok = TRUE,
                   !.normalized_peak_separation = PeakSeparation(r.best, r.second_best)]
    ELSE [r EXCEPT !.error = "no candidate evaluated"]

-----------------------------------------------------------------------------

\* A hypothesis is a pair of indices <<frequency, timing>>, evaluated in this order.
Hypotheses(plan) == (1 .. FrequencyCount(plan)) \X (1 .. TimingCount(plan))

Earlier(g, h) == g[1] < h[1] \/ (g[1] = h[1] /\ g[2] < h[2])

CandidateOf(plan, capture, h) ==
  CandidateFrom(plan, capture, h[1], h[2], plan.timing_offsets[h[2]])

HypothesisScore(plan, capture, h) == CandidateOf(plan, capture, h).score

(***************************************************************************)
(* No score in H is above that of h, and every earlier one is below it; an *)
(* earlier NaN may be passed over only when it was not the first of H.     *)
(***************************************************************************)
IsPeak(plan, capture, h, H) ==
  \A g \in H \ {h} :
    LET score == HypothesisScore(plan, capture, g)
        peak == HypothesisScore(plan, capture, h)
    IN  /\ ~Greater(score, peak)
        /\ Earlier(g, h) => \/ Greater(peak, score)
                            \/ score = NaN /\ \E e \in H : Earlier(e, g)

\* The lexicographic order of tuples of one length.
Lowers(a, b) == \E i \in DOMAIN a : a[i] < b[i] /\ \A j \in 1 .. i - 1 : a[j] = b[j]

\* The candidate is the peak of H, or invalid when H is empty.
IsPeakOf(plan, capture, candidate, H) ==
  IF H = {} THEN ~candidate.valid
  ELSE \E h \in H : /\ IsPeak(plan, capture, h, H)
                    /\ candidate = CandidateOf(plan, capture, h)

\* best is the peak of H and second_best the peak of what is left.
IsTopTwo(plan, capture, r, H) ==
  IF H = {} THEN ~r.best.valid /\ ~r.second_best.valid
  ELSE \E h \in H : /\ IsPeak(plan, capture, h, H)
                    /\ r.best = CandidateOf(plan, capture, h)
                    /\ IsPeakOf(plan, capture, r.second_best, H \ {h})

PeakOf(plan, capture, H) == CHOOSE h \in H : IsPeak(plan, capture, h, H)

\* The result of a completed search of a plan that the checks admit.
TopTwoResult(plan, capture) ==
  LET H == Hypotheses(plan)
      Second(h) == IF H = {h} THEN NoCandidate
                   ELSE CandidateOf(plan, capture, PeakOf(plan, capture, H \ {h}))
      Finished(h) == FinishedResult([NoResult EXCEPT
        !.best = CandidateOf(plan, capture, h),
        !.second_best = Second(h),
        !.evaluated_candidate_count = FrequencyCount(plan) * TimingCount(plan)])
  IN  Finished(PeakOf(plan, capture, H))

=============================================================================
