----------------------- MODULE AcquisitionSearchProofs -----------------------
(***************************************************************************)
(* Proofs about the reference search, for every set of configurations and  *)
(* captures, every size of a plan and every size_t width.                  *)
(***************************************************************************)
EXTENDS AcquisitionSearch, AcquisitionPlanProofs, TLAPS

(***************************************************************************)
(* A hypothesis of a well-typed plan has a well-typed candidate.           *)
(***************************************************************************)
LEMMA CandidateType ==
  ASSUME NEW p \in Plan, NEW c \in Captures, NEW h \in Hypotheses(p)
  PROVE  CandidateOf(p, c, h) \in Candidate /\ CandidateOf(p, c, h).valid
<1>1. /\ p.timing_offsets \in Seq(Size) /\ p.frequency_hypotheses \in Seq(Frequencies)
      /\ h[1] \in 1 .. Len(p.frequency_hypotheses)
      /\ h[2] \in 1 .. Len(p.timing_offsets)
  BY DEF Plan, Hypotheses, FrequencyCount, TimingCount
<1>2. p.timing_offsets[h[2]] \in Size /\ p.frequency_hypotheses[h[1]] \in Frequencies
  BY <1>1
<1>3. Recording[c].score \in [Frequencies \X Size -> Score]
  BY CapturesAssumption DEF ReceivedIq
<1>4. Recording[c].score[<<p.frequency_hypotheses[h[1]], p.timing_offsets[h[2]]>>] \in Score
  BY <1>2, <1>3
<1>5. p.frequency_hypotheses[h[1]] \in Int
  BY <1>2, FrequencyAssumption
<1> QED
  BY <1>2, <1>4, <1>5 DEF CandidateOf, CandidateFrom, Candidate

(***************************************************************************)
(* What considering a candidate does to each field of a result.            *)
(***************************************************************************)
LEMMA ConsiderFields ==
  ASSUME NEW r \in Result, NEW new \in Candidate
  PROVE  LET after == ConsiderCandidate(r, new)
             wins == ~r.best.valid \/ Greater(new.score, r.best.score)
             second == ~r.second_best.valid \/ Greater(new.score, r.second_best.score)
         IN  /\ after \in Result
             /\ after.ok = r.ok
             /\ after.evaluated_candidate_count = r.evaluated_candidate_count
             /\ wins => after.best = new /\ after.second_best = r.best
             /\ ~wins => after.best = r.best
             /\ ~wins /\ second => after.second_best = new
             /\ ~wins /\ ~second => after.second_best = r.second_best
BY DEF Result, ConsiderCandidate

\* Counting a candidate keeps it as ConsiderCandidate does and adds one to the count.
LEMMA CountFields ==
  ASSUME NEW r \in Result, NEW new \in Candidate
  PROVE  LET after == CountCandidate(r, new)
             considered == ConsiderCandidate(r, new)
         IN  /\ after \in Result
             /\ after.ok = r.ok
             /\ after.evaluated_candidate_count = r.evaluated_candidate_count + 1
             /\ after.best = considered.best
             /\ after.second_best = considered.second_best
<1> DEFINE considered == ConsiderCandidate(r, new)
<1>1. /\ considered \in Result
      /\ considered.ok = r.ok
      /\ considered.evaluated_candidate_count = r.evaluated_candidate_count
  BY ConsiderFields
<1> HIDE DEF considered
<1>2. CountCandidate(r, new) = [considered EXCEPT !.evaluated_candidate_count = @ + 1]
  BY DEF CountCandidate, considered
<1> QED
  BY <1>1, <1>2 DEF Result, considered

-----------------------------------------------------------------------------

(***************************************************************************)
(* Two different hypotheses are evaluated one before the other.            *)
(***************************************************************************)
LEMMA EarlierIsTotal ==
  ASSUME NEW p \in Plan, NEW g \in Hypotheses(p), NEW h \in Hypotheses(p), g # h
  PROVE  Earlier(g, h) \/ Earlier(h, g)
<1>1. /\ g[1] \in Int /\ g[2] \in Int /\ g = <<g[1], g[2]>>
      /\ h[1] \in Int /\ h[2] \in Int /\ h = <<h[1], h[2]>>
  BY DEF Hypotheses, FrequencyCount, TimingCount, Plan
<1>2. g[1] # h[1] \/ g[2] # h[2]
  BY <1>1
<1> QED
  BY <1>1, <1>2 DEF Earlier

(***************************************************************************)
(* Adding a hypothesis h that comes after all of H: the peak of H stays    *)
(* the peak unless h is strictly greater, and then h is the new peak.      *)
(***************************************************************************)
LEMMA PeakExtends ==
  ASSUME NEW p \in Plan, NEW c \in Captures,
         NEW H \in SUBSET Hypotheses(p), NEW h \in Hypotheses(p),
         \A g \in H : ~Earlier(h, g) /\ g # h,
         NEW k \in H, IsPeak(p, c, k, H)
  PROVE  /\ Greater(HypothesisScore(p, c, h), HypothesisScore(p, c, k))
              => IsPeak(p, c, h, H \cup {h})
         /\ ~Greater(HypothesisScore(p, c, h), HypothesisScore(p, c, k))
              => IsPeak(p, c, k, H \cup {h})
<1> DEFINE s(g) == HypothesisScore(p, c, g)
<1>1. \A g \in Hypotheses(p) : s(g) \in Nat \cup {NaN}
  BY CandidateType DEF HypothesisScore, Candidate, Score
<1> DEFINE passed(g, G) == s(g) = NaN /\ \E e \in G : Earlier(e, g)
<1>2. \A g \in H \ {k} : /\ ~Greater(s(g), s(k))
                         /\ Earlier(g, k) => Greater(s(k), s(g)) \/ passed(g, H)
  BY DEF IsPeak
<1>3. \A g \in H : passed(g, H) => passed(g, H \cup {h})
  OBVIOUS
<1>4. ASSUME Greater(s(h), s(k)) PROVE IsPeak(p, c, h, H \cup {h})
  <2>1. ASSUME NEW g \in H PROVE Greater(s(h), s(g)) \/ passed(g, H)
    <3>1. CASE s(g) # NaN
      BY <1>1, <1>2, <1>4, <2>1, <3>1 DEF Greater
    <3>2. CASE s(g) = NaN /\ Earlier(g, k)
      BY <1>2, <2>1, <3>2 DEF Greater
    <3>3. CASE s(g) = NaN /\ ~Earlier(g, k)
      <4>1. g # k
        BY <1>4, <3>3 DEF Greater
      <4>2. Earlier(k, g)
        BY <2>1, <3>3, <4>1, EarlierIsTotal
      <4> QED
        BY <3>3, <4>2
    <3> QED
      BY <3>1, <3>2, <3>3
  <2>2. \A g \in H : ~Greater(s(g), s(h))
    BY <1>1, <2>1 DEF Greater
  <2> HIDE DEF s
  <2> QED
    BY <1>3, <2>1, <2>2 DEF IsPeak, s
<1>5. ASSUME ~Greater(s(h), s(k)) PROVE IsPeak(p, c, k, H \cup {h})
  BY <1>2, <1>3, <1>5 DEF IsPeak
<1> QED
  BY <1>4, <1>5

(***************************************************************************)
(* The tie-break of consider_candidate: considering a hypothesis h that    *)
(* comes after all of H turns the two best of H into the two best of H     *)
(* with h.                                                                 *)
(***************************************************************************)
LEMMA ConsiderKeepsTopTwo ==
  ASSUME NEW p \in Plan, NEW c \in Captures, NEW r \in Result,
         NEW H \in SUBSET Hypotheses(p), NEW h \in Hypotheses(p),
         \A g \in H : ~Earlier(h, g) /\ g # h,
         IsTopTwo(p, c, r, H)
  PROVE  IsTopTwo(p, c, CountCandidate(r, CandidateOf(p, c, h)), H \cup {h})
<1> DEFINE new == CandidateOf(p, c, h)
           s(g) == HypothesisScore(p, c, g)
           after == CountCandidate(r, new)
           considered == ConsiderCandidate(r, new)
<1>1. \A g \in Hypotheses(p) : /\ CandidateOf(p, c, g) \in Candidate
                               /\ CandidateOf(p, c, g).valid
                               /\ CandidateOf(p, c, g).score = s(g)
  BY CandidateType DEF HypothesisScore
<1>2. after.best = considered.best /\ after.second_best = considered.second_best
  BY <1>1, CountFields
<1>3. LET wins == ~r.best.valid \/ Greater(s(h), r.best.score)
          second == ~r.second_best.valid \/ Greater(s(h), r.second_best.score)
      IN  /\ wins => after.best = new /\ after.second_best = r.best
          /\ ~wins => after.best = r.best
          /\ ~wins /\ second => after.second_best = new
          /\ ~wins /\ ~second => after.second_best = r.second_best
  BY <1>1, <1>2, ConsiderFields
<1>4. IsPeak(p, c, h, {h})
  BY DEF IsPeak
<1> HIDE DEF after, considered, new
<1>5. CASE H = {}
  <2>1. after.best = new /\ ~after.second_best.valid
    BY <1>3, <1>5 DEF IsTopTwo
  <2> QED
    BY <1>4, <1>5, <2>1 DEF IsTopTwo, IsPeakOf, new, after
<1>6. CASE H # {}
  <2>1. PICK k \in H : /\ IsPeak(p, c, k, H)
                       /\ r.best = CandidateOf(p, c, k)
                       /\ IsPeakOf(p, c, r.second_best, H \ {k})
    BY <1>6 DEF IsTopTwo
  <2>2. r.best.valid /\ r.best.score = s(k)
    BY <1>1, <2>1
  <2>3. CASE Greater(s(h), s(k))
    <3>1. IsPeak(p, c, h, H \cup {h})
      BY <2>1, <2>3, PeakExtends
    <3>2. after.best = new /\ after.second_best = CandidateOf(p, c, k)
      BY <1>3, <2>1, <2>2, <2>3
    <3>3. (H \cup {h}) \ {h} = H
      OBVIOUS
    <3>4. IsPeakOf(p, c, after.second_best, (H \cup {h}) \ {h})
      BY <1>6, <2>1, <3>2, <3>3 DEF IsPeakOf
    <3> QED
      BY <3>1, <3>2, <3>4 DEF IsTopTwo, new, after
  <2>4. CASE ~Greater(s(h), s(k))
    <3> DEFINE G == H \ {k}
    <3>1. IsPeak(p, c, k, H \cup {h})
      BY <2>1, <2>4, PeakExtends
    <3>2. after.best = CandidateOf(p, c, k)
      BY <1>3, <2>1, <2>2, <2>4
    <3>3. (H \cup {h}) \ {k} = G \cup {h} /\ G \in SUBSET Hypotheses(p)
      OBVIOUS
    <3>4. /\ ~r.second_best.valid \/ Greater(s(h), r.second_best.score)
               => after.second_best = new
          /\ ~(~r.second_best.valid \/ Greater(s(h), r.second_best.score))
               => after.second_best = r.second_best
      BY <1>3, <2>2, <2>4
    <3>5. IsPeakOf(p, c, r.second_best, G)
      BY <2>1
    <3> HIDE DEF G
    <3>6. CASE G = {}
      <4>1. after.second_best = new
        BY <3>4, <3>5, <3>6 DEF IsPeakOf
      <4> QED
        BY <1>4, <3>1, <3>2, <3>3, <3>6, <4>1 DEF IsTopTwo, IsPeakOf, new, after
    <3>7. CASE G # {}
      <4>1. PICK m \in G : IsPeak(p, c, m, G) /\ r.second_best = CandidateOf(p, c, m)
        BY <3>5, <3>7 DEF IsPeakOf
      <4>2. r.second_best.valid /\ r.second_best.score = s(m)
        BY <1>1, <3>3, <4>1
      <4>3. \A g \in G : ~Earlier(h, g) /\ g # h
        BY DEF G
      <4>4. /\ Greater(s(h), s(m)) => IsPeak(p, c, h, G \cup {h})
            /\ ~Greater(s(h), s(m)) => IsPeak(p, c, m, G \cup {h})
        BY <3>3, <4>1, <4>3, PeakExtends
      <4>5. IsPeakOf(p, c, after.second_best, G \cup {h})
        BY <3>4, <4>1, <4>2, <4>4 DEF IsPeakOf, new
      <4> QED
        BY <3>1, <3>2, <3>3, <4>5 DEF IsTopTwo, after, new
    <3> QED
      BY <3>6, <3>7
  <2> QED
    BY <2>3, <2>4
<1> QED
  BY <1>5, <1>6

-----------------------------------------------------------------------------

(***************************************************************************)
(* The inductive invariant: during a search the inputs have passed the     *)
(* checks, the loop indices stay inside the plan, the count is the number  *)
(* of hypotheses before the loop position, and the two best of those are   *)
(* in the result; before a search the result and the position are initial. *)
(***************************************************************************)
LoopOK ==
  /\ pc = "idle" => fi = 1 /\ ti = 1 /\ result = NoResult
  /\ pc = "search" =>
       /\ RunError(plan, capture) = NoError
       /\ fi \in 1 .. FrequencyCount(plan) + 1
       /\ ti \in 1 .. TimingCount(plan)
       /\ fi = FrequencyCount(plan) + 1 => ti = 1
       /\ ~result.ok

CountOK ==
  pc = "search" =>
    result.evaluated_candidate_count = (fi - 1) * TimingCount(plan) + ti - 1

PlanOK == plan = EmptyPlan \/ \E config \in Configs : plan = PreparedPlan(config)

DoneOK ==
  pc = "done" /\ result.ok =>
    /\ RunError(plan, capture) = NoError
    /\ result.evaluated_candidate_count = FrequencyCount(plan) * TimingCount(plan)
    /\ result.normalized_peak_separation =
         PeakSeparation(result.best, result.second_best)

Inv == TypeOK /\ LoopOK /\ CountOK /\ PlanOK /\ DoneOK /\ TopTwoOfEvaluated

-----------------------------------------------------------------------------

\* A default-constructed result is well typed and not a success.
LEMMA NoResultType == NoResult \in Result /\ ~NoResult.ok
<1>1. 0 \in Score
  BY InfinityAssumption DEF Score
<1> QED
  BY <1>1, SizeAssumption DEF NoResult, RunErrors, Result, NoCandidate, Candidate, Size

\* The checks of a run report one of the known errors.
LEMMA RunErrorType ==
  ASSUME NEW p, NEW c
  PROVE  RunError(p, c) \in RunErrors
BY DEF RunError, RunErrors

\* A result that only reports an error is well typed and not a success.
LEMMA RejectedResultType ==
  ASSUME NEW p, NEW c
  PROVE  LET r == [NoResult EXCEPT !.error = RunError(p, c)]
         IN  r \in Result /\ ~r.ok
<1>1. RunError(p, c) \in RunErrors
  BY RunErrorType
<1> QED
  BY <1>1, NoResultType DEF Result

(***************************************************************************)
(* The peak separation of two typed candidates.                            *)
(***************************************************************************)
LEMMA PeakSeparationType ==
  ASSUME NEW best \in Candidate, NEW second_best \in Candidate
  PROVE  PeakSeparation(best, second_best) \in (Int \X Int) \cup {NaN}
<1>1. best.score \in Nat \cup {NaN} /\ second_best.score \in Nat \cup {NaN}
  BY DEF Candidate, Score
<1>2. CASE ~second_best.valid \/ ~Greater(best.score, 0)
  BY <1>2 DEF PeakSeparation
<1>3. CASE second_best.valid /\ Greater(best.score, 0)
  <2>1. best.score \in Nat
    BY <1>1, <1>3 DEF Greater
  <2>2. CASE second_best.score = NaN
    BY <1>3, <2>2 DEF PeakSeparation
  <2>3. CASE second_best.score # NaN
    <3>1. best.score - second_best.score \in Int
      BY <1>1, <2>1, <2>3
    <3> QED
      BY <1>3, <2>1, <2>3, <3>1 DEF PeakSeparation
  <2> QED
    BY <2>2, <2>3
<1> QED
  BY <1>2, <1>3

\* What finishing does to each field of a result whose loop is over.
LEMMA FinishedFields ==
  ASSUME NEW r \in Result, ~r.ok
  PROVE  LET after == FinishedResult(r)
         IN  /\ after \in Result
             /\ after.best = r.best
             /\ after.second_best = r.second_best
             /\ after.evaluated_candidate_count = r.evaluated_candidate_count
             /\ after.ok =>
                  after.normalized_peak_separation =
                    PeakSeparation(after.best, after.second_best)
<1> DEFINE separation == PeakSeparation(r.best, r.second_best)
<1>1. separation \in (Int \X Int) \cup {NaN}
  BY PeakSeparationType DEF Result
<1> HIDE DEF separation
<1>2. CASE r.best.valid
  <2>1. FinishedResult(r) = [r EXCEPT !.ok = TRUE, !.normalized_peak_separation = separation]
    BY <1>2 DEF FinishedResult, separation
  <2>2. LET after == FinishedResult(r)
        IN  /\ after \in Result
            /\ after.best = r.best
            /\ after.second_best = r.second_best
            /\ after.evaluated_candidate_count = r.evaluated_candidate_count
            /\ after.normalized_peak_separation = separation
    BY <1>1, <2>1 DEF Result
  <2> QED
    BY <2>2 DEF separation
<1>3. CASE ~r.best.valid
  <2>1. FinishedResult(r) = [r EXCEPT !.error = "no candidate evaluated"]
    BY <1>3 DEF FinishedResult
  <2> QED
    BY <2>1 DEF Result, RunErrors
<1> QED
  BY <1>2, <1>3

-----------------------------------------------------------------------------

\* The hypotheses of a plan before loop position <<f, i>>.
Before(p, f, i) == {h \in Hypotheses(p) : Earlier(h, <<f, i>>)}

\* Before the first hypothesis nothing has been evaluated.
LEMMA BeforeStart ==
  ASSUME NEW p \in Plan
  PROVE  Before(p, 1, 1) = {}
<1>1. \A h \in Hypotheses(p) : h[1] \in Nat \ {0} /\ h[2] \in Nat \ {0}
  BY DEF Hypotheses, FrequencyCount, TimingCount, Plan
<1> QED
  BY <1>1 DEF Before, Earlier

\* Past the last frequency every hypothesis has been evaluated.
LEMMA BeforeEnd ==
  ASSUME NEW p \in Plan
  PROVE  Before(p, FrequencyCount(p) + 1, 1) = Hypotheses(p)
<1>1. FrequencyCount(p) \in Nat
  BY DEF FrequencyCount, Plan
<1>2. \A h \in Hypotheses(p) : h[1] \in Int /\ h[1] < FrequencyCount(p) + 1
  BY <1>1 DEF Hypotheses
<1> QED
  BY <1>2 DEF Before, Earlier

(***************************************************************************)
(* One step of the two loops adds exactly the hypothesis it evaluated.     *)
(***************************************************************************)
LEMMA BeforeNext ==
  ASSUME NEW p \in Plan,
         NEW f \in 1 .. FrequencyCount(p), NEW i \in 1 .. TimingCount(p)
  PROVE  /\ <<f, i>> \in Hypotheses(p)
         /\ \A g \in Before(p, f, i) : ~Earlier(<<f, i>>, g) /\ g # <<f, i>>
         /\ i < TimingCount(p) =>
              Before(p, f, i + 1) = Before(p, f, i) \cup {<<f, i>>}
         /\ i = TimingCount(p) =>
              Before(p, f + 1, 1) = Before(p, f, i) \cup {<<f, i>>}
<1> DEFINE F == FrequencyCount(p)
           T == TimingCount(p)
<1>1. F \in Nat /\ T \in Nat
  BY DEF FrequencyCount, TimingCount, Plan
<1> HIDE DEF F, T
<1>2. Hypotheses(p) = (1 .. F) \X (1 .. T)
  BY DEF Hypotheses, F, T
<1>3. f \in 1 .. F /\ i \in 1 .. T
  BY DEF F, T
<1>4. \A h \in Hypotheses(p) : h[1] \in 1 .. F /\ h[2] \in 1 .. T /\ h = <<h[1], h[2]>>
  BY <1>2
<1>5. \A h \in Hypotheses(p) : h[1] = f /\ h[2] = i <=> h = <<f, i>>
  BY <1>4
<1>6. <<f, i>> \in Hypotheses(p)
  BY <1>2, <1>3
<1>7. \A g \in Before(p, f, i) : ~Earlier(<<f, i>>, g) /\ g # <<f, i>>
  BY <1>1, <1>3, <1>4 DEF Before, Earlier
<1>8. ASSUME i < T PROVE Before(p, f, i + 1) = Before(p, f, i) \cup {<<f, i>>}
  <2>1. \A h \in Hypotheses(p) :
          Earlier(h, <<f, i + 1>>) <=> Earlier(h, <<f, i>>) \/ (h[1] = f /\ h[2] = i)
    BY <1>1, <1>3, <1>4 DEF Earlier
  <2> QED
    BY <1>5, <1>6, <2>1 DEF Before
<1>9. ASSUME i = T PROVE Before(p, f + 1, 1) = Before(p, f, i) \cup {<<f, i>>}
  <2>1. \A h \in Hypotheses(p) :
          Earlier(h, <<f + 1, 1>>) <=> Earlier(h, <<f, i>>) \/ (h[1] = f /\ h[2] = i)
    BY <1>1, <1>3, <1>4, <1>9 DEF Earlier
  <2> QED
    BY <1>5, <1>6, <2>1 DEF Before
<1> QED
  BY <1>6, <1>7, <1>8, <1>9 DEF T

\* The two best depend only on the fields best and second_best of a result.
LEMMA TopTwoFields ==
  ASSUME NEW p, NEW c, NEW H, NEW r, NEW q,
         q.best = r.best, q.second_best = r.second_best, IsTopTwo(p, c, r, H)
  PROVE  IsTopTwo(p, c, q, H)
BY Zenon DEF IsTopTwo

-----------------------------------------------------------------------------

\* The invariant holds before the first call.
LEMMA InitInv == Init => Inv
<1> SUFFICES ASSUME Init PROVE Inv
  OBVIOUS
<1>1. EmptyPlan \in Plan
  BY SizeAssumption DEF EmptyPlan, Plan, Size
<1>2. NoResult \in Result
  BY NoResultType
<1>3. TypeOK /\ LoopOK /\ CountOK /\ PlanOK /\ DoneOK /\ TopTwoOfEvaluated
  BY <1>1, <1>2 DEF Init, TypeOK, LoopOK, CountOK, PlanOK, DoneOK, TopTwoOfEvaluated
<1> QED
  BY <1>3 DEF Inv

\* A change of plan or capture forgets the result and the loop position.
LEMMA CallerInv ==
  Inv /\ ((\E config \in Configs : PreparePlan(config)) \/ (\E c \in Captures : LoadCapture(c)))
    => Inv'
<1> SUFFICES ASSUME Inv,
                    \/ \E config \in Configs : PreparePlan(config)
                    \/ \E c \in Captures : LoadCapture(c)
             PROVE  Inv'
  OBVIOUS
<1>1. plan' \in Plan /\ PlanOK'
  <2>1. CASE \E config \in Configs : PreparePlan(config)
    BY <2>1, ConfigsAssumption, PreparedPlanType DEF PreparePlan, PlanOK
  <2>2. CASE \E c \in Captures : LoadCapture(c)
    BY <2>2 DEF LoadCapture, PlanOK, Inv, TypeOK
  <2> QED
    BY <2>1, <2>2
<1>2. capture' \in Captures /\ pc' = "idle" /\ fi' = 1 /\ ti' = 1 /\ result' = NoResult
  BY DEF PreparePlan, LoadCapture, Inv, TypeOK
<1>3. (TypeOK /\ LoopOK /\ CountOK /\ DoneOK /\ TopTwoOfEvaluated)'
  BY <1>1, <1>2, NoResultType DEF TypeOK, LoopOK, CountOK, DoneOK, TopTwoOfEvaluated
<1> QED
  BY <1>1, <1>3 DEF Inv

\* A refused run leaves the invariant: it reports an error and no success.
LEMMA RejectRunInv == Inv /\ RejectRun => Inv'
<1> SUFFICES ASSUME Inv, RejectRun PROVE Inv'
  OBVIOUS
<1>1. result' \in Result /\ ~result'.ok
  BY RejectedResultType DEF RejectRun
<1>2. pc' = "done" /\ UNCHANGED <<plan, capture, fi, ti>>
  BY DEF RejectRun
<1>3. (TypeOK /\ LoopOK /\ CountOK /\ PlanOK /\ DoneOK /\ TopTwoOfEvaluated)'
  BY <1>1, <1>2 DEF Inv, TypeOK, LoopOK, CountOK, PlanOK, DoneOK, TopTwoOfEvaluated
<1> QED
  BY <1>3 DEF Inv

\* Entering the loops establishes the invariant with nothing evaluated.
LEMMA StartSearchInv == Inv /\ StartSearch => Inv'
<1> SUFFICES ASSUME Inv, StartSearch PROVE Inv'
  OBVIOUS
<1>1. /\ pc = "idle" /\ RunError(plan, capture) = NoError /\ pc' = "search"
      /\ UNCHANGED <<plan, capture, fi, ti, result>>
  BY DEF StartSearch
<1>2. fi = 1 /\ ti = 1 /\ result = NoResult
  BY <1>1 DEF Inv, LoopOK
<1>3. FrequencyCount(plan) \in Nat \ {0} /\ TimingCount(plan) \in Nat \ {0}
  BY <1>1, RunnablePlan DEF Inv, TypeOK
<1>4. (TypeOK /\ PlanOK /\ DoneOK)'
  BY <1>1 DEF Inv, TypeOK, PlanOK, DoneOK
<1>5. LoopOK'
  BY <1>1, <1>2, <1>3, NoResultType DEF LoopOK, FrequencyCount, TimingCount
<1>6. CountOK'
  BY <1>1, <1>2, <1>3 DEF CountOK, TimingCount, NoResult
<1>7. TopTwoOfEvaluated'
  <2>1. Evaluated' = {}
    BY <1>1, <1>2, BeforeStart DEF Inv, TypeOK, Evaluated, Before
  <2>2. ~result'.best.valid /\ ~result'.second_best.valid
    BY <1>1, <1>2 DEF NoResult, NoCandidate
  <2> QED
    BY <1>1, <2>1, <2>2 DEF TopTwoOfEvaluated, IsTopTwo
<1> QED
  BY <1>4, <1>5, <1>6, <1>7 DEF Inv

(***************************************************************************)
(* The step that the invariant is for: one pass of the loop body.          *)
(***************************************************************************)
LEMMA EvaluateInv == Inv /\ Evaluate => Inv'
<1> SUFFICES ASSUME Inv, Evaluate PROVE Inv'
  OBVIOUS
<1> DEFINE F == FrequencyCount(plan)
           T == TimingCount(plan)
           new == CandidateOf(plan, capture, <<fi, ti>>)
<1>1. /\ pc = "search" /\ pc' = "search" /\ fi <= F
      /\ UNCHANGED <<plan, capture>>
      /\ ti < T => fi' = fi /\ ti' = ti + 1
      /\ ~(ti < T) => fi' = fi + 1 /\ ti' = 1
      /\ result' = CountCandidate(result, new)
  BY DEF Evaluate, CandidateOf
<1>2. plan \in Plan /\ capture \in Captures /\ result \in Result
  BY DEF Inv, TypeOK
<1>3. /\ RunError(plan, capture) = NoError /\ ~result.ok
      /\ F \in Nat \ {0} /\ T \in Nat \ {0}
      /\ fi \in 1 .. F /\ ti \in 1 .. T
  BY <1>1, <1>2, RunnablePlan DEF Inv, LoopOK
<1>4. /\ <<fi, ti>> \in Hypotheses(plan)
      /\ \A g \in Before(plan, fi, ti) : ~Earlier(<<fi, ti>>, g) /\ g # <<fi, ti>>
      /\ ti < T => Before(plan, fi, ti + 1) = Before(plan, fi, ti) \cup {<<fi, ti>>}
      /\ ti = T => Before(plan, fi + 1, 1) = Before(plan, fi, ti) \cup {<<fi, ti>>}
  BY <1>2, <1>3, BeforeNext
<1>5. new \in Candidate
  BY <1>2, <1>4, CandidateType
<1> HIDE DEF new
<1>6. /\ result' \in Result /\ ~result'.ok
      /\ result'.evaluated_candidate_count = result.evaluated_candidate_count + 1
  BY <1>1, <1>2, <1>3, <1>5, CountFields
<1>7. F' = F /\ T' = T
  BY <1>1 DEF FrequencyCount, TimingCount
<1>8. /\ fi' \in 1 .. F + 1 /\ ti' \in 1 .. T
      /\ fi' = F + 1 => ti' = 1
  BY <1>1, <1>3
<1> HIDE DEF F, T
<1>9. (TypeOK /\ PlanOK /\ DoneOK)'
  BY <1>1, <1>2, <1>3, <1>6, <1>8 DEF Inv, TypeOK, PlanOK, DoneOK
<1>10. LoopOK'
  BY <1>1, <1>3, <1>6, <1>7, <1>8 DEF LoopOK, F, T
<1>11. CountOK'
  <2>1. result.evaluated_candidate_count = (fi - 1) * T + ti - 1
    BY <1>1 DEF Inv, CountOK, T
  <2>2. fi \in Int /\ ti \in Int /\ T \in Int /\ result.evaluated_candidate_count \in Int
    BY <1>2, <1>3 DEF Result
  <2>3. (fi - 1) * T + ti = (fi' - 1) * T + ti' - 1
    <3>1. CASE ti < T
      BY <1>1, <2>2, <3>1
    <3>2. CASE ti = T
      <4>1. (fi - 1) * T + T = fi * T
        BY <2>2
      <4> QED
        BY <1>1, <2>2, <3>2, <4>1
    <3> QED
      BY <1>3, <3>1, <3>2
  <2>4. result'.evaluated_candidate_count = (fi' - 1) * T + ti' - 1
    BY <1>6, <2>1, <2>2, <2>3
  <2> QED
    BY <1>7, <2>4 DEF CountOK, T
<1>12. TopTwoOfEvaluated'
  <2>1. IsTopTwo(plan, capture, result, Before(plan, fi, ti))
    BY <1>1 DEF Inv, TopTwoOfEvaluated, Evaluated, Before
  <2>2. Before(plan, fi, ti) \in SUBSET Hypotheses(plan)
    BY DEF Before
  <2>3. IsTopTwo(plan, capture, result', Before(plan, fi, ti) \cup {<<fi, ti>>})
    BY <1>1, <1>2, <1>4, <2>1, <2>2, ConsiderKeepsTopTwo DEF new
  <2>4. Before(plan, fi', ti') = Before(plan, fi, ti) \cup {<<fi, ti>>}
    BY <1>1, <1>3, <1>4 DEF T
  <2>5. Evaluated' = Before(plan, fi', ti')
    BY <1>1 DEF Evaluated, Before
  <2> QED
    BY <1>1, <2>3, <2>4, <2>5 DEF TopTwoOfEvaluated
<1> QED
  BY <1>9, <1>10, <1>11, <1>12 DEF Inv

\* Leaving the loops turns the two best of what was evaluated into those of all.
LEMMA FinishInv == Inv /\ Finish => Inv'
<1> SUFFICES ASSUME Inv, Finish PROVE Inv'
  OBVIOUS
<1>1. /\ pc = "search" /\ pc' = "done" /\ fi = FrequencyCount(plan) + 1
      /\ UNCHANGED <<plan, capture, fi, ti>>
      /\ result' = FinishedResult(result)
  BY DEF Finish
<1>2. plan \in Plan /\ capture \in Captures /\ result \in Result
  BY DEF Inv, TypeOK
<1>3. /\ RunError(plan, capture) = NoError /\ ~result.ok
      /\ FrequencyCount(plan) \in Nat /\ TimingCount(plan) \in Nat /\ ti = 1
  BY <1>1, <1>2, RunnablePlan DEF Inv, LoopOK
<1>4. /\ result' \in Result
      /\ result'.best = result.best /\ result'.second_best = result.second_best
      /\ result'.evaluated_candidate_count = result.evaluated_candidate_count
      /\ result'.ok => result'.normalized_peak_separation =
                         PeakSeparation(result'.best, result'.second_best)
  BY <1>1, <1>2, <1>3, FinishedFields
<1>5. (TypeOK /\ LoopOK /\ CountOK /\ PlanOK)'
  BY <1>1, <1>2, <1>4 DEF Inv, TypeOK, LoopOK, CountOK, PlanOK
<1>6. DoneOK'
  <2>1. result.evaluated_candidate_count =
          (FrequencyCount(plan) + 1 - 1) * TimingCount(plan) + 1 - 1
    BY <1>1, <1>3 DEF Inv, CountOK
  <2>2. (FrequencyCount(plan) + 1 - 1) * TimingCount(plan) + 1 - 1
          = FrequencyCount(plan) * TimingCount(plan)
    BY <1>3
  <2>3. /\ RunError(plan, capture)' = RunError(plan, capture)
        /\ FrequencyCount(plan)' = FrequencyCount(plan)
        /\ TimingCount(plan)' = TimingCount(plan)
    BY <1>1
  <2> QED
    BY <1>3, <1>4, <2>1, <2>2, <2>3 DEF DoneOK
<1>7. TopTwoOfEvaluated'
  <2>1. Evaluated = Hypotheses(plan)
    BY <1>1, <1>2, <1>3, BeforeEnd DEF Evaluated, Before
  <2>2. IsTopTwo(plan, capture, result, Hypotheses(plan))
    BY <1>1, <2>1 DEF Inv, TopTwoOfEvaluated
  <2>3. IsTopTwo(plan, capture, result', Hypotheses(plan))
    BY <1>4, <2>2, TopTwoFields
  <2> QED
    BY <1>1, <2>3 DEF TopTwoOfEvaluated
<1> QED
  BY <1>5, <1>6, <1>7 DEF Inv

\* The invariant is about the variables of the specification only.
LEMMA StutterInv == Inv /\ UNCHANGED vars => Inv'
BY DEF vars, Inv, TypeOK, LoopOK, CountOK, PlanOK, DoneOK, TopTwoOfEvaluated, Evaluated

(***************************************************************************)
(* The inductive invariant holds in every reachable state.                 *)
(***************************************************************************)
THEOREM Invariance == Spec => []Inv
<1>1. Inv /\ [Next]_vars => Inv'
  BY CallerInv, RejectRunInv, StartSearchInv, EvaluateInv, FinishInv, StutterInv DEF Next
<1> QED
  BY InitInv, <1>1, PTL DEF Spec

(***************************************************************************)
(* Plans, results and loop positions keep their types, for every grid: in  *)
(* particular a failed preparation leaves a well-formed plan.              *)
(***************************************************************************)
THEOREM TypeCorrect == Spec => []TypeOK
<1>1. Inv => TypeOK
  BY DEF Inv
<1> QED
  BY Invariance, <1>1, PTL

(***************************************************************************)
(* consider_candidate keeps the two best of everything evaluated so far,   *)
(* with ties broken towards the earlier hypothesis and NaN scores never    *)
(* displaced, whatever the plan, the capture and the scores.               *)
(***************************************************************************)
THEOREM TopTwoCorrect == Spec => []TopTwoOfEvaluated
<1>1. Inv => TopTwoOfEvaluated
  BY DEF Inv
<1> QED
  BY Invariance, <1>1, PTL

(***************************************************************************)
(* The loops read inside the capture, whatever was prepared and loaded     *)
(* before the run.                                                         *)
(***************************************************************************)
THEOREM WindowsCorrect == Spec => []WindowsInsideCapture
<1>1. Inv => WindowsInsideCapture
  BY RunnablePlan DEF Inv, TypeOK, LoopOK, WindowsInsideCapture
<1> QED
  BY Invariance, <1>1, PTL

(***************************************************************************)
(* A successful result is the complete search of a plan that preparation   *)
(* filled in: no plan left by a failed preparation reaches a result.       *)
(***************************************************************************)
THEOREM SuccessCorrect == Spec => []SuccessNeedsPreparedPlan
<1>1. Inv => SuccessNeedsPreparedPlan
  <2> SUFFICES ASSUME Inv, pc = "done", result.ok
               PROVE  \E config \in Configs :
                        /\ PlanError(config) = NoError
                        /\ plan = PreparedPlan(config)
                        /\ result.evaluated_candidate_count =
                             Len(config.frequency_offsets_hz) * Len(config.timing_offsets)
    BY DEF SuccessNeedsPreparedPlan
  <2>1. plan # EmptyPlan
    BY RunnablePlan DEF Inv, TypeOK, DoneOK
  <2>2. PICK config \in Configs : plan = PreparedPlan(config)
    BY <2>1 DEF Inv, PlanOK
  <2>3. PlanError(config) = NoError
    BY <2>1, <2>2 DEF PreparedPlan
  <2>4. /\ plan.timing_offsets = config.timing_offsets
        /\ plan.frequency_hypotheses = config.frequency_offsets_hz
    BY <2>2, <2>3 DEF PreparedPlan
  <2>5. result.evaluated_candidate_count =
          Len(config.frequency_offsets_hz) * Len(config.timing_offsets)
    BY <2>4 DEF Inv, DoneOK, FrequencyCount, TimingCount
  <2> QED
    BY <2>2, <2>3, <2>5
<1> QED
  BY Invariance, <1>1, PTL

(***************************************************************************)
(* The second of the two best never scores above the first.                *)
(***************************************************************************)
LEMMA TopTwoOrdered ==
  ASSUME NEW p \in Plan, NEW c \in Captures, NEW r \in Result,
         Hypotheses(p) # {}, IsTopTwo(p, c, r, Hypotheses(p))
  PROVE  ~r.second_best.valid \/ ~Greater(r.second_best.score, r.best.score)
<1>1. PICK h \in Hypotheses(p) : /\ IsPeak(p, c, h, Hypotheses(p))
                                 /\ r.best = CandidateOf(p, c, h)
                                 /\ IsPeakOf(p, c, r.second_best, Hypotheses(p) \ {h})
  BY DEF IsTopTwo
<1>2. CASE Hypotheses(p) \ {h} = {}
  BY <1>1, <1>2 DEF IsPeakOf
<1>3. CASE Hypotheses(p) \ {h} # {}
  <2>1. PICK m \in Hypotheses(p) \ {h} : r.second_best = CandidateOf(p, c, m)
    BY <1>1, <1>3 DEF IsPeakOf
  <2>2. ~Greater(HypothesisScore(p, c, m), HypothesisScore(p, c, h))
    BY <1>1 DEF IsPeak
  <2> QED
    BY <1>1, <2>1, <2>2 DEF HypothesisScore
<1> QED
  BY <1>2, <1>3

(***************************************************************************)
(* The peak separation of a successful result is a fraction of one, or NaN *)
(* for a NaN second or an infinite best score: the two best are ordered,   *)
(* and a best score that is not above zero is never divided by.            *)
(***************************************************************************)
THEOREM SeparationCorrect == Spec => []SeparationIsFraction
<1>1. Inv => SeparationIsFraction
  <2> SUFFICES ASSUME Inv, pc = "done", result.ok
               PROVE  LET separation == result.normalized_peak_separation
                      IN  \/ /\ separation = NaN
                             /\ result.second_best.score = NaN \/ result.best.score = Infinity
                          \/ /\ 0 <= separation[1]
                             /\ separation[1] <= separation[2]
                             /\ separation[2] > 0
    BY DEF SeparationIsFraction
  <2> DEFINE best == result.best
             second == result.second_best
  <2>1. plan \in Plan /\ capture \in Captures /\ result \in Result
    BY DEF Inv, TypeOK
  <2>2. <<1, 1>> \in Hypotheses(plan)
    BY <2>1, RunnablePlan DEF Inv, DoneOK, Hypotheses
  <2>3. ~second.valid \/ ~Greater(second.score, best.score)
    BY <2>1, <2>2, TopTwoOrdered DEF Inv, TopTwoOfEvaluated
  <2>4. result.normalized_peak_separation = PeakSeparation(best, second)
    BY DEF Inv, DoneOK
  <2>5. best.score \in Nat \cup {NaN} /\ second.score \in Nat \cup {NaN}
    BY <2>1, InfinityAssumption DEF Result, Candidate, Score
  <2> HIDE DEF best, second
  <2>6. CASE ~second.valid
    BY <2>4, <2>6 DEF PeakSeparation
  <2>7. CASE second.valid /\ ~Greater(best.score, 0)
    BY <2>4, <2>7 DEF PeakSeparation
  <2>8. CASE second.valid /\ Greater(best.score, 0)
    <3>1. best.score \in Nat \ {0}
      BY <2>5, <2>8 DEF Greater
    <3>2. CASE second.score = NaN \/ best.score = Infinity
      BY <2>4, <2>8, <3>2 DEF PeakSeparation, best, second
    <3>3. CASE second.score # NaN /\ best.score # Infinity
      <4>1. /\ best.score - second.score \in Nat
            /\ best.score - second.score <= best.score
        BY <2>3, <2>5, <2>8, <3>1, <3>3, NaNAssumption DEF Greater
      <4>2. result.normalized_peak_separation = <<best.score - second.score, best.score>>
        BY <2>4, <2>8, <3>3 DEF PeakSeparation
      <4> QED
        BY <3>1, <4>1, <4>2
    <3> QED
      BY <3>2, <3>3
  <2> QED
    BY <2>6, <2>7, <2>8
<1> QED
  BY Invariance, <1>1, PTL

(***************************************************************************)
(* A success vouches for both, for plans and captures of any size.         *)
(***************************************************************************)
THEOREM SuccessVouchesCorrect == Spec => []SuccessVouches
BY SuccessCorrect, SeparationCorrect, PTL DEF SuccessVouches

(***************************************************************************)
(* One more hypothesis than those before a loop position fits in the grid. *)
(***************************************************************************)
LEMMA PositionInGrid ==
  ASSUME NEW F \in Nat, NEW T \in Nat, NEW f \in 1 .. F, NEW i \in 1 .. T
  PROVE  (f - 1) * T + i - 1 + 1 <= F * T
<1>1. PICK d \in Nat : F = f + d
  <2>1. F - f \in Nat /\ F = f + (F - f)
    OBVIOUS
  <2> QED
    BY <2>1
<1>2. (f - 1) * T + T = f * T /\ (f + d) * T = f * T + d * T /\ d * T \in Nat
  BY <1>1
<1>3. (f - 1) * T \in Int /\ f * T \in Int
  OBVIOUS
<1> QED
  BY <1>1, <1>2, <1>3

(***************************************************************************)
(* A search counts one hypothesis per step and leaves the loops with all   *)
(* of them counted, for every plan, capture and score: what the fairness   *)
(* of the call has to add for its termination is only that it is executed. *)
(***************************************************************************)
THEOREM SearchAdvancesCorrect == Spec => SearchAdvances
<1> DEFINE F == FrequencyCount(plan)
           T == TimingCount(plan)
           count == result.evaluated_candidate_count
           Advances == /\ UNCHANGED <<plan, capture>>
                       /\ \/ /\ pc' = "search"
                             /\ result'.evaluated_candidate_count = count + 1
                             /\ count + 1 <= F * T
                          \/ /\ pc' = "done"
                             /\ result'.evaluated_candidate_count = count
                             /\ count = F * T
<1>1. Inv /\ [Next]_vars => [pc = "search" => Advances]_vars
  <2> SUFFICES ASSUME Inv, Next, pc = "search"
               PROVE  Advances
    BY Zenon
  <2>1. plan \in Plan /\ capture \in Captures /\ result \in Result
    BY DEF Inv, TypeOK
  <2>2. /\ RunError(plan, capture) = NoError /\ ~result.ok
        /\ F \in Nat \ {0} /\ T \in Nat \ {0}
        /\ fi \in 1 .. F + 1 /\ ti \in 1 .. T
        /\ fi = F + 1 => ti = 1
        /\ count = (fi - 1) * T + ti - 1
    BY <2>1, RunnablePlan DEF Inv, LoopOK, CountOK
  <2> HIDE DEF F, T
  <2>3. Evaluate \/ Finish
    BY DEF Next, PreparePlan, LoadCapture, RejectRun, StartSearch
  <2>4. CASE Evaluate
    <3> DEFINE new == CandidateOf(plan, capture, <<fi, ti>>)
    <3>1. /\ pc' = "search" /\ fi <= F /\ UNCHANGED <<plan, capture>>
          /\ result' = CountCandidate(result, new)
      BY <2>4 DEF Evaluate, CandidateOf, F
    <3>2. fi \in 1 .. F
      BY <2>2, <3>1
    <3>3. new \in Candidate
      BY <2>1, <2>2, <3>2, BeforeNext, CandidateType DEF F, T
    <3> HIDE DEF new
    <3>4. result'.evaluated_candidate_count = count + 1
      BY <2>1, <3>1, <3>3, CountFields
    <3>5. count + 1 <= F * T
      BY <2>2, <3>2, PositionInGrid
    <3> QED
      BY <3>1, <3>4, <3>5
  <2>5. CASE Finish
    <3>1. /\ pc' = "done" /\ fi = F + 1 /\ UNCHANGED <<plan, capture>>
          /\ result' = FinishedResult(result)
      BY <2>5 DEF Finish, F
    <3>2. result'.evaluated_candidate_count = count
      BY <2>1, <2>2, <3>1, FinishedFields
    <3>3. count = F * T
      <4>1. count = (F + 1 - 1) * T + 1 - 1
        BY <2>2, <3>1
      <4>2. (F + 1 - 1) * T + 1 - 1 = F * T
        BY <2>2
      <4> QED
        BY <4>1, <4>2
    <3> QED
      BY <3>1, <3>2, <3>3
  <2> QED
    BY <2>3, <2>4, <2>5
<1> QED
  BY Invariance, <1>1, PTL DEF Spec, SearchAdvances

=============================================================================
