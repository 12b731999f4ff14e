-------------------------- MODULE Sme2SearchProofs --------------------------
(***************************************************************************)
(* Proofs about the SME2 search, for vectors of any width, grids of any    *)
(* length and any history of the workspace: an admitted run works on a     *)
(* fresh workspace if its caller packed for it, the predicated batches     *)
(* give each hypothesis its own correlation, and every step is a step of   *)
(* the reference search or none of its visible state.                      *)
(***************************************************************************)
EXTENDS Sme2Search, AcquisitionPlanProofs, TLAPS

Workspace == [timing_count            : Nat,
              frequency_count         : Nat,
              preamble_length         : Nat,
              contiguous_timing_start : Nat,
              packed_input_required   : BOOLEAN,
              received                : Seq(Captures \X Nat),
              correlations            : Seq(Score)]

\* The plan is one that preparation left, for a capture of the model.
Prepared ==
  /\ plan \in Plan
  /\ capture \in Captures
  /\ plan = EmptyPlan \/ \E config \in Configs : plan = PreparedPlan(config)
  /\ workspace \in Workspace

\* Where the loops can be, and what the caller sees between two calls.
Position ==
  /\ pc \in {"idle", "kernel", "score", "done", "refused"}
  /\ pc \in {"idle", "refused"} => fi = 1 /\ timing_base = 0 /\ ti = 1
  /\ pc = "idle" => result = NoResult
  /\ pc = "kernel" =>
       /\ fi \in 1 .. FrequencyCount(plan)
       /\ timing_base \in 0 .. TimingCount(plan) - 1
       /\ ti = 1 /\ result = NoResult
  /\ pc = "score" =>
       /\ fi \in 1 .. FrequencyCount(plan) + 1
       /\ ti \in 1 .. TimingCount(plan)

\* A plan with something to search.
Runnable(p) ==
  /\ p.timing_offsets \in Seq(Size)
  /\ TimingCount(p) \in Nat \ {0}
  /\ p.preamble_length \in Nat \ {0}

\* A copy holds the windows of the plan and the capture that it was packed for.
Copied ==
  workspace.packed_input_required =>
    \E p \in Plan, c \in Captures :
      /\ packed_for = <<p, c>>
      /\ Runnable(p)
      /\ workspace.timing_count = TimingCount(p)
      /\ workspace.received = PackedFrom(p, c, TimingCount(p))

\* The checks of an admitted run.
Admitted ==
  /\ RunError(plan, capture) = NoError /\ InputError = NoError
  /\ ~WorkspaceTooLarge
  /\ workspace.timing_count = TimingCount(plan)
  /\ workspace.frequency_count = FrequencyCount(plan)
  /\ workspace.preamble_length = plan.preamble_length
  /\ workspace.packed_input_required = ~plan.timing_offsets_contiguous
  /\ IF plan.timing_offsets_contiguous
       THEN /\ workspace.received = << >>
            /\ workspace.contiguous_timing_start = plan.contiguous_timing_start
       ELSE Len(workspace.received) = plan.preamble_length * TimingCount(plan)
  /\ Len(workspace.correlations) = FrequencyCount(plan) * TimingCount(plan)

\* With the contract of its caller.
Fresh ==
  /\ Admitted
  /\ ~plan.timing_offsets_contiguous => workspace.received = Packed(TimingCount(plan))

Correlated(h) ==
  workspace.correlations[(h[1] - 1) * TimingCount(plan) + h[2]]
    = HypothesisScore(plan, capture, h)

\* The hypotheses that the batches of the kernel have left behind.
BatchesDone ==
  \A h \in Hypotheses(plan) :
    h[1] < fi \/ (h[1] = fi /\ h[2] <= timing_base) => Correlated(h)

IInv ==
  /\ Prepared
  /\ Position
  /\ Copied
  /\ pc \in {"kernel", "score"} => Admitted
  /\ pc = "kernel" /\ Contract => BatchesDone
  /\ CorrelationsBelongToHypotheses

-----------------------------------------------------------------------------

\* What a run that is admitted knows of its plan.
LEMMA RunningPlan ==
  ASSUME Prepared, RunError(plan, capture) = NoError
  PROVE  /\ plan \in Plan /\ capture \in Captures /\ plan.timing_offsets \in Seq(Size)
         /\ FrequencyCount(plan) \in Nat \ {0} /\ TimingCount(plan) \in Nat \ {0}
         /\ plan.preamble_length \in Nat \ {0}
         /\ \A i \in 1 .. TimingCount(plan) : /\ plan.timing_offsets[i] \in Size
                                              /\ plan.timing_offsets[i] \in Nat
<1>1. plan \in Plan /\ capture \in Captures
  BY DEF Prepared
<1>2. plan.timing_offsets \in Seq(Size) /\ plan.preamble_length \in Nat
  BY <1>1, SizeAssumption DEF Plan, Size
<1>3. \A i \in 1 .. TimingCount(plan) : plan.timing_offsets[i] \in Size
  BY <1>2 DEF TimingCount
<1>4. plan.preamble_length # 0
  BY Zenon DEF RunError, PlanIncomplete, NoError
<1> QED
  BY <1>1, <1>2, <1>3, <1>4, RunnablePlan, SizeAssumption DEF Size

(***************************************************************************)
(* The checks of the SME2 run stand in another order, and it has one more; *)
(* of a plan that preparation left they report what the reference reports. *)
(***************************************************************************)
LEMMA SameRefusals ==
  ASSUME Prepared
  PROVE  /\ InputError = RunError(plan, capture)
         /\ ~PlanIncomplete(plan) =>
              plan.timing_offsets_contiguous = TimingOffsetsAreContiguous(plan.timing_offsets)
<1>1. CASE PlanIncomplete(plan)
  BY <1>1 DEF InputError, RunError
<1>2. CASE ~PlanIncomplete(plan)
  <2>1. plan # EmptyPlan
    BY <1>2 DEF PlanIncomplete, EmptyPlan
  <2>2. PICK config \in Configs : plan = PreparedPlan(config)
    BY <2>1 DEF Prepared
  <2>3. PlanError(config) = NoError
    BY <2>1, <2>2 DEF PreparedPlan
  <2>4. /\ plan.timing_offsets = config.timing_offsets
        /\ plan.frequency_hypotheses = config.frequency_offsets_hz
        /\ plan.preamble_length = config.preamble.length
        /\ plan.weight_count = Len(config.frequency_offsets_hz) * config.preamble.length
        /\ plan.timing_offsets_contiguous = TimingOffsetsAreContiguous(config.timing_offsets)
        /\ plan.contiguous_timing_start = config.timing_offsets[1]
    BY <2>2, <2>3 DEF PreparedPlan
  <2>5. ~WeightTableInvalid(plan)
    BY <2>4 DEF WeightTableInvalid, FrequencyCount
  <2>6. ~LayoutMetadataInconsistent
    BY <2>4 DEF LayoutMetadataInconsistent
  <2> QED
    BY <1>2, <2>4, <2>5, <2>6 DEF InputError, RunError
<1> QED
  BY <1>1, <1>2

\* The timings of a contiguous plan count up from its first one.
LEMMA ContiguousCountsUp ==
  ASSUME Prepared, RunError(plan, capture) = NoError, plan.timing_offsets_contiguous,
         NEW i \in 1 .. TimingCount(plan)
  PROVE  plan.timing_offsets[i] = plan.contiguous_timing_start + (i - 1)
<1>1. /\ plan.timing_offsets \in Seq(Size) /\ TimingCount(plan) \in Nat \ {0}
      /\ \A k \in 1 .. TimingCount(plan) : plan.timing_offsets[k] \in Size
  BY RunningPlan
<1>2. ~PlanIncomplete(plan) /\ InputError = NoError
  BY SameRefusals, Zenon DEF RunError, NoError
<1>3. ~LayoutMetadataInconsistent
  BY <1>2, Zenon DEF InputError, NoError
<1>4. TimingOffsetsAreContiguous(plan.timing_offsets)
  BY <1>3 DEF LayoutMetadataInconsistent
<1>5. plan.contiguous_timing_start = plan.timing_offsets[1]
  BY <1>3, <1>4 DEF LayoutMetadataInconsistent
<1>6. plan.timing_offsets[1] \in Size /\ plan.timing_offsets[1] \in Int
  BY <1>1, SizeAssumption DEF Size
<1>7. CASE i = 1
  BY <1>5, <1>6, <1>7
<1>8. CASE i # 1
  <2>1. i - 1 \in 1 .. Len(plan.timing_offsets) - 1 /\ i - 1 \in Nat /\ (i - 1) + 1 = i
    BY <1>1, <1>8 DEF TimingCount
  <2>2. /\ plan.timing_offsets[1] <= SizeMax - (i - 1)
        /\ plan.timing_offsets[(i - 1) + 1] = SizeAdd(plan.timing_offsets[1], i - 1)
    BY <1>4, <2>1 DEF TimingOffsetsAreContiguous
  <2>3. SizeAdd(plan.timing_offsets[1], i - 1) = plan.timing_offsets[1] + (i - 1)
    BY <1>6, <2>1, <2>2, NoWrapAround
  <2> QED
    BY <1>5, <2>1, <2>2, <2>3
<1> QED
  BY <1>7, <1>8

-----------------------------------------------------------------------------

\* Multiplication distributes over a difference.
LEMMA Distributes ==
  ASSUME NEW x \in Int, NEW y \in Int, NEW z \in Int
  PROVE  x * (y - z) = x * y - x * z
OBVIOUS

\* Quotient and remainder of an index into rows of n.
LEMMA RowOfIndex ==
  ASSUME NEW n \in Nat \ {0}, NEW s \in Nat, NEW m \in 0 .. n - 1
  PROVE  (s * n + m) % n = m /\ (s * n + m) \div n = s
<1> DEFINE index == s * n + m
           q == index \div n
           r == index % n
<1>1. index \in Nat
  OBVIOUS
<1>2. index = n * q + r /\ q \in Nat /\ r \in 0 .. n - 1
  BY <1>1
<1>3. index = n * s + m
  OBVIOUS
<1> HIDE DEF q, r, index
<1>4. n * (q - s) = m - r
  BY <1>2, <1>3, Distributes
<1>5. CASE q > s
  <2>1. n * (q - s) >= n
    BY <1>2, <1>5
  <2> QED
    BY <1>2, <1>4, <2>1
<1>6. CASE q < s
  <2>1. n * (s - q) >= n
    BY <1>2, <1>6
  <2>2. n * (s - q) = -(n * (q - s))
    BY <1>2
  <2> QED
    BY <1>2, <1>4, <2>1, <2>2
<1>7. CASE q = s
  BY <1>2, <1>4, <1>7 DEF q, r, index
<1> QED
  BY <1>2, <1>5, <1>6, <1>7

\* An entry lies in row g only if it is of row g.
LEMMA EntryOfRow ==
  ASSUME NEW n \in Nat \ {0}, NEW f \in Nat \ {0}, NEW g \in Nat \ {0}, NEW t \in 1 .. n
  PROVE  /\ ((f - 1) * n + t) - (g - 1) * n - 1 \in 0 .. n - 1 => f = g
         /\ f = g => ((f - 1) * n + t) - (g - 1) * n - 1 = t - 1
<1>1. ((f - 1) * n + t) - (g - 1) * n - 1 = n * (f - g) + t - 1
  OBVIOUS
<1>2. f > g => n * (f - g) >= n
  OBVIOUS
<1>3. f < g => n * (g - f) >= n /\ n * (g - f) = -(n * (f - g))
  OBVIOUS
<1> QED
  BY <1>1, <1>2, <1>3

\* Entries lie inside the table.
LEMMA EntryInTable ==
  ASSUME NEW n \in Nat \ {0}, NEW m \in Nat \ {0}, NEW f \in 1 .. m, NEW t \in 1 .. n
  PROVE  (f - 1) * n + t \in 1 .. m * n
<1>1. (f - 1) * n \in Nat
  OBVIOUS
<1>2. m * n = (f - 1) * n + (m - (f - 1)) * n
  OBVIOUS
<1>3. (m - (f - 1)) * n >= n
  OBVIOUS
<1> QED
  BY <1>1, <1>2, <1>3

-----------------------------------------------------------------------------

\* The four predicated vectors of a batch cover a run of timings, up to the last.
LEMMA ActiveTimingsAreARun ==
  ASSUME workspace.timing_count \in Nat, timing_base \in Nat, NEW u \in Int
  PROVE  u \in ActiveTimings <=> /\ timing_base <= u /\ u < timing_base + BatchWidth
                                 /\ u \in 0 .. workspace.timing_count - 1
<1>1. Lanes \in Nat \ {0}
  BY LanesAssumption
<1>2. ASSUME timing_base <= u, u < timing_base + 4 * Lanes
      PROVE  \E g \in 0 .. 3, j \in 0 .. Lanes - 1 : u = timing_base + g * Lanes + j
  <2>1. CASE u < timing_base + Lanes
    <3>1. u - timing_base \in 0 .. Lanes - 1 /\ u = timing_base + 0 * Lanes + (u - timing_base)
      BY <1>1, <1>2, <2>1
    <3> QED
      BY <3>1
  <2>2. CASE u >= timing_base + Lanes /\ u < timing_base + 2 * Lanes
    <3>1. /\ u - timing_base - Lanes \in 0 .. Lanes - 1
          /\ u = timing_base + 1 * Lanes + (u - timing_base - Lanes)
      BY <1>1, <2>2
    <3> QED
      BY <3>1
  <2>3. CASE u >= timing_base + 2 * Lanes /\ u < timing_base + 3 * Lanes
    <3>1. /\ u - timing_base - 2 * Lanes \in 0 .. Lanes - 1
          /\ u = timing_base + 2 * Lanes + (u - timing_base - 2 * Lanes)
      BY <1>1, <2>3
    <3> QED
      BY <3>1
  <2>4. CASE u >= timing_base + 3 * Lanes
    <3>1. /\ u - timing_base - 3 * Lanes \in 0 .. Lanes - 1
          /\ u = timing_base + 3 * Lanes + (u - timing_base - 3 * Lanes)
      BY <1>1, <1>2, <2>4
    <3> QED
      BY <3>1
  <2> QED
    BY <1>1, <2>1, <2>2, <2>3, <2>4
<1>3. ASSUME NEW g \in 0 .. 3, NEW j \in 0 .. Lanes - 1, u = timing_base + g * Lanes + j
      PROVE  timing_base <= u /\ u < timing_base + 4 * Lanes
  BY <1>1, <1>3
<1> QED
  BY <1>2, <1>3 DEF ActiveTimings, BatchWidth

\* Column t of a packed copy is the window of timing t, sample by sample.
LEMMA PackedColumn ==
  ASSUME NEW p \in Plan, NEW c, Runnable(p),
         NEW s \in 0 .. p.preamble_length - 1, NEW t \in 0 .. TimingCount(p) - 1
  PROVE  PackedFrom(p, c, TimingCount(p))[s * TimingCount(p) + t + 1]
           = <<c, p.timing_offsets[t + 1] + s>>
<1> DEFINE n == TimingCount(p)
           k == s * n + t + 1
<1>1. n \in Nat \ {0} /\ p.preamble_length \in Nat \ {0}
  BY DEF Runnable
<1> HIDE DEF n
<1>2. s \in Nat /\ t \in 0 .. n - 1 /\ t \in Nat
  BY <1>1 DEF n
<1>3. k \in 1 .. p.preamble_length * n
  <2>1. s + 1 \in 1 .. p.preamble_length /\ (s + 1) - 1 = s /\ t + 1 \in 1 .. n
    BY <1>1, <1>2
  <2>2. ((s + 1) - 1) * n + (t + 1) \in 1 .. p.preamble_length * n
    BY <1>1, <2>1, EntryInTable
  <2> QED
    BY <1>1, <1>2, <2>1, <2>2
<1>4. k - 1 = s * n + t
  BY <1>1, <1>2
<1>5. (k - 1) % n = t /\ (k - 1) \div n = s
  BY <1>1, <1>2, <1>4, RowOfIndex
<1> HIDE DEF k
<1>6. PackedFrom(p, c, n)[k] = <<c, p.timing_offsets[((k - 1) % n) + 1] + ((k - 1) \div n)>>
  BY <1>3 DEF PackedFrom
<1> QED
  BY <1>5, <1>6 DEF n, k

\* What a run that is admitted knows of its plan, for the copy as well.
LEMMA RunningPlanRunnable ==
  ASSUME Prepared, RunError(plan, capture) = NoError
  PROVE  Runnable(plan)
BY RunningPlan DEF Runnable

\* An admitted run whose caller kept the contract has the copy that it needs.
LEMMA CopyIsFresh ==
  ASSUME Copied, Admitted, Contract
  PROVE  Fresh
<1>1. CASE plan.timing_offsets_contiguous
  BY <1>1 DEF Fresh
<1>2. CASE ~plan.timing_offsets_contiguous
  <2>1. workspace.packed_input_required
    BY <1>2 DEF Admitted
  <2>2. PICK p \in Plan, c \in Captures :
          packed_for = <<p, c>> /\ workspace.received = PackedFrom(p, c, TimingCount(p))
    BY <2>1 DEF Copied
  <2>3. p = plan /\ c = capture
    BY <2>1, <2>2 DEF Contract
  <2> QED
    BY <2>2, <2>3 DEF Fresh, Packed
<1> QED
  BY <1>1, <1>2

(***************************************************************************)
(* On a fresh workspace a lane accumulates the window of its own timing.   *)
(***************************************************************************)
LEMMA LaneScoreIsHypothesis ==
  ASSUME Prepared, Fresh, fi \in 1 .. FrequencyCount(plan),
         NEW t \in 0 .. TimingCount(plan) - 1
  PROVE  LaneScore(t) = HypothesisScore(plan, capture, <<fi, t + 1>>)
<1>1. /\ RunError(plan, capture) = NoError
      /\ TimingCount(plan) \in Nat \ {0} /\ plan.preamble_length \in Nat \ {0}
      /\ \A i \in 1 .. TimingCount(plan) : plan.timing_offsets[i] \in Nat
      /\ plan \in Plan /\ Runnable(plan)
  BY RunningPlan, RunningPlanRunnable DEF Fresh, Admitted
<1>2. t + 1 \in 1 .. TimingCount(plan) /\ (t + 1) - 1 = t
  BY <1>1
<1>3. HypothesisScore(plan, capture, <<fi, t + 1>>)
        = Recording[capture].score[<<plan.frequency_hypotheses[fi], plan.timing_offsets[t + 1]>>]
  BY DEF HypothesisScore, CandidateOf, CandidateFrom
<1>4. CASE plan.timing_offsets_contiguous
  <2>1. plan.timing_offsets[t + 1] = workspace.contiguous_timing_start + t
    BY <1>1, <1>2, <1>4, ContiguousCountsUp DEF Fresh, Admitted
  <2>2. ~workspace.packed_input_required
    BY <1>4 DEF Fresh, Admitted
  <2> QED
    BY <1>3, <2>1, <2>2 DEF LaneScore
<1>5. CASE ~plan.timing_offsets_contiguous
  <2> DEFINE column == [s \in 0 .. workspace.preamble_length - 1 |->
                          workspace.received[s * workspace.timing_count + t + 1]]
  <2>1. workspace.packed_input_required
    BY <1>5 DEF Fresh, Admitted
  <2>2. DOMAIN column = 0 .. plan.preamble_length - 1
    BY DEF Fresh, Admitted
  <2>3. ASSUME NEW s \in 0 .. plan.preamble_length - 1
        PROVE  column[s] = <<capture, plan.timing_offsets[t + 1] + s>>
    <3>1. column[s] = Packed(TimingCount(plan))[s * TimingCount(plan) + t + 1]
      BY <1>5, <2>2 DEF Fresh, Admitted
    <3> QED
      BY <1>1, <3>1, PackedColumn DEF Packed
  <2>4. LaneScore(t) =
          IF \A s \in DOMAIN column : column[s] = <<column[0][1], column[0][2] + s>>
            THEN Recording[column[0][1]].score[<<plan.frequency_hypotheses[fi], column[0][2]>>]
            ELSE NaN
    BY <2>1 DEF LaneScore
  <2> HIDE DEF column
  <2>5. 0 \in 0 .. plan.preamble_length - 1 /\ plan.timing_offsets[t + 1] \in Nat
    BY <1>1, <1>2
  <2>6. column[0] = <<capture, plan.timing_offsets[t + 1] + 0>>
    BY <2>3, <2>5
  <2>7. column[0][1] = capture /\ column[0][2] = plan.timing_offsets[t + 1]
    BY <2>5, <2>6
  <2> QED
    BY <1>3, <2>2, <2>3, <2>4, <2>7
<1> QED
  BY <1>4, <1>5

\* The score of a hypothesis is a score.
LEMMA HypothesisScoreType ==
  ASSUME Prepared, RunError(plan, capture) = NoError, NEW h \in Hypotheses(plan)
  PROVE  HypothesisScore(plan, capture, h) \in Score
<1>1. /\ h[1] \in 1 .. Len(plan.frequency_hypotheses) /\ h[2] \in 1 .. TimingCount(plan)
      /\ plan \in Plan /\ capture \in Captures
  BY RunningPlan DEF Hypotheses, FrequencyCount
<1>2. plan.timing_offsets[h[2]] \in Size
  BY <1>1, RunningPlan
<1>3. plan.frequency_hypotheses[h[1]] \in Frequencies
  BY <1>1 DEF Plan
<1>4. Recording[capture].score \in [Frequencies \X Size -> Score]
  BY <1>1, CapturesAssumption DEF ReceivedIq
<1> QED
  BY <1>2, <1>3, <1>4 DEF HypothesisScore, CandidateOf, CandidateFrom

\* What an admitted run stores is a score, of a stale copy as well.
LEMMA LaneScoreType ==
  ASSUME Prepared, Copied, Admitted, fi \in 1 .. FrequencyCount(plan),
         NEW t \in 0 .. TimingCount(plan) - 1
  PROVE  LaneScore(t) \in Score
<1>1. /\ RunError(plan, capture) = NoError
      /\ TimingCount(plan) \in Nat \ {0} /\ plan.preamble_length \in Nat \ {0}
      /\ \A i \in 1 .. TimingCount(plan) : plan.timing_offsets[i] \in Size
      /\ plan \in Plan /\ capture \in Captures
  BY RunningPlan DEF Admitted
<1>2. plan.frequency_hypotheses[fi] \in Frequencies
  BY <1>1 DEF Plan, FrequencyCount
<1>3. ASSUME NEW c \in Captures, NEW start \in Size
      PROVE  Recording[c].score[<<plan.frequency_hypotheses[fi], start>>] \in Score
  <2>1. Recording[c].score \in [Frequencies \X Size -> Score]
    BY CapturesAssumption DEF ReceivedIq
  <2> QED
    BY <1>2, <2>1
<1>4. CASE plan.timing_offsets_contiguous
  <2>1. t + 1 \in 1 .. TimingCount(plan) /\ (t + 1) - 1 = t
    BY <1>1
  <2>2. plan.timing_offsets[t + 1] = workspace.contiguous_timing_start + t
    BY <1>1, <1>4, <2>1, ContiguousCountsUp DEF Admitted
  <2>3. workspace.contiguous_timing_start + t \in Size
    BY <1>1, <2>1, <2>2
  <2>4. ~workspace.packed_input_required
    BY <1>4 DEF Admitted
  <2> QED
    BY <1>1, <1>3, <2>3, <2>4 DEF LaneScore
<1>5. CASE ~plan.timing_offsets_contiguous
  <2> DEFINE column == [s \in 0 .. workspace.preamble_length - 1 |->
                          workspace.received[s * workspace.timing_count + t + 1]]
  <2>1. /\ workspace.packed_input_required
        /\ workspace.preamble_length = plan.preamble_length
        /\ workspace.timing_count = TimingCount(plan)
    BY <1>5 DEF Admitted
  <2>2. PICK p \in Plan, c \in Captures :
          /\ Runnable(p) /\ workspace.timing_count = TimingCount(p)
          /\ workspace.received = PackedFrom(p, c, TimingCount(p))
    BY <2>1 DEF Copied
  <2>3. /\ t \in 0 .. TimingCount(p) - 1 /\ 0 \in 0 .. p.preamble_length - 1
        /\ p.timing_offsets[t + 1] \in Size
    <3>1. TimingCount(p) = TimingCount(plan) /\ t + 1 \in 1 .. TimingCount(p)
      BY <1>1, <2>1, <2>2
    <3>2. p.timing_offsets[t + 1] \in Size
      BY <2>2, <3>1 DEF Runnable, TimingCount
    <3> QED
      BY <2>2, <3>1, <3>2 DEF Runnable
  <2>4. workspace.received[0 * TimingCount(p) + t + 1] = <<c, p.timing_offsets[t + 1] + 0>>
    BY <2>2, <2>3, PackedColumn
  <2>5. column[0] = workspace.received[0 * TimingCount(p) + t + 1]
    BY <1>1, <2>1, <2>2
  <2>6. LaneScore(t) \in
          {Recording[column[0][1]].score[<<plan.frequency_hypotheses[fi], column[0][2]>>], NaN}
    BY <2>1 DEF LaneScore
  <2> HIDE DEF column
  <2>7. column[0][1] = c /\ column[0][2] = p.timing_offsets[t + 1]
    BY <2>3, <2>4, <2>5, SizeAssumption DEF Size
  <2>8. NaN \in Score
    BY DEF Score
  <2> QED
    BY <1>3, <2>3, <2>6, <2>7, <2>8
<1> QED
  BY <1>4, <1>5

-----------------------------------------------------------------------------

\* Nothing is prepared and nothing runs.
LEMMA InitInv == Init => IInv
<1> SUFFICES ASSUME Init PROVE IInv
  OBVIOUS
<1>1. EmptyPlan \in Plan
  BY SizeAssumption DEF EmptyPlan, Plan, Size
<1>2. EmptyWorkspace \in Workspace
  BY DEF EmptyWorkspace, Workspace
<1>3. Prepared
  BY <1>1, <1>2 DEF Init, Prepared
<1>4. Position
  BY DEF Init, Position
<1>5. Copied
  BY DEF Init, EmptyWorkspace, Copied
<1> QED
  BY <1>3, <1>4, <1>5 DEF Init, IInv, CorrelationsBelongToHypotheses

\* A change of plan or capture is made between runs and keeps the workspace.
LEMMA ChangeInv ==
  IInv /\ ((\E config \in Configs : PreparePlan(config)) \/ (\E c \in Captures : LoadCapture(c)))
    => IInv'
<1> SUFFICES ASSUME IInv,
                    \/ \E config \in Configs : PreparePlan(config)
                    \/ \E c \in Captures : LoadCapture(c)
             PROVE  IInv'
  OBVIOUS
<1>1. Prepared'
  <2>1. CASE \E config \in Configs : PreparePlan(config)
    <3>1. PICK config \in Configs : PreparePlan(config)
      BY <2>1
    <3>2. PreparedPlan(config) \in Plan
      BY PreparedPlanType, ConfigsAssumption
    <3> QED
      BY <3>1, <3>2 DEF PreparePlan, IInv, Prepared
  <2>2. CASE \E c \in Captures : LoadCapture(c)
    BY <2>2 DEF LoadCapture, IInv, Prepared
  <2> QED
    BY <2>1, <2>2
<1>2. pc' = "idle" /\ fi' = 1 /\ timing_base' = 0 /\ ti' = 1 /\ result' = NoResult
  BY DEF PreparePlan, LoadCapture, Idle
<1>3. Position'
  BY <1>2 DEF Position
<1>4. Copied'
  BY DEF PreparePlan, LoadCapture, IInv, Copied
<1> QED
  BY <1>1, <1>2, <1>3, <1>4 DEF IInv, CorrelationsBelongToHypotheses

\* The packed copy of a runnable plan is a sequence of samples.
LEMMA PackedType ==
  ASSUME Prepared, RunError(plan, capture) = NoError
  PROVE  /\ Packed(TimingCount(plan)) \in Seq(Captures \X Nat)
         /\ Len(Packed(TimingCount(plan))) = plan.preamble_length * TimingCount(plan)
<1> DEFINE n == TimingCount(plan)
<1>1. /\ n \in Nat \ {0} /\ plan.preamble_length \in Nat \ {0} /\ capture \in Captures
      /\ \A i \in 1 .. n : plan.timing_offsets[i] \in Nat
  BY RunningPlan
<1> HIDE DEF n
<1>2. plan.preamble_length * n \in Nat
  BY <1>1
<1>3. ASSUME NEW k \in 1 .. plan.preamble_length * n
      PROVE  <<capture, plan.timing_offsets[((k - 1) % n) + 1] + ((k - 1) \div n)>>
               \in Captures \X Nat
  <2>1. k - 1 \in Nat
    BY <1>2
  <2>2. (k - 1) % n \in 0 .. n - 1 /\ (k - 1) \div n \in Nat
    BY <1>1, <2>1
  <2>3. ((k - 1) % n) + 1 \in 1 .. n
    BY <1>1, <2>2
  <2> QED
    BY <1>1, <2>2, <2>3
<1>4. Packed(n) \in [1 .. plan.preamble_length * n -> Captures \X Nat]
  BY <1>3 DEF Packed, PackedFrom
<1> QED
  BY <1>2, <1>4 DEF n

\* Preparing, repacking and discarding leave a well-formed workspace.
LEMMA WorkspaceInv ==
  IInv /\ (DiscardWorkspace \/ PrepareWorkspace \/ PackCapture) => IInv'
<1> SUFFICES ASSUME IInv, DiscardWorkspace \/ PrepareWorkspace \/ PackCapture PROVE IInv'
  OBVIOUS
<1>1. /\ UNCHANGED <<plan, capture>>
      /\ pc' = "idle" /\ fi' = 1 /\ timing_base' = 0 /\ ti' = 1 /\ result' = NoResult
  BY DEF DiscardWorkspace, PrepareWorkspace, PackCapture, Idle
<1>2. workspace' \in Workspace
  <2>1. CASE DiscardWorkspace
    BY <2>1 DEF DiscardWorkspace, EmptyWorkspace, Workspace
  <2>2. CASE PrepareWorkspace
    <3>1. /\ Prepared /\ RunError(plan, capture) = NoError /\ workspace' = PreparedWorkspace
      BY <2>2, SameRefusals DEF PrepareWorkspace, IInv
    <3>2. Packed(TimingCount(plan)) \in Seq(Captures \X Nat)
      BY <3>1, PackedType
    <3>3. /\ TimingCount(plan) \in Nat /\ FrequencyCount(plan) \in Nat
          /\ plan.preamble_length \in Nat /\ plan \in Plan
      BY <3>1, RunningPlan
    <3>4. plan.contiguous_timing_start \in Nat
      BY <3>3, SizeAssumption DEF Plan, Size
    <3>5. Resized(workspace.correlations, FrequencyCount(plan) * TimingCount(plan)) \in Seq(Score)
      <4> DEFINE m == FrequencyCount(plan) * TimingCount(plan)
                 old == workspace.correlations
      <4>1. old \in Seq(Score) /\ 0 \in Score /\ m \in Nat
        BY <3>1, <3>3, InfinityAssumption DEF Prepared, Workspace, Score
      <4> HIDE DEF old, m
      <4>2. Resized(old, m) \in [1 .. m -> Score]
        BY <4>1 DEF Resized
      <4> QED
        BY <4>1, <4>2 DEF old, m
    <3>6. << >> \in Seq(Captures \X Nat)
      OBVIOUS
    <3>7. (~plan.timing_offsets_contiguous) \in BOOLEAN
      OBVIOUS
    <3> QED
      BY <3>1, <3>2, <3>3, <3>4, <3>5, <3>6, <3>7 DEF PreparedWorkspace, Workspace
  <2>3. CASE PackCapture
    <3>1. /\ Prepared /\ RunError(plan, capture) = NoError
          /\ workspace.timing_count = TimingCount(plan)
          /\ workspace' = [workspace EXCEPT !.received =
                             IF workspace.packed_input_required
                               THEN Packed(workspace.timing_count) ELSE @]
      BY <2>3, SameRefusals DEF PackCapture, DimensionsInconsistent, IInv
    <3>2. Packed(TimingCount(plan)) \in Seq(Captures \X Nat)
      BY <3>1, PackedType
    <3>3. workspace \in Workspace
      BY <3>1 DEF Prepared
    <3> QED
      BY <3>1, <3>2, <3>3 DEF Workspace
  <2> QED
    BY <2>1, <2>2, <2>3
<1>3. Prepared' /\ Position'
  BY <1>1, <1>2 DEF IInv, Prepared, Position
<1>4. Copied'
  <2>1. CASE DiscardWorkspace
    BY <2>1 DEF DiscardWorkspace, EmptyWorkspace, Copied
  <2>2. CASE PrepareWorkspace
    <3>1. /\ Runnable(plan) /\ plan \in Plan /\ capture \in Captures
          /\ workspace' = PreparedWorkspace
      BY <2>2, SameRefusals, RunningPlan, RunningPlanRunnable DEF PrepareWorkspace, IInv
    <3>2. CASE plan.timing_offsets_contiguous
      <4>1. workspace'.packed_input_required = FALSE
        BY <3>1, <3>2 DEF PreparedWorkspace
      <4> QED
        BY <4>1 DEF Copied
    <3>3. CASE ~plan.timing_offsets_contiguous
      <4>1. /\ workspace'.packed_input_required = TRUE
            /\ workspace'.timing_count = TimingCount(plan)
            /\ workspace'.received = PackedFrom(plan, capture, TimingCount(plan))
        BY <3>1, <3>3 DEF PreparedWorkspace, Packed
      <4>2. packed_for' = <<plan, capture>>
        BY <2>2, <4>1 DEF PrepareWorkspace
      <4> QED
        BY <3>1, <4>1, <4>2 DEF Copied
    <3> QED
      BY <3>2, <3>3
  <2>3. CASE PackCapture
    <3>1. /\ Runnable(plan) /\ plan \in Plan /\ capture \in Captures
          /\ workspace.timing_count = TimingCount(plan) /\ workspace \in Workspace
      BY <2>3, SameRefusals, RunningPlan, RunningPlanRunnable
         DEF PackCapture, DimensionsInconsistent, IInv, Prepared
    <3>2. CASE workspace.packed_input_required
      <4>1. /\ packed_for' = <<plan, capture>>
            /\ workspace'.timing_count = TimingCount(plan)
            /\ workspace'.received = PackedFrom(plan, capture, TimingCount(plan))
        BY <2>3, <3>1, <3>2 DEF PackCapture, Workspace, Packed
      <4> QED
        BY <3>1, <4>1 DEF Copied
    <3>3. CASE ~workspace.packed_input_required
      BY <2>3, <3>1, <3>3 DEF PackCapture, Workspace, Copied
    <3> QED
      BY <3>2, <3>3
  <2> QED
    BY <2>1, <2>2, <2>3
<1> QED
  BY <1>1, <1>3, <1>4 DEF IInv, CorrelationsBelongToHypotheses

\* A refusal reports an error and touches nothing else.
LEMMA RejectInv == IInv /\ (RejectInput \/ RejectWorkspace) => IInv'
<1> SUFFICES ASSUME IInv, RejectInput \/ RejectWorkspace PROVE IInv'
  OBVIOUS
<1>1. /\ UNCHANGED <<plan, capture, workspace, fi, timing_base, ti, packed_for>>
      /\ pc = "idle" /\ pc' \in {"done", "refused"}
  BY DEF RejectInput, RejectWorkspace, loopVars
<1>2. Prepared' /\ Position' /\ Copied'
  BY <1>1 DEF IInv, Prepared, Position, Copied
<1> QED
  BY <1>1, <1>2 DEF IInv, CorrelationsBelongToHypotheses

\* Admission does not depend on the correlations, only on their number.
LEMMA AdmittedKept ==
  ASSUME Admitted, UNCHANGED <<plan, capture>>,
         workspace'.timing_count = workspace.timing_count,
         workspace'.frequency_count = workspace.frequency_count,
         workspace'.preamble_length = workspace.preamble_length,
         workspace'.contiguous_timing_start = workspace.contiguous_timing_start,
         workspace'.packed_input_required = workspace.packed_input_required,
         workspace'.received = workspace.received,
         Len(workspace'.correlations) = Len(workspace.correlations)
  PROVE  Admitted'
<1>1. /\ RunError(plan, capture)' = RunError(plan, capture)
      /\ FrequencyCount(plan)' = FrequencyCount(plan)
      /\ TimingCount(plan)' = TimingCount(plan)
  OBVIOUS
<1>2. InputError' = InputError
  BY DEF InputError, LayoutMetadataInconsistent
<1>3. WorkspaceTooLarge' = WorkspaceTooLarge
  BY DEF WorkspaceTooLarge
<1> QED
  BY <1>1, <1>2, <1>3 DEF Admitted

(***************************************************************************)
(* What the checks of a run compare is all that the kernel reads but the   *)
(* copied samples themselves.                                              *)
(***************************************************************************)
LEMMA StartKernelInv == IInv /\ StartKernel => IInv'
<1> SUFFICES ASSUME IInv, StartKernel PROVE IInv'
  OBVIOUS
<1>1. /\ pc = "idle" /\ pc' = "kernel" /\ InputError = NoError
      /\ ~DimensionsInconsistent /\ ~LayoutInconsistent
      /\ UNCHANGED <<plan, capture, workspace, fi, timing_base, ti, result, packed_for>>
  BY DEF StartKernel, loopVars
<1>2. Prepared /\ RunError(plan, capture) = NoError /\ workspace \in Workspace
  BY <1>1, SameRefusals DEF IInv, Prepared
<1>3. /\ FrequencyCount(plan) \in Nat \ {0} /\ TimingCount(plan) \in Nat \ {0}
      /\ plan \in Plan
  BY <1>2, RunningPlan
<1>4. /\ workspace.timing_count = TimingCount(plan)
      /\ workspace.frequency_count = FrequencyCount(plan)
      /\ workspace.preamble_length = plan.preamble_length
      /\ ~WorkspaceTooLarge
      /\ Len(workspace.correlations) = FrequencyCount(plan) * TimingCount(plan)
  BY <1>1 DEF DimensionsInconsistent, WorkspaceTooLarge
<1>5. workspace.packed_input_required = ~plan.timing_offsets_contiguous
  <2>1. plan.timing_offsets_contiguous \in BOOLEAN /\ workspace.packed_input_required \in BOOLEAN
    BY <1>2, <1>3 DEF Plan, Workspace
  <2> QED
    BY <1>1, <2>1 DEF LayoutInconsistent
<1>6. ASSUME plan.timing_offsets_contiguous PROVE Admitted
  <2>1. workspace.contiguous_timing_start = plan.contiguous_timing_start
    BY <1>1, <1>5, <1>6 DEF LayoutInconsistent
  <2>2. Len(workspace.received) = 0 /\ workspace.received \in Seq(Captures \X Nat)
    BY <1>1, <1>2, <1>5, <1>6 DEF DimensionsInconsistent, Workspace
  <2>3. workspace.received = << >>
    BY <2>2
  <2> QED
    BY <1>1, <1>2, <1>4, <1>5, <1>6, <2>1, <2>3 DEF Admitted
<1>7. ASSUME ~plan.timing_offsets_contiguous PROVE Admitted
  <2>1. Len(workspace.received) = plan.preamble_length * TimingCount(plan)
    BY <1>1, <1>4, <1>5, <1>7 DEF DimensionsInconsistent
  <2> QED
    BY <1>1, <1>2, <1>4, <1>5, <1>7, <2>1 DEF Admitted
<1>8. Admitted'
  BY <1>1, <1>6, <1>7, AdmittedKept
<1>9. Prepared' /\ Position' /\ Copied'
  BY <1>1, <1>3 DEF IInv, Prepared, Position, Copied
<1>10. BatchesDone'
  <2>1. fi = 1 /\ timing_base = 0
    BY <1>1 DEF IInv, Position
  <2>2. \A h \in Hypotheses(plan) : ~(h[1] < 1) /\ ~(h[1] = 1 /\ h[2] <= 0)
    BY <1>3 DEF Hypotheses
  <2> QED
    BY <1>1, <2>1, <2>2 DEF BatchesDone
<1> QED
  BY <1>1, <1>8, <1>9, <1>10 DEF IInv, CorrelationsBelongToHypotheses

-----------------------------------------------------------------------------

(***************************************************************************)
(* One batch stores the scores of its active timings in the row of its     *)
(* frequency and leaves every other entry alone.                           *)
(***************************************************************************)
LEMMA BatchStores ==
  ASSUME IInv, KernelBatch
  PROVE  /\ Prepared' /\ Copied' /\ Admitted' /\ (Contract' <=> Contract)
         /\ \A h \in Hypotheses(plan) :
              IF h[1] = fi /\ timing_base < h[2] /\ h[2] <= timing_base + BatchWidth
                THEN Contract => Correlated(h)'
                ELSE Correlated(h) => Correlated(h)'
<1> DEFINE T == TimingCount(plan)
           F == FrequencyCount(plan)
           row == (fi - 1) * T
           old == workspace.correlations
           new == [i \in DOMAIN old |-> IF i - row - 1 \in ActiveTimings
                                          THEN LaneScore(i - row - 1) ELSE old[i]]
<1>1. /\ pc = "kernel" /\ UNCHANGED <<plan, capture, packed_for>>
      /\ workspace' = [workspace EXCEPT !.correlations =
           [i \in DOMAIN @ |-> IF i - (fi - 1) * workspace.timing_count - 1 \in ActiveTimings
                                 THEN LaneScore(i - (fi - 1) * workspace.timing_count - 1)
                                 ELSE @[i]]]
  BY DEF KernelBatch, AnotherBatch
<1>2. /\ Prepared /\ Copied /\ Admitted /\ RunError(plan, capture) = NoError
      /\ fi \in 1 .. F /\ timing_base \in Nat
      /\ workspace.timing_count = T /\ workspace \in Workspace
  BY <1>1, RunningPlan DEF IInv, Position, Admitted, Prepared
<1>3. T \in Nat \ {0} /\ F \in Nat \ {0}
  BY <1>2, RunningPlan
<1>4. workspace' = [workspace EXCEPT !.correlations = new]
  BY <1>1, <1>2
<1>5. old \in Seq(Score) /\ Len(old) = F * T /\ DOMAIN old = 1 .. F * T
  BY <1>2 DEF Workspace, Admitted
<1>6. row \in Nat /\ F * T \in Nat
  BY <1>2, <1>3
<1>7. ASSUME NEW u \in Int
       PROVE  u \in ActiveTimings <=> /\ timing_base <= u /\ u < timing_base + BatchWidth
                                      /\ u \in 0 .. T - 1
  <2>1. workspace.timing_count \in Nat /\ timing_base \in Nat
    BY <1>2, <1>3
  <2>2. u \in ActiveTimings <=> /\ timing_base <= u /\ u < timing_base + BatchWidth
                                /\ u \in 0 .. workspace.timing_count - 1
    BY <2>1, ActiveTimingsAreARun
  <2> QED
    BY <1>2, <2>2
<1>8. ASSUME NEW u \in Int, u \in ActiveTimings
      PROVE  /\ LaneScore(u) \in Score
             /\ Contract => LaneScore(u) = HypothesisScore(plan, capture, <<fi, u + 1>>)
  <2>1. u \in 0 .. T - 1
    BY <1>8, <1>7
  <2>2. LaneScore(u) \in Score
    BY <1>2, <2>1, LaneScoreType
  <2>3. Contract => LaneScore(u) = HypothesisScore(plan, capture, <<fi, u + 1>>)
    BY <1>2, <2>1, CopyIsFresh, LaneScoreIsHypothesis
  <2> QED
    BY <2>2, <2>3
<1> HIDE DEF row
<1>9. new \in Seq(Score) /\ Len(new) = F * T
  <2>1. ASSUME NEW i \in 1 .. F * T
        PROVE  (IF i - row - 1 \in ActiveTimings THEN LaneScore(i - row - 1) ELSE old[i]) \in Score
    <3>1. i - row - 1 \in Int /\ old[i] \in Score
      BY <1>5, <1>6
    <3> QED
      BY <1>8, <3>1
  <2> HIDE DEF old, F, T
  <2>2. new \in [1 .. F * T -> Score]
    BY <1>5, <2>1
  <2> QED
    BY <1>6, <2>2
<1>10. ASSUME NEW h \in Hypotheses(plan)
      PROVE  IF h[1] = fi /\ timing_base < h[2] /\ h[2] <= timing_base + BatchWidth
               THEN Contract => new[(h[1] - 1) * T + h[2]] = HypothesisScore(plan, capture, h)
               ELSE new[(h[1] - 1) * T + h[2]] = old[(h[1] - 1) * T + h[2]]
  <2> DEFINE entry == (h[1] - 1) * T + h[2]
             u == entry - row - 1
  <2>1. h[1] \in 1 .. F /\ h[2] \in 1 .. T /\ h = <<h[1], h[2]>>
    BY DEF Hypotheses
  <2>2. entry \in 1 .. F * T
    BY <1>3, <2>1, EntryInTable
  <2>3. /\ u \in 0 .. T - 1 => h[1] = fi
        /\ h[1] = fi => u = h[2] - 1
    BY <1>2, <1>3, <2>1, EntryOfRow DEF row
  <2>4. entry \in Int /\ u \in Int /\ BatchWidth \in Int
    BY <1>6, <2>2, LanesAssumption DEF BatchWidth
  <2> HIDE DEF entry, T, F, old
  <2>5. new[entry] = IF u \in ActiveTimings THEN LaneScore(u) ELSE old[entry]
    BY <1>5, <2>2
  <2> HIDE DEF u, new
  <2>6. u \in ActiveTimings <=> h[1] = fi /\ timing_base < h[2] /\ h[2] <= timing_base + BatchWidth
    <3>1. u \in ActiveTimings <=> /\ timing_base <= u /\ u < timing_base + BatchWidth
                                  /\ u \in 0 .. T - 1
      BY <1>7, <2>4
    <3> QED
      BY <1>2, <1>3, <2>1, <2>3, <2>4, <3>1
  <2>7. u \in ActiveTimings /\ Contract =>
          LaneScore(u) = HypothesisScore(plan, capture, <<fi, u + 1>>)
    BY <1>8, <2>4
  <2>8. h[1] = fi => <<fi, u + 1>> = h
    BY <2>1, <2>3, <2>4
  <2> QED
    BY <2>5, <2>6, <2>7, <2>8 DEF entry
<1> HIDE DEF new
<1>11. workspace' \in Workspace /\ workspace'.correlations = new
  BY <1>2, <1>4, <1>9 DEF Workspace
<1>12. Prepared'
  BY <1>1, <1>2, <1>11 DEF Prepared
<1>13. Admitted' /\ Copied' /\ (Contract' <=> Contract)
  <2>1. Admitted'
    BY <1>1, <1>2, <1>4, <1>5, <1>9, AdmittedKept DEF Workspace
  <2>2. /\ workspace'.packed_input_required = workspace.packed_input_required
        /\ workspace'.timing_count = workspace.timing_count
        /\ workspace'.received = workspace.received
    BY <1>2, <1>4 DEF Workspace
  <2>3. Copied'
    BY <1>1, <1>2, <2>2 DEF Copied
  <2>4. Contract' <=> Contract
    BY <1>1, <2>2 DEF Contract
  <2> QED
    BY <2>1, <2>3, <2>4
<1>14. ASSUME NEW h \in Hypotheses(plan)
       PROVE  /\ Correlated(h) <=> old[(h[1] - 1) * T + h[2]] = HypothesisScore(plan, capture, h)
              /\ Correlated(h)' <=> new[(h[1] - 1) * T + h[2]] = HypothesisScore(plan, capture, h)
  <2>1. Correlated(h) <=> old[(h[1] - 1) * T + h[2]] = HypothesisScore(plan, capture, h)
    BY DEF Correlated
  <2>2. /\ TimingCount(plan)' = T
        /\ HypothesisScore(plan, capture, h)' = HypothesisScore(plan, capture, h)
    BY <1>1
  <2>3. Correlated(h)' <=> new[(h[1] - 1) * T + h[2]] = HypothesisScore(plan, capture, h)
    BY <1>11, <2>2 DEF Correlated
  <2> QED
    BY <2>1, <2>3
<1> QED
  BY <1>10, <1>12, <1>13, <1>14

\* A batch stores the correlations of its own timings.
LEMMA KernelBatchInv == IInv /\ KernelBatch => IInv'
<1> SUFFICES ASSUME IInv, KernelBatch PROVE IInv'
  OBVIOUS
<1> DEFINE T == TimingCount(plan)
           F == FrequencyCount(plan)
<1>1. /\ pc = "kernel" /\ UNCHANGED <<plan, capture, ti, result>>
      /\ Prepared /\ Admitted /\ RunError(plan, capture) = NoError
      /\ fi \in 1 .. F /\ timing_base \in 0 .. T - 1 /\ ti = 1 /\ result = NoResult
      /\ workspace.timing_count = T /\ workspace.frequency_count = F
  BY RunningPlan DEF KernelBatch, AnotherBatch, IInv, Position, Admitted
<1>2. T \in Nat \ {0} /\ F \in Nat \ {0} /\ BatchWidth \in Nat \ {0}
  BY <1>1, RunningPlan, LanesAssumption DEF BatchWidth
<1>3. F' = F /\ T' = T
  BY <1>1
<1>4. IF timing_base + BatchWidth < T
        THEN timing_base' = timing_base + BatchWidth /\ pc' = pc /\ fi' = fi
        ELSE /\ timing_base' = 0
             /\ IF fi < F THEN fi' = fi + 1 /\ pc' = pc ELSE fi' = 1 /\ pc' = "score"
  BY <1>1 DEF KernelBatch, AnotherBatch
<1>5. Prepared' /\ Copied' /\ Admitted' /\ (Contract' <=> Contract)
  BY BatchStores
<1>6. ASSUME Contract, NEW h \in Hypotheses(plan),
             h[1] < fi \/ (h[1] = fi /\ h[2] <= timing_base + BatchWidth)
      PROVE  Correlated(h)'
  <2>1. h[1] \in 1 .. F /\ h[2] \in 1 .. T
    BY DEF Hypotheses
  <2>2. CASE h[1] = fi /\ timing_base < h[2]
    <3>1. h[2] <= timing_base + BatchWidth
      BY <1>1, <1>6, <2>1, <2>2
    <3> QED
      BY <1>6, <2>2, <3>1, BatchStores
  <2>3. CASE h[1] < fi \/ (h[1] = fi /\ h[2] <= timing_base)
    <3>1. Correlated(h)
      BY <1>1, <1>6, <2>3 DEF IInv, BatchesDone
    <3>2. ~(h[1] = fi /\ timing_base < h[2])
      BY <1>1, <2>1, <2>3
    <3> QED
      BY <3>1, <3>2, BatchStores
  <2> QED
    BY <1>1, <1>2, <1>6, <2>1, <2>2, <2>3
<1>7. Hypotheses(plan)' = Hypotheses(plan)
  BY <1>1
<1>8. \A h \in Hypotheses(plan) : h[1] \in 1 .. F /\ h[2] \in 1 .. T
  BY DEF Hypotheses
<1> HIDE DEF T, F
<1>9. CASE timing_base + BatchWidth < T
  <2>1. timing_base' = timing_base + BatchWidth /\ pc' = "kernel" /\ fi' = fi
    BY <1>1, <1>4, <1>9
  <2>2. Position'
    BY <1>1, <1>2, <1>3, <1>9, <2>1 DEF Position, T, F
  <2>3. Contract => BatchesDone'
    BY <1>6, <1>7, <2>1 DEF BatchesDone
  <2> QED
    BY <1>5, <2>1, <2>2, <2>3 DEF IInv, CorrelationsBelongToHypotheses
<1>10. CASE timing_base + BatchWidth >= T /\ fi < F
  <2>1. timing_base' = 0 /\ pc' = "kernel" /\ fi' = fi + 1
    BY <1>1, <1>2, <1>4, <1>10
  <2>2. Position'
    BY <1>1, <1>2, <1>3, <1>10, <2>1 DEF Position, T, F
  <2>3. ASSUME Contract, NEW h \in Hypotheses(plan), h[1] < fi + 1 \/ (h[1] = fi + 1 /\ h[2] <= 0)
        PROVE  Correlated(h)'
    BY <1>1, <1>2, <1>6, <1>8, <1>10, <2>3
  <2>4. Contract => BatchesDone'
    BY <1>7, <2>1, <2>3 DEF BatchesDone
  <2> QED
    BY <1>5, <2>1, <2>2, <2>4 DEF IInv, CorrelationsBelongToHypotheses
<1>11. CASE timing_base + BatchWidth >= T /\ fi = F
  <2>1. pc' = "score" /\ fi' = 1
    BY <1>1, <1>2, <1>4, <1>11
  <2>2. Position'
    BY <1>1, <1>2, <1>3, <2>1 DEF Position, T, F
  <2>3. ASSUME Contract, NEW h \in Hypotheses(plan) PROVE Correlated(h)'
    BY <1>1, <1>2, <1>6, <1>8, <1>11, <2>3
  <2>4. CorrelationsBelongToHypotheses'
    BY <1>5, <1>7, <2>3 DEF CorrelationsBelongToHypotheses, Correlated
  <2> QED
    BY <1>5, <2>1, <2>2, <2>4 DEF IInv
<1> QED
  BY <1>1, <1>2, <1>9, <1>10, <1>11

\* Scoring reads the table and leaves it.
LEMMA ScoreCandidateInv == IInv /\ ScoreCandidate => IInv'
<1> SUFFICES ASSUME IInv, ScoreCandidate PROVE IInv'
  OBVIOUS
<1>1. /\ pc = "score" /\ UNCHANGED <<plan, capture, workspace, pc, timing_base, packed_for>>
      /\ fi <= workspace.frequency_count
      /\ IF ti < workspace.timing_count THEN fi' = fi /\ ti' = ti + 1
                                        ELSE fi' = fi + 1 /\ ti' = 1
  BY DEF ScoreCandidate
<1>2. /\ Prepared /\ Admitted /\ RunError(plan, capture) = NoError
      /\ workspace.timing_count = TimingCount(plan)
      /\ workspace.frequency_count = FrequencyCount(plan)
      /\ fi \in 1 .. FrequencyCount(plan) + 1 /\ ti \in 1 .. TimingCount(plan)
  BY <1>1 DEF IInv, Position, Admitted
<1>3. FrequencyCount(plan) \in Nat \ {0} /\ TimingCount(plan) \in Nat \ {0}
  BY <1>2, RunningPlan
<1>4. Prepared' /\ Copied' /\ Admitted'
  BY <1>1, <1>2, AdmittedKept DEF Prepared, IInv, Copied
<1>5. Position'
  BY <1>1, <1>2, <1>3 DEF Position
<1>6. CorrelationsBelongToHypotheses'
  BY <1>1 DEF IInv, CorrelationsBelongToHypotheses, Contract
<1> QED
  BY <1>1, <1>4, <1>5, <1>6 DEF IInv

\* The result is that of the rows scored.
LEMMA FinishInv == IInv /\ Finish => IInv'
<1> SUFFICES ASSUME IInv, Finish PROVE IInv'
  OBVIOUS
<1>1. pc' = "done" /\ UNCHANGED <<plan, capture, workspace, packed_for>>
  BY DEF Finish
<1>2. Prepared' /\ Position' /\ Copied'
  BY <1>1 DEF IInv, Prepared, Position, Copied
<1> QED
  BY <1>1, <1>2 DEF IInv, CorrelationsBelongToHypotheses

\* The invariant is about the variables of the specification only.
LEMMA StutterInv == IInv /\ UNCHANGED vars => IInv'
<1> SUFFICES ASSUME IInv, UNCHANGED vars PROVE IInv'
  OBVIOUS
<1>1. UNCHANGED <<plan, capture, workspace, pc, fi, timing_base, ti, result,
                  packed_for>>
  BY DEF vars
<1>2. Prepared' /\ Position' /\ Copied'
  BY <1>1 DEF IInv, Prepared, Position, Copied
<1>3. pc \in {"kernel", "score"} => Admitted'
  BY <1>1, AdmittedKept DEF IInv
<1>4. (pc = "kernel" /\ Contract => BatchesDone)' /\ CorrelationsBelongToHypotheses'
  BY <1>1 DEF IInv, BatchesDone, Correlated, CorrelationsBelongToHypotheses, Contract
<1> QED
  BY <1>1, <1>2, <1>3, <1>4 DEF IInv

(***************************************************************************)
(* The inductive invariant holds in every reachable state.                 *)
(***************************************************************************)
THEOREM Invariance == Spec => []IInv
<1>1. IInv /\ [Next]_vars => IInv'
  BY ChangeInv, WorkspaceInv, RejectInv, StartKernelInv, KernelBatchInv,
     ScoreCandidateInv, FinishInv, StutterInv DEF Next, Caller, Search
<1> QED
  BY InitInv, <1>1, PTL DEF Spec

(***************************************************************************)
(* Whatever plans and captures the workspace was prepared, packed and run  *)
(* for before, the table that is scored for a caller that keeps the        *)
(* contract holds the correlations of this plan and this capture, each at  *)
(* its own hypothesis, for vectors of any width.                           *)
(***************************************************************************)
THEOREM CorrelationsCorrect == Spec => []CorrelationsBelongToHypotheses
<1>1. IInv => CorrelationsBelongToHypotheses
  BY DEF IInv
<1> QED
  BY Invariance, <1>1, PTL

(***************************************************************************)
(* After any history of the workspace, a run that the checks admit works   *)
(* on what a preparation for its plan and capture would leave, the copied  *)
(* samples included when the last packing call was for them.               *)
(***************************************************************************)
THEOREM WorkspaceFresh == Spec => []AdmittedWorkspaceIsFresh
<1>1. IInv => AdmittedWorkspaceIsFresh
  <2> SUFFICES ASSUME IInv, pc = "kernel"
               PROVE  /\ InputError = NoError /\ ~WorkspaceTooLarge
                      /\ KernelShape(workspace) = KernelShape(PreparedWorkspace)
                      /\ Contract => workspace.received = PreparedWorkspace.received
    BY DEF AdmittedWorkspaceIsFresh
  <2>1. /\ Admitted /\ Copied /\ Prepared /\ RunError(plan, capture) = NoError
        /\ plan.timing_offsets_contiguous \in BOOLEAN
    BY DEF IInv, Prepared, Plan, Admitted
  <2>2. Len(workspace.received) = Len(PreparedWorkspace.received)
    BY <2>1, PackedType DEF Admitted, PreparedWorkspace
  <2>3. KernelShape(workspace) = KernelShape(PreparedWorkspace)
    BY <2>1, <2>2 DEF Admitted, KernelShape, PreparedWorkspace
  <2>4. Contract => workspace.received = PreparedWorkspace.received
    BY <2>1, CopyIsFresh DEF Fresh, Admitted, PreparedWorkspace
  <2> QED
    BY <2>1, <2>3, <2>4 DEF Admitted
<1> QED
  BY Invariance, <1>1, PTL

-----------------------------------------------------------------------------

(***************************************************************************)
(* A tuple is lowered by lowering a component and keeping those before it. *)
(***************************************************************************)
LEMMA LowersThree ==
  ASSUME NEW a1 \in Int, NEW a2 \in Int, NEW a3 \in Int,
         NEW b1 \in Int, NEW b2 \in Int, NEW b3 \in Int,
         \/ a1 < b1
         \/ a1 = b1 /\ a2 < b2
         \/ a1 = b1 /\ a2 = b2 /\ a3 < b3
  PROVE  Lowers(<<a1, a2, a3>>, <<b1, b2, b3>>)
<1> DEFINE a == <<a1, a2, a3>>
           b == <<b1, b2, b3>>
<1>1. /\ DOMAIN a = 1 .. 3
      /\ a[1] = a1 /\ a[2] = a2 /\ a[3] = a3
      /\ b[1] = b1 /\ b[2] = b2 /\ b[3] = b3
  OBVIOUS
<1> HIDE DEF a, b
<1>2. \E i \in 1 .. 3 : a[i] < b[i] /\ \A j \in 1 .. i - 1 : a[j] = b[j]
  <2>1. CASE a[1] < b[1]
    BY <2>1
  <2>2. CASE a[1] = b[1] /\ a[2] < b[2]
    <3>1. \A j \in 1 .. 2 - 1 : j = 1
      OBVIOUS
    <3> QED
      BY <2>2, <3>1
  <2>3. CASE a[1] = b[1] /\ a[2] = b[2] /\ a[3] < b[3]
    <3>1. \A j \in 1 .. 3 - 1 : j = 1 \/ j = 2
      OBVIOUS
    <3> QED
      BY <2>3, <3>1
  <2> QED
    BY <1>1, <2>1, <2>2, <2>3
<1> QED
  BY <1>1, <1>2 DEF Lowers, a, b

\* Inside the loops the workspace has the rows of the plan, and a timing is left.
LEMMA LoopCounts ==
  ASSUME IInv, pc \in {"kernel", "score"}
  PROVE  /\ workspace.timing_count \in Nat \ {0}
         /\ workspace.frequency_count \in Nat \ {0}
         /\ fi \in 1 .. workspace.frequency_count + 1
         /\ pc = "kernel" => /\ fi \in 1 .. workspace.frequency_count
                             /\ timing_base \in 0 .. workspace.timing_count - 1
         /\ pc = "score" => ti \in 1 .. workspace.timing_count
         /\ BatchWidth \in Nat \ {0}
<1>1. Prepared /\ Position /\ Admitted /\ RunError(plan, capture) = NoError
  BY DEF IInv, Admitted
<1>2. /\ workspace.timing_count = TimingCount(plan)
      /\ workspace.frequency_count = FrequencyCount(plan)
      /\ FrequencyCount(plan) \in Nat \ {0} /\ TimingCount(plan) \in Nat \ {0}
  BY <1>1, RunningPlan DEF Admitted
<1>3. BatchWidth \in Nat \ {0}
  BY LanesAssumption DEF BatchWidth
<1> QED
  BY <1>1, <1>2, <1>3 DEF Position

\* A batch moves on in its row, to the next row, or to the scoring.
LEMMA KernelBatchLowers ==
  ASSUME IInv, KernelBatch
  PROVE  pc' \in {"kernel", "score"} /\ Lowers(LeftToSearch', LeftToSearch)
<1> DEFINE F == workspace.frequency_count
           T == workspace.timing_count
<1>1. /\ pc = "kernel" /\ ti' = ti
      /\ \/ /\ AnotherBatch /\ timing_base' = timing_base + BatchWidth
            /\ pc' = "kernel" /\ fi' = fi
         \/ timing_base' = 0 /\ pc' = "kernel" /\ fi' = fi + 1 /\ fi < F
         \/ fi' = 1 /\ pc' = "score"
  BY DEF KernelBatch
<1>2. F' = F /\ T' = T
  <2>1. workspace \in Workspace
    BY DEF IInv, Prepared
  <2> QED
    BY <2>1 DEF KernelBatch, Workspace
<1>3. /\ T \in Nat \ {0} /\ F \in Nat \ {0} /\ fi \in 1 .. F
      /\ timing_base \in 0 .. T - 1 /\ BatchWidth \in Nat \ {0} /\ ti \in Int
  BY <1>1, LoopCounts DEF IInv, Position
<1>4. LeftToSearch = <<1, F + 1 - fi, T - timing_base>>
  BY <1>1 DEF LeftToSearch
<1> HIDE DEF F, T
<1>5. CASE /\ AnotherBatch /\ timing_base' = timing_base + BatchWidth
           /\ pc' = "kernel" /\ fi' = fi
  <2>1. LeftToSearch' = <<1, F + 1 - fi, T - (timing_base + BatchWidth)>>
    BY <1>2, <1>5 DEF LeftToSearch, F, T
  <2>2. /\ F + 1 - fi \in Int /\ T - (timing_base + BatchWidth) \in Int
        /\ T - timing_base \in Int
        /\ T - (timing_base + BatchWidth) < T - timing_base
    BY <1>3
  <2>3. Lowers(<<1, F + 1 - fi, T - (timing_base + BatchWidth)>>, <<1, F + 1 - fi, T - timing_base>>)
    BY <2>2, LowersThree
  <2> QED
    BY <1>4, <1>5, <2>1, <2>3
<1>6. CASE timing_base' = 0 /\ pc' = "kernel" /\ fi' = fi + 1 /\ fi < F
  <2>1. LeftToSearch' = <<1, F + 1 - (fi + 1), T - 0>>
    BY <1>2, <1>6 DEF LeftToSearch, F, T
  <2>2. /\ F + 1 - fi \in Int /\ F + 1 - (fi + 1) \in Int /\ T - 0 \in Int
        /\ T - timing_base \in Int /\ F + 1 - (fi + 1) < F + 1 - fi
    BY <1>3
  <2>3. Lowers(<<1, F + 1 - (fi + 1), T - 0>>, <<1, F + 1 - fi, T - timing_base>>)
    BY <2>2, LowersThree
  <2> QED
    BY <1>4, <1>6, <2>1, <2>3
<1>7. CASE fi' = 1 /\ pc' = "score"
  <2>1. LeftToSearch' = <<0, F + 1 - 1, T + 1 - ti>>
    BY <1>1, <1>2, <1>7 DEF LeftToSearch, F, T
  <2>2. /\ F + 1 - fi \in Int /\ F + 1 - 1 \in Int /\ T + 1 - ti \in Int
        /\ T - timing_base \in Int
    BY <1>3
  <2>3. Lowers(<<0, F + 1 - 1, T + 1 - ti>>, <<1, F + 1 - fi, T - timing_base>>)
    BY <2>2, LowersThree
  <2> QED
    BY <1>4, <1>7, <2>1, <2>3
<1> QED
  BY <1>1, <1>5, <1>6, <1>7 DEF F

\* Scoring moves on in its row or to the next one.
LEMMA ScoreCandidateLowers ==
  ASSUME IInv, ScoreCandidate
  PROVE  pc' \in {"kernel", "score"} /\ Lowers(LeftToSearch', LeftToSearch)
<1> DEFINE F == workspace.frequency_count
           T == workspace.timing_count
<1>1. /\ pc = "score" /\ pc' = "score" /\ UNCHANGED workspace
      /\ \/ fi' = fi /\ ti' = ti + 1
         \/ fi' = fi + 1 /\ ti' = 1
  BY DEF ScoreCandidate
<1>2. T \in Nat \ {0} /\ F \in Nat \ {0} /\ fi \in Int /\ ti \in Int
  BY <1>1, LoopCounts
<1>3. /\ LeftToSearch = <<0, F + 1 - fi, T + 1 - ti>>
      /\ LeftToSearch' = <<0, F + 1 - fi', T + 1 - ti'>>
  BY <1>1 DEF LeftToSearch
<1> HIDE DEF F, T
<1>4. fi' \in Int /\ ti' \in Int
  BY <1>1, <1>2
<1>5. \/ F + 1 - fi' < F + 1 - fi
      \/ F + 1 - fi' = F + 1 - fi /\ T + 1 - ti' < T + 1 - ti
  BY <1>1, <1>2
<1>6. /\ F + 1 - fi \in Int /\ T + 1 - ti \in Int
      /\ F + 1 - fi' \in Int /\ T + 1 - ti' \in Int
  BY <1>2, <1>4
<1>7. Lowers(<<0, F + 1 - fi', T + 1 - ti'>>, <<0, F + 1 - fi, T + 1 - ti>>)
  BY <1>5, <1>6, LowersThree
<1> QED
  BY <1>1, <1>3, <1>7

(***************************************************************************)
(* The batches of the kernel and the scoring loop descend in a             *)
(* well-founded order, and no batch is empty, for vectors of any width.    *)
(***************************************************************************)
THEOREM KernelAdvancesCorrect == Spec => KernelAdvances
<1> DEFINE Advances ==
             /\ LeftToSearch \in {0, 1} \X Nat \X (Nat \ {0})
             /\ \/ pc' \in {"kernel", "score"} /\ Lowers(LeftToSearch', LeftToSearch)
                \/ pc' = "done" /\ LeftToSearch[1] = 0 /\ LeftToSearch[2] = 0
<1>1. IInv /\ [Next]_vars => [(pc \in {"kernel", "score"}) => Advances]_vars
  <2> SUFFICES ASSUME IInv, Next, pc \in {"kernel", "score"}
               PROVE  Advances
    BY Zenon
  <2>1. LeftToSearch \in {0, 1} \X Nat \X (Nat \ {0})
    <3>1. CASE pc = "kernel"
      BY <3>1, LoopCounts DEF LeftToSearch
    <3>2. CASE pc = "score"
      BY <3>2, LoopCounts DEF LeftToSearch
    <3> QED
      BY <3>1, <3>2
  <2>2. KernelBatch \/ ScoreCandidate \/ Finish
    BY DEF Next, Caller, Between, PreparePlan, LoadCapture, DiscardWorkspace, PrepareWorkspace,
           PackCapture, RejectInput, RejectWorkspace, StartKernel, Search
  <2>3. CASE KernelBatch
    BY <2>1, <2>3, KernelBatchLowers
  <2>4. CASE ScoreCandidate
    BY <2>1, <2>4, ScoreCandidateLowers
  <2>5. CASE Finish
    <3>1. pc = "score" /\ pc' = "done" /\ fi = workspace.frequency_count + 1
      BY <2>5 DEF Finish
    <3>2. workspace.frequency_count \in Nat
      BY LoopCounts
    <3>3. LeftToSearch[1] = 0 /\ LeftToSearch[2] = workspace.frequency_count + 1 - fi
      BY <3>1 DEF LeftToSearch
    <3>4. LeftToSearch[2] = 0
      BY <3>1, <3>2, <3>3
    <3> QED
      BY <2>1, <3>1, <3>3, <3>4
  <2> QED
    BY <2>2, <2>3, <2>4, <2>5
<1> QED
  BY Invariance, <1>1, PTL DEF Spec, KernelAdvances

-----------------------------------------------------------------------------

\* The reference's variables, as the refinement maps them.
refPc == IF Unanswered THEN "idle" ELSE IF pc \in {"kernel", "score"} THEN "search" ELSE pc

refFi == IF Unanswered \/ pc = "kernel" THEN 1 ELSE fi

refTi == IF Unanswered THEN 1 ELSE ti

refResult == IF Unanswered THEN NoResult ELSE result

\* A step that keeps them does not show in the reference.
LEMMA ReferenceStutters ==
  UNCHANGED <<plan, capture, refPc, refFi, refTi, refResult>> => UNCHANGED Reference!vars
<1>1. Reference!vars = <<plan, capture, refPc, refFi, refTi, refResult>>
  BY DEF Reference!vars, refPc, refFi, refTi, refResult
<1>2. (Reference!vars)' = <<plan', capture', refPc', refFi', refTi', refResult'>>
  BY DEF Reference!vars, refPc, refFi, refTi, refResult
<1> QED
  BY <1>1, <1>2

\* Whether a run is answered is settled before it starts.
LEMMA UnansweredKept ==
  ASSUME UNCHANGED <<plan, capture, packed_for>>,
         workspace'.packed_input_required = workspace.packed_input_required
  PROVE  InputError' = InputError /\ (Contract' <=> Contract)
<1>1. InputError' = InputError
  BY DEF InputError, LayoutMetadataInconsistent
<1>2. Contract' <=> Contract
  BY DEF Contract
<1> QED
  BY <1>1, <1>2

\* What a step of a run keeps.
LEMMA RunKeeps ==
  ASSUME IInv, StartKernel \/ Search
  PROVE  /\ UNCHANGED <<plan, capture>> /\ pc # "refused" /\ pc' # "refused"
         /\ InputError = NoError /\ InputError' = InputError /\ (Contract' <=> Contract)
<1>1. workspace'.packed_input_required = workspace.packed_input_required
  <2>1. workspace \in Workspace
    BY DEF IInv, Prepared
  <2> QED
    BY <2>1 DEF Search, StartKernel, KernelBatch, ScoreCandidate, Finish, Workspace
<1>2. /\ UNCHANGED <<plan, capture, packed_for>> /\ pc \in {"idle", "kernel", "score"}
      /\ pc' \in {"kernel", "score", "done"}
  BY DEF Search, StartKernel, KernelBatch, AnotherBatch, ScoreCandidate, Finish
<1>3. InputError = NoError
  BY DEF IInv, Admitted, Search, StartKernel, KernelBatch, ScoreCandidate, Finish
<1> QED
  BY <1>1, <1>2, <1>3, UnansweredKept

\* Both searches share the operators of AcquisitionPlan and AcquisitionCandidates.
LEMMA SameResults ==
  /\ Reference!NoError = NoError /\ Reference!EmptyPlan = EmptyPlan
  /\ Reference!NoResult = NoResult
  /\ \A config : Reference!PreparedPlan(config) = PreparedPlan(config)
<1>1. Reference!NoError = NoError
  BY DEF NoError, Reference!NoError
<1>2. Reference!EmptyPlan = EmptyPlan
  BY DEF EmptyPlan, Reference!EmptyPlan
<1>3. Reference!NoResult = NoResult
  BY <1>1 DEF NoResult, Reference!NoResult, NoCandidate, Reference!NoCandidate
<1>4. ASSUME NEW config PROVE Reference!PreparedPlan(config) = PreparedPlan(config)
  <2>1. Reference!PlanError(config) = PlanError(config)
    BY <1>1 DEF PlanError, Reference!PlanError, HasDuplicates, Reference!HasDuplicates
  <2>2. Reference!TimingOffsetsAreContiguous(config.timing_offsets)
          = TimingOffsetsAreContiguous(config.timing_offsets)
    BY DEF TimingOffsetsAreContiguous, Reference!TimingOffsetsAreContiguous,
           SizeAdd, Reference!SizeAdd
  <2> QED
    BY <1>1, <1>2, <2>1, <2>2 DEF PreparedPlan, Reference!PreparedPlan
<1> QED
  BY <1>1, <1>2, <1>3, <1>4

\* Both searches make the same checks,
LEMMA SameChecks ==
  ASSUME NEW p, NEW c
  PROVE  /\ Reference!FrequencyCount(p) = FrequencyCount(p)
         /\ Reference!TimingCount(p) = TimingCount(p)
         /\ Reference!RunError(p, c) = RunError(p, c)
<1>1. /\ Reference!FrequencyCount(p) = FrequencyCount(p)
      /\ Reference!TimingCount(p) = TimingCount(p)
  BY DEF FrequencyCount, Reference!FrequencyCount, TimingCount, Reference!TimingCount
<1>2. Reference!PlanIncomplete(p) = PlanIncomplete(p)
  BY DEF PlanIncomplete, Reference!PlanIncomplete
<1>3. Reference!WeightTableInvalid(p) = WeightTableInvalid(p)
  BY <1>1 DEF WeightTableInvalid, Reference!WeightTableInvalid
<1>4. Reference!TimingBeyondWindow(p, c) = TimingBeyondWindow(p, c)
  BY DEF TimingBeyondWindow, Reference!TimingBeyondWindow
<1> QED
  BY <1>1, <1>2, <1>3, <1>4 DEF RunError, Reference!RunError, NoError, Reference!NoError

\* form the same candidates,
LEMMA SameCandidates ==
  ASSUME NEW r, NEW p, NEW c, NEW f, NEW i, NEW start
  PROVE  Reference!CountCandidate(r, Reference!CandidateFrom(p, c, f, i, start))
           = CountCandidate(r, CandidateFrom(p, c, f, i, start))
<1>1. Reference!CandidateFrom(p, c, f, i, start) = CandidateFrom(p, c, f, i, start)
  BY DEF CandidateFrom, Reference!CandidateFrom
<1>2. \A new : Reference!ConsiderCandidate(r, new) = ConsiderCandidate(r, new)
  BY DEF ConsiderCandidate, Reference!ConsiderCandidate, Greater, Reference!Greater
<1> QED
  BY <1>1, <1>2 DEF CountCandidate, Reference!CountCandidate

\* and finish alike.
LEMMA SameFinish ==
  ASSUME NEW r
  PROVE  Reference!FinishedResult(r) = FinishedResult(r)
<1>1. Reference!PeakSeparation(r.best, r.second_best) = PeakSeparation(r.best, r.second_best)
  BY DEF PeakSeparation, Reference!PeakSeparation, Greater, Reference!Greater
<1> QED
  BY <1>1 DEF FinishedResult, Reference!FinishedResult

-----------------------------------------------------------------------------

\* The reference starts where SME2 does.
LEMMA InitSimulation == Init => Reference!Init
<1> SUFFICES ASSUME Init PROVE Reference!Init
  OBVIOUS
<1>1. /\ plan = EmptyPlan /\ capture \in Captures /\ pc = "idle" /\ result = NoResult
      /\ fi = 1 /\ ti = 1
  BY DEF Init
<1> QED
  BY <1>1, SameResults DEF Reference!Init

\* A change of plan or capture is the same change.
LEMMA ChangeSimulation ==
  /\ \A config \in Configs : PreparePlan(config) => Reference!PreparePlan(config)
  /\ \A c \in Captures : LoadCapture(c) => Reference!LoadCapture(c)
<1>1. ASSUME NEW config \in Configs, PreparePlan(config)
      PROVE  Reference!PreparePlan(config)
  <2>1. /\ pc \in {"idle", "done", "refused"} /\ UNCHANGED capture
        /\ plan' = PreparedPlan(config)
        /\ pc' = "idle" /\ result' = NoResult /\ fi' = 1 /\ ti' = 1
    BY <1>1 DEF PreparePlan, Between, Idle
  <2> QED
    BY <2>1, SameResults DEF Reference!PreparePlan
<1>2. ASSUME NEW c \in Captures, LoadCapture(c)
      PROVE  Reference!LoadCapture(c)
  <2>1. /\ pc \in {"idle", "done", "refused"} /\ UNCHANGED plan /\ capture' = c
        /\ pc' = "idle" /\ result' = NoResult /\ fi' = 1 /\ ti' = 1
    BY <1>2 DEF LoadCapture, Between, Idle
  <2> QED
    BY <2>1, SameResults DEF Reference!LoadCapture
<1> QED
  BY <1>1, <1>2

\* Of a change of the workspace the reference sees that the last result is dropped.
LEMMA WorkspaceSimulation ==
  DiscardWorkspace \/ PrepareWorkspace \/ PackCapture => Reference!LoadCapture(capture)
<1> SUFFICES ASSUME DiscardWorkspace \/ PrepareWorkspace \/ PackCapture
             PROVE  Reference!LoadCapture(capture)
  OBVIOUS
<1>1. /\ pc \in {"idle", "done", "refused"} /\ UNCHANGED <<plan, capture>>
      /\ pc' = "idle" /\ result' = NoResult /\ fi' = 1 /\ ti' = 1
  BY DEF DiscardWorkspace, PrepareWorkspace, PackCapture, Between, Idle
<1> QED
  BY <1>1, SameResults DEF Reference!LoadCapture

\* No refusal of a workspace shows in the reference,
LEMMA RejectWorkspaceStutters == IInv /\ RejectWorkspace => UNCHANGED Reference!vars
<1> SUFFICES ASSUME IInv, RejectWorkspace PROVE UNCHANGED Reference!vars
  OBVIOUS
<1>1. /\ UNCHANGED <<plan, capture>> /\ pc = "idle" /\ pc' = "refused"
      /\ fi = 1 /\ ti = 1 /\ result = NoResult
  BY DEF RejectWorkspace, IInv, Position
<1>2. Unanswered'
  BY <1>1 DEF Unanswered
<1>3. UNCHANGED <<refPc, refFi, refTi, refResult>>
  BY <1>1, <1>2 DEF refPc, refFi, refTi, refResult
<1> QED
  BY <1>1, <1>3, ReferenceStutters

\* and no run of a copy that the contract forbids.
LEMMA StaleRunStutters ==
  IInv /\ (StartKernel \/ Search) /\ ~Contract => UNCHANGED Reference!vars
<1> SUFFICES ASSUME IInv, StartKernel \/ Search, ~Contract PROVE UNCHANGED Reference!vars
  OBVIOUS
<1>1. Unanswered /\ Unanswered' /\ UNCHANGED <<plan, capture>>
  BY RunKeeps DEF Unanswered
<1>2. UNCHANGED <<refPc, refFi, refTi, refResult>>
  BY <1>1 DEF refPc, refFi, refTi, refResult
<1> QED
  BY <1>1, <1>2, ReferenceStutters

\* A refused input is refused with the reference's error.
LEMMA RejectInputSimulation == IInv /\ RejectInput => Reference!RejectRun
<1> SUFFICES ASSUME IInv, RejectInput PROVE Reference!RejectRun
  OBVIOUS
<1>1. /\ pc = "idle" /\ pc' = "done" /\ InputError # NoError
      /\ result' = [NoResult EXCEPT !.error = InputError]
      /\ UNCHANGED <<plan, capture, workspace, fi, ti, packed_for>>
  BY DEF RejectInput, loopVars
<1>2. InputError' = InputError
  BY <1>1, UnansweredKept
<1>3. ~Unanswered /\ ~Unanswered'
  BY <1>1, <1>2 DEF Unanswered, NoError
<1>4. InputError = RunError(plan, capture)
  BY SameRefusals DEF IInv
<1>5. Reference!RunError(plan, capture) = RunError(plan, capture)
  BY SameChecks
<1> QED
  BY <1>1, <1>3, <1>4, <1>5, SameResults DEF Reference!RejectRun

\* A run of a caller that keeps the contract is answered.
LEMMA ContractAnswered ==
  IInv /\ (StartKernel \/ Search) /\ Contract => ~Unanswered /\ ~Unanswered'
BY RunKeeps DEF Unanswered

\* The start of the kernel is the start of the reference.
LEMMA StartKernelSimulation == IInv /\ StartKernel /\ Contract => Reference!StartSearch
<1> SUFFICES ASSUME IInv, StartKernel, Contract PROVE Reference!StartSearch
  OBVIOUS
<1>1. /\ pc = "idle" /\ pc' = "kernel" /\ InputError = NoError
      /\ UNCHANGED <<plan, capture, fi, ti, result>>
      /\ fi = 1
  BY DEF StartKernel, loopVars, IInv, Position
<1>2. RunError(plan, capture) = NoError
  BY <1>1, SameRefusals DEF IInv
<1>3. Reference!RunError(plan, capture) = RunError(plan, capture)
  BY SameChecks
<1>4. ~Unanswered /\ ~Unanswered'
  BY ContractAnswered
<1> QED
  BY <1>1, <1>2, <1>3, <1>4, SameResults DEF Reference!StartSearch

\* The batches come before the reference's first hypothesis.
LEMMA KernelBatchStutters == IInv /\ KernelBatch /\ Contract => UNCHANGED Reference!vars
<1> SUFFICES ASSUME IInv, KernelBatch, Contract PROVE UNCHANGED Reference!vars
  OBVIOUS
<1>1. /\ pc = "kernel" /\ UNCHANGED <<plan, capture, ti, result>>
      /\ pc' = "kernel" \/ (pc' = "score" /\ fi' = 1)
  BY DEF KernelBatch, AnotherBatch
<1>2. ~Unanswered /\ ~Unanswered'
  BY ContractAnswered DEF Search
<1>3. UNCHANGED <<refPc, refFi, refTi, refResult>>
  BY <1>1, <1>2 DEF refPc, refFi, refTi, refResult
<1> QED
  BY <1>1, <1>3, ReferenceStutters

(***************************************************************************)
(* Scoring an entry of the table is one pass of the reference's loop body: *)
(* the entry is the correlation that the reference computes there.         *)
(***************************************************************************)
LEMMA ScoreCandidateSimulation == IInv /\ ScoreCandidate /\ Contract => Reference!Evaluate
<1> SUFFICES ASSUME IInv, ScoreCandidate, Contract PROVE Reference!Evaluate
  OBVIOUS
<1> DEFINE entry == workspace.correlations[(fi - 1) * workspace.timing_count + ti]
<1>1. /\ pc = "score" /\ UNCHANGED <<plan, capture, workspace, pc>>
      /\ fi <= workspace.frequency_count
      /\ result' = CountCandidate(result,
           [frequency_offset_hz |-> plan.frequency_hypotheses[fi],
            timing_offset       |-> plan.timing_offsets[ti],
            score               |-> entry,
            valid               |-> TRUE])
      /\ IF ti < workspace.timing_count THEN fi' = fi /\ ti' = ti + 1
                                        ELSE fi' = fi + 1 /\ ti' = 1
  BY DEF ScoreCandidate
<1>2. /\ Prepared /\ Admitted /\ RunError(plan, capture) = NoError
      /\ workspace.timing_count = TimingCount(plan)
      /\ workspace.frequency_count = FrequencyCount(plan)
      /\ fi \in 1 .. FrequencyCount(plan) + 1 /\ ti \in 1 .. TimingCount(plan)
  BY <1>1 DEF IInv, Position, Admitted
<1>3. FrequencyCount(plan) \in Nat \ {0} /\ TimingCount(plan) \in Nat \ {0}
  BY <1>2, RunningPlan
<1>4. fi \in 1 .. FrequencyCount(plan)
  BY <1>1, <1>2, <1>3
<1>5. <<fi, ti>> \in Hypotheses(plan) /\ <<fi, ti>>[1] = fi /\ <<fi, ti>>[2] = ti
  BY <1>2, <1>4 DEF Hypotheses
<1>6. entry = HypothesisScore(plan, capture, <<fi, ti>>)
  BY <1>1, <1>2, <1>5 DEF IInv, CorrelationsBelongToHypotheses
<1> HIDE DEF entry
<1>7. HypothesisScore(plan, capture, <<fi, ti>>)
        = CandidateFrom(plan, capture, fi, ti, plan.timing_offsets[ti]).score
  BY DEF HypothesisScore, CandidateOf
<1>8. CandidateFrom(plan, capture, fi, ti, plan.timing_offsets[ti])
        = [frequency_offset_hz |-> plan.frequency_hypotheses[fi],
           timing_offset       |-> plan.timing_offsets[ti],
           score               |-> entry,
           valid               |-> TRUE]
  BY <1>6, <1>7 DEF CandidateFrom
<1>9. result' = Reference!CountCandidate(result,
                 Reference!CandidateFrom(plan, capture, fi, ti, plan.timing_offsets[ti]))
  BY <1>1, <1>8, SameCandidates
<1>10. /\ Reference!FrequencyCount(plan) = FrequencyCount(plan)
       /\ Reference!TimingCount(plan) = TimingCount(plan)
  BY SameChecks
<1>11. IF ti < TimingCount(plan) THEN fi' = fi /\ ti' = ti + 1 ELSE fi' = fi + 1 /\ ti' = 1
  BY <1>1, <1>2
<1>12. pc = "score" /\ pc' = "score" /\ fi <= FrequencyCount(plan)
  BY <1>1, <1>2
<1>13. ~Unanswered /\ ~Unanswered'
  BY ContractAnswered DEF Search
<1> QED
  BY <1>1, <1>9, <1>10, <1>11, <1>12, <1>13 DEF Reference!Evaluate

\* The end of the scoring is the end of the reference.
LEMMA FinishSimulation == IInv /\ Finish /\ Contract => Reference!Finish
<1> SUFFICES ASSUME IInv, Finish, Contract PROVE Reference!Finish
  OBVIOUS
<1>1. /\ pc = "score" /\ pc' = "done" /\ fi = workspace.frequency_count + 1
      /\ result' = FinishedResult(result)
      /\ UNCHANGED <<plan, capture, fi, ti>>
  BY DEF Finish, loopVars
<1>2. fi = FrequencyCount(plan) + 1
  BY <1>1 DEF IInv, Admitted
<1>3. Reference!FrequencyCount(plan) = FrequencyCount(plan)
  BY SameChecks
<1>4. Reference!FinishedResult(result) = FinishedResult(result)
  BY SameFinish
<1>5. ~Unanswered /\ ~Unanswered'
  BY ContractAnswered DEF Search
<1> QED
  BY <1>1, <1>2, <1>3, <1>4, <1>5 DEF Reference!Finish

\* Each step is a step of the reference, or none that shows there.
LEMMA StepSimulation == IInv /\ [Next]_vars => [Reference!Next]_(Reference!vars)
<1> SUFFICES ASSUME IInv, [Next]_vars PROVE [Reference!Next]_(Reference!vars)
  OBVIOUS
<1>1. CASE \E config \in Configs : PreparePlan(config)
  BY <1>1, ChangeSimulation DEF Reference!Next
<1>2. CASE \E c \in Captures : LoadCapture(c)
  BY <1>2, ChangeSimulation DEF Reference!Next
<1>3. CASE DiscardWorkspace \/ PrepareWorkspace \/ PackCapture
  <2>1. capture \in Captures
    BY DEF IInv, Prepared
  <2> QED
    BY <1>3, <2>1, WorkspaceSimulation DEF Reference!Next
<1>4. CASE RejectInput
  BY <1>4, RejectInputSimulation DEF Reference!Next
<1>5. CASE RejectWorkspace
  BY <1>5, RejectWorkspaceStutters
<1>6. CASE (StartKernel \/ Search) /\ ~Contract
  BY <1>6, StaleRunStutters
<1>7. CASE StartKernel /\ Contract
  BY <1>7, StartKernelSimulation DEF Reference!Next
<1>8. CASE Search /\ Contract
  <2>1. CASE KernelBatch
    BY <1>8, <2>1, KernelBatchStutters
  <2>2. CASE ScoreCandidate
    BY <1>8, <2>2, ScoreCandidateSimulation DEF Reference!Next
  <2>3. CASE Finish
    BY <1>8, <2>3, FinishSimulation DEF Reference!Next
  <2> QED
    BY <1>8, <2>1, <2>2, <2>3 DEF Search
<1>9. CASE UNCHANGED vars
  <2>1. UNCHANGED <<plan, capture, ti, fi, pc, result, workspace, packed_for>>
    BY <1>9 DEF vars
  <2>2. Unanswered' <=> Unanswered
    BY <2>1, UnansweredKept DEF Unanswered
  <2>3. UNCHANGED <<refPc, refFi, refTi, refResult>>
    BY <2>1, <2>2 DEF refPc, refFi, refTi, refResult
  <2> QED
    BY <2>1, <2>3, ReferenceStutters
<1> QED
  BY <1>1, <1>2, <1>3, <1>4, <1>5, <1>6, <1>7, <1>8, <1>9 DEF Next, Caller

(***************************************************************************)
(* The safety part of ImplementsReference: over any history of plans,      *)
(* captures and workspaces, the SME2 search of a caller that keeps the     *)
(* contract considers the reference's candidates in its order and refuses  *)
(* its inputs.                                                             *)
(***************************************************************************)
THEOREM StepsImplementReference ==
  Spec => Reference!Init /\ [][Reference!Next]_(Reference!vars)
<1> QED
  BY Invariance, InitSimulation, StepSimulation, PTL DEF Spec

-----------------------------------------------------------------------------

\* What is proved of the reference search, under the refinement mapping.
Proved == INSTANCE AcquisitionSearchProofs WITH
  pc <- IF Unanswered THEN "idle" ELSE IF pc \in {"kernel", "score"} THEN "search" ELSE pc,
  fi <- IF Unanswered \/ pc = "kernel" THEN 1 ELSE fi,
  ti <- IF Unanswered THEN 1 ELSE ti,
  result <- IF Unanswered THEN NoResult ELSE result

\* The instance of the reference has the same configurations and captures.
LEMMA SameConstants == Proved!Config = Config /\ Proved!ReceivedIq = ReceivedIq
BY DEF Proved!Config, Config, Proved!Size, Size, Proved!ReceivedIq, ReceivedIq,
       Proved!Score, Score

\* The reference of the refinement and the one proved about are the same.
LEMMA SameSpecification ==
  /\ Reference!Init <=> Proved!Init
  /\ [Reference!Next]_(Reference!vars) <=> [Proved!Next]_(Proved!vars)
<1>1. Reference!NoError = Proved!NoError
  BY DEF Reference!NoError, Proved!NoError
<1>2. Reference!EmptyPlan = Proved!EmptyPlan /\ Reference!NoResult = Proved!NoResult
  BY <1>1 DEF Reference!EmptyPlan, Proved!EmptyPlan, Reference!NoResult, Proved!NoResult,
         Reference!NoCandidate, Proved!NoCandidate
<1>3. Reference!Init <=> Proved!Init
  BY <1>2 DEF Reference!Init, Proved!Init
<1>4. ASSUME NEW config PROVE Reference!PreparedPlan(config) = Proved!PreparedPlan(config)
  BY Zenon DEF Reference!PreparedPlan, Proved!PreparedPlan, Reference!PlanError,
         Proved!PlanError, Reference!HasDuplicates, Proved!HasDuplicates,
         Reference!TimingOffsetsAreContiguous, Proved!TimingOffsetsAreContiguous,
         Reference!SizeAdd, Proved!SizeAdd, Reference!NoError, Proved!NoError,
         Reference!EmptyPlan, Proved!EmptyPlan
<1>5. \A config : Reference!PreparePlan(config) <=> Proved!PreparePlan(config)
  BY <1>2, <1>4, Zenon DEF Reference!PreparePlan, Proved!PreparePlan
<1>6. \A c : Reference!LoadCapture(c) <=> Proved!LoadCapture(c)
  BY <1>2, Zenon DEF Reference!LoadCapture, Proved!LoadCapture
<1>7. Reference!RunError(plan, capture) = Proved!RunError(plan, capture)
  BY Zenon DEF Reference!RunError, Proved!RunError, Reference!PlanIncomplete,
         Proved!PlanIncomplete, Reference!WeightTableInvalid, Proved!WeightTableInvalid,
         Reference!TimingBeyondWindow, Proved!TimingBeyondWindow,
         Reference!FrequencyCount, Proved!FrequencyCount, Reference!NoError,
         Proved!NoError
<1>8. Reference!RejectRun <=> Proved!RejectRun
  BY <1>1, <1>2, <1>7, Zenon DEF Reference!RejectRun, Proved!RejectRun
<1>9. Reference!StartSearch <=> Proved!StartSearch
  BY <1>1, <1>7, Zenon DEF Reference!StartSearch, Proved!StartSearch
<1>10. Reference!Evaluate <=> Proved!Evaluate
  BY Zenon DEF Reference!Evaluate, Proved!Evaluate, Reference!CountCandidate,
         Proved!CountCandidate, Reference!ConsiderCandidate, Proved!ConsiderCandidate,
         Reference!CandidateFrom, Proved!CandidateFrom, Reference!Greater,
         Proved!Greater, Reference!FrequencyCount, Proved!FrequencyCount,
         Reference!TimingCount, Proved!TimingCount
<1>11. Reference!Finish <=> Proved!Finish
  BY Zenon DEF Reference!Finish, Proved!Finish, Reference!FinishedResult,
         Proved!FinishedResult, Reference!PeakSeparation, Proved!PeakSeparation,
         Reference!Greater, Proved!Greater, Reference!FrequencyCount,
         Proved!FrequencyCount
<1>12. Reference!Next <=> Proved!Next
  BY <1>5, <1>6, <1>8, <1>9, <1>10, <1>11, Zenon DEF Reference!Next, Proved!Next
<1>13. Reference!vars = Proved!vars
  BY DEF Reference!vars, Proved!vars
<1>14. (Reference!vars)' = (Proved!vars)'
  BY DEF Reference!vars, Proved!vars
<1> QED
  BY <1>3, <1>12, <1>13, <1>14, Zenon

(***************************************************************************)
(* The reference's inductive invariant, mapped, is one of the SME2 search. *)
(***************************************************************************)
LEMMA ReferenceInv ==
  /\ Reference!Init => Proved!Inv
  /\ Proved!Inv /\ [Reference!Next]_(Reference!vars) => Proved!Inv'
<1> USE SameConstants, SizeAssumption, FrequencyAssumption, NaNAssumption,
        InfinityAssumption, ConfigsAssumption, CapturesAssumption
<1>1. Proved!Init => Proved!Inv
  BY Proved!InitInv
<1>2. Proved!Inv /\ (\/ \E config \in Configs : Proved!PreparePlan(config)
                    \/ \E c \in Captures : Proved!LoadCapture(c)) => Proved!Inv'
  BY Proved!CallerInv
<1>3. Proved!Inv /\ Proved!RejectRun => Proved!Inv'
  BY Proved!RejectRunInv
<1>4. Proved!Inv /\ Proved!StartSearch => Proved!Inv'
  BY Proved!StartSearchInv
<1>5. Proved!Inv /\ Proved!Evaluate => Proved!Inv'
  BY Proved!EvaluateInv
<1>6. Proved!Inv /\ Proved!Finish => Proved!Inv'
  BY Proved!FinishInv
<1>7. Proved!Inv /\ UNCHANGED Proved!vars => Proved!Inv'
  BY Proved!StutterInv
<1>8. Proved!Next => \/ \E config \in Configs : Proved!PreparePlan(config)
                     \/ \E c \in Captures : Proved!LoadCapture(c)
                     \/ Proved!RejectRun \/ Proved!StartSearch
                     \/ Proved!Evaluate \/ Proved!Finish
  BY DEF Proved!Next
<1> QED
  BY <1>1, <1>2, <1>3, <1>4, <1>5, <1>6, <1>7, <1>8, SameSpecification

(***************************************************************************)
(* A successful SME2 search of a caller that keeps the contract returns    *)
(* the two best of all hypotheses, ties broken towards the earlier one,    *)
(* whatever batches and workspaces: the reference's theorem, carried over  *)
(* by the refinement.                                                      *)
(***************************************************************************)
Sme2FindsTopTwo ==
  pc = "done" /\ result.ok /\ Contract => IsTopTwo(plan, capture, result, Hypotheses(plan))

\* Successful SME2 searches of any grid, with vectors of any width, return the two best.
THEOREM TopTwoCorrect == Spec => []Sme2FindsTopTwo
<1>1. Proved!Inv => Sme2FindsTopTwo
  <2>1. Proved!Hypotheses(plan) = Hypotheses(plan)
    BY DEF Proved!Hypotheses, Hypotheses, Proved!FrequencyCount, FrequencyCount,
           Proved!TimingCount, TimingCount
  <2>2. Proved!IsTopTwo(plan, capture, result, Hypotheses(plan))
          => IsTopTwo(plan, capture, result, Hypotheses(plan))
    BY Zenon DEF Proved!IsTopTwo, IsTopTwo, Proved!IsPeakOf, IsPeakOf, Proved!IsPeak, IsPeak,
       Proved!Earlier, Earlier, Proved!HypothesisScore, HypothesisScore, Proved!Greater, Greater,
       Proved!CandidateOf, CandidateOf, Proved!CandidateFrom, CandidateFrom
  <2> QED
    BY <2>1, <2>2 DEF Proved!Inv, Proved!TopTwoOfEvaluated, Sme2FindsTopTwo, Unanswered
<1> QED
  BY <1>1, StepsImplementReference, ReferenceInv, PTL

=============================================================================
