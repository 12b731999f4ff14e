----------------------------- MODULE Sme2Search -----------------------------
(***************************************************************************)
(* The SME2 search and its reusable workspace (acquisition_sme2.cpp,       *)
(* acquisition_sme2_kernel.cpp) on a host that executes SME2.              *)
(*                                                                         *)
(* A caller keeps one workspace over several plans and captures.  For a    *)
(* contiguous plan the kernel reads the capture itself; for any other plan *)
(* it reads a sample-major copy that only a preparation or a pack call     *)
(* refreshes.  A run checks dimensions and layout, not the copied samples: *)
(* a caller that changes the capture or the plan and does not pack again   *)
(* is admitted, and searches what was packed before.  The header makes     *)
(* packing the caller's duty.                                              *)
(*                                                                         *)
(* The one-shot call run_sme2_acquisition is a new workspace, a            *)
(* preparation and a run.  A copied sample is the pair of its capture and  *)
(* its position there.                                                     *)
(***************************************************************************)
EXTENDS AcquisitionCandidates

CONSTANT Lanes   \* svcntw(): float32 lanes of a streaming vector

ASSUME LanesAssumption == Lanes \in Nat \ {0}

VARIABLES
  plan,         \* the caller's AcquisitionPlan
  capture,      \* the received samples, one of Captures
  workspace,    \* the caller's Sme2AcquisitionWorkspace
  pc,           \* "idle", "kernel", "score", "done", or "refused" (workspace)
  fi,           \* frequency index of the kernel or of the scoring loop, from 1
  timing_base,  \* first timing of the kernel's batch, from 0
  ti,           \* timing index of the scoring loop, from 1
  result,       \* the AcquisitionResult
  packed_for    \* history: plan and capture of the last call that packed, or none

vars == <<plan, capture, workspace, pc, fi, timing_base, ti, result, packed_for>>

loopVars == <<fi, timing_base, ti>>

-----------------------------------------------------------------------------

\* A default-constructed workspace.
EmptyWorkspace == [timing_count            |-> 0,
                   frequency_count         |-> 0,
                   preamble_length         |-> 0,
                   contiguous_timing_start |-> 0,
                   packed_input_required   |-> FALSE,
                   received                |-> << >>,
                   correlations            |-> << >>]

CheckedProductOverflows(left, right) == left * right > SizeMax

LayoutMetadataInconsistent ==
  LET contiguous == TimingOffsetsAreContiguous(plan.timing_offsets)
  IN  \/ plan.timing_offsets_contiguous # contiguous
      \/ contiguous /\ plan.contiguous_timing_start # plan.timing_offsets[1]

\* Variant: the windows are not compared with the length of the capture.
InputErrorWithoutWindows ==
  IF PlanIncomplete(plan) \/ LayoutMetadataInconsistent \/ WeightTableInvalid(plan)
     \/ Recording[capture].length < plan.preamble_length
     \/ ~Recording[capture].finite
    THEN "refused" ELSE NoError

\* validate_plan_and_input: the error, or NoError.
InputError ==
  IF PlanIncomplete(plan) THEN "plan is incomplete"
  ELSE IF LayoutMetadataInconsistent THEN "inconsistent timing layout"
  ELSE IF WeightTableInvalid(plan) THEN "invalid weight table"
  ELSE IF Recording[capture].length < plan.preamble_length THEN "received IQ too short"
  ELSE IF ~Recording[capture].finite THEN "received IQ not finite"
  ELSE IF TimingBeyondWindow(plan, capture) THEN "timing beyond the window"
  ELSE NoError

WorkspaceTooLarge ==
  \/ CheckedProductOverflows(plan.preamble_length, TimingCount(plan))
  \/ CheckedProductOverflows(FrequencyCount(plan), TimingCount(plan))

\* std::vector::resize: keeps the old elements, new ones are zero.
Resized(vector, n) ==
  [i \in 1 .. n |-> IF i <= Len(vector) THEN vector[i] ELSE 0]

\* The samples of the windows of plan p's n timings in capture c, sample by sample.
PackedFrom(p, c, n) ==
  [k \in 1 .. p.preamble_length * n |->
     <<c, p.timing_offsets[((k - 1) % n) + 1] + ((k - 1) \div n)>>]

Packed(n) == PackedFrom(plan, capture, n)

PreparedWorkspace ==
  LET packing == ~plan.timing_offsets_contiguous
  IN  [timing_count            |-> TimingCount(plan),
       frequency_count         |-> FrequencyCount(plan),
       preamble_length         |-> plan.preamble_length,
       contiguous_timing_start |-> plan.contiguous_timing_start,
       packed_input_required   |-> packing,
       received                |-> IF packing THEN Packed(TimingCount(plan)) ELSE << >>,
       correlations            |-> Resized(workspace.correlations,
                                     FrequencyCount(plan) * TimingCount(plan))]

\* What run_sme2_acquisition_prepared refuses.
DimensionsInconsistent ==
  \/ CheckedProductOverflows(workspace.preamble_length, workspace.timing_count)
  \/ CheckedProductOverflows(workspace.frequency_count, workspace.timing_count)
  \/ workspace.timing_count # TimingCount(plan)
  \/ workspace.frequency_count # FrequencyCount(plan)
  \/ workspace.preamble_length # plan.preamble_length
  \/ Len(workspace.received) #
       IF workspace.packed_input_required
         THEN workspace.preamble_length * workspace.timing_count ELSE 0
  \/ Len(workspace.correlations) # workspace.frequency_count * workspace.timing_count

\* Variant: the first timing of a contiguous workspace is not compared.
LayoutInconsistentByKind ==
  workspace.packed_input_required = plan.timing_offsets_contiguous

LayoutInconsistent ==
  \/ workspace.packed_input_required = plan.timing_offsets_contiguous
  \/ /\ ~workspace.packed_input_required
     /\ workspace.contiguous_timing_start # plan.contiguous_timing_start

-----------------------------------------------------------------------------

Init ==
  /\ plan = EmptyPlan
  /\ capture \in Captures
  /\ workspace = EmptyWorkspace
  /\ pc = "idle"
  /\ fi = 1 /\ timing_base = 0 /\ ti = 1
  /\ result = NoResult
  /\ packed_for = << >>

Between == pc \in {"idle", "done", "refused"}

\* The caller drops the last result and is between two calls.
Idle ==
  /\ pc' = "idle"
  /\ fi' = 1 /\ timing_base' = 0 /\ ti' = 1
  /\ result' = NoResult

PreparePlan(config) ==
  /\ Between
  /\ plan' = PreparedPlan(config)
  /\ Idle
  /\ UNCHANGED <<capture, workspace, packed_for>>

LoadCapture(c) ==
  /\ Between
  /\ capture' = c
  /\ Idle
  /\ UNCHANGED <<plan, workspace, packed_for>>

DiscardWorkspace ==
  /\ Between
  /\ workspace' = EmptyWorkspace
  /\ packed_for' = << >>
  /\ Idle
  /\ UNCHANGED <<plan, capture>>

\* A failed preparation returns before it touches the workspace.
PrepareWorkspace ==
  /\ Between
  /\ InputError = NoError
  /\ ~WorkspaceTooLarge
  /\ workspace' = PreparedWorkspace
  /\ packed_for' = IF workspace'.packed_input_required THEN <<plan, capture>> ELSE << >>
  /\ Idle
  /\ UNCHANGED <<plan, capture>>

\* The caller repacks for a validated plan and capture, in a workspace of their size.
PackCapture ==
  /\ Between
  /\ InputError = NoError
  /\ ~DimensionsInconsistent /\ ~LayoutInconsistent
  /\ workspace' = [workspace EXCEPT !.received =
                     IF workspace.packed_input_required
                       THEN Packed(workspace.timing_count) ELSE @]
  /\ packed_for' = IF workspace.packed_input_required THEN <<plan, capture>> ELSE packed_for
  /\ Idle
  /\ UNCHANGED <<plan, capture>>

-----------------------------------------------------------------------------

RejectInput ==
  /\ pc = "idle"
  /\ InputError # NoError
  /\ result' = [NoResult EXCEPT !.error = InputError]
  /\ pc' = "done"
  /\ UNCHANGED <<plan, capture, workspace, loopVars, packed_for>>

RejectWorkspace ==
  /\ pc = "idle"
  /\ InputError = NoError
  /\ DimensionsInconsistent \/ LayoutInconsistent
  /\ result' = [NoResult EXCEPT !.error = "inconsistent workspace"]
  /\ pc' = "refused"
  /\ UNCHANGED <<plan, capture, workspace, loopVars, packed_for>>

StartKernel ==
  /\ pc = "idle"
  /\ InputError = NoError
  /\ ~DimensionsInconsistent /\ ~LayoutInconsistent
  /\ pc' = "kernel"
  /\ UNCHANGED <<plan, capture, workspace, loopVars, result, packed_for>>

-----------------------------------------------------------------------------

BatchWidth == 4 * Lanes

(***************************************************************************)
(* The score of timing t (from 0) from the samples its lane accumulates:   *)
(* samples of the capture itself, or one column of the packed copy, which  *)
(* is a window only when it holds consecutive samples of one capture.      *)
(***************************************************************************)
LaneScore(t) ==
  LET frequency == plan.frequency_hypotheses[fi]
      column == [s \in 0 .. workspace.preamble_length - 1 |->
                   workspace.received[s * workspace.timing_count + t + 1]]
      source == column[0][1]
      start == column[0][2]
  IN  IF ~workspace.packed_input_required
        THEN Recording[capture].score[<<frequency, workspace.contiguous_timing_start + t>>]
      ELSE IF \A s \in DOMAIN column : column[s] = <<source, start + s>>
        THEN Recording[source].score[<<frequency, start>>]
      ELSE NaN

\* Variant: the predicate of the last group is that of the third one.
ActiveTimingsOfThreeGroups ==
  {timing_base + g * Lanes + j : g \in 0 .. 2, j \in 0 .. Lanes - 1}
    \cap (0 .. workspace.timing_count - 1)

\* The timings whose predicate is set: lane j of group g while its index is below
\* the timing count.
ActiveTimings ==
  {timing_base + g * Lanes + j : g \in 0 .. 3, j \in 0 .. Lanes - 1}
    \cap (0 .. workspace.timing_count - 1)

\* Variant: the bound of the loop over the batches is one too far.
AnotherBatchAtEnd == timing_base + BatchWidth <= workspace.timing_count

\* The loop over the batches of a row goes on.
AnotherBatch == timing_base + BatchWidth < workspace.timing_count

\* One batch of four vectors: accumulate all samples, store the active lanes.
KernelBatch ==
  /\ pc = "kernel"
  /\ workspace' =
       LET row == (fi - 1) * workspace.timing_count
       IN  [workspace EXCEPT !.correlations =
              [i \in DOMAIN @ |-> IF i - row - 1 \in ActiveTimings
                                    THEN LaneScore(i - row - 1) ELSE @[i]]]
  /\ IF AnotherBatch
       THEN /\ timing_base' = timing_base + BatchWidth
            /\ UNCHANGED <<pc, fi>>
       ELSE /\ timing_base' = 0
            /\ IF fi < workspace.frequency_count
                 THEN fi' = fi + 1 /\ UNCHANGED pc
                 ELSE fi' = 1 /\ pc' = "score"
  /\ UNCHANGED <<plan, capture, ti, result, packed_for>>

ScoreCandidate ==
  /\ pc = "score"
  /\ fi <= workspace.frequency_count
  /\ result' = CountCandidate(result,
       [frequency_offset_hz |-> plan.frequency_hypotheses[fi],
        timing_offset       |-> plan.timing_offsets[ti],
        score               |->
          workspace.correlations[(fi - 1) * workspace.timing_count + ti],
        valid               |-> TRUE])
  /\ IF ti < workspace.timing_count
       THEN fi' = fi /\ ti' = ti + 1
       ELSE fi' = fi + 1 /\ ti' = 1
  /\ UNCHANGED <<plan, capture, workspace, pc, timing_base, packed_for>>

Finish ==
  /\ pc = "score"
  /\ fi = workspace.frequency_count + 1
  /\ result' = FinishedResult(result)
  /\ pc' = "done"
  /\ UNCHANGED <<plan, capture, workspace, loopVars, packed_for>>

-----------------------------------------------------------------------------

Caller ==
  \/ \E config \in Configs : PreparePlan(config)
  \/ \E c \in Captures : LoadCapture(c)
  \/ DiscardWorkspace
  \/ PrepareWorkspace
  \/ PackCapture

Search == KernelBatch \/ ScoreCandidate \/ Finish

Next ==
  \/ Caller
  \/ RejectInput \/ RejectWorkspace
  \/ StartKernel
  \/ Search

Spec == Init /\ [][Next]_vars /\ WF_vars(Search)

-----------------------------------------------------------------------------

(***************************************************************************)
(* The contract of acquisition_sme2.h: before it runs a workspace that     *)
(* packs, the caller prepared or packed it for the capture searched.  The  *)
(* header names the capture only; a copy for another plan of the same size *)
(* would be admitted as well, so the contract is read for both.  Nothing   *)
(* in the code enforces it: it is a premise of the properties below, never *)
(* a guard.                                                                *)
(***************************************************************************)
Contract == workspace.packed_input_required => packed_for = <<plan, capture>>

(***************************************************************************)
(* When the kernel has run for a caller that keeps the contract, every     *)
(* entry of the correlation table is that of its own frequency and timing  *)
(* in the capture under search: the vector tails neither skip a timing nor *)
(* spill into the next frequency's row, and nothing is left over from an   *)
(* earlier plan, capture or stale run.                                     *)
(***************************************************************************)
CorrelationsBelongToHypotheses ==
  pc = "score" /\ Contract =>
    \A h \in Hypotheses(plan) :
      workspace.correlations[(h[1] - 1) * TimingCount(plan) + h[2]] =
        HypothesisScore(plan, capture, h)

\* What a kernel reads, the copied samples apart: its first timing only when it reads
\* the capture itself.
KernelShape(w) ==
  <<w.timing_count, w.frequency_count, w.preamble_length, w.packed_input_required,
    Len(w.received), IF w.packed_input_required THEN 0 ELSE w.contiguous_timing_start>>

(***************************************************************************)
(* However the caller interleaves plans, captures, failed preparations,    *)
(* packs and fresh workspaces, a run that the checks admit works on the    *)
(* workspace that a preparation for this plan and capture would leave:     *)
(* in all but the copied samples whatever the caller did, and in those too *)
(* when its last packing call was for this plan and capture.               *)
(***************************************************************************)
AdmittedWorkspaceIsFresh ==
  pc = "kernel" =>
    /\ InputError = NoError /\ ~WorkspaceTooLarge
    /\ KernelShape(workspace) = KernelShape(PreparedWorkspace)
    /\ Contract => workspace.received = PreparedWorkspace.received

\* Loops to finish, rows of this one to begin, and timings left of the row.
LeftToSearch ==
  <<IF pc = "kernel" THEN 1 ELSE 0,
    workspace.frequency_count + 1 - fi,
    IF pc = "kernel" THEN workspace.timing_count - timing_base
                     ELSE workspace.timing_count + 1 - ti>>

(***************************************************************************)
(* Every batch has a timing of its row to correlate and every step of the  *)
(* kernel and of the scoring leaves less to search, for rows that are and  *)
(* that are not a multiple of a batch: the kernel neither runs an empty    *)
(* batch nor goes round, and the two loops see the same workspace.         *)
(***************************************************************************)
KernelAdvances ==
  [][(pc \in {"kernel", "score"}) =>
       /\ LeftToSearch \in {0, 1} \X Nat \X (Nat \ {0})
       /\ \/ pc' \in {"kernel", "score"} /\ Lowers(LeftToSearch', LeftToSearch)
          \/ pc' = "done" /\ LeftToSearch[1] = 0 /\ LeftToSearch[2] = 0]_vars

(***************************************************************************)
(* For a caller that keeps the contract the SME2 search considers the      *)
(* candidates of the reference search, with the same scores, in the same   *)
(* order, and refuses the same inputs.  The kernel's batches come before   *)
(* the first candidate.  A run that is refused for its workspace, and one  *)
(* of a copy that the contract forbids, leave the reference idle.          *)
(***************************************************************************)
Unanswered == pc = "refused" \/ (InputError = NoError /\ ~Contract)

Reference == INSTANCE AcquisitionSearch WITH
  pc <- IF Unanswered THEN "idle" ELSE IF pc \in {"kernel", "score"} THEN "search" ELSE pc,
  fi <- IF Unanswered \/ pc = "kernel" THEN 1 ELSE fi,
  ti <- IF Unanswered THEN 1 ELSE ti,
  result <- IF Unanswered THEN NoResult ELSE result

ImplementsReference == Reference!Spec

=============================================================================
