-------------------------- MODULE AcquisitionSearch --------------------------
(***************************************************************************)
(* The float64 reference search (acquisition_reference.cpp) as a caller    *)
(* uses it: prepare a plan, load a capture, run.  The run scores every     *)
(* (frequency, timing) hypothesis, frequency by frequency, and keeps the   *)
(* two best candidates.  It is also the abstract specification that the    *)
(* NEON and SME2 searches implement.                                       *)
(***************************************************************************)
EXTENDS AcquisitionCandidates

VARIABLES
  plan,      \* the caller's AcquisitionPlan
  capture,   \* the received samples, one of Captures
  pc,        \* "idle", "search" (inside the two loops) or "done"
  fi,        \* index of the frequency hypothesis to evaluate next, from 1
  ti,        \* index of the timing hypothesis to evaluate next, from 1
  result     \* the AcquisitionResult

vars == <<plan, capture, pc, fi, ti, result>>

-----------------------------------------------------------------------------

Init ==
  /\ plan = EmptyPlan
  /\ capture \in Captures
  /\ pc = "idle"
  /\ fi = 1 /\ ti = 1
  /\ result = NoResult

\* The caller prepares a plan; a failure resets the plan it passed in.
PreparePlan(config) ==
  /\ pc # "search"
  /\ UNCHANGED capture
  /\ plan' = PreparedPlan(config)
  /\ pc' = "idle"
  /\ fi' = 1 /\ ti' = 1
  /\ result' = NoResult

\* The caller receives another capture and keeps the plan.
LoadCapture(c) ==
  /\ pc # "search"
  /\ capture' = c
  /\ pc' = "idle"
  /\ fi' = 1 /\ ti' = 1
  /\ result' = NoResult
  /\ UNCHANGED plan

\* The checked run refuses the plan or the capture.
RejectRun ==
  /\ pc = "idle"
  /\ RunError(plan, capture) # NoError
  /\ result' = [NoResult EXCEPT !.error = RunError(plan, capture)]
  /\ pc' = "done"
  /\ UNCHANGED <<plan, capture, fi, ti>>

StartSearch ==
  /\ pc = "idle"
  /\ RunError(plan, capture) = NoError
  /\ pc' = "search"
  /\ UNCHANGED <<plan, capture, fi, ti, result>>

\* Variant: a hypothesis with a NaN score is passed over and not counted.
EvaluateSkippingNaN ==
  /\ pc = "search"
  /\ fi <= FrequencyCount(plan)
  /\ LET candidate == CandidateFrom(plan, capture, fi, ti, plan.timing_offsets[ti])
     IN  result' = IF candidate.score = NaN THEN result ELSE CountCandidate(result, candidate)
  /\ IF ti < TimingCount(plan)
       THEN fi' = fi /\ ti' = ti + 1
       ELSE fi' = fi + 1 /\ ti' = 1
  /\ UNCHANGED <<plan, capture, pc>>

\* The body of the two loops, which advance the timing index first.
Evaluate ==
  /\ pc = "search"
  /\ fi <= FrequencyCount(plan)
  /\ result' = CountCandidate(result,
                 CandidateFrom(plan, capture, fi, ti, plan.timing_offsets[ti]))
  /\ IF ti < TimingCount(plan)
       THEN fi' = fi /\ ti' = ti + 1
       ELSE fi' = fi + 1 /\ ti' = 1
  /\ UNCHANGED <<plan, capture, pc>>

Finish ==
  /\ pc = "search"
  /\ fi = FrequencyCount(plan) + 1
  /\ result' = FinishedResult(result)
  /\ pc' = "done"
  /\ UNCHANGED <<plan, capture, fi, ti>>

Next ==
  \/ \E config \in Configs : PreparePlan(config)
  \/ \E c \in Captures : LoadCapture(c)
  \/ RejectRun
  \/ StartSearch
  \/ Evaluate
  \/ Finish

\* The search is a sequential call: once entered it keeps executing.
Spec == Init /\ [][Next]_vars /\ WF_vars(Evaluate \/ Finish)

-----------------------------------------------------------------------------

(***************************************************************************)
(* Types of the plan, the capture, the loop position and the result.       *)
(***************************************************************************)
TypeOK ==
  /\ plan \in Plan
  /\ capture \in Captures
  /\ pc \in {"idle", "search", "done"}
  /\ fi \in Nat \ {0}
  /\ ti \in Nat \ {0}
  /\ result \in Result

Evaluated == {h \in Hypotheses(plan) : Earlier(h, <<fi, ti>>)}

(***************************************************************************)
(* At every point of the search, and in every successful result, best is   *)
(* the earliest hypothesis with the highest score evaluated so far and     *)
(* second_best is the same of all the others: a displaced best is never    *)
(* lost, equal scores keep the earlier hypothesis, and a NaN score is best *)
(* if and only if it was evaluated first, since no comparison displaces it *)
(* and none lets it displace another.                                      *)
(***************************************************************************)
TopTwoOfEvaluated ==
  /\ pc = "search" => IsTopTwo(plan, capture, result, Evaluated)
  /\ pc = "done" /\ result.ok =>
       IsTopTwo(plan, capture, result, Hypotheses(plan))

(***************************************************************************)
(* Every window that the loops read lies inside the capture, also when a   *)
(* shorter capture was loaded or another plan prepared since the last run. *)
(***************************************************************************)
WindowsInsideCapture ==
  pc = "search" =>
    \A i \in DOMAIN plan.timing_offsets :
      plan.timing_offsets[i] + plan.preamble_length <= Recording[capture].length

(***************************************************************************)
(* A successful result evaluated each hypothesis of a configuration that   *)
(* passed preparation exactly once: a failed preparation leaves no plan    *)
(* that a later run could succeed with.                                    *)
(***************************************************************************)
SuccessNeedsPreparedPlan ==
  pc = "done" /\ result.ok =>
    \E config \in Configs :
      /\ PlanError(config) = NoError
      /\ plan = PreparedPlan(config)
      /\ result.evaluated_candidate_count =
           Len(config.frequency_offsets_hz) * Len(config.timing_offsets)

(***************************************************************************)
(* The peak separation of a successful result is a fraction of one, so     *)
(* that a gate on it is a gate on the ratio of two ordered scores, unless  *)
(* the runner-up score is NaN or the best score is infinite.               *)
(***************************************************************************)
SeparationIsFraction ==
  pc = "done" /\ result.ok =>
    LET separation == result.normalized_peak_separation
    IN  \/ /\ separation = NaN
           /\ result.second_best.score = NaN \/ result.best.score = Infinity
        \/ /\ 0 <= separation[1]
           /\ separation[1] <= separation[2]
           /\ separation[2] > 0

(***************************************************************************)
(* What a success vouches for: a whole prepared plan was evaluated, and the *)
(* separation of its peak may be compared with a threshold.                *)
(***************************************************************************)
SuccessVouches == SuccessNeedsPreparedPlan /\ SeparationIsFraction

(***************************************************************************)
(* Every step of a search counts one hypothesis more of a plan and capture *)
(* that stay as they are, and the search is left exactly when it counted   *)
(* all of them: no NaN, tie or invalid best is passed over, counted twice  *)
(* or ends the loops early, and a search has no more steps than the plan   *)
(* has hypotheses, and one.                                                *)
(***************************************************************************)
SearchAdvances ==
  [][pc = "search" =>
       /\ UNCHANGED <<plan, capture>>
       /\ LET all == FrequencyCount(plan) * TimingCount(plan)
              count == result.evaluated_candidate_count
          IN  \/ /\ pc' = "search"
                 /\ result'.evaluated_candidate_count = count + 1
                 /\ count + 1 <= all
              \/ /\ pc' = "done"
                 /\ result'.evaluated_candidate_count = count
                 /\ count = all]_vars

=============================================================================
