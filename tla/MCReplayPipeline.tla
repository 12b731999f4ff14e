-------------------------- MODULE MCReplayPipeline --------------------------
(***************************************************************************)
(* Frames of six symbols after a preamble of two samples, in captures that *)
(* hold one or two timings, none, or only pass the length check because    *)
(* 2 + 6 * 5 wraps around at 32.  The scores of up to three hypotheses are *)
(* flawless, clear, close, equal, zero, infinite or NaN.                   *)
(***************************************************************************)
EXTENDS ReplayPipeline

MCFrequencies == {-250, 250}

MCEnergy == [c \in Captures |-> [start \in Size |-> 10]]

\* A capture is named by its length and the scores of its first two timings.
MCCaptures ==
       {<<n, <<a, b>>, <<0, c>>>> : n \in {7, 8, 9}, a \in {0, 10, NaN},
                                   b \in {0, 9, 10, Infinity, NaN}, c \in {0, 5, 10, NaN}}
  \cup {<<10, <<10, 0>>, <<0, 0>>>>}

\* The capture of length 10 is not finite after the front end.
MCRecording ==
  [c \in MCCaptures |->
     [length |-> c[1],
      finite |-> c[1] # 10,
      score  |-> [w \in Frequencies \X Size |->
                    IF w[2] > 1 THEN 10 ELSE IF w[1] = 250 THEN c[2][w[2] + 1]
                    ELSE c[3][w[2] + 1]]]]

Base == [sample_rate_valid       |-> TRUE,
         implementation          |-> "reference",
         cfo_hypotheses_hz       |-> <<250, -250>>,
         minimum_normalized_peak |-> 2,
         minimum_peak_separation |-> 1,
         preamble                |-> [length |-> 2, finite |-> TRUE, energy |-> TRUE],
         samples_per_symbol      |-> 1]

MCReplayConfigs ==
  {Base,
   [Base EXCEPT !.implementation = "sme2"],
   [Base EXCEPT !.cfo_hypotheses_hz = <<250>>],
   [Base EXCEPT !.minimum_normalized_peak = 0, !.minimum_peak_separation = 0],
   [Base EXCEPT !.minimum_peak_separation = 21],
   [Base EXCEPT !.minimum_normalized_peak = NaN],
   [Base EXCEPT !.cfo_hypotheses_hz = <<250, 250>>],
   [Base EXCEPT !.cfo_hypotheses_hz = << >>],
   [Base EXCEPT !.sample_rate_valid = FALSE],
   [Base EXCEPT !.preamble.energy = FALSE],
   [Base EXCEPT !.samples_per_symbol = 0],
   [Base EXCEPT !.samples_per_symbol = 5, !.minimum_peak_separation = 0],
   [Base EXCEPT !.samples_per_symbol = 6]}

\* Strong, impaired, weak and clipped symbols; all, one or two sync bits wrong.
MCDemodOutcomes ==
  {[matches |-> m, strength |-> q[1], weak |-> q[2], clipped |-> q[3]] :
     m \in {2, 3, 4},
     q \in {<<20, 0, 0>>, <<20, 3, 0>>, <<12, 6, 0>>, <<4, 20, 0>>, <<20, 0, 20>>}}

=============================================================================
