---------------------------- MODULE MCSme2Search ----------------------------
(***************************************************************************)
(* Two lanes, so a batch is eight timings: plans of one or two frequencies *)
(* with full batches, tails in each of the four groups, two packed plans   *)
(* of equal size and a plan that fails, over three captures.               *)
(***************************************************************************)
EXTENDS Sme2Search

MCFrequencies == {-750, 750}

Preamble == [length |-> 2, finite |-> TRUE, energy |-> TRUE]

Configuration(timings, frequencies) ==
  [sample_rate_valid |-> TRUE, preamble |-> Preamble,
   timing_offsets |-> timings, frequency_offsets_hz |-> frequencies]

CountUp(first, n) == [i \in 1 .. n |-> first + i - 1]

MCConfigs ==
  {Configuration(CountUp(0, 11), <<-750, 750>>),
   Configuration(CountUp(1, 11), <<-750, 750>>),
   Configuration(CountUp(0, 8), <<750>>),
   Configuration(<<0, 2, 4, 6, 8>>, <<-750, 750>>),
   Configuration(<<3, 1, 0, 6, 2>>, <<-750, 750>>),
   Configuration(<<4, 4>>, <<750>>)}

MCCaptures == {"first", "second", "short"}

\* Scores differ between captures, frequencies and window starts, with some ties.
MCRecording ==
  [c \in MCCaptures |->
     [length |-> IF c = "short" THEN 9 ELSE 14,
      finite |-> TRUE,
      score  |-> [w \in Frequencies \X Size |->
        LET base == IF w[1] = 750 THEN 3 ELSE 1
        IN  IF c = "first" THEN (base * w[2]) % 7 ELSE (base * w[2] + 4) % 9]]]

=============================================================================
