--------------------------- MODULE MCDemoPrograms ---------------------------
(***************************************************************************)
(* Documents that keep the contract and documents with one field damaged;  *)
(* symbol sizes written in every form of up to three digits and an         *)
(* exponent; timing ranges at the end of a recording of nearly SizeMax     *)
(* samples, where the sum of a timing and a step wraps around.             *)
(***************************************************************************)
EXTENDS DemoPrograms

MCFrequencies == {-250, 0}

Plain(digits) == [negative |-> FALSE, whole |-> digits, point |-> FALSE, fraction |-> << >>,
                  mark |-> FALSE, exponent_negative |-> FALSE, exponent |-> << >>,
                  value_end |-> TRUE]

MCTokens ==
  {[negative |-> w[1], whole |-> w[2], point |-> f # << >>, fraction |-> f,
    mark |-> e[2] # << >>, exponent_negative |-> e[1], exponent |-> e[2], value_end |-> TRUE] :
     w \in {<<FALSE, <<0>>>>, <<TRUE, <<0>>>>, <<FALSE, <<8>>>>, <<FALSE, <<1, 2>>>>,
            <<FALSE, <<3, 0>>>>, <<FALSE, <<0, 1>>>>, <<TRUE, <<1>>>>},
     f \in {<< >>, <<0>>, <<5>>, <<7, 0>>, <<0, 8>>},
     e \in {<<FALSE, << >>>>, <<FALSE, <<0, 1>>>>, <<FALSE, <<2>>>>, <<FALSE, <<9, 9>>>>,
            <<TRUE, <<1>>>>, <<TRUE, <<2>>>>}}
  \cup {Plain(<<1, 2, 7>>), Plain(<<1, 2, 8>>), Plain(<<1, 2, 9>>), Plain(<<3, 0, 0>>), Plain(<< >>),
        [Plain(<<8>>) EXCEPT !.point = TRUE], [Plain(<<8>>) EXCEPT !.mark = TRUE],
        [Plain(<<8>>) EXCEPT !.value_end = FALSE]}

\* The size a as a token.
Written(a) ==
  Plain(IF a < 10 THEN <<a>> ELSE IF a < 100 THEN <<a \div 10, a % 10>>
        ELSE <<a \div 100, (a \div 10) % 10, a % 10>>)

Fixture == [schema |-> "satcom-fec-trust-lab/replay-fixture-v2", scenario |-> "clean",
            signal_present |-> TRUE, preamble_file |-> "preamble.iq",
            sample_rate_hz |-> 96000, samples_per_symbol |-> Written(4),
            sample_count |-> Written(6), preamble_length |-> Written(2),
            timing_search_start |-> Written(0), timing_search_stop_inclusive |-> Written(4),
            timing_search_step |-> Written(2), cfo_hypotheses_hz |-> <<-250, 0>>,
            true_timing_offset |-> Written(2), true_cfo_hz |-> 0]

Damaged == {[Fixture EXCEPT ![f] = Missing] : f \in DOMAIN Fixture}

ReplayDocuments ==
  Damaged \cup
  {[Fixture EXCEPT !.schema = "v1"],
   [Fixture EXCEPT !.sample_rate_hz = 0],
   [Fixture EXCEPT !.true_cfo_hz = Null],
   [Fixture EXCEPT !.true_timing_offset = Null, !.signal_present = FALSE]}

\* A recording of 6 samples and one of 127; ranges that fit, pass the end or do not divide.
AcquisitionDocuments ==
  {[Fixture EXCEPT !.sample_count = Written(n[1]), !.timing_search_start = Written(n[2]),
                   !.timing_search_stop_inclusive = Written(n[3]),
                   !.timing_search_step = Written(n[4]), !.true_timing_offset = Written(n[5])] :
     n \in {<<6, 0, 4, 2, 2>>, <<6, 0, 4, 2, 0>>, <<6, 0, 4, 3, 2>>, <<6, 0, 5, 1, 2>>,
            <<6, 3, 3, 1, 3>>, <<6, 4, 3, 1, 3>>, <<6, 0, 4, 0, 0>>, <<5, 0, 2, 1, 2>>,
            <<127, 5, 125, 60, 65>>, <<127, 65, 125, 60, 125>>, <<127, 121, 125, 4, 5>>}}
  \cup {[Fixture EXCEPT !.cfo_hypotheses_hz = <<0, 0>>],
        [Fixture EXCEPT !.preamble_length = Written(3)],
        [Fixture EXCEPT !.sample_rate_hz = 0]}

MCPreamble == [length |-> 2, finite |-> TRUE, energy |-> TRUE]

MCDisks ==
  {[sidecar |-> d, other |-> o, preamble |-> MCPreamble] :
     d \in ReplayDocuments \cup {Fixture, Missing}, o \in {Missing, Fixture}}
  \cup {[sidecar |-> Missing, other |-> d, preamble |-> MCPreamble] : d \in AcquisitionDocuments}
  \cup {[sidecar |-> [Fixture EXCEPT !.samples_per_symbol = token], other |-> Missing,
         preamble |-> Missing] : token \in MCTokens}

MCCaptures == {"short", "long", "noise"}

\* The highest score is at <<0 Hz, 2>>, <<0 Hz, 65>> and, in noise, is not a number.
MCRecording ==
  [c \in MCCaptures |->
     [length |-> IF c = "long" THEN 127 ELSE 6, finite |-> c # "noise",
      score |-> [w \in MCFrequencies \X Size |->
                   IF w = <<0, IF c = "long" THEN 65 ELSE 2>> THEN 9 ELSE 3]]]

MCEnergy == [c \in MCCaptures |-> [start \in Size |-> 9]]

=============================================================================
