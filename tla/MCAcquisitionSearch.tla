------------------------- MODULE MCAcquisitionSearch -------------------------
(* Small plans with ties, infinite and NaN scores and refusals.             *)
EXTENDS AcquisitionSearch

MCFrequencies == {-750, 750}

GoodPreamble == [length |-> 2, finite |-> TRUE, energy |-> TRUE]

Configuration(preamble, timings, frequencies) ==
  [sample_rate_valid |-> TRUE, preamble |-> preamble,
   timing_offsets |-> timings, frequency_offsets_hz |-> frequencies]

\* Two accepted grids of two frequencies, one of three timings and single ones,
\* and one configuration per kind of refusal.
MCConfigs ==
  {Configuration(GoodPreamble, <<0, 1>>, <<-750, 750>>),
   Configuration(GoodPreamble, <<2, 0, 1>>, <<750>>),
   Configuration(GoodPreamble, <<1>>, <<750>>),
   Configuration(GoodPreamble, <<6, 7, 0>>, <<750>>),
   Configuration(GoodPreamble, <<0, 0>>, <<750>>),
   Configuration(GoodPreamble, <<0>>, <<750, 750>>),
   Configuration(GoodPreamble, <<0>>, <<NaN>>),
   Configuration(GoodPreamble, << >>, <<750>>),
   Configuration(GoodPreamble, <<0>>, << >>),
   Configuration([GoodPreamble EXCEPT !.length = 0], <<0>>, <<750>>),
   Configuration([GoodPreamble EXCEPT !.length = 7], <<0>>, <<-750, 750>>),
   Configuration([GoodPreamble EXCEPT !.finite = FALSE], <<0>>, <<750>>),
   Configuration([GoodPreamble EXCEPT !.energy = FALSE], <<0>>, <<750>>),
   [Configuration(GoodPreamble, <<0>>, <<750>>) EXCEPT !.sample_rate_valid = FALSE]}

\* Scores of the windows 0, 1 and 2 at 750 Hz and of 0 and 1 at -750 Hz.
Table(at750, atMinus750) ==
  [w \in Frequencies \X Size |->
     IF w[1] = 750 /\ w[2] <= 2 THEN at750[w[2] + 1]
     ELSE IF w[1] = -750 /\ w[2] <= 1 THEN atMinus750[w[2] + 1]
     ELSE 0]

\* A capture is named by its length and its scores.
MCCaptures ==
       {<<4, s, <<0, 0>>>> : s \in {0, 1, 2, 3, NaN} \X {0, 1, 2, 3, NaN} \X {0, 1, 3, NaN}}
  \cup {<<4, <<s[1], s[2], 0>>, <<s[3], s[4]>>>> :
          s \in {0, 1, 2} \X {0, 1, 2} \X {0, 2} \X {0, 1}}
  \cup {<<n, <<1, 2, 0>>, <<1, 0>>>> : n \in {1, 3, 5}}

\* The capture of length 5 holds a non-finite sample.
MCRecording ==
  [c \in MCCaptures |->
     [length |-> c[1], finite |-> c[1] # 5, score |-> Table(c[2], c[3])]]

=============================================================================
