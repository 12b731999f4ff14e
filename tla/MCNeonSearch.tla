---------------------------- MODULE MCNeonSearch ----------------------------
(***************************************************************************)
(* The NEON search with the code's lane count on timing grids that need    *)
(* every tile size, and on grids that mix consecutive stretches with gaps, *)
(* reversals and a wrap of size_t.  The two highest scores are placed on   *)
(* every pair of tile-boundary timings.                                    *)
(***************************************************************************)
EXTENDS NeonSearch

MCFrequencies == {-750, 750}

Preamble == [length |-> 3, finite |-> TRUE, energy |-> TRUE]

Configuration(timings, frequencies) ==
  [sample_rate_valid |-> TRUE, preamble |-> Preamble,
   timing_offsets |-> timings, frequency_offsets_hz |-> frequencies]

CountUp(first, n) == [i \in 1 .. n |-> first + i - 1]

MCConfigs ==
  {Configuration(CountUp(0, 63), <<750>>),
   Configuration(CountUp(2, 35), <<750>>),
   Configuration(CountUp(1, 7), <<-750, 750>>),
   Configuration(CountUp(0, 33) \o CountUp(40, 17), <<750>>),
   Configuration(CountUp(9, 5) \o CountUp(0, 9), <<-750, 750>>),
   Configuration(<<3, 2, 1, 0>> \o CountUp(4, 4), <<750>>),
   Configuration(<<126, 127, 0, 1>>, <<750>>),
   Configuration(CountUp(60, 8), <<750>>)}

\* Timings at the edges of the tiles of the grids above.
Edges == {0, 3, 31, 34, 55, 62}

\* The score is two at first, one or two at second and zero elsewhere.
Peaks(first, second, height) ==
  [w \in Frequencies \X Size |->
     IF w = <<750, first>> THEN 2
     ELSE IF w = <<IF first = second THEN -750 ELSE 750, second>> THEN height
     ELSE 0]

\* A capture is named by its length and its two peaks.
MCCaptures == ({65} \X Edges \X Edges \X {1, 2}) \cup {<<15, 0, 8, 1>>}

MCRecording ==
  [c \in MCCaptures |->
     [length |-> c[1], finite |-> TRUE, score |-> Peaks(c[2], c[3], c[4])]]

=============================================================================
