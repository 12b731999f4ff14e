--------------------------- MODULE MCReplayStages ---------------------------
(***************************************************************************)
(* One of the three stages meets all of its inputs, the other two one each *)
(* that lets the replay go on.                                             *)
(*                                                                         *)
(* Reader: files of up to 16 bytes, of samples of 2 bytes.  Search: every  *)
(* buffer of up to six soft decisions, with sync words of up to three bits *)
(* and frames of up to two.  Payload: two bytes, with every error of up to *)
(* three bits, every burst of eight bits, and bursts of nine that the code *)
(* cannot detect.                                                          *)
(***************************************************************************)
EXTENDS ReplayStages

MCBuffers == UNION {[1 .. n -> {-1, 0}] : n \in 0 .. 6} \cup {<<5, -7, 0, 9, -2, 3, 1, -1>>}

MCSyncWords == {<< >>, <<1>>, <<1, 0>>, <<1, 1, 0>>}

MCThresholds == {-1, 1, 3}

MCLowestInt == -128

MCMessages == {<<{}, {}>>, <<{0, 3, 4, 7}, {1, 2, 6}>>, <<{5}, 0 .. 7>>}

MCBits == 1 .. 8 * 3

MCSpread == {{i, j, k} : i \in MCBits, j \in MCBits, k \in MCBits}

MCBursts ==
  UNION {{({first} \cup rest) \cap MCBits : rest \in SUBSET (first + 1 .. first + 7)} :
           first \in MCBits}

\* The bits of the polynomial, x^8 + x^2 + x + 1.
MCPolynomials == {{first, first + 6, first + 7, first + 8} : first \in 1 .. 16}

MCErrors == {{}} \cup MCSpread \cup MCBursts \cup MCPolynomials

-----------------------------------------------------------------------------

\* A recording that is complete and loads.
OneRecording == file_bytes = MaxBytes /\ not_finite = {} /\ out_samples = << >>

\* A buffer of one frame behind its sync word.
OneBuffer ==
  /\ soft_bits = <<0, -1, 0, 0>> /\ sync_word = <<1, 0>>
  /\ coded_bits_per_frame = 2 /\ min_correlation_score = 1

OneFrame == errors = {} /\ message = <<{}, {}>>

MCInit ==
  \/ OneBuffer /\ OneFrame /\ StagesInit
  \/ OneRecording /\ OneFrame /\ StagesInit
  \/ OneRecording /\ OneBuffer /\ StagesInit

MCSpec == MCInit /\ [][StagesNext]_stages_vars

=============================================================================
