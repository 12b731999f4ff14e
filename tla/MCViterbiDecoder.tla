-------------------------- MODULE MCViterbiDecoder --------------------------
(***************************************************************************)
(* Inputs of at most seven symbols: every payload of three bits with every *)
(* single inverted decision, at two strengths, so that a NEON tile of two  *)
(* symbols leaves a remainder and a streaming vector of three leaves two   *)
(* lanes; one longer frame; every short input of strong, weak and erased   *)
(* decisions, which makes ties; and the lengths that are refused.          *)
(***************************************************************************)
EXTENDS ViterbiDecoder

FramePayloads == [1 .. 3 -> Bit]

Frames == {Received(payload, strength, inverted) :
             payload \in FramePayloads, strength \in 1 .. 2, inverted \in 0 .. 10}

LongFrames == {Received(<<1, 0, 1, 1, 0>>, 2, inverted) : inverted \in {0, 5, 14}}

ShortInputs == UNION {[1 .. n -> {-2, 0, 1}] : n \in {1, 2, 4}}
               \union [1 .. 6 -> {-1, 2}]

\* Inputs that are no frame: erased, constant and alternating decisions.
NoiseInputs == {<< >>} \union
               {[k \in 1 .. 10 |-> IF k % 2 = 1 THEN odd ELSE even] :
                  odd \in {-2, 0, 1}, even \in {-2, 0, 1}}

MCSoftInputs == Frames \union LongFrames \union ShortInputs \union NoiseInputs
MCNegInf == -100

=============================================================================
