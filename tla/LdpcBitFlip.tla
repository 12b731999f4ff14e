---------------------------- MODULE LdpcBitFlip ----------------------------
(***************************************************************************)
(* ldpc_decode_reference: hard decisions in blocks, and in each block      *)
(* rounds of flipping the bits that most failed parity checks contain,     *)
(* until all checks hold or the rounds are used up.  The function returns  *)
(* true in either case.                                                    *)
(***************************************************************************)
EXTENDS Integers, Sequences, FiniteSets, FiniteSetsExt

CONSTANTS
  ParityChecks,     \* per check, the positions it contains; kParityCheck in the source
  BlockLength,      \* kLdpcBlockLength, 12
  MaxIterations,    \* kLdpcMaxIterations, 8
  Inputs            \* the soft decisions of a call

ASSUME LdpcAssumption ==
  /\ BlockLength \in Nat \ {0} /\ MaxIterations \in Nat
  /\ \A c \in DOMAIN ParityChecks : ParityChecks[c] \subseteq 1 .. BlockLength

\* The checks of the source.
kParityCheck ==
  <<{1, 2, 4, 7, 10}, {2, 3, 5, 8, 11}, {3, 4, 6, 9, 12},
    {1, 4, 5, 9, 10}, {2, 5, 6, 7, 11}, {3, 6, 8, 9, 12}>>

Positions == 1 .. BlockLength
Checks == DOMAIN ParityChecks

VARIABLES
  soft_in,     \* the decisions of the call
  ones,        \* positions of the block in hand whose bit is one
  iteration,
  hard_blocks, \* finished blocks, each as its set of ones
  stage        \* "called", "decoding" or the value returned

ldpc_vars == <<soft_in, ones, iteration, hard_blocks, stage>>

LdpcInit ==
  /\ soft_in \in Inputs
  /\ ones = {} /\ iteration = 0
  /\ hard_blocks = << >>
  /\ stage = "called"

BlockCount == Len(soft_in) \div BlockLength

\* A decision of zero counts as a one.
HardDecisions(block) == {i \in Positions : soft_in[(block - 1) * BlockLength + i] >= 0}

FailedChecks(bits) == {c \in Checks : Cardinality(ParityChecks[c] \cap bits) % 2 # 0}

\* Variant: every check votes, whether it failed or not.
VotesOfAll(bits, i) == Cardinality({c \in Checks : i \in ParityChecks[c]})

Votes(bits, i) == Cardinality({c \in FailedChecks(bits) : i \in ParityChecks[c]})

MostVotes(bits) == Max({Votes(bits, i) : i \in Positions})

\* All bits with the most votes at once.
Flip(bits) ==
  LET chosen == {i \in Positions : Votes(bits, i) = MostVotes(bits)}
  IN (bits \ chosen) \cup (chosen \ bits)

\* Nothing is left to flip: all checks hold, or no bit is in a failed one.
Settled(bits) == FailedChecks(bits) = {} \/ MostVotes(bits) = 0

RefuseBlocks ==
  /\ stage = "called"
  /\ soft_in = << >> \/ Len(soft_in) % BlockLength # 0
  /\ stage' = "failed"
  /\ UNCHANGED <<soft_in, ones, iteration, hard_blocks>>

StartBlock(block) ==
  /\ ones' = HardDecisions(block)
  /\ iteration' = 0

Begin ==
  /\ stage = "called"
  /\ soft_in # << >> /\ Len(soft_in) % BlockLength = 0
  /\ StartBlock(1)
  /\ stage' = "decoding"
  /\ UNCHANGED <<soft_in, hard_blocks>>

BlockDone == Settled(ones) \/ iteration = MaxIterations

FlipBits ==
  /\ stage = "decoding" /\ ~BlockDone
  /\ ones' = Flip(ones)
  /\ iteration' = iteration + 1
  /\ UNCHANGED <<soft_in, hard_blocks, stage>>

FinishBlock ==
  /\ stage = "decoding" /\ BlockDone
  /\ hard_blocks' = Append(hard_blocks, ones)
  /\ IF Len(hard_blocks') = BlockCount
     THEN stage' = "decoded" /\ UNCHANGED <<ones, iteration>>
     ELSE StartBlock(Len(hard_blocks') + 1) /\ UNCHANGED stage
  /\ UNCHANGED soft_in

LdpcNext == RefuseBlocks \/ Begin \/ FlipBits \/ FinishBlock

LdpcSpec == LdpcInit /\ [][LdpcNext]_ldpc_vars

-----------------------------------------------------------------------------
Codeword(bits) == FailedChecks(bits) = {}

\* Positions whose error is corrected: by their columns of the parity check matrix,
\* all but three.  Codewords of two bits make the rest ambiguous.
CorrectablePositions == Positions \ {1, 10, 11}

\* Flipping several bits at once may move away from the code, and the result does not
\* tell convergence from giving up; still a codeword comes out as it went in, and one
\* with a single inverted decision at a correctable position is restored, in every
\* block on its own.
SingleErrorsAreRestored ==
  \A b \in DOMAIN hard_blocks :
    \A flipped \in {{}} \cup {{i} : i \in CorrectablePositions} :
      LET received == HardDecisions(b)
          sent == (received \ flipped) \cup (flipped \ received)
      IN Codeword(sent) => hard_blocks[b] = sent

\* The bits of a block after each of its rounds, as a function of its hard decisions.
Rounds(bits) ==
  LET after[k \in 0 .. MaxIterations] ==
        IF k = 0 THEN bits
        ELSE IF Settled(after[k - 1]) THEN after[k - 1] ELSE Flip(after[k - 1])
  IN  after

Decoded(bits) == Rounds(bits)[MaxIterations]

\* What the parity check matrix has to give: every correctable error is removed from
\* the block of zeros.
ZeroBlockIsRestored == \A i \in CorrectablePositions : Decoded({i}) = {}

=============================================================================
