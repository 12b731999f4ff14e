---------------------------- MODULE FrameSearch ----------------------------
(***************************************************************************)
(* The frame search over the soft decisions of a buffer (find_frames):     *)
(* correlate the signs with the sync word at every offset that leaves room *)
(* for a whole frame, keep the best and the second best offset, and report *)
(* the best one with its margin when it reaches the threshold.             *)
(*                                                                         *)
(* Sizes are natural numbers: word and frame length are the demo's, whose  *)
(* sum does not wrap around.                                               *)
(***************************************************************************)
EXTENDS Integers, Sequences, FiniteSets

CONSTANTS
  Buffers,        \* the buffers searched
  SyncWords,
  FrameLengths,   \* values of coded_bits_per_frame
  Thresholds,     \* values of min_correlation_score
  LowestInt       \* std::numeric_limits<int>::min(), marks no score

ASSUME FrameSearchAssumption ==
  /\ Buffers \subseteq Seq(Int)
  /\ SyncWords \subseteq Seq({0, 1})
  /\ FrameLengths \subseteq Nat
  /\ Thresholds \subseteq Int
  /\ LowestInt \in Int
  /\ \A word \in SyncWords : LowestInt < -Len(word)

VARIABLES
  soft_bits, sync_word, coded_bits_per_frame, min_correlation_score,
  progress,       \* "called", "searching", "found" or "refused"
  offset,
  best,           \* score and offset of the best match so far
  second_best,
  frames

search_input == <<soft_bits, sync_word, coded_bits_per_frame, min_correlation_score>>
search_vars == <<search_input, progress, offset, best, second_best, frames>>

-----------------------------------------------------------------------------

\* The places at which signs and sync word agree; zero counts as a one.
Agreeing(start) ==
  {i \in 1 .. Len(sync_word) : (soft_bits[start + i] >= 0) = (sync_word[i] # 0)}

\* Each bit that agrees counts one, each other minus one.
CorrelateSync(start) == 2 * Cardinality(Agreeing(start)) - Len(sync_word)

NoMatch == [score |-> LowestInt, offset |-> 0]

FramingInvalid ==
  \/ sync_word = << >>
  \/ coded_bits_per_frame = 0
  \/ Len(soft_bits) < Len(sync_word) + coded_bits_per_frame

MaxOffset == Len(soft_bits) - Len(sync_word) - coded_bits_per_frame

\* Variant: a best match that is displaced is lost.
ConsiderLosingBest(match) ==
  IF match.score > best.score
    THEN best' = match /\ UNCHANGED second_best
    ELSE /\ second_best' = IF match.score > second_best.score THEN match ELSE second_best
         /\ UNCHANGED best

\* A better match displaces the best one, which becomes second; equal ones do not.
Consider(match) ==
  IF match.score > best.score
    THEN best' = match /\ second_best' = best
    ELSE /\ second_best' = IF match.score > second_best.score THEN match ELSE second_best
         /\ UNCHANGED best

FrameAt ==
  [sync_start_index             |-> best.offset,
   start_index                  |-> best.offset + Len(sync_word),
   length                       |-> coded_bits_per_frame,
   correlation_score            |-> best.score,
   has_second_best_correlation  |-> second_best.score # LowestInt,
   second_best_sync_start_index |-> second_best.offset,
   second_best_correlation_score |->
     IF second_best.score # LowestInt THEN second_best.score ELSE best.score]

-----------------------------------------------------------------------------

FrameSearchInit ==
  /\ soft_bits \in Buffers
  /\ sync_word \in SyncWords
  /\ coded_bits_per_frame \in FrameLengths
  /\ min_correlation_score \in Thresholds
  /\ progress = "called"
  /\ offset = 0
  /\ best = NoMatch /\ second_best = NoMatch
  /\ frames = << >>

RefuseFraming ==
  /\ progress = "called"
  /\ FramingInvalid
  /\ progress' = "refused"
  /\ UNCHANGED <<search_input, offset, best, second_best, frames>>

StartFrameSearch ==
  /\ progress = "called"
  /\ ~FramingInvalid
  /\ progress' = "searching"
  /\ UNCHANGED <<search_input, offset, best, second_best, frames>>

ConsiderOffset ==
  /\ progress = "searching"
  /\ offset <= MaxOffset
  /\ Consider([score |-> CorrelateSync(offset), offset |-> offset])
  /\ offset' = offset + 1
  /\ UNCHANGED <<search_input, progress, frames>>

ReportFrame ==
  /\ progress = "searching"
  /\ offset > MaxOffset
  /\ IF best.score < min_correlation_score
       THEN progress' = "refused" /\ UNCHANGED frames
       ELSE progress' = "found" /\ frames' = Append(frames, FrameAt)
  /\ UNCHANGED <<search_input, offset, best, second_best>>

FrameSearchNext == RefuseFraming \/ StartFrameSearch \/ ConsiderOffset \/ ReportFrame

FrameSearchSpec == FrameSearchInit /\ [][FrameSearchNext]_search_vars

-----------------------------------------------------------------------------

\* The offsets at which the sync word and a whole frame lie in the buffer.
FrameOffsets ==
  {o \in 0 .. Len(soft_bits) :
     o + Len(sync_word) + coded_bits_per_frame <= Len(soft_bits)}

\* The first of the offsets with the largest correlation.
IsFirstBest(o, among) ==
  /\ o \in among
  /\ \A other \in among :
       /\ CorrelateSync(other) <= CorrelateSync(o)
       /\ other < o => CorrelateSync(other) < CorrelateSync(o)

(***************************************************************************)
(* The reported frame is the first best match of the buffer, and its       *)
(* second the first best one of the others, whatever ties there are; with  *)
(* one offset there is no second.  The margin that the trust score reads   *)
(* is that of these two.  Both lie in the buffer with a whole frame.  A    *)
(* buffer is refused only when no offset reaches the threshold.            *)
(***************************************************************************)
FrameIsFirstBest ==
  /\ progress = "found" =>
       LET frame == frames[1]
           others == FrameOffsets \ {frame.sync_start_index}
       IN  /\ IsFirstBest(frame.sync_start_index, FrameOffsets)
           /\ frame.correlation_score = CorrelateSync(frame.sync_start_index)
           /\ frame.has_second_best_correlation <=> others # {}
           /\ others # {} =>
                /\ IsFirstBest(frame.second_best_sync_start_index, others)
                /\ frame.second_best_correlation_score
                     = CorrelateSync(frame.second_best_sync_start_index)
  /\ progress = "refused" /\ ~FramingInvalid =>
       \A o \in FrameOffsets : CorrelateSync(o) < min_correlation_score

(***************************************************************************)
(* A sync word that arrived undamaged in front of a whole frame is found:  *)
(* the search does not end without a frame, the frame it reports has an    *)
(* undamaged sync word and is the first such, and the margin is zero       *)
(* exactly when there is another one.                                      *)
(***************************************************************************)
Undamaged(o) == Agreeing(o) = 1 .. Len(sync_word)

UndamagedSyncIsFound ==
  LET undamaged == {o \in FrameOffsets : Undamaged(o)}
  IN  /\ progress \in {"found", "refused"}
      /\ ~FramingInvalid
      /\ min_correlation_score <= Len(sync_word)
      /\ undamaged # {}
      => /\ progress = "found"
         /\ frames[1].sync_start_index \in undamaged
         /\ \A o \in undamaged : frames[1].sync_start_index <= o
         /\ frames[1].has_second_best_correlation =>
              (frames[1].correlation_score = frames[1].second_best_correlation_score
                 <=> undamaged # {frames[1].sync_start_index})

=============================================================================
