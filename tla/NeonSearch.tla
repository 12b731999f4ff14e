----------------------------- MODULE NeonSearch -----------------------------
(***************************************************************************)
(* The NEON search (acquisition_neon.cpp).  It walks the same hypotheses   *)
(* as the reference, but correlates tiles of consecutive timings at once:  *)
(* 8, 4, 2 or 1 groups of Lanes timings, then single timings.  A tile      *)
(* loads Lanes consecutive samples per group from the first timing on, so  *)
(* lane l has the window that begins l samples after the tile's first one, *)
(* while its candidate is labelled with the plan's timing at that index.   *)
(*                                                                         *)
(* A contiguous plan takes one pass over the tile sizes without looking at *)
(* the timings; any other plan looks for the widest consecutive stretch at *)
(* every index.                                                            *)
(***************************************************************************)
EXTENDS AcquisitionCandidates

CONSTANT Lanes   \* kNeonLanes: timings per vector register

ASSUME LanesAssumption == Lanes \in Nat \ {0}

VARIABLES
  plan,          \* the caller's AcquisitionPlan
  capture,       \* the received samples, one of Captures
  pc,            \* "idle", "search" or "done"
  fi,            \* index of the frequency hypothesis, from 1
  timing_index,  \* timings of this frequency consumed by tiles, from 0
  groups,        \* the tile size to try next, in groups; 0: a single timing
  windows,       \* first sample of each lane's window, of the tile in hand
  lane,          \* the lane of that tile to consider next
  result         \* the AcquisitionResult

vars == <<plan, capture, pc, fi, timing_index, groups, windows, lane, result>>

callerVars == <<plan, capture>>
loopVars == <<fi, timing_index, groups, windows, lane>>

-----------------------------------------------------------------------------

kMaximumTimingGroups == 8

NoTile == << >>

\* The timings from first_index on (from 0) count up by one, count times.
ConsecutiveTimings(offsets, first_index, count) ==
  /\ count # 0
  /\ first_index <= Len(offsets)
  /\ count <= Len(offsets) - first_index
  /\ \A l \in 1 .. count - 1 :
       /\ offsets[first_index + 1] <= SizeMax - l
       /\ offsets[first_index + l + 1] = SizeAdd(offsets[first_index + 1], l)

LayoutMetadataInconsistent ==
  LET contiguous == ConsecutiveTimings(plan.timing_offsets, 0, TimingCount(plan))
  IN  \/ plan.timing_offsets_contiguous # contiguous
      \/ contiguous /\ plan.contiguous_timing_start # plan.timing_offsets[1]

NeonRunError ==
  IF RunError(plan, capture) # NoError THEN RunError(plan, capture)
  ELSE IF LayoutMetadataInconsistent THEN "inconsistent timing layout"
  ELSE NoError

-----------------------------------------------------------------------------

LoopStart ==
  /\ fi' = 1
  /\ timing_index' = 0
  /\ groups' = kMaximumTimingGroups
  /\ windows' = NoTile
  /\ lane' = 0

Init ==
  /\ plan = EmptyPlan
  /\ capture \in Captures
  /\ pc = "idle"
  /\ fi = 1
  /\ timing_index = 0
  /\ groups = kMaximumTimingGroups
  /\ windows = NoTile
  /\ lane = 0
  /\ result = NoResult

PreparePlan(config) ==
  /\ pc # "search"
  /\ plan' = PreparedPlan(config)
  /\ pc' = "idle"
  /\ result' = NoResult
  /\ LoopStart
  /\ UNCHANGED capture

LoadCapture(c) ==
  /\ pc # "search"
  /\ capture' = c
  /\ pc' = "idle"
  /\ result' = NoResult
  /\ LoopStart
  /\ UNCHANGED plan

RejectRun ==
  /\ pc = "idle"
  /\ NeonRunError # NoError
  /\ result' = [NoResult EXCEPT !.error = NeonRunError]
  /\ pc' = "done"
  /\ UNCHANGED <<callerVars, loopVars>>

StartSearch ==
  /\ pc = "idle"
  /\ NeonRunError = NoError
  /\ pc' = "search"
  /\ UNCHANGED <<callerVars, loopVars, result>>

-----------------------------------------------------------------------------

\* In the loop over this frequency's timings, with no tile in hand.
AtTimingIndex ==
  /\ pc = "search"
  /\ fi <= FrequencyCount(plan)
  /\ windows = NoTile
  /\ timing_index < TimingCount(plan)

\* Variant: the timings of the tile are not looked at.
TileFitsByCount == TimingCount(plan) - timing_index >= groups * Lanes

\* A contiguous plan compares counts only.
TileFits ==
  IF plan.timing_offsets_contiguous
    THEN TimingCount(plan) - timing_index >= groups * Lanes
    ELSE ConsecutiveTimings(plan.timing_offsets, timing_index, groups * Lanes)

\* Where the loads of a tile of n timings begin, lane by lane.
TileWindows(n) ==
  [l \in 1 .. n |-> plan.timing_offsets[timing_index + 1] + l - 1]

\* Variant: the widest size is tried again before the single timings.
NarrowerTileWrapping(g) == IF g = 1 THEN kMaximumTimingGroups ELSE g \div 2

\* The next tile size down: 8, 4, 2, 1 groups, then single timings.
NarrowerTile(g) == g \div 2

LoadTile ==
  /\ AtTimingIndex
  /\ groups > 0
  /\ TileFits
  /\ windows' = TileWindows(groups * Lanes)
  /\ UNCHANGED <<callerVars, pc, fi, timing_index, groups, lane, result>>

TryNarrowerTile ==
  /\ AtTimingIndex
  /\ groups > 0
  /\ ~TileFits
  /\ groups' = NarrowerTile(groups)
  /\ UNCHANGED <<callerVars, pc, fi, timing_index, windows, lane, result>>

LoadSingleTiming ==
  /\ AtTimingIndex
  /\ groups = 0
  /\ windows' = TileWindows(1)
  /\ UNCHANGED <<callerVars, pc, fi, timing_index, groups, lane, result>>

\* After a tile, a contiguous plan repeats only the widest size and the single
\* timings; any other plan starts again from the widest size.
GroupsAfterTile ==
  IF ~plan.timing_offsets_contiguous THEN kMaximumTimingGroups
  ELSE IF groups \in {0, kMaximumTimingGroups} THEN groups
  ELSE NarrowerTile(groups)

\* The loop over the correlations of the tile in hand.
ConsiderLane ==
  /\ pc = "search"
  /\ windows # NoTile
  /\ result' = CountCandidate(result,
                 CandidateFrom(plan, capture, fi, timing_index + lane + 1,
                               windows[lane + 1]))
  /\ IF lane + 1 < Len(windows)
       THEN /\ lane' = lane + 1
            /\ UNCHANGED <<timing_index, groups, windows>>
       ELSE /\ lane' = 0
            /\ timing_index' = timing_index + Len(windows)
            /\ groups' = GroupsAfterTile
            /\ windows' = NoTile
  /\ UNCHANGED <<callerVars, pc, fi>>

\* Variant: the timing index is not reset for the next frequency.
NextFrequencyKeepingIndex ==
  /\ pc = "search"
  /\ fi <= FrequencyCount(plan)
  /\ windows = NoTile
  /\ timing_index = TimingCount(plan)
  /\ fi' = fi + 1
  /\ groups' = kMaximumTimingGroups
  /\ UNCHANGED <<callerVars, pc, timing_index, windows, lane, result>>

NextFrequency ==
  /\ pc = "search"
  /\ fi <= FrequencyCount(plan)
  /\ windows = NoTile
  /\ timing_index = TimingCount(plan)
  /\ fi' = fi + 1
  /\ timing_index' = 0
  /\ groups' = kMaximumTimingGroups
  /\ UNCHANGED <<callerVars, pc, windows, lane, result>>

Finish ==
  /\ pc = "search"
  /\ fi = FrequencyCount(plan) + 1
  /\ result' = FinishedResult(result)
  /\ pc' = "done"
  /\ UNCHANGED <<callerVars, loopVars>>

-----------------------------------------------------------------------------

Search ==
  \/ LoadTile \/ TryNarrowerTile \/ LoadSingleTiming
  \/ ConsiderLane \/ NextFrequency \/ Finish

Next ==
  \/ \E config \in Configs : PreparePlan(config)
  \/ \E c \in Captures : LoadCapture(c)
  \/ RejectRun
  \/ StartSearch
  \/ Search

\* The search is a sequential call: once entered it keeps executing.
Spec == Init /\ [][Next]_vars /\ WF_vars(Search)

-----------------------------------------------------------------------------

(***************************************************************************)
(* Each lane's correlation reads the window of the timing that labels its  *)
(* candidate.  A tile may span a gap, a repeated run or the order of the   *)
(* plan's timings only where they happen to count up by one.               *)
(***************************************************************************)
LanesMatchTheirTimings ==
  \A l \in DOMAIN windows :
    /\ timing_index + l <= TimingCount(plan)
    /\ windows[l] = plan.timing_offsets[timing_index + l]

(***************************************************************************)
(* No vector load of a tile in hand reads past the end of the capture.     *)
(***************************************************************************)
TileReadsInsideCapture ==
  \A l \in DOMAIN windows : windows[l] + plan.preamble_length <= Recording[capture].length

(***************************************************************************)
(* A contiguous plan leaves fewer than Lanes timings to the scalar         *)
(* remainder, although each narrower tile is tried only once.              *)
(***************************************************************************)
ScalarRemainderIsShort ==
  pc = "search" /\ plan.timing_offsets_contiguous /\ groups = 0 =>
    TimingCount(plan) - timing_index < Lanes

(***************************************************************************)
(* A tile in hand lies where the plan wants it: with the windows of its own *)
(* timings, inside the capture, and as wide as the timings left allow.     *)
(***************************************************************************)
TilesAreInPlace == LanesMatchTheirTimings /\ TileReadsInsideCapture /\ ScalarRemainderIsShort

\* Frequencies to begin, timings of this one to consider, tile sizes to try and
\* whether a tile is to be loaded.
LeftToSearch ==
  <<FrequencyCount(plan) + 1 - fi,
    TimingCount(plan) - timing_index - lane,
    groups,
    IF windows = NoTile THEN 1 ELSE 0>>

(***************************************************************************)
(* Every step of the tiling leaves less to search, whatever mixture of     *)
(* stretches and gaps the plan has: no index is left without a tile size   *)
(* that is taken, and starting again from the widest size always follows   *)
(* consumed timings.  The order has no infinite descent, so the tiling     *)
(* cannot run in a circle.                                                 *)
(***************************************************************************)
TilingAdvances ==
  [][pc = "search" =>
       /\ LeftToSearch \in Nat \X Nat \X Nat \X Nat
       /\ \/ pc' = "search" /\ Lowers(LeftToSearch', LeftToSearch)
          \/ pc' = "done" /\ LeftToSearch[1] = 0]_vars

(***************************************************************************)
(* The NEON search considers the candidates of the reference search, with  *)
(* the same scores, in the same order, and refuses the same inputs.  A     *)
(* consumed frequency is mapped to the start of the next one.              *)
(***************************************************************************)
AtEndOfTimings == pc = "search" /\ fi <= FrequencyCount(plan)
                    /\ timing_index = TimingCount(plan)

Reference == INSTANCE AcquisitionSearch WITH
  fi <- IF AtEndOfTimings THEN fi + 1 ELSE fi,
  ti <- IF AtEndOfTimings THEN 1 ELSE timing_index + lane + 1

ImplementsReference == Reference!Spec

=============================================================================
