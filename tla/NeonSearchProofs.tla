-------------------------- MODULE NeonSearchProofs --------------------------
(***************************************************************************)
(* Proofs about the NEON search, for vectors of any width and grids of any *)
(* length: its tiles read the windows of their own timings, inside the     *)
(* capture, and every step of it is a step of the reference search or none *)
(* of its visible state.                                                   *)
(***************************************************************************)
EXTENDS NeonSearch, AcquisitionPlanProofs, TLAPS

\* The plan is one that preparation left, for a capture of the model.
Prepared ==
  /\ plan \in Plan
  /\ capture \in Captures
  /\ plan = EmptyPlan \/ \E config \in Configs : plan = PreparedPlan(config)

\* Where the loops can be, and when a tile is in hand.
Position ==
  /\ pc \in {"idle", "search", "done"}
  /\ fi \in Nat \ {0} /\ timing_index \in Nat /\ lane \in Nat
  /\ groups \in {0, 1, 2, 4, kMaximumTimingGroups}
  /\ windows \in Seq(Int)
  /\ pc = "idle" => fi = 1 /\ timing_index = 0 /\ groups = kMaximumTimingGroups
  /\ pc # "search" => windows = NoTile
  /\ windows = NoTile => lane = 0
  /\ windows # NoTile => fi <= FrequencyCount(plan) /\ lane < Len(windows)
  /\ pc = "search" =>
       /\ RunError(plan, capture) = NoError
       /\ fi <= FrequencyCount(plan) + 1
       /\ timing_index <= TimingCount(plan)
       /\ fi = FrequencyCount(plan) + 1 => timing_index = 0

(***************************************************************************)
(* On a contiguous plan a tile size that is reached has fewer than two     *)
(* tiles left, and a tile in hand leaves what the next size needs.         *)
(***************************************************************************)
Remaining == TimingCount(plan) - timing_index

NarrowTilesSuffice ==
  pc = "search" /\ plan.timing_offsets_contiguous =>
    /\ groups = 4 => Remaining < 8 * Lanes
    /\ groups = 2 => Remaining < 4 * Lanes
    /\ groups = 1 => Remaining < 2 * Lanes
    /\ groups = 0 => Remaining < Lanes
    /\ windows # NoTile => Len(windows) = IF groups = 0 THEN 1 ELSE groups * Lanes

IInv ==
  /\ Prepared
  /\ Position
  /\ LanesMatchTheirTimings
  /\ NarrowTilesSuffice

-----------------------------------------------------------------------------

(***************************************************************************)
(* Timings that the layout checks call consecutive count up by one, and    *)
(* there are as many as were asked for.                                    *)
(***************************************************************************)
LEMMA ConsecutiveCountUp ==
  ASSUME NEW offsets \in Seq(Size), NEW first \in Nat, NEW count \in Nat,
         ConsecutiveTimings(offsets, first, count)
  PROVE  /\ count # 0 /\ first + count <= Len(offsets)
         /\ \A l \in 1 .. count : offsets[first + l] = offsets[first + 1] + l - 1
<1>1. count # 0 /\ first + count <= Len(offsets) /\ Len(offsets) \in Nat
  BY DEF ConsecutiveTimings
<1>2. offsets[first + 1] \in Size
  BY <1>1
<1>3. offsets[first + 1] \in Int
  BY <1>2, SizeAssumption DEF Size
<1>4. ASSUME NEW l \in 1 .. count PROVE offsets[first + l] = offsets[first + 1] + l - 1
  <2>1. CASE l = 1
    BY <1>3, <2>1
  <2>2. CASE l # 1
    <3>1. l - 1 \in 1 .. count - 1 /\ l - 1 \in Nat
      BY <2>2
    <3>2. /\ offsets[first + 1] <= SizeMax - (l - 1)
          /\ offsets[first + (l - 1) + 1] = SizeAdd(offsets[first + 1], l - 1)
      BY <3>1 DEF ConsecutiveTimings
    <3>3. SizeAdd(offsets[first + 1], l - 1) = offsets[first + 1] + (l - 1)
      BY <1>2, <3>1, <3>2, NoWrapAround
    <3>4. first + (l - 1) + 1 = first + l
      OBVIOUS
    <3> QED
      BY <1>3, <3>2, <3>3, <3>4
  <2> QED
    BY <2>1, <2>2
<1> QED
  BY <1>1, <1>4

(***************************************************************************)
(* The layout that preparation recorded is the one the run computes: the   *)
(* check for inconsistent metadata never refuses a prepared plan, and a    *)
(* contiguous plan counts up from its first timing to its last.            *)
(***************************************************************************)
LEMMA LayoutIsConsistent ==
  ASSUME Prepared, RunError(plan, capture) = NoError
  PROVE  /\ plan.timing_offsets_contiguous =
              ConsecutiveTimings(plan.timing_offsets, 0, TimingCount(plan))
         /\ plan.contiguous_timing_start = plan.timing_offsets[1]
<1>1. /\ plan \in Plan /\ capture \in Captures /\ plan # EmptyPlan
      /\ TimingCount(plan) \in Nat \ {0}
  BY RunnablePlan DEF Prepared
<1>2. PICK config \in Configs : plan = PreparedPlan(config)
  BY <1>1 DEF Prepared
<1>3. PlanError(config) = NoError
  BY <1>1, <1>2 DEF PreparedPlan
<1>4. /\ plan.timing_offsets = config.timing_offsets
      /\ plan.timing_offsets_contiguous = TimingOffsetsAreContiguous(config.timing_offsets)
      /\ plan.contiguous_timing_start = config.timing_offsets[1]
  BY <1>2, <1>3 DEF PreparedPlan
<1>5. TimingCount(plan) = Len(config.timing_offsets)
  BY <1>4 DEF TimingCount
<1> DEFINE offsets == config.timing_offsets
           follows(l) == /\ offsets[1] <= SizeMax - l
                         /\ offsets[l + 1] = SizeAdd(offsets[1], l)
<1>6. TimingOffsetsAreContiguous(offsets) <=> \A l \in 1 .. Len(offsets) - 1 : follows(l)
  BY DEF TimingOffsetsAreContiguous
<1>7. ConsecutiveTimings(offsets, 0, Len(offsets))
        <=> \A l \in 1 .. Len(offsets) - 1 : follows(l)
  <2>1. Len(offsets) \in Nat \ {0}
    BY <1>1, <1>5
  <2>2. \A l \in 1 .. Len(offsets) - 1 : 0 + l + 1 = l + 1
    BY <2>1
  <2> QED
    BY <2>1, <2>2 DEF ConsecutiveTimings
<1>8. TimingOffsetsAreContiguous(offsets) \in BOOLEAN
  BY DEF TimingOffsetsAreContiguous
<1>9. ConsecutiveTimings(offsets, 0, Len(offsets)) \in BOOLEAN
  BY DEF ConsecutiveTimings
<1> HIDE DEF follows, offsets
<1>10. TimingOffsetsAreContiguous(offsets) = ConsecutiveTimings(offsets, 0, Len(offsets))
  BY <1>6, <1>7, <1>8, <1>9
<1> QED
  BY <1>4, <1>5, <1>10 DEF offsets

\* A NEON run refuses exactly what the reference run refuses.
LEMMA SameRefusals ==
  ASSUME Prepared
  PROVE  NeonRunError = RunError(plan, capture)
<1>1. CASE RunError(plan, capture) # NoError
  BY <1>1 DEF NeonRunError
<1>2. CASE RunError(plan, capture) = NoError
  BY <1>2, LayoutIsConsistent DEF NeonRunError, LayoutMetadataInconsistent
<1> QED
  BY <1>1, <1>2


\* What a search in progress knows of its plan.
LEMMA RunningPlan ==
  ASSUME Prepared, RunError(plan, capture) = NoError
  PROVE  /\ plan \in Plan /\ plan.timing_offsets \in Seq(Size)
         /\ FrequencyCount(plan) \in Nat \ {0} /\ TimingCount(plan) \in Nat \ {0}
         /\ \A i \in 1 .. TimingCount(plan) : plan.timing_offsets[i] \in Int
<1>1. plan \in Plan /\ capture \in Captures
  BY DEF Prepared
<1>2. plan.timing_offsets \in Seq(Size)
  BY <1>1 DEF Plan
<1>3. \A i \in 1 .. TimingCount(plan) : plan.timing_offsets[i] \in Size
  BY <1>2 DEF TimingCount
<1> QED
  BY <1>1, <1>2, <1>3, RunnablePlan, SizeAssumption DEF Size

-----------------------------------------------------------------------------

\* The invariant holds before the first call.
LEMMA InitInv == Init => IInv
<1> SUFFICES ASSUME Init PROVE IInv
  OBVIOUS
<1>1. EmptyPlan \in Plan
  BY SizeAssumption DEF EmptyPlan, Plan, Size
<1>2. Prepared
  BY <1>1 DEF Init, Prepared
<1>3. Position
  BY DEF Init, Position, NoTile, kMaximumTimingGroups
<1>4. LanesMatchTheirTimings /\ NarrowTilesSuffice
  BY DEF Init, LanesMatchTheirTimings, NarrowTilesSuffice, NoTile
<1> QED
  BY <1>2, <1>3, <1>4 DEF IInv

\* Between runs a caller starts the loops over, with no tile in hand.
LEMMA CallerInv ==
  IInv /\ ((\E config \in Configs : PreparePlan(config)) \/ (\E c \in Captures : LoadCapture(c)))
    => IInv'
<1> SUFFICES ASSUME IInv,
                    \/ \E config \in Configs : PreparePlan(config)
                    \/ \E c \in Captures : LoadCapture(c)
             PROVE  IInv'
  OBVIOUS
<1>1. Prepared'
  <2>1. CASE \E config \in Configs : PreparePlan(config)
    <3>1. PICK config \in Configs : PreparePlan(config)
      BY <2>1
    <3>2. PreparedPlan(config) \in Plan
      BY PreparedPlanType, ConfigsAssumption
    <3> QED
      BY <3>1, <3>2 DEF PreparePlan, IInv, Prepared
  <2>2. CASE \E c \in Captures : LoadCapture(c)
    BY <2>2 DEF LoadCapture, IInv, Prepared
  <2> QED
    BY <2>1, <2>2
<1>2. pc' = "idle" /\ LoopStart
  BY DEF PreparePlan, LoadCapture
<1>3. Position'
  BY <1>2 DEF LoopStart, Position, NoTile, kMaximumTimingGroups
<1>4. (LanesMatchTheirTimings /\ NarrowTilesSuffice)'
  BY <1>2 DEF LoopStart, LanesMatchTheirTimings, NarrowTilesSuffice, NoTile
<1> QED
  BY <1>1, <1>3, <1>4 DEF IInv

\* Refusing or entering a run leaves plan, capture and loops as they are.
LEMMA EntryInv == IInv /\ (RejectRun \/ StartSearch) => IInv'
<1> SUFFICES ASSUME IInv, RejectRun \/ StartSearch PROVE IInv'
  OBVIOUS
<1>1. /\ UNCHANGED <<callerVars, loopVars>>
      /\ pc = "idle"
      /\ pc' = "done" \/ (pc' = "search" /\ NeonRunError = NoError)
  BY DEF RejectRun, StartSearch
<1>2. UNCHANGED <<plan, capture, fi, timing_index, groups, windows, lane>>
  BY <1>1 DEF callerVars, loopVars
<1>3. Prepared' /\ LanesMatchTheirTimings'
  BY <1>2 DEF IInv, Prepared, LanesMatchTheirTimings
<1>4. fi = 1 /\ timing_index = 0 /\ groups = kMaximumTimingGroups /\ windows = NoTile
  BY <1>1 DEF IInv, Position
<1>5. pc' = "search" => /\ RunError(plan, capture) = NoError
                        /\ FrequencyCount(plan) \in Nat \ {0}
                        /\ TimingCount(plan) \in Nat \ {0}
  BY <1>1, SameRefusals, RunningPlan DEF IInv
<1>6. Position'
  BY <1>1, <1>2, <1>4, <1>5 DEF IInv, Position
<1>7. NarrowTilesSuffice'
  BY <1>2, <1>4 DEF NarrowTilesSuffice, kMaximumTimingGroups
<1> QED
  BY <1>3, <1>6, <1>7 DEF IInv

-----------------------------------------------------------------------------

(***************************************************************************)
(* Where the plan's timings count up by one for n timings, the windows of  *)
(* a tile of n are those of its timings.                                   *)
(***************************************************************************)
LEMMA TileHasItsTimings ==
  ASSUME NEW n \in Nat \ {0}, plan.timing_offsets \in Seq(Size), timing_index \in Nat,
         timing_index + n <= TimingCount(plan),
         \A l \in 1 .. n : plan.timing_offsets[timing_index + l]
                             = plan.timing_offsets[timing_index + 1] + l - 1
  PROVE  /\ TileWindows(n) \in Seq(Int) /\ Len(TileWindows(n)) = n /\ TileWindows(n) # NoTile
         /\ \A l \in DOMAIN TileWindows(n) :
              /\ timing_index + l <= TimingCount(plan)
              /\ TileWindows(n)[l] = plan.timing_offsets[timing_index + l]
<1>1. plan.timing_offsets[timing_index + 1] \in Size
  BY DEF TimingCount
<1>2. plan.timing_offsets[timing_index + 1] \in Int
  BY <1>1, SizeAssumption DEF Size
<1>3. TileWindows(n) \in [1 .. n -> Int]
  BY <1>2 DEF TileWindows
<1>4. TileWindows(n) \in Seq(Int) /\ Len(TileWindows(n)) = n
  BY <1>3
<1>5. DOMAIN TileWindows(n) = 1 .. n
  BY DEF TileWindows
<1>6. \A l \in 1 .. n : TileWindows(n)[l] = plan.timing_offsets[timing_index + 1] + l - 1
  BY DEF TileWindows
<1>7. TileWindows(n) # NoTile
  BY <1>4 DEF NoTile
<1>8. TimingCount(plan) \in Nat
  BY DEF TimingCount
<1> QED
  BY <1>4, <1>5, <1>6, <1>7, <1>8

\* A tile that fits has timings that count up, on either kind of plan.
LEMMA FittingTileCountsUp ==
  ASSUME Prepared, RunError(plan, capture) = NoError, timing_index \in Nat,
         timing_index < TimingCount(plan), groups \in Nat \ {0}, TileFits
  PROVE  /\ timing_index + groups * Lanes <= TimingCount(plan)
         /\ \A l \in 1 .. groups * Lanes :
              plan.timing_offsets[timing_index + l]
                = plan.timing_offsets[timing_index + 1] + l - 1
<1> DEFINE n == groups * Lanes
           T == TimingCount(plan)
<1>1. /\ plan.timing_offsets \in Seq(Size) /\ T \in Nat \ {0}
      /\ \A i \in 1 .. T : plan.timing_offsets[i] \in Int
  BY RunningPlan
<1>2. n \in Nat
  BY LanesAssumption
<1>3. T = Len(plan.timing_offsets)
  BY DEF TimingCount
<1>4. CASE plan.timing_offsets_contiguous
  <2>1. ConsecutiveTimings(plan.timing_offsets, 0, T)
    BY <1>4, LayoutIsConsistent
  <2>2. \A i \in 1 .. T : plan.timing_offsets[0 + i] = plan.timing_offsets[0 + 1] + i - 1
    BY <1>1, <2>1, ConsecutiveCountUp
  <2>3. \A i \in 1 .. T : plan.timing_offsets[i] = plan.timing_offsets[1] + i - 1
    BY <1>1, <2>2
  <2>4. T - timing_index >= n
    BY <1>4 DEF TileFits
  <2> HIDE DEF n, T
  <2>5. timing_index + n <= T
    BY <1>1, <1>2, <2>4
  <2>6. \A l \in 1 .. n : timing_index + l \in 1 .. T /\ timing_index + 1 \in 1 .. T
    BY <1>1, <1>2, <2>5
  <2>7. plan.timing_offsets[1] \in Int
    BY <1>1
  <2>8. ASSUME NEW l \in 1 .. n
        PROVE  plan.timing_offsets[timing_index + l]
                 = plan.timing_offsets[timing_index + 1] + l - 1
    <3>1. /\ plan.timing_offsets[timing_index + l] = plan.timing_offsets[1] + (timing_index + l) - 1
          /\ plan.timing_offsets[timing_index + 1] = plan.timing_offsets[1] + (timing_index + 1) - 1
      BY <2>3, <2>6
    <3> QED
      BY <2>7, <3>1
  <2> QED
    BY <2>5, <2>8 DEF n, T
<1>5. CASE ~plan.timing_offsets_contiguous
  <2>1. ConsecutiveTimings(plan.timing_offsets, timing_index, n)
    BY <1>5 DEF TileFits
  <2> HIDE DEF n
  <2>2. /\ timing_index + n <= T
        /\ \A l \in 1 .. n : plan.timing_offsets[timing_index + l]
                             = plan.timing_offsets[timing_index + 1] + l - 1
    BY <1>1, <1>2, <1>3, <2>1, ConsecutiveCountUp
  <2> QED
    BY <2>2 DEF n
<1> QED
  BY <1>4, <1>5

\* With a tile of n timings in hand, whatever tile it is.
LEMMA TileInHandInv ==
  ASSUME IInv, AtTimingIndex, NEW n \in Nat \ {0}, windows' = TileWindows(n),
         UNCHANGED <<callerVars, pc, fi, timing_index, groups, lane>>,
         timing_index + n <= TimingCount(plan),
         \A l \in 1 .. n : plan.timing_offsets[timing_index + l]
                             = plan.timing_offsets[timing_index + 1] + l - 1,
         n = IF groups = 0 THEN 1 ELSE groups * Lanes
  PROVE  IInv'
<1>1. /\ pc = "search" /\ fi <= FrequencyCount(plan) /\ windows = NoTile
      /\ UNCHANGED <<plan, capture, pc, fi, timing_index, groups, lane>>
  BY DEF AtTimingIndex, callerVars
<1>2. /\ Prepared /\ RunError(plan, capture) = NoError
      /\ timing_index \in Nat /\ lane = 0
  BY <1>1 DEF IInv, Position
<1>3. plan.timing_offsets \in Seq(Size)
  BY <1>2, RunningPlan
<1>4. /\ windows' \in Seq(Int) /\ Len(windows') = n /\ windows' # NoTile
      /\ \A l \in DOMAIN windows' :
           /\ timing_index + l <= TimingCount(plan)
           /\ windows'[l] = plan.timing_offsets[timing_index + l]
  BY <1>2, <1>3, TileHasItsTimings
<1>5. Prepared'
  BY <1>1 DEF IInv, Prepared
<1>6. Position'
  BY <1>1, <1>2, <1>4 DEF IInv, Position
<1>7. LanesMatchTheirTimings'
  BY <1>1, <1>4 DEF LanesMatchTheirTimings
<1>8. NarrowTilesSuffice'
  BY <1>1, <1>4 DEF IInv, NarrowTilesSuffice, Remaining
<1> QED
  BY <1>5, <1>6, <1>7, <1>8 DEF IInv

\* A tile gets the windows of its own timings.
LEMMA LoadTileInv == IInv /\ LoadTile => IInv'
<1> SUFFICES ASSUME IInv, LoadTile PROVE IInv'
  OBVIOUS
<1>1. /\ AtTimingIndex /\ groups > 0 /\ TileFits
      /\ windows' = TileWindows(groups * Lanes)
      /\ UNCHANGED <<callerVars, pc, fi, timing_index, groups, lane>>
  BY DEF LoadTile
<1>2. /\ Prepared /\ RunError(plan, capture) = NoError
      /\ timing_index \in Nat /\ timing_index < TimingCount(plan) /\ groups \in Nat \ {0}
  BY <1>1 DEF IInv, Position, AtTimingIndex, kMaximumTimingGroups
<1>3. groups * Lanes \in Nat \ {0}
  BY <1>2, LanesAssumption
<1> QED
  BY <1>1, <1>2, <1>3, FittingTileCountsUp, TileInHandInv

\* So does a single timing of the remainder.
LEMMA LoadSingleTimingInv == IInv /\ LoadSingleTiming => IInv'
<1> SUFFICES ASSUME IInv, LoadSingleTiming PROVE IInv'
  OBVIOUS
<1>1. /\ AtTimingIndex /\ groups = 0 /\ windows' = TileWindows(1)
      /\ UNCHANGED <<callerVars, pc, fi, timing_index, groups, lane>>
  BY DEF LoadSingleTiming
<1>2. /\ Prepared /\ RunError(plan, capture) = NoError
      /\ timing_index \in Nat /\ timing_index < TimingCount(plan)
  BY <1>1 DEF IInv, Position, AtTimingIndex
<1>3. /\ TimingCount(plan) \in Nat
      /\ \A i \in 1 .. TimingCount(plan) : plan.timing_offsets[i] \in Int
  BY <1>2, RunningPlan
<1>4. timing_index + 1 <= TimingCount(plan) /\ timing_index + 1 \in 1 .. TimingCount(plan)
  BY <1>2, <1>3
<1>5. \A l \in 1 .. 1 : plan.timing_offsets[timing_index + l]
                       = plan.timing_offsets[timing_index + 1] + l - 1
  BY <1>3, <1>4
<1> QED
  BY <1>1, <1>4, <1>5, TileInHandInv

(***************************************************************************)
(* A tile size is left only when fewer timings remain than it takes.       *)
(***************************************************************************)
LEMMA TryNarrowerTileInv == IInv /\ TryNarrowerTile => IInv'
<1> SUFFICES ASSUME IInv, TryNarrowerTile PROVE IInv'
  OBVIOUS
<1>1. /\ AtTimingIndex /\ groups > 0 /\ ~TileFits /\ groups' = NarrowerTile(groups)
      /\ UNCHANGED <<plan, capture, pc, fi, timing_index, windows, lane>>
  BY DEF TryNarrowerTile, callerVars
<1>2. pc = "search" /\ windows = NoTile /\ RunError(plan, capture) = NoError
  BY <1>1 DEF IInv, Position, AtTimingIndex
<1>3. Prepared' /\ LanesMatchTheirTimings'
  BY <1>1 DEF IInv, Prepared, LanesMatchTheirTimings
<1>4. groups \in {1, 2, 4, 8}
  BY <1>1 DEF IInv, Position, kMaximumTimingGroups
<1>5. groups' = IF groups = 1 THEN 0 ELSE IF groups = 2 THEN 1 ELSE IF groups = 4 THEN 2 ELSE 4
  BY <1>1, <1>4 DEF NarrowerTile
<1>6. Position'
  BY <1>1, <1>2, <1>4, <1>5 DEF IInv, Position
<1>7. NarrowTilesSuffice'
  <2>1. TimingCount(plan) \in Nat /\ timing_index \in Nat /\ Lanes \in Nat
    BY <1>2, RunningPlan, LanesAssumption DEF IInv, Position
  <2>2. plan.timing_offsets_contiguous => Remaining < groups * Lanes
    BY <1>1, <1>4, <2>1 DEF TileFits, Remaining
  <2>3. Remaining' = Remaining
    BY <1>1 DEF Remaining
  <2>4. ASSUME plan.timing_offsets_contiguous
        PROVE  /\ groups' = 4 => Remaining < 8 * Lanes
               /\ groups' = 2 => Remaining < 4 * Lanes
               /\ groups' = 1 => Remaining < 2 * Lanes
               /\ groups' = 0 => Remaining < Lanes
    BY <1>4, <1>5, <2>1, <2>2, <2>4
  <2> QED
    BY <1>1, <1>2, <2>3, <2>4 DEF NarrowTilesSuffice
<1> QED
  BY <1>3, <1>6, <1>7 DEF IInv

(***************************************************************************)
(* Handing a lane on, and after the last one consuming the tile.           *)
(***************************************************************************)
LEMMA ConsiderLaneInv == IInv /\ ConsiderLane => IInv'
<1> SUFFICES ASSUME IInv, ConsiderLane PROVE IInv'
  OBVIOUS
<1>1. /\ pc = "search" /\ windows # NoTile
      /\ UNCHANGED <<plan, capture, pc, fi>>
  BY DEF ConsiderLane, callerVars
<1>2. /\ Prepared /\ RunError(plan, capture) = NoError
      /\ timing_index \in Nat /\ lane \in Nat /\ lane < Len(windows)
      /\ windows \in Seq(Int) /\ Len(windows) \in Nat \ {0}
      /\ fi <= FrequencyCount(plan) /\ fi \in Nat \ {0}
  BY <1>1 DEF IInv, Position
<1>3. Prepared'
  BY <1>1 DEF IInv, Prepared
<1>4. FrequencyCount(plan) \in Nat \ {0} /\ TimingCount(plan) \in Nat \ {0} /\ Lanes \in Nat
  BY <1>2, RunningPlan, LanesAssumption
<1>5. timing_index + Len(windows) <= TimingCount(plan)
  BY <1>2 DEF IInv, LanesMatchTheirTimings
<1>6. CASE lane + 1 < Len(windows)
  <2>1. lane' = lane + 1 /\ UNCHANGED <<timing_index, groups, windows>>
    BY <1>6 DEF ConsiderLane
  <2>2. Position'
    BY <1>1, <1>2, <1>6, <2>1 DEF IInv, Position
  <2>3. LanesMatchTheirTimings' /\ NarrowTilesSuffice'
    BY <1>1, <2>1 DEF IInv, LanesMatchTheirTimings, NarrowTilesSuffice, Remaining
  <2> QED
    BY <1>3, <2>2, <2>3 DEF IInv
<1>7. CASE ~(lane + 1 < Len(windows))
  <2>1. /\ lane' = 0 /\ timing_index' = timing_index + Len(windows)
        /\ groups' = GroupsAfterTile /\ windows' = NoTile
    BY <1>7 DEF ConsiderLane
  <2>2. groups \in {0, 1, 2, 4, 8}
    BY DEF IInv, Position, kMaximumTimingGroups
  <2>3. /\ groups' \in {0, 1, 2, 4, 8}
        /\ plan.timing_offsets_contiguous =>
             groups' = IF groups \in {0, 8} THEN groups
                       ELSE IF groups = 4 THEN 2 ELSE IF groups = 2 THEN 1 ELSE 0
    BY <2>1, <2>2 DEF GroupsAfterTile, NarrowerTile, kMaximumTimingGroups
  <2>4. Position'
    BY <1>1, <1>2, <1>4, <1>5, <2>1, <2>3 DEF IInv, Position, NoTile, kMaximumTimingGroups
  <2>5. LanesMatchTheirTimings'
    BY <2>1 DEF LanesMatchTheirTimings, NoTile
  <2>6. NarrowTilesSuffice'
    <3>1. ASSUME plan.timing_offsets_contiguous
          PROVE  /\ groups = 4 => Remaining < 8 * Lanes
                 /\ groups = 2 => Remaining < 4 * Lanes
                 /\ groups = 1 => Remaining < 2 * Lanes
                 /\ groups = 0 => Remaining < Lanes
                 /\ Len(windows) = IF groups = 0 THEN 1 ELSE groups * Lanes
      BY <1>1, <3>1 DEF IInv, NarrowTilesSuffice
    <3>2. Remaining' = Remaining - Len(windows) /\ Remaining \in Int
      BY <1>1, <1>2, <1>4, <2>1 DEF Remaining, TimingCount
    <3> HIDE DEF Remaining
    <3>3. ASSUME plan.timing_offsets_contiguous
          PROVE  /\ groups' = 4 => Remaining' < 8 * Lanes
                 /\ groups' = 2 => Remaining' < 4 * Lanes
                 /\ groups' = 1 => Remaining' < 2 * Lanes
                 /\ groups' = 0 => Remaining' < Lanes
      BY <1>2, <1>4, <2>2, <2>3, <3>1, <3>2, <3>3
    <3> QED
      BY <1>1, <2>1, <3>3 DEF NarrowTilesSuffice
  <2> QED
    BY <1>3, <2>4, <2>5, <2>6 DEF IInv
<1> QED
  BY <1>6, <1>7

\* The loops go on to the next frequency or end.
LEMMA LoopEndInv == IInv /\ (NextFrequency \/ Finish) => IInv'
<1> SUFFICES ASSUME IInv, NextFrequency \/ Finish PROVE IInv'
  OBVIOUS
<1>1. pc = "search" /\ RunError(plan, capture) = NoError /\ UNCHANGED <<plan, capture, lane>>
  BY DEF NextFrequency, Finish, IInv, Position, callerVars, loopVars
<1>2. Prepared'
  BY <1>1 DEF IInv, Prepared
<1>3. FrequencyCount(plan) \in Nat \ {0} /\ TimingCount(plan) \in Nat \ {0}
  BY <1>1, RunningPlan DEF IInv
<1>4. windows = NoTile /\ windows' = NoTile
  BY <1>3 DEF NextFrequency, Finish, loopVars, IInv, Position
<1>5. LanesMatchTheirTimings'
  BY <1>4 DEF LanesMatchTheirTimings, NoTile
<1>6. Position'
  BY <1>1, <1>3, <1>4 DEF NextFrequency, Finish, loopVars, IInv, Position
<1>7. NarrowTilesSuffice'
  BY <1>1, <1>4 DEF NextFrequency, Finish, NarrowTilesSuffice, kMaximumTimingGroups
<1> QED
  BY <1>2, <1>5, <1>6, <1>7 DEF IInv

\* The invariant is about the variables of the specification only.
LEMMA StutterInv == IInv /\ UNCHANGED vars => IInv'
BY DEF vars, callerVars, IInv, Prepared, Position, LanesMatchTheirTimings, NarrowTilesSuffice,
       Remaining

(***************************************************************************)
(* The inductive invariant holds in every reachable state.                 *)
(***************************************************************************)
THEOREM Invariance == Spec => []IInv
<1>1. IInv /\ [Next]_vars => IInv'
  BY CallerInv, EntryInv, LoadTileInv, TryNarrowerTileInv, LoadSingleTimingInv,
     ConsiderLaneInv, LoopEndInv, StutterInv DEF Next, Search
<1> QED
  BY InitInv, <1>1, PTL DEF Spec

(***************************************************************************)
(* Every lane of every tile correlates the window of the timing that       *)
(* labels its candidate, for vectors of any width and grids of any shape.  *)
(***************************************************************************)
THEOREM LanesCorrect == Spec => []LanesMatchTheirTimings
<1>1. IInv => LanesMatchTheirTimings
  BY DEF IInv
<1> QED
  BY Invariance, <1>1, PTL

(***************************************************************************)
(* No tile of any width reads past the end of a capture: the vector loads  *)
(* need no more than the timing checks of the run.                         *)
(***************************************************************************)
THEOREM ReadsCorrect == Spec => []TileReadsInsideCapture
<1>1. IInv => TileReadsInsideCapture
  <2> SUFFICES ASSUME IInv, NEW l \in DOMAIN windows
               PROVE  windows[l] + plan.preamble_length <= Recording[capture].length
    BY DEF TileReadsInsideCapture
  <2>1. windows # NoTile /\ windows \in Seq(Int) /\ timing_index \in Nat
    BY DEF IInv, Position, NoTile
  <2>2. /\ plan \in Plan /\ capture \in Captures /\ RunError(plan, capture) = NoError
        /\ timing_index + l <= TimingCount(plan)
        /\ windows[l] = plan.timing_offsets[timing_index + l]
    BY <2>1 DEF IInv, Position, Prepared, LanesMatchTheirTimings
  <2>3. timing_index + l \in DOMAIN plan.timing_offsets
    BY <2>1, <2>2 DEF TimingCount, Plan
  <2> QED
    BY <2>2, <2>3, RunnablePlan
<1> QED
  BY Invariance, <1>1, PTL

(***************************************************************************)
(* Although a contiguous plan tries each narrow tile once, fewer timings   *)
(* than one vector holds are left to the scalar loop.                      *)
(***************************************************************************)
THEOREM RemainderCorrect == Spec => []ScalarRemainderIsShort
<1>1. IInv => ScalarRemainderIsShort
  BY DEF IInv, NarrowTilesSuffice, Remaining, ScalarRemainderIsShort
<1> QED
  BY Invariance, <1>1, PTL

(***************************************************************************)
(* All three together: every tile of every search is in place.             *)
(***************************************************************************)
THEOREM TilesCorrect == Spec => []TilesAreInPlace
BY LanesCorrect, ReadsCorrect, RemainderCorrect, PTL DEF TilesAreInPlace

(***************************************************************************)
(* A tuple is lowered by lowering a component and keeping those before it. *)
(***************************************************************************)
LEMMA LowersFour ==
  ASSUME NEW a1 \in Int, NEW a2 \in Int, NEW a3 \in Int, NEW a4 \in Int,
         NEW b1 \in Int, NEW b2 \in Int, NEW b3 \in Int, NEW b4 \in Int,
         \/ a1 < b1
         \/ a1 = b1 /\ a2 < b2
         \/ a1 = b1 /\ a2 = b2 /\ a3 < b3
         \/ a1 = b1 /\ a2 = b2 /\ a3 = b3 /\ a4 < b4
  PROVE  Lowers(<<a1, a2, a3, a4>>, <<b1, b2, b3, b4>>)
<1> DEFINE a == <<a1, a2, a3, a4>>
           b == <<b1, b2, b3, b4>>
<1>1. /\ DOMAIN a = 1 .. 4
      /\ a[1] = a1 /\ a[2] = a2 /\ a[3] = a3 /\ a[4] = a4
      /\ b[1] = b1 /\ b[2] = b2 /\ b[3] = b3 /\ b[4] = b4
  OBVIOUS
<1> HIDE DEF a, b
<1>2. \E i \in 1 .. 4 : a[i] < b[i] /\ \A j \in 1 .. i - 1 : a[j] = b[j]
  <2>1. CASE a[1] < b[1]
    BY <2>1
  <2>2. CASE a[1] = b[1] /\ a[2] < b[2]
    <3>1. \A j \in 1 .. 2 - 1 : j = 1
      OBVIOUS
    <3> QED
      BY <2>2, <3>1
  <2>3. CASE a[1] = b[1] /\ a[2] = b[2] /\ a[3] < b[3]
    <3>1. \A j \in 1 .. 3 - 1 : j = 1 \/ j = 2
      OBVIOUS
    <3> QED
      BY <2>3, <3>1
  <2>4. CASE a[1] = b[1] /\ a[2] = b[2] /\ a[3] = b[3] /\ a[4] < b[4]
    <3>1. \A j \in 1 .. 4 - 1 : j = 1 \/ j = 2 \/ j = 3
      OBVIOUS
    <3> QED
      BY <2>4, <3>1
  <2> QED
    BY <1>1, <2>1, <2>2, <2>3, <2>4
<1> QED
  BY <1>1, <1>2 DEF Lowers, a, b

\* What is left of a search is never below zero.
LeftNatural ==
  /\ FrequencyCount(plan) + 1 - fi \in Nat
  /\ TimingCount(plan) - timing_index - lane \in Nat
  /\ groups \in Nat

LEMMA LeftIsNatural == IInv /\ pc = "search" => LeftNatural
<1> SUFFICES ASSUME IInv, pc = "search" PROVE LeftNatural
  OBVIOUS
<1>1. /\ FrequencyCount(plan) \in Nat /\ TimingCount(plan) \in Nat
      /\ fi \in Nat /\ timing_index \in Nat /\ lane \in Nat /\ groups \in Nat
      /\ fi <= FrequencyCount(plan) + 1 /\ timing_index <= TimingCount(plan)
  BY RunningPlan DEF IInv, Position, kMaximumTimingGroups
<1>2. CASE windows = NoTile
  BY <1>1, <1>2 DEF IInv, Position, LeftNatural
<1>3. CASE windows # NoTile
  <2>1. Len(windows) \in Nat \ {0} /\ lane < Len(windows)
    BY <1>3 DEF IInv, Position
  <2>2. timing_index + Len(windows) <= TimingCount(plan)
    BY <2>1 DEF IInv, Position, LanesMatchTheirTimings
  <2> QED
    BY <1>1, <2>1, <2>2 DEF LeftNatural
<1> QED
  BY <1>2, <1>3

\* Each step of the tiling changes the tuple at the place that it works on.
LEMMA StepLowers ==
  ASSUME IInv, IInv', pc = "search",
         \/ LoadTile \/ LoadSingleTiming \/ TryNarrowerTile
         \/ ConsiderLane \/ NextFrequency
  PROVE  pc' = "search" /\ Lowers(LeftToSearch', LeftToSearch)
<1> DEFINE f == FrequencyCount(plan) + 1 - fi
           t == TimingCount(plan) - timing_index - lane
           w == IF windows = NoTile THEN 1 ELSE 0
<1>1. pc' = "search" /\ UNCHANGED plan
  BY DEF LoadTile, LoadSingleTiming, TryNarrowerTile, ConsiderLane, NextFrequency, callerVars
<1>2. f \in Int /\ t \in Int /\ groups \in Int /\ w \in Int
  BY LeftIsNatural DEF LeftNatural
<1>3. f' \in Int /\ t' \in Int /\ groups' \in Int /\ w' \in Int
  <2>1. (IInv /\ pc = "search" => LeftNatural)'
    BY LeftIsNatural, PTL
  <2>2. LeftNatural'
    BY <1>1, <2>1
  <2> QED
    BY <2>2 DEF LeftNatural
<1>4. LeftToSearch = <<f, t, groups, w>> /\ LeftToSearch' = <<f', t', groups', w'>>
  BY DEF LeftToSearch
<1>5. /\ FrequencyCount(plan)' = FrequencyCount(plan) /\ TimingCount(plan)' = TimingCount(plan)
      /\ FrequencyCount(plan) \in Nat /\ TimingCount(plan) \in Nat
      /\ fi \in Nat /\ timing_index \in Nat /\ lane \in Nat
  BY <1>1, RunningPlan DEF IInv, Position
<1>6. \/ f' < f
      \/ f' = f /\ t' < t
      \/ f' = f /\ t' = t /\ groups' < groups
      \/ f' = f /\ t' = t /\ groups' = groups /\ w' < w
  <2>1. CASE LoadTile \/ LoadSingleTiming
    <3>1. UNCHANGED <<fi, timing_index, lane, groups>> /\ windows = NoTile
      BY <2>1 DEF LoadTile, LoadSingleTiming, AtTimingIndex
    <3>2. windows' # NoTile
      <4>1. PICK n \in Nat \ {0} : windows' = [l \in 1 .. n |->
                                            plan.timing_offsets[timing_index + 1] + l - 1]
        <5>1. CASE LoadTile
          <6>1. groups * Lanes \in Nat \ {0}
            BY <5>1, LanesAssumption DEF LoadTile, IInv, Position, kMaximumTimingGroups
          <6> QED
            BY <5>1, <6>1 DEF LoadTile, TileWindows
        <5>2. CASE LoadSingleTiming
          BY <5>2 DEF LoadSingleTiming, TileWindows
        <5> QED
          BY <2>1, <5>1, <5>2
      <4>2. 1 \in DOMAIN windows'
        BY <4>1
      <4> QED
        BY <4>2 DEF NoTile
    <3>3. w = 1 /\ w' = 0
      BY <3>1, <3>2 DEF NoTile
    <3> QED
      BY <1>5, <3>1, <3>3
  <2>2. CASE TryNarrowerTile
    <3>1. UNCHANGED <<fi, timing_index, lane>> /\ groups > 0 /\ groups' = NarrowerTile(groups)
      BY <2>2 DEF TryNarrowerTile
    <3>2. groups \in {1, 2, 4, 8}
      BY <3>1 DEF IInv, Position, kMaximumTimingGroups
    <3>3. groups' < groups
      BY <3>1, <3>2 DEF NarrowerTile
    <3> QED
      BY <1>5, <3>1, <3>3
  <2>3. CASE ConsiderLane
    <3>1. /\ fi' = fi /\ windows # NoTile
          /\ \/ lane' = lane + 1 /\ timing_index' = timing_index
             \/ /\ ~(lane + 1 < Len(windows)) /\ lane' = 0
                /\ timing_index' = timing_index + Len(windows)
      BY <2>3 DEF ConsiderLane
    <3>2. Len(windows) \in Nat /\ lane < Len(windows)
      BY <3>1 DEF IInv, Position
    <3>3. f' = f
      BY <1>5, <3>1
    <3>4. t' < t
      BY <1>5, <3>1, <3>2
    <3> QED
      BY <3>3, <3>4
  <2>4. CASE NextFrequency
    <3>1. fi' = fi + 1
      BY <2>4 DEF NextFrequency
    <3> QED
      BY <1>5, <3>1
  <2> QED
    BY <2>1, <2>2, <2>3, <2>4
<1> HIDE DEF f, t, w
<1>7. Lowers(<<f', t', groups', w'>>, <<f, t, groups, w>>)
  BY <1>2, <1>3, <1>6, LowersFour
<1> QED
  BY <1>1, <1>4, <1>7

(***************************************************************************)
(* The tiling of a frequency and the loop over the frequencies descend in  *)
(* a well-founded order, for vectors of any width and every plan.          *)
(***************************************************************************)
THEOREM TilingAdvancesCorrect == Spec => TilingAdvances
<1> DEFINE Advances ==
             /\ LeftToSearch \in Nat \X Nat \X Nat \X Nat
             /\ \/ pc' = "search" /\ Lowers(LeftToSearch', LeftToSearch)
                \/ pc' = "done" /\ LeftToSearch[1] = 0
<1>1. IInv /\ IInv' /\ [Next]_vars => [pc = "search" => Advances]_vars
  <2> SUFFICES ASSUME IInv, IInv', Next, pc = "search"
               PROVE  Advances
    BY Zenon
  <2>1. LeftToSearch \in Nat \X Nat \X Nat \X Nat
    BY LeftIsNatural DEF LeftNatural, LeftToSearch
  <2>2. Search
    BY DEF Next, PreparePlan, LoadCapture, RejectRun, StartSearch
  <2>3. CASE \/ LoadTile \/ LoadSingleTiming \/ TryNarrowerTile
             \/ ConsiderLane \/ NextFrequency
    BY <2>1, <2>3, StepLowers
  <2>4. CASE Finish
    <3>1. pc' = "done" /\ fi = FrequencyCount(plan) + 1 /\ FrequencyCount(plan) \in Nat
      BY <2>4, RunningPlan DEF Finish, IInv, Position
    <3>2. LeftToSearch[1] = FrequencyCount(plan) + 1 - fi
      BY DEF LeftToSearch
    <3>3. LeftToSearch[1] = 0
      BY <3>1, <3>2
    <3> QED
      BY <2>1, <3>1, <3>3
  <2> QED
    BY <2>2, <2>3, <2>4 DEF Search
<1> QED
  BY Invariance, <1>1, PTL DEF Spec, TilingAdvances

-----------------------------------------------------------------------------

\* Outside the loops, and with a tile in hand, the indices are NEON's own.
LEMMA NotAtEnd ==
  ASSUME IInv, pc # "search" \/ windows # NoTile
  PROVE  ~AtEndOfTimings
<1>1. CASE pc # "search"
  BY <1>1 DEF AtEndOfTimings
<1>2. CASE pc = "search" /\ windows # NoTile
  <2>1. windows \in Seq(Int) /\ timing_index \in Nat /\ Len(windows) \in Nat \ {0}
    BY <1>2 DEF IInv, Position, NoTile
  <2>2. timing_index + 1 <= TimingCount(plan)
    BY <2>1 DEF IInv, LanesMatchTheirTimings
  <2>3. TimingCount(plan) \in Nat
    BY <1>2, RunningPlan DEF IInv, Position
  <2> QED
    BY <2>1, <2>2, <2>3 DEF AtEndOfTimings
<1> QED
  BY <1>1, <1>2

\* Both searches share the operators of AcquisitionPlan and AcquisitionCandidates.
LEMMA SameResults ==
  /\ Reference!NoError = NoError /\ Reference!EmptyPlan = EmptyPlan
  /\ Reference!NoResult = NoResult
  /\ \A config : Reference!PreparedPlan(config) = PreparedPlan(config)
<1>1. Reference!NoError = NoError
  BY DEF NoError, Reference!NoError
<1>2. Reference!EmptyPlan = EmptyPlan
  BY DEF EmptyPlan, Reference!EmptyPlan
<1>3. Reference!NoResult = NoResult
  BY <1>1 DEF NoResult, Reference!NoResult, NoCandidate, Reference!NoCandidate
<1>4. ASSUME NEW config PROVE Reference!PreparedPlan(config) = PreparedPlan(config)
  <2>1. Reference!PlanError(config) = PlanError(config)
    BY <1>1 DEF PlanError, Reference!PlanError, HasDuplicates, Reference!HasDuplicates
  <2>2. Reference!TimingOffsetsAreContiguous(config.timing_offsets)
          = TimingOffsetsAreContiguous(config.timing_offsets)
    BY DEF TimingOffsetsAreContiguous, Reference!TimingOffsetsAreContiguous,
           SizeAdd, Reference!SizeAdd
  <2> QED
    BY <1>1, <1>2, <2>1, <2>2 DEF PreparedPlan, Reference!PreparedPlan
<1> QED
  BY <1>1, <1>2, <1>3, <1>4

\* Both searches make the same checks,
LEMMA SameChecks ==
  ASSUME NEW p, NEW c
  PROVE  /\ Reference!FrequencyCount(p) = FrequencyCount(p)
         /\ Reference!TimingCount(p) = TimingCount(p)
         /\ Reference!RunError(p, c) = RunError(p, c)
<1>1. /\ Reference!FrequencyCount(p) = FrequencyCount(p)
      /\ Reference!TimingCount(p) = TimingCount(p)
  BY DEF FrequencyCount, Reference!FrequencyCount, TimingCount, Reference!TimingCount
<1>2. Reference!PlanIncomplete(p) = PlanIncomplete(p)
  BY DEF PlanIncomplete, Reference!PlanIncomplete
<1>3. Reference!WeightTableInvalid(p) = WeightTableInvalid(p)
  BY <1>1 DEF WeightTableInvalid, Reference!WeightTableInvalid
<1>4. Reference!TimingBeyondWindow(p, c) = TimingBeyondWindow(p, c)
  BY DEF TimingBeyondWindow, Reference!TimingBeyondWindow
<1> QED
  BY <1>1, <1>2, <1>3, <1>4 DEF RunError, Reference!RunError, NoError, Reference!NoError

\* form the same candidates,
LEMMA SameCandidates ==
  ASSUME NEW r, NEW p, NEW c, NEW f, NEW i, NEW start
  PROVE  Reference!CountCandidate(r, Reference!CandidateFrom(p, c, f, i, start))
           = CountCandidate(r, CandidateFrom(p, c, f, i, start))
<1>1. Reference!CandidateFrom(p, c, f, i, start) = CandidateFrom(p, c, f, i, start)
  BY DEF CandidateFrom, Reference!CandidateFrom
<1>2. \A new : Reference!ConsiderCandidate(r, new) = ConsiderCandidate(r, new)
  BY DEF ConsiderCandidate, Reference!ConsiderCandidate, Greater, Reference!Greater
<1> QED
  BY <1>1, <1>2 DEF CountCandidate, Reference!CountCandidate

\* and finish alike.
LEMMA SameFinish ==
  ASSUME NEW r
  PROVE  Reference!FinishedResult(r) = FinishedResult(r)
<1>1. Reference!PeakSeparation(r.best, r.second_best) = PeakSeparation(r.best, r.second_best)
  BY DEF PeakSeparation, Reference!PeakSeparation, Greater, Reference!Greater
<1> QED
  BY <1>1 DEF FinishedResult, Reference!FinishedResult

-----------------------------------------------------------------------------

\* The reference starts where NEON does.
LEMMA InitSimulation == Init => Reference!Init
<1> SUFFICES ASSUME Init PROVE Reference!Init
  OBVIOUS
<1>1. ~AtEndOfTimings
  BY DEF Init, AtEndOfTimings
<1>2. /\ plan = EmptyPlan /\ capture \in Captures /\ pc = "idle" /\ result = NoResult
      /\ fi = 1 /\ timing_index = 0 /\ lane = 0
  BY DEF Init
<1>3. timing_index + lane + 1 = 1
  BY <1>2
<1> QED
  BY <1>1, <1>2, <1>3, SameResults DEF Reference!Init

\* A caller's step is the same step: the loops start over.
LEMMA PreparePlanSimulation ==
  ASSUME NEW config \in Configs, PreparePlan(config)
  PROVE  Reference!PreparePlan(config)
<1>1. /\ pc # "search" /\ UNCHANGED capture /\ plan' = PreparedPlan(config)
      /\ pc' = "idle" /\ result' = NoResult
      /\ fi' = 1 /\ timing_index' = 0 /\ lane' = 0
  BY DEF PreparePlan, LoopStart
<1>2. ~AtEndOfTimings'
  BY <1>1 DEF AtEndOfTimings
<1>3. timing_index' + lane' + 1 = 1
  BY <1>1
<1> QED
  BY <1>1, <1>2, <1>3, SameResults DEF Reference!PreparePlan

\* The caller's capture is the reference's.
LEMMA LoadCaptureSimulation ==
  ASSUME NEW c \in Captures, LoadCapture(c)
  PROVE  Reference!LoadCapture(c)
<1>1. /\ pc # "search" /\ UNCHANGED plan /\ capture' = c
      /\ pc' = "idle" /\ result' = NoResult
      /\ fi' = 1 /\ timing_index' = 0 /\ lane' = 0
  BY DEF LoadCapture, LoopStart
<1>2. ~AtEndOfTimings'
  BY <1>1 DEF AtEndOfTimings
<1>3. timing_index' + lane' + 1 = 1
  BY <1>1
<1> QED
  BY <1>1, <1>2, <1>3, SameResults DEF Reference!LoadCapture

\* NEON refuses a run with the reference's error, and starts where it would.
LEMMA RejectRunSimulation == IInv /\ RejectRun => Reference!RejectRun
<1> SUFFICES ASSUME IInv, RejectRun PROVE Reference!RejectRun
  OBVIOUS
<1>1. /\ pc = "idle" /\ pc' = "done" /\ NeonRunError # NoError
      /\ result' = [NoResult EXCEPT !.error = NeonRunError]
      /\ UNCHANGED <<plan, capture, fi, timing_index, lane>>
  BY DEF RejectRun, callerVars, loopVars
<1>2. NeonRunError = RunError(plan, capture)
  BY SameRefusals DEF IInv
<1>3. Reference!RunError(plan, capture) = RunError(plan, capture)
  BY SameChecks
<1>4. ~AtEndOfTimings /\ ~AtEndOfTimings'
  BY <1>1 DEF AtEndOfTimings
<1> QED
  BY <1>1, <1>2, <1>3, <1>4, SameResults DEF Reference!RejectRun

\* The first step of a run is the reference's.
LEMMA StartSearchSimulation == IInv /\ StartSearch => Reference!StartSearch
<1> SUFFICES ASSUME IInv, StartSearch PROVE Reference!StartSearch
  OBVIOUS
<1>1. /\ pc = "idle" /\ pc' = "search" /\ NeonRunError = NoError
      /\ UNCHANGED <<plan, capture, fi, timing_index, lane, result>>
  BY DEF StartSearch, callerVars, loopVars
<1>2. RunError(plan, capture) = NoError
  BY <1>1, SameRefusals DEF IInv
<1>3. Reference!RunError(plan, capture) = RunError(plan, capture)
  BY SameChecks
<1>4. ~AtEndOfTimings
  BY <1>1 DEF AtEndOfTimings
<1>5. ~AtEndOfTimings'
  <2>1. timing_index = 0 /\ TimingCount(plan) \in Nat \ {0}
    BY <1>1, <1>2, RunningPlan DEF IInv, Position
  <2>2. TimingCount(plan)' = TimingCount(plan)
    BY <1>1
  <2> QED
    BY <1>1, <2>1, <2>2 DEF AtEndOfTimings
<1> QED
  BY <1>1, <1>2, <1>3, <1>4, <1>5, SameResults DEF Reference!StartSearch

(***************************************************************************)
(* Loading a tile and choosing its size do not show in the reference.      *)
(***************************************************************************)
LEMMA TilingStutters ==
  LoadTile \/ LoadSingleTiming \/ TryNarrowerTile => UNCHANGED Reference!vars
<1> SUFFICES ASSUME LoadTile \/ LoadSingleTiming \/ TryNarrowerTile
             PROVE  UNCHANGED Reference!vars
  OBVIOUS
<1>1. UNCHANGED <<plan, capture, pc, fi, timing_index, lane, result>>
  BY DEF LoadTile, LoadSingleTiming, TryNarrowerTile, callerVars
<1>2. AtEndOfTimings' = AtEndOfTimings
  BY <1>1 DEF AtEndOfTimings
<1>3. (IF AtEndOfTimings THEN fi + 1 ELSE fi)' = (IF AtEndOfTimings THEN fi + 1 ELSE fi)
  BY <1>1, <1>2
<1>4. (IF AtEndOfTimings THEN 1 ELSE timing_index + lane + 1)'
        = (IF AtEndOfTimings THEN 1 ELSE timing_index + lane + 1)
  BY <1>1, <1>2
<1> QED
  BY <1>1, <1>3, <1>4 DEF Reference!vars

(***************************************************************************)
(* A lane handed on is one pass of the reference's loop body, with the     *)
(* same candidate; the last timing of a frequency moves both indices.      *)
(***************************************************************************)
LEMMA ConsiderLaneSimulation == IInv /\ ConsiderLane => Reference!Evaluate
<1> SUFFICES ASSUME IInv, ConsiderLane PROVE Reference!Evaluate
  OBVIOUS
<1> DEFINE T == TimingCount(plan)
           ti == timing_index + lane + 1
<1>1. /\ pc = "search" /\ windows # NoTile
      /\ UNCHANGED <<plan, capture, pc, fi>>
      /\ result' = CountCandidate(result,
                     CandidateFrom(plan, capture, fi, ti, windows[lane + 1]))
  BY DEF ConsiderLane, callerVars
<1>2. /\ timing_index \in Nat /\ lane \in Nat /\ lane < Len(windows)
      /\ windows \in Seq(Int) /\ Len(windows) \in Nat \ {0}
      /\ fi <= FrequencyCount(plan) /\ fi \in Nat
      /\ FrequencyCount(plan) \in Nat /\ T \in Nat
  BY <1>1, RunningPlan DEF IInv, Position
<1>3. lane + 1 \in DOMAIN windows /\ Len(windows) \in DOMAIN windows
  BY <1>2
<1>4. timing_index + (lane + 1) = ti
  BY <1>2
<1>5. windows[lane + 1] = plan.timing_offsets[ti] /\ timing_index + Len(windows) <= T
  BY <1>3, <1>4 DEF IInv, LanesMatchTheirTimings
<1>6. result' = Reference!CountCandidate(result,
                 Reference!CandidateFrom(plan, capture, fi, ti, plan.timing_offsets[ti]))
  BY <1>1, <1>5, SameCandidates
<1>7. ~AtEndOfTimings
  BY <1>1, NotAtEnd
<1>8. /\ Reference!FrequencyCount(plan) = FrequencyCount(plan)
      /\ Reference!TimingCount(plan) = T
  BY SameChecks
<1>9. T' = T /\ FrequencyCount(plan)' = FrequencyCount(plan)
  BY <1>1
<1> HIDE DEF T
<1>10. IF ti < T
         THEN ~AtEndOfTimings' /\ fi' = fi /\ timing_index' + lane' + 1 = ti + 1
         ELSE AtEndOfTimings' /\ fi' = fi
  <2>1. CASE lane + 1 < Len(windows)
    <3>1. lane' = lane + 1 /\ timing_index' = timing_index
      BY <2>1 DEF ConsiderLane
    <3>2. ti < T /\ timing_index # T
      BY <1>2, <1>5, <2>1
    <3>3. ~AtEndOfTimings'
      BY <1>9, <3>1, <3>2 DEF AtEndOfTimings, T
    <3> QED
      BY <1>1, <1>2, <3>1, <3>2, <3>3
  <2>2. CASE ~(lane + 1 < Len(windows))
    <3>1. lane' = 0 /\ timing_index' = timing_index + Len(windows)
      BY <2>2 DEF ConsiderLane
    <3>2. timing_index' = ti /\ ti <= T
      BY <1>2, <1>5, <2>2, <3>1
    <3>3. AtEndOfTimings' <=> ti = T
      BY <1>1, <1>2, <1>9, <3>2 DEF AtEndOfTimings, T
    <3> QED
      BY <1>1, <1>2, <3>1, <3>2, <3>3
  <2> QED
    BY <2>1, <2>2
<1> QED
  BY <1>1, <1>2, <1>6, <1>7, <1>8, <1>10 DEF Reference!Evaluate

\* Going on to the next frequency has already happened in the reference.
LEMMA NextFrequencyStutters == IInv /\ NextFrequency => UNCHANGED Reference!vars
<1> SUFFICES ASSUME IInv, NextFrequency PROVE UNCHANGED Reference!vars
  OBVIOUS
<1>1. /\ pc = "search" /\ fi <= FrequencyCount(plan) /\ timing_index = TimingCount(plan)
      /\ windows = NoTile
      /\ UNCHANGED <<plan, capture, pc, lane, result>>
      /\ fi' = fi + 1 /\ timing_index' = 0
  BY DEF NextFrequency, callerVars
<1>2. lane = 0 /\ TimingCount(plan) \in Nat \ {0}
  BY <1>1, RunningPlan DEF IInv, Position
<1>3. AtEndOfTimings
  BY <1>1 DEF AtEndOfTimings
<1>4. TimingCount(plan)' = TimingCount(plan)
  BY <1>1
<1>5. ~AtEndOfTimings'
  BY <1>1, <1>2, <1>4 DEF AtEndOfTimings
<1>6. timing_index' + lane' + 1 = 1
  BY <1>1, <1>2
<1> QED
  BY <1>1, <1>3, <1>5, <1>6 DEF Reference!vars

\* Both leave their loops together.
LEMMA FinishSimulation == IInv /\ Finish => Reference!Finish
<1> SUFFICES ASSUME IInv, Finish PROVE Reference!Finish
  OBVIOUS
<1>1. /\ pc = "search" /\ pc' = "done" /\ fi = FrequencyCount(plan) + 1
      /\ result' = FinishedResult(result)
      /\ UNCHANGED <<plan, capture, fi, timing_index, lane>>
  BY DEF Finish, callerVars, loopVars
<1>2. FrequencyCount(plan) \in Nat
  BY <1>1, RunningPlan DEF IInv, Position
<1>3. ~AtEndOfTimings /\ ~AtEndOfTimings'
  BY <1>1, <1>2 DEF AtEndOfTimings
<1>4. Reference!FrequencyCount(plan) = FrequencyCount(plan)
  BY SameChecks
<1>5. Reference!FinishedResult(result) = FinishedResult(result)
  BY SameFinish
<1> QED
  BY <1>1, <1>3, <1>4, <1>5 DEF Reference!Finish

\* A state that does not change is one that stutters.
LEMMA UnchangedStutters == UNCHANGED vars => UNCHANGED Reference!vars
<1> SUFFICES ASSUME UNCHANGED vars PROVE UNCHANGED Reference!vars
  OBVIOUS
<1>1. UNCHANGED <<plan, capture, pc, fi, timing_index, lane, result>>
  BY DEF vars
<1>2. AtEndOfTimings' = AtEndOfTimings
  BY <1>1 DEF AtEndOfTimings
<1>3. (IF AtEndOfTimings THEN fi + 1 ELSE fi)' = (IF AtEndOfTimings THEN fi + 1 ELSE fi)
  BY <1>1, <1>2
<1>4. (IF AtEndOfTimings THEN 1 ELSE timing_index + lane + 1)'
        = (IF AtEndOfTimings THEN 1 ELSE timing_index + lane + 1)
  BY <1>1, <1>2
<1> QED
  BY <1>1, <1>3, <1>4 DEF Reference!vars

\* Each step is a step of the reference, or none that shows there.
LEMMA StepSimulation == IInv /\ [Next]_vars => [Reference!Next]_(Reference!vars)
<1> SUFFICES ASSUME IInv, [Next]_vars PROVE [Reference!Next]_(Reference!vars)
  OBVIOUS
<1>1. CASE \E config \in Configs : PreparePlan(config)
  BY <1>1, PreparePlanSimulation DEF Reference!Next
<1>2. CASE \E c \in Captures : LoadCapture(c)
  BY <1>2, LoadCaptureSimulation DEF Reference!Next
<1>3. CASE RejectRun
  BY <1>3, RejectRunSimulation DEF Reference!Next
<1>4. CASE StartSearch
  BY <1>4, StartSearchSimulation DEF Reference!Next
<1>5. CASE LoadTile \/ LoadSingleTiming \/ TryNarrowerTile
  BY <1>5, TilingStutters
<1>6. CASE ConsiderLane
  BY <1>6, ConsiderLaneSimulation DEF Reference!Next
<1>7. CASE NextFrequency
  BY <1>7, NextFrequencyStutters
<1>8. CASE Finish
  BY <1>8, FinishSimulation DEF Reference!Next
<1>9. CASE UNCHANGED vars
  BY <1>9, UnchangedStutters
<1> QED
  BY <1>1, <1>2, <1>3, <1>4, <1>5, <1>6, <1>7, <1>8, <1>9 DEF Next, Search

(***************************************************************************)
(* The safety part of ImplementsReference: whatever a caller prepares and  *)
(* loads, the NEON search considers the reference's candidates in its      *)
(* order and refuses its inputs, for vectors of any width.                 *)
(***************************************************************************)
THEOREM StepsImplementReference ==
  Spec => Reference!Init /\ [][Reference!Next]_(Reference!vars)
<1> QED
  BY Invariance, InitSimulation, StepSimulation, PTL DEF Spec

-----------------------------------------------------------------------------

\* What is proved of the reference search, under the refinement mapping.
Proved == INSTANCE AcquisitionSearchProofs WITH
  fi <- IF AtEndOfTimings THEN fi + 1 ELSE fi,
  ti <- IF AtEndOfTimings THEN 1 ELSE timing_index + lane + 1

\* The instance of the reference has the same configurations and captures.
LEMMA SameConstants == Proved!Config = Config /\ Proved!ReceivedIq = ReceivedIq
BY DEF Proved!Config, Config, Proved!Size, Size, Proved!ReceivedIq, ReceivedIq,
       Proved!Score, Score

\* The reference of the refinement and the one proved about are the same.
LEMMA SameSpecification ==
  /\ Reference!Init <=> Proved!Init
  /\ [Reference!Next]_(Reference!vars) <=> [Proved!Next]_(Proved!vars)
<1>1. Reference!NoError = Proved!NoError
  BY DEF Reference!NoError, Proved!NoError
<1>2. Reference!EmptyPlan = Proved!EmptyPlan /\ Reference!NoResult = Proved!NoResult
  BY <1>1 DEF Reference!EmptyPlan, Proved!EmptyPlan, Reference!NoResult, Proved!NoResult,
         Reference!NoCandidate, Proved!NoCandidate
<1>3. Reference!Init <=> Proved!Init
  BY <1>2 DEF Reference!Init, Proved!Init
<1>4. ASSUME NEW config PROVE Reference!PreparedPlan(config) = Proved!PreparedPlan(config)
  BY Zenon DEF Reference!PreparedPlan, Proved!PreparedPlan, Reference!PlanError,
         Proved!PlanError, Reference!HasDuplicates, Proved!HasDuplicates,
         Reference!TimingOffsetsAreContiguous, Proved!TimingOffsetsAreContiguous,
         Reference!SizeAdd, Proved!SizeAdd, Reference!NoError, Proved!NoError,
         Reference!EmptyPlan, Proved!EmptyPlan
<1>5. \A config : Reference!PreparePlan(config) <=> Proved!PreparePlan(config)
  BY <1>2, <1>4, Zenon DEF Reference!PreparePlan, Proved!PreparePlan
<1>6. \A c : Reference!LoadCapture(c) <=> Proved!LoadCapture(c)
  BY <1>2, Zenon DEF Reference!LoadCapture, Proved!LoadCapture
<1>7. Reference!RunError(plan, capture) = Proved!RunError(plan, capture)
  BY Zenon DEF Reference!RunError, Proved!RunError, Reference!PlanIncomplete,
         Proved!PlanIncomplete, Reference!WeightTableInvalid, Proved!WeightTableInvalid,
         Reference!TimingBeyondWindow, Proved!TimingBeyondWindow,
         Reference!FrequencyCount, Proved!FrequencyCount, Reference!NoError,
         Proved!NoError
<1>8. Reference!RejectRun <=> Proved!RejectRun
  BY <1>1, <1>2, <1>7, Zenon DEF Reference!RejectRun, Proved!RejectRun
<1>9. Reference!StartSearch <=> Proved!StartSearch
  BY <1>1, <1>7, Zenon DEF Reference!StartSearch, Proved!StartSearch
<1>10. Reference!Evaluate <=> Proved!Evaluate
  BY Zenon DEF Reference!Evaluate, Proved!Evaluate, Reference!CountCandidate,
         Proved!CountCandidate, Reference!ConsiderCandidate, Proved!ConsiderCandidate,
         Reference!CandidateFrom, Proved!CandidateFrom, Reference!Greater,
         Proved!Greater, Reference!FrequencyCount, Proved!FrequencyCount,
         Reference!TimingCount, Proved!TimingCount
<1>11. Reference!Finish <=> Proved!Finish
  BY Zenon DEF Reference!Finish, Proved!Finish, Reference!FinishedResult,
         Proved!FinishedResult, Reference!PeakSeparation, Proved!PeakSeparation,
         Reference!Greater, Proved!Greater, Reference!FrequencyCount,
         Proved!FrequencyCount
<1>12. Reference!Next <=> Proved!Next
  BY <1>5, <1>6, <1>8, <1>9, <1>10, <1>11, Zenon DEF Reference!Next, Proved!Next
<1>13. Reference!vars = Proved!vars
  BY DEF Reference!vars, Proved!vars
<1>14. (Reference!vars)' = (Proved!vars)'
  BY DEF Reference!vars, Proved!vars
<1> QED
  BY <1>3, <1>12, <1>13, <1>14, Zenon

(***************************************************************************)
(* The reference's inductive invariant, mapped, is one of the NEON search. *)
(***************************************************************************)
LEMMA ReferenceInv ==
  /\ Reference!Init => Proved!Inv
  /\ Proved!Inv /\ [Reference!Next]_(Reference!vars) => Proved!Inv'
<1> USE SameConstants, SizeAssumption, FrequencyAssumption, NaNAssumption,
        InfinityAssumption, ConfigsAssumption, CapturesAssumption
<1>1. Proved!Init => Proved!Inv
  BY Proved!InitInv
<1>2. Proved!Inv /\ (\/ \E config \in Configs : Proved!PreparePlan(config)
                    \/ \E c \in Captures : Proved!LoadCapture(c)) => Proved!Inv'
  BY Proved!CallerInv
<1>3. Proved!Inv /\ Proved!RejectRun => Proved!Inv'
  BY Proved!RejectRunInv
<1>4. Proved!Inv /\ Proved!StartSearch => Proved!Inv'
  BY Proved!StartSearchInv
<1>5. Proved!Inv /\ Proved!Evaluate => Proved!Inv'
  BY Proved!EvaluateInv
<1>6. Proved!Inv /\ Proved!Finish => Proved!Inv'
  BY Proved!FinishInv
<1>7. Proved!Inv /\ UNCHANGED Proved!vars => Proved!Inv'
  BY Proved!StutterInv
<1>8. Proved!Next => \/ \E config \in Configs : Proved!PreparePlan(config)
                     \/ \E c \in Captures : Proved!LoadCapture(c)
                     \/ Proved!RejectRun \/ Proved!StartSearch
                     \/ Proved!Evaluate \/ Proved!Finish
  BY DEF Proved!Next
<1> QED
  BY <1>1, <1>2, <1>3, <1>4, <1>5, <1>6, <1>7, <1>8, SameSpecification

(***************************************************************************)
(* A successful NEON search returns the two best of all hypotheses, ties   *)
(* broken towards the earlier one, whatever the tiles it was cut into: the *)
(* reference's theorem, carried over by the refinement.                    *)
(***************************************************************************)
NeonFindsTopTwo ==
  pc = "done" /\ result.ok => IsTopTwo(plan, capture, result, Hypotheses(plan))

\* Successful NEON searches of any grid, with vectors of any width, return the two best.
THEOREM TopTwoCorrect == Spec => []NeonFindsTopTwo
<1>1. Proved!Inv => NeonFindsTopTwo
  <2>1. Proved!Hypotheses(plan) = Hypotheses(plan)
    BY DEF Proved!Hypotheses, Hypotheses, Proved!FrequencyCount, FrequencyCount,
           Proved!TimingCount, TimingCount
  <2>2. Proved!IsTopTwo(plan, capture, result, Hypotheses(plan))
          => IsTopTwo(plan, capture, result, Hypotheses(plan))
    BY Zenon DEF Proved!IsTopTwo, IsTopTwo, Proved!IsPeakOf, IsPeakOf, Proved!IsPeak, IsPeak,
       Proved!Earlier, Earlier, Proved!HypothesisScore, HypothesisScore, Proved!Greater, Greater,
       Proved!CandidateOf, CandidateOf, Proved!CandidateFrom, CandidateFrom
  <2> QED
    BY <2>1, <2>2 DEF Proved!Inv, Proved!TopTwoOfEvaluated, NeonFindsTopTwo
<1> QED
  BY <1>1, StepsImplementReference, ReferenceInv, PTL

=============================================================================
