----------------------------- MODULE FecProofs -----------------------------
(***************************************************************************)
(* The two decoders and the payload check, for inputs of any length.       *)
(*                                                                         *)
(* Viterbi: the branch metrics are those of the reference, and no real     *)
(* path metric meets kNegInf.  The two branches that leave a state carry   *)
(* opposite metrics, so some state stays at or above zero, the two states  *)
(* after it at or above twice -SoftLimit, and, since those two lead to all *)
(* four, every state at or above four times -SoftLimit.                    *)
(*                                                                         *)
(* The survivors are the best paths: the metric of a path is a sum over    *)
(* its symbols, the decisions link best paths of adjacent lengths, and the *)
(* traceback follows these links from the best last state.  A received     *)
(* sequence with one wrong symbol then decodes to what was sent, because   *)
(* paths that differ diverge in at least three coded bits.                 *)
(*                                                                         *)
(* LDPC: a codeword is invisible to the parity checks, so every round      *)
(* flips in a block what it flips in the error of that block alone; the    *)
(* columns of the matrix of the source remove each correctable error from  *)
(* the block of zeros in at most three rounds.                             *)
(*                                                                         *)
(* CRC: the register is linear, so that the wrong bits of a frame leave in *)
(* it what they would leave of their own.  A burst leaves a bit at or      *)
(* below its first wrong one, and a shift keeps the parity of a register.  *)
(***************************************************************************)
EXTENDS ViterbiDecoder, LdpcBitFlip, ReplayStages, SequenceTheorems, FiniteSetTheorems,
        FunctionTheorems, WellFoundedInduction, TLAPS

Floor == -4 * SoftLimit
HalfFloor == -2 * SoftLimit

\* What a branch metric is: opposite branches, each within two soft decisions.
IsBranch(metrics) ==
  /\ metrics \in [0 .. 3 -> Int]
  /\ \A symbol \in 0 .. 3 : HalfFloor <= metrics[symbol] /\ metrics[symbol] <= 2 * SoftLimit
  /\ metrics[3] = -metrics[0]
  /\ metrics[2] = -metrics[1]

Phases ==
  /\ soft \in Seq(-SoftLimit .. SoftLimit)
  /\ metric_path \in {"reference", "neon", "streaming"}
  /\ pc \in {"metrics", "acs", "trace", "done", "refused"}
  /\ pc = "metrics" => t = 0
  /\ decisions \in Seq([States -> Bit])

TablesPart ==
  /\ tables \in Seq([0 .. 3 -> Int])
  /\ prepared <= symbol_count
  /\ \A i \in 1 .. prepared : tables[i] = SymbolMetrics(soft[2 * i - 1], soft[2 * i])
  /\ pc \in {"acs", "trace", "done"} => prepared = symbol_count
  /\ pc = "metrics" => InputInvalid \/ prepared < symbol_count

\* The metrics before the first symbol.
AtStart(metrics) == metrics = [state \in States |-> IF state = 0 THEN 0 ELSE NegInf]

\* Two states that follow one state, both at least HalfFloor.
PairAboveHalfFloor(metrics) ==
  \E state \in States :
    /\ metrics[NextState(state, 0)] >= HalfFloor
    /\ metrics[NextState(state, 1)] >= HalfFloor

MetricsPart ==
  /\ path_metrics \in [States -> Int]
  /\ \A state \in States : path_metrics[state] = NegInf \/ path_metrics[state] >= Floor
  /\ \E state \in States : path_metrics[state] >= 0
  /\ t = 0 => AtStart(path_metrics)
  /\ t >= 1 => PairAboveHalfFloor(path_metrics)
  /\ t >= 2 => \A state \in States : path_metrics[state] # NegInf

IInv == Phases /\ TablesPart /\ MetricsPart

-----------------------------------------------------------------------------

\* The coded symbols of a branch, state by state.
LEMMA SymbolsOfStates ==
  /\ EncodedSymbol(0, 0) = 0 /\ EncodedSymbol(0, 1) = 3
  /\ EncodedSymbol(1, 0) = 2 /\ EncodedSymbol(1, 1) = 1
  /\ EncodedSymbol(2, 0) = 3 /\ EncodedSymbol(2, 1) = 0
  /\ EncodedSymbol(3, 0) = 1 /\ EncodedSymbol(3, 1) = 2
BY DEF EncodedSymbol

\* The successors of a state.
LEMMA NextStates ==
  /\ NextState(0, 0) = 0 /\ NextState(0, 1) = 1
  /\ NextState(1, 0) = 2 /\ NextState(1, 1) = 3
  /\ NextState(2, 0) = 0 /\ NextState(2, 1) = 1
  /\ NextState(3, 0) = 2 /\ NextState(3, 1) = 3
BY DEF NextState

\* The states that lead to each state.
LEMMA ReachedStates ==
  /\ Reached(0) = {0, 2} /\ Reached(1) = {0, 2}
  /\ Reached(2) = {1, 3} /\ Reached(3) = {1, 3}
BY DEF Reached, NextState, States

\* A symbol's metrics are those of its branches.
LEMMA SymbolMetricsIsBranch ==
  ASSUME NEW soft0 \in -SoftLimit .. SoftLimit, NEW soft1 \in -SoftLimit .. SoftLimit
  PROVE  IsBranch(SymbolMetrics(soft0, soft1))
BY SoftLimitAssumption DEF IsBranch, SymbolMetrics, HalfFloor

\* What the initial state and the vector widths give the first parts.
LEMMA InitPhasesTables == Init => Phases /\ TablesPart
<1> SUFFICES ASSUME Init PROVE Phases /\ TablesPart
  OBVIOUS
<1>1. soft \in Seq(-SoftLimit .. SoftLimit)
  BY SoftInputsAssumption DEF Init
<1>2. Phases
  BY <1>1 DEF Init, Phases, t
<1>3. tables = << >> /\ prepared = 0 /\ pc = "metrics"
  BY DEF Init, prepared
<1>4. Len(soft) \in Nat /\ (Len(soft) = 0 => soft = << >>)
  BY <1>1
<1>5. symbol_count \in Nat /\ (InputInvalid \/ 0 < symbol_count)
  BY <1>4 DEF InputInvalid, symbol_count
<1>6. TablesPart
  BY <1>3, <1>5 DEF TablesPart
<1> QED BY <1>2, <1>6

\* A tile holds at least one symbol and none beyond the input.
LEMMA TileWidthInside ==
  ASSUME Phases, TablesPart, prepared < symbol_count
  PROVE  /\ TileWidth \in Nat \ {0}
         /\ prepared + TileWidth <= symbol_count
<1>1. prepared \in Nat /\ symbol_count \in Nat
  BY DEF Phases, TablesPart, prepared, symbol_count
<1>2. CASE metric_path = "reference"
  BY <1>1, <1>2 DEF TileWidth
<1>3. CASE metric_path = "neon"
  BY <1>1, <1>3, VectorAssumption DEF TileWidth
<1>4. CASE metric_path = "streaming"
  BY <1>1, <1>4, VectorAssumption DEF TileWidth
<1> QED BY <1>2, <1>3, <1>4 DEF Phases

\* Every symbol is computed from its own two soft decisions.
LEMMA SymbolMetricsType ==
  ASSUME NEW soft0 \in Int, NEW soft1 \in Int
  PROVE  SymbolMetrics(soft0, soft1) \in [0 .. 3 -> Int]
BY DEF SymbolMetrics

\* Soft decisions are integers within their limit.
LEMMA SoftDecisions ==
  ASSUME Phases, NEW i \in 1 .. symbol_count
  PROVE  /\ soft[2 * i - 1] \in -SoftLimit .. SoftLimit
         /\ soft[2 * i] \in -SoftLimit .. SoftLimit
<1>1. 2 * i - 1 \in 1 .. Len(soft) /\ 2 * i \in 1 .. Len(soft)
  BY DEF Phases, symbol_count
<1> DEFINE Decision == -SoftLimit .. SoftLimit
<1> HIDE DEF Decision
<1>2. soft \in Seq(Decision)
  BY DEF Phases, Decision
<1>3. soft[2 * i - 1] \in Decision /\ soft[2 * i] \in Decision
  BY <1>1, <1>2, ElementOfSeq
<1> QED BY <1>3 DEF Decision

\* A tile prepares its own symbols.
LEMMA PrepareTileTables ==
  ASSUME Phases, TablesPart, prepared < symbol_count, PrepareTile
  PROVE  TablesPart'
<1> DEFINE tile == [k \in 1 .. TileWidth |-> TileSymbol(k)]
<1>1. prepared \in Nat /\ symbol_count \in Nat
  BY DEF Phases, TablesPart, prepared, symbol_count
<1>2. TileWidth \in Nat \ {0} /\ prepared + TileWidth <= symbol_count
  BY TileWidthInside
<1>3. ASSUME NEW k \in 1 .. TileWidth
      PROVE  /\ TileSymbol(k) = SymbolMetrics(soft[2 * (prepared + k) - 1], soft[2 * (prepared + k)])
             /\ TileSymbol(k) \in [0 .. 3 -> Int]
  <2>1. prepared + k \in 1 .. symbol_count
    BY <1>1, <1>2
  <2>2. soft[2 * (prepared + k) - 1] \in Int /\ soft[2 * (prepared + k)] \in Int
    BY <2>1, SoftDecisions, SoftLimitAssumption
  <2> QED BY <2>2, SymbolMetricsType DEF TileSymbol
<1>4. tile \in Seq([0 .. 3 -> Int]) /\ Len(tile) = TileWidth
  BY <1>2, <1>3
<1> HIDE DEF tile
<1>5. tables' = tables \o tile
  BY DEF PrepareTile, tile
<1>6. /\ tables' \in Seq([0 .. 3 -> Int])
      /\ Len(tables') = prepared + TileWidth
  BY <1>4, <1>5, ConcatProperties DEF TablesPart, prepared
<1>7. ASSUME NEW i \in 1 .. Len(tables')
      PROVE  tables'[i] = SymbolMetrics(soft[2 * i - 1], soft[2 * i])
  <2>1. CASE i <= prepared
    <3>1. tables'[i] = tables[i]
      BY <1>4, <1>5, <1>6, <2>1, ConcatProperties DEF TablesPart, prepared
    <3>2. i \in 1 .. prepared
      BY <1>1, <2>1
    <3> QED BY <3>1, <3>2 DEF TablesPart
  <2>2. CASE i > prepared
    <3>1. PICK k \in 1 .. TileWidth : i = prepared + k
      <4>1. i - prepared \in 1 .. TileWidth /\ i = prepared + (i - prepared)
        BY <1>1, <1>2, <1>6, <2>2
      <4> QED BY <4>1
    <3>2. tables'[i] = tile[k]
      BY <1>1, <1>4, <1>5, <1>6, <2>2, <3>1, ConcatProperties DEF TablesPart, prepared
    <3> QED BY <1>3, <3>1, <3>2 DEF tile
  <2> QED BY <1>1, <1>6, <2>1, <2>2
<1>8. soft' = soft /\ pc' \in {"metrics", "acs"}
      /\ (pc' = "acs" <=> Len(tables') = symbol_count)
  BY DEF PrepareTile
<1>9. prepared' \in Nat /\ symbol_count' = symbol_count /\ prepared' = Len(tables')
      /\ prepared' <= symbol_count
  BY <1>1, <1>2, <1>6, <1>8 DEF prepared, symbol_count
<1>10. pc' = "metrics" => prepared' < symbol_count
  BY <1>1, <1>8, <1>9
<1> QED BY <1>6, <1>7, <1>8, <1>9, <1>10 DEF TablesPart

-----------------------------------------------------------------------------

\* Of at most two candidates there is a best one.
LEMMA SurvivorIsBest ==
  ASSUME NEW next \in States,
         \A state \in Candidates(next) : CandidateMetric(state, next) \in Int,
         Candidates(next) # {}
  PROVE  /\ Survivor(next) \in Candidates(next)
         /\ \A other \in Candidates(next) :
              CandidateMetric(other, next) <= CandidateMetric(Survivor(next), next)
<1> DEFINE metric(state) == CandidateMetric(state, next)
           Best(state) == \A other \in Candidates(next) \ {state} :
                            \/ metric(state) > metric(other)
                            \/ metric(state) = metric(other) /\ state < other
<1>1. Candidates(next) \subseteq Reached(next)
  BY DEF Candidates
<1>2. PICK a \in States, b \in States : Reached(next) = {a, b} /\ a < b
  <2>1. 0 \in States /\ 1 \in States /\ 2 \in States /\ 3 \in States
    BY DEF States
  <2>2. next \in {0, 1, 2, 3}
    BY DEF States
  <2> QED BY <2>1, <2>2, ReachedStates
<1> HIDE DEF metric
<1>3. \E state \in Candidates(next) : Best(state)
  <2>1. CASE Candidates(next) = {a} \/ Candidates(next) = {b}
    BY <2>1
  <2>2. CASE Candidates(next) = {a, b}
    <3>1. metric(a) \in Int /\ metric(b) \in Int
      BY <2>2 DEF metric
    <3>2. CASE metric(a) >= metric(b)
      BY <1>2, <2>2, <3>1, <3>2
    <3>3. CASE metric(b) > metric(a)
      BY <1>2, <2>2, <3>1, <3>3
    <3> QED BY <3>1, <3>2, <3>3
  <2> QED BY <1>1, <1>2, <2>1, <2>2
<1>4. Survivor(next) \in Candidates(next) /\ Best(Survivor(next))
  <2>1. Survivor(next) = CHOOSE state \in Candidates(next) : Best(state)
    BY DEF Survivor, metric
  <2> QED BY <1>3, <2>1
<1>5. ASSUME NEW other \in Candidates(next)
      PROVE  metric(other) <= metric(Survivor(next))
  <2>1. metric(other) \in Int /\ metric(Survivor(next)) \in Int
    BY <1>4 DEF metric
  <2> QED BY <1>4, <2>1
<1> QED BY <1>4, <1>5 DEF metric

\* The metric that a state has after a symbol: at least that of each candidate.
LEMMA NewMetrics ==
  ASSUME path_metrics \in [States -> Int], IsBranch(tables[t + 1]), AddCompareSelect
  PROVE  /\ path_metrics' \in [States -> Int]
         /\ \A next \in States :
              IF Candidates(next) = {} THEN path_metrics'[next] = NegInf
              ELSE /\ \E state \in Candidates(next) :
                        path_metrics'[next] = CandidateMetric(state, next)
                   /\ \A state \in Candidates(next) :
                        CandidateMetric(state, next) <= path_metrics'[next]
<1>1. ASSUME NEW next \in States, NEW state \in Candidates(next)
      PROVE  CandidateMetric(state, next) \in Int
  <2>1. state \in States
    BY DEF Candidates, Reached
  <2>2. next % 2 \in {0, 1} /\ EncodedSymbol(state, next % 2) \in 0 .. 3
    BY <2>1 DEF EncodedSymbol, States
  <2> QED BY <2>1, <2>2 DEF CandidateMetric, IsBranch
<1>2. ASSUME NEW next \in States
      PROVE  path_metrics'[next] = IF Candidates(next) = {} THEN NegInf
                                   ELSE CandidateMetric(Survivor(next), next)
  BY DEF AddCompareSelect
<1>3. ASSUME NEW next \in States, Candidates(next) # {}
      PROVE  /\ Survivor(next) \in Candidates(next)
             /\ \A other \in Candidates(next) :
                  CandidateMetric(other, next) <= CandidateMetric(Survivor(next), next)
  BY <1>1, <1>3, SurvivorIsBest
<1>4. \A next \in States : path_metrics'[next] \in Int
  BY <1>1, <1>2, <1>3, NegInfAssumption
<1> QED BY <1>2, <1>3, <1>4 DEF AddCompareSelect

\* A branch from a state at or above HalfFloor always makes a candidate.
LEMMA CandidateFrom ==
  ASSUME path_metrics \in [States -> Int], IsBranch(tables[t + 1]),
         NEW state \in States, NEW input_bit \in Bit,
         path_metrics[state] >= HalfFloor
  PROVE  /\ NextState(state, input_bit) \in States
         /\ state \in Candidates(NextState(state, input_bit))
         /\ CandidateMetric(state, NextState(state, input_bit))
              = path_metrics[state] + tables[t + 1][EncodedSymbol(state, input_bit)]
<1> DEFINE next == NextState(state, input_bit)
           branch == tables[t + 1][EncodedSymbol(state, input_bit)]
<1>1. next \in States /\ next % 2 = input_bit
  BY DEF NextState, States, Bit
<1>2. EncodedSymbol(state, input_bit) \in 0 .. 3
  BY DEF EncodedSymbol, States, Bit
<1>3. branch \in Int /\ branch >= HalfFloor
  BY <1>2 DEF IsBranch
<1>4. path_metrics[state] \in Int
  OBVIOUS
<1>5. CandidateMetric(state, next) = path_metrics[state] + branch
  BY <1>1 DEF CandidateMetric
<1>6. path_metrics[state] # NegInf /\ CandidateMetric(state, next) > NegInf
  BY <1>3, <1>4, <1>5, NegInfAssumption, SoftLimitAssumption DEF HalfFloor
<1> QED BY <1>1, <1>5, <1>6 DEF Candidates, Reached

\* Opposite branches: one of the two is at or above zero.
LEMMA OppositeBranches ==
  ASSUME IsBranch(tables[t + 1]), NEW state \in States
  PROVE  \E input_bit \in Bit : tables[t + 1][EncodedSymbol(state, input_bit)] >= 0
<1> DEFINE metrics == tables[t + 1]
<1>1. metrics[0] \in Int /\ metrics[1] \in Int
      /\ metrics[3] = -metrics[0] /\ metrics[2] = -metrics[1]
  BY DEF IsBranch
<1>2. state \in {0, 1, 2, 3} /\ 0 \in Bit /\ 1 \in Bit
  BY DEF States, Bit
<1> HIDE DEF metrics
<1>3. \/ metrics[EncodedSymbol(state, 0)] >= 0
      \/ metrics[EncodedSymbol(state, 1)] >= 0
  BY <1>1, <1>2, SymbolsOfStates
<1> QED BY <1>2, <1>3 DEF metrics

\* Two successors of one state lead to every state.
LEMMA PairLeadsEverywhere ==
  ASSUME NEW state \in States, NEW next \in States
  PROVE  \E input_bit \in Bit : NextState(state, input_bit) \in Reached(next)
<1>1. state \in {0, 1, 2, 3} /\ next \in {0, 1, 2, 3} /\ 0 \in Bit /\ 1 \in Bit
  BY DEF States, Bit
<1> QED BY <1>1, NextStates, ReachedStates

\* What a symbol does to the floor, the sign and the pair of MetricsPart.
LEMMA AddCompareSelectMetrics ==
  ASSUME t \in Nat, MetricsPart, IsBranch(tables[t + 1]), AddCompareSelect
  PROVE  /\ path_metrics' \in [States -> Int]
         /\ \A next \in States : path_metrics'[next] = NegInf \/ path_metrics'[next] >= Floor
         /\ \E next \in States : path_metrics'[next] >= 0
         /\ PairAboveHalfFloor(path_metrics')
         /\ t >= 1 => \A next \in States : path_metrics'[next] # NegInf
<1>1. path_metrics \in [States -> Int]
  BY DEF MetricsPart
<1>2. ASSUME NEW state \in States, NEW input_bit \in Bit, path_metrics[state] >= HalfFloor
      PROVE  /\ NextState(state, input_bit) \in States
             /\ Candidates(NextState(state, input_bit)) # {}
             /\ path_metrics'[NextState(state, input_bit)]
                  >= path_metrics[state] + tables[t + 1][EncodedSymbol(state, input_bit)]
  <2> DEFINE next == NextState(state, input_bit)
             candidate == CandidateMetric(state, next)
  <2>1. next \in States /\ state \in Candidates(next)
        /\ candidate = path_metrics[state] + tables[t + 1][EncodedSymbol(state, input_bit)]
    BY <1>1, <1>2, CandidateFrom
  <2>2. candidate <= path_metrics'[next]
    BY <1>1, <2>1, NewMetrics
  <2>3. candidate \in Int /\ path_metrics'[next] \in Int
    <3>1. EncodedSymbol(state, input_bit) \in 0 .. 3
      BY DEF EncodedSymbol, States, Bit
    <3>2. candidate \in Int
      BY <1>1, <2>1, <3>1 DEF IsBranch
    <3> QED BY <1>1, <2>1, <3>2, NewMetrics
  <2> HIDE DEF next, candidate
  <2>4. path_metrics'[next] >= candidate
    BY <2>2, <2>3
  <2> QED BY <2>1, <2>4 DEF next
<1>3. ASSUME NEW state \in States, NEW input_bit \in Bit
      PROVE  /\ tables[t + 1][EncodedSymbol(state, input_bit)] \in Int
             /\ tables[t + 1][EncodedSymbol(state, input_bit)] >= HalfFloor
  <2>1. EncodedSymbol(state, input_bit) \in 0 .. 3
    BY DEF EncodedSymbol, States, Bit
  <2> QED BY <2>1 DEF IsBranch
<1>4. path_metrics' \in [States -> Int]
  BY <1>1, NewMetrics
<1>5. HalfFloor \in Int /\ HalfFloor <= 0 /\ Floor = HalfFloor + HalfFloor /\ NegInf \in Int /\ NegInf < Floor
  BY SoftLimitAssumption, NegInfAssumption DEF HalfFloor, Floor
<1>6. PICK top \in States : path_metrics[top] >= 0
  BY DEF MetricsPart
<1>7. path_metrics[top] \in Int /\ path_metrics[top] >= HalfFloor
  BY <1>1, <1>5, <1>6
<1>8. \E next \in States : path_metrics'[next] >= 0
  <2>1. PICK input_bit \in Bit : tables[t + 1][EncodedSymbol(top, input_bit)] >= 0
    BY OppositeBranches
  <2>2. NextState(top, input_bit) \in States
        /\ path_metrics'[NextState(top, input_bit)]
             >= path_metrics[top] + tables[t + 1][EncodedSymbol(top, input_bit)]
    BY <1>2, <1>7
  <2>3. path_metrics'[NextState(top, input_bit)] >= 0
    BY <1>3, <1>4, <1>6, <1>7, <2>1, <2>2
  <2> QED BY <2>2, <2>3
<1>9. PairAboveHalfFloor(path_metrics')
  <2>1. ASSUME NEW input_bit \in Bit
        PROVE  path_metrics'[NextState(top, input_bit)] >= HalfFloor
    BY <1>2, <1>3, <1>4, <1>5, <1>6, <1>7
  <2>2. 0 \in Bit /\ 1 \in Bit
    BY DEF Bit
  <2> QED BY <2>1, <2>2 DEF PairAboveHalfFloor
<1>10. ASSUME NEW next \in States, t >= 1
       PROVE  path_metrics'[next] >= Floor
  <2>1. PICK state \in States :
          path_metrics[NextState(state, 0)] >= HalfFloor /\ path_metrics[NextState(state, 1)] >= HalfFloor
    BY <1>10 DEF MetricsPart, PairAboveHalfFloor
  <2>2. PICK input_bit \in Bit : NextState(state, input_bit) \in Reached(next)
    BY PairLeadsEverywhere
  <2> DEFINE from == NextState(state, input_bit)
             last == next % 2
  <2>3. from \in States /\ next = NextState(from, last) /\ path_metrics[from] >= HalfFloor
    BY <2>1, <2>2 DEF Reached, Bit
  <2>4. last \in Bit
    BY DEF States, Bit
  <2> HIDE DEF from, last
  <2>5. path_metrics'[next] >= path_metrics[from] + tables[t + 1][EncodedSymbol(from, last)]
    BY <1>2, <2>3, <2>4
  <2> QED BY <1>1, <1>3, <1>4, <1>5, <2>3, <2>4, <2>5
<1>11. ASSUME NEW next \in States, t = 0
       PROVE  path_metrics'[next] = NegInf \/ path_metrics'[next] >= Floor
  <2>1. CASE Candidates(next) = {}
    BY <1>1, <2>1, NewMetrics
  <2>2. CASE Candidates(next) # {}
    <3>1. PICK state \in Candidates(next) : path_metrics'[next] = CandidateMetric(state, next)
      BY <1>1, <2>2, NewMetrics
    <3>2. state \in States /\ path_metrics[state] # NegInf
      BY DEF Candidates, Reached
    <3>3. path_metrics[state] = 0
      BY <1>11, <3>2 DEF MetricsPart, AtStart
    <3>4. next % 2 \in Bit
      BY DEF States, Bit
    <3>5. path_metrics'[next] = path_metrics[state] + tables[t + 1][EncodedSymbol(state, next % 2)]
      BY <3>1 DEF CandidateMetric
    <3> QED BY <1>3, <1>5, <3>2, <3>3, <3>4, <3>5
  <2> QED BY <2>1, <2>2
<1>12. ASSUME NEW next \in States, t >= 1
       PROVE  path_metrics'[next] # NegInf
  <2>1. path_metrics'[next] \in Int
    BY <1>4
  <2> QED BY <1>5, <1>10, <1>12, <2>1
<1> QED BY <1>4, <1>8, <1>9, <1>10, <1>11, <1>12

-----------------------------------------------------------------------------

\* Nothing is prepared.
LEMMA InitInv == Init => IInv
<1> SUFFICES ASSUME Init PROVE IInv
  OBVIOUS
<1>1. Phases /\ TablesPart
  BY InitPhasesTables
<1>2. t = 0
  BY DEF Init, t
<1>3. path_metrics \in [States -> Int] /\ AtStart(path_metrics)
  BY NegInfAssumption DEF Init, AtStart, States
<1>4. 0 \in States /\ path_metrics[0] = 0
  BY <1>3 DEF AtStart, States
<1>5. \A state \in States : path_metrics[state] = NegInf \/ path_metrics[state] >= Floor
  <2>1. Floor <= 0
    BY SoftLimitAssumption DEF Floor
  <2>2. \A state \in States : path_metrics[state] = 0 \/ path_metrics[state] = NegInf
    BY <1>3 DEF AtStart
  <2> QED BY <2>1, <2>2 DEF Floor
<1>6. MetricsPart
  BY <1>2, <1>3, <1>4, <1>5 DEF MetricsPart
<1> QED BY <1>1, <1>6 DEF IInv

\* The metrics of the symbol that the recurrence takes next.
LEMMA NextBranches ==
  ASSUME IInv, pc = "acs", t < symbol_count
  PROVE  t \in Nat /\ IsBranch(tables[t + 1])
<1>1. t \in Nat /\ symbol_count \in Nat
  BY DEF IInv, Phases, t, symbol_count
<1>2. t + 1 \in 1 .. prepared /\ t + 1 \in 1 .. symbol_count
  BY <1>1 DEF IInv, TablesPart
<1>3. tables[t + 1] = SymbolMetrics(soft[2 * (t + 1) - 1], soft[2 * (t + 1)])
  BY <1>2 DEF IInv, TablesPart
<1> QED BY <1>1, <1>2, <1>3, SoftDecisions, SymbolMetricsIsBranch DEF IInv

\* Every step keeps the invariant.
LEMMA StepInv == IInv /\ [Next]_vars => IInv'
<1> SUFFICES ASSUME IInv, [Next]_vars PROVE IInv'
  OBVIOUS
<1> USE DEF IInv
<1>1. CASE RefuseInput
  <2>1. Phases' /\ TablesPart'
    BY <1>1 DEF RefuseInput, Phases, TablesPart, prepared, symbol_count, t, InputInvalid
  <2>2. MetricsPart'
    BY <1>1 DEF RefuseInput, MetricsPart, t
  <2> QED BY <2>1, <2>2
<1>2. CASE PrepareTile
  <2>1. prepared < symbol_count
    BY <1>2 DEF PrepareTile, TablesPart
  <2>2. TablesPart'
    BY <1>2, <2>1, PrepareTileTables
  <2>3. Phases'
    BY <1>2 DEF PrepareTile, Phases, t
  <2>4. MetricsPart'
    BY <1>2 DEF PrepareTile, MetricsPart, t
  <2> QED BY <2>2, <2>3, <2>4
<1>3. CASE AddCompareSelect
  <2>1. t \in Nat /\ IsBranch(tables[t + 1]) /\ pc = "acs"
    BY <1>3, NextBranches DEF AddCompareSelect
  <2>2. decisions' \in Seq([States -> Bit]) /\ t' = t + 1
    <3> DEFINE chosen == [s \in States |-> SurvivingBit(s)]
    <3>1. chosen \in [States -> Bit]
      BY DEF SurvivingBit, States, Bit
    <3> HIDE DEF chosen
    <3>2. decisions' = Append(decisions, chosen)
      BY <1>3 DEF AddCompareSelect, chosen
    <3> QED BY <3>1, <3>2, AppendProperties DEF Phases, t
  <2>3. Phases'
    BY <1>3, <2>1, <2>2 DEF AddCompareSelect, Phases
  <2>4. TablesPart'
    BY <1>3 DEF AddCompareSelect, TablesPart, prepared, symbol_count, InputInvalid
  <2>5. MetricsPart'
    BY <1>3, <2>1, <2>2, AddCompareSelectMetrics DEF MetricsPart
  <2> QED BY <2>3, <2>4, <2>5
<1>4. CASE StartTraceback
  <2>1. Phases' /\ TablesPart'
    BY <1>4 DEF StartTraceback, Phases, TablesPart, prepared, symbol_count, t, InputInvalid
  <2>2. MetricsPart'
    BY <1>4 DEF StartTraceback, MetricsPart, t
  <2> QED BY <2>1, <2>2
<1>5. CASE TraceBack
  <2>1. Phases' /\ TablesPart'
    BY <1>5 DEF TraceBack, Phases, TablesPart, prepared, symbol_count, t, InputInvalid
  <2>2. MetricsPart'
    BY <1>5 DEF TraceBack, MetricsPart, t
  <2> QED BY <2>1, <2>2
<1>6. CASE Finish
  <2>1. Phases' /\ TablesPart'
    BY <1>6 DEF Finish, Phases, TablesPart, prepared, symbol_count, t, InputInvalid
  <2>2. MetricsPart'
    BY <1>6 DEF Finish, MetricsPart, t
  <2> QED BY <2>1, <2>2
<1>7. CASE UNCHANGED vars
  <2>1. Phases' /\ TablesPart'
    BY <1>7 DEF vars, Phases, TablesPart, prepared, symbol_count, t, InputInvalid
  <2>2. MetricsPart'
    BY <1>7 DEF vars, MetricsPart, t
  <2> QED BY <2>1, <2>2
<1> QED BY <1>1, <1>2, <1>3, <1>4, <1>5, <1>6, <1>7 DEF Next

\* The invariant holds of every decode.
THEOREM Invariant == Spec => []IInv
BY InitInv, StepInv, PTL DEF Spec

\* For every input and every vector width, the NEON and the streaming kernel
\* prepare the tables of prepare_branch_metrics_reference.
THEOREM TablesAreReference == Spec => []TablesMatchReference
<1>1. IInv => TablesMatchReference
  BY DEF IInv, TablesPart, TablesMatchReference
<1> QED BY <1>1, Invariant, PTL

\* For every input of any length, no metric of a reached state comes near
\* kNegInf: the mark of viterbi_decode_from_metrics is never ambiguous.
THEOREM MetricsAboveFloor == Spec => []MetricFloor
<1>1. IInv => MetricFloor
  BY DEF IInv, MetricsPart, MetricFloor, Floor, TailBits
<1> QED BY <1>1, Invariant, PTL

-----------------------------------------------------------------------------
\* How many elements the difference of two finite sets has.
LEMMA CardinalityOfDifference ==
  ASSUME NEW a, NEW b, IsFiniteSet(a), IsFiniteSet(b)
  PROVE  /\ IsFiniteSet((a \ b) \cup (b \ a))
         /\ Cardinality(a) \in Nat /\ Cardinality(b) \in Nat /\ Cardinality(a \cap b) \in Nat
         /\ Cardinality((a \ b) \cup (b \ a))
              = Cardinality(a) + Cardinality(b) - 2 * Cardinality(a \cap b)
<1> DEFINE p == Cardinality(a)
           q == Cardinality(b)
           r == Cardinality(a \cap b)
           onlyA == Cardinality(a \ b)
           onlyB == Cardinality(b \ a)
           none == Cardinality((a \ b) \cap (b \ a))
           all == Cardinality((a \ b) \cup (b \ a))
<1>1. /\ IsFiniteSet(a \ b) /\ Cardinality(a \ b) = Cardinality(a) - Cardinality(a \cap b)
      /\ IsFiniteSet(b \ a) /\ Cardinality(b \ a) = Cardinality(b) - Cardinality(b \cap a)
  BY FS_Difference
<1>2. (a \ b) \cap (b \ a) = {} /\ b \cap a = a \cap b
  OBVIOUS
<1>3. /\ IsFiniteSet((a \ b) \cup (b \ a))
      /\ Cardinality((a \ b) \cup (b \ a))
           = Cardinality(a \ b) + Cardinality(b \ a) - Cardinality((a \ b) \cap (b \ a))
  BY <1>1, FS_Union
<1>4. none = 0
  BY <1>2, FS_EmptySet
<1>5. IsFiniteSet(a \cap b)
  BY FS_Intersection
<1>6. p \in Nat /\ q \in Nat /\ r \in Nat
  BY <1>5, FS_CardinalityType
<1>7. onlyA = p - r /\ onlyB = q - r /\ all = onlyA + onlyB - none
  BY <1>1, <1>2, <1>3
<1> HIDE DEF p, q, r, onlyA, onlyB, none, all
<1>8. all = p + q - 2 * r
  BY <1>4, <1>6, <1>7
<1> QED
  BY <1>3, <1>6, <1>8 DEF p, q, r, all

\* A set of natural numbers that holds zero and every successor holds all of them.
LEMMA SetInduction ==
  ASSUME NEW P, 0 \in P, \A n \in Nat : n \in P => n + 1 \in P
  PROVE  Nat \subseteq P
<1> DEFINE R == OpToRel(<, Nat)
           Q == Nat \ P
<1>1. SUFFICES ASSUME Q # {} PROVE FALSE
  OBVIOUS
<1>2. \A m, n \in Nat : m < n => <<m, n>> \in R
  BY DEF OpToRel
<1>3. IsWellFoundedOn(R, Nat)
  BY NatLessThanWellFounded
<1>4. Q \subseteq Nat
  OBVIOUS
<1> HIDE DEF R, Q
<1>5. PICK least \in Q : \A n \in Q : <<n, least>> \notin R
  BY <1>1, <1>3, <1>4, WFMin
<1>6. least \in Nat /\ least # 0 /\ least \notin P
  BY <1>5 DEF Q
<1>7. least - 1 \in Nat /\ least - 1 < least
  BY <1>6
<1>8. least - 1 \notin Q
  BY <1>2, <1>5, <1>6, <1>7
<1>9. least - 1 \in P
  BY <1>7, <1>8 DEF Q
<1>10. (least - 1) + 1 \in P
  BY <1>7, <1>9
<1> QED
  BY <1>6, <1>10

\* Some function has its start and its steps prescribed.
HasRecursion(S, start, n, step) ==
  \E g \in [0 .. n -> S] : /\ g[0] = start
                           /\ \A i \in 1 .. n : g[i] = step[<<g[i - 1], i>>]

\* A function that a start and a step define by recursion exists.  The step is a
\* function, so that the statement is one about sets.
LEMMA RecursionExists ==
  ASSUME NEW S, NEW start \in S, NEW n \in Nat, NEW step \in [S \X (1 .. n) -> S]
  PROVE  HasRecursion(S, start, n, step)
<1>typed. ASSUME NEW v \in S, NEW i \in 1 .. n
      PROVE  step[<<v, i>>] \in S
  <2>1. <<v, i>> \in S \X (1 .. n)
    OBVIOUS
  <2> QED
    BY <2>1
<1> DEFINE Good(k, g) == /\ g \in [0 .. k -> S]
                         /\ g[0] = start
                         /\ \A i \in 1 .. k : g[i] = step[<<g[i - 1], i>>]
           P == {k \in Nat : k <= n => \E g : Good(k, g)}
<1>1. 0 \in P
  <2>1. Good(0, [i \in 0 .. 0 |-> start])
    OBVIOUS
  <2> HIDE DEF Good
  <2> QED
    BY <2>1
<1>2. ASSUME NEW k \in Nat, k \in P, k + 1 <= n
      PROVE  \E g : Good(k + 1, g)
  <2>1. PICK g : Good(k, g)
    BY <1>2
  <2> DEFINE h == [i \in 0 .. k + 1 |-> IF i = k + 1 THEN step[<<g[k], k + 1>>] ELSE g[i]]
  <2>2. k + 1 \in 1 .. n /\ g[k] \in S
    BY <1>2, <2>1
  <2>3. step[<<g[k], k + 1>>] \in S
    BY <2>2, <1>typed
  <2>4. \A i \in 0 .. k : h[i] = g[i] /\ g[i] \in S
    BY <2>1
  <2>5. h[k + 1] = step[<<g[k], k + 1>>]
    OBVIOUS
  <2>6. h \in [0 .. k + 1 -> S]
    BY <2>1, <2>3
  <2> HIDE DEF h
  <2>7. ASSUME NEW i \in 1 .. k + 1
        PROVE  h[i] = step[<<h[i - 1], i>>]
    <3>1. CASE i = k + 1
      BY <2>4, <2>5, <3>1
    <3>2. CASE i # k + 1
      <4>1. i \in 1 .. k /\ i - 1 \in 0 .. k /\ i \in 0 .. k
        BY <3>2
      <4>2. g[i] = step[<<g[i - 1], i>>]
        BY <2>1, <4>1
      <4>3. h[i] = g[i] /\ h[i - 1] = g[i - 1]
        BY <2>4, <4>1
      <4> QED
        BY <4>2, <4>3
    <3> QED
      BY <3>1, <3>2
  <2>8. h[0] = start
    BY <2>1, <2>4
  <2>9. Good(k + 1, h)
    BY <2>6, <2>7, <2>8
  <2> HIDE DEF Good
  <2> QED
    BY <2>9
<1> HIDE DEF Good
<1>3. \A k \in Nat : k \in P => k + 1 \in P
  BY <1>2
<1> HIDE DEF P
<1>4. n \in P
  BY <1>1, <1>3, SetInduction
<1>5. \E g : Good(n, g)
  BY <1>4 DEF P
<1> QED
  BY <1>5 DEF Good, HasRecursion

-----------------------------------------------------------------------------

\* The shift register starts in state 0 and takes one bit after the other.
LEMMA RegisterSteps ==
  ASSUME NEW bits \in Seq(Bit)
  PROVE  /\ RegisterStates(bits) \in [0 .. Len(bits) -> States]
         /\ RegisterStates(bits)[0] = 0
         /\ \A i \in 1 .. Len(bits) :
              RegisterStates(bits)[i] = NextState(RegisterStates(bits)[i - 1], bits[i])
<1> DEFINE n == Len(bits)
           step == [p \in States \X (1 .. n) |-> NextState(p[1], bits[p[2]])]
           Is(f) == f = [i \in 0 .. Len(bits) |->
                           IF i = 0 THEN 0 ELSE NextState(f[i - 1], bits[i])]
<1>1. n \in Nat /\ \A i \in 1 .. n : bits[i] \in Bit
  OBVIOUS
<1>2. \A v \in States, i \in 1 .. n : NextState(v, bits[i]) \in States
  BY <1>1 DEF NextState, States, Bit
<1>3. ASSUME NEW v \in States, NEW i \in 1 .. n
      PROVE  step[<<v, i>>] = NextState(v, bits[i])
  <2> DEFINE p == <<v, i>>
             m == n
  <2>1. p \in States \X (1 .. m) /\ p[1] = v /\ p[2] = i
    OBVIOUS
  <2> HIDE DEF p
  <2>2. step[p] = NextState(p[1], bits[p[2]])
    BY <2>1
  <2>3. step[p] = NextState(v, bits[i])
    BY <2>1, <2>2
  <2> QED
    BY <2>3 DEF p
<1>4. step \in [States \X (1 .. n) -> States]
  <2>1. ASSUME NEW p \in States \X (1 .. n)
        PROVE  NextState(p[1], bits[p[2]]) \in States
    BY <1>2
  <2> QED
    BY <2>1
<1>5. 0 \in States
  BY DEF States
<1>recursive. HasRecursion(States, 0, n, step)
  <2> HIDE DEF step, n
  <2>1. n \in Nat
    BY <1>1
  <2> QED
    BY <2>1, <1>4, <1>5, RecursionExists
<1> HIDE DEF step
<1>6. PICK g \in [0 .. n -> States] : /\ g[0] = 0
                                      /\ \A i \in 1 .. n : g[i] = step[<<g[i - 1], i>>]
  BY <1>recursive DEF HasRecursion
<1>7. ASSUME NEW i \in 1 .. n
      PROVE  g[i] = NextState(g[i - 1], bits[i])
  <2>1. i - 1 \in 0 .. n
    BY <1>1
  <2> HIDE DEF n
  <2>2. g[i - 1] \in States
    BY <2>1
  <2>3. g[i] = step[<<g[i - 1], i>>]
    BY <1>6
  <2> QED
    BY <1>3, <2>2, <2>3
<1>8. Is(g)
  BY <1>1, <1>6, <1>7
<1>9. RegisterStates(bits) = CHOOSE f : Is(f)
  BY DEF RegisterStates
<1> HIDE DEF Is
<1>10. Is(RegisterStates(bits))
  BY <1>8, <1>9
<1> DEFINE f == RegisterStates(bits)
<1> HIDE DEF f
<1>11. f = [i \in 0 .. n |-> IF i = 0 THEN 0 ELSE NextState(f[i - 1], bits[i])]
  BY <1>10 DEF Is, f
<1>12. f[0] = 0 /\ \A i \in 1 .. n : f[i] = NextState(f[i - 1], bits[i])
  BY <1>1, <1>11
<1> DEFINE P == {k \in Nat : k <= n => f[k] \in States}
<1>13. \A k \in Nat : k \in P => k + 1 \in P
  <2>1. ASSUME NEW k \in Nat, k <= n => f[k] \in States, k + 1 <= n
        PROVE  f[k + 1] \in States
    <3>1. k + 1 \in 1 .. n /\ (k + 1) - 1 = k /\ f[k] \in States
      BY <1>1, <2>1
    <3>2. f[k + 1] = NextState(f[k], bits[k + 1])
      BY <1>12, <3>1
    <3> QED
      BY <1>2, <3>1, <3>2
  <2> QED
    BY <2>1
<1>14. 0 \in P
  BY <1>5, <1>12
<1> HIDE DEF P
<1>15. Nat \subseteq P
  BY <1>13, <1>14, SetInduction
<1>16. f \in [0 .. n -> States]
  <2>1. \A k \in 0 .. n : f[k] \in States
    BY <1>1, <1>15 DEF P
  <2> QED
    BY <1>11, <2>1
<1> QED
  BY <1>12, <1>16 DEF f

\* The i-th bit of a sequence, zero before the first.
BitAt(bits, i) == IF i >= 1 THEN bits[i] ELSE 0

\* The state that the first i bits leave the shift register in: the last two.
StateAt(bits, i) == 2 * BitAt(bits, i - 1) + BitAt(bits, i)

\* A state is the last two input bits, however long the sequence before them.
LEMMA RegisterHoldsTwoBits ==
  ASSUME NEW bits \in Seq(Bit), NEW i \in 0 .. Len(bits)
  PROVE  RegisterStates(bits)[i] = StateAt(bits, i)
<1> DEFINE n == Len(bits)
           f == RegisterStates(bits)
           P == {k \in Nat : k <= n => f[k] = StateAt(bits, k)}
<1>1. n \in Nat /\ \A k \in 1 .. n : bits[k] \in Bit
  OBVIOUS
<1>2. \A k \in Nat : k <= n => BitAt(bits, k) \in {0, 1} /\ BitAt(bits, k - 1) \in {0, 1}
  BY <1>1 DEF BitAt, Bit
<1>3. f[0] = 0 /\ \A k \in 1 .. n : f[k] = NextState(f[k - 1], bits[k])
  BY RegisterSteps
<1> HIDE DEF f
<1>4. 0 \in P
  BY <1>3 DEF StateAt, BitAt
<1>5. ASSUME NEW k \in Nat, k \in P, k + 1 <= n
      PROVE  f[k + 1] = StateAt(bits, k + 1)
  <2>1. k + 1 \in 1 .. n /\ (k + 1) - 1 = k /\ f[k] = StateAt(bits, k)
    BY <1>1, <1>5
  <2>2. f[k + 1] = NextState(StateAt(bits, k), bits[k + 1])
    BY <1>3, <2>1
  <2>3. BitAt(bits, k) \in {0, 1} /\ BitAt(bits, k - 1) \in {0, 1} /\ bits[k + 1] \in {0, 1}
    BY <1>1, <1>2, <2>1 DEF Bit
  <2>4. BitAt(bits, k + 1) = bits[k + 1]
    BY DEF BitAt
  <2> QED
    BY <2>1, <2>2, <2>3, <2>4 DEF StateAt, NextState
<1>6. \A k \in Nat : k \in P => k + 1 \in P
  BY <1>5
<1> HIDE DEF P
<1>7. i \in P
  BY <1>1, <1>4, <1>6, SetInduction
<1> QED
  BY <1>1, <1>7 DEF P, f

\* The symbol that a sequence sends for its i-th bit.
LEMMA SymbolSent ==
  ASSUME NEW bits \in Seq(Bit), NEW i \in 1 .. Len(bits)
  PROVE  /\ StateAt(bits, i - 1) \in States
         /\ Symbols(bits)[i] = EncodedSymbol(StateAt(bits, i - 1), bits[i])
         /\ Symbols(bits)[i] \in 0 .. 3
         /\ StateAt(bits, i) = NextState(StateAt(bits, i - 1), bits[i])
<1>1. Len(bits) \in Nat /\ bits[i] \in Bit /\ i - 1 \in 0 .. Len(bits) /\ i \in 0 .. Len(bits)
  OBVIOUS
<1>2. RegisterStates(bits)[i - 1] = StateAt(bits, i - 1) /\ RegisterStates(bits)[i] = StateAt(bits, i)
  BY <1>1, RegisterHoldsTwoBits
<1>3. RegisterStates(bits)[i - 1] \in States
      /\ RegisterStates(bits)[i] = NextState(RegisterStates(bits)[i - 1], bits[i])
  BY <1>1, RegisterSteps
<1>4. Symbols(bits)[i] = EncodedSymbol(RegisterStates(bits)[i - 1], bits[i])
  BY <1>1 DEF Symbols
<1>5. EncodedSymbol(StateAt(bits, i - 1), bits[i]) \in 0 .. 3
  BY <1>1, <1>2, <1>3 DEF EncodedSymbol, States, Bit
<1> QED
  BY <1>2, <1>3, <1>4, <1>5

\* A function that adds up weights one after the other.
AddsUp(sum, n, weight) ==
  sum = [i \in 0 .. n |-> IF i = 0 THEN 0 ELSE sum[i - 1] + weight[i]]

\* There is a function that adds up integer weights.
LEMMA SumExists ==
  ASSUME NEW n \in Nat, NEW weight \in [1 .. n -> Int]
  PROVE  \E sum : AddsUp(sum, n, weight)
<1> DEFINE step == [p \in Int \X (1 .. n) |-> p[1] + weight[p[2]]]
           next(v, i) == v + weight[i]
<1>1. step \in [Int \X (1 .. n) -> Int]
  OBVIOUS
<1>2. ASSUME NEW v \in Int, NEW i \in 1 .. n
      PROVE  step[<<v, i>>] = next(v, i)
  <2> DEFINE p == <<v, i>>
  <2>1. p \in Int \X (1 .. n) /\ p[1] = v /\ p[2] = i
    OBVIOUS
  <2> HIDE DEF p
  <2>2. step[p] = p[1] + weight[p[2]]
    BY <2>1
  <2>3. step[p] = v + weight[i]
    BY <2>1, <2>2
  <2> QED
    BY <2>3 DEF p
<1> HIDE DEF step
<1>3. 0 \in Int
  OBVIOUS
<1>4. HasRecursion(Int, 0, n, step)
  BY <1>1, <1>3, RecursionExists
<1>5. PICK g \in [0 .. n -> Int] : /\ g[0] = 0
                                   /\ \A i \in 1 .. n : g[i] = step[<<g[i - 1], i>>]
  BY <1>4 DEF HasRecursion
<1> HIDE DEF next
<1>6. ASSUME NEW i \in 1 .. n
      PROVE  g[i] = next(g[i - 1], i)
  <2>1. i - 1 \in 0 .. n /\ g[i - 1] \in Int
    OBVIOUS
  <2> QED
    BY <1>2, <1>5, <2>1
<1>7. g = [i \in 0 .. n |-> IF i = 0 THEN 0 ELSE next(g[i - 1], i)]
  BY <1>5, <1>6
<1>8. AddsUp(g, n, weight)
  BY <1>7 DEF AddsUp, next
<1> QED
  BY <1>8

\* A sum of integer weights is an integer at every step.
LEMMA SumSteps ==
  ASSUME NEW n \in Nat, NEW weight \in [1 .. n -> Int], NEW sum, AddsUp(sum, n, weight)
  PROVE  /\ sum \in [0 .. n -> Int]
         /\ sum[0] = 0
         /\ \A i \in 1 .. n : sum[i] = sum[i - 1] + weight[i]
<1> DEFINE next(v, i) == v + weight[i]
<1>1. sum = [i \in 0 .. n |-> IF i = 0 THEN 0 ELSE next(sum[i - 1], i)]
  BY DEF AddsUp
<1>2. \A v \in Int, i \in 1 .. n : next(v, i) \in Int
  OBVIOUS
<1> HIDE DEF next
<1>3. sum[0] = 0 /\ \A i \in 1 .. n : sum[i] = next(sum[i - 1], i)
  BY <1>1
<1> DEFINE P == {k \in Nat : k <= n => sum[k] \in Int}
<1>4. ASSUME NEW k \in Nat, k \in P, k + 1 <= n
      PROVE  sum[k + 1] \in Int
  <2>1. k + 1 \in 1 .. n /\ (k + 1) - 1 = k /\ sum[k] \in Int
    BY <1>4
  <2>2. sum[k + 1] = next(sum[k], k + 1)
    BY <1>3, <2>1
  <2> QED
    BY <1>2, <2>1, <2>2
<1>5. 0 \in P /\ \A k \in Nat : k \in P => k + 1 \in P
  BY <1>3, <1>4
<1> HIDE DEF P
<1>6. Nat \subseteq P
  BY <1>5, SetInduction
<1>7. \A k \in 0 .. n : sum[k] \in Int
  BY <1>6 DEF P
<1>8. sum \in [0 .. n -> Int]
  BY <1>1, <1>7
<1> QED
  BY <1>3, <1>8 DEF next

\* What the i-th symbol of a sequence adds to its metric.
Branch(received, bits, i) ==
  SymbolMetrics(received[2 * i - 1], received[2 * i])[Symbols(bits)[i]]

\* Every branch of a sequence within the input has an integer metric.
LEMMA BranchIsInteger ==
  ASSUME NEW received \in Seq(Int), NEW bits \in Seq(Bit), 2 * Len(bits) <= Len(received),
         NEW i \in 1 .. Len(bits)
  PROVE  /\ Branch(received, bits, i) \in Int
         /\ Branch(received, bits, i) = Correlation(received, Symbols(bits), i)
<1>1. Len(bits) \in Nat /\ 2 * i - 1 \in 1 .. Len(received) /\ 2 * i \in 1 .. Len(received)
  OBVIOUS
<1>2. received[2 * i - 1] \in Int /\ received[2 * i] \in Int
  BY <1>1
<1>3. Symbols(bits)[i] \in 0 .. 3
  BY SymbolSent
<1> DEFINE symbols == Symbols(bits)
           symbol == symbols[i]
           first == received[2 * i - 1]
           second == received[2 * i]
<1>4. Branch(received, bits, i)
        = (IF symbol \div 2 = 1 THEN first ELSE -first) + (IF symbol % 2 = 1 THEN second ELSE -second)
  BY <1>3 DEF Branch, SymbolMetrics
<1>5. Correlation(received, symbols, i)
        = (IF symbol \div 2 = 1 THEN first ELSE -first) + (IF symbol % 2 = 1 THEN second ELSE -second)
  BY DEF Correlation
<1> HIDE DEF symbols, symbol, first, second
<1>6. first \in Int /\ second \in Int
  BY <1>2 DEF first, second
<1>7. (IF symbol \div 2 = 1 THEN first ELSE -first) + (IF symbol % 2 = 1 THEN second ELSE -second) \in Int
  BY <1>6
<1> QED
  BY <1>4, <1>5, <1>7 DEF symbols

\* The metric of a sequence grows by one branch after the other.
LEMMA PartialMetricsSteps ==
  ASSUME NEW received \in Seq(Int), NEW bits \in Seq(Bit), 2 * Len(bits) <= Len(received)
  PROVE  /\ PartialMetrics(received, bits) \in [0 .. Len(bits) -> Int]
         /\ PartialMetrics(received, bits)[0] = 0
         /\ \A i \in 1 .. Len(bits) :
              PartialMetrics(received, bits)[i]
                = PartialMetrics(received, bits)[i - 1] + Branch(received, bits, i)
<1> DEFINE n == Len(bits)
           weight == [i \in 1 .. n |-> Correlation(received, Symbols(bits), i)]
           sum == PartialMetrics(received, bits)
<1>1. n \in Nat
  OBVIOUS
<1>2. \A i \in 1 .. n : weight[i] \in Int /\ weight[i] = Branch(received, bits, i)
                        /\ weight[i] = Correlation(received, Symbols(bits), i)
  BY BranchIsInteger
<1>3. sum = CHOOSE f : f = [i \in 0 .. n |->
                              IF i = 0 THEN 0
                              ELSE f[i - 1] + Correlation(received, Symbols(bits), i)]
  BY DEF PartialMetrics
<1>weights. weight \in [1 .. n -> Int]
  BY <1>2
<1> HIDE DEF sum, weight, n
<1>4. \A f : [i \in 0 .. n |-> IF i = 0 THEN 0
                               ELSE f[i - 1] + Correlation(received, Symbols(bits), i)]
             = [i \in 0 .. n |-> IF i = 0 THEN 0 ELSE f[i - 1] + weight[i]]
  BY <1>1, <1>2
<1>5. sum = CHOOSE f : AddsUp(f, n, weight)
  BY <1>3, <1>4 DEF AddsUp
<1>recursive. AddsUp(sum, n, weight)
  BY <1>1, <1>weights, <1>5, SumExists
<1>6. /\ sum \in [0 .. n -> Int]
      /\ sum[0] = 0
      /\ \A i \in 1 .. n : sum[i] = sum[i - 1] + weight[i]
  BY <1>1, <1>weights, <1>recursive, SumSteps
<1> QED
  BY <1>2, <1>6 DEF sum, n

\* A path of n bits.
PathsOf(n) == [1 .. n -> Bit]

\* The metric of a path.
MetricOf(received, bits) == PartialMetrics(received, bits)[Len(bits)]

\* Paths are bit sequences of their length.
LEMMA PathsAreSequences ==
  ASSUME NEW n \in Nat
  PROVE  \A bits : bits \in PathsOf(n) <=> bits \in Seq(Bit) /\ Len(bits) = n
<1>1. ASSUME NEW bits \in PathsOf(n)
      PROVE  bits \in Seq(Bit) /\ Len(bits) = n
  BY DEF PathsOf
<1>2. ASSUME NEW bits \in Seq(Bit), Len(bits) = n
      PROVE  bits \in PathsOf(n)
  BY <1>2 DEF PathsOf
<1> QED
  BY <1>1, <1>2

\* A path has an integer metric and ends in a state.
LEMMA PathBasics ==
  ASSUME NEW received \in Seq(Int), NEW n \in Nat, 2 * n <= Len(received), NEW bits \in PathsOf(n)
  PROVE  /\ bits \in Seq(Bit) /\ Len(bits) = n
         /\ MetricOf(received, bits) \in Int
         /\ FinalState(bits) = StateAt(bits, n)
         /\ FinalState(bits) \in States
         /\ n = 0 => FinalState(bits) = 0 /\ MetricOf(received, bits) = 0
<1>1. bits \in Seq(Bit) /\ Len(bits) = n
  BY PathsAreSequences
<1>2. PartialMetrics(received, bits) \in [0 .. n -> Int] /\ PartialMetrics(received, bits)[0] = 0
  BY <1>1, PartialMetricsSteps
<1>3. FinalState(bits) = StateAt(bits, n)
  BY <1>1 DEF FinalState, StateAt, BitAt
<1>4. RegisterStates(bits)[n] = StateAt(bits, n) /\ RegisterStates(bits)[n] \in States
      /\ RegisterStates(bits)[0] = 0
  BY <1>1, RegisterSteps, RegisterHoldsTwoBits
<1> QED
  <2>1. MetricOf(received, bits) = PartialMetrics(received, bits)[n] /\ n \in 0 .. n
    BY <1>1 DEF MetricOf
  <2>2. MetricOf(received, bits) \in Int
    BY <1>2, <2>1
  <2>3. n = 0 => FinalState(bits) = 0 /\ MetricOf(received, bits) = 0
    BY <1>2, <1>3, <1>4, <2>1
  <2> QED
    BY <1>1, <1>3, <1>4, <2>2, <2>3

\* Sequences that agree so far have the same metric so far.
LEMMA PrefixMetrics ==
  ASSUME NEW received \in Seq(Int), NEW a \in Seq(Bit), NEW b \in Seq(Bit),
         2 * Len(a) <= Len(received), 2 * Len(b) <= Len(received),
         NEW k \in Nat, k <= Len(a), k <= Len(b), \A i \in 1 .. k : a[i] = b[i]
  PROVE  PartialMetrics(received, a)[k] = PartialMetrics(received, b)[k]
<1> DEFINE P == {m \in Nat : m <= k => PartialMetrics(received, a)[m] = PartialMetrics(received, b)[m]}
<1>1. Len(a) \in Nat /\ Len(b) \in Nat
  OBVIOUS
<1>2. 0 \in P
  BY PartialMetricsSteps
<1>3. ASSUME NEW m \in Nat, m \in P, m + 1 <= k
      PROVE  PartialMetrics(received, a)[m + 1] = PartialMetrics(received, b)[m + 1]
  <2>1. m + 1 \in 1 .. Len(a) /\ m + 1 \in 1 .. Len(b) /\ (m + 1) - 1 = m
    BY <1>1, <1>3
  <2>2. \A i \in Int : i <= k => BitAt(a, i) = BitAt(b, i)
    BY DEF BitAt
  <2>3. StateAt(a, m) = StateAt(b, m)
    BY <1>3, <2>2 DEF StateAt
  <2>4. Symbols(a)[m + 1] = EncodedSymbol(StateAt(a, m), a[m + 1])
    BY <2>1, SymbolSent
  <2>5. Symbols(b)[m + 1] = EncodedSymbol(StateAt(b, m), b[m + 1])
    BY <2>1, SymbolSent
  <2>6. m + 1 \in 1 .. k
    BY <1>3
  <2>7. Symbols(a)[m + 1] = Symbols(b)[m + 1]
    BY <2>3, <2>4, <2>5, <2>6
  <2>8. Branch(received, a, m + 1) = Branch(received, b, m + 1)
    BY <2>7 DEF Branch
  <2>9. PartialMetrics(received, a)[m + 1] = PartialMetrics(received, a)[m] + Branch(received, a, m + 1)
    BY <2>1, PartialMetricsSteps
  <2>10. PartialMetrics(received, b)[m + 1] = PartialMetrics(received, b)[m] + Branch(received, b, m + 1)
    BY <2>1, PartialMetricsSteps
  <2>11. PartialMetrics(received, a)[m] = PartialMetrics(received, b)[m]
    BY <1>3
  <2> QED
    BY <2>8, <2>9, <2>10, <2>11
<1>4. \A m \in Nat : m \in P => m + 1 \in P
  BY <1>3
<1> HIDE DEF P
<1>5. k \in P
  BY <1>2, <1>4, SetInduction
<1> QED
  BY <1>5 DEF P

\* One more bit: the state moves on and the metric grows by its branch.
LEMMA AppendedPath ==
  ASSUME NEW received \in Seq(Int), NEW n \in Nat, 2 * (n + 1) <= Len(received),
         NEW bits \in PathsOf(n), NEW x \in Bit
  PROVE  /\ Append(bits, x) \in PathsOf(n + 1)
         /\ FinalState(Append(bits, x)) = NextState(FinalState(bits), x)
         /\ MetricOf(received, Append(bits, x))
              = MetricOf(received, bits)
                + SymbolMetrics(received[2 * (n + 1) - 1], received[2 * (n + 1)])
                    [EncodedSymbol(FinalState(bits), x)]
<1> DEFINE longer == Append(bits, x)
<1>1. bits \in Seq(Bit) /\ Len(bits) = n /\ FinalState(bits) = StateAt(bits, n)
  BY PathBasics
<1>2. longer \in Seq(Bit) /\ Len(longer) = n + 1 /\ longer[n + 1] = x
      /\ \A i \in 1 .. n : longer[i] = bits[i]
  BY <1>1, AppendProperties
<1> HIDE DEF longer
<1>3. longer \in PathsOf(n + 1) /\ FinalState(longer) = StateAt(longer, n + 1)
  <2>1. longer \in PathsOf(n + 1)
    BY <1>2, PathsAreSequences
  <2> QED
    BY <2>1, PathBasics
<1>4. StateAt(longer, n) = StateAt(bits, n)
  BY <1>1, <1>2 DEF StateAt, BitAt
<1>5. n + 1 \in 1 .. Len(longer) /\ (n + 1) - 1 = n
  BY <1>2
<1>6. /\ Symbols(longer)[n + 1] = EncodedSymbol(FinalState(bits), x)
      /\ StateAt(longer, n + 1) = NextState(FinalState(bits), x)
  BY <1>1, <1>2, <1>4, <1>5, SymbolSent
<1>7. PartialMetrics(received, longer)[n + 1]
        = PartialMetrics(received, longer)[n] + Branch(received, longer, n + 1)
  BY <1>2, <1>5, PartialMetricsSteps
<1>8. PartialMetrics(received, longer)[n] = PartialMetrics(received, bits)[n]
  <2>1. 2 * Len(longer) <= Len(received) /\ 2 * Len(bits) <= Len(received)
        /\ n <= Len(longer) /\ n <= Len(bits)
    BY <1>1, <1>2
  <2>2. \A i \in 1 .. n : longer[i] = bits[i]
    BY <1>2
  <2> QED
    BY <1>1, <1>2, <2>1, <2>2, PrefixMetrics
<1>9. MetricOf(received, longer) = MetricOf(received, bits) + Branch(received, longer, n + 1)
  BY <1>1, <1>2, <1>7, <1>8 DEF MetricOf
<1> QED
  BY <1>3, <1>6, <1>9 DEF Branch, longer

\* Every path of one more bit is a path and its last bit.
LEMMA PathIsAppended ==
  ASSUME NEW n \in Nat, NEW longer \in PathsOf(n + 1)
  PROVE  \E bits \in PathsOf(n), x \in Bit : longer = Append(bits, x)
<1> DEFINE bits == [i \in 1 .. n |-> longer[i]]
           x == longer[n + 1]
<1>1. longer \in Seq(Bit) /\ Len(longer) = n + 1
  BY PathsAreSequences
<1>2. bits \in PathsOf(n) /\ x \in Bit /\ bits \in Seq(Bit) /\ Len(bits) = n
  BY <1>1 DEF PathsOf
<1>3. \A i \in 1 .. n : bits[i] = longer[i]
  OBVIOUS
<1> HIDE DEF bits
<1>4. Append(bits, x) \in Seq(Bit) /\ Len(Append(bits, x)) = n + 1
  BY <1>2, AppendProperties
<1>5. \A i \in 1 .. n + 1 : Append(bits, x)[i] = longer[i]
  BY <1>2, <1>3, AppendProperties
<1>6. longer = Append(bits, x)
  BY <1>1, <1>4, <1>5, SeqEqual
<1> QED
  BY <1>2, <1>6

-----------------------------------------------------------------------------
\* The paths of n bits that end in a state.
PathsInto(n, state) == {bits \in PathsOf(n) : FinalState(bits) = state}

\* A path into a state that no other path into it beats.
IsBestInto(received, bits, n, state) ==
  /\ bits \in PathsInto(n, state)
  /\ \A other \in PathsInto(n, state) : MetricOf(received, other) <= MetricOf(received, bits)

\* A path through the whole input that no other beats.
IsBest(received, bits, n) ==
  /\ bits \in PathsOf(n)
  /\ \A other \in PathsOf(n) : MetricOf(received, other) <= MetricOf(received, bits)

\* Each metric is that of the best path into its state.
SurvivorsPart ==
  \A state \in States :
    IF PathsInto(t, state) = {} THEN path_metrics[state] = NegInf
    ELSE \E bits \in PathsInto(t, state) :
           IsBestInto(soft, bits, t, state) /\ path_metrics[state] = MetricOf(soft, bits)

\* One link of the traceback: a best path into the state before, extended by
\* the decision, is a best path into the state.
Link(received, i, state, before, decision) ==
  /\ before \in States
  /\ decision \in Bit
  /\ PathsInto(i - 1, before) # {}
  /\ \A bits \in PathsInto(i - 1, before) :
       IsBestInto(received, bits, i - 1, before)
         => IsBestInto(received, Append(bits, decision), i, state)

LinksPart ==
  /\ predecessors \in Seq([States -> States])
  /\ Len(predecessors) = t
  /\ t <= symbol_count
  /\ \A i \in 1 .. t : \A state \in States :
       PathsInto(i, state) # {}
         => Link(soft, i, state, predecessors[i][state], decisions[i][state])

\* The bits traced back complete every best path into the state of the
\* traceback to a best path through the whole input.
TracePart ==
  /\ pc \in {"metrics", "acs"} => decoded_bits = << >>
  /\ pc \in {"trace", "done"} =>
       LET left == symbol_count - Len(decoded_bits)
       IN  /\ t = symbol_count
           /\ decoded_bits \in Seq(Bit)
           /\ left \in Nat
           /\ best_state \in States
           /\ PathsInto(left, best_state) # {}
           /\ \A bits \in PathsInto(left, best_state) :
                IsBestInto(soft, bits, left, best_state)
                  => IsBest(soft, bits \o decoded_bits, symbol_count)
  /\ pc = "done" => /\ Len(decoded_bits) = symbol_count
                    /\ symbol_count >= TailBits
                    /\ hard_out = SubSeq(decoded_bits, 1, symbol_count - TailBits)

PathsInv == SurvivorsPart /\ LinksPart /\ TracePart

-----------------------------------------------------------------------------

\* The soft decisions are integers and hold two for every symbol.
LEMMA SoftIsIntegers ==
  ASSUME Phases
  PROVE  /\ soft \in Seq(Int)
         /\ symbol_count \in Nat
         /\ 2 * symbol_count <= Len(soft)
         /\ t \in Nat
<1>1. soft \in Seq(-SoftLimit .. SoftLimit)
  BY DEF Phases
<1>2. -SoftLimit .. SoftLimit \subseteq Int
  BY SoftLimitAssumption
<1>3. soft \in Seq(Int)
  <2> DEFINE Decision == -SoftLimit .. SoftLimit
  <2>1. soft \in Seq(Decision) /\ Decision \subseteq Int
    BY <1>1, <1>2
  <2> HIDE DEF Decision
  <2> QED
    BY <2>1, SeqMonotonic
<1>4. Len(soft) \in Nat
  BY <1>3
<1>5. symbol_count \in Nat /\ 2 * symbol_count <= Len(soft)
  BY <1>4 DEF symbol_count
<1>6. t \in Nat
  BY DEF Phases, t
<1> QED
  BY <1>3, <1>5, <1>6

\* A path into a state is extended into each state after it.
LEMMA PathExtends ==
  ASSUME NEW received \in Seq(Int), NEW n \in Nat, 2 * (n + 1) <= Len(received),
         NEW next \in States, NEW state \in Reached(next), NEW bits \in PathsInto(n, state)
  PROVE  /\ Append(bits, next % 2) \in PathsInto(n + 1, next)
         /\ MetricOf(received, Append(bits, next % 2))
              = MetricOf(received, bits)
                + SymbolMetrics(received[2 * (n + 1) - 1], received[2 * (n + 1)])
                    [EncodedSymbol(state, next % 2)]
<1>1. next % 2 \in Bit /\ state \in States /\ NextState(state, next % 2) = next
  BY DEF Reached, States, Bit
<1>2. bits \in PathsOf(n) /\ FinalState(bits) = state
  BY DEF PathsInto
<1>3. /\ Append(bits, next % 2) \in PathsOf(n + 1)
      /\ FinalState(Append(bits, next % 2)) = NextState(FinalState(bits), next % 2)
      /\ MetricOf(received, Append(bits, next % 2))
           = MetricOf(received, bits)
             + SymbolMetrics(received[2 * (n + 1) - 1], received[2 * (n + 1)])
                 [EncodedSymbol(FinalState(bits), next % 2)]
  BY <1>1, <1>2, AppendedPath
<1> QED
  BY <1>1, <1>2, <1>3 DEF PathsInto

\* A path into a state comes from a path into one of the states before it.
LEMMA PathContracts ==
  ASSUME NEW received \in Seq(Int), NEW n \in Nat, 2 * (n + 1) <= Len(received),
         NEW next \in States, NEW longer \in PathsInto(n + 1, next)
  PROVE  \E state \in Reached(next) : \E bits \in PathsInto(n, state) :
           longer = Append(bits, next % 2)
<1>1. longer \in PathsOf(n + 1) /\ FinalState(longer) = next
  BY DEF PathsInto
<1>2. PICK bits \in PathsOf(n), x \in Bit : longer = Append(bits, x)
  BY <1>1, PathIsAppended
<1> DEFINE state == FinalState(bits)
<1>3. FinalState(longer) = NextState(state, x)
  BY <1>2, AppendedPath
<1>4. 2 * n <= Len(received)
  BY DEF States
<1>5. state \in States
  BY <1>4, PathBasics
<1>6. NextState(state, x) % 2 = x
  <2>1. state \in {0, 1, 2, 3} /\ x \in {0, 1}
    BY <1>5 DEF States, Bit
  <2> HIDE DEF state
  <2> QED
    BY <2>1, NextStates
<1>7. next % 2 = x /\ state \in Reached(next)
  BY <1>1, <1>3, <1>5, <1>6 DEF Reached
<1>8. bits \in PathsInto(n, state)
  BY DEF PathsInto
<1> QED
  BY <1>2, <1>7, <1>8

\* The symbols that the recurrence has prepared have branch metrics.
LEMMA BranchesOfSymbol ==
  ASSUME IInv, pc = "acs", NEW i \in 1 .. symbol_count
  PROVE  /\ tables[i] = SymbolMetrics(soft[2 * i - 1], soft[2 * i])
         /\ IsBranch(tables[i])
<1>1. i \in 1 .. prepared
  BY DEF IInv, TablesPart
<1>2. tables[i] = SymbolMetrics(soft[2 * i - 1], soft[2 * i])
  BY <1>1 DEF IInv, TablesPart
<1> QED
  BY <1>2, SoftDecisions, SymbolMetricsIsBranch DEF IInv

\* In the first two steps the recurrence is far from kNegInf: a state with a
\* path has taken at most one branch.
LEMMA EarlyMetrics ==
  ASSUME IInv, SurvivorsPart, pc = "acs", t < symbol_count, t <= 1,
         NEW state \in States, PathsInto(t, state) # {}
  PROVE  path_metrics[state] >= HalfFloor
<1>1. soft \in Seq(Int) /\ symbol_count \in Nat /\ 2 * symbol_count <= Len(soft) /\ t \in Nat
  BY SoftIsIntegers DEF IInv
<1>2. PICK bits \in PathsInto(t, state) : path_metrics[state] = MetricOf(soft, bits)
  BY DEF SurvivorsPart
<1>3. bits \in PathsOf(t) /\ 2 * t <= Len(soft)
  BY <1>1 DEF PathsInto
<1>4. HalfFloor \in Int /\ HalfFloor <= 0
  BY SoftLimitAssumption DEF HalfFloor
<1>5. CASE t = 0
  BY <1>1, <1>2, <1>3, <1>4, <1>5, PathBasics
<1>6. CASE t = 1
  <2>0. PICK n \in Nat : n = 0 /\ n + 1 = t
    BY <1>6
  <2>1. 2 * (n + 1) <= Len(soft) /\ n + 1 \in 1 .. symbol_count
    BY <1>1, <1>3, <1>6, <2>0
  <2>2. bits \in PathsInto(n + 1, state)
    BY <2>0
  <2>3. PICK before \in Reached(state) : \E b \in PathsInto(n, before) : bits = Append(b, state % 2)
    BY <1>1, <2>1, <2>2, PathContracts
  <2>4. PICK b \in PathsInto(n, before) : bits = Append(b, state % 2)
    BY <2>3
  <2>5. MetricOf(soft, bits)
          = MetricOf(soft, b) + SymbolMetrics(soft[2 * (n + 1) - 1], soft[2 * (n + 1)])
                                  [EncodedSymbol(before, state % 2)]
    BY <1>1, <2>1, <2>4, PathExtends
  <2>6. MetricOf(soft, b) = 0
    <3>1. b \in PathsOf(n) /\ 2 * n <= Len(soft)
      BY <1>1, <2>0 DEF PathsInto
    <3> QED
      BY <1>1, <2>0, <3>1, PathBasics
  <2>7. IsBranch(SymbolMetrics(soft[2 * (n + 1) - 1], soft[2 * (n + 1)]))
    BY <2>1, BranchesOfSymbol
  <2>8. EncodedSymbol(before, state % 2) \in 0 .. 3
    BY DEF EncodedSymbol, Reached, States
  <2> QED
    BY <1>2, <1>4, <2>5, <2>6, <2>7, <2>8 DEF IsBranch
<1> QED
  BY <1>1, <1>5, <1>6

\* The recurrence drops no path that could matter: whatever state a path into
\* the next state comes from, the new metric is at least the path's.
LEMMA NoPathIsLost ==
  ASSUME IInv, SurvivorsPart, AddCompareSelect, NEW next \in States,
         NEW state \in Reached(next), PathsInto(t, state) # {}
  PROVE  /\ Candidates(next) # {}
         /\ CandidateMetric(state, next) \in Int
         /\ path_metrics'[next] \in Int
         /\ CandidateMetric(state, next) <= path_metrics'[next]
<1>1. pc = "acs" /\ t < symbol_count /\ t \in Nat /\ IsBranch(tables[t + 1])
  BY NextBranches DEF AddCompareSelect
<1>2. state \in States /\ next = NextState(state, next % 2) /\ next % 2 \in Bit
  BY DEF Reached, States, Bit
<1>3. path_metrics \in [States -> Int] /\ path_metrics' \in [States -> Int]
  BY <1>1, AddCompareSelectMetrics DEF IInv, MetricsPart
<1>4. EncodedSymbol(state, next % 2) \in 0 .. 3
  BY <1>2 DEF EncodedSymbol, States, Bit
<1>5. CandidateMetric(state, next) \in Int /\ path_metrics'[next] \in Int
  BY <1>1, <1>2, <1>3, <1>4 DEF CandidateMetric, IsBranch
<1>6. CASE state \in Candidates(next)
  BY <1>1, <1>3, <1>5, <1>6, NewMetrics
<1>7. CASE state \notin Candidates(next)
  <2>1. t >= 2
    <3>1. SUFFICES ASSUME t <= 1 PROVE FALSE
      BY <1>1
    <3>2. path_metrics[state] >= HalfFloor
      BY <1>1, <1>2, <3>1, EarlyMetrics
    <3>3. state \in Candidates(NextState(state, next % 2))
      BY <1>1, <1>2, <1>3, <3>2, CandidateFrom
    <3> QED
      BY <1>2, <1>7, <3>3
  <2>2. path_metrics[state] # NegInf
    BY <1>2, <2>1 DEF IInv, MetricsPart
  <2>3. CandidateMetric(state, next) <= NegInf
    BY <1>5, <1>7, <2>2, NegInfAssumption DEF Candidates
  <2>4. path_metrics'[next] # NegInf
        /\ (path_metrics'[next] = NegInf \/ path_metrics'[next] >= Floor)
    BY <1>1, <2>1, AddCompareSelectMetrics DEF IInv
  <2>5. NegInf \in Int /\ Floor \in Int /\ NegInf < Floor
    BY NegInfAssumption, SoftLimitAssumption DEF Floor
  <2>6. Candidates(next) # {}
    BY <1>1, <1>3, <2>4, NewMetrics
  <2> QED
    BY <1>5, <2>3, <2>4, <2>5, <2>6
<1> QED
  BY <1>6, <1>7

\* A candidate has the metric of a best path into it, extended by its branch.
LEMMA CandidateOfBestPath ==
  ASSUME IInv, SurvivorsPart, pc = "acs", t < symbol_count, NEW next \in States,
         NEW state \in Reached(next), NEW bits, IsBestInto(soft, bits, t, state)
  PROVE  /\ Append(bits, next % 2) \in PathsInto(t + 1, next)
         /\ MetricOf(soft, Append(bits, next % 2)) = CandidateMetric(state, next)
<1>1. soft \in Seq(Int) /\ symbol_count \in Nat /\ 2 * symbol_count <= Len(soft) /\ t \in Nat
  BY SoftIsIntegers DEF IInv
<1>2. 2 * (t + 1) <= Len(soft) /\ 2 * t <= Len(soft) /\ t + 1 \in 1 .. symbol_count
  BY <1>1
<1>3. bits \in PathsInto(t, state) /\ state \in States
  BY DEF IsBestInto, Reached
<1>4. PICK path \in PathsInto(t, state) :
        IsBestInto(soft, path, t, state) /\ path_metrics[state] = MetricOf(soft, path)
  BY <1>3 DEF SurvivorsPart
<1>5. MetricOf(soft, bits) = path_metrics[state]
  <2>1. bits \in PathsOf(t) /\ path \in PathsOf(t)
    BY <1>3, <1>4 DEF PathsInto
  <2>2. MetricOf(soft, bits) \in Int /\ MetricOf(soft, path) \in Int
    BY <1>1, <1>2, <2>1, PathBasics
  <2>3. MetricOf(soft, bits) <= MetricOf(soft, path) /\ MetricOf(soft, path) <= MetricOf(soft, bits)
    BY <1>3, <1>4 DEF IsBestInto
  <2> QED
    BY <1>4, <2>2, <2>3
<1>6. tables[t + 1] = SymbolMetrics(soft[2 * (t + 1) - 1], soft[2 * (t + 1)])
  BY <1>2, BranchesOfSymbol
<1>7. /\ Append(bits, next % 2) \in PathsInto(t + 1, next)
      /\ MetricOf(soft, Append(bits, next % 2))
           = MetricOf(soft, bits)
             + SymbolMetrics(soft[2 * (t + 1) - 1], soft[2 * (t + 1)])[EncodedSymbol(state, next % 2)]
  BY <1>1, <1>2, <1>3, PathExtends
<1> QED
  BY <1>5, <1>6, <1>7 DEF CandidateMetric

\* No path into a state beats the metric that the recurrence gives it.
LEMMA NewMetricBounds ==
  ASSUME IInv, SurvivorsPart, AddCompareSelect, NEW next \in States,
         NEW longer \in PathsInto(t + 1, next)
  PROVE  /\ MetricOf(soft, longer) <= path_metrics'[next]
         /\ Candidates(next) # {}
<1>1. soft \in Seq(Int) /\ symbol_count \in Nat /\ 2 * symbol_count <= Len(soft) /\ t \in Nat
      /\ pc = "acs" /\ t < symbol_count
  BY SoftIsIntegers DEF IInv, AddCompareSelect
<1>2. 2 * (t + 1) <= Len(soft) /\ 2 * t <= Len(soft) /\ t + 1 \in 1 .. symbol_count
  BY <1>1
<1>3. PICK state \in Reached(next) : \E b \in PathsInto(t, state) : longer = Append(b, next % 2)
  BY <1>1, <1>2, PathContracts
<1>4. PICK bits \in PathsInto(t, state) : longer = Append(bits, next % 2)
  BY <1>3
<1>5. /\ Candidates(next) # {}
      /\ CandidateMetric(state, next) \in Int
      /\ path_metrics'[next] \in Int
      /\ CandidateMetric(state, next) <= path_metrics'[next]
  BY <1>4, NoPathIsLost
<1>6. PICK path \in PathsInto(t, state) : IsBestInto(soft, path, t, state)
  BY <1>4 DEF SurvivorsPart, Reached
<1> DEFINE branch == SymbolMetrics(soft[2 * (t + 1) - 1], soft[2 * (t + 1)])[EncodedSymbol(state, next % 2)]
<1>7. MetricOf(soft, longer) = MetricOf(soft, bits) + branch
  BY <1>1, <1>2, <1>4, PathExtends
<1>8. CandidateMetric(state, next) = MetricOf(soft, path) + branch
  <2>1. MetricOf(soft, Append(path, next % 2)) = CandidateMetric(state, next)
    BY <1>1, <1>6, CandidateOfBestPath
  <2>2. MetricOf(soft, Append(path, next % 2)) = MetricOf(soft, path) + branch
    BY <1>1, <1>2, PathExtends
  <2> QED
    BY <2>1, <2>2
<1>9. MetricOf(soft, bits) <= MetricOf(soft, path)
  BY <1>4, <1>6 DEF IsBestInto
<1>10. MetricOf(soft, bits) \in Int /\ MetricOf(soft, path) \in Int
  <2>1. bits \in PathsOf(t) /\ path \in PathsOf(t)
    BY <1>4, <1>6 DEF PathsInto
  <2> QED
    BY <1>1, <1>2, <2>1, PathBasics
<1>11. branch \in Int
  <2>1. EncodedSymbol(state, next % 2) \in 0 .. 3
    BY DEF EncodedSymbol, Reached, States
  <2>2. IsBranch(SymbolMetrics(soft[2 * (t + 1) - 1], soft[2 * (t + 1)]))
    BY <1>1, <1>2, BranchesOfSymbol
  <2> QED
    BY <2>1, <2>2 DEF IsBranch
<1> HIDE DEF branch
<1> QED
  BY <1>5, <1>7, <1>8, <1>9, <1>10, <1>11

\* A best path into the survivor, extended, is a best path into the next state.
LEMMA SurvivorExtends ==
  ASSUME IInv, SurvivorsPart, AddCompareSelect, NEW next \in States,
         PathsInto(t + 1, next) # {}
  PROVE  /\ Candidates(next) # {}
         /\ Survivor(next) \in States
         /\ PathsInto(t, Survivor(next)) # {}
         /\ \A bits : IsBestInto(soft, bits, t, Survivor(next))
              => /\ IsBestInto(soft, Append(bits, next % 2), t + 1, next)
                 /\ path_metrics'[next] = MetricOf(soft, Append(bits, next % 2))
<1>1. pc = "acs" /\ t < symbol_count /\ t \in Nat /\ IsBranch(tables[t + 1])
  BY NextBranches DEF AddCompareSelect
<1>2. path_metrics \in [States -> Int]
  BY DEF IInv, MetricsPart
<1>3. Candidates(next) # {}
  BY NewMetricBounds
<1>4. ASSUME NEW state \in Candidates(next)
      PROVE  CandidateMetric(state, next) \in Int
  <2>1. state \in States /\ EncodedSymbol(state, next % 2) \in 0 .. 3
    BY DEF Candidates, Reached, EncodedSymbol, States
  <2> QED
    BY <1>1, <1>2, <2>1 DEF CandidateMetric, IsBranch
<1>5. Survivor(next) \in Candidates(next)
  BY <1>3, <1>4, SurvivorIsBest
<1>6. Survivor(next) \in Reached(next) /\ Survivor(next) \in States
      /\ path_metrics[Survivor(next)] # NegInf
  BY <1>5 DEF Candidates, Reached
<1>7. PathsInto(t, Survivor(next)) # {}
  BY <1>6 DEF SurvivorsPart
<1>8. path_metrics'[next] = CandidateMetric(Survivor(next), next)
  BY <1>3 DEF AddCompareSelect
<1>9. ASSUME NEW bits, IsBestInto(soft, bits, t, Survivor(next))
      PROVE  /\ IsBestInto(soft, Append(bits, next % 2), t + 1, next)
             /\ path_metrics'[next] = MetricOf(soft, Append(bits, next % 2))
  <2>1. /\ Append(bits, next % 2) \in PathsInto(t + 1, next)
        /\ MetricOf(soft, Append(bits, next % 2)) = CandidateMetric(Survivor(next), next)
    BY <1>1, <1>6, <1>9, CandidateOfBestPath
  <2>2. \A longer \in PathsInto(t + 1, next) : MetricOf(soft, longer) <= path_metrics'[next]
    BY NewMetricBounds
  <2> QED
    BY <1>8, <2>1, <2>2 DEF IsBestInto
<1> QED
  BY <1>3, <1>6, <1>7, <1>9

\* The recurrence leaves every state with the metric of its best path.
LEMMA StepSurvivors ==
  ASSUME IInv, SurvivorsPart, AddCompareSelect
  PROVE  SurvivorsPart' /\ t' = t + 1
<1>1. soft \in Seq(Int) /\ symbol_count \in Nat /\ 2 * symbol_count <= Len(soft) /\ t \in Nat
      /\ pc = "acs" /\ t < symbol_count /\ soft' = soft
  BY SoftIsIntegers DEF IInv, AddCompareSelect
<1>2. 2 * (t + 1) <= Len(soft)
  BY <1>1
<1>3. path_metrics \in [States -> Int] /\ IsBranch(tables[t + 1])
  BY <1>1, NextBranches DEF IInv, MetricsPart
<1>4. t' = t + 1
  BY DEF AddCompareSelect, t, IInv, Phases
<1>5. ASSUME NEW next \in States
      PROVE  IF PathsInto(t + 1, next) = {} THEN path_metrics'[next] = NegInf
             ELSE \E bits \in PathsInto(t + 1, next) :
                    IsBestInto(soft, bits, t + 1, next) /\ path_metrics'[next] = MetricOf(soft, bits)
  <2>1. CASE PathsInto(t + 1, next) = {}
    <3>1. ASSUME NEW state \in Candidates(next)
          PROVE  FALSE
      <4>1. state \in Reached(next) /\ state \in States /\ path_metrics[state] # NegInf
        BY DEF Candidates, Reached
      <4>2. PICK bits : bits \in PathsInto(t, state)
        BY <4>1 DEF SurvivorsPart
      <4> QED
        BY <1>1, <1>2, <2>1, <4>1, <4>2, PathExtends
    <3>2. Candidates(next) = {}
      BY <3>1
    <3> QED
      BY <1>3, <2>1, <3>2, NewMetrics
  <2>2. CASE PathsInto(t + 1, next) # {}
    <3> DEFINE from == Survivor(next)
    <3>1. /\ from \in States
          /\ PathsInto(t, from) # {}
          /\ \A bits : IsBestInto(soft, bits, t, from)
               => /\ IsBestInto(soft, Append(bits, next % 2), t + 1, next)
                  /\ path_metrics'[next] = MetricOf(soft, Append(bits, next % 2))
      BY <2>2, SurvivorExtends
    <3> HIDE DEF from
    <3>2. PICK bits : IsBestInto(soft, bits, t, from)
      BY <3>1 DEF SurvivorsPart
    <3>3. IsBestInto(soft, Append(bits, next % 2), t + 1, next)
          /\ path_metrics'[next] = MetricOf(soft, Append(bits, next % 2))
      BY <3>1, <3>2
    <3> QED
      BY <2>2, <3>3 DEF IsBestInto
  <2> QED
    BY <2>1, <2>2
<1> QED
  BY <1>1, <1>4, <1>5 DEF SurvivorsPart

\* The recurrence adds one link per state and keeps the earlier ones.
LEMMA StepLinks ==
  ASSUME IInv, SurvivorsPart, LinksPart, AddCompareSelect
  PROVE  LinksPart'
<1>1. symbol_count \in Nat /\ t \in Nat /\ t < symbol_count /\ soft' = soft /\ symbol_count' = symbol_count
  BY SoftIsIntegers DEF IInv, AddCompareSelect, symbol_count
<1>2. t' = t + 1
  BY StepSurvivors
<1> DEFINE from == [s \in States |-> IF Candidates(s) = {} THEN 0 ELSE Survivor(s)]
           taken == [s \in States |-> SurvivingBit(s)]
<1>3. predecessors' = Append(predecessors, from) /\ decisions' = Append(decisions, taken)
  BY DEF AddCompareSelect
<1>4. taken \in [States -> Bit]
  BY DEF SurvivingBit, States, Bit
<1>5. from \in [States -> States]
  <2>1. ASSUME NEW s \in States, Candidates(s) # {}
        PROVE  Survivor(s) \in States
    <3>1. path_metrics \in [States -> Int] /\ IsBranch(tables[t + 1])
      BY NextBranches DEF AddCompareSelect, IInv, MetricsPart
    <3>2. ASSUME NEW state \in Candidates(s)
          PROVE  CandidateMetric(state, s) \in Int /\ state \in States
      <4>1. state \in States /\ EncodedSymbol(state, s % 2) \in 0 .. 3
        BY DEF Candidates, Reached, EncodedSymbol, States
      <4> QED
        BY <3>1, <4>1 DEF CandidateMetric, IsBranch
    <3> QED
      BY <2>1, <3>2, SurvivorIsBest
  <2>2. 0 \in States
    BY DEF States
  <2> QED
    BY <2>1, <2>2
<1>6. \A s \in States : PathsInto(t + 1, s) # {} => from[s] = Survivor(s) /\ taken[s] = s % 2
  BY SurvivorExtends DEF SurvivingBit
<1>7. ASSUME NEW s \in States, PathsInto(t + 1, s) # {}
      PROVE  Link(soft, t + 1, s, from[s], taken[s])
  <2>1. (t + 1) - 1 = t /\ s % 2 \in Bit
    BY <1>1 DEF States, Bit
  <2>2. from[s] = Survivor(s) /\ taken[s] = s % 2
    BY <1>6, <1>7
  <2> HIDE DEF from, taken
  <2>3. /\ Survivor(s) \in States
        /\ PathsInto(t, Survivor(s)) # {}
        /\ \A bits : IsBestInto(soft, bits, t, Survivor(s))
             => IsBestInto(soft, Append(bits, s % 2), t + 1, s)
    BY <1>7, SurvivorExtends
  <2> QED
    BY <2>1, <2>2, <2>3 DEF Link
<1> HIDE DEF from, taken
<1>8. predecessors \in Seq([States -> States]) /\ Len(predecessors) = t
      /\ decisions \in Seq([States -> Bit]) /\ Len(decisions) = t
  BY DEF LinksPart, IInv, Phases, t
<1>9. /\ predecessors' \in Seq([States -> States])
      /\ Len(predecessors') = t + 1
      /\ predecessors'[t + 1] = from
      /\ \A i \in 1 .. t : predecessors'[i] = predecessors[i]
  BY <1>3, <1>5, <1>8, AppendProperties
<1>10. /\ decisions'[t + 1] = taken
       /\ \A i \in 1 .. t : decisions'[i] = decisions[i]
  BY <1>3, <1>4, <1>8, AppendProperties
<1>11. ASSUME NEW i \in 1 .. t + 1, NEW state \in States, PathsInto(i, state) # {}
       PROVE  Link(soft, i, state, predecessors'[i][state], decisions'[i][state])
  <2>1. CASE i = t + 1
    BY <1>7, <1>9, <1>10, <1>11, <2>1
  <2>2. CASE i # t + 1
    <3>1. i \in 1 .. t
      BY <1>1, <2>2
    <3>2. Link(soft, i, state, predecessors[i][state], decisions[i][state])
      BY <1>11, <3>1 DEF LinksPart
    <3> QED
      BY <1>9, <1>10, <3>1, <3>2
  <2> QED
    BY <2>1, <2>2
<1>12. t + 1 <= symbol_count
  BY <1>1
<1> QED
  BY <1>1, <1>2, <1>9, <1>11, <1>12 DEF LinksPart

\* The traceback starts at the end of a best path through the whole input.
LEMMA StartTrace ==
  ASSUME IInv, SurvivorsPart, TracePart, StartTraceback
  PROVE  TracePart'
<1>1. soft \in Seq(Int) /\ symbol_count \in Nat /\ 2 * symbol_count <= Len(soft)
      /\ t = symbol_count /\ pc = "acs" /\ decoded_bits = << >>
      /\ path_metrics \in [States -> Int] /\ \E state \in States : path_metrics[state] >= 0
  BY SoftIsIntegers DEF IInv, StartTraceback, TracePart, MetricsPart
<1>2. BestState \in States /\ \A other \in States : path_metrics[other] <= path_metrics[BestState]
  <2> DEFINE Best(state) == \A other \in States \ {state} :
               \/ path_metrics[state] > path_metrics[other]
               \/ path_metrics[state] = path_metrics[other] /\ state < other
  <2>1. \E state \in States : Best(state)
    <3>1. States = {0, 1, 2, 3}
      BY DEF States
    <3>2. path_metrics[0] \in Int /\ path_metrics[1] \in Int /\ path_metrics[2] \in Int
          /\ path_metrics[3] \in Int
      BY <1>1, <3>1
    <3>3. Best(0) \/ Best(1) \/ Best(2) \/ Best(3)
      BY <3>1, <3>2
    <3> QED
      BY <3>1, <3>3
  <2>2. BestState = CHOOSE state \in States : Best(state)
    BY DEF BestState
  <2>3. BestState \in States /\ Best(BestState)
    BY <2>1, <2>2
  <2>4. \A state \in States : path_metrics[state] \in Int
    BY <1>1
  <2> QED
    BY <2>3, <2>4
<1>3. PathsInto(symbol_count, BestState) # {}
  <2>1. PICK state \in States : path_metrics[state] >= 0
    BY <1>1
  <2>2. NegInf < 0
    BY NegInfAssumption, SoftLimitAssumption
  <2>3. path_metrics[state] \in Int /\ path_metrics[BestState] \in Int /\ NegInf \in Int
    BY <1>1, <1>2, NegInfAssumption
  <2>4. path_metrics[BestState] # NegInf
    BY <1>2, <2>1, <2>2, <2>3
  <2> QED
    BY <1>1, <1>2, <2>4 DEF SurvivorsPart
<1>4. ASSUME NEW bits \in PathsInto(symbol_count, BestState),
             IsBestInto(soft, bits, symbol_count, BestState)
      PROVE  IsBest(soft, bits \o << >>, symbol_count)
  <2>1. bits \in PathsOf(symbol_count) /\ bits \in Seq(Bit)
    BY <1>1, PathBasics DEF PathsInto
  <2>2. bits \o << >> = bits
    BY <2>1, ConcatEmptySeq
  <2>3. PICK path \in PathsInto(symbol_count, BestState) :
          path_metrics[BestState] = MetricOf(soft, path)
    BY <1>1, <1>2, <1>3 DEF SurvivorsPart
  <2>4. path_metrics[BestState] <= MetricOf(soft, bits)
    BY <1>4, <2>3 DEF IsBestInto
  <2>5. ASSUME NEW other \in PathsOf(symbol_count)
        PROVE  MetricOf(soft, other) <= MetricOf(soft, bits)
    <3> DEFINE state == FinalState(other)
    <3>1. state \in States
      BY <1>1, PathBasics
    <3>2. other \in PathsInto(symbol_count, state)
      BY DEF PathsInto
    <3> HIDE DEF state
    <3>3. MetricOf(soft, other) <= path_metrics[state]
      BY <1>1, <3>1, <3>2 DEF SurvivorsPart, IsBestInto
    <3>4. path_metrics[state] <= path_metrics[BestState]
      BY <1>2, <3>1
    <3>5. MetricOf(soft, other) \in Int /\ MetricOf(soft, bits) \in Int
      BY <1>1, <2>1, PathBasics
    <3>6. path_metrics[state] \in Int /\ path_metrics[BestState] \in Int
      BY <1>1, <1>2, <3>1
    <3> QED
      BY <2>4, <3>3, <3>4, <3>5, <3>6
  <2> QED
    BY <2>1, <2>2, <2>5 DEF IsBest
<1>5. /\ soft' = soft /\ symbol_count' = symbol_count /\ t' = t /\ pc' = "trace"
      /\ decoded_bits' = << >> /\ best_state' = BestState
  BY <1>1 DEF StartTraceback, symbol_count, t
<1>6. << >> \in Seq(Bit) /\ Len(<< >>) = 0 /\ symbol_count - 0 = symbol_count
  BY <1>1
<1> QED
  BY <1>1, <1>2, <1>3, <1>4, <1>5, <1>6 DEF TracePart

\* A bit between two sequences belongs to either.
LEMMA AppendThenConcat ==
  ASSUME NEW bits \in Seq(Bit), NEW x \in Bit, NEW rest \in Seq(Bit)
  PROVE  Append(bits, x) \o rest = bits \o (<<x>> \o rest)
<1>1. <<x>> \in Seq(Bit) /\ Append(bits, x) = bits \o <<x>>
  BY AppendIsConcat
<1> QED
  BY <1>1, ConcatAssociative

\* Each step of the traceback puts back one bit of a best path.
LEMMA StepTrace ==
  ASSUME IInv, LinksPart, TracePart, TraceBack
  PROVE  TracePart'
<1> DEFINE left == symbol_count - Len(decoded_bits)
           decision == decisions[left][best_state]
           before == predecessors[left][best_state]
<1>1. soft \in Seq(Int) /\ symbol_count \in Nat /\ 2 * symbol_count <= Len(soft)
      /\ pc = "trace" /\ t = symbol_count /\ decoded_bits \in Seq(Bit)
      /\ Len(decoded_bits) < symbol_count
  BY SoftIsIntegers DEF IInv, TraceBack, TracePart
<1>2. left \in 1 .. symbol_count
  BY <1>1 DEF TracePart
<1>3. /\ best_state \in States
      /\ PathsInto(left, best_state) # {}
      /\ \A bits \in PathsInto(left, best_state) :
           IsBestInto(soft, bits, left, best_state)
             => IsBest(soft, bits \o decoded_bits, symbol_count)
  BY <1>1 DEF TracePart
<1>4. decoded_bits' = <<decision>> \o decoded_bits /\ best_state' = before
      /\ soft' = soft /\ symbol_count' = symbol_count /\ t' = t /\ pc' = "trace"
  BY <1>1 DEF TraceBack, symbol_count, t
<1>5. Link(soft, left, best_state, before, decision)
  BY <1>1, <1>2, <1>3 DEF LinksPart
<1> HIDE DEF decision, before
<1>6. <<decision>> \in Seq(Bit) /\ Len(<<decision>>) = 1 /\ decision \in Bit
  BY <1>5 DEF Link
<1>7. decoded_bits' \in Seq(Bit) /\ Len(decoded_bits') = Len(decoded_bits) + 1
  BY <1>1, <1>4, <1>6, ConcatProperties
<1>8. symbol_count - Len(decoded_bits') = left - 1 /\ left - 1 \in Nat
  BY <1>1, <1>2, <1>7
<1>9. ASSUME NEW bits \in PathsInto(left - 1, before), IsBestInto(soft, bits, left - 1, before)
      PROVE  IsBest(soft, bits \o decoded_bits', symbol_count)
  <2>1. IsBestInto(soft, Append(bits, decision), left, best_state)
    BY <1>5, <1>9 DEF Link
  <2>2. IsBest(soft, Append(bits, decision) \o decoded_bits, symbol_count)
    BY <1>3, <2>1 DEF IsBestInto
  <2>3. bits \in Seq(Bit)
    BY <1>8, PathsAreSequences DEF PathsInto
  <2>4. Append(bits, decision) \o decoded_bits = bits \o (<<decision>> \o decoded_bits)
    BY <1>1, <1>6, <2>3, AppendThenConcat
  <2> QED
    BY <1>4, <2>2, <2>4
<1>10. before \in States /\ PathsInto(left - 1, before) # {}
  BY <1>5 DEF Link
<1> HIDE DEF left
<1> QED
  BY <1>1, <1>4, <1>7, <1>8, <1>9, <1>10 DEF TracePart

\* Before the first symbol only state 0 has a path, the empty one.
LEMMA InitPaths == Init => PathsInv
<1> SUFFICES ASSUME Init PROVE PathsInv
  OBVIOUS
<1>1. soft \in Seq(Int) /\ symbol_count \in Nat /\ 2 * symbol_count <= Len(soft) /\ Phases
  BY InitInv, SoftIsIntegers DEF IInv
<1>2. t = 0 /\ path_metrics = [state \in States |-> IF state = 0 THEN 0 ELSE NegInf]
      /\ predecessors = << >> /\ pc = "metrics" /\ decoded_bits = << >>
  BY DEF Init, t
<1>3. << >> \in PathsOf(0)
  <2>1. << >> \in Seq(Bit) /\ Len(<< >>) = 0
    OBVIOUS
  <2> QED
    BY <2>1, PathsAreSequences
<1>4. \A bits \in PathsOf(0) : FinalState(bits) = 0 /\ MetricOf(soft, bits) = 0
  BY <1>1, PathBasics
<1>5. IsBestInto(soft, << >>, 0, 0)
  BY <1>3, <1>4 DEF IsBestInto, PathsInto
<1>6. SurvivorsPart
  <2>1. ASSUME NEW state \in States, state = 0
        PROVE  \E bits \in PathsInto(0, state) :
                 IsBestInto(soft, bits, 0, state) /\ path_metrics[state] = MetricOf(soft, bits)
    BY <1>2, <1>3, <1>4, <1>5, <2>1 DEF IsBestInto
  <2>2. ASSUME NEW state \in States, state # 0
        PROVE  PathsInto(0, state) = {} /\ path_metrics[state] = NegInf
    BY <1>2, <1>4, <2>2 DEF PathsInto
  <2> QED
    BY <1>2, <2>1, <2>2 DEF SurvivorsPart
<1>7. LinksPart
  <2>1. predecessors \in Seq([States -> States]) /\ Len(predecessors) = 0
    BY <1>2
  <2> QED
    BY <1>1, <1>2, <2>1 DEF LinksPart
<1>8. TracePart
  BY <1>2 DEF TracePart
<1> QED
  BY <1>6, <1>7, <1>8 DEF PathsInv

\* Every step keeps the survivors, the links and the traceback.
LEMMA StepPaths == IInv /\ PathsInv /\ [Next]_vars => PathsInv'
<1> SUFFICES ASSUME IInv, PathsInv, [Next]_vars PROVE PathsInv'
  OBVIOUS
<1> USE DEF PathsInv
<1>1. ASSUME soft' = soft, path_metrics' = path_metrics, decisions' = decisions,
             predecessors' = predecessors
      PROVE  SurvivorsPart' /\ LinksPart'
  <2>1. t' = t /\ symbol_count' = symbol_count
    BY <1>1 DEF t, symbol_count
  <2>2. SurvivorsPart'
    BY <1>1, <2>1 DEF SurvivorsPart
  <2>3. LinksPart'
    BY <1>1, <2>1 DEF LinksPart
  <2> QED
    BY <2>2, <2>3
<1>2. CASE RefuseInput
  <2>1. TracePart'
    BY <1>2 DEF RefuseInput, TracePart
  <2> QED
    BY <1>1, <1>2, <2>1 DEF RefuseInput
<1>3. CASE PrepareTile
  <2>1. TracePart'
    BY <1>3 DEF PrepareTile, TracePart
  <2> QED
    BY <1>1, <1>3, <2>1 DEF PrepareTile
<1>4. CASE AddCompareSelect
  <2>1. TracePart'
    BY <1>4 DEF AddCompareSelect, TracePart
  <2> QED
    BY <1>4, <2>1, StepSurvivors, StepLinks
<1>5. CASE StartTraceback
  BY <1>1, <1>5, StartTrace DEF StartTraceback
<1>6. CASE TraceBack
  BY <1>1, <1>6, StepTrace DEF TraceBack
<1>7. CASE Finish
  <2>1. t' = t /\ symbol_count' = symbol_count
    BY <1>7 DEF Finish, t, symbol_count
  <2>2. TracePart'
    <3>1. CASE symbol_count < TailBits
      BY <1>7, <3>1 DEF Finish, TracePart
    <3>2. CASE ~(symbol_count < TailBits)
      <4>1. symbol_count >= TailBits
        BY <3>2, SoftIsIntegers DEF IInv, TailBits
      <4> QED
        BY <1>7, <2>1, <3>2, <4>1 DEF Finish, TracePart
    <3> QED
      BY <3>1, <3>2
  <2> QED
    BY <1>1, <1>7, <2>2 DEF Finish
<1>8. CASE UNCHANGED vars
  <2>1. TracePart'
    BY <1>8 DEF vars, TracePart, t, symbol_count
  <2> QED
    BY <1>1, <1>8, <2>1 DEF vars
<1> QED
  BY <1>2, <1>3, <1>4, <1>5, <1>6, <1>7, <1>8 DEF Next

\* The survivors, the links and the traceback are right throughout a decode.
THEOREM PathsInvariant == Spec => []PathsInv
BY Invariant, InitPaths, StepPaths, PTL DEF Spec

\* After every symbol of an input of any length, the recurrence of
\* viterbi_decode_from_metrics keeps for each state the metric of the best of
\* all bit sequences that end in it.
THEOREM SurvivorsAreTheBest == Spec => []SurvivorsAreBest
<1>1. IInv /\ PathsInv => SurvivorsAreBest
  <2> SUFFICES ASSUME IInv, PathsInv, NEW state \in States
               PROVE  IF MetricsInto(state) = {} THEN path_metrics[state] = NegInf
                      ELSE /\ path_metrics[state] \in MetricsInto(state)
                           /\ \A metric \in MetricsInto(state) : metric <= path_metrics[state]
    BY DEF SurvivorsAreBest
  <2>1. MetricsInto(state) = {MetricOf(soft, bits) : bits \in PathsInto(t, state)}
    BY DEF MetricsInto, PathMetric, MetricOf, PathsInto, PathsOf
  <2>2. CASE PathsInto(t, state) = {}
    BY <2>1, <2>2 DEF PathsInv, SurvivorsPart
  <2>3. CASE PathsInto(t, state) # {}
    <3>1. PICK bits \in PathsInto(t, state) :
            IsBestInto(soft, bits, t, state) /\ path_metrics[state] = MetricOf(soft, bits)
      BY <2>3 DEF PathsInv, SurvivorsPart
    <3>2. path_metrics[state] \in MetricsInto(state)
      BY <2>1, <3>1
    <3>3. \A metric \in MetricsInto(state) : metric <= path_metrics[state]
      BY <2>1, <3>1 DEF IsBestInto
    <3> QED
      BY <3>2, <3>3
  <2> QED
    BY <2>2, <2>3
<1> QED
  BY <1>1, Invariant, PathsInvariant, PTL

(***************************************************************************)
(* With MetricFloor: metrics and mark are never taken for each other.      *)
(***************************************************************************)
THEOREM MetricsCorrect == Spec => []MetricsAreSound
BY SurvivorsAreTheBest, MetricsAboveFloor, PTL DEF MetricsAreSound

\* The bits traced back are a best path.
LEMMA DecodedIsBest ==
  ASSUME IInv, PathsInv, pc = "done"
  PROVE  /\ IsBest(soft, decoded_bits, symbol_count)
         /\ symbol_count >= TailBits
         /\ hard_out = SubSeq(decoded_bits, 1, symbol_count - TailBits)
<1>1. soft \in Seq(Int) /\ symbol_count \in Nat /\ 2 * symbol_count <= Len(soft)
  BY SoftIsIntegers DEF IInv
<1>2. /\ decoded_bits \in Seq(Bit)
      /\ Len(decoded_bits) = symbol_count
      /\ symbol_count - Len(decoded_bits) = 0
      /\ symbol_count >= TailBits
      /\ hard_out = SubSeq(decoded_bits, 1, symbol_count - TailBits)
  BY <1>1 DEF PathsInv, TracePart
<1>3. /\ PathsInto(0, best_state) # {}
      /\ \A bits \in PathsInto(0, best_state) :
           IsBestInto(soft, bits, 0, best_state)
             => IsBest(soft, bits \o decoded_bits, symbol_count)
  BY <1>2 DEF PathsInv, TracePart
<1>4. PICK bits : bits \in PathsInto(0, best_state)
  BY <1>3
<1>5. \A other \in PathsInto(0, best_state) : other \in PathsOf(0) /\ MetricOf(soft, other) = 0
  BY <1>1, PathBasics DEF PathsInto
<1>6. IsBestInto(soft, bits, 0, best_state)
  BY <1>4, <1>5 DEF IsBestInto
<1>7. bits \in Seq(Bit) /\ Len(bits) = 0
  BY <1>4, <1>5, PathsAreSequences
<1>8. bits = << >>
  BY <1>7, EmptySeq
<1>9. bits \o decoded_bits = decoded_bits
  BY <1>2, <1>8, ConcatEmptySeq
<1> QED
  BY <1>2, <1>3, <1>4, <1>6, <1>9

\* For every input the decode gives a path through the whole trellis that no
\* other beats, whatever ties were broken, and drops its tail.
THEOREM DecodesTheBestPath == Spec => []DecodedIsBestPath
<1>1. IInv /\ PathsInv => DecodedIsBestPath
  BY DecodedIsBest DEF DecodedIsBestPath, IsBest, PathsOf, PathMetric, MetricOf
<1> QED
  BY <1>1, Invariant, PathsInvariant, PTL

-----------------------------------------------------------------------------

\* One soft decision of a symbol as it is received: a one is positive, unless
\* the decision is the inverted one.
Decision(one, place, strength, inverted) ==
  IF one # (place = inverted) THEN strength ELSE -strength

\* The soft decisions of a path, one of them perhaps inverted.
IsReceived(received, path, strength, inverted) ==
  \A i \in 1 .. Len(path) :
    /\ received[2 * i - 1] = Decision(Symbols(path)[i] \div 2 = 1, 2 * i - 1, strength, inverted)
    /\ received[2 * i] = Decision(Symbols(path)[i] % 2 = 1, 2 * i, strength, inverted)

\* The decisions in which two symbols differ, at twice the strength.
Distance(a, b, strength) ==
  (IF (a \div 2 = 1) # (b \div 2 = 1) THEN 2 * strength ELSE 0)
  + (IF (a % 2 = 1) # (b % 2 = 1) THEN 2 * strength ELSE 0)

\* What an inverted decision can take away, at its symbol.
Loss(inverted, i, strength) ==
  IF inverted \in {2 * i - 1, 2 * i} THEN 4 * strength ELSE 0

\* How far the metric of one symbol is above that of another.
SymbolGap(first, second, a, b) ==
  SymbolMetrics(first, second)[a] - SymbolMetrics(first, second)[b]

\* A symbol that was sent beats another by their distance, or loses at most
\* twice as much where a decision is inverted.
LEMMA BranchGap ==
  ASSUME NEW a \in 0 .. 3, NEW b \in 0 .. 3, NEW strength \in Nat, NEW inverted \in Int, NEW i \in Int,
         NEW first, NEW second,
         first = Decision(a \div 2 = 1, 2 * i - 1, strength, inverted),
         second = Decision(a % 2 = 1, 2 * i, strength, inverted)
  PROVE  SymbolGap(first, second, a, b) >= Distance(a, b, strength) - Loss(inverted, i, strength)
<1>1. first \in Int /\ second \in Int
  BY DEF Decision
<1>2. SymbolMetrics(first, second)[a]
        = (IF a \div 2 = 1 THEN first ELSE -first) + (IF a % 2 = 1 THEN second ELSE -second)
  BY DEF SymbolMetrics
<1>3. SymbolMetrics(first, second)[b]
        = (IF b \div 2 = 1 THEN first ELSE -first) + (IF b % 2 = 1 THEN second ELSE -second)
  BY DEF SymbolMetrics
<1> DEFINE wrong1 == inverted = 2 * i - 1
           wrong2 == inverted = 2 * i
           ahigh == a \div 2 = 1
           bhigh == b \div 2 = 1
           alow == a % 2 = 1
           blow == b % 2 = 1
           gap1 == (IF ahigh THEN first ELSE -first) - (IF bhigh THEN first ELSE -first)
           gap2 == (IF alow THEN second ELSE -second) - (IF blow THEN second ELSE -second)
<1>4. ahigh \in BOOLEAN /\ bhigh \in BOOLEAN /\ alow \in BOOLEAN /\ blow \in BOOLEAN
  OBVIOUS
<1>5. SymbolGap(first, second, a, b) = gap1 + gap2
  BY <1>1, <1>2, <1>3 DEF SymbolGap
<1>6. gap1 \in Int /\ gap1 >= (IF ahigh # bhigh THEN 2 * strength ELSE 0) - (IF wrong1 THEN 4 * strength ELSE 0)
  BY <1>1 DEF Decision
<1>7. gap2 \in Int /\ gap2 >= (IF alow # blow THEN 2 * strength ELSE 0) - (IF wrong2 THEN 4 * strength ELSE 0)
  BY <1>1 DEF Decision
<1>8. ~(wrong1 /\ wrong2)
  OBVIOUS
<1>9. (IF wrong1 THEN 4 * strength ELSE 0) + (IF wrong2 THEN 4 * strength ELSE 0)
        = Loss(inverted, i, strength)
  BY <1>8 DEF Loss
<1>10. Distance(a, b, strength)
         = (IF ahigh # bhigh THEN 2 * strength ELSE 0) + (IF alow # blow THEN 2 * strength ELSE 0)
  BY DEF Distance
<1> HIDE DEF wrong1, wrong2, ahigh, bhigh, alow, blow, gap1, gap2
<1> QED
  BY <1>5, <1>6, <1>7, <1>9, <1>10

\* A state has no symbol in common between its two branches.
LEMMA FirstDistance ==
  ASSUME NEW state \in States, NEW x \in Bit, NEW y \in Bit, x # y, NEW strength \in Nat
  PROVE  Distance(EncodedSymbol(state, x), EncodedSymbol(state, y), strength) = 4 * strength
<1>1. state \in {0, 1, 2, 3} /\ ((x = 0 /\ y = 1) \/ (x = 1 /\ y = 0))
  BY DEF States, Bit
<1> QED
  BY <1>1, SymbolsOfStates DEF Distance

\* The branches of two states that differ in their newer bit differ.
LEMMA SecondDistance ==
  ASSUME NEW older \in Bit, NEW x \in Bit, NEW y \in Bit, x # y, NEW u \in Bit, NEW v \in Bit,
         NEW strength \in Nat
  PROVE  Distance(EncodedSymbol(2 * older + x, u), EncodedSymbol(2 * older + y, v), strength)
           >= 2 * strength
<1>1. older \in {0, 1} /\ u \in {0, 1} /\ v \in {0, 1} /\ ((x = 0 /\ y = 1) \/ (x = 1 /\ y = 0))
  BY DEF Bit
<1> QED
  BY <1>1, SymbolsOfStates DEF Distance

\* What a path that was sent is ahead by after k symbols of a path that first
\* differs from it at bit j.
Lead(j, k, strength, inverted) ==
  (IF k < j THEN 0 ELSE IF k = j THEN 4 * strength ELSE 6 * strength)
  - (IF inverted \in 1 .. 2 * k THEN 4 * strength ELSE 0)

\* The distance of the symbols at, after and away from the first difference.
LEMMA PathDistance ==
  ASSUME NEW a \in Seq(Bit), NEW b \in Seq(Bit), Len(a) = Len(b),
         NEW j \in 1 .. Len(a), a[j] # b[j], \A i \in 1 .. j - 1 : a[i] = b[i],
         NEW strength \in Nat, NEW i \in 1 .. Len(a)
  PROVE  /\ Distance(Symbols(a)[i], Symbols(b)[i], strength) \in Nat
         /\ i = j => Distance(Symbols(a)[i], Symbols(b)[i], strength) = 4 * strength
         /\ i = j + 1 => Distance(Symbols(a)[i], Symbols(b)[i], strength) >= 2 * strength
<1>1. /\ a[i] \in Bit /\ b[i] \in Bit /\ a[j] \in Bit /\ b[j] \in Bit
      /\ StateAt(a, i - 1) \in States
      /\ Symbols(a)[i] = EncodedSymbol(StateAt(a, i - 1), a[i])
      /\ Symbols(b)[i] = EncodedSymbol(StateAt(b, i - 1), b[i])
  BY SymbolSent
<1>2. Distance(Symbols(a)[i], Symbols(b)[i], strength) \in Nat
  BY DEF Distance
<1>3. \A m \in Int : m < j => BitAt(a, m) = BitAt(b, m)
  BY DEF BitAt
<1>4. CASE i = j
  <2>1. StateAt(a, i - 1) = StateAt(b, i - 1)
    BY <1>3, <1>4 DEF StateAt
  <2> QED
    BY <1>1, <1>2, <1>4, <2>1, FirstDistance
<1>5. CASE i = j + 1
  <2>1. j - 1 \in 0 .. Len(a)
    OBVIOUS
  <2>2. BitAt(a, j - 1) = BitAt(b, j - 1) /\ BitAt(a, j - 1) \in Bit
    BY <1>3, <2>1 DEF BitAt, Bit
  <2>3. BitAt(a, j) = a[j] /\ BitAt(b, j) = b[j]
    BY DEF BitAt
  <2>4. i - 1 = j
    BY <1>5
  <2>5. StateAt(a, i - 1) = 2 * BitAt(a, j - 1) + a[j] /\ StateAt(b, i - 1) = 2 * BitAt(a, j - 1) + b[j]
    BY <2>2, <2>3, <2>4 DEF StateAt
  <2>6. Symbols(a)[i] = EncodedSymbol(2 * BitAt(a, j - 1) + a[j], a[i])
        /\ Symbols(b)[i] = EncodedSymbol(2 * BitAt(a, j - 1) + b[j], b[i])
    BY <1>1, <2>5
  <2>7. Distance(Symbols(a)[i], Symbols(b)[i], strength) >= 2 * strength
    BY <1>1, <2>2, <2>6, SecondDistance
  <2> QED
    BY <1>2, <1>5, <2>7
<1> QED
  BY <1>2, <1>4, <1>5

\* An inverted symbol leaves a third of the lead of two paths that stay apart.
LEMMA LeadIsLeft ==
  ASSUME NEW strength \in Nat, NEW inverted \in Int, NEW j \in Nat, NEW n \in Nat, j < n
  PROVE  Lead(j, n, strength, inverted) >= 2 * strength
BY DEF Lead

\* A path that was sent beats every path that differs from it before its last
\* bit, even when one decision is inverted: free distance 3 of the first two
\* symbols suffices.
LEMMA SentPathWins ==
  ASSUME NEW received \in Seq(Int), NEW a \in Seq(Bit), NEW b \in Seq(Bit), Len(a) = Len(b),
         2 * Len(a) <= Len(received), NEW strength \in Nat, strength > 0, NEW inverted \in Int,
         IsReceived(received, a, strength, inverted),
         NEW j \in 1 .. Len(a), j < Len(a), a[j] # b[j], \A i \in 1 .. j - 1 : a[i] = b[i]
  PROVE  MetricOf(received, b) < MetricOf(received, a)
<1> DEFINE n == Len(a)
           sent(k) == PartialMetrics(received, a)[k]
           other(k) == PartialMetrics(received, b)[k]
           ahead(k) == sent(k) - other(k)
           P == {k \in Nat : k <= n => ahead(k) >= Lead(j, k, strength, inverted)}
<1>1. n \in Nat /\ j \in Nat /\ j >= 1 /\ j < n
  OBVIOUS
<1>2. /\ \A k \in 0 .. n : PartialMetrics(received, a)[k] \in Int /\ PartialMetrics(received, b)[k] \in Int
      /\ PartialMetrics(received, a)[0] = 0 /\ PartialMetrics(received, b)[0] = 0
  BY PartialMetricsSteps
<1>3. 0 \in P
  BY <1>1, <1>2 DEF Lead
<1>4. ASSUME NEW k \in Nat, k \in P, k + 1 <= n
      PROVE  ahead(k + 1) >= Lead(j, k + 1, strength, inverted)
  <2> DEFINE i == k + 1
             gap == Branch(received, a, i) - Branch(received, b, i)
             distance == Distance(Symbols(a)[i], Symbols(b)[i], strength)
             lost == Loss(inverted, i, strength)
  <2>1. i \in 1 .. n /\ i - 1 = k /\ i \in 1 .. Len(b)
    BY <1>1, <1>4
  <2>2. PartialMetrics(received, a)[i] = PartialMetrics(received, a)[k] + Branch(received, a, i)
        /\ PartialMetrics(received, b)[i] = PartialMetrics(received, b)[k] + Branch(received, b, i)
    BY <2>1, PartialMetricsSteps
  <2>3. Branch(received, a, i) \in Int /\ Branch(received, b, i) \in Int
    BY <2>1, BranchIsInteger
  <2>4. k \in 0 .. n
    BY <1>1, <1>4
  <2>5. ahead(i) = ahead(k) + gap /\ ahead(k) \in Int /\ gap \in Int
    <3>1. sent(k) \in Int /\ other(k) \in Int
      BY <1>2, <2>4
    <3>2. sent(i) = sent(k) + Branch(received, a, i) /\ other(i) = other(k) + Branch(received, b, i)
      BY <2>2
    <3> DEFINE sk == sent(k)
               ok == other(k)
               si == sent(i)
               oi == other(i)
               ga == Branch(received, a, i)
               gb == Branch(received, b, i)
    <3>3. sk \in Int /\ ok \in Int /\ ga \in Int /\ gb \in Int /\ si = sk + ga /\ oi = ok + gb
      BY <2>3, <3>1, <3>2
    <3>4. ahead(i) = si - oi /\ ahead(k) = sk - ok /\ gap = ga - gb
      OBVIOUS
    <3> HIDE DEF sk, ok, si, oi, ga, gb, ahead, gap
    <3> QED
      BY <3>3, <3>4
  <2>6. gap >= distance - lost
    <3>1. Symbols(a)[i] \in 0 .. 3 /\ Symbols(b)[i] \in 0 .. 3
      BY <2>1, SymbolSent
    <3>2. received[2 * i - 1] = Decision(Symbols(a)[i] \div 2 = 1, 2 * i - 1, strength, inverted)
          /\ received[2 * i] = Decision(Symbols(a)[i] % 2 = 1, 2 * i, strength, inverted)
      BY <2>1 DEF IsReceived
    <3> DEFINE first == received[2 * i - 1]
               second == received[2 * i]
               sa == Symbols(a)[i]
               sb == Symbols(b)[i]
    <3>3. gap = SymbolGap(first, second, sa, sb)
      BY DEF Branch, SymbolGap
    <3>4. i \in Int /\ sa \in 0 .. 3 /\ sb \in 0 .. 3
          /\ first = Decision(sa \div 2 = 1, 2 * i - 1, strength, inverted)
          /\ second = Decision(sa % 2 = 1, 2 * i, strength, inverted)
      BY <3>1, <3>2
    <3>5. distance = Distance(sa, sb, strength)
      OBVIOUS
    <3> HIDE DEF first, second, sa, sb, gap, distance, i
    <3>6. SymbolGap(first, second, sa, sb) >= Distance(sa, sb, strength) - lost
      BY <3>4, BranchGap
    <3> QED
      BY <3>3, <3>5, <3>6
  <2>7. /\ distance \in Nat
        /\ i = j => distance = 4 * strength
        /\ i = j + 1 => distance >= 2 * strength
    BY <2>1, PathDistance
  <2>8. ahead(k) >= Lead(j, k, strength, inverted)
    BY <1>4
  <2>9. (IF inverted \in 1 .. 2 * i THEN 4 * strength ELSE 0)
          = (IF inverted \in 1 .. 2 * k THEN 4 * strength ELSE 0) + lost
    BY <1>4 DEF Loss
  <2>10. (IF i < j THEN 0 ELSE IF i = j THEN 4 * strength ELSE 6 * strength)
           <= (IF k < j THEN 0 ELSE IF k = j THEN 4 * strength ELSE 6 * strength) + distance
    <3>1. CASE i < j
      BY <1>1, <1>4, <2>7, <3>1
    <3>2. CASE i = j
      BY <1>1, <1>4, <2>7, <3>2
    <3>3. CASE i = j + 1
      BY <1>1, <1>4, <2>7, <3>3
    <3>4. CASE i > j + 1
      BY <1>1, <1>4, <2>7, <3>4
    <3> QED
      BY <1>1, <1>4, <3>1, <3>2, <3>3, <3>4
  <2>11. lost \in Int
    BY DEF Loss
  <2> DEFINE apart == IF k < j THEN 0 ELSE IF k = j THEN 4 * strength ELSE 6 * strength
             apart_next == IF i < j THEN 0 ELSE IF i = j THEN 4 * strength ELSE 6 * strength
             inverse == IF inverted \in 1 .. 2 * k THEN 4 * strength ELSE 0
             inverse_next == IF inverted \in 1 .. 2 * i THEN 4 * strength ELSE 0
             before == ahead(k)
             after == ahead(i)
  <2>12. /\ Lead(j, k, strength, inverted) = apart - inverse
         /\ Lead(j, i, strength, inverted) = apart_next - inverse_next
    BY DEF Lead
  <2>13. apart \in Int /\ apart_next \in Int /\ inverse \in Int /\ inverse_next \in Int
    OBVIOUS
  <2>14. /\ after = before + gap /\ before \in Int /\ gap \in Int
         /\ before >= apart - inverse
         /\ inverse_next = inverse + lost
         /\ apart_next <= apart + distance
    <3> HIDE DEF gap, distance, lost, ahead
    <3> QED
      BY <2>5, <2>8, <2>9, <2>10, <2>12
  <2>15. distance \in Int
    BY <2>7
  <2> HIDE DEF gap, distance, lost, ahead, apart, apart_next, inverse, inverse_next, before, after
  <2>16. after >= apart_next - inverse_next
    BY <2>6, <2>11, <2>13, <2>14, <2>15
  <2> QED
    BY <2>12, <2>16 DEF after
<1>5. \A k \in Nat : k \in P => k + 1 \in P
  <2> HIDE DEF ahead
  <2> QED
    BY <1>4
<1> HIDE DEF P
<1>6. n \in P
  BY <1>1, <1>3, <1>5, SetInduction
<1>7. ahead(n) >= Lead(j, n, strength, inverted)
  BY <1>1, <1>6 DEF P
<1>8. Lead(j, n, strength, inverted) >= 2 * strength
  BY <1>1, LeadIsLeft
<1>9. n \in 0 .. n
  BY <1>1
<1>10. sent(n) \in Int /\ other(n) \in Int /\ Lead(j, n, strength, inverted) \in Int
  BY <1>1, <1>2, <1>9 DEF Lead
<1>11. MetricOf(received, a) = sent(n) /\ MetricOf(received, b) = other(n)
  BY DEF MetricOf
<1> HIDE DEF sent, other
<1> QED
  BY <1>7, <1>8, <1>10, <1>11

\* The first place where two sequences differ.
IsFirstDifference(a, b, j) == a[j] # b[j] /\ \A i \in 1 .. j - 1 : a[i] = b[i]

\* Sequences that differ have a first difference.
LEMMA FirstDifference ==
  ASSUME NEW n \in Nat, NEW a, NEW b, NEW place \in 1 .. n, a[place] # b[place]
  PROVE  \E j \in 1 .. n : IsFirstDifference(a, b, j)
<1> SUFFICES ASSUME \A j \in 1 .. n : a[j] # b[j] => \E i \in 1 .. j - 1 : a[i] # b[i]
             PROVE  FALSE
  BY DEF IsFirstDifference
<1> DEFINE P == {m \in Nat : m <= n => \A i \in 1 .. m : a[i] = b[i]}
<1>1. 0 \in P
  OBVIOUS
<1>2. ASSUME NEW m \in Nat, m \in P, m + 1 <= n
      PROVE  \A i \in 1 .. m + 1 : a[i] = b[i]
  <2>1. \A i \in 1 .. m : a[i] = b[i]
    BY <1>2
  <2>2. m + 1 \in 1 .. n /\ (m + 1) - 1 = m
    BY <1>2
  <2>3. a[m + 1] = b[m + 1]
    BY <2>1, <2>2
  <2> QED
    BY <2>1, <2>3
<1>3. \A m \in Nat : m \in P => m + 1 \in P
  BY <1>2
<1> HIDE DEF P
<1>4. n \in P
  BY <1>1, <1>3, SetInduction
<1> QED
  BY <1>4 DEF P

\* A payload and its tail, sent at one strength with at most one decision
\* inverted, is received as such.
LEMMA ReceivedIsSent ==
  ASSUME NEW n \in Nat, NEW payload \in [1 .. n -> Bit], NEW strength \in Nat, NEW inverted \in Int
  PROVE  /\ payload \o <<0, 0>> \in PathsOf(n + 2)
         /\ \A i \in 1 .. n : (payload \o <<0, 0>>)[i] = payload[i]
         /\ IsReceived(Received(payload, strength, inverted), payload \o <<0, 0>>, strength, inverted)
<1> DEFINE path == payload \o <<0, 0>>
           symbols == Symbols(path)
           received == Received(payload, strength, inverted)
<1>1. payload \in Seq(Bit) /\ Len(payload) = n
  BY PathsAreSequences DEF PathsOf
<1>2. <<0, 0>> \in Seq(Bit) /\ Len(<<0, 0>>) = 2
  BY DEF Bit
<1>3. path \in Seq(Bit) /\ Len(path) = n + 2 /\ \A i \in 1 .. n : path[i] = payload[i]
  BY <1>1, <1>2, ConcatProperties
<1>4. path \in PathsOf(n + 2)
  <2> HIDE DEF path
  <2>1. n + 2 \in Nat
    OBVIOUS
  <2> QED
    BY <1>3, <2>1, PathsAreSequences
<1>5. Encoded(payload) = symbols /\ Len(symbols) = n + 2
  BY <1>3 DEF Encoded, Symbols
<1> HIDE DEF path
<1>6. ASSUME NEW i \in 1 .. Len(path)
      PROVE  /\ received[2 * i - 1] = Decision(symbols[i] \div 2 = 1, 2 * i - 1, strength, inverted)
             /\ received[2 * i] = Decision(symbols[i] % 2 = 1, 2 * i, strength, inverted)
  <2>1. 2 * i - 1 \in 1 .. 2 * Len(symbols) /\ 2 * i \in 1 .. 2 * Len(symbols) /\ i \in Int
    BY <1>3, <1>5
  <2>2. (2 * i - 1) % 2 = 1 /\ (2 * i) % 2 = 0 /\ ((2 * i - 1) + 1) \div 2 = i /\ (2 * i) \div 2 = i
    BY <2>1
  <2> HIDE DEF symbols
  <2> DEFINE sent(k) == IF k % 2 = 1 THEN symbols[(k + 1) \div 2] \div 2 ELSE symbols[k \div 2] % 2
  <2>3. received = [k \in 1 .. 2 * Len(symbols) |->
                      IF (sent(k) = 1) # (k = inverted) THEN strength ELSE -strength]
    BY <1>5 DEF Received
  <2>4. sent(2 * i - 1) = symbols[i] \div 2 /\ sent(2 * i) = symbols[i] % 2
    BY <2>2
  <2> HIDE DEF sent, received
  <2> QED
    BY <2>1, <2>3, <2>4 DEF Decision
<1> QED
  BY <1>3, <1>4, <1>6 DEF IsReceived, path

\* For payloads of every length and every strength: a payload that was sent
\* with its tail is decoded even when one of its decisions is inverted.
THEOREM SingleErrorsAreCorrected == Spec => []SingleErrorCorrected
<1>1. IInv /\ PathsInv => SingleErrorCorrected
  <2> SUFFICES ASSUME IInv, PathsInv, pc = "done",
                      NEW payload \in [1 .. symbol_count - TailBits -> Bit],
                      NEW strength \in 1 .. SoftLimit, NEW inverted \in 0 .. Len(soft),
                      soft = Received(payload, strength, inverted)
               PROVE  hard_out = payload
    BY DEF SingleErrorCorrected
  <2> DEFINE n == symbol_count - TailBits
             path == payload \o <<0, 0>>
  <2>1. soft \in Seq(Int) /\ symbol_count \in Nat /\ 2 * symbol_count <= Len(soft)
    BY SoftIsIntegers DEF IInv
  <2>2. IsBest(soft, decoded_bits, symbol_count) /\ symbol_count >= TailBits
        /\ hard_out = SubSeq(decoded_bits, 1, n)
    BY DecodedIsBest
  <2>3. n \in Nat /\ n + 2 = symbol_count /\ strength \in Nat /\ strength > 0 /\ inverted \in Int
    BY <2>1, <2>2, SoftLimitAssumption DEF TailBits
  <2>4. /\ path \in PathsOf(symbol_count)
        /\ \A i \in 1 .. n : path[i] = payload[i]
        /\ IsReceived(soft, path, strength, inverted)
    BY <2>3, ReceivedIsSent
  <2> HIDE DEF n, path
  <2>5. decoded_bits \in PathsOf(symbol_count)
        /\ MetricOf(soft, path) <= MetricOf(soft, decoded_bits)
    BY <2>2, <2>4 DEF IsBest
  <2>6. /\ path \in Seq(Bit) /\ Len(path) = symbol_count /\ MetricOf(soft, path) \in Int
        /\ decoded_bits \in Seq(Bit) /\ Len(decoded_bits) = symbol_count
        /\ MetricOf(soft, decoded_bits) \in Int
    BY <2>1, <2>4, <2>5, PathBasics
  <2>7. \A i \in 1 .. n : path[i] = decoded_bits[i]
    <3>1. SUFFICES ASSUME NEW i \in 1 .. n, path[i] # decoded_bits[i] PROVE FALSE
      OBVIOUS
    <3>2. PICK j \in 1 .. n : IsFirstDifference(path, decoded_bits, j)
      <4>1. n \in Nat
        BY <2>3
      <4> QED
        BY <3>1, <4>1, FirstDifference
    <3>3. j \in 1 .. Len(path) /\ j < Len(path) /\ 2 * Len(path) <= Len(soft)
      BY <2>1, <2>3, <2>6
    <3>4. MetricOf(soft, decoded_bits) < MetricOf(soft, path)
      BY <2>1, <2>3, <2>4, <2>6, <3>2, <3>3, SentPathWins DEF IsFirstDifference
    <3> QED
      BY <2>5, <2>6, <3>4
  <2>8. /\ hard_out \in Seq(Bit)
        /\ Len(hard_out) = n
        /\ \A i \in 1 .. n : hard_out[i] = decoded_bits[i]
    <3>1. \A i \in 1 .. n : decoded_bits[i] \in Bit /\ (n - 1) + 1 = n /\ (1 + i) - 1 = i
      BY <2>3, <2>6
    <3>2. n \in Int /\ 1 \in Int /\ (1 <= n \/ n = 0) /\ (n - 1) + 1 = n
      BY <2>3
    <3> QED
      BY <2>2, <3>1, <3>2, SubSeqProperties
  <2>9. payload \in Seq(Bit) /\ Len(payload) = n
    <3>1. payload \in PathsOf(n)
      BY DEF PathsOf, n
    <3> QED
      BY <2>3, <3>1, PathsAreSequences
  <2> QED
    BY <2>4, <2>7, <2>8, <2>9, SeqEqual
<1> QED
  BY <1>1, Invariant, PathsInvariant, PTL

-----------------------------------------------------------------------------
\* The positions in which two sets of ones differ.
Differing(a, b) == (a \ b) \cup (b \ a)

\* Flipping stays inside the block.
LEMMA FlipInside ==
  ASSUME NEW bits \in SUBSET Positions
  PROVE  Flip(bits) \in SUBSET Positions
BY DEF Flip

\* The rounds of a block, one after the other.
LEMMA RoundsSteps ==
  ASSUME NEW bits \in SUBSET Positions
  PROVE  /\ Rounds(bits) \in [0 .. MaxIterations -> SUBSET Positions]
         /\ Rounds(bits)[0] = bits
         /\ \A k \in 1 .. MaxIterations :
              Rounds(bits)[k] = IF Settled(Rounds(bits)[k - 1]) THEN Rounds(bits)[k - 1]
                                ELSE Flip(Rounds(bits)[k - 1])
<1> DEFINE n == MaxIterations
           Blocks == SUBSET Positions
           next(b) == IF Settled(b) THEN b ELSE Flip(b)
           step == [p \in Blocks \X (1 .. n) |-> next(p[1])]
           Is(f) == f = [k \in 0 .. n |-> IF k = 0 THEN bits ELSE next(f[k - 1])]
<1>1. n \in Nat
  BY LdpcAssumption
<1>2. \A b \in Blocks : next(b) \in Blocks
  BY FlipInside
<1>3. Rounds(bits) = CHOOSE f : Is(f)
  BY DEF Rounds
<1>4. \A b : (IF Settled(b) THEN b ELSE Flip(b)) = next(b)
  OBVIOUS
<1> HIDE DEF next
<1>5. ASSUME NEW b \in Blocks, NEW k \in 1 .. n
      PROVE  step[<<b, k>>] = next(b)
  <2> DEFINE p == <<b, k>>
  <2>1. p \in Blocks \X (1 .. n) /\ p[1] = b
    OBVIOUS
  <2> HIDE DEF p
  <2>2. step[p] = next(p[1])
    BY <2>1
  <2>3. step[p] = next(b)
    BY <2>1, <2>2
  <2> QED
    BY <2>3 DEF p
<1>6. step \in [Blocks \X (1 .. n) -> Blocks]
  <2>1. ASSUME NEW p \in Blocks \X (1 .. n)
        PROVE  next(p[1]) \in Blocks
    BY <1>2
  <2> QED
    BY <2>1
<1>7. HasRecursion(Blocks, bits, n, step)
  <2> HIDE DEF step, n
  <2>1. bits \in Blocks
    OBVIOUS
  <2> HIDE DEF Blocks
  <2> QED
    BY <1>1, <1>6, <2>1, RecursionExists
<1> HIDE DEF step
<1>8. PICK g \in [0 .. n -> Blocks] : /\ g[0] = bits
                                      /\ \A k \in 1 .. n : g[k] = step[<<g[k - 1], k>>]
  BY <1>7 DEF HasRecursion
<1>9. ASSUME NEW k \in 1 .. n
      PROVE  g[k] = next(g[k - 1])
  <2>1. k - 1 \in 0 .. n /\ g[k - 1] \in Blocks
    BY <1>1
  <2> QED
    BY <1>5, <1>8, <2>1
<1>10. g = [k \in 0 .. n |-> IF k = 0 THEN bits ELSE next(g[k - 1])]
  <2>1. ASSUME NEW k \in 0 .. n PROVE g[k] = IF k = 0 THEN bits ELSE next(g[k - 1])
    <3>1. CASE k = 0
      BY <1>8, <3>1
    <3>2. CASE k # 0
      <4>1. k \in 1 .. n
        BY <1>1, <3>2
      <4> QED
        BY <1>9, <3>2, <4>1
    <3> QED
      BY <3>1, <3>2
  <2>2. g \in [0 .. n -> Blocks]
    BY <1>8
  <2> HIDE DEF Blocks, n
  <2> QED
    BY <2>1, <2>2
<1>11. Is(g)
  BY <1>10
<1> HIDE DEF Is
<1>12. Is(Rounds(bits))
  BY <1>3, <1>11
<1> DEFINE f == Rounds(bits)
<1>13. f = [k \in 0 .. n |-> IF k = 0 THEN bits ELSE next(f[k - 1])]
  BY <1>12 DEF Is
<1> HIDE DEF f
<1>14. f[0] = bits /\ \A k \in 1 .. n : f[k] = next(f[k - 1])
  BY <1>1, <1>13
<1> DEFINE P == {k \in Nat : k <= n => f[k] \in Blocks}
<1>15. ASSUME NEW k \in Nat, k \in P, k + 1 <= n
       PROVE  f[k + 1] \in Blocks
  <2>1. k + 1 \in 1 .. n /\ (k + 1) - 1 = k /\ f[k] \in Blocks
    BY <1>1, <1>15
  <2>2. f[k + 1] = next(f[k])
    BY <1>14, <2>1
  <2> QED
    BY <1>2, <2>1, <2>2
<1>16. 0 \in P /\ \A k \in Nat : k \in P => k + 1 \in P
  BY <1>14, <1>15
<1> HIDE DEF P
<1>17. Nat \subseteq P
  BY <1>16, SetInduction
<1>18. \A k \in 0 .. n : f[k] \in Blocks
  BY <1>17 DEF P
<1>19. f \in [0 .. n -> Blocks]
  BY <1>13, <1>18
<1> QED
  BY <1>14, <1>19 DEF f, next

\* A settled block stays as it is.
LEMMA SettledStays ==
  ASSUME NEW bits \in SUBSET Positions, NEW k \in 0 .. MaxIterations, Settled(Rounds(bits)[k])
  PROVE  Decoded(bits) = Rounds(bits)[k]
<1> DEFINE P == {m \in Nat : k + m <= MaxIterations => Rounds(bits)[k + m] = Rounds(bits)[k]}
<1>1. MaxIterations \in Nat
  BY LdpcAssumption
<1>2. 0 \in P
  OBVIOUS
<1>3. ASSUME NEW m \in Nat, m \in P, k + (m + 1) <= MaxIterations
      PROVE  Rounds(bits)[k + (m + 1)] = Rounds(bits)[k]
  <2>1. k + (m + 1) \in 1 .. MaxIterations /\ (k + (m + 1)) - 1 = k + m
    BY <1>1, <1>3
  <2>2. Rounds(bits)[k + m] = Rounds(bits)[k]
    BY <1>1, <1>3
  <2> QED
    BY <2>1, <2>2, RoundsSteps
<1>4. \A m \in Nat : m \in P => m + 1 \in P
  BY <1>3
<1> HIDE DEF P
<1>5. MaxIterations - k \in P
  BY <1>1, <1>2, <1>4, SetInduction
<1>6. k + (MaxIterations - k) = MaxIterations
  BY <1>1
<1> QED
  BY <1>1, <1>5, <1>6 DEF P, Decoded

\* A round of a block.
Round(bits) == IF Settled(bits) THEN bits ELSE Flip(bits)

\* A block has finitely many positions.
LEMMA PositionsAreFinite == IsFiniteSet(Positions)
<1>1. 1 \in Int /\ BlockLength \in Int
  BY LdpcAssumption
<1>2. IsFiniteSet(1 .. BlockLength)
  BY <1>1, FS_Interval
<1> QED
  BY <1>2 DEF Positions

\* The positions of a check in which two blocks differ are those it shares with one of
\* them but not with both.
LEMMA ParityOfDifference ==
  ASSUME NEW P \in SUBSET Positions, NEW a \in SUBSET Positions, NEW b \in SUBSET Positions
  PROVE  Cardinality(P \cap Differing(a, b))
           = Cardinality(P \cap a) + Cardinality(P \cap b) - 2 * Cardinality((P \cap a) \cap (P \cap b))
<1> DEFINE A == P \cap a
           B == P \cap b
<1>1. IsFiniteSet(Positions)
  BY PositionsAreFinite
<1>2. IsFiniteSet(A) /\ IsFiniteSet(B)
  <2>1. A \in SUBSET Positions /\ B \in SUBSET Positions
    OBVIOUS
  <2> HIDE DEF A, B
  <2> QED
    BY <1>1, <2>1, FS_Subset
<1>3. P \cap Differing(a, b) = (A \ B) \cup (B \ A)
  BY DEF Differing
<1> HIDE DEF A, B
<1>4. Cardinality((A \ B) \cup (B \ A)) = Cardinality(A) + Cardinality(B) - 2 * Cardinality(A \cap B)
  BY <1>2, CardinalityOfDifference
<1> QED
  BY <1>3, <1>4 DEF A, B

\* Every count is twice a number and a bit over, and the bit is its remainder.
LEMMA ParityIsRemainder ==
  ASSUME NEW n \in Int, NEW k \in Int, NEW bit \in {0, 1}, n = 2 * k + bit
  PROVE  n % 2 = bit
OBVIOUS

LEMMA ParityParts ==
  ASSUME NEW n \in Nat
  PROVE  \E k \in Int, bit \in {0, 1} : n = 2 * k + bit
<1>1. n = 2 * (n \div 2) + (n % 2) /\ n \div 2 \in Int /\ n % 2 \in {0, 1}
  OBVIOUS
<1> QED
  BY <1>1

\* A check counts an odd number of positions of a sum when it counts an odd number of
\* one of the two blocks only.
LEMMA ParityOfSum ==
  ASSUME NEW P \in SUBSET Positions, NEW a \in SUBSET Positions, NEW b \in SUBSET Positions
  PROVE  Cardinality(P \cap Differing(a, b)) % 2 # 0 <=>
           (Cardinality(P \cap a) % 2 # 0 <=> Cardinality(P \cap b) % 2 = 0)
<1> DEFINE m == Cardinality(P \cap a)
           e == Cardinality(P \cap b)
           both == Cardinality((P \cap a) \cap (P \cap b))
           d == Cardinality(P \cap Differing(a, b))
<1>1. d = m + e - 2 * both
  BY ParityOfDifference
<1>2. IsFiniteSet(P \cap a) /\ IsFiniteSet(P \cap b)
  BY PositionsAreFinite, FS_Subset
<1>3. IsFiniteSet((P \cap a) \cap (P \cap b))
  BY <1>2, FS_Intersection
<1>4. m \in Nat /\ e \in Nat /\ both \in Nat
  BY <1>2, <1>3, FS_CardinalityType
<1> HIDE DEF m, e, both, d
<1>5. PICK q \in Int, odd_a \in {0, 1} : m = 2 * q + odd_a
  BY <1>4, ParityParts
<1>6. PICK h \in Int, odd_b \in {0, 1} : e = 2 * h + odd_b
  BY <1>4, ParityParts
<1>7. m % 2 = odd_a /\ e % 2 = odd_b
  BY <1>5, <1>6, ParityIsRemainder
<1>8. d % 2 # 0 <=> odd_a # odd_b
  <2>1. CASE odd_a = odd_b
    <3>1. d = 2 * (q + h + odd_a - both) + 0 /\ q + h + odd_a - both \in Int
      BY <1>1, <1>4, <1>5, <1>6, <2>1
    <3> QED
      BY <2>1, <3>1, ParityIsRemainder
  <2>2. CASE odd_a # odd_b
    <3>1. odd_a + odd_b = 1
      BY <2>2
    <3>2. d = 2 * (q + h - both) + 1 /\ q + h - both \in Int
      BY <1>1, <1>4, <1>5, <1>6, <3>1
    <3> QED
      BY <2>2, <3>2, ParityIsRemainder
  <2> QED
    BY <2>1, <2>2
<1>9. d % 2 # 0 <=> (m % 2 # 0 <=> e % 2 = 0)
  BY <1>7, <1>8
<1> QED
  BY <1>9 DEF d, m, e

\* A check fails for a sum of two blocks when it fails for one of them only.
LEMMA FailedOfSum ==
  ASSUME NEW a \in SUBSET Positions, NEW b \in SUBSET Positions
  PROVE  FailedChecks(Differing(a, b)) = Differing(FailedChecks(a), FailedChecks(b))
<1>1. \A c \in Checks : ParityChecks[c] \in SUBSET Positions
  BY LdpcAssumption DEF Positions, Checks
<1>2. ASSUME NEW c \in Checks
      PROVE  Cardinality(ParityChecks[c] \cap Differing(a, b)) % 2 # 0 <=>
               (Cardinality(ParityChecks[c] \cap a) % 2 # 0
                  <=> Cardinality(ParityChecks[c] \cap b) % 2 = 0)
  BY <1>1, ParityOfSum
<1> QED
  BY <1>2 DEF FailedChecks, Differing

\* Checks that hold for a block do not see it in a sum with another block.
LEMMA CodewordIsUnseen ==
  ASSUME NEW sent \in SUBSET Positions, NEW error \in SUBSET Positions, Codeword(sent)
  PROVE  FailedChecks(Differing(sent, error)) = FailedChecks(error)
<1>1. FailedChecks(Differing(sent, error)) = Differing({}, FailedChecks(error))
  BY FailedOfSum DEF Codeword
<1> QED
  BY <1>1 DEF Differing

\* A block and the error in it are settled together, and the same positions are flipped
\* in both.
LEMMA RoundOfSum ==
  ASSUME NEW sent \in SUBSET Positions, NEW error \in SUBSET Positions, Codeword(sent)
  PROVE  Round(Differing(sent, error)) = Differing(sent, Round(error))
<1> DEFINE sum == Differing(sent, error)
<1>1. FailedChecks(sum) = FailedChecks(error)
  BY CodewordIsUnseen
<1> HIDE DEF sum
<1>2. \A i \in Positions : Votes(sum, i) = Votes(error, i)
  BY <1>1 DEF Votes
<1>3. {Votes(sum, i) : i \in Positions} = {Votes(error, i) : i \in Positions}
  BY <1>2
<1>4. MostVotes(sum) = MostVotes(error)
  BY <1>3 DEF MostVotes
<1>5. Settled(sum) <=> Settled(error)
  BY <1>1, <1>4 DEF Settled
<1> DEFINE chosen == {i \in Positions : Votes(error, i) = MostVotes(error)}
<1>6. {i \in Positions : Votes(sum, i) = MostVotes(sum)} = chosen
  BY <1>2, <1>4
<1>7. Flip(sum) = (sum \ chosen) \cup (chosen \ sum)
  BY <1>6 DEF Flip
<1>8. Flip(error) = (error \ chosen) \cup (chosen \ error)
  BY DEF Flip
<1> HIDE DEF chosen
<1>9. Flip(sum) = Differing(sent, Flip(error))
  BY <1>7, <1>8 DEF sum, Differing
<1> QED
  BY <1>5, <1>9 DEF Round, sum

\* An error is decoded in the same way whichever codeword it is in.
LEMMA DecodedSum ==
  ASSUME NEW sent \in SUBSET Positions, NEW error \in SUBSET Positions, Codeword(sent)
  PROVE  Decoded(Differing(sent, error)) = Differing(sent, Decoded(error))
<1> DEFINE sum == Differing(sent, error)
           P == {k \in Nat : k <= MaxIterations =>
                               Rounds(sum)[k] = Differing(sent, Rounds(error)[k])}
<1>1. MaxIterations \in Nat
  BY LdpcAssumption
<1>2. sum \in SUBSET Positions
  BY DEF Differing
<1>3. 0 \in P
  BY <1>2, RoundsSteps
<1>4. ASSUME NEW k \in Nat, k \in P, k + 1 <= MaxIterations
      PROVE  Rounds(sum)[k + 1] = Differing(sent, Rounds(error)[k + 1])
  <2>1. k + 1 \in 1 .. MaxIterations /\ (k + 1) - 1 = k /\ k \in 0 .. MaxIterations
    BY <1>1, <1>4
  <2>2. Rounds(sum)[k + 1] = Round(Rounds(sum)[k])
    BY <1>2, <2>1, RoundsSteps DEF Round
  <2>3. Rounds(error)[k + 1] = Round(Rounds(error)[k])
    BY <2>1, RoundsSteps DEF Round
  <2>4. Rounds(error)[k] \in SUBSET Positions
    BY <2>1, RoundsSteps
  <2>5. Rounds(sum)[k] = Differing(sent, Rounds(error)[k])
    BY <1>4, <2>1
  <2> QED
    BY <2>2, <2>3, <2>4, <2>5, RoundOfSum
<1>5. \A k \in Nat : k \in P => k + 1 \in P
  BY <1>4
<1> HIDE DEF P
<1>6. MaxIterations \in P
  BY <1>1, <1>3, <1>5, SetInduction
<1> QED
  BY <1>1, <1>6 DEF P, Decoded

\* All checks hold for the block of zeros.
LEMMA ZerosAreACodeword == FailedChecks({}) = {}
<1>1. \A c \in Checks : ParityChecks[c] \cap {} = {}
  OBVIOUS
<1>2. Cardinality({}) % 2 = 0
  BY FS_EmptySet
<1> QED
  BY <1>1, <1>2 DEF FailedChecks

\* No round changes the block of zeros.
LEMMA ZerosStay == Decoded({}) = {}
<1>1. MaxIterations \in Nat /\ {} \in SUBSET Positions
  BY LdpcAssumption
<1>2. Rounds({})[0] = {}
  BY <1>1, RoundsSteps
<1>3. Settled(Rounds({})[0])
  BY <1>2, ZerosAreACodeword DEF Settled
<1> QED
  BY <1>1, <1>2, <1>3, SettledStays

-----------------------------------------------------------------------------
\* The block in hand is what the rounds so far leave of its hard decisions, and every
\* finished block is what all rounds make of its own.
LdpcInv ==
  /\ hard_blocks \in Seq(SUBSET Positions)
  /\ \A b \in DOMAIN hard_blocks : hard_blocks[b] = Decoded(HardDecisions(b))
  /\ stage = "called" => hard_blocks = << >>
  /\ stage = "decoding" =>
       /\ iteration \in 0 .. MaxIterations
       /\ ones = Rounds(HardDecisions(Len(hard_blocks) + 1))[iteration]

\* No step of the decoder leaves the rounds.
LEMMA LdpcInvInductive == LdpcInv /\ [LdpcNext]_ldpc_vars => LdpcInv'
<1> SUFFICES ASSUME LdpcInv, [LdpcNext]_ldpc_vars
             PROVE  LdpcInv'
  OBVIOUS
<1>1. MaxIterations \in Nat
  BY LdpcAssumption
<1>2. soft_in' = soft_in
  BY DEF LdpcNext, RefuseBlocks, Begin, FlipBits, FinishBlock, ldpc_vars
<1>3. \A b : HardDecisions(b)' = HardDecisions(b)
  BY <1>2 DEF HardDecisions
<1>4. \A b : HardDecisions(b) \in SUBSET Positions
  BY DEF HardDecisions
<1>5. ASSUME NEW b
      PROVE  Rounds(HardDecisions(b))[0] = HardDecisions(b)
  BY <1>4, RoundsSteps
<1>6. CASE RefuseBlocks
  BY <1>3, <1>6 DEF LdpcInv, RefuseBlocks
<1>7. CASE Begin
  <2>1. hard_blocks' = hard_blocks /\ stage' = "decoding" /\ ones' = HardDecisions(1) /\ iteration' = 0
    BY <1>7 DEF Begin, StartBlock
  <2>2. hard_blocks = << >>
    BY <1>7 DEF Begin, LdpcInv
  <2> QED
    BY <1>1, <1>3, <1>5, <2>1, <2>2 DEF LdpcInv
<1>8. CASE FlipBits
  <2> DEFINE received == HardDecisions(Len(hard_blocks) + 1)
  <2>1. /\ stage = "decoding" /\ stage' = "decoding" /\ hard_blocks' = hard_blocks
        /\ ones' = Flip(ones) /\ iteration' = iteration + 1
        /\ FailedChecks(ones) # {} /\ MostVotes(ones) # 0 /\ iteration # MaxIterations
    BY <1>8 DEF FlipBits, BlockDone, Settled
  <2>2. iteration \in 0 .. MaxIterations /\ ones = Rounds(received)[iteration]
    BY <2>1 DEF LdpcInv
  <2>3. received \in SUBSET Positions /\ received' = received
    BY <1>3, <1>4, <2>1
  <2> HIDE DEF received
  <2>4. iteration + 1 \in 1 .. MaxIterations /\ (iteration + 1) - 1 = iteration
    BY <1>1, <2>1, <2>2
  <2>5. ~Settled(Rounds(received)[iteration])
    BY <2>1, <2>2 DEF Settled
  <2>6. Rounds(received)[iteration + 1] = Flip(ones)
    BY <2>2, <2>3, <2>4, <2>5, RoundsSteps
  <2>7. ones' = Rounds(received')[iteration'] /\ iteration' \in 0 .. MaxIterations
    BY <1>1, <2>1, <2>3, <2>4, <2>6
  <2> QED
    BY <1>3, <2>1, <2>7 DEF LdpcInv, received
<1>9. CASE FinishBlock
  <2> DEFINE last == Len(hard_blocks) + 1
             received == HardDecisions(last)
  <2>1. /\ stage = "decoding" /\ hard_blocks' = Append(hard_blocks, ones)
        /\ FailedChecks(ones) = {} \/ MostVotes(ones) = 0 \/ iteration = MaxIterations
    BY <1>9 DEF FinishBlock, BlockDone, Settled
  <2>2. iteration \in 0 .. MaxIterations /\ ones = Rounds(received)[iteration]
    BY <2>1 DEF LdpcInv
  <2>3. received \in SUBSET Positions
    BY <1>4
  <2>4. ones = Decoded(received)
    <3> HIDE DEF received
    <3>1. CASE Settled(Rounds(received)[iteration])
      BY <2>2, <2>3, <3>1, SettledStays
    <3>2. CASE iteration = MaxIterations
      BY <2>2, <3>2 DEF Decoded
    <3> QED
      BY <2>1, <2>2, <3>1, <3>2 DEF Settled
  <2>5. ones \in SUBSET Positions
    BY <2>2, <2>3, RoundsSteps
  <2>6. hard_blocks \in Seq(SUBSET Positions)
    BY DEF LdpcInv
  <2>7. /\ hard_blocks' \in Seq(SUBSET Positions) /\ Len(hard_blocks') = last
        /\ \A b \in DOMAIN hard_blocks : hard_blocks'[b] = hard_blocks[b]
        /\ hard_blocks'[last] = ones /\ DOMAIN hard_blocks' = DOMAIN hard_blocks \cup {last}
    BY <2>1, <2>5, <2>6
  <2>8. \A b \in DOMAIN hard_blocks' : hard_blocks'[b] = Decoded(HardDecisions(b))
    BY <2>4, <2>7 DEF LdpcInv
  <2>9. ASSUME stage' = "decoding"
        PROVE  iteration' = 0 /\ ones' = HardDecisions(last + 1)
    BY <1>9, <2>7, <2>9 DEF FinishBlock, StartBlock
  <2>10. stage' = "decoding" =>
           /\ iteration' \in 0 .. MaxIterations
           /\ ones' = Rounds(HardDecisions(Len(hard_blocks') + 1))[iteration']
    BY <1>1, <1>5, <2>7, <2>9
  <2>11. stage' # "called"
    BY <1>9, <2>1 DEF FinishBlock
  <2> QED
    BY <1>3, <2>7, <2>8, <2>10, <2>11 DEF LdpcInv
<1>10. CASE UNCHANGED ldpc_vars
  <2>1. UNCHANGED <<ones, iteration, hard_blocks, stage>>
    BY <1>10 DEF ldpc_vars
  <2> QED
    BY <1>3, <2>1 DEF LdpcInv
<1> QED
  BY <1>6, <1>7, <1>8, <1>9, <1>10 DEF LdpcNext

\* Every finished block is what the rounds make of its own decisions: the blocks of a
\* call do not influence each other.
THEOREM LdpcInvariant == LdpcSpec => []LdpcInv
<1>1. LdpcInit => LdpcInv
  BY DEF LdpcInit, LdpcInv
<1> QED
  BY <1>1, LdpcInvInductive, PTL DEF LdpcSpec

\* A matrix with which the decoder removes every correctable error from the block of
\* zeros lets it remove them from every codeword, in every block of every call.
THEOREM LdpcRestoresSingleErrors ==
  ASSUME ZeroBlockIsRestored
  PROVE  LdpcSpec => []SingleErrorsAreRestored
<1>1. LdpcInv => SingleErrorsAreRestored
  <2> SUFFICES ASSUME LdpcInv, NEW b \in DOMAIN hard_blocks,
                      NEW flipped \in {{}} \cup {{i} : i \in CorrectablePositions},
                      Codeword(Differing(HardDecisions(b), flipped))
               PROVE  hard_blocks[b] = Differing(HardDecisions(b), flipped)
    BY DEF SingleErrorsAreRestored, Differing
  <2> DEFINE received == HardDecisions(b)
             sent == Differing(received, flipped)
  <2>1. received \in SUBSET Positions /\ flipped \in SUBSET Positions
    BY DEF HardDecisions, CorrectablePositions
  <2>2. hard_blocks[b] = Decoded(received)
    BY DEF LdpcInv
  <2> HIDE DEF received
  <2>3. sent \in SUBSET Positions /\ received = Differing(sent, flipped)
    BY <2>1 DEF Differing
  <2>4. Decoded(flipped) = {}
    BY ZerosStay DEF ZeroBlockIsRestored
  <2>5. Codeword(sent)
    BY DEF received
  <2> HIDE DEF sent
  <2>6. Decoded(Differing(sent, flipped)) = Differing(sent, Decoded(flipped))
    BY <2>1, <2>3, <2>5, DecodedSum
  <2>7. hard_blocks[b] = Differing(sent, {})
    BY <2>2, <2>3, <2>4, <2>6
  <2>8. Differing(sent, {}) = sent
    BY DEF Differing
  <2> QED
    BY <2>7, <2>8 DEF sent, received
<1> QED
  BY <1>1, LdpcInvariant, PTL

-----------------------------------------------------------------------------
\* The checks that contain a position: a column of the parity check matrix.
Column(i) == {c \in Checks : i \in ParityChecks[c]}

\* One wrong bit fails the checks of its column.
LEMMA FailedOfOne ==
  ASSUME NEW i \in Positions
  PROVE  FailedChecks({i}) = Column(i)
<1>1. ASSUME NEW c \in Checks
      PROVE  Cardinality(ParityChecks[c] \cap {i}) % 2 # 0 <=> i \in ParityChecks[c]
  <2>1. CASE i \in ParityChecks[c]
    <3>1. ParityChecks[c] \cap {i} = {i}
      BY <2>1
    <3>2. Cardinality({i}) = 1
      BY FS_Singleton
    <3> QED
      BY <2>1, <3>1, <3>2
  <2>2. CASE i \notin ParityChecks[c]
    <3>1. ParityChecks[c] \cap {i} = {}
      BY <2>2
    <3>2. Cardinality({}) = 0
      BY FS_EmptySet
    <3> QED
      BY <2>2, <3>1, <3>2
  <2> QED
    BY <2>1, <2>2
<1> QED
  BY <1>1 DEF FailedChecks, Column

\* The positions with the most votes are flipped.
LEMMA MostVotesFlip ==
  ASSUME NEW bits \in SUBSET Positions, FailedChecks(bits) # {},
         NEW n \in Nat \ {0}, NEW chosen \in SUBSET Positions, chosen # {},
         \A i \in chosen : Votes(bits, i) = n,
         \A i \in Positions \ chosen : Votes(bits, i) \in Nat /\ Votes(bits, i) < n
  PROVE  ~Settled(bits) /\ Flip(bits) = Differing(bits, chosen)
<1> DEFINE V == {Votes(bits, i) : i \in Positions}
<1>1. n \in V /\ \A v \in V : v \in Nat /\ n >= v
  <2>1. \A i \in Positions : Votes(bits, i) \in Nat /\ n >= Votes(bits, i)
    <3> SUFFICES ASSUME NEW i \in Positions PROVE Votes(bits, i) \in Nat /\ n >= Votes(bits, i)
      OBVIOUS
    <3>1. CASE i \in chosen
      BY <3>1
    <3>2. CASE i \notin chosen
      BY <3>2
    <3> QED
      BY <3>1, <3>2
  <2>2. \E i \in Positions : Votes(bits, i) = n
    OBVIOUS
  <2> QED
    BY <2>1, <2>2
<1> HIDE DEF V
<1>2. Max(V) \in V /\ \A v \in V : Max(V) >= v
  BY <1>1 DEF Max
<1>3. Max(V) = n
  <2> DEFINE m == Max(V)
  <2>1. m \in Nat /\ m >= n /\ n >= m
    BY <1>1, <1>2
  <2> HIDE DEF m
  <2>2. m = n
    BY <2>1
  <2> QED
    BY <2>2 DEF m
<1>4. MostVotes(bits) = n
  BY <1>3 DEF MostVotes, V
<1>5. {i \in Positions : Votes(bits, i) = n} = chosen
  OBVIOUS
<1> QED
  BY <1>4, <1>5 DEF Settled, Flip, Differing

\* When columns contain all failed checks, their positions are flipped.
LEMMA CoveringColumnsFlip ==
  ASSUME NEW bits \in SUBSET Positions,
         FailedChecks(bits) # {}, IsFiniteSet(FailedChecks(bits)),
         NEW chosen \in SUBSET Positions, chosen # {},
         \A i \in Positions : i \in chosen <=> FailedChecks(bits) \subseteq Column(i)
  PROVE  ~Settled(bits) /\ Flip(bits) = Differing(bits, chosen)
<1> DEFINE F == FailedChecks(bits)
           n == Cardinality(F)
<1>1. \A i : Votes(bits, i) = Cardinality(F \cap Column(i))
  <2> SUFFICES ASSUME NEW i PROVE Votes(bits, i) = Cardinality(F \cap Column(i))
    OBVIOUS
  <2>1. {c \in F : i \in ParityChecks[c]} = F \cap Column(i)
    BY DEF Column, FailedChecks
  <2> QED
    BY <2>1 DEF Votes
<1>2. n \in Nat \ {0}
  BY FS_CardinalityType, FS_EmptySet
<1>3. ASSUME NEW i \in chosen PROVE Votes(bits, i) = n
  <2>1. F \cap Column(i) = F
    OBVIOUS
  <2> QED
    BY <1>1, <2>1
<1>4. ASSUME NEW i \in Positions \ chosen PROVE Votes(bits, i) \in Nat /\ Votes(bits, i) < n
  <2> DEFINE T == F \cap Column(i)
  <2>1. T \in SUBSET F /\ T # F
    OBVIOUS
  <2> HIDE DEF T, F
  <2>2. IsFiniteSet(T) /\ Cardinality(T) <= Cardinality(F) /\ Cardinality(F) # Cardinality(T)
    BY <2>1, FS_Subset DEF F
  <2>3. Cardinality(T) \in Nat
    BY <2>2, FS_CardinalityType
  <2> QED
    BY <1>1, <1>2, <2>2, <2>3 DEF T
<1> HIDE DEF n
<1> QED
  BY <1>2, <1>3, <1>4, MostVotesFlip

-----------------------------------------------------------------------------

\* The constants of the source.
SourceMatrix == ParityChecks = kParityCheck /\ BlockLength = 12

\* The columns of the matrix of the source.
LEMMA SourceColumns ==
  ASSUME SourceMatrix
  PROVE  /\ Positions = 1 .. 12 /\ Checks = 1 .. 6
         /\ Column(1) = {1, 4}     /\ Column(2) = {1, 2, 5}  /\ Column(3) = {2, 3, 6}
         /\ Column(4) = {1, 3, 4}  /\ Column(5) = {2, 4, 5}  /\ Column(6) = {3, 5, 6}
         /\ Column(7) = {1, 5}     /\ Column(8) = {2, 6}     /\ Column(9) = {3, 4, 6}
         /\ Column(10) = {1, 4}    /\ Column(11) = {2, 5}    /\ Column(12) = {3, 6}
<1>1. Positions = 1 .. 12
  BY DEF SourceMatrix, Positions
<1>2. /\ Checks = 1 .. 6
      /\ ParityChecks[1] = {1, 2, 4, 7, 10} /\ ParityChecks[2] = {2, 3, 5, 8, 11}
      /\ ParityChecks[3] = {3, 4, 6, 9, 12} /\ ParityChecks[4] = {1, 4, 5, 9, 10}
      /\ ParityChecks[5] = {2, 5, 6, 7, 11} /\ ParityChecks[6] = {3, 6, 8, 9, 12}
  BY DEF SourceMatrix, Checks, kParityCheck
<1>3. ASSUME NEW i
      PROVE  \A c : c \in Column(i) <=> \/ c = 1 /\ i \in ParityChecks[1]
                                        \/ c = 2 /\ i \in ParityChecks[2]
                                        \/ c = 3 /\ i \in ParityChecks[3]
                                        \/ c = 4 /\ i \in ParityChecks[4]
                                        \/ c = 5 /\ i \in ParityChecks[5]
                                        \/ c = 6 /\ i \in ParityChecks[6]
  <2>1. \A c : c \in Checks <=> c = 1 \/ c = 2 \/ c = 3 \/ c = 4 \/ c = 5 \/ c = 6
    BY <1>2
  <2> QED
    BY <2>1 DEF Column
<1>4. Column(1) = {1, 4} /\ Column(2) = {1, 2, 5} /\ Column(3) = {2, 3, 6}
  BY <1>2, <1>3
<1>5. Column(4) = {1, 3, 4} /\ Column(5) = {2, 4, 5} /\ Column(6) = {3, 5, 6}
  BY <1>2, <1>3
<1>6. Column(7) = {1, 5} /\ Column(8) = {2, 6} /\ Column(9) = {3, 4, 6}
  BY <1>2, <1>3
<1>7. Column(10) = {1, 4} /\ Column(11) = {2, 5} /\ Column(12) = {3, 6}
  BY <1>2, <1>3
<1> QED
  BY <1>1, <1>2, <1>4, <1>5, <1>6, <1>7

\* The failed checks are finitely many.
LEMMA FailedAreFinite ==
  ASSUME SourceMatrix, NEW bits
  PROVE  IsFiniteSet(FailedChecks(bits))
<1>1. IsFiniteSet(1 .. 6)
  <2>1. 1 \in Int /\ 6 \in Int
    OBVIOUS
  <2> QED
    BY <2>1, FS_Interval
<1>2. FailedChecks(bits) \in SUBSET (1 .. 6)
  BY SourceColumns DEF FailedChecks
<1> QED
  BY <1>1, <1>2, FS_Subset

\* One round removes an error whose column is in no other.
LEMMA DistinctColumnRestores ==
  ASSUME SourceMatrix, NEW i \in {2, 3, 4, 5, 6, 9}
  PROVE  ~Settled({i}) /\ Flip({i}) = {}
<1>1. i \in Positions /\ FailedChecks({i}) = Column(i)
  BY SourceColumns, FailedOfOne
<1>2. \A k \in Positions : k \in {i} <=> Column(i) \subseteq Column(k)
  <2>1. \A k : k \in Positions <=> \/ k = 1 \/ k = 2 \/ k = 3 \/ k = 4 \/ k = 5 \/ k = 6
                                 \/ k = 7 \/ k = 8 \/ k = 9 \/ k = 10 \/ k = 11 \/ k = 12
    BY SourceColumns
  <2>2. CASE i = 2 BY <2>1, <2>2, SourceColumns
  <2>3. CASE i = 3 BY <2>1, <2>3, SourceColumns
  <2>4. CASE i = 4 BY <2>1, <2>4, SourceColumns
  <2>5. CASE i = 5 BY <2>1, <2>5, SourceColumns
  <2>6. CASE i = 6 BY <2>1, <2>6, SourceColumns
  <2>7. CASE i = 9 BY <2>1, <2>7, SourceColumns
  <2> QED
    BY <2>2, <2>3, <2>4, <2>5, <2>6, <2>7
<1>3. Column(i) # {}
  BY SourceColumns
<1>4. IsFiniteSet(FailedChecks({i})) /\ {i} \in SUBSET Positions
  BY <1>1, FailedAreFinite
<1>5. ~Settled({i}) /\ Flip({i}) = Differing({i}, {i})
  BY <1>1, <1>2, <1>3, <1>4, CoveringColumnsFlip
<1> QED
  BY <1>5 DEF Differing

LEMMA ThreeElements ==
  ASSUME NEW a \in Int, NEW b \in Int, NEW c \in Int, a < b, b < c
  PROVE  Cardinality({a, b, c}) = 3
<1>1. IsFiniteSet({a}) /\ Cardinality({a}) = 1
  BY FS_Singleton
<1>2. IsFiniteSet({a} \cup {b}) /\ Cardinality({a} \cup {b}) = 2
  BY <1>1, FS_AddElement
<1>3. Cardinality(({a} \cup {b}) \cup {c}) = 3
  BY <1>2, FS_AddElement
<1>4. ({a} \cup {b}) \cup {c} = {a, b, c}
  OBVIOUS
<1> QED
  BY <1>3, <1>4

LEMMA AtMostTwoElements ==
  ASSUME NEW a, NEW b, NEW S, S \subseteq {a, b}
  PROVE  Cardinality(S) \in Nat /\ Cardinality(S) < 3
<1>1. IsFiniteSet({a}) /\ Cardinality({a}) = 1
  BY FS_Singleton
<1>2. IsFiniteSet({a} \cup {b}) /\ Cardinality({a} \cup {b}) <= 2 /\ Cardinality({a} \cup {b}) \in Nat
  BY <1>1, FS_AddElement
<1>3. S \in SUBSET ({a} \cup {b})
  OBVIOUS
<1>4. IsFiniteSet(S) /\ Cardinality(S) <= Cardinality({a} \cup {b})
  BY <1>2, <1>3, FS_Subset
<1>5. Cardinality(S) \in Nat
  BY <1>4, FS_CardinalityType
<1> QED
  BY <1>2, <1>4, <1>5

\* The positions 7 and 8 first turn into an error that the next round removes.
LEMMA SharedColumnTurns ==
  ASSUME SourceMatrix
  PROVE  /\ ~Settled({7}) /\ Flip({7}) = {2}
         /\ ~Settled({8}) /\ Flip({8}) = {3}
<1>1. /\ 7 \in Positions /\ FailedChecks({7}) = Column(7)
      /\ 8 \in Positions /\ FailedChecks({8}) = Column(8)
  BY SourceColumns, FailedOfOne
<1>2. \A k : k \in Positions <=> \/ k = 1 \/ k = 2 \/ k = 3 \/ k = 4 \/ k = 5 \/ k = 6
                               \/ k = 7 \/ k = 8 \/ k = 9 \/ k = 10 \/ k = 11 \/ k = 12
  BY SourceColumns
<1>3. /\ \A k \in Positions : k \in {2, 7} <=> Column(7) \subseteq Column(k)
      /\ \A k \in Positions : k \in {3, 8} <=> Column(8) \subseteq Column(k)
  BY <1>2, SourceColumns
<1>4. Column(7) # {} /\ Column(8) # {}
  BY SourceColumns
<1>5. /\ IsFiniteSet(FailedChecks({7})) /\ {7} \in SUBSET Positions /\ {2, 7} \in SUBSET Positions
      /\ IsFiniteSet(FailedChecks({8})) /\ {8} \in SUBSET Positions /\ {3, 8} \in SUBSET Positions
  BY <1>1, <1>2, FailedAreFinite
<1>6. /\ ~Settled({7}) /\ Flip({7}) = Differing({7}, {2, 7})
      /\ ~Settled({8}) /\ Flip({8}) = Differing({8}, {3, 8})
  BY <1>1, <1>3, <1>4, <1>5, CoveringColumnsFlip
<1>7. Differing({7}, {2, 7}) = {2} /\ Differing({8}, {3, 8}) = {3}
  BY DEF Differing
<1> QED
  BY <1>6, <1>7

\* The error of position 12 becomes three errors before it becomes one that is removed.
LEMMA LastPositionSpreads ==
  ASSUME SourceMatrix
  PROVE  /\ ~Settled({12}) /\ Flip({12}) = {3, 6, 9}
         /\ ~Settled({3, 6, 9}) /\ Flip({3, 6, 9}) = {5}
<1>1. \A k : k \in Positions <=> \/ k = 1 \/ k = 2 \/ k = 3 \/ k = 4 \/ k = 5 \/ k = 6
                               \/ k = 7 \/ k = 8 \/ k = 9 \/ k = 10 \/ k = 11 \/ k = 12
  BY SourceColumns
<1>2. ~Settled({12}) /\ Flip({12}) = {3, 6, 9}
  <2>1. FailedChecks({12}) = Column(12)
    BY <1>1, FailedOfOne
  <2>2. \A k \in Positions : k \in {3, 6, 9, 12} <=> Column(12) \subseteq Column(k)
    BY <1>1, SourceColumns
  <2>3. Column(12) # {}
    BY SourceColumns
  <2>4. IsFiniteSet(FailedChecks({12})) /\ {12} \in SUBSET Positions /\ {3, 6, 9, 12} \in SUBSET Positions
    BY <1>1, FailedAreFinite
  <2>5. ~Settled({12}) /\ Flip({12}) = Differing({12}, {3, 6, 9, 12})
    BY <2>1, <2>2, <2>3, <2>4, CoveringColumnsFlip
  <2> QED
    BY <2>5 DEF Differing
<1>3. FailedChecks({3, 6, 9}) = {2, 3, 4, 5, 6}
  <2>1. {3} \in SUBSET Positions /\ {6} \in SUBSET Positions /\ {9} \in SUBSET Positions
        /\ Differing({3}, {6}) \in SUBSET Positions
    BY <1>1 DEF Differing
  <2>2. FailedChecks(Differing({3}, {6})) = Differing(Column(3), Column(6))
    BY <1>1, <2>1, FailedOfSum, FailedOfOne
  <2>3. FailedChecks(Differing(Differing({3}, {6}), {9}))
          = Differing(Differing(Column(3), Column(6)), Column(9))
    BY <1>1, <2>1, <2>2, FailedOfSum, FailedOfOne
  <2>4. Differing(Differing({3}, {6}), {9}) = {3, 6, 9}
    BY DEF Differing
  <2>5. Differing(Differing(Column(3), Column(6)), Column(9)) = {2, 3, 4, 5, 6}
    <3>1. Differing({2, 3, 6}, {3, 5, 6}) = {2, 5}
      BY DEF Differing
    <3>2. Differing({2, 5}, {3, 4, 6}) = {2, 3, 4, 5, 6}
      BY DEF Differing
    <3> QED
      BY <3>1, <3>2, SourceColumns
  <2> QED
    BY <2>3, <2>4, <2>5
<1>4. \A i : Votes({3, 6, 9}, i) = Cardinality({2, 3, 4, 5, 6} \cap Column(i))
  <2> SUFFICES ASSUME NEW i
               PROVE  Votes({3, 6, 9}, i) = Cardinality({2, 3, 4, 5, 6} \cap Column(i))
    OBVIOUS
  <2>1. {2, 3, 4, 5, 6} \subseteq Checks
    BY SourceColumns
  <2>2. {c \in {2, 3, 4, 5, 6} : i \in ParityChecks[c]} = {2, 3, 4, 5, 6} \cap Column(i)
    BY <2>1 DEF Column
  <2> QED
    BY <1>3, <2>2 DEF Votes
<1>5. ASSUME NEW i \in {3, 5, 6, 9}
      PROVE  Votes({3, 6, 9}, i) = 3
  <2>1. \/ {2, 3, 4, 5, 6} \cap Column(i) = {2, 3, 6}
        \/ {2, 3, 4, 5, 6} \cap Column(i) = {2, 4, 5}
        \/ {2, 3, 4, 5, 6} \cap Column(i) = {3, 5, 6}
        \/ {2, 3, 4, 5, 6} \cap Column(i) = {3, 4, 6}
    BY SourceColumns
  <2>2. /\ Cardinality({2, 3, 6}) = 3 /\ Cardinality({2, 4, 5}) = 3
        /\ Cardinality({3, 5, 6}) = 3 /\ Cardinality({3, 4, 6}) = 3
    <3>1. Cardinality({2, 3, 6}) = 3
      BY ThreeElements
    <3>2. Cardinality({2, 4, 5}) = 3
      BY ThreeElements
    <3>3. Cardinality({3, 5, 6}) = 3
      BY ThreeElements
    <3>4. Cardinality({3, 4, 6}) = 3
      BY ThreeElements
    <3> QED
      BY <3>1, <3>2, <3>3, <3>4
  <2> QED
    BY <1>4, <2>1, <2>2
<1>6. ASSUME NEW i \in Positions \ {3, 5, 6, 9}
      PROVE  Votes({3, 6, 9}, i) \in Nat /\ Votes({3, 6, 9}, i) < 3
  <2>1. \/ {2, 3, 4, 5, 6} \cap Column(i) \subseteq {4, 3}
        \/ {2, 3, 4, 5, 6} \cap Column(i) \subseteq {2, 5}
        \/ {2, 3, 4, 5, 6} \cap Column(i) \subseteq {2, 6}
        \/ {2, 3, 4, 5, 6} \cap Column(i) \subseteq {3, 6}
    BY <1>1, SourceColumns
  <2> DEFINE S == {2, 3, 4, 5, 6} \cap Column(i)
  <2>2. Votes({3, 6, 9}, i) = Cardinality(S)
    BY <1>4
  <2>3. S \subseteq {4, 3} \/ S \subseteq {2, 5} \/ S \subseteq {2, 6} \/ S \subseteq {3, 6}
    BY <2>1
  <2> HIDE DEF S
  <2>4. Cardinality(S) \in Nat /\ Cardinality(S) < 3
    BY <2>3, AtMostTwoElements, Zenon
  <2> QED
    BY <2>2, <2>4
<1>7. ~Settled({3, 6, 9}) /\ Flip({3, 6, 9}) = Differing({3, 6, 9}, {3, 5, 6, 9})
  <2>1. {3, 6, 9} \in SUBSET Positions /\ {3, 5, 6, 9} \in SUBSET Positions /\ 3 \in Nat \ {0}
    BY <1>1
  <2> QED
    BY <1>3, <1>5, <1>6, <2>1, MostVotesFlip
<1>8. Differing({3, 6, 9}, {3, 5, 6, 9}) = {5}
  BY DEF Differing
<1> QED
  BY <1>2, <1>7, <1>8

\* Three rounds are enough for the matrix of the source.
LEMMA SourceRestoresZeros ==
  ASSUME SourceMatrix, MaxIterations >= 3
  PROVE  ZeroBlockIsRestored
<1> SUFFICES ASSUME NEW i \in CorrectablePositions
             PROVE  Decoded({i}) = {}
  BY DEF ZeroBlockIsRestored
<1>1. MaxIterations \in Nat /\ \A k \in 0 .. 3 : k \in 0 .. MaxIterations
  BY LdpcAssumption
<1>2. {i} \in SUBSET Positions
  BY DEF CorrectablePositions
<1>3. Rounds({i})[0] = {i}
  BY <1>2, RoundsSteps
<1>4. ASSUME NEW k \in 1 .. 3, ~Settled(Rounds({i})[k - 1])
      PROVE  Rounds({i})[k] = Flip(Rounds({i})[k - 1])
  <2>1. k \in 1 .. MaxIterations
    BY <1>1
  <2> QED
    BY <1>2, <1>4, <2>1, RoundsSteps
<1>5. ASSUME NEW k \in 0 .. 3, Rounds({i})[k] = {}
      PROVE  Decoded({i}) = {}
  <2>1. Settled(Rounds({i})[k])
    BY <1>5, ZerosAreACodeword DEF Settled
  <2>2. k \in 0 .. MaxIterations
    BY <1>1
  <2> QED
    BY <1>2, <1>5, <2>1, <2>2, SettledStays
<1>6. i \in {2, 3, 4, 5, 6, 9} \/ i = 7 \/ i = 8 \/ i = 12
  BY SourceColumns DEF CorrectablePositions
<1>7. CASE i \in {2, 3, 4, 5, 6, 9}
  <2>1. Rounds({i})[1] = {}
    BY <1>3, <1>4, <1>7, DistinctColumnRestores
  <2> QED
    BY <1>5, <2>1
<1>8. CASE i = 7 \/ i = 8
  <2>1. Rounds({i})[1] = {2} \/ Rounds({i})[1] = {3}
    BY <1>3, <1>4, <1>8, SharedColumnTurns
  <2>2. Rounds({i})[2] = {}
    BY <1>4, <2>1, DistinctColumnRestores
  <2> QED
    BY <1>5, <2>2
<1>9. CASE i = 12
  <2>1. Rounds({i})[1] = {3, 6, 9}
    BY <1>3, <1>4, <1>9, LastPositionSpreads
  <2>2. Rounds({i})[2] = {5}
    BY <1>4, <2>1, LastPositionSpreads
  <2>3. Rounds({i})[3] = {}
    BY <1>4, <2>2, DistinctColumnRestores
  <2> QED
    BY <1>5, <2>3
<1> QED
  BY <1>6, <1>7, <1>8, <1>9

(***************************************************************************)
(* SingleErrorsAreRestored for the matrix of the source and any number of  *)
(* rounds from three on: a single wrong decision at a correctable position *)
(* is restored in every codeword, every block and every call.              *)
(***************************************************************************)
THEOREM SourceMatrixRestores ==
  ASSUME SourceMatrix, MaxIterations >= 3
  PROVE  LdpcSpec => []SingleErrorsAreRestored
BY SourceRestoresZeros, LdpcRestoresSingleErrors

-----------------------------------------------------------------------------

\* The exclusive or of registers, element by element.
LEMMA XorFacts ==
  /\ \A a, b, x : x \in Xor(a, b) <=> (x \in a /\ x \notin b) \/ (x \in b /\ x \notin a)
  /\ \A a \in Byte, b \in Byte : Xor(a, b) \in Byte
  /\ \A a : Xor(a, a) = {} /\ Xor({}, a) = a /\ Xor(a, {}) = a
  /\ \A a, b : Xor(a, b) = {} => a = b
<1>1. \A a, b, x : x \in Xor(a, b) <=> (x \in a /\ x \notin b) \/ (x \in b /\ x \notin a)
  BY DEF Xor
<1>2. \A a \in Byte, b \in Byte : Xor(a, b) \in Byte
  BY DEF Xor, Byte
<1>3. \A a : Xor(a, a) = {} /\ Xor({}, a) = a /\ Xor(a, {}) = a
  BY DEF Xor
<1>4. \A a, b : Xor(a, b) = {} => a = b
  BY DEF Xor
<1> QED
  BY <1>1, <1>2, <1>3, <1>4

\* Regrouping the exclusive or of four registers.
LEMMA XorRegroups ==
  ASSUME NEW a, NEW b, NEW x, NEW y
  PROVE  Xor(Xor(a, b), Xor(x, y)) = Xor(Xor(a, x), Xor(b, y))
BY DEF Xor

\* The bits of a shifted register.
LEMMA ShiftBits ==
  ASSUME NEW r \in Byte
  PROVE  /\ CrcShift(r) \in Byte
         /\ \A b \in 0 .. 7 :
              b \in CrcShift(r) <=> ((b - 1 \in r) # (7 \in r /\ b \in {0, 1, 2}))
BY DEF CrcShift, Byte

\* Without a bit that falls out every bit moves up.
LEMMA BitMovesUp ==
  ASSUME NEW r \in Byte, 7 \notin r, NEW b \in 0 .. 6, b \in r
  PROVE  b + 1 \in CrcShift(r)
<1> DEFINE c == b + 1
<1>1. c \in 0 .. 7 /\ c - 1 = b
  OBVIOUS
<1> HIDE DEF c
<1>2. c - 1 \in r
  BY <1>1
<1>3. c \in CrcShift(r)
  BY <1>1, <1>2, ShiftBits
<1> QED
  BY <1>3 DEF c

\* The register is linear: what two runs differ in is shifted on its own.
LEMMA ShiftXor ==
  ASSUME NEW r \in Byte, NEW q \in Byte
  PROVE  CrcShift(Xor(r, q)) = Xor(CrcShift(r), CrcShift(q))
<1>1. Xor(r, q) \in Byte /\ CrcShift(r) \in Byte /\ CrcShift(q) \in Byte
  BY XorFacts, ShiftBits
<1>2. CrcShift(Xor(r, q)) \in Byte /\ Xor(CrcShift(r), CrcShift(q)) \in Byte
  BY <1>1, XorFacts, ShiftBits
<1>3. ASSUME NEW b \in 0 .. 7
      PROVE  b \in CrcShift(Xor(r, q)) <=> b \in Xor(CrcShift(r), CrcShift(q))
  <2>1. /\ b - 1 \in Xor(r, q) <=> (b - 1 \in r /\ b - 1 \notin q) \/ (b - 1 \in q /\ b - 1 \notin r)
        /\ 7 \in Xor(r, q) <=> (7 \in r /\ 7 \notin q) \/ (7 \in q /\ 7 \notin r)
    BY XorFacts
  <2>2. b \in CrcShift(Xor(r, q)) <=> ((b - 1 \in Xor(r, q)) # (7 \in Xor(r, q) /\ b \in {0, 1, 2}))
    BY <1>1, ShiftBits
  <2>3. /\ b \in CrcShift(r) <=> ((b - 1 \in r) # (7 \in r /\ b \in {0, 1, 2}))
        /\ b \in CrcShift(q) <=> ((b - 1 \in q) # (7 \in q /\ b \in {0, 1, 2}))
    BY ShiftBits
  <2>4. b \in Xor(CrcShift(r), CrcShift(q))
          <=> \/ b \in CrcShift(r) /\ b \notin CrcShift(q)
              \/ b \in CrcShift(q) /\ b \notin CrcShift(r)
    BY XorFacts
  <2> QED
    BY <2>1, <2>2, <2>3, <2>4
<1> QED
  BY <1>2, <1>3 DEF Byte

-----------------------------------------------------------------------------

\* The eight shifts of a byte.
Shift2(r) == CrcShift(CrcShift(r))
Shift8(r) == Shift2(Shift2(Shift2(Shift2(r))))

LEMMA CrcByteIsShift8 ==
  ASSUME NEW r, NEW v
  PROVE  CrcByte(r, v) = Shift8(Xor(r, v))
BY DEF CrcByte, Shift8, Shift2

LEMMA Shift2Xor ==
  ASSUME NEW r \in Byte, NEW q \in Byte
  PROVE  /\ Shift2(r) \in Byte
         /\ Shift2(Xor(r, q)) = Xor(Shift2(r), Shift2(q))
<1>1. CrcShift(r) \in Byte /\ CrcShift(q) \in Byte
  BY ShiftBits
<1>2. CrcShift(CrcShift(r)) \in Byte
  BY <1>1, ShiftBits
<1>3. CrcShift(Xor(r, q)) = Xor(CrcShift(r), CrcShift(q))
  BY ShiftXor
<1>4. CrcShift(Xor(CrcShift(r), CrcShift(q))) = Xor(CrcShift(CrcShift(r)), CrcShift(CrcShift(q)))
  BY <1>1, ShiftXor
<1> QED
  BY <1>2, <1>3, <1>4 DEF Shift2

LEMMA Shift8Xor ==
  ASSUME NEW r \in Byte, NEW q \in Byte
  PROVE  /\ Shift8(r) \in Byte
         /\ Shift8(Xor(r, q)) = Xor(Shift8(r), Shift8(q))
<1> DEFINE r2 == Shift2(r)
           r4 == Shift2(r2)
           r6 == Shift2(r4)
           q2 == Shift2(q)
           q4 == Shift2(q2)
           q6 == Shift2(q4)
<1>1. r2 \in Byte /\ q2 \in Byte /\ Shift2(Xor(r, q)) = Xor(r2, q2)
  BY Shift2Xor
<1>2. Shift8(r) = Shift2(r6) /\ Shift8(q) = Shift2(q6)
  BY DEF Shift8
<1>3. Shift8(Xor(r, q)) = Shift2(Shift2(Shift2(Xor(r2, q2))))
  BY <1>1 DEF Shift8
<1> HIDE DEF r2, q2
<1>4. r4 \in Byte /\ q4 \in Byte /\ Shift2(Xor(r2, q2)) = Xor(r4, q4)
  BY <1>1, Shift2Xor
<1> HIDE DEF r4, q4
<1>5. r6 \in Byte /\ q6 \in Byte /\ Shift2(Xor(r4, q4)) = Xor(r6, q6)
  BY <1>4, Shift2Xor
<1> HIDE DEF r6, q6
<1>6. Shift2(r6) \in Byte /\ Shift2(Xor(r6, q6)) = Xor(Shift2(r6), Shift2(q6))
  BY <1>5, Shift2Xor
<1> QED
  BY <1>2, <1>3, <1>4, <1>5, <1>6

\* So is the step of a byte.
LEMMA CrcByteXor ==
  ASSUME NEW r \in Byte, NEW q \in Byte, NEW v \in Byte, NEW w \in Byte
  PROVE  /\ CrcByte(r, v) \in Byte
         /\ CrcByte(Xor(r, q), Xor(v, w)) = Xor(CrcByte(r, v), CrcByte(q, w))
<1>1. Xor(r, v) \in Byte /\ Xor(q, w) \in Byte
  BY XorFacts
<1>2. Xor(Xor(r, q), Xor(v, w)) = Xor(Xor(r, v), Xor(q, w))
  BY XorRegroups
<1>3. /\ Shift8(Xor(r, v)) \in Byte
      /\ Shift8(Xor(Xor(r, v), Xor(q, w))) = Xor(Shift8(Xor(r, v)), Shift8(Xor(q, w)))
  BY <1>1, Shift8Xor
<1> QED
  BY <1>2, <1>3, CrcByteIsShift8

-----------------------------------------------------------------------------

\* j is the highest bit of a register.
Top(r, j) == j \in r /\ \A b \in r : b <= j

\* A register has a bit that is not above k.
Low(r, k) == \E b \in r : b <= k

\* The highest bit moves up until it falls out and feeds the lowest one, which
\* moves up in its turn: what n shifts make of a register with the highest bit j.
Moved(r, j, n) == IF j + n <= 7 THEN Top(r, j + n) ELSE Low(r, j + n - 8)

LEMMA ShiftMoves ==
  ASSUME NEW r \in Byte, NEW j \in 0 .. 7, NEW n \in 0 .. 7, Moved(r, j, n)
  PROVE  Moved(CrcShift(r), j, n + 1)
<1>1. CrcShift(r) \in Byte
  BY ShiftBits
<1>2. \A b \in 0 .. 7 : b \in CrcShift(r) <=> ((b - 1 \in r) # (7 \in r /\ b \in {0, 1, 2}))
  BY ShiftBits
<1>3. CASE j + n < 7
  <2> DEFINE m == j + n
  <2>1. m \in 0 .. 6 /\ j + n <= 7 /\ j + (n + 1) <= 7 /\ j + (n + 1) = m + 1
    BY <1>3
  <2>2. m \in r /\ \A b \in r : b <= m
    BY <2>1 DEF Moved, Top
  <2> HIDE DEF m
  <2>3. 7 \notin r /\ m + 1 - 1 = m /\ m + 1 \in 0 .. 7
    BY <2>1, <2>2
  <2>4. m + 1 \in CrcShift(r)
    BY <2>1, <2>2, <2>3, BitMovesUp
  <2>5. ASSUME NEW b \in CrcShift(r) PROVE b <= m + 1
    <3>1. b \in 0 .. 7
      BY <1>1 DEF Byte
    <3>2. b - 1 \in r
      BY <1>2, <2>3, <3>1
    <3>3. b - 1 <= m
      BY <2>2, <3>2
    <3> QED
      BY <2>1, <3>1, <3>3
  <2> QED
    BY <2>1, <2>4, <2>5 DEF Moved, Top
<1>4. CASE j + n = 7
  <2>1. 7 \in r
    BY <1>4 DEF Moved, Top
  <2>2. 0 - 1 \notin r
    BY DEF Byte
  <2>3. 0 \in CrcShift(r)
    BY <1>2, <2>1, <2>2
  <2>4. ~(j + (n + 1) <= 7) /\ j + (n + 1) - 8 = 0
    BY <1>4
  <2> QED
    BY <2>3, <2>4 DEF Moved, Low
<1>5. CASE j + n > 7
  <2> DEFINE k == j + n - 8
  <2>1. k \in 0 .. 6 /\ ~(j + n <= 7) /\ ~(j + (n + 1) <= 7) /\ j + (n + 1) - 8 = k + 1
    BY <1>5
  <2>2. PICK b \in r : b <= k
    BY <2>1 DEF Moved, Low
  <2> HIDE DEF k
  <2>3. b \in 0 .. 6
    BY <2>1, <2>2 DEF Byte
  <2>4. Low(CrcShift(r), k + 1)
    <3>1. CASE 7 \in r
      <4>1. 0 - 1 \notin r
        BY DEF Byte
      <4>2. 0 \in CrcShift(r)
        BY <1>2, <3>1, <4>1
      <4> QED
        BY <2>1, <4>2 DEF Low
    <3>2. CASE 7 \notin r
      <4>1. b + 1 \in 0 .. 7 /\ b + 1 - 1 = b /\ b + 1 <= k + 1
        BY <2>1, <2>2, <2>3
      <4>2. b + 1 \in CrcShift(r)
        BY <2>2, <2>3, <3>2, BitMovesUp
      <4> QED
        BY <4>1, <4>2 DEF Low
    <3> QED
      BY <3>1, <3>2
  <2> QED
    BY <2>1, <2>4 DEF Moved
<1> QED
  BY <1>3, <1>4, <1>5

\* Two shifts of a register that has been shifted n times.
LEMMA Shift2Moves ==
  ASSUME NEW r \in Byte, NEW j \in 0 .. 7, NEW n \in 0 .. 6, Moved(r, j, n)
  PROVE  Shift2(r) \in Byte /\ Moved(Shift2(r), j, n + 2)
<1>1. CrcShift(r) \in Byte /\ n \in 0 .. 7
  BY ShiftBits
<1>2. Moved(CrcShift(r), j, n + 1)
  BY <1>1, ShiftMoves
<1>3. n + 1 \in 0 .. 7 /\ n + 1 + 1 = n + 2
  OBVIOUS
<1>4. Moved(CrcShift(CrcShift(r)), j, n + 1 + 1)
  BY <1>1, <1>2, <1>3, ShiftMoves
<1>5. CrcShift(CrcShift(r)) \in Byte
  BY <1>1, ShiftBits
<1> QED
  BY <1>3, <1>4, <1>5 DEF Shift2

(***************************************************************************)
(* Eight shifts of a register keep a bit at or below its highest one.      *)
(***************************************************************************)
LEMMA Shift8KeepsLow ==
  ASSUME NEW r \in Byte, NEW j \in 0 .. 7, Top(r, j)
  PROVE  Low(Shift8(r), j)
<1> DEFINE r2 == Shift2(r)
           r4 == Shift2(r2)
           r6 == Shift2(r4)
           r8 == Shift2(r6)
<1>1. Moved(r, j, 0)
  BY DEF Moved
<1>2. r2 \in Byte /\ Moved(r2, j, 0 + 2)
  BY <1>1, Shift2Moves
<1>3. Shift8(r) = r8
  BY DEF Shift8
<1> HIDE DEF r2
<1>4. r4 \in Byte /\ Moved(r4, j, 2 + 2)
  BY <1>2, Shift2Moves
<1> HIDE DEF r4
<1>5. r6 \in Byte /\ Moved(r6, j, 4 + 2)
  BY <1>4, Shift2Moves
<1> HIDE DEF r6
<1>6. Moved(r8, j, 6 + 2)
  BY <1>5, Shift2Moves
<1> HIDE DEF r8
<1>7. ~(j + (6 + 2) <= 7) /\ j + (6 + 2) - 8 = j
  OBVIOUS
<1> QED
  BY <1>3, <1>6, <1>7 DEF Moved

\* Shifts lose nothing: only an empty register becomes empty.
LEMMA ShiftKeepsBits ==
  ASSUME NEW r \in Byte
  PROVE  CrcShift(r) = {} <=> r = {}
<1>1. \A b \in 0 .. 7 : b \in CrcShift(r) <=> ((b - 1 \in r) # (7 \in r /\ b \in {0, 1, 2}))
  BY ShiftBits
<1>2. CASE r = {}
  BY <1>1, <1>2, ShiftBits DEF Byte
<1>3. CASE 7 \in r
  <2>1. 0 - 1 \notin r
    BY DEF Byte
  <2> QED
    BY <1>1, <1>3, <2>1
<1>4. CASE r # {} /\ 7 \notin r
  <2>1. \A b \in r : b \in 0 .. 7 /\ b # 7
    BY <1>4 DEF Byte
  <2>2. \A b \in r : b \in 0 .. 6
    BY <2>1
  <2>3. PICK b : b \in r
    BY <1>4
  <2>4. b + 1 \in CrcShift(r)
    BY <1>4, <2>2, <2>3, BitMovesUp
  <2> QED
    BY <1>4, <2>4
<1> QED
  BY <1>2, <1>3, <1>4

LEMMA Shift8KeepsBits ==
  ASSUME NEW r \in Byte
  PROVE  Shift8(r) = {} <=> r = {}
<1>1. \A q \in Byte : Shift2(q) \in Byte /\ (Shift2(q) = {} <=> q = {})
  <2> SUFFICES ASSUME NEW q \in Byte PROVE Shift2(q) \in Byte /\ (Shift2(q) = {} <=> q = {})
    OBVIOUS
  <2>1. CrcShift(q) \in Byte /\ (CrcShift(q) = {} <=> q = {})
    BY ShiftBits, ShiftKeepsBits
  <2>2. CrcShift(CrcShift(q)) \in Byte /\ (CrcShift(CrcShift(q)) = {} <=> CrcShift(q) = {})
    BY <2>1, ShiftBits, ShiftKeepsBits
  <2> QED
    BY <2>1, <2>2 DEF Shift2
<1> QED
  BY <1>1 DEF Shift8

-----------------------------------------------------------------------------

(***************************************************************************)
(* The generator's register is that of crc8_bytes, for any bytes.          *)
(***************************************************************************)
LEMMA GeneratorCrcIsCrc8 ==
  ASSUME NEW bytes
  PROVE  GeneratorCrc(bytes) = Crc8(bytes)
<1>1. \A r : GeneratorShift(r) = CrcShift(r)
  <2>1. ASSUME NEW r
        PROVE  GeneratorShift(r) = CrcShift(r)
    <3> DEFINE shifted == {b \in 0 .. 7 : b - 1 \in r}
    <3>1. \A b : b \in CrcShift(r) <=> b \in 0 .. 7 /\ ((b - 1 \in r) # (7 \in r /\ b \in {0, 1, 2}))
      BY DEF CrcShift
    <3>2. \A b : b \in shifted <=> b \in 0 .. 7 /\ b - 1 \in r
      OBVIOUS
    <3>3. \A b \in {0, 1, 2} : b \in 0 .. 7
      OBVIOUS
    <3>4. GeneratorShift(r) = IF 7 \in r THEN Xor(shifted, {0, 1, 2}) ELSE shifted
      BY DEF GeneratorShift
    <3>5. \A b : b \in Xor(shifted, {0, 1, 2}) <=> (b \in shifted) # (b \in {0, 1, 2})
      BY DEF Xor
    <3> HIDE DEF shifted
    <3>6. \A b : b \in GeneratorShift(r) <=> b \in CrcShift(r)
      <4>1. CASE 7 \in r
        BY <3>1, <3>2, <3>3, <3>4, <3>5, <4>1
      <4>2. CASE 7 \notin r
        BY <3>1, <3>2, <3>4, <4>2
      <4> QED
        BY <4>1, <4>2
    <3>7. \A S, T : (\A b : b \in S <=> b \in T) => S = T
      BY Zenon
    <3> QED
      BY <3>6, <3>7
  <2> QED
    BY <2>1
<1>2. \A r, v : GeneratorByte(r, v) = CrcByte(r, v)
  BY <1>1 DEF GeneratorByte, CrcByte
<1> DEFINE Sent(f) == f = [n \in 0 .. Len(bytes) |->
                             IF n = 0 THEN {} ELSE GeneratorByte(f[n - 1], bytes[n])]
           Checked(f) == f = [n \in 0 .. Len(bytes) |->
                                IF n = 0 THEN {} ELSE CrcByte(f[n - 1], bytes[n])]
<1>3. \A f : Sent(f) <=> Checked(f)
  BY <1>2
<1>4. (CHOOSE f : Sent(f)) = (CHOOSE f : Checked(f))
  <2> HIDE DEF Sent, Checked
  <2> QED
    BY <1>3
<1>5. GeneratorCrc(bytes) = (CHOOSE f : Sent(f))[Len(bytes)]
  BY DEF GeneratorCrc
<1>6. Crc8(bytes) = (CHOOSE f : Checked(f))[Len(bytes)]
  BY DEF Crc8, CrcAfter
<1> HIDE DEF Sent, Checked
<1> QED
  BY <1>4, <1>5, <1>6

(***************************************************************************)
(* The register after each prefix, by the recursion of crc8_bytes.         *)
(***************************************************************************)
LEMMA CrcSteps ==
  ASSUME NEW n \in Nat, NEW bytes \in [1 .. n -> Byte]
  PROVE  /\ Len(bytes) = n
         /\ CrcAfter(bytes) \in [0 .. n -> Byte]
         /\ CrcAfter(bytes)[0] = {}
         /\ \A k \in 1 .. n : CrcAfter(bytes)[k] = CrcByte(CrcAfter(bytes)[k - 1], bytes[k])
<1> DEFINE step == [p \in Byte \X (1 .. n) |-> CrcByte(p[1], bytes[p[2]])]
           Is(f) == f = [k \in 0 .. n |-> IF k = 0 THEN {} ELSE CrcByte(f[k - 1], bytes[k])]
           after == CHOOSE f : Is(f)
<1>1. bytes \in Seq(Byte) /\ Len(bytes) = n
  OBVIOUS
<1>2. CrcAfter(bytes) = after
  BY <1>1 DEF CrcAfter
<1>3. step \in [Byte \X (1 .. n) -> Byte]
  <2>1. ASSUME NEW v \in Byte, NEW i \in 1 .. n PROVE CrcByte(v, bytes[i]) \in Byte
    <3>1. bytes[i] \in Byte
      OBVIOUS
    <3> QED
      BY <3>1, CrcByteXor
  <2> QED
    BY <2>1
<1>4. \A v \in Byte, i \in 1 .. n : step[<<v, i>>] = CrcByte(v, bytes[i])
  OBVIOUS
<1> HIDE DEF step
<1>5. {} \in Byte
  BY DEF Byte
<1>6. HasRecursion(Byte, {}, n, step)
  BY <1>3, <1>5, RecursionExists
<1>7. PICK g \in [0 .. n -> Byte] : g[0] = {} /\ \A i \in 1 .. n : g[i] = step[<<g[i - 1], i>>]
  BY <1>6 DEF HasRecursion
<1>8. Is(g)
  <2>1. ASSUME NEW k \in 0 .. n
        PROVE  g[k] = IF k = 0 THEN {} ELSE CrcByte(g[k - 1], bytes[k])
    <3>1. CASE k = 0
      BY <1>7, <3>1
    <3>2. CASE k # 0
      <4>1. k \in 1 .. n /\ k - 1 \in 0 .. n
        BY <3>2
      <4>2. g[k] = step[<<g[k - 1], k>>] /\ g[k - 1] \in Byte
        BY <1>7, <4>1
      <4>3. g[k] = CrcByte(g[k - 1], bytes[k])
        BY <1>4, <4>1, <4>2
      <4> QED
        BY <3>2, <4>3
    <3> QED
      BY <3>1, <3>2
  <2>2. g = [k \in 0 .. n |-> g[k]]
    BY <1>7
  <2>3. [k \in 0 .. n |-> g[k]]
          = [k \in 0 .. n |-> IF k = 0 THEN {} ELSE CrcByte(g[k - 1], bytes[k])]
    BY <2>1
  <2> QED
    BY <2>2, <2>3
<1>9. Is(after)
  <2> HIDE DEF Is
  <2> QED
    BY <1>8
<1> HIDE DEF after
<1>10. /\ after[0] = {} /\ DOMAIN after = 0 .. n
       /\ \A k \in 1 .. n : after[k] = CrcByte(after[k - 1], bytes[k])
  <2>1. \A k \in 1 .. n : k \in 0 .. n /\ k # 0
    OBVIOUS
  <2>2. 0 \in 0 .. n
    OBVIOUS
  <2> QED
    BY <1>9, <2>1, <2>2
<1> DEFINE P == {k \in Nat : k <= n => after[k] \in Byte}
<1>11. 0 \in P
  BY <1>5, <1>10
<1>12. ASSUME NEW k \in Nat, k \in P PROVE k + 1 \in P
  <2> SUFFICES ASSUME k + 1 <= n PROVE after[k + 1] \in Byte
    OBVIOUS
  <2>1. after[k] \in Byte
    BY <1>12
  <2>2. k + 1 \in 1 .. n /\ k + 1 - 1 = k
    OBVIOUS
  <2>3. bytes[k + 1] \in Byte
    BY <2>2
  <2>4. CrcByte(after[k], bytes[k + 1]) \in Byte
    BY <2>1, <2>3, CrcByteXor
  <2> QED
    BY <1>10, <2>2, <2>4
<1> HIDE DEF P
<1>13. Nat \subseteq P
  BY <1>11, <1>12, SetInduction
<1>14. \A k \in 0 .. n : after[k] \in Byte
  BY <1>13 DEF P
<1>15. after \in [0 .. n -> Byte]
  <2>1. after = [k \in 0 .. n |-> after[k]]
    BY <1>9
  <2> HIDE DEF Is
  <2> QED
    BY <1>14, <2>1
<1> QED
  BY <1>1, <1>2, <1>10, <1>15

-----------------------------------------------------------------------------

\* The wrong bits of one byte, and of the bytes of the payload.
WrongIn(positions, n) == {b \in 0 .. 7 : 8 * n - b \in positions}

WrongPayload(positions) == [n \in 1 .. MessageBytes |-> WrongIn(positions, n)]

LEMMA WrongType ==
  ASSUME NEW positions
  PROVE  /\ \A n : WrongIn(positions, n) \in Byte
         /\ WrongPayload(positions) \in [1 .. MessageBytes -> Byte]
         /\ \A n \in 1 .. MessageBytes : WrongPayload(positions)[n] = WrongIn(positions, n)
<1>1. \A n : WrongIn(positions, n) \in Byte
  BY DEF WrongIn, Byte
<1> QED
  BY <1>1 DEF WrongPayload

(***************************************************************************)
(* Packing undoes unpacking: what comes out are the bytes that went in,    *)
(* with the wrong bits in their places.                                    *)
(***************************************************************************)
LEMMA PackedBytes ==
  ASSUME NEW n \in Nat, NEW bytes \in [1 .. n -> Byte], NEW positions
  PROVE  LET packed == BitsToBytes(Inverted(BytesToBits(bytes), positions))
         IN  /\ Len(packed) = n
             /\ \A k \in 1 .. n : packed[k] = Xor(bytes[k], WrongIn(positions, k))
<1> DEFINE bits == BytesToBits(bytes)
           received == Inverted(bits, positions)
           packed == BitsToBytes(received)
<1>1. Len(bytes) = n /\ 8 * n \in Nat
  OBVIOUS
<1>2. /\ DOMAIN bits = 1 .. 8 * n
      /\ \A i \in 1 .. 8 * n :
           bits[i] = IF 7 - ((i - 1) % 8) \in bytes[(i - 1) \div 8 + 1] THEN 1 ELSE 0
  BY <1>1 DEF BytesToBits
<1> HIDE DEF bits
<1>3. received = [i \in 1 .. 8 * n |-> IF i \in positions THEN 1 - bits[i] ELSE bits[i]]
  BY <1>2 DEF Inverted
<1>4. Len(received) = 8 * n
  <2>1. \A i \in 1 .. 8 * n : bits[i] \in {0, 1}
    BY <1>2
  <2>2. received \in [1 .. 8 * n -> {0, 1}]
    BY <1>3, <2>1
  <2> HIDE DEF received
  <2> QED
    BY <1>1, <2>2
<1>5. \A i \in 1 .. 8 * n : received[i] = IF i \in positions THEN 1 - bits[i] ELSE bits[i]
  BY <1>3
<1> HIDE DEF received
<1>6. (8 * n + 7) \div 8 = n
  OBVIOUS
<1>7. packed = [k \in 1 .. n |-> {b \in 0 .. 7 : 8 * k - b <= 8 * n /\ received[8 * k - b] = 1}]
  BY <1>4, <1>6 DEF BitsToBytes
<1>8. ASSUME NEW k \in 1 .. n
      PROVE  packed[k] = Xor(bytes[k], WrongIn(positions, k))
  <2>1. packed[k] = {b \in 0 .. 7 : 8 * k - b <= 8 * n /\ received[8 * k - b] = 1}
    BY <1>7
  <2>2. bytes[k] \in Byte /\ WrongIn(positions, k) \in Byte
    BY WrongType
  <2>3. ASSUME NEW b \in 0 .. 7
        PROVE  b \in packed[k] <=> b \in Xor(bytes[k], WrongIn(positions, k))
    <3> DEFINE i == 8 * k - b
    <3>1. i \in 1 .. 8 * n /\ i <= 8 * n /\ (i - 1) \div 8 + 1 = k /\ 7 - ((i - 1) % 8) = b
      <4>1. i - 1 = 8 * (k - 1) + (7 - b) /\ 7 - b \in 0 .. 7 /\ k - 1 \in Nat
        OBVIOUS
      <4> HIDE DEF i
      <4>2. i - 1 \in Int /\ (i - 1) \div 8 = k - 1 /\ (i - 1) % 8 = 7 - b
        BY <4>1
      <4>3. i \in 1 .. 8 * n
        <5>1. 8 * k <= 8 * n /\ 8 * k >= 8
          OBVIOUS
        <5> QED
          BY <5>1 DEF i
      <4> QED
        BY <4>2, <4>3
    <3>2. bits[i] = IF b \in bytes[k] THEN 1 ELSE 0
      BY <1>2, <3>1
    <3>3. received[i] = IF i \in positions THEN 1 - bits[i] ELSE bits[i]
      BY <1>5, <3>1
    <3>4. b \in WrongIn(positions, k) <=> i \in positions
      BY DEF WrongIn
    <3>5. b \in packed[k] <=> received[i] = 1
      BY <2>1, <3>1
    <3> HIDE DEF i
    <3>6. received[i] = 1 <=> \/ b \in bytes[k] /\ i \notin positions
                              \/ b \notin bytes[k] /\ i \in positions
      BY <3>2, <3>3
    <3> QED
      BY <3>4, <3>5, <3>6, XorFacts
  <2>4. packed[k] \in Byte /\ Xor(bytes[k], WrongIn(positions, k)) \in Byte
    <3>1. packed[k] \in Byte
      BY <2>1 DEF Byte
    <3> QED
      BY <2>2, <3>1, XorFacts
  <2> QED
    BY <2>3, <2>4 DEF Byte
<1>9. Len(packed) = n
  <2>1. DOMAIN packed = 1 .. n
    BY <1>7
  <2>2. \A k \in 1 .. n : packed[k] \in Byte
    BY <1>7 DEF Byte
  <2>3. packed \in [1 .. n -> Byte]
    BY <1>7, <2>2 DEF Byte
  <2> HIDE DEF packed
  <2> QED
    BY <2>3
<1> QED
  BY <1>8, <1>9 DEF received, bits

-----------------------------------------------------------------------------

\* What a payload of zeros with wrong bits leaves in the register, byte by byte.
LEMMA WrongRegister ==
  ASSUME NEW positions
  PROVE  /\ \A k \in 0 .. MessageBytes : CrcAfter(WrongPayload(positions))[k] \in Byte
         /\ CrcAfter(WrongPayload(positions))[0] = {}
         /\ \A k \in 1 .. MessageBytes :
              CrcAfter(WrongPayload(positions))[k]
                = Shift8(Xor(CrcAfter(WrongPayload(positions))[k - 1], WrongIn(positions, k)))
<1> DEFINE wrong == WrongPayload(positions)
<1>1. wrong \in [1 .. MessageBytes -> Byte] /\ MessageBytes \in Nat
  BY WrongType, FrameCheckAssumption
<1>2. \A k \in 1 .. MessageBytes : wrong[k] = WrongIn(positions, k)
  BY WrongType
<1> HIDE DEF wrong
<1>3. /\ CrcAfter(wrong) \in [0 .. MessageBytes -> Byte]
      /\ CrcAfter(wrong)[0] = {}
      /\ \A k \in 1 .. MessageBytes :
           CrcAfter(wrong)[k] = CrcByte(CrcAfter(wrong)[k - 1], wrong[k])
  BY <1>1, CrcSteps
<1>4. \A k \in 1 .. MessageBytes :
        CrcAfter(wrong)[k] = Shift8(Xor(CrcAfter(wrong)[k - 1], WrongIn(positions, k)))
  BY <1>2, <1>3, CrcByteIsShift8
<1> QED
  BY <1>3, <1>4 DEF wrong

\* As long as no bit is wrong the register is empty.
LEMMA QuietRegister ==
  ASSUME NEW positions, NEW n \in 0 .. MessageBytes,
         \A k \in 1 .. n : WrongIn(positions, k) = {}
  PROVE  CrcAfter(WrongPayload(positions))[n] = {}
<1> DEFINE R == CrcAfter(WrongPayload(positions))
           Quiet == {k \in Nat : k <= n => R[k] = {}}
<1>1. /\ R[0] = {}
      /\ \A k \in 1 .. MessageBytes : R[k] = Shift8(Xor(R[k - 1], WrongIn(positions, k)))
  BY WrongRegister
<1>2. MessageBytes \in Nat /\ n \in Nat
  BY FrameCheckAssumption
<1> HIDE DEF R
<1>3. 0 \in Quiet
  BY <1>1
<1>4. ASSUME NEW k \in Nat, k \in Quiet PROVE k + 1 \in Quiet
  <2> SUFFICES ASSUME k + 1 <= n PROVE R[k + 1] = {}
    OBVIOUS
  <2> DEFINE m == k + 1
  <2>1. m \in 1 .. MessageBytes /\ m \in 1 .. n /\ m - 1 = k
    BY <1>2
  <2>2. R[k] = {}
    BY <1>2, <1>4
  <2> HIDE DEF m
  <2>3. WrongIn(positions, m) = {}
    BY <2>1
  <2>4. R[m] = Shift8(Xor({}, {}))
    BY <1>1, <2>1, <2>2, <2>3
  <2>5. Xor({}, {}) = {} /\ {} \in Byte
    BY XorFacts DEF Byte
  <2>6. R[m] = {}
    BY <2>4, <2>5, Shift8KeepsBits
  <2> QED
    BY <2>6 DEF m
<1> HIDE DEF Quiet
<1>5. Nat \subseteq Quiet
  BY <1>3, <1>4, SetInduction
<1> QED
  BY <1>2, <1>5 DEF Quiet, R

(***************************************************************************)
(* The bytes of a burst that starts at bit j of byte n: j is the highest   *)
(* wrong bit of that byte, the next one is wrong above j only, and the     *)
(* others are right.                                                       *)
(***************************************************************************)
LEMMA BurstBytes ==
  ASSUME NEW positions, NEW n \in Int, NEW j \in 0 .. 7,
         8 * n - j \in positions,
         positions \subseteq (8 * n - j) .. (8 * n - j + 7)
  PROVE  /\ Top(WrongIn(positions, n), j)
         /\ \A b \in WrongIn(positions, n + 1) : b > j
         /\ \A k \in Int : k < n \/ k > n + 1 => WrongIn(positions, k) = {}
<1>1. \A k \in Int : \A b \in WrongIn(positions, k) :
        /\ b \in 0 .. 7
        /\ 8 * n - j <= 8 * k - b
        /\ 8 * k - b <= 8 * n - j + 7
  BY DEF WrongIn
<1>2. j \in WrongIn(positions, n)
  BY DEF WrongIn
<1>3. ASSUME NEW b \in WrongIn(positions, n) PROVE b <= j
  <2>1. b \in 0 .. 7 /\ 8 * n - j <= 8 * n - b
    BY <1>1
  <2> QED
    BY <2>1
<1>4. ASSUME NEW b \in WrongIn(positions, n + 1) PROVE b > j
  <2>1. b \in 0 .. 7 /\ 8 * (n + 1) - b <= 8 * n - j + 7
    BY <1>1
  <2> QED
    BY <2>1
<1>5. ASSUME NEW k \in Int, k < n \/ k > n + 1, NEW b \in WrongIn(positions, k) PROVE FALSE
  <2>1. b \in 0 .. 7 /\ 8 * n - j <= 8 * k - b /\ 8 * k - b <= 8 * n - j + 7
    BY <1>1
  <2>2. CASE k < n
    BY <2>1, <2>2
  <2>3. CASE k > n + 1
    BY <2>1, <2>3
  <2> QED
    BY <1>5, <2>2, <2>3
<1> QED
  BY <1>2, <1>3, <1>4, <1>5 DEF Top

(***************************************************************************)
(* A burst leaves in the register what the wrong bits of the CRC are not:  *)
(* the first wrong byte leaves a bit at or below its first wrong bit, and  *)
(* no later byte has one there.                                            *)
(***************************************************************************)
LEMMA BurstSyndrome ==
  ASSUME NEW positions \in SUBSET (1 .. 8 * FrameBytes), NEW first \in positions,
         positions \subseteq first .. first + 7
  PROVE  CrcAfter(WrongPayload(positions))[MessageBytes] # WrongIn(positions, FrameBytes)
<1> DEFINE R == CrcAfter(WrongPayload(positions))
           N == MessageBytes
           n == (first - 1) \div 8 + 1
           j == 8 * n - first
<1>1. N \in Nat /\ FrameBytes = N + 1
  BY FrameCheckAssumption DEF FrameBytes
<1>2. first \in 1 .. 8 * (N + 1)
  BY <1>1
<1>3. n \in 1 .. N + 1 /\ j \in 0 .. 7 /\ first = 8 * n - j
  BY <1>1, <1>2
<1>4. /\ \A k \in 0 .. N : R[k] \in Byte
      /\ R[0] = {}
      /\ \A k \in 1 .. N : R[k] = Shift8(Xor(R[k - 1], WrongIn(positions, k)))
  BY WrongRegister
<1> HIDE DEF R, N, n, j
<1>5. /\ Top(WrongIn(positions, n), j)
      /\ \A b \in WrongIn(positions, n + 1) : b > j
      /\ \A k \in Int : k < n \/ k > n + 1 => WrongIn(positions, k) = {}
  <2>1. n \in Int /\ 8 * n - j \in positions
    BY <1>3
  <2>2. positions \subseteq (8 * n - j) .. (8 * n - j + 7)
    BY <1>3
  <2> QED
    BY <1>3, <2>1, <2>2, BurstBytes
<1>6. \A k : WrongIn(positions, k) \in Byte
  BY WrongType
<1>7. ASSUME NEW k \in Nat, k < n, k <= N PROVE R[k] = {}
  <2>1. k \in 0 .. MessageBytes
    BY <1>1, <1>7 DEF N
  <2>2. \A i \in 1 .. k : WrongIn(positions, i) = {}
    BY <1>3, <1>5, <1>7
  <2> QED
    BY <2>1, <2>2, QuietRegister DEF R
<1>8. CASE n = N + 1
  <2>1. R[N] = {}
    BY <1>1, <1>7, <1>8
  <2>2. j \in WrongIn(positions, N + 1)
    BY <1>5, <1>8 DEF Top
  <2> QED
    BY <1>1, <2>1, <2>2 DEF R, N
<1>9. CASE n # N + 1
  <2>1. n \in 1 .. N /\ n - 1 \in Nat /\ n - 1 < n /\ n - 1 <= N
    BY <1>1, <1>3, <1>9
  <2>2. R[n - 1] = {}
    BY <1>7, <2>1
  <2>3. R[n] = Shift8(WrongIn(positions, n))
    <3>1. R[n] = Shift8(Xor({}, WrongIn(positions, n)))
      BY <1>4, <2>1, <2>2
    <3>2. Xor({}, WrongIn(positions, n)) = WrongIn(positions, n)
      BY XorFacts
    <3> QED
      BY <3>1, <3>2
  <2>4. Low(R[n], j)
    BY <1>3, <1>5, <1>6, <2>3, Shift8KeepsLow
  <2>5. PICK low \in R[n] : low <= j
    BY <2>4 DEF Low
  <2>6. low \in 0 .. 7
    BY <1>1, <1>4, <2>1 DEF Byte
  <2>7. low \notin WrongIn(positions, n + 1)
    BY <1>3, <1>5, <2>5, <2>6
  <2>8. CASE n = N
    BY <1>1, <2>7, <2>8 DEF R, N
  <2>9. CASE n # N
    <3> DEFINE Loud == {k \in Nat : n + 1 <= k /\ k <= N => R[k] # {}}
    <3>1. Nat \subseteq Loud
      <4>1. 0 \in Loud
        BY <1>3
      <4>2. ASSUME NEW k \in Nat, k \in Loud PROVE k + 1 \in Loud
        <5> SUFFICES ASSUME n + 1 <= k + 1, k + 1 <= N PROVE R[k + 1] # {}
          OBVIOUS
        <5> DEFINE m == k + 1
                   x == Xor(R[k], WrongIn(positions, m))
        <5>1. m \in 1 .. N /\ m \in Int /\ m - 1 = k /\ k \in 0 .. N
          BY <1>1
        <5>2. R[k] \in Byte /\ WrongIn(positions, m) \in Byte
          BY <1>4, <1>6, <5>1
        <5>3. x \in Byte
          BY <5>2, XorFacts
        <5>4. x # {}
          <6>1. CASE k = n
            <7>1. m = n + 1
              BY <6>1
            <7>2. low \in R[k] /\ low \notin WrongIn(positions, m)
              BY <2>5, <2>7, <6>1, <7>1
            <7> QED
              BY <7>2, XorFacts
          <6>2. CASE k # n
            <7>1. n + 1 <= k /\ k <= N /\ m > n + 1
              BY <1>1, <1>3, <6>2
            <7>2. R[k] # {}
              BY <4>2, <7>1
            <7> HIDE DEF m
            <7>3. WrongIn(positions, m) = {}
              BY <1>5, <5>1, <7>1
            <7> QED
              BY <7>2, <7>3, XorFacts
          <6> QED
            BY <6>1, <6>2
        <5>5. R[m] = Shift8(x)
          <6> HIDE DEF m
          <6> QED
            BY <1>4, <5>1
        <5> HIDE DEF x
        <5>6. R[m] # {}
          BY <5>3, <5>4, <5>5, Shift8KeepsBits
        <5> QED
          BY <5>6
      <4> HIDE DEF Loud
      <4> QED
        BY <4>1, <4>2, SetInduction
    <3>2. R[N] # {}
      BY <1>1, <1>3, <2>1, <2>9, <3>1
    <3>3. WrongIn(positions, N + 1) = {}
      <4>1. N + 1 \in Int /\ N + 1 > n + 1
        BY <1>1, <1>3, <2>1, <2>9
      <4> QED
        BY <1>5, <4>1
    <3> QED
      BY <1>1, <3>2, <3>3 DEF R, N
  <2> QED
    BY <2>8, <2>9
<1> QED
  BY <1>8, <1>9

-----------------------------------------------------------------------------

Parity(S) == Cardinality(S) % 2

LEMMA IntervalFromZero ==
  ASSUME NEW n \in Int, n >= 0
  PROVE  IsFiniteSet(0 .. n) /\ Cardinality(0 .. n) = n + 1
<1>1. \A z \in Int : z = 0 => IsFiniteSet(z .. n) /\ Cardinality(z .. n) = n + 1
  <2> SUFFICES ASSUME NEW z \in Int, z = 0 PROVE IsFiniteSet(z .. n) /\ Cardinality(z .. n) = n + 1
    OBVIOUS
  <2>1. IsFiniteSet(z .. n) /\ Cardinality(z .. n) = IF z > n THEN 0 ELSE n - z + 1
    BY FS_Interval
  <2> QED
    BY <2>1
<1> QED
  BY <1>1

\* A set of bits, and what two of them differ in.
LEMMA ByteIsFinite ==
  ASSUME NEW r \in Byte
  PROVE  IsFiniteSet(r) /\ Cardinality(r) \in Nat
<1>1. IsFiniteSet(0 .. 7)
  <2> DEFINE last == 7
  <2>1. last \in Int /\ last >= 0
    OBVIOUS
  <2> HIDE DEF last
  <2>2. IsFiniteSet(0 .. last)
    BY <2>1, IntervalFromZero
  <2> QED
    BY <2>2 DEF last
<1>2. r \in SUBSET (0 .. 7)
  BY DEF Byte
<1>3. IsFiniteSet(r)
  BY <1>1, <1>2, FS_Subset
<1> QED
  BY <1>3, FS_CardinalityType

LEMMA ParityXor ==
  ASSUME NEW a, NEW b, IsFiniteSet(a), IsFiniteSet(b)
  PROVE  /\ IsFiniteSet(Xor(a, b))
         /\ Parity(Xor(a, b)) = (Parity(a) + Parity(b)) % 2
<1> DEFINE na == Cardinality(a)
           nb == Cardinality(b)
           nc == Cardinality(a \cap b)
           nx == Cardinality(Xor(a, b))
<1>1. IsFiniteSet(Xor(a, b)) /\ na \in Nat /\ nb \in Nat /\ nc \in Nat /\ nx = na + nb - 2 * nc
  BY CardinalityOfDifference DEF Xor
<1> HIDE DEF na, nb, nc, nx
<1>2. nx % 2 = ((na % 2) + (nb % 2)) % 2
  BY <1>1
<1> QED
  BY <1>1, <1>2 DEF Parity, na, nb, nx

\* A set and its image under a translation have as many elements.
LEMMA MovedSet ==
  ASSUME NEW S, NEW T, IsFiniteSet(S), NEW f, f \in [S -> T],
         \A x \in S, y \in S : f[x] = f[y] => x = y,
         \A y \in T : \E x \in S : f[x] = y
  PROVE  IsFiniteSet(T) /\ Cardinality(T) = Cardinality(S)
<1>1. f \in Injection(S, T)
  BY DEF Injection, IsInjective
<1>2. f \in Surjection(S, T)
  BY DEF Surjection
<1>3. f \in Bijection(S, T)
  BY <1>1, <1>2 DEF Bijection
<1>4. ExistsBijection(S, T)
  BY <1>3 DEF ExistsBijection
<1> QED
  BY <1>4, FS_Bijection

(***************************************************************************)
(* A shift keeps the parity: the bit that falls out comes back as three.   *)
(***************************************************************************)
LEMMA ShiftKeepsParity ==
  ASSUME NEW r \in Byte
  PROVE  Parity(CrcShift(r)) = Parity(r)
<1>1. ASSUME NEW q \in Byte, 7 \notin q
      PROVE  Cardinality(CrcShift(q)) = Cardinality(q)
  <2> DEFINE f == [b \in q |-> b + 1]
  <2>1. \A b \in q : b \in 0 .. 6
    <3>1. \A b \in q : b \in 0 .. 7 /\ b # 7
      BY <1>1 DEF Byte
    <3> QED
      BY <3>1
  <2>2. f \in [q -> CrcShift(q)]
    BY <1>1, <2>1, BitMovesUp
  <2>3. \A x \in q, y \in q : f[x] = f[y] => x = y
    BY <2>1
  <2>4. ASSUME NEW y \in CrcShift(q) PROVE \E x \in q : f[x] = y
    <3>1. y \in 0 .. 7
      BY ShiftBits DEF Byte
    <3>2. y - 1 \in q
      BY <1>1, <3>1, ShiftBits
    <3>3. f[y - 1] = y
      BY <3>1, <3>2
    <3> QED
      BY <3>2, <3>3
  <2> HIDE DEF f
  <2>5. IsFiniteSet(q)
    BY ByteIsFinite
  <2> QED
    BY <2>2, <2>3, <2>4, <2>5, MovedSet
<1>2. CASE 7 \notin r
  BY <1>1, <1>2 DEF Parity
<1>3. CASE 7 \in r
  <2> DEFINE q == r \ {7}
  <2>1. q \in Byte /\ 7 \notin q /\ {7} \in Byte
    BY DEF Byte
  <2>2. r = Xor(q, {7})
    BY <1>3 DEF Xor
  <2> HIDE DEF q
  <2>3. CrcShift(r) = Xor(CrcShift(q), CrcShift({7}))
    BY <2>1, <2>2, ShiftXor
  <2>4. CrcShift({7}) = {0, 1, 2}
    BY DEF CrcShift
  <2>5. CrcShift(q) \in Byte /\ CrcShift({7}) \in Byte
    BY <2>1, ShiftBits
  <2>6. IsFiniteSet(CrcShift(q)) /\ IsFiniteSet(CrcShift({7})) /\ IsFiniteSet(q) /\ IsFiniteSet({7})
    BY <2>1, <2>5, ByteIsFinite
  <2>7. Parity(CrcShift(r)) = (Parity(CrcShift(q)) + Parity(CrcShift({7}))) % 2
    BY <2>3, <2>6, ParityXor
  <2>8. Parity(r) = (Parity(q) + Parity({7})) % 2
    BY <2>2, <2>6, ParityXor
  <2>9. Cardinality(CrcShift(q)) = Cardinality(q)
    BY <1>1, <2>1
  <2>10. Cardinality({7}) = 1
    BY FS_Singleton
  <2>11. Cardinality({0, 1, 2}) = 3
    <3>1. {0, 1, 2} = 0 .. 2
      OBVIOUS
    <3>2. Cardinality(0 .. 2) = 3
      <4> DEFINE last == 2
      <4>1. last \in Int /\ last >= 0 /\ last + 1 = 3
        OBVIOUS
      <4> HIDE DEF last
      <4>2. Cardinality(0 .. last) = last + 1
        BY <4>1, IntervalFromZero
      <4> QED
        BY <4>1, <4>2 DEF last
    <3> QED
      BY <3>1, <3>2
  <2>12. Parity(CrcShift({7})) = 1 /\ Parity({7}) = 1
    <3>1. 3 % 2 = 1 /\ 1 % 2 = 1
      OBVIOUS
    <3> QED
      BY <2>4, <2>10, <2>11, <3>1 DEF Parity
  <2> QED
    BY <2>7, <2>8, <2>9, <2>12 DEF Parity
<1> QED
  BY <1>2, <1>3

LEMMA Shift8KeepsParity ==
  ASSUME NEW r \in Byte
  PROVE  Parity(Shift8(r)) = Parity(r)
<1>1. \A q \in Byte : Shift2(q) \in Byte /\ Parity(Shift2(q)) = Parity(q)
  <2> SUFFICES ASSUME NEW q \in Byte PROVE Shift2(q) \in Byte /\ Parity(Shift2(q)) = Parity(q)
    OBVIOUS
  <2>1. CrcShift(q) \in Byte /\ Parity(CrcShift(q)) = Parity(q)
    BY ShiftBits, ShiftKeepsParity
  <2>2. CrcShift(CrcShift(q)) \in Byte /\ Parity(CrcShift(CrcShift(q))) = Parity(CrcShift(q))
    BY <2>1, ShiftBits, ShiftKeepsParity
  <2> QED
    BY <2>1, <2>2 DEF Shift2
<1> QED
  BY <1>1 DEF Shift8

\* The wrong bits of the first bytes, and of the byte that follows.
LEMMA WrongBitsOfPrefix ==
  ASSUME NEW positions \in SUBSET (1 .. 8 * FrameBytes), NEW k \in Nat, k < FrameBytes
  PROVE  /\ IsFiniteSet(positions \cap 1 .. 8 * k)
         /\ Cardinality(positions \cap 1 .. 8 * (k + 1))
              = Cardinality(positions \cap 1 .. 8 * k) + Cardinality(WrongIn(positions, k + 1))
<1> DEFINE before == positions \cap 1 .. 8 * k
           next == positions \cap (8 * k + 1) .. (8 * k + 8)
           bits == WrongIn(positions, k + 1)
           f == [b \in bits |-> 8 * (k + 1) - b]
<1>1. IsFiniteSet(before) /\ Cardinality(before) \in Nat
  <2>1. IsFiniteSet(1 .. 8 * k)
    BY FS_Interval
  <2>2. before \in SUBSET (1 .. 8 * k)
    OBVIOUS
  <2> HIDE DEF before
  <2>3. IsFiniteSet(before)
    BY <2>1, <2>2, FS_Subset
  <2> QED
    BY <2>3, FS_CardinalityType
<1>2. IsFiniteSet(bits)
  BY WrongType, ByteIsFinite
<1>3. IsFiniteSet(next) /\ Cardinality(next) = Cardinality(bits)
  <2>1. \A b \in bits : b \in 0 .. 7 /\ 8 * (k + 1) - b \in positions
    BY DEF WrongIn
  <2> HIDE DEF bits
  <2>2. f \in [bits -> next]
    BY <2>1
  <2>3. \A x \in bits, y \in bits : f[x] = f[y] => x = y
    BY <2>1
  <2>4. ASSUME NEW y \in next PROVE \E x \in bits : f[x] = y
    <3> DEFINE x == 8 * (k + 1) - y
    <3>1. x \in 0 .. 7 /\ 8 * (k + 1) - x = y /\ y \in positions
      OBVIOUS
    <3> HIDE DEF x
    <3>2. x \in bits
      BY <3>1 DEF bits, WrongIn
    <3> QED
      BY <3>1, <3>2
  <2> HIDE DEF f, next
  <2> QED
    BY <1>2, <2>2, <2>3, <2>4, MovedSet
<1>4. positions \cap 1 .. 8 * (k + 1) = before \cup next /\ before \cap next = {}
  OBVIOUS
<1> HIDE DEF before, next, bits
<1>5. Cardinality(before \cup next)
        = Cardinality(before) + Cardinality(next) - Cardinality(before \cap next)
  BY <1>1, <1>3, FS_Union
<1>6. Cardinality(bits) \in Nat /\ Cardinality({}) = 0
  BY <1>2, FS_CardinalityType, FS_EmptySet
<1>7. Cardinality(before \cup next) = Cardinality(before) + Cardinality(bits)
  <2>1. Cardinality(before \cap next) = 0
    BY <1>4, <1>6
  <2> QED
    BY <1>1, <1>3, <1>5, <1>6, <2>1
<1>8. Cardinality(positions \cap 1 .. 8 * (k + 1)) = Cardinality(before) + Cardinality(bits)
  BY <1>4, <1>7
<1> QED
  BY <1>1, <1>8 DEF before, bits

(***************************************************************************)
(* The register has the parity of the wrong bits that have gone in, so     *)
(* that the CRC can only be the wrong bits of its own byte when they are   *)
(* an even number.                                                         *)
(***************************************************************************)
LEMMA OddSyndrome ==
  ASSUME NEW positions \in SUBSET (1 .. 8 * FrameBytes),
         CrcAfter(WrongPayload(positions))[MessageBytes] = WrongIn(positions, FrameBytes)
  PROVE  Cardinality(positions) % 2 = 0
<1> DEFINE R == CrcAfter(WrongPayload(positions))
           N == MessageBytes
           Prefix(k) == positions \cap 1 .. 8 * k
           P == {k \in Nat : k <= N => Parity(R[k]) = Parity(Prefix(k))}
<1>1. N \in Nat /\ FrameBytes = N + 1
  BY FrameCheckAssumption DEF FrameBytes
<1>2. /\ \A k \in 0 .. N : R[k] \in Byte
      /\ R[0] = {}
      /\ \A k \in 1 .. N : R[k] = Shift8(Xor(R[k - 1], WrongIn(positions, k)))
  BY WrongRegister
<1>3. \A k \in Nat : k <= N =>
        /\ Cardinality(Prefix(k)) \in Nat
        /\ Cardinality(Prefix(k + 1)) = Cardinality(Prefix(k)) + Cardinality(WrongIn(positions, k + 1))
  <2> SUFFICES ASSUME NEW k \in Nat, k <= N
               PROVE  /\ Cardinality(Prefix(k)) \in Nat
                      /\ Cardinality(Prefix(k + 1)) = Cardinality(Prefix(k)) + Cardinality(WrongIn(positions, k + 1))
    OBVIOUS
  <2>1. k < FrameBytes
    BY <1>1
  <2> QED
    BY <2>1, WrongBitsOfPrefix, FS_CardinalityType
<1>4. \A k : WrongIn(positions, k) \in Byte
  BY WrongType
<1>5. Prefix(0) = {}
  OBVIOUS
<1>6. Prefix(N + 1) = positions
  BY <1>1
<1>7. R[N] = WrongIn(positions, N + 1)
  BY <1>1
<1> HIDE DEF R, N, Prefix
<1>8. Nat \subseteq P
  <2>1. 0 \in P
    BY <1>2, <1>5
  <2>2. ASSUME NEW k \in Nat, k \in P PROVE k + 1 \in P
    <3> SUFFICES ASSUME k + 1 <= N PROVE Parity(R[k + 1]) = Parity(Prefix(k + 1))
      OBVIOUS
    <3> DEFINE m == k + 1
               w == WrongIn(positions, m)
    <3>1. m \in 1 .. N /\ m - 1 = k /\ k \in 0 .. N /\ k <= N
      BY <1>1
    <3>2. Parity(R[k]) = Parity(Prefix(k))
      BY <2>2, <3>1
    <3>3. R[k] \in Byte /\ w \in Byte
      BY <1>2, <1>4, <3>1
    <3>4. R[m] = Shift8(Xor(R[k], w))
      <4> HIDE DEF m
      <4> QED
        BY <1>2, <3>1
    <3>5. Cardinality(Prefix(k)) \in Nat /\ Cardinality(Prefix(m)) = Cardinality(Prefix(k)) + Cardinality(w)
      BY <1>3, <3>1
    <3> HIDE DEF m, w
    <3>6. Xor(R[k], w) \in Byte
      BY <3>3, XorFacts
    <3>7. Parity(R[m]) = Parity(Xor(R[k], w))
      BY <3>4, <3>6, Shift8KeepsParity
    <3>8. Parity(Xor(R[k], w)) = (Parity(R[k]) + Parity(w)) % 2
      BY <3>3, ByteIsFinite, ParityXor
    <3>9. Cardinality(w) \in Nat
      BY <3>3, ByteIsFinite
    <3>10. Parity(Prefix(m)) = (Parity(Prefix(k)) + Parity(w)) % 2
      BY <3>5, <3>9 DEF Parity
    <3>11. Parity(R[m]) = Parity(Prefix(m))
      BY <3>2, <3>7, <3>8, <3>10
    <3> QED
      BY <3>11 DEF m
  <2> HIDE DEF P
  <2> QED
    BY <2>1, <2>2, SetInduction
<1>9. Parity(R[N]) = Parity(Prefix(N))
  BY <1>1, <1>8
<1>10. Cardinality(Prefix(N)) \in Nat /\ Cardinality(positions) = Cardinality(Prefix(N)) + Cardinality(R[N])
  BY <1>1, <1>3, <1>6, <1>7
<1>11. Cardinality(R[N]) \in Nat
  BY <1>1, <1>2, ByteIsFinite
<1> QED
  BY <1>9, <1>10, <1>11 DEF Parity

-----------------------------------------------------------------------------

LEMMA FrameSizes ==
  /\ MessageBytes \in Nat /\ FrameBytes = MessageBytes + 1 /\ FrameBytes \in Nat
  /\ MessageBytes \in 0 .. MessageBytes /\ 0 \in 0 .. MessageBytes
  /\ FrameBytes \in 1 .. FrameBytes
<1>1. MessageBytes \in Nat /\ FrameBytes = MessageBytes + 1
  BY FrameCheckAssumption DEF FrameBytes
<1> QED
  BY <1>1

\* A message with its CRC.
LEMMA FrameIs ==
  ASSUME NEW m \in Messages
  PROVE  /\ m \in [1 .. MessageBytes -> Byte]
         /\ FrameOf(m) \in [1 .. FrameBytes -> Byte]
         /\ \A k \in 1 .. MessageBytes : FrameOf(m)[k] = m[k]
         /\ FrameOf(m)[FrameBytes] = CrcAfter(m)[MessageBytes]
<1>1. m \in [1 .. MessageBytes -> Byte] /\ MessageBytes \in Nat /\ FrameBytes = MessageBytes + 1
  BY FrameCheckAssumption DEF FrameBytes
<1>2. Len(m) = MessageBytes /\ CrcAfter(m) \in [0 .. MessageBytes -> Byte]
  BY <1>1, CrcSteps
<1>3. Crc8(m) = CrcAfter(m)[MessageBytes] /\ Crc8(m) \in Byte
  BY <1>1, <1>2 DEF Crc8
<1> DEFINE c == Crc8(m)
<1>4. c \in Byte /\ FrameOf(m) = Append(m, c)
  BY <1>3, GeneratorCrcIsCrc8 DEF FrameOf
<1> HIDE DEF c
<1>5. /\ Append(m, c) \in [1 .. FrameBytes -> Byte]
      /\ \A k \in 1 .. MessageBytes : Append(m, c)[k] = m[k]
      /\ Append(m, c)[FrameBytes] = c
  <2>1. m \in Seq(Byte) /\ Len(m) = MessageBytes
    BY <1>1, <1>2
  <2>2. Append(m, c) \in Seq(Byte) /\ Len(Append(m, c)) = FrameBytes
    BY <1>1, <1>4, <2>1
  <2>3. Append(m, c)[FrameBytes] = c /\ \A k \in 1 .. MessageBytes : Append(m, c)[k] = m[k]
    BY <1>1, <1>4, <2>1
  <2>4. Append(m, c) \in [1 .. FrameBytes -> Byte]
    <3> DEFINE f == Append(m, c)
    <3>1. f \in Seq(Byte) /\ Len(f) = FrameBytes
      BY <2>2
    <3> HIDE DEF f
    <3>2. f \in [1 .. Len(f) -> Byte]
      BY <3>1, LenProperties
    <3> QED
      BY <3>1, <3>2 DEF f
  <2> QED
    BY <2>3, <2>4
<1> QED
  BY <1>1, <1>3, <1>4, <1>5 DEF c

(***************************************************************************)
(* The bytes differ from the frame that was sent in the wrong bits, and    *)
(* the register from the CRC of what was sent in what the wrong bits       *)
(* leave in a register of their own.                                       *)
(***************************************************************************)
FrameInv ==
  /\ message \in Messages
  /\ errors \in Errors
  /\ frame_bits = Inverted(BytesToBits(FrameOf(message)), errors)
  /\ verdict \in {"decoded", "checking", "crc ok", "crc mismatch"}
  /\ consumed \in 0 .. MessageBytes
  /\ crc = Xor(CrcAfter(message)[consumed], CrcAfter(WrongPayload(errors))[consumed])
  /\ verdict # "decoded" =>
       \A k \in 1 .. FrameBytes : decoded_bytes[k] = Xor(FrameOf(message)[k], WrongIn(errors, k))
  /\ verdict \in {"crc ok", "crc mismatch"} =>
       /\ consumed = MessageBytes
       /\ verdict = "crc ok" <=> decoded_bytes[FrameBytes] = crc

LEMMA FrameInit ==
  FrameCheckInit => FrameInv
<1> SUFFICES ASSUME FrameCheckInit PROVE FrameInv
  OBVIOUS
<1> USE DEF FrameCheckInit
<1>1. message \in [1 .. MessageBytes -> Byte] /\ MessageBytes \in Nat
  BY FrameIs, FrameCheckAssumption
<1>2. CrcAfter(message)[0] = {}
  BY <1>1, CrcSteps
<1>3. CrcAfter(WrongPayload(errors))[0] = {}
  BY WrongRegister
<1>4. consumed \in 0 .. MessageBytes
  BY <1>1
<1>5. crc = Xor(CrcAfter(message)[consumed], CrcAfter(WrongPayload(errors))[consumed])
  BY <1>2, <1>3, XorFacts
<1> QED
  BY <1>4, <1>5 DEF FrameInv

LEMMA FrameStep ==
  FrameInv /\ [FrameCheckNext]_frame_vars => FrameInv'
<1> SUFFICES ASSUME FrameInv, [FrameCheckNext]_frame_vars PROVE FrameInv'
  OBVIOUS
<1> USE DEF FrameInv
<1>1. /\ message \in [1 .. MessageBytes -> Byte] /\ MessageBytes \in Nat
      /\ FrameBytes = MessageBytes + 1 /\ FrameBytes \in Nat
      /\ FrameOf(message) \in [1 .. FrameBytes -> Byte]
  <2>1. message \in Messages
    OBVIOUS
  <2> HIDE DEF FrameInv
  <2> QED
    BY <2>1, FrameIs, FrameSizes
<1>2. CASE PackBits
  <2> USE <1>2 DEF PackBits
  <2>1. /\ Len(decoded_bytes') = FrameBytes
        /\ \A k \in 1 .. FrameBytes : decoded_bytes'[k] = Xor(FrameOf(message)[k], WrongIn(errors, k))
    BY <1>1, PackedBytes
  <2>2. verdict' = "checking"
    BY <2>1
  <2> QED
    BY <2>1, <2>2
<1>3. CASE ConsumeByte
  <2> USE <1>3 DEF ConsumeByte
  <2> DEFINE m == consumed + 1
             A == CrcAfter(message)[consumed]
             B == CrcAfter(WrongPayload(errors))[consumed]
             x == message[m]
             w == WrongIn(errors, m)
  <2>1. m \in 1 .. MessageBytes /\ m \in 0 .. MessageBytes /\ m \in 1 .. FrameBytes /\ m - 1 = consumed
    BY <1>1
  <2>2. crc = Xor(A, B)
    OBVIOUS
  <2>3. decoded_bytes[m] = Xor(x, w)
    BY <2>1, FrameIs
  <2>4. A \in Byte /\ x \in Byte
    BY <1>1, <2>1, CrcSteps
  <2>5. B \in Byte /\ w \in Byte
    BY WrongRegister, WrongType
  <2>6. CrcAfter(message)[m] = CrcByte(A, x)
    <3>1. \A k \in 1 .. MessageBytes :
            CrcAfter(message)[k] = CrcByte(CrcAfter(message)[k - 1], message[k])
      <4> HIDE DEF FrameInv, ConsumeByte
      <4> QED
        BY <1>1, CrcSteps
    <3> HIDE DEF m, FrameInv, ConsumeByte
    <3> QED
      BY <2>1, <3>1 DEF m
  <2>7. CrcAfter(WrongPayload(errors))[m] = CrcByte(B, w)
    <3>1. CrcAfter(WrongPayload(errors))[m] = Shift8(Xor(B, w))
      <4> HIDE DEF m
      <4> QED
        BY <2>1, WrongRegister
    <3> QED
      BY <3>1, CrcByteIsShift8
  <2>8. crc' = CrcByte(Xor(A, B), Xor(x, w))
    BY <2>2, <2>3
  <2>9. CrcByte(Xor(A, B), Xor(x, w)) = Xor(CrcByte(A, x), CrcByte(B, w))
    <3> HIDE DEF A, B, x, w
    <3> QED
      BY <2>4, <2>5, CrcByteXor
  <2>10. consumed' = m /\ crc' = Xor(CrcAfter(message)[m], CrcAfter(WrongPayload(errors))[m])
    BY <2>6, <2>7, <2>8, <2>9
  <2> QED
    BY <2>1, <2>10
<1>4. CASE CompareCrc
  BY <1>4 DEF CompareCrc
<1>5. CASE UNCHANGED frame_vars
  BY <1>5 DEF frame_vars
<1> QED
  BY <1>2, <1>3, <1>4, <1>5 DEF FrameCheckNext

LEMMA FrameInvariant ==
  FrameCheckSpec => []FrameInv
BY FrameInit, FrameStep, PTL DEF FrameCheckSpec

\* The payload is verified when the CRC has the wrong bits that those of the
\* payload leave in the register, and only then.
LEMMA VerdictIs ==
  ASSUME FrameInv
  PROVE  /\ verdict # "wrong length"
         /\ errors \in SUBSET (1 .. 8 * FrameBytes)
         /\ verdict \in {"crc ok", "crc mismatch"} =>
              (verdict = "crc ok" <=>
                 CrcAfter(WrongPayload(errors))[MessageBytes] = WrongIn(errors, FrameBytes))
<1> USE DEF FrameInv
<1> DEFINE A == CrcAfter(message)[MessageBytes]
           B == CrcAfter(WrongPayload(errors))[MessageBytes]
           w == WrongIn(errors, FrameBytes)
<1>1. errors \in SUBSET (1 .. 8 * FrameBytes)
  BY FrameCheckAssumption
<1>2. ASSUME verdict \in {"crc ok", "crc mismatch"}
      PROVE  verdict = "crc ok" <=> B = w
  <2>1. FrameBytes \in 1 .. FrameBytes
    BY FrameSizes
  <2>2. decoded_bytes[FrameBytes] = Xor(A, w)
    BY <1>2, <2>1, FrameIs
  <2>3. crc = Xor(A, B)
    BY <1>2
  <2> HIDE DEF A, B, w
  <2>4. Xor(A, w) = Xor(A, B) <=> B = w
    <3>1. Xor(A, w) = Xor(A, B) => \A b : b \in B <=> b \in w
      BY XorFacts
    <3> QED
      BY <3>1
  <2> QED
    BY <1>2, <2>2, <2>3, <2>4
<1> QED
  BY <1>1, <1>2

(***************************************************************************)
(* An intact frame is always verified.                                     *)
(***************************************************************************)
THEOREM IntactFrames ==
  FrameCheckSpec => []IntactFrameIsVerified
<1>1. FrameInv => IntactFrameIsVerified
  <2> SUFFICES ASSUME FrameInv, verdict \in {"wrong length", "crc mismatch"}, errors = {}
               PROVE  FALSE
    BY DEF IntactFrameIsVerified
  <2>1. CrcAfter(WrongPayload(errors))[MessageBytes] # WrongIn(errors, FrameBytes)
    BY VerdictIs
  <2>2. \A k : WrongIn(errors, k) = {}
    BY DEF WrongIn
  <2>3. MessageBytes \in 0 .. MessageBytes
    BY FrameSizes
  <2>4. CrcAfter(WrongPayload(errors))[MessageBytes] = {}
    BY <2>2, <2>3, QuietRegister
  <2> QED
    BY <2>1, <2>2, <2>4
<1> QED
  BY <1>1, FrameInvariant, PTL

(***************************************************************************)
(* No burst of eight bits is verified, wherever it starts, and no odd      *)
(* number of wrong bits, for payloads of any length.                       *)
(***************************************************************************)
THEOREM DetectedErrors ==
  FrameCheckSpec => []ErrorsAreDetected
<1>1. FrameInv => ErrorsAreDetected
  <2> SUFFICES ASSUME FrameInv, verdict = "crc ok" PROVE ~IsBurst /\ ~IsOdd
    BY DEF ErrorsAreDetected
  <2>1. errors \in SUBSET (1 .. 8 * FrameBytes)
    BY VerdictIs
  <2>2. CrcAfter(WrongPayload(errors))[MessageBytes] = WrongIn(errors, FrameBytes)
    BY VerdictIs
  <2>3. ~IsBurst
    BY <2>1, <2>2, BurstSyndrome DEF IsBurst
  <2>4. ~IsOdd
    BY <2>1, <2>2, OddSyndrome DEF IsOdd
  <2> QED
    BY <2>3, <2>4
<1> QED
  BY <1>1, FrameInvariant, PTL

-----------------------------------------------------------------------------

(***************************************************************************)
(* Each stage of a replay is a run of its own module: this holds by the    *)
(* way the stages are put together, and lets a replay use their theorems.  *)
(***************************************************************************)
LEMMA StagesCarryOver ==
  StagesSpec => ReaderSpec /\ FrameSearchSpec /\ FrameCheckSpec
<1>1. StagesInit => ReaderInit /\ FrameSearchInit /\ FrameCheckInit
  BY DEF StagesInit
<1>2. [StagesNext]_stages_vars =>
        [ReaderNext]_reader_vars /\ [FrameSearchNext]_search_vars /\ [FrameCheckNext]_frame_vars
  <2>1. CASE LoadIq
    BY <2>1 DEF LoadIq
  <2>2. CASE FindFrames
    BY <2>2 DEF FindFrames
  <2>3. CASE CheckPayload
    BY <2>3 DEF CheckPayload
  <2>4. CASE UNCHANGED stages_vars
    BY <2>4 DEF stages_vars
  <2> QED
    BY <2>1, <2>2, <2>3, <2>4 DEF StagesNext
<1> QED
  BY <1>1, <1>2, PTL DEF StagesSpec, ReaderSpec, FrameSearchSpec, FrameCheckSpec

(***************************************************************************)
(* A whole replay verifies only payloads without a detectable error.       *)
(***************************************************************************)
THEOREM ReplayDetectsErrors ==
  StagesSpec => [](IntactFrameIsVerified /\ ErrorsAreDetected)
BY StagesCarryOver, IntactFrames, DetectedErrors, PTL

=============================================================================
