--------------------------- MODULE ViterbiDecoder ---------------------------
(***************************************************************************)
(* The convolutional code and its decoder (convolutional_codec.cpp): rate  *)
(* 1/2, constraint length 3, generators 111 and 101.  A decode prepares    *)
(* branch metrics, one symbol at a time or in vectors, extends the best    *)
(* path into each of the four states symbol by symbol, traces the best one *)
(* back and drops the tail.                                                *)
(*                                                                         *)
(* A state is the number of the last two input bits.  The sums of two      *)
(* int8_t fit the int16_t of the tables, so they are integers here.        *)
(***************************************************************************)
EXTENDS Integers, Sequences

CONSTANTS
  SoftInputs,        \* the soft decisions that callers decode
  SoftLimit,         \* the largest absolute soft decision, 128
  NegInf,            \* kNegInf: the metric of a state that no path reaches
  NeonSymbols,       \* symbols of a NEON tile, 16
  StreamingSymbols   \* svcnth(): symbols of a streaming vector

ASSUME SoftLimitAssumption == SoftLimit \in Nat
ASSUME SoftInputsAssumption == SoftInputs \subseteq Seq(-SoftLimit .. SoftLimit)
ASSUME NegInfAssumption == NegInf \in Int /\ NegInf < -4 * SoftLimit
ASSUME VectorAssumption == {NeonSymbols, StreamingSymbols} \subseteq Nat \ {0}

VARIABLES
  soft,          \* the soft decisions of the call
  metric_path,   \* which function prepares the branch metrics
  pc,            \* "metrics", "acs", "trace", "done" or "refused"
  tables,        \* metric_by_symbol_type, for the symbols prepared so far
  path_metrics,  \* the metric of the best path into each state
  decisions,     \* per symbol and state, the input bit of that path
  predecessors,  \* per symbol and state, the state it comes from
  best_state,    \* the state of the traceback
  decoded_bits,  \* the bits traced back so far
  hard_out       \* the output of a successful decode

vars == <<soft, metric_path, pc, tables, path_metrics, decisions, predecessors,
          best_state, decoded_bits, hard_out>>

-----------------------------------------------------------------------------

States == 0 .. 3
Bit == {0, 1}
TailBits == 2   \* kConvConstraintLength - 1

\* encode_symbol: the two parities of the shift register, first one high.
EncodedSymbol(state, input_bit) ==
  LET oldest == state \div 2
      newer == state % 2
  IN  2 * ((oldest + newer + input_bit) % 2) + ((oldest + input_bit) % 2)

NextState(state, input_bit) == (2 * state + input_bit) % 4

\* The states of the shift register over a bit sequence, from state 0.
RegisterStates(bits) ==
  LET state[i \in 0 .. Len(bits)] == IF i = 0 THEN 0 ELSE NextState(state[i - 1], bits[i])
  IN  state

\* The symbols that the shift register sends for a bit sequence.
Symbols(bits) ==
  LET states == RegisterStates(bits)
  IN  [i \in 1 .. Len(bits) |-> EncodedSymbol(states[i - 1], bits[i])]

\* The symbols of convolutional_encode: the input and a tail of zeros.
Encoded(input_bits) == Symbols(input_bits \o <<0, 0>>)

symbol_count == Len(soft) \div 2
prepared == Len(tables)
t == Len(decisions)   \* the symbols that the recurrence has taken

-----------------------------------------------------------------------------

Init ==
  /\ soft \in SoftInputs
  /\ metric_path \in {"reference", "neon", "streaming"}
  /\ pc = "metrics"
  /\ tables = << >>
  /\ path_metrics = [state \in States |-> IF state = 0 THEN 0 ELSE NegInf]
  /\ decisions = << >>
  /\ predecessors = << >>
  /\ best_state = 0
  /\ decoded_bits = << >>
  /\ hard_out = << >>

\* Variant: the metrics of the symbols 01 and 10 are swapped.
SymbolMetricsSwapped(soft0, soft1) ==
  [symbol \in 0 .. 3 |->
     (IF symbol % 2 = 1 THEN soft0 ELSE -soft0) + (IF symbol \div 2 = 1 THEN soft1 ELSE -soft1)]

\* The correlation of two soft decisions with each symbol.
SymbolMetrics(soft0, soft1) ==
  [symbol \in 0 .. 3 |->
     (IF symbol \div 2 = 1 THEN soft0 ELSE -soft0) + (IF symbol % 2 = 1 THEN soft1 ELSE -soft1)]

\* Symbols prepared at once: NEON leaves a scalar remainder, streaming vectors a
\* partly active last one.
TileWidth ==
  CASE metric_path = "reference" -> 1
    [] metric_path = "neon" -> IF prepared + NeonSymbols <= symbol_count THEN NeonSymbols ELSE 1
    [] metric_path = "streaming" -> IF symbol_count - prepared < StreamingSymbols
                                      THEN symbol_count - prepared ELSE StreamingSymbols

\* Variant: the two halves of the load are taken for the two decisions of a symbol.
TileSymbolHalves(k) ==
  SymbolMetrics(soft[2 * prepared + k], soft[2 * prepared + TileWidth + k])

\* Lane k of a tile, from a load that separates even and odd soft decisions.
TileSymbol(k) ==
  SymbolMetrics(soft[2 * (prepared + k) - 1], soft[2 * (prepared + k)])

InputInvalid == soft = << >> \/ Len(soft) % 2 # 0

RefuseInput ==
  /\ pc = "metrics"
  /\ InputInvalid
  /\ pc' = "refused"
  /\ UNCHANGED <<soft, metric_path, tables, path_metrics, decisions, predecessors,
                 best_state, decoded_bits, hard_out>>

PrepareTile ==
  /\ pc = "metrics"
  /\ ~InputInvalid
  /\ tables' = tables \o [k \in 1 .. TileWidth |-> TileSymbol(k)]
  /\ pc' = IF Len(tables') = symbol_count THEN "acs" ELSE "metrics"
  /\ UNCHANGED <<soft, metric_path, path_metrics, decisions, predecessors,
                 best_state, decoded_bits, hard_out>>

-----------------------------------------------------------------------------

\* The metric of the path that comes from state into next_state.
CandidateMetric(state, next_state) ==
  path_metrics[state] + tables[t + 1][EncodedSymbol(state, next_state % 2)]

Reached(next_state) ==
  {state \in States : NextState(state, next_state % 2) = next_state}

\* Variant: states that no path reaches are extended like the others.
CandidatesOfAllStates(next_state) ==
  {state \in Reached(next_state) : CandidateMetric(state, next_state) > NegInf}

\* The states that the recurrence extends into next_state.
Candidates(next_state) ==
  {state \in Reached(next_state) :
     path_metrics[state] # NegInf /\ CandidateMetric(state, next_state) > NegInf}

\* The best of them, the lowest state among equals.
Survivor(next_state) ==
  CHOOSE state \in Candidates(next_state) :
    \A other \in Candidates(next_state) \ {state} :
      \/ CandidateMetric(state, next_state) > CandidateMetric(other, next_state)
      \/ /\ CandidateMetric(state, next_state) = CandidateMetric(other, next_state)
         /\ state < other

\* The input bit that leads into next_state.
SurvivingBit(next_state) ==
  IF Candidates(next_state) = {} THEN 0 ELSE next_state % 2

AddCompareSelect ==
  /\ pc = "acs"
  /\ t < symbol_count
  /\ path_metrics' = [s \in States |-> IF Candidates(s) = {} THEN NegInf
                                       ELSE CandidateMetric(Survivor(s), s)]
  /\ decisions' = Append(decisions, [s \in States |-> SurvivingBit(s)])
  /\ predecessors' = Append(predecessors,
       [s \in States |-> IF Candidates(s) = {} THEN 0 ELSE Survivor(s)])
  /\ UNCHANGED <<soft, metric_path, pc, tables, best_state, decoded_bits, hard_out>>

\* The first state with the highest metric, whatever the tail says.
BestState ==
  CHOOSE state \in States : \A other \in States \ {state} :
    \/ path_metrics[state] > path_metrics[other]
    \/ path_metrics[state] = path_metrics[other] /\ state < other

StartTraceback ==
  /\ pc = "acs"
  /\ t = symbol_count
  /\ best_state' = BestState
  /\ pc' = "trace"
  /\ UNCHANGED <<soft, metric_path, tables, path_metrics, decisions, predecessors,
                 decoded_bits, hard_out>>

\* Variant: the state moves back before the decision is read.
TraceBackMovingFirst ==
  /\ pc = "trace"
  /\ Len(decoded_bits) < symbol_count
  /\ LET i == symbol_count - Len(decoded_bits)
     IN  /\ best_state' = predecessors[i][best_state]
         /\ decoded_bits' = <<decisions[i][best_state']>> \o decoded_bits
  /\ UNCHANGED <<soft, metric_path, pc, tables, path_metrics, decisions, predecessors, hard_out>>

TraceBack ==
  /\ pc = "trace"
  /\ Len(decoded_bits) < symbol_count
  /\ LET i == symbol_count - Len(decoded_bits)
     IN  /\ decoded_bits' = <<decisions[i][best_state]>> \o decoded_bits
         /\ best_state' = predecessors[i][best_state]
  /\ UNCHANGED <<soft, metric_path, pc, tables, path_metrics, decisions, predecessors, hard_out>>

\* The tail is dropped; an input of one symbol has none.
Finish ==
  /\ pc = "trace"
  /\ Len(decoded_bits) = symbol_count
  /\ IF symbol_count < TailBits
       THEN pc' = "refused" /\ UNCHANGED hard_out
       ELSE pc' = "done" /\ hard_out' = SubSeq(decoded_bits, 1, symbol_count - TailBits)
  /\ UNCHANGED <<soft, metric_path, tables, path_metrics, decisions, predecessors,
                 best_state, decoded_bits>>

Next ==
  \/ RefuseInput
  \/ PrepareTile
  \/ AddCompareSelect
  \/ StartTraceback
  \/ TraceBack
  \/ Finish

Spec == Init /\ [][Next]_vars

-----------------------------------------------------------------------------
(***************************************************************************)
(* Properties                                                              *)
(***************************************************************************)

\* The correlation of a sequence of symbols with two of the soft decisions.
Correlation(received, symbols, i) ==
  (IF symbols[i] \div 2 = 1 THEN received[2 * i - 1] ELSE -received[2 * i - 1])
  + (IF symbols[i] % 2 = 1 THEN received[2 * i] ELSE -received[2 * i])

\* The correlations of a bit sequence's symbols with the soft decisions, added up.
PartialMetrics(received, bits) ==
  LET symbols == Symbols(bits)
      sum[i \in 0 .. Len(bits)] ==
        IF i = 0 THEN 0 ELSE sum[i - 1] + Correlation(received, symbols, i)
  IN  sum

\* What the decode promises of a path: the correlation of the symbols of a bit
\* sequence with the soft decisions it would have been sent as.
PathMetric(bits) == PartialMetrics(soft, bits)[Len(bits)]

\* The state that a bit sequence leaves the shift register in.
FinalState(bits) ==
  LET bit(i) == IF i >= 1 THEN bits[i] ELSE 0
  IN  2 * bit(Len(bits) - 1) + bit(Len(bits))

\* The metrics of the bit sequences as long as the symbols taken that end in a state.
MetricsInto(state) ==
  {PathMetric(bits) : bits \in {b \in [1 .. t -> Bit] : FinalState(b) = state}}

\* An encoded payload at one strength, with at most one decision inverted.
Received(payload, strength, inverted) ==
  LET symbols == Encoded(payload)
      sent(k) == IF k % 2 = 1 THEN symbols[(k + 1) \div 2] \div 2 ELSE symbols[k \div 2] % 2
  IN  [k \in 1 .. 2 * Len(symbols) |->
         IF (sent(k) = 1) # (k = inverted) THEN strength ELSE -strength]

\* The NEON tiles with their scalar remainder and the streaming vectors with
\* their partly active last one prepare exactly the tables of the reference
\* (prepare_branch_metrics_reference), no symbol left out or prepared twice.
TablesMatchReference ==
  /\ \A i \in 1 .. prepared : tables[i] = SymbolMetrics(soft[2 * i - 1], soft[2 * i])
  /\ pc \in {"acs", "trace", "done"} => prepared = symbol_count

\* After t symbols the metric kept for a state is that of the best of all bit
\* sequences that end in it, and kNegInf stands for the states that none
\* reaches (the add-compare-select of viterbi_decode_from_metrics).
SurvivorsAreBest ==
  pc \in {"acs", "trace"} =>
    \A state \in States :
      IF MetricsInto(state) = {} THEN path_metrics[state] = NegInf
      ELSE /\ path_metrics[state] \in MetricsInto(state)
           /\ \A metric \in MetricsInto(state) : metric <= path_metrics[state]

\* However long the input, the metric of a reached state never falls below four
\* times the largest soft decision and some state is never below zero: no real
\* metric can be taken for kNegInf, which the recurrence uses as the mark of an
\* unreached state without ever normalising the metrics.
MetricFloor ==
  /\ \A state \in States : path_metrics[state] = NegInf \/ path_metrics[state] >= -4 * SoftLimit
  /\ \E state \in States : path_metrics[state] >= 0
  /\ t >= TailBits => \A state \in States : path_metrics[state] # NegInf

\* Each metric is that of a best path or the mark of an unreached state, and the two
\* cannot be taken for each other (path_metrics of viterbi_decode_from_metrics).
MetricsAreSound == SurvivorsAreBest /\ MetricFloor

\* The bits traced back are a best path through the whole input, whatever ties
\* the recurrence and the choice of the best state broke, and the output is
\* that path without its tail.
DecodedIsBestPath ==
  pc = "done" =>
    /\ hard_out = SubSeq(decoded_bits, 1, symbol_count - TailBits)
    /\ \A bits \in [1 .. symbol_count -> Bit] : PathMetric(bits) <= PathMetric(decoded_bits)

\* A payload sent with its tail is decoded even when one of its decisions is
\* inverted, although the traceback starts at the best state and not at the
\* state 0 that the tail leads to.
SingleErrorCorrected ==
  pc = "done" =>
    \A payload \in [1 .. symbol_count - TailBits -> Bit], strength \in 1 .. SoftLimit,
       inverted \in 0 .. Len(soft) :
      soft = Received(payload, strength, inverted) => hard_out = payload

=============================================================================
