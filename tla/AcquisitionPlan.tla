--------------------------- MODULE AcquisitionPlan ---------------------------
(***************************************************************************)
(* Preparation of an acquisition plan (acquisition_plan.cpp) and the       *)
(* arithmetic on timing grids that every search implementation repeats.    *)
(*                                                                         *)
(* Sizes are size_t values: 0 .. SizeMax with additions modulo             *)
(* SizeMax + 1.  A preamble is kept as its length and the two facts the    *)
(* code asks of its samples; a frequency offset is an integer or NaN,      *)
(* which stands for every non-finite value.  The matched-filter tables     *)
(* are kept as their sizes.                                                *)
(***************************************************************************)
EXTENDS Integers, Sequences

CONSTANTS
  SizeMax,      \* std::numeric_limits<std::size_t>::max()
  Frequencies,  \* the finite frequency offsets that configurations mention
  NaN           \* a value that compares false with every number

ASSUME SizeAssumption == SizeMax \in Nat
ASSUME FrequencyAssumption == Frequencies \subseteq Int
ASSUME NaNAssumption == NaN \notin Int

Size == 0 .. SizeMax

\* An empty error message.
NoError == ""

\* size_t addition wraps around.
SizeAdd(a, b) == (a + b) % (SizeMax + 1)

-----------------------------------------------------------------------------

Config == [sample_rate_valid    : BOOLEAN,
           preamble             : [length : Size, finite : BOOLEAN, energy : BOOLEAN],
           timing_offsets       : Seq(Size),
           frequency_offsets_hz : Seq(Frequencies \cup {NaN})]

Plan == [preamble_length           : Size,
         timing_offsets            : Seq(Size),
         frequency_hypotheses      : Seq(Frequencies),
         weight_count              : Size,
         timing_offsets_contiguous : BOOLEAN,
         contiguous_timing_start   : Size]

\* A default-constructed plan, which a failed preparation leaves behind.
EmptyPlan == [preamble_length           |-> 0,
              timing_offsets            |-> << >>,
              frequency_hypotheses      |-> << >>,
              weight_count              |-> 0,
              timing_offsets_contiguous |-> FALSE,
              contiguous_timing_start   |-> 0]

-----------------------------------------------------------------------------

(***************************************************************************)
(* The grid holds first, first + 1, ... in that order.  The comparison     *)
(* with SizeMax - index keeps a wrapped sum from passing for a successor.  *)
(***************************************************************************)
TimingOffsetsAreContiguous(offsets) ==
  \A index \in 1 .. Len(offsets) - 1 :
    /\ offsets[1] <= SizeMax - index
    /\ offsets[index + 1] = SizeAdd(offsets[1], index)

HasDuplicates(seq) ==
  \E i, j \in DOMAIN seq : i # j /\ seq[i] = seq[j]

\* Variant: the size check of the weight table is forgotten.
PlanErrorWithoutSizeCheck(config) ==
  IF \/ ~config.sample_rate_valid \/ config.preamble.length = 0
     \/ config.timing_offsets = << >> \/ config.frequency_offsets_hz = << >>
     \/ ~config.preamble.finite \/ ~config.preamble.energy
     \/ HasDuplicates(config.timing_offsets)
     \/ NaN \in {config.frequency_offsets_hz[i] : i \in DOMAIN config.frequency_offsets_hz}
     \/ HasDuplicates(config.frequency_offsets_hz)
    THEN "refused" ELSE NoError

\* The error of prepare_acquisition_plan, or NoError when the plan is filled in.
PlanError(config) ==
  IF ~config.sample_rate_valid THEN "sample rate"
  ELSE IF config.preamble.length = 0 THEN "preamble empty"
  ELSE IF config.timing_offsets = << >> THEN "no timing hypothesis"
  ELSE IF config.frequency_offsets_hz = << >> THEN "no frequency hypothesis"
  ELSE IF ~config.preamble.finite THEN "preamble not finite"
  ELSE IF ~config.preamble.energy THEN "preamble without energy"
  ELSE IF HasDuplicates(config.timing_offsets) THEN "duplicate timing"
  ELSE IF \/ \E i \in DOMAIN config.frequency_offsets_hz :
               config.frequency_offsets_hz[i] = NaN
          \/ HasDuplicates(config.frequency_offsets_hz)
    THEN "frequency not finite or duplicate"
  ELSE IF Len(config.frequency_offsets_hz) * config.preamble.length > SizeMax
    THEN "weight table too large"
  ELSE NoError

\* Variant: a refusal of duplicate timings comes after the plan was filled in.
PreparedPlanBeforeChecks(config) ==
  IF PlanError(config) \notin {NoError, "duplicate timing"} THEN EmptyPlan
  ELSE [preamble_length           |-> config.preamble.length,
        timing_offsets            |-> config.timing_offsets,
        frequency_hypotheses      |-> config.frequency_offsets_hz,
        weight_count              |->
          Len(config.frequency_offsets_hz) * config.preamble.length,
        timing_offsets_contiguous |-> TimingOffsetsAreContiguous(config.timing_offsets),
        contiguous_timing_start   |-> config.timing_offsets[1]]

\* The plan that prepare_acquisition_plan leaves in its output argument.
PreparedPlan(config) ==
  IF PlanError(config) # NoError THEN EmptyPlan
  ELSE [preamble_length           |-> config.preamble.length,
        timing_offsets            |-> config.timing_offsets,
        frequency_hypotheses      |-> config.frequency_offsets_hz,
        weight_count              |->
          Len(config.frequency_offsets_hz) * config.preamble.length,
        timing_offsets_contiguous |-> TimingOffsetsAreContiguous(config.timing_offsets),
        contiguous_timing_start   |-> config.timing_offsets[1]]

=============================================================================
