--------------------------- MODULE MetadataNumbers ---------------------------
(***************************************************************************)
(* Numbers in fixture metadata (tools/metadata_numbers.h): which tokens    *)
(* are JSON numbers, and the exact conversion of one to a size_t.          *)
(*                                                                         *)
(* A token is kept as its parts; value_end says that a comma, a bracket or *)
(* the end of the text follows it.  All tokens of a run are in texts of    *)
(* TextSize characters, which their digits do not exceed.                  *)
(***************************************************************************)
EXTENDS AcquisitionPlan

LOCAL INSTANCE SequencesExt

CONSTANT TextSize   \* text.size()

ASSUME TextAssumption == TextSize \in Nat

Digit == 0 .. 9

Token ==
  {token \in [negative : BOOLEAN, whole : Seq(Digit),
              point : BOOLEAN, fraction : Seq(Digit),
              mark : BOOLEAN, exponent_negative : BOOLEAN, exponent : Seq(Digit),
              value_end : BOOLEAN] :
     Len(token.whole) + Len(token.fraction) + Len(token.exponent) <= TextSize}

\* The value of a conversion that returns false.
Refused == -1

PowerOfTen[k \in Nat] == IF k = 0 THEN 1 ELSE 10 * PowerOfTen[k - 1]

\* std::numeric_limits<std::size_t>::digits10
Digits10 ==
  CHOOSE k \in 0 .. SizeMax : PowerOfTen[k] <= SizeMax + 1 /\ SizeMax + 1 < PowerOfTen[k + 1]

-----------------------------------------------------------------------------

\* json_number_end: a leading zero stands alone, and a point or an exponent has digits.
IsJsonNumber(token) ==
  /\ token.whole # << >>
  /\ token.whole[1] = 0 => Len(token.whole) = 1
  /\ token.point => token.fraction # << >>
  /\ token.mark => token.exponent # << >>
  /\ token.value_end

\* Where the digits begin without their leading zeros, or 0 when all are zeros.
Significant(digits) ==
  SelectInSeq(digits, LAMBDA d : d # 0)

\* Variant: the digit being added is not kept out of the bound.
BoundedNumberLate(digits, limit) ==
  FoldLeft(LAMBDA parsed, digit :
             IF parsed = Refused THEN Refused
             ELSE IF parsed > limit \div 10 THEN Refused
             ELSE (parsed * 10 + digit) % (limit + 1),
           0, digits)

\* The number with the given digits, or Refused when it would pass the limit.
BoundedNumber(digits, limit) ==
  LET parsed[i \in 0 .. Len(digits)] ==
        IF i = 0 THEN 0
        ELSE IF parsed[i - 1] = Refused THEN Refused
        ELSE IF parsed[i - 1] > (limit - digits[i]) \div 10 THEN Refused
        ELSE parsed[i - 1] * 10 + digits[i]
  IN  parsed[Len(digits)]

ExponentLimit == TextSize + Digits10 + 1

(***************************************************************************)
(* The digits after the decimal point has moved by the exponent: trailing  *)
(* zeros are removed or appended.  Empty when a digit that is not zero     *)
(* would be lost or the result cannot fit a size_t.                        *)
(***************************************************************************)
ShiftedDigits(digits, fractional_digits, exponent_negative, exponent) ==
  LET remove == IF exponent_negative THEN fractional_digits + exponent
                ELSE IF exponent < fractional_digits THEN fractional_digits - exponent
                ELSE 0
      append == IF ~exponent_negative /\ exponent >= fractional_digits
                  THEN exponent - fractional_digits ELSE 0
      kept == SubSeq(digits, 1, Len(digits) - remove)
  IN  IF \/ exponent_negative /\ ( \/ exponent > Len(digits)
                                   \/ fractional_digits > Len(digits) - exponent )
         \/ remove >= Len(digits)
         \/ \E i \in Len(kept) + 1 .. Len(digits) : digits[i] # 0
         \/ append > Digits10 + 1
         \/ Len(kept) + append > Digits10 + 1
        THEN << >>
        ELSE kept \o [i \in 1 .. append |-> 0]

ParseMetadataSize(token) ==
  LET all == token.whole \o token.fraction
      first_nonzero == Significant(all)
      exponent == BoundedNumber(token.exponent, ExponentLimit)
      shifted == ShiftedDigits(SubSeq(all, first_nonzero, Len(all)), Len(token.fraction),
                               token.exponent_negative, exponent)
  IN  IF ~IsJsonNumber(token) THEN Refused
      ELSE IF first_nonzero = 0 THEN 0
      ELSE IF token.negative \/ exponent = Refused THEN Refused
      ELSE IF shifted = << >> THEN Refused
      ELSE BoundedNumber(shifted, SizeMax)

-----------------------------------------------------------------------------

(***************************************************************************)
(* The definition to compare with: the sizes equal to the number that a    *)
(* token writes, which is its mantissa times ten to the power of shift.    *)
(***************************************************************************)

\* The value of decimal digits.
Number(digits) ==
  LET value[i \in 0 .. Len(digits)] ==
        IF i = 0 THEN 0 ELSE 10 * value[i - 1] + digits[i]
  IN  value[Len(digits)]

Tenth(number) == IF number % 10 = 0 THEN number \div 10 ELSE Refused

\* The number divided by ten the given times, or Refused when that leaves a remainder.
DividedByTens(number, times) ==
  LET quotient[i \in 0 .. times] == IF i = 0 THEN number ELSE Tenth(quotient[i - 1])
  IN  quotient[times]

ExactSizes(token) ==
  LET mantissa == Number(token.whole \o token.fraction)
      exponent == Number(token.exponent)
      shift == (IF token.exponent_negative THEN 0 - exponent ELSE exponent)
                 - Len(token.fraction)
  IN  {size \in Size :
         /\ token.negative => mantissa = 0
         /\ IF shift >= 0 THEN DividedByTens(size, shift) = mantissa
                          ELSE DividedByTens(mantissa, 0 - shift) = size}

=============================================================================
