----------------------------- MODULE FrameCheck -----------------------------
(***************************************************************************)
(* The payload check of a replay (run_demo_replay after the decoder, with  *)
(* bits_to_bytes and crc8_bytes): pack the decoded bits, take the CRC-8 of *)
(* the payload and compare it with the byte that follows.  What was sent   *)
(* is a message and its CRC (build_frame_bits of the generator); errors    *)
(* are the decoded bits that differ from it.                               *)
(*                                                                         *)
(* A byte is the set of its bits that are one, 7 the most significant.     *)
(***************************************************************************)
EXTENDS Integers, Sequences, FiniteSets

CONSTANTS
  MessageBytes,   \* kDemoPayloadBytes, 14
  Messages,       \* the payloads sent
  Errors          \* positions of the wrong bits, from 1

Byte == SUBSET (0 .. 7)
FrameBytes == MessageBytes + 1

ASSUME FrameCheckAssumption ==
  /\ MessageBytes \in Nat
  /\ Messages \subseteq [1 .. MessageBytes -> Byte]
  /\ Errors \subseteq SUBSET (1 .. 8 * FrameBytes)

VARIABLES
  message,        \* the payload that was sent
  errors,         \* the decoded bits that are wrong
  frame_bits,     \* what the decoder made of the frame
  decoded_bytes,
  crc,            \* the register of crc8_bytes
  consumed,       \* bytes of the payload that are in it
  verdict         \* "decoded", "checking", or the outcome

frame_vars == <<message, errors, frame_bits, decoded_bytes, crc, consumed, verdict>>

-----------------------------------------------------------------------------

Xor(a, b) == (a \ b) \cup (b \ a)

\* Variant: the most significant bit is looked at after the shift.
CrcShiftTestedLate(register) ==
  {b \in 0 .. 7 : (b - 1 \in register) # (6 \in register /\ b \in {0, 1, 2})}

\* Shift left, and subtract the polynomial 0x07 when a bit falls out.
CrcShift(register) ==
  {b \in 0 .. 7 : (b - 1 \in register) # (7 \in register /\ b \in {0, 1, 2})}

\* A byte enters the register: eight shifts.
CrcByte(register, value) ==
  LET Twice(r) == CrcShift(CrcShift(r))
      FourTimes(r) == Twice(Twice(r))
  IN  FourTimes(FourTimes(Xor(register, value)))

\* The register after each prefix of the bytes.
CrcAfter(bytes) ==
  LET after[n \in 0 .. Len(bytes)] ==
        IF n = 0 THEN {} ELSE CrcByte(after[n - 1], bytes[n])
  IN  after

Crc8(bytes) == CrcAfter(bytes)[Len(bytes)]

\* The most significant bit of each byte comes first.
BytesToBits(bytes) ==
  [i \in 1 .. 8 * Len(bytes) |->
     IF 7 - ((i - 1) % 8) \in bytes[(i - 1) \div 8 + 1] THEN 1 ELSE 0]

\* Variant: the first bit of a byte is its least significant one.
BitsToBytesReversed(bits) ==
  [n \in 1 .. (Len(bits) + 7) \div 8 |->
     {b \in 0 .. 7 : 8 * n - 7 + b <= Len(bits) /\ bits[8 * n - 7 + b] = 1}]

\* A last byte that is not full is filled up with zeros.
BitsToBytes(bits) ==
  [n \in 1 .. (Len(bits) + 7) \div 8 |->
     {b \in 0 .. 7 : 8 * n - b <= Len(bits) /\ bits[8 * n - b] = 1}]

\* The generator script has a CRC-8 of its own: the register shifted within its byte,
\* and the polynomial subtracted from what is left.
GeneratorShift(register) ==
  LET shifted == {b \in 0 .. 7 : b - 1 \in register}
  IN  IF 7 \in register THEN Xor(shifted, {0, 1, 2}) ELSE shifted

GeneratorByte(register, value) ==
  LET Twice(r) == GeneratorShift(GeneratorShift(r))
      FourTimes(r) == Twice(Twice(r))
  IN  FourTimes(FourTimes(Xor(register, value)))

GeneratorCrc(bytes) ==
  LET after[n \in 0 .. Len(bytes)] ==
        IF n = 0 THEN {} ELSE GeneratorByte(after[n - 1], bytes[n])
  IN  after[Len(bytes)]

FrameOf(m) == Append(m, GeneratorCrc(m))

Inverted(bits, positions) ==
  [i \in DOMAIN bits |-> IF i \in positions THEN 1 - bits[i] ELSE bits[i]]

-----------------------------------------------------------------------------

FrameCheckInit ==
  /\ message \in Messages
  /\ errors \in Errors
  /\ frame_bits = Inverted(BytesToBits(FrameOf(message)), errors)
  /\ decoded_bytes = << >>
  /\ crc = {} /\ consumed = 0
  /\ verdict = "decoded"

\* The payload and its CRC are packed, when there are as many bytes as expected.
PackBits ==
  /\ verdict = "decoded"
  /\ decoded_bytes' = BitsToBytes(frame_bits)
  /\ verdict' = IF Len(decoded_bytes') # FrameBytes THEN "wrong length" ELSE "checking"
  /\ UNCHANGED <<message, errors, frame_bits, crc, consumed>>

\* The loop of crc8_bytes over the payload.
ConsumeByte ==
  /\ verdict = "checking"
  /\ consumed < MessageBytes
  /\ crc' = CrcByte(crc, decoded_bytes[consumed + 1])
  /\ consumed' = consumed + 1
  /\ UNCHANGED <<message, errors, frame_bits, decoded_bytes, verdict>>

CompareCrc ==
  /\ verdict = "checking"
  /\ consumed = MessageBytes
  /\ verdict' = IF decoded_bytes[FrameBytes] = crc THEN "crc ok" ELSE "crc mismatch"
  /\ UNCHANGED <<message, errors, frame_bits, decoded_bytes, crc, consumed>>

FrameCheckNext == PackBits \/ ConsumeByte \/ CompareCrc

FrameCheckSpec == FrameCheckInit /\ [][FrameCheckNext]_frame_vars

-----------------------------------------------------------------------------

(***************************************************************************)
(* A frame that was decoded without an error is verified: packing undoes   *)
(* what the generator unpacked, for every message, and the CRC of the two  *)
(* sides, each written in its own language, is the same.                   *)
(***************************************************************************)
IntactFrameIsVerified ==
  verdict \in {"wrong length", "crc mismatch"} => errors # {}

(***************************************************************************)
(* A payload with errors is not taken for a verified one when its wrong    *)
(* bits lie within eight consecutive bits, over the end of a byte or of    *)
(* the payload or in the CRC itself, or when they are an odd number,       *)
(* however they are spread.  The error events of the decoder are bursts.   *)
(***************************************************************************)
IsBurst == errors # {} /\ \E first \in errors : errors \subseteq first .. first + 7

IsOdd == Cardinality(errors) % 2 # 0

ErrorsAreDetected == verdict = "crc ok" => ~IsBurst /\ ~IsOdd

=============================================================================
