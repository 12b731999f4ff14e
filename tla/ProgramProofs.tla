---------------------------- MODULE ProgramProofs ----------------------------
(***************************************************************************)
(* The programs that read recordings and metadata.                         *)
(*                                                                         *)
(* IqReader: AllSamplesOrNone for files of any length, chunks of any       *)
(* number of samples and samples of any size, however the file grows       *)
(* meanwhile.  While reading, the vector holds the samples of the bytes    *)
(* read, which are whole samples: chunks are, and a partial sample ends    *)
(* the read.                                                               *)
(*                                                                         *)
(* MetadataNumbers: parse_metadata_size accepts the size that a token      *)
(* writes, and nothing else.  The values of the prefixes of the digits are *)
(* the link: the loop follows them until they pass the limit, trailing     *)
(* zeros divide them by ten, and more than digits10 + 1 significant digits *)
(* pass every size.                                                        *)
(*                                                                         *)
(* DemoPrograms: where a replay gets its configuration, the timing grid of *)
(* acquisition_demo and its exit code, for every width of size_t and every *)
(* file.  DemoInv says of each stage what was loaded before it: in a grid  *)
(* that has begun, the i-th timing is i - 1 steps after the start and none *)
(* is past the stop, so the stop less a timing never wraps around.         *)
(***************************************************************************)
EXTENDS DemoPrograms, IqReader, AcquisitionPlanProofs, SequenceTheorems, TLAPS

LOCAL INSTANCE SequencesExt

\* The samples of the first n bytes, all finite.
Loaded(n) ==
  /\ n % SampleBytes = 0
  /\ out_samples = [i \in 1 .. n \div SampleBytes |-> i]
  /\ \A i \in DOMAIN out_samples : out_samples[i] \notin not_finite

ReaderInv ==
  /\ file_bytes \in Nat /\ position \in Nat /\ seen_bytes \in Nat
  /\ position <= file_bytes
  /\ read_stage = "called" => position = 0
  /\ read_stage = "reading" => Loaded(position)
  /\ read_stage = "loaded" => Loaded(seen_bytes) /\ seen_bytes > 0
  /\ read_stage = "failed" => out_samples = << >>

-----------------------------------------------------------------------------

\* Multiplication distributes over a sum.
LEMMA Distributes ==
  ASSUME NEW x \in Int, NEW y \in Int, NEW z \in Int
  PROVE  x * (y + z) = x * y + x * z
OBVIOUS

\* Quotient and remainder are the only ones.
LEMMA DivisionUnique ==
  ASSUME NEW s \in Nat \ {0}, NEW k \in Nat, NEW m \in 0 .. s - 1,
         NEW n \in Nat, n = s * k + m
  PROVE  n % s = m /\ n \div s = k
<1> DEFINE q == n \div s
           r == n % s
<1>1. n = s * q + r /\ q \in Nat /\ r \in 0 .. s - 1
  OBVIOUS
<1> HIDE DEF q, r
<1>2. s * (q - k) = m - r
  BY <1>1, Distributes
<1>3. CASE q > k
  <2>1. s * (q - k) >= s
    BY <1>1, <1>3
  <2> QED
    BY <1>1, <1>2, <2>1
<1>4. CASE q < k
  <2>1. s * (k - q) >= s
    BY <1>1, <1>4
  <2>2. s * (k - q) = -(s * (q - k))
    BY <1>1
  <2> QED
    BY <1>1, <1>2, <2>1, <2>2
<1>5. CASE q = k
  BY <1>1, <1>2, <1>5 DEF q, r
<1> QED
  BY <1>1, <1>3, <1>4, <1>5

\* Bytes read after whole samples divide as if they came first.
LEMMA AfterWholeSamples ==
  ASSUME NEW s \in Nat \ {0}, NEW a \in Nat, NEW b \in Nat, a % s = 0
  PROVE  /\ (a + b) % s = b % s
         /\ (a + b) \div s = a \div s + b \div s
         /\ a \div s \in Nat /\ b \div s \in Nat
<1> DEFINE q == a \div s
           p == b \div s
           r == b % s
<1>1. a = s * q /\ q \in Nat
  OBVIOUS
<1>2. b = s * p + r /\ p \in Nat /\ r \in 0 .. s - 1
  OBVIOUS
<1> HIDE DEF q, p, r
<1>3. a + b = s * (q + p) + r
  BY <1>1, <1>2, Distributes
<1>4. (a + b) % s = r /\ (a + b) \div s = q + p
  BY <1>1, <1>2, <1>3, DivisionUnique
<1> QED
  BY <1>1, <1>2, <1>4 DEF q, p, r

-----------------------------------------------------------------------------

\* Before the call nothing was read.
LEMMA ReaderInitInv == ReaderInit => ReaderInv
BY ReaderAssumption DEF ReaderInit, ReaderInv

\* The vector after one more chunk of n bytes.
LEMMA ChunkExtends ==
  ASSUME ReaderInv, read_stage = "reading", NEW n \in Nat, n % SampleBytes = 0,
         \A i \in DOMAIN ChunkSamples(n \div SampleBytes) :
           ChunkSamples(n \div SampleBytes)[i] \notin not_finite
  PROVE  LET loaded == out_samples \o ChunkSamples(n \div SampleBytes)
         IN  /\ (position + n) % SampleBytes = 0
             /\ loaded = [i \in 1 .. (position + n) \div SampleBytes |-> i]
             /\ \A i \in DOMAIN loaded : loaded[i] \notin not_finite
<1> DEFINE q == position \div SampleBytes
           p == n \div SampleBytes
           chunk == ChunkSamples(p)
           loaded == out_samples \o chunk
<1>1. SampleBytes \in Nat \ {0} /\ position \in Nat /\ Loaded(position)
  BY ReaderAssumption DEF ReaderInv
<1>2. /\ (position + n) % SampleBytes = 0
      /\ (position + n) \div SampleBytes = q + p
      /\ q \in Nat /\ p \in Nat
  BY <1>1, AfterWholeSamples DEF Loaded
<1>3. chunk = [i \in 1 .. p |-> q + i]
  BY DEF ChunkSamples
<1>4. out_samples = [i \in 1 .. q |-> i]
  BY <1>1 DEF Loaded
<1> HIDE DEF q, p, chunk
<1>5. out_samples \in Seq(Nat) /\ chunk \in Seq(Nat)
  BY <1>2, <1>3, <1>4
<1>6. Len(out_samples) = q /\ Len(chunk) = p
  BY <1>2, <1>3, <1>4
<1>7. /\ loaded \in Seq(Nat) /\ Len(loaded) = q + p
      /\ \A i \in 1 .. q + p :
           loaded[i] = IF i <= q THEN out_samples[i] ELSE chunk[i - q]
  BY <1>2, <1>5, <1>6, ConcatProperties
<1> HIDE DEF loaded
<1>8. \A i \in 1 .. q + p : loaded[i] = i
  <2> SUFFICES ASSUME NEW i \in 1 .. q + p PROVE loaded[i] = i
    OBVIOUS
  <2>1. CASE i <= q
    BY <1>2, <1>4, <1>7, <2>1
  <2>2. CASE i > q
    <3>1. i - q \in 1 .. p
      BY <1>2, <2>2
    <3> QED
      BY <1>2, <1>3, <1>7, <2>2, <3>1
  <2> QED
    BY <1>2, <2>1, <2>2
<1>9. DOMAIN loaded = 1 .. q + p /\ loaded = [i \in 1 .. q + p |-> i]
  BY <1>2, <1>7, <1>8
<1>10. \A i \in DOMAIN loaded : loaded[i] \notin not_finite
  <2> SUFFICES ASSUME NEW i \in 1 .. q + p PROVE loaded[i] \notin not_finite
    BY <1>9
  <2>1. CASE i <= q
    <3>1. i \in DOMAIN out_samples
      BY <1>2, <1>4, <2>1
    <3> QED
      BY <1>1, <1>2, <1>7, <2>1, <3>1 DEF Loaded
  <2>2. CASE i > q
    <3>1. i - q \in DOMAIN chunk
      BY <1>2, <1>3, <2>2
    <3>2. chunk[i - q] \notin not_finite
      BY <3>1 DEF chunk, p
    <3> QED
      BY <1>2, <1>7, <2>2, <3>2
  <2> QED
    BY <1>2, <2>1, <2>2
<1> QED
  BY <1>2, <1>9, <1>10 DEF loaded, chunk, p

\* One chunk: whole and finite, or the end of the read without a sample.
LEMMA ReadChunkInv == ReaderInv /\ ReadChunk => ReaderInv'
<1> SUFFICES ASSUME ReaderInv, ReadChunk PROVE ReaderInv'
  OBVIOUS
<1> DEFINE n == ReadBytes
<1>1. /\ ChunkBytes \in Nat \ {0} /\ SampleBytes \in Nat \ {0}
      /\ ChunkBytes % SampleBytes = 0
  BY ReaderAssumption
<1>2. /\ n \in Nat /\ position + n <= file_bytes
      /\ n < ChunkBytes => position + n = file_bytes
  BY <1>1 DEF ReadBytes, ReaderInv
<1>3. /\ seen_bytes' = file_bytes /\ position' = position + n
      /\ file_bytes' = file_bytes /\ not_finite' = not_finite
      /\ read_stage = "reading"
  BY DEF ReadChunk
<1>4. /\ file_bytes' \in Nat /\ position' \in Nat /\ seen_bytes' \in Nat
      /\ position' <= file_bytes'
  BY <1>2, <1>3 DEF ReaderInv
<1>5. CASE Fail
  BY <1>4, <1>5 DEF Fail, FailureClears, ReaderInv
<1>6. CASE ~Fail
  <2> DEFINE chunk == ChunkSamples(n \div SampleBytes)
             loaded == out_samples \o chunk
  <2>1. /\ n % SampleBytes = 0
        /\ \A i \in DOMAIN chunk : chunk[i] \notin not_finite
        /\ out_samples' = loaded
        /\ read_stage' = IF ~(n < ChunkBytes) THEN "reading"
                    ELSE IF loaded = << >> THEN "failed" ELSE "loaded"
    BY <1>6 DEF ReadChunk
  <2>2. /\ position' % SampleBytes = 0
        /\ loaded = [i \in 1 .. position' \div SampleBytes |-> i]
        /\ \A i \in DOMAIN loaded : loaded[i] \notin not_finite
    BY <1>2, <1>3, <2>1, ChunkExtends
  <2> HIDE DEF n, chunk, loaded
  <2>3. CASE read_stage' = "reading"
    BY <1>3, <1>4, <2>1, <2>2, <2>3 DEF ReaderInv, Loaded
  <2>4. CASE read_stage' = "failed"
    BY <1>4, <2>1, <2>4 DEF ReaderInv
  <2>5. CASE read_stage' = "loaded"
    <3>1. position' = seen_bytes'
      BY <1>2, <1>3, <2>1, <2>5
    <3>2. seen_bytes' # 0
      <4> SUFFICES ASSUME seen_bytes' = 0 PROVE FALSE
        OBVIOUS
      <4>1. position' \div SampleBytes = 0
        BY <1>1, <3>1, DivisionUnique
      <4>2. loaded = << >>
        BY <2>2, <4>1
      <4> QED
        BY <2>1, <2>5, <4>2
    <3>3. Loaded(seen_bytes)'
      BY <1>3, <2>1, <2>2, <3>1 DEF Loaded
    <3> QED
      BY <1>4, <2>5, <3>2, <3>3 DEF ReaderInv
  <2> QED
    BY <2>1, <2>3, <2>4, <2>5
<1> QED
  BY <1>5, <1>6

\* Every step but the read of a chunk leaves whole samples or none.
LEMMA OtherStepsInv ==
  ReaderInv /\ (RefusePath \/ OpenFile \/ ReadError \/ ExtendRecording \/ UNCHANGED reader_vars) => ReaderInv'
<1> SUFFICES ASSUME ReaderInv, RefusePath \/ OpenFile \/ ReadError \/ ExtendRecording \/ UNCHANGED reader_vars
             PROVE  ReaderInv'
  OBVIOUS
<1>1. CASE RefusePath
  BY <1>1 DEF RefusePath, ReaderInv
<1>2. CASE OpenFile
  <2>1. SampleBytes \in Nat \ {0} /\ 0 = SampleBytes * 0 + 0
    BY ReaderAssumption
  <2>2. 0 % SampleBytes = 0 /\ 0 \div SampleBytes = 0
    BY <2>1, DivisionUnique
  <2>3. << >> = [i \in 1 .. 0 |-> i]
    OBVIOUS
  <2> QED
    BY <1>2, <2>2, <2>3 DEF OpenFile, ReaderInv, Loaded
<1>3. CASE ReadError
  BY <1>3 DEF ReadError, Fail, FailureClears, ReaderInv
<1>4. CASE ExtendRecording
  BY <1>4, ReaderAssumption DEF ExtendRecording, ReaderInv, Loaded
<1>5. CASE UNCHANGED reader_vars
  BY <1>5 DEF reader_vars, ReaderInv, Loaded
<1> QED
  BY <1>1, <1>2, <1>3, <1>4, <1>5

\* The invariant holds of every read.
LEMMA ReaderInvariance == ReaderSpec => []ReaderInv
<1>1. ReaderInv /\ [ReaderNext]_reader_vars => ReaderInv'
  BY ReadChunkInv, OtherStepsInv DEF ReaderNext
<1> QED
  BY ReaderInitInv, <1>1, PTL DEF ReaderSpec

\* A read that succeeds has every sample of the file as it was last seen, and one that
\* fails leaves nothing, for files and chunks of any size (iq_reader.h's promise).
THEOREM ReadIsWhole == ReaderSpec => []AllSamplesOrNone
<1>1. ReaderInv => AllSamplesOrNone
  BY DEF ReaderInv, AllSamplesOrNone, Loaded
<1> QED
  BY <1>1, ReaderInvariance, PTL

-----------------------------------------------------------------------------
(* MetadataNumbers.                                                         *)

\* Some function has the start and the steps of a recursion.
HasRecursion(S, start, n, step) ==
  \E g \in [0 .. n -> S] : /\ g[0] = start
                           /\ \A i \in 1 .. n : g[i] = step[<<g[i - 1], i>>]

\* A set of natural numbers that holds zero and every successor holds all of them.
LEMMA NaturalInduction ==
  ASSUME NEW P, 0 \in P, \A k \in Nat : k \in P => k + 1 \in P
  PROVE  \A k \in Nat : k \in P
<1> DEFINE Others == {k \in Nat : k \notin P}
<1> SUFFICES ASSUME Others # {} PROVE FALSE
  OBVIOUS
<1>1. PICK least \in Others : \A n \in Others : least <= n
  BY LeastNatural
<1>2. least - 1 \in Nat /\ least - 1 \in P
  <2>1. least \in Nat /\ least # 0
    OBVIOUS
  <2>2. least - 1 \in Nat /\ ~(least <= least - 1)
    BY <2>1
  <2> QED
    BY <1>1, <2>2
<1>3. least - 1 + 1 \in P
  BY <1>2
<1> QED
  BY <1>3

\* A function that a start and a step define by recursion exists.
LEMMA RecursionExists ==
  ASSUME NEW S, NEW start \in S, NEW n \in Nat, NEW step \in [S \X (1 .. n) -> S]
  PROVE  HasRecursion(S, start, n, step)
<1>typed. ASSUME NEW v \in S, NEW i \in 1 .. n
      PROVE  step[<<v, i>>] \in S
  <2>1. <<v, i>> \in S \X (1 .. n)
    OBVIOUS
  <2> QED
    BY <2>1
<1> DEFINE Good(k, g) == /\ g \in [0 .. k -> S]
                         /\ g[0] = start
                         /\ \A i \in 1 .. k : g[i] = step[<<g[i - 1], i>>]
           P == {k \in Nat : k <= n => \E g : Good(k, g)}
<1>1. 0 \in P
  <2>1. Good(0, [i \in 0 .. 0 |-> start])
    OBVIOUS
  <2> HIDE DEF Good
  <2> QED
    BY <2>1
<1>2. ASSUME NEW k \in Nat, k \in P, k + 1 <= n
      PROVE  \E g : Good(k + 1, g)
  <2>1. PICK g : Good(k, g)
    BY <1>2
  <2> DEFINE h == [i \in 0 .. k + 1 |-> IF i = k + 1 THEN step[<<g[k], k + 1>>] ELSE g[i]]
  <2>2. k + 1 \in 1 .. n /\ g[k] \in S
    BY <1>2, <2>1
  <2>3. step[<<g[k], k + 1>>] \in S
    BY <2>2, <1>typed
  <2>4. \A i \in 0 .. k : h[i] = g[i] /\ g[i] \in S
    BY <2>1
  <2>5. h[k + 1] = step[<<g[k], k + 1>>]
    OBVIOUS
  <2>6. h \in [0 .. k + 1 -> S]
    BY <2>1, <2>3
  <2> HIDE DEF h
  <2>7. ASSUME NEW i \in 1 .. k + 1
        PROVE  h[i] = step[<<h[i - 1], i>>]
    <3>1. CASE i = k + 1
      BY <2>4, <2>5, <3>1
    <3>2. CASE i # k + 1
      <4>1. i \in 1 .. k /\ i - 1 \in 0 .. k /\ i \in 0 .. k
        BY <3>2
      <4>2. g[i] = step[<<g[i - 1], i>>]
        BY <2>1, <4>1
      <4>3. h[i] = g[i] /\ h[i - 1] = g[i - 1]
        BY <2>4, <4>1
      <4> QED
        BY <4>2, <4>3
    <3> QED
      BY <3>1, <3>2
  <2>8. h[0] = start
    BY <2>1, <2>4
  <2>9. Good(k + 1, h)
    BY <2>6, <2>7, <2>8
  <2> HIDE DEF Good
  <2> QED
    BY <2>9
<1> HIDE DEF Good
<1>3. \A k \in Nat : k \in P => k + 1 \in P
  BY <1>2
<1> HIDE DEF P
<1>4. n \in P
  BY <1>1, <1>3, NaturalInduction
<1>5. \E g : Good(n, g)
  BY <1>4 DEF P
<1> QED
  BY <1>5 DEF Good, HasRecursion

-----------------------------------------------------------------------------

\* The number that begins with the given one and goes on with a digit, or Refused.
NextNumber(parsed, digit, limit) ==
  IF parsed = Refused THEN Refused
  ELSE IF parsed > (limit - digit) \div 10 THEN Refused
  ELSE parsed * 10 + digit

\* The values of the prefixes of a sequence of digits.
PrefixValues(digits, value) ==
  /\ value \in [0 .. Len(digits) -> Nat]
  /\ value[0] = 0
  /\ \A i \in 1 .. Len(digits) : value[i] = 10 * value[i - 1] + digits[i]

\* Every sequence of digits has values.
LEMMA PrefixValuesExist ==
  ASSUME NEW digits \in Seq(Digit)
  PROVE  \E value : PrefixValues(digits, value)
<1> DEFINE n == Len(digits)
           step == [p \in Nat \X (1 .. n) |-> 10 * p[1] + digits[p[2]]]
<1>1. n \in Nat /\ 0 \in Nat /\ \A i \in 1 .. n : digits[i] \in 0 .. 9
  BY DEF Digit
<1>2. step \in [Nat \X (1 .. n) -> Nat]
  <2>1. \A p \in Nat \X (1 .. n) : 10 * p[1] + digits[p[2]] \in Nat
    <3> SUFFICES ASSUME NEW p \in Nat \X (1 .. n) PROVE 10 * p[1] + digits[p[2]] \in Nat
      OBVIOUS
    <3>1. p[1] \in Nat /\ p[2] \in 1 .. n
      OBVIOUS
    <3>2. digits[p[2]] \in 0 .. 9
      BY <1>1, <3>1
    <3>3. \A a \in Nat, d \in 0 .. 9 : 10 * a + d \in Nat
      OBVIOUS
    <3> QED
      BY <3>1, <3>2, <3>3
  <2> HIDE DEF n
  <2> QED
    BY <2>1
<1>3. ASSUME NEW v \in Nat, NEW i \in 1 .. n PROVE step[<<v, i>>] = 10 * v + digits[i]
  <2>1. <<v, i>> \in Nat \X (1 .. n)
    OBVIOUS
  <2> HIDE DEF n
  <2> QED
    BY <2>1
<1> HIDE DEF n, step
<1>4. HasRecursion(Nat, 0, n, step)
  BY <1>1, <1>2, RecursionExists
<1>5. PICK value \in [0 .. n -> Nat] :
        /\ value[0] = 0
        /\ \A i \in 1 .. n : value[i] = step[<<value[i - 1], i>>]
  BY <1>4 DEF HasRecursion
<1>6. ASSUME NEW i \in 1 .. n PROVE value[i] = 10 * value[i - 1] + digits[i]
  <2>1. value[i - 1] \in Nat
    BY <1>1, <1>5
  <2> QED
    BY <1>3, <1>5, <2>1
<1> QED
  BY <1>5, <1>6 DEF PrefixValues, n

\* The number that digits write is the value of all of them.
LEMMA NumberIsValue ==
  ASSUME NEW digits \in Seq(Digit), NEW value, PrefixValues(digits, value)
  PROVE  Number(digits) = value[Len(digits)]
<1> DEFINE n == Len(digits)
           Is(f) == f = [i \in 0 .. n |-> IF i = 0 THEN 0 ELSE 10 * f[i - 1] + digits[i]]
           f == CHOOSE f : Is(f)
<1>1. n \in Nat
  OBVIOUS
<1>2. Is(value)
  BY DEF PrefixValues
<1>3. Number(digits) = f[n]
  BY DEF Number
<1>4. Is(f)
  <2> HIDE DEF Is
  <2> QED
    BY <1>2
<1> HIDE DEF f
<1>5. f[0] = 0 /\ \A i \in 1 .. n : f[i] = 10 * f[i - 1] + digits[i]
  BY <1>1, <1>4
<1> DEFINE P == {k \in Nat : k <= n => f[k] = value[k]}
<1>6. 0 \in P
  BY <1>5 DEF PrefixValues
<1>7. ASSUME NEW k \in Nat, k \in P PROVE k + 1 \in P
  <2> SUFFICES ASSUME k + 1 <= n PROVE f[k + 1] = value[k + 1]
    OBVIOUS
  <2>1. k + 1 \in 1 .. n /\ f[k] = value[k] /\ k + 1 - 1 = k
    BY <1>1, <1>7
  <2> QED
    BY <1>5, <2>1 DEF PrefixValues
<1> HIDE DEF P
<1>8. n \in P
  BY <1>1, <1>6, <1>7, NaturalInduction
<1> QED
  BY <1>1, <1>3, <1>8 DEF P

\* A digit that makes a number pass the limit makes it be refused, and nothing else does.
LEMMA BoundedNumberIsNumber ==
  ASSUME NEW digits \in Seq(Digit), NEW limit \in Nat
  PROVE  BoundedNumber(digits, limit) =
           IF Number(digits) <= limit THEN Number(digits) ELSE Refused
<1> DEFINE n == Len(digits)
           Is(f) == f = [i \in 0 .. n |->
                           IF i = 0 THEN 0
                           ELSE IF f[i - 1] = Refused THEN Refused
                           ELSE IF f[i - 1] > (limit - digits[i]) \div 10 THEN Refused
                           ELSE f[i - 1] * 10 + digits[i]]
           f == CHOOSE f : Is(f)
<1>1. n \in Nat /\ \A i \in 1 .. n : digits[i] \in 0 .. 9
  BY DEF Digit
<1>2. PICK value : PrefixValues(digits, value)
  BY PrefixValuesExist
<1> DEFINE bounded == [i \in 0 .. n |-> IF value[i] <= limit THEN value[i] ELSE Refused]
<1>3. ASSUME NEW i \in 1 .. n
      PROVE  bounded[i] = NextNumber(bounded[i - 1], digits[i], limit)
  <2>index. i \in 0 .. n /\ i - 1 \in 0 .. n
    BY <1>1
  <2>1. /\ value[i - 1] \in Nat /\ value[i] = 10 * value[i - 1] + digits[i]
        /\ digits[i] \in 0 .. 9
    BY <1>1, <1>2, <2>index DEF PrefixValues
  <2>2. /\ bounded[i - 1] = IF value[i - 1] <= limit THEN value[i - 1] ELSE Refused
        /\ bounded[i] = IF value[i] <= limit THEN value[i] ELSE Refused
    BY <2>index
  <2> DEFINE before == value[i - 1]
             digit == digits[i]
  <2>3. before \in Nat /\ digit \in 0 .. 9 /\ value[i] = 10 * before + digit
    BY <2>1
  <2>4. bounded[i - 1] = (IF before <= limit THEN before ELSE Refused)
    BY <2>2
  <2> HIDE DEF bounded, n, before, digit
  <2>5. CASE before <= limit
    <3>1. before > (limit - digit) \div 10 <=> 10 * before + digit > limit
      BY <2>3
    <3>2. bounded[i - 1] = before /\ before # Refused
      BY <2>3, <2>4, <2>5 DEF Refused
    <3>3. NextNumber(before, digit, limit) = bounded[i]
      BY <2>2, <2>3, <3>1, <3>2 DEF NextNumber
    <3> QED
      BY <3>2, <3>3 DEF digit
  <2>6. CASE ~(before <= limit)
    <3>1. bounded[i - 1] = Refused /\ bounded[i] = Refused
      BY <2>2, <2>3, <2>4, <2>6
    <3> QED
      BY <3>1 DEF NextNumber
  <2> QED
    BY <2>5, <2>6
<1>4. bounded[0] = 0
  BY <1>1, <1>2 DEF PrefixValues
<1>5. Is(bounded)
  <2>1. bounded = [i \in 0 .. n |-> IF i = 0 THEN 0 ELSE NextNumber(bounded[i - 1], digits[i], limit)]
    <3> DEFINE g == [i \in 0 .. n |-> IF i = 0 THEN 0 ELSE NextNumber(bounded[i - 1], digits[i], limit)]
    <3>1. \A i \in 0 .. n : bounded[i] = g[i]
      <4> HIDE DEF bounded
      <4> QED
        BY <1>1, <1>3, <1>4
    <3>2. DOMAIN bounded = 0 .. n /\ bounded = [i \in 0 .. n |-> bounded[i]]
      OBVIOUS
    <3>3. g = [i \in 0 .. n |-> g[i]]
      OBVIOUS
    <3> HIDE DEF bounded, g
    <3>4. bounded = g
      BY <3>1, <3>2, <3>3
    <3> QED
      BY <3>4 DEF g
  <2> HIDE DEF bounded
  <2> QED
    BY <2>1 DEF NextNumber
<1>6. BoundedNumber(digits, limit) = f[n]
  BY DEF BoundedNumber
<1>7. Is(f)
  <2> HIDE DEF Is
  <2> QED
    BY <1>5
<1> HIDE DEF f
<1>8. f[0] = 0 /\ \A i \in 1 .. n : f[i] = NextNumber(f[i - 1], digits[i], limit)
  <2>1. f = [i \in 0 .. n |-> IF i = 0 THEN 0 ELSE NextNumber(f[i - 1], digits[i], limit)]
    BY <1>7 DEF NextNumber
  <2> HIDE DEF Is
  <2> QED
    BY <1>1, <2>1
<1> HIDE DEF bounded
<1> DEFINE P == {k \in Nat : k <= n => f[k] = bounded[k]}
<1>9. 0 \in P
  BY <1>4, <1>8
<1>10. ASSUME NEW k \in Nat, k \in P PROVE k + 1 \in P
  <2> SUFFICES ASSUME k + 1 <= n PROVE f[k + 1] = bounded[k + 1]
    OBVIOUS
  <2>1. k + 1 \in 1 .. n /\ f[k] = bounded[k] /\ k + 1 - 1 = k
    BY <1>1, <1>10
  <2> QED
    BY <1>3, <1>8, <2>1
<1> HIDE DEF P
<1>11. n \in P
  BY <1>1, <1>9, <1>10, NaturalInduction
<1>12. Number(digits) = value[n] /\ n \in 0 .. n
  BY <1>1, <1>2, NumberIsValue
<1>13. f[n] = bounded[n]
  BY <1>1, <1>11 DEF P
<1> QED
  BY <1>6, <1>12, <1>13 DEF bounded

\* The digits of a power of ten.
OneAndZeros(k) == [i \in 1 .. k + 1 |-> IF i = 1 THEN 1 ELSE 0]

\* A zero more at the end makes a number ten times as large.
LEMMA NumberOfOneAndZeros ==
  /\ Number(OneAndZeros(0)) = 1
  /\ \A k \in Nat : /\ Number(OneAndZeros(k)) \in Nat
                    /\ Number(OneAndZeros(k + 1)) = 10 * Number(OneAndZeros(k))
<1>1. ASSUME NEW k \in Nat
      PROVE  OneAndZeros(k) \in Seq(Digit) /\ Len(OneAndZeros(k)) = k + 1
  BY DEF OneAndZeros, Digit
<1>2. Number(OneAndZeros(0)) = 1
  <2>1. PrefixValues(OneAndZeros(0), [i \in 0 .. 1 |-> i])
    BY <1>1 DEF PrefixValues, OneAndZeros
  <2> QED
    BY <1>1, <2>1, NumberIsValue
<1>3. ASSUME NEW k \in Nat
      PROVE  /\ Number(OneAndZeros(k)) \in Nat
             /\ Number(OneAndZeros(k + 1)) = 10 * Number(OneAndZeros(k))
  <2>1. /\ OneAndZeros(k + 1) \in Seq(Digit) /\ Len(OneAndZeros(k + 1)) = k + 2
        /\ OneAndZeros(k) \in Seq(Digit) /\ Len(OneAndZeros(k)) = k + 1
    <3>1. k + 1 \in Nat /\ k + 1 + 1 = k + 2
      OBVIOUS
    <3> QED
      BY <1>1, <3>1
  <2>2. PICK value : PrefixValues(OneAndZeros(k + 1), value)
    BY <2>1, PrefixValuesExist
  <2>3. /\ value \in [0 .. k + 2 -> Nat] /\ value[0] = 0
        /\ \A i \in 1 .. k + 2 : value[i] = 10 * value[i - 1] + OneAndZeros(k + 1)[i]
    BY <2>1, <2>2 DEF PrefixValues
  <2>4. OneAndZeros(k + 1)[k + 2] = 0
    BY DEF OneAndZeros
  <2>5. value[k + 2] = 10 * value[k + 1] /\ value[k + 1] \in Nat
    <3>1. k + 2 \in 1 .. k + 2 /\ k + 2 - 1 = k + 1 /\ k + 1 \in 0 .. k + 2
      OBVIOUS
    <3> QED
      BY <2>3, <2>4, <3>1
  <2> DEFINE prefix == [i \in 0 .. k + 1 |-> value[i]]
  <2>6. PrefixValues(OneAndZeros(k), prefix)
    <3>1. \A i \in 1 .. k + 1 : OneAndZeros(k)[i] = OneAndZeros(k + 1)[i]
      BY DEF OneAndZeros
    <3>2. prefix \in [0 .. k + 1 -> Nat] /\ prefix[0] = 0
      BY <2>3
    <3>3. ASSUME NEW i \in 1 .. k + 1
          PROVE  prefix[i] = 10 * prefix[i - 1] + OneAndZeros(k)[i]
      <4>1. i \in 1 .. k + 2 /\ i \in 0 .. k + 1 /\ i - 1 \in 0 .. k + 1
        OBVIOUS
      <4>2. value[i] = 10 * value[i - 1] + OneAndZeros(k + 1)[i]
        BY <2>3, <4>1
      <4>3. prefix[i] = value[i] /\ prefix[i - 1] = value[i - 1]
        BY <4>1
      <4> QED
        BY <3>1, <4>2, <4>3
    <3> HIDE DEF prefix
    <3> QED
      BY <2>1, <3>2, <3>3 DEF PrefixValues
  <2>7. prefix[k + 1] = value[k + 1]
    OBVIOUS
  <2> HIDE DEF prefix
  <2>8. Number(OneAndZeros(k)) = value[k + 1]
    BY <2>1, <2>6, <2>7, NumberIsValue
  <2>9. Number(OneAndZeros(k + 1)) = value[k + 2]
    BY <2>1, <2>2, NumberIsValue
  <2> QED
    BY <2>5, <2>8, <2>9
<1> QED
  BY <1>2, <1>3

\* Powers of ten.
LEMMA PowerSteps ==
  /\ PowerOfTen[0] = 1
  /\ \A k \in Nat : PowerOfTen[k] \in Nat /\ PowerOfTen[k + 1] = 10 * PowerOfTen[k]
<1> DEFINE Is(f) == f = [k \in Nat |-> IF k = 0 THEN 1 ELSE 10 * f[k - 1]]
           power == [k \in Nat |-> Number(OneAndZeros(k))]
           f == CHOOSE f : Is(f)
<1>1. power[0] = 1 /\ \A k \in Nat : power[k] \in Nat /\ power[k + 1] = 10 * power[k]
  BY NumberOfOneAndZeros
<1>2. power = [k \in Nat |-> power[k]]
  OBVIOUS
<1> HIDE DEF power
<1>3. Is(power)
  <2>1. \A k \in Nat : power[k] = IF k = 0 THEN 1 ELSE 10 * power[k - 1]
    <3> SUFFICES ASSUME NEW k \in Nat, k # 0 PROVE power[k] = 10 * power[k - 1]
      BY <1>1
    <3>1. k - 1 \in Nat /\ k - 1 + 1 = k
      OBVIOUS
    <3> QED
      BY <1>1, <3>1
  <2>2. [k \in Nat |-> power[k]] = [k \in Nat |-> IF k = 0 THEN 1 ELSE 10 * power[k - 1]]
    BY <2>1
  <2> QED
    BY <1>2, <2>2
<1>4. PowerOfTen = f
  BY DEF PowerOfTen
<1>5. Is(f)
  <2> HIDE DEF Is
  <2> QED
    BY <1>3
<1> HIDE DEF f
<1>6. f[0] = 1 /\ \A k \in Nat : f[k + 1] = 10 * f[k]
  <2>1. \A k \in Nat : k + 1 \in Nat /\ k + 1 # 0 /\ k + 1 - 1 = k
    OBVIOUS
  <2> QED
    BY <1>5, <2>1
<1> DEFINE P == {k \in Nat : f[k] \in Nat}
<1>7. 0 \in P /\ \A k \in Nat : k \in P => k + 1 \in P
  BY <1>6
<1> HIDE DEF P
<1>8. \A k \in Nat : k \in P
  BY <1>7, NaturalInduction
<1> QED
  BY <1>4, <1>6, <1>8 DEF P

\* Powers of ten grow.
LEMMA PowersGrow ==
  /\ \A k \in Nat : PowerOfTen[k] > k
  /\ \A m, k \in Nat : m <= k => PowerOfTen[m] <= PowerOfTen[k]
<1> DEFINE P == {k \in Nat : PowerOfTen[k] > k}
           Q == {k \in Nat : \A m \in 0 .. k : PowerOfTen[m] <= PowerOfTen[k]}
<1>1. 0 \in P /\ 0 \in Q
  BY PowerSteps
<1>2. ASSUME NEW k \in Nat, k \in P PROVE k + 1 \in P
  BY <1>2, PowerSteps
<1>3. ASSUME NEW k \in Nat, k \in Q PROVE k + 1 \in Q
  <2> SUFFICES ASSUME NEW m \in 0 .. k + 1 PROVE PowerOfTen[m] <= PowerOfTen[k + 1]
    OBVIOUS
  <2>1. PowerOfTen[k] \in Nat /\ PowerOfTen[k + 1] = 10 * PowerOfTen[k]
    BY PowerSteps
  <2>2. CASE m = k + 1
    BY <2>1, <2>2
  <2>3. CASE m \in 0 .. k
    <3>1. PowerOfTen[m] <= PowerOfTen[k] /\ PowerOfTen[m] \in Nat
      BY <1>3, <2>3, PowerSteps
    <3> QED
      BY <2>1, <3>1
  <2> QED
    BY <2>2, <2>3
<1> HIDE DEF P, Q
<1>4. \A k \in Nat : k \in P
  BY <1>1, <1>2, NaturalInduction
<1>5. \A k \in Nat : k \in Q
  BY <1>1, <1>3, NaturalInduction
<1> QED
  BY <1>4, <1>5 DEF P, Q

\* digits10: every number of that many digits fits a size_t, and of two more none does.
LEMMA Digits10Bounds ==
  /\ Digits10 \in Nat
  /\ PowerOfTen[Digits10] <= SizeMax + 1 /\ SizeMax + 1 < PowerOfTen[Digits10 + 1]
<1> DEFINE Fits(k) == PowerOfTen[k] <= SizeMax + 1 /\ SizeMax + 1 < PowerOfTen[k + 1]
           Large == {k \in Nat : SizeMax + 1 < PowerOfTen[k]}
<1>1. SizeMax \in Nat
  BY SizeAssumption
<1>2. SizeMax + 1 \in Large
  BY <1>1, PowersGrow
<1>3. PICK least \in Large : \A k \in Large : least <= k
  BY <1>2, LeastNatural
<1>4. least \in Nat /\ least # 0 /\ least <= SizeMax + 1
  BY <1>1, <1>2, <1>3, PowerSteps
<1>5. least - 1 \in 0 .. SizeMax /\ least - 1 + 1 = least /\ ~(least <= least - 1)
  BY <1>1, <1>4
<1>6. least - 1 \notin Large
  BY <1>3, <1>5
<1>7. Fits(least - 1)
  BY <1>1, <1>3, <1>5, <1>6, PowerSteps
<1> HIDE DEF Fits
<1>8. Digits10 = CHOOSE k \in 0 .. SizeMax : Fits(k)
  BY DEF Digits10, Fits
<1>9. Digits10 \in 0 .. SizeMax /\ Fits(Digits10)
  BY <1>5, <1>7, <1>8
<1> QED
  BY <1>1, <1>9 DEF Fits

\* A number without leading zeros is at least the power of ten of its length.
LEMMA LongNumber ==
  ASSUME NEW digits \in Seq(Digit), digits # << >>, digits[1] # 0
  PROVE  Number(digits) \in Nat /\ Number(digits) >= PowerOfTen[Len(digits) - 1]
<1> DEFINE n == Len(digits)
<1>1. n \in Nat /\ n >= 1 /\ \A i \in 1 .. n : digits[i] \in 0 .. 9
  BY DEF Digit
<1>2. PICK value : PrefixValues(digits, value)
  BY PrefixValuesExist
<1>3. /\ value \in [0 .. n -> Nat] /\ value[0] = 0
      /\ \A i \in 1 .. n : value[i] = 10 * value[i - 1] + digits[i]
  BY <1>2 DEF PrefixValues
<1>4. Number(digits) = value[n]
  BY <1>2, NumberIsValue
<1> HIDE DEF n
<1> DEFINE P == {k \in Nat : k + 1 <= n => value[k + 1] >= PowerOfTen[k]}
<1>5. 0 \in P
  <2>1. 1 \in 1 .. n /\ 1 - 1 = 0
    BY <1>1
  <2>2. value[1] = 10 * value[0] + digits[1]
    BY <1>3, <2>1
  <2>3. digits[1] \in 0 .. 9 /\ digits[1] # 0
    BY <1>1, <2>1
  <2>4. value[1] >= 1
    BY <1>3, <2>2, <2>3
  <2>5. value[0 + 1] >= PowerOfTen[0]
    BY <2>4, PowerSteps
  <2> QED
    BY <2>5
<1>6. ASSUME NEW k \in Nat, k \in P PROVE k + 1 \in P
  <2> SUFFICES ASSUME k + 1 + 1 <= n PROVE value[k + 1 + 1] >= PowerOfTen[k + 1]
    OBVIOUS
  <2>1. k + 1 + 1 \in 1 .. n /\ k + 1 + 1 - 1 = k + 1 /\ k + 1 \in 0 .. n
    BY <1>1
  <2>2. value[k + 1 + 1] = 10 * value[k + 1] + digits[k + 1 + 1] /\ value[k + 1] \in Nat
    BY <1>3, <2>1
  <2>3. value[k + 1] >= PowerOfTen[k]
    BY <1>1, <1>6
  <2>4. digits[k + 1 + 1] \in 0 .. 9
    BY <1>1, <2>1
  <2>5. PowerOfTen[k] \in Nat /\ PowerOfTen[k + 1] = 10 * PowerOfTen[k]
    BY PowerSteps
  <2> DEFINE a == value[k + 1]
             b == PowerOfTen[k]
             d == digits[k + 1 + 1]
  <2>6. a \in Nat /\ b \in Nat /\ d \in 0 .. 9 /\ a >= b
    BY <2>2, <2>3, <2>4, <2>5
  <2>7. value[k + 1 + 1] = 10 * a + d /\ PowerOfTen[k + 1] = 10 * b
    BY <2>2, <2>5
  <2> HIDE DEF a, b, d
  <2> QED
    BY <2>6, <2>7
<1> HIDE DEF P
<1>7. \A k \in Nat : k \in P
  BY <1>5, <1>6, NaturalInduction
<1>8. n - 1 \in Nat /\ n - 1 + 1 = n /\ n \in 0 .. n
  BY <1>1
<1>9. value[n] >= PowerOfTen[n - 1] /\ value[n] \in Nat
  BY <1>1, <1>3, <1>7, <1>8 DEF P
<1> QED
  BY <1>4, <1>9 DEF n

\* A number is the tenth of another that is ten times as large.
LEMMA TenthOfProduct ==
  ASSUME NEW number \in Int
  PROVE  /\ Tenth(number) \in Int
         /\ \A m \in Nat : Tenth(number) = m <=> number = 10 * m
BY DEF Tenth, Refused

\* Divided numbers are those of any list of quotients.
LEMMA QuotientsAreDivided ==
  ASSUME NEW number \in Int, NEW times \in Nat, NEW g \in [0 .. times -> Int],
         g[0] = number, \A i \in 1 .. times : g[i] = Tenth(g[i - 1])
  PROVE  DividedByTens(number, times) = g[times]
<1> DEFINE Is(f) == f = [i \in 0 .. times |-> IF i = 0 THEN number ELSE Tenth(f[i - 1])]
           f == CHOOSE f : Is(f)
<1>1. DividedByTens(number, times) = f[times]
  BY DEF DividedByTens
<1>2. Is(g)
  <2>1. [i \in 0 .. times |-> g[i]] = [i \in 0 .. times |-> IF i = 0 THEN number ELSE Tenth(g[i - 1])]
    OBVIOUS
  <2>2. g = [i \in 0 .. times |-> g[i]]
    OBVIOUS
  <2> QED
    BY <2>1, <2>2
<1>3. Is(f)
  <2> HIDE DEF Is
  <2> QED
    BY <1>2
<1> HIDE DEF f
<1>4. f[0] = number /\ \A i \in 1 .. times : f[i] = Tenth(f[i - 1])
  BY <1>3
<1> DEFINE P == {k \in Nat : k <= times => f[k] = g[k]}
<1>5. 0 \in P
  BY <1>4
<1>6. ASSUME NEW k \in Nat, k \in P PROVE k + 1 \in P
  <2> SUFFICES ASSUME k + 1 <= times PROVE f[k + 1] = g[k + 1]
    OBVIOUS
  <2>1. k + 1 \in 1 .. times /\ f[k] = g[k] /\ k + 1 - 1 = k
    BY <1>6
  <2> QED
    BY <1>4, <2>1
<1> HIDE DEF P
<1>7. times \in P
  BY <1>5, <1>6, NaturalInduction
<1> QED
  BY <1>1, <1>7 DEF P

\* Dividing once more takes the tenth.
LEMMA DividedSteps ==
  ASSUME NEW number \in Int, NEW times \in Nat
  PROVE  /\ DividedByTens(number, 0) = number
         /\ DividedByTens(number, times) \in Int
         /\ DividedByTens(number, times + 1) = Tenth(DividedByTens(number, times))
<1> DEFINE n == times + 1
           step == [p \in Int \X (1 .. n) |-> Tenth(p[1])]
<1>1. n \in Nat
  OBVIOUS
<1>2. step \in [Int \X (1 .. n) -> Int]
  <2>1. \A p \in Int \X (1 .. n) : Tenth(p[1]) \in Int
    BY TenthOfProduct
  <2> HIDE DEF n
  <2> QED
    BY <2>1
<1>3. ASSUME NEW v \in Int, NEW i \in 1 .. n PROVE step[<<v, i>>] = Tenth(v)
  <2>1. <<v, i>> \in Int \X (1 .. n)
    OBVIOUS
  <2> HIDE DEF n
  <2> QED
    BY <2>1
<1> HIDE DEF step
<1>4. HasRecursion(Int, number, n, step)
  <2> HIDE DEF n
  <2> QED
    BY <1>1, <1>2, RecursionExists
<1>5. PICK g \in [0 .. n -> Int] : g[0] = number /\ \A i \in 1 .. n : g[i] = step[<<g[i - 1], i>>]
  BY <1>4 DEF HasRecursion
<1>6. ASSUME NEW i \in 1 .. n PROVE g[i] = Tenth(g[i - 1])
  <2>1. g[i - 1] \in Int
    BY <1>1, <1>5
  <2> QED
    BY <1>3, <1>5, <2>1
<1>7. ASSUME NEW k \in 0 .. n PROVE DividedByTens(number, k) = g[k]
  <2> DEFINE h == [i \in 0 .. k |-> g[i]]
  <2>1. h \in [0 .. k -> Int] /\ h[0] = number /\ k \in Nat
    BY <1>5
  <2>2. ASSUME NEW i \in 1 .. k PROVE h[i] = Tenth(h[i - 1])
    <3>1. i \in 1 .. n /\ h[i] = g[i] /\ h[i - 1] = g[i - 1]
      BY <1>1
    <3> QED
      BY <1>6, <3>1
  <2>3. h[k] = g[k]
    BY <2>1
  <2> HIDE DEF h, n
  <2> QED
    BY <2>1, <2>2, <2>3, QuotientsAreDivided
<1>8. /\ 0 \in 0 .. n /\ times \in 0 .. n /\ times + 1 \in 0 .. n
      /\ times + 1 \in 1 .. n /\ times + 1 - 1 = times
  OBVIOUS
<1> QED
  BY <1>5, <1>6, <1>7, <1>8

\* What remains without remainder is the factor of the power of ten.
LEMMA DividedIsFactor ==
  ASSUME NEW n \in Nat, NEW m \in Nat, NEW k \in Nat
  PROVE  DividedByTens(n, k) = m <=> n = m * PowerOfTen[k]
<1> DEFINE P == {j \in Nat : \A a, b \in Nat : DividedByTens(a, j) = b <=> a = b * PowerOfTen[j]}
<1>1. 0 \in P
  <2> SUFFICES ASSUME NEW a \in Nat, NEW b \in Nat
               PROVE  DividedByTens(a, 0) = b <=> a = b * PowerOfTen[0]
    OBVIOUS
  <2>1. DividedByTens(a, 0) = a /\ PowerOfTen[0] = 1
    BY DividedSteps, PowerSteps
  <2> QED
    BY <2>1
<1>2. ASSUME NEW j \in Nat, j \in P PROVE j + 1 \in P
  <2> SUFFICES ASSUME NEW a \in Nat, NEW b \in Nat
               PROVE  DividedByTens(a, j + 1) = b <=> a = b * PowerOfTen[j + 1]
    OBVIOUS
  <2>1. DividedByTens(a, j + 1) = Tenth(DividedByTens(a, j)) /\ DividedByTens(a, j) \in Int
    BY DividedSteps
  <2>2. DividedByTens(a, j + 1) = b <=> DividedByTens(a, j) = 10 * b
    BY <2>1, TenthOfProduct
  <2>3. DividedByTens(a, j) = 10 * b <=> a = (10 * b) * PowerOfTen[j]
    <3>1. 10 * b \in Nat
      OBVIOUS
    <3> QED
      BY <1>2, <3>1
  <2>4. (10 * b) * PowerOfTen[j] = b * PowerOfTen[j + 1]
    <3>1. PowerOfTen[j] \in Nat /\ PowerOfTen[j + 1] = 10 * PowerOfTen[j]
      BY PowerSteps
    <3> DEFINE p == PowerOfTen[j]
    <3>2. p \in Nat /\ PowerOfTen[j + 1] = 10 * p
      BY <3>1
    <3> HIDE DEF p
    <3>3. (10 * b) * p = b * (10 * p)
      BY <3>2
    <3> QED
      BY <3>2, <3>3 DEF p
  <2> QED
    BY <2>2, <2>3, <2>4
<1> HIDE DEF P
<1>3. k \in P
  BY <1>1, <1>2, NaturalInduction
<1> QED
  BY <1>3 DEF P

\* Dividing the number of a sequence of digits takes zeros off its end.
LEMMA DividedNumber ==
  ASSUME NEW digits \in Seq(Digit), NEW value, PrefixValues(digits, value),
         NEW i \in 0 .. Len(digits)
  PROVE  DividedByTens(Number(digits), i) =
           IF \A j \in Len(digits) - i + 1 .. Len(digits) : digits[j] = 0
             THEN value[Len(digits) - i] ELSE Refused
<1> DEFINE n == Len(digits)
           Zeros(k) == \A j \in n - k + 1 .. n : digits[j] = 0
           Claim(k) == DividedByTens(Number(digits), k) = IF Zeros(k) THEN value[n - k] ELSE Refused
           P == {k \in Nat : k <= n => Claim(k)}
<1>1. n \in Nat /\ \A j \in 1 .. n : digits[j] \in 0 .. 9
  BY DEF Digit
<1>2. /\ value \in [0 .. n -> Nat]
      /\ \A j \in 1 .. n : value[j] = 10 * value[j - 1] + digits[j]
  BY DEF PrefixValues
<1>3. Number(digits) = value[n] /\ value[n] \in Nat
  BY <1>1, <1>2, NumberIsValue
<1>steps. ASSUME NEW number \in Nat, NEW times \in Nat
          PROVE  /\ DividedByTens(number, 0) = number
                 /\ DividedByTens(number, times + 1) = Tenth(DividedByTens(number, times))
  <2>1. number \in Int
    OBVIOUS
  <2> QED
    BY <2>1, DividedSteps
<1> HIDE DEF n
<1>4. 0 \in P
  <2>1. DividedByTens(Number(digits), 0) = value[n] /\ n - 0 = n
    <3>1. DividedByTens(value[n], 0) = value[n]
      BY <1>3, <1>steps
    <3> QED
      BY <1>1, <1>3, <3>1
  <2>2. Zeros(0)
    BY <1>1
  <2> QED
    BY <2>1, <2>2
<1>5. ASSUME NEW k \in Nat, k \in P PROVE k + 1 \in P
  <2> SUFFICES ASSUME k + 1 <= n PROVE Claim(k + 1)
    OBVIOUS
  <2>1. Claim(k)
    BY <1>1, <1>5
  <2>2. DividedByTens(Number(digits), k + 1) = Tenth(DividedByTens(Number(digits), k))
    BY <1>3, <1>steps
  <2>3. n - k \in 1 .. n /\ n - k - 1 = n - (k + 1) /\ n - k - 1 \in 0 .. n
    BY <1>1
  <2>4. Zeros(k + 1) <=> Zeros(k) /\ digits[n - k] = 0
    <3>1. n - (k + 1) + 1 .. n = (n - k + 1 .. n) \cup {n - k}
      BY <1>1
    <3> QED
      BY <3>1
  <2>5. CASE Zeros(k)
    <3> DEFINE v == value[n - k - 1]
               d == digits[n - k]
    <3>1. v \in Nat /\ d \in 0 .. 9 /\ value[n - k] = 10 * v + d
      BY <1>1, <1>2, <2>3
    <3> HIDE DEF v, d
    <3>2. Tenth(value[n - k]) = IF d = 0 THEN v ELSE Refused
      BY <3>1 DEF Tenth
    <3>3. DividedByTens(Number(digits), k + 1) = IF d = 0 THEN v ELSE Refused
      BY <2>1, <2>2, <2>5, <3>2
    <3> HIDE DEF Zeros
    <3> QED
      BY <2>3, <2>4, <2>5, <3>3 DEF v, d
  <2>6. CASE ~Zeros(k)
    <3>1. Tenth(Refused) = Refused
      BY DEF Tenth, Refused
    <3> HIDE DEF Zeros
    <3> QED
      BY <2>1, <2>2, <2>4, <2>6, <3>1
  <2> QED
    BY <2>5, <2>6
<1> HIDE DEF P
<1>6. i \in P
  <2>1. i \in Nat
    OBVIOUS
  <2> QED
    BY <1>4, <1>5, <2>1, NaturalInduction
<1> QED
  BY <1>1, <1>6 DEF P, n

\* The number of the first m digits is the value of that prefix.
LEMMA NumberOfPrefix ==
  ASSUME NEW digits \in Seq(Digit), NEW value, PrefixValues(digits, value),
         NEW prefix \in Seq(Digit), Len(prefix) <= Len(digits),
         \A i \in 1 .. Len(prefix) : prefix[i] = digits[i]
  PROVE  Number(prefix) = value[Len(prefix)]
<1> DEFINE m == Len(prefix)
           n == Len(digits)
           short == [i \in 0 .. m |-> value[i]]
<1>1. m \in Nat /\ n \in Nat /\ m <= n
  OBVIOUS
<1>2. /\ value \in [0 .. n -> Nat] /\ value[0] = 0
      /\ \A i \in 1 .. n : value[i] = 10 * value[i - 1] + digits[i]
  BY DEF PrefixValues
<1>3. short \in [0 .. m -> Nat] /\ short[0] = 0 /\ short[m] = value[m]
  BY <1>1, <1>2
<1>4. ASSUME NEW i \in 1 .. m PROVE short[i] = 10 * short[i - 1] + prefix[i]
  <2>1. i \in 1 .. n /\ short[i] = value[i] /\ short[i - 1] = value[i - 1]
    BY <1>1
  <2> QED
    BY <1>2, <2>1
<1> HIDE DEF short
<1>5. PrefixValues(prefix, short)
  BY <1>3, <1>4 DEF PrefixValues
<1> QED
  BY <1>3, <1>5, NumberIsValue

\* The size is the mantissa times ten to the power of the shift.
IsExact(size, mantissa, shift) ==
  IF shift >= 0 THEN DividedByTens(size, shift) = mantissa
                ELSE DividedByTens(mantissa, 0 - shift) = size

\* Digits without leading zeros write at least one.
LEMMA NonzeroNumber ==
  ASSUME NEW digits \in Seq(Digit), digits # << >>, digits[1] # 0
  PROVE  Number(digits) \in Nat /\ Number(digits) >= 1
<1>1. Len(digits) - 1 \in Nat
  OBVIOUS
<1>2. PowerOfTen[Len(digits) - 1] \in Nat /\ PowerOfTen[Len(digits) - 1] >= 1
  <2>1. ASSUME NEW k \in Nat PROVE PowerOfTen[k] \in Nat /\ PowerOfTen[k] >= 1
    <3>1. PowerOfTen[k] \in Nat /\ PowerOfTen[k] > k
      BY PowerSteps, PowersGrow
    <3> QED
      BY <3>1
  <2> QED
    BY <1>1, <2>1
<1> QED
  BY <1>2, LongNumber

\* More digits than digits10 + 1 write no size.
LEMMA TooLong ==
  ASSUME NEW digits \in Seq(Digit), Len(digits) > Digits10 + 1, digits[1] # 0
  PROVE  Number(digits) \in Nat /\ Number(digits) > SizeMax
<1>1. digits # << >> /\ Len(digits) - 1 \in Nat /\ Digits10 + 1 \in Nat /\ Digits10 + 1 <= Len(digits) - 1
  BY Digits10Bounds
<1>2. PowerOfTen[Digits10 + 1] <= PowerOfTen[Len(digits) - 1]
  BY <1>1, PowersGrow
<1>3. PowerOfTen[Digits10 + 1] \in Nat /\ PowerOfTen[Len(digits) - 1] \in Nat
  BY <1>1, PowerSteps
<1>4. Number(digits) \in Nat /\ Number(digits) >= PowerOfTen[Len(digits) - 1]
  BY <1>1, LongNumber
<1> QED
  BY <1>2, <1>3, <1>4, Digits10Bounds, SizeAssumption

\* Digits taken off the end: all of them, or those of the quotient are left.
LEMMA Shortened ==
  ASSUME NEW digits \in Seq(Digit), digits # << >>, digits[1] # 0, NEW r \in Nat
  PROVE  /\ r >= Len(digits) => DividedByTens(Number(digits), r) = Refused
         /\ r < Len(digits) =>
              LET kept == SubSeq(digits, 1, Len(digits) - r)
              IN  /\ kept \in Seq(Digit) /\ Len(kept) = Len(digits) - r /\ kept[1] # 0
                  /\ DividedByTens(Number(digits), r) =
                       IF \A j \in Len(digits) - r + 1 .. Len(digits) : digits[j] = 0
                         THEN Number(kept) ELSE Refused
<1> DEFINE n == Len(digits)
           M == Number(digits)
<1>1. n \in Nat /\ n >= 1
  OBVIOUS
<1>2. M \in Nat
  BY NonzeroNumber
<1>3. PICK value : PrefixValues(digits, value)
  BY PrefixValuesExist
<1>4. ASSUME r >= n PROVE DividedByTens(M, r) = Refused
  <2> DEFINE P == {k \in Nat : DividedByTens(M, n + k) = Refused}
  <2>1. 0 \in P
    <3>1. n \in 0 .. n /\ 1 \in n - n + 1 .. n /\ n + 0 = n
      BY <1>1
    <3>2. DividedByTens(M, n) = Refused
      BY <1>3, <3>1, DividedNumber
    <3> QED
      BY <3>1, <3>2
  <2>2. ASSUME NEW k \in Nat, k \in P PROVE k + 1 \in P
    <3>1. M \in Int /\ n + k \in Nat /\ n + (k + 1) = n + k + 1
      BY <1>1, <1>2
    <3>2. DividedByTens(M, n + k + 1) = Tenth(DividedByTens(M, n + k))
      <4> HIDE DEF n, M
      <4> QED
        BY <3>1, DividedSteps
    <3>3. Tenth(Refused) = Refused
      BY DEF Tenth, Refused
    <3> QED
      BY <2>2, <3>1, <3>2, <3>3
  <2> HIDE DEF P, n, M
  <2>3. r - n \in Nat /\ n + (r - n) = r
    BY <1>1, <1>4
  <2>4. r - n \in P
    BY <2>1, <2>2, <2>3, NaturalInduction
  <2> QED
    BY <2>3, <2>4 DEF P
<1>5. ASSUME r < n
      PROVE  LET kept == SubSeq(digits, 1, n - r)
             IN  /\ kept \in Seq(Digit) /\ Len(kept) = n - r /\ kept[1] # 0
                 /\ DividedByTens(M, r) =
                      IF \A j \in n - r + 1 .. n : digits[j] = 0 THEN Number(kept) ELSE Refused
  <2> DEFINE kept == SubSeq(digits, 1, n - r)
  <2>1. r \in 0 .. n /\ n - r \in Nat /\ n - r >= 1 /\ n - r <= n
    BY <1>1, <1>5
  <2>2. /\ kept \in Seq(Digit) /\ Len(kept) = n - r
        /\ \A i \in 1 .. n - r : kept[i] = digits[i]
    BY <2>1
  <2>3. kept[1] # 0
    BY <2>1, <2>2
  <2> HIDE DEF kept
  <2>4. Number(kept) = value[n - r]
    BY <1>3, <2>1, <2>2, NumberOfPrefix
  <2>5. DividedByTens(M, r) = IF \A j \in n - r + 1 .. n : digits[j] = 0 THEN value[n - r] ELSE Refused
    BY <1>3, <2>1, DividedNumber
  <2>6. DividedByTens(M, r) = IF \A j \in n - r + 1 .. n : digits[j] = 0 THEN Number(kept) ELSE Refused
    BY <2>4, <2>5
  <2> HIDE DEF n, M
  <2> QED
    BY <2>2, <2>3, <2>6 DEF kept
<1> QED
  BY <1>4, <1>5

\* Zeros appended: the only number of which the digits are the quotient.
LEMMA Lengthened ==
  ASSUME NEW digits \in Seq(Digit), digits # << >>, digits[1] # 0, NEW a \in Nat
  PROVE  LET long == digits \o [i \in 1 .. a |-> 0]
         IN  /\ long \in Seq(Digit) /\ Len(long) = Len(digits) + a /\ long[1] # 0
             /\ \A size \in Nat : DividedByTens(size, a) = Number(digits) <=> size = Number(long)
<1> DEFINE n == Len(digits)
           zeros == [i \in 1 .. a |-> 0]
           long == digits \o zeros
<1>1. n \in Nat /\ n >= 1
  OBVIOUS
<1>2. zeros \in Seq(Digit) /\ Len(zeros) = a
  BY DEF Digit
<1>3. \A i \in 1 .. a : zeros[i] = 0
  OBVIOUS
<1> HIDE DEF zeros
<1>4. /\ long \in Seq(Digit) /\ Len(long) = n + a
      /\ \A i \in 1 .. n : long[i] = digits[i]
      /\ \A i \in n + 1 .. n + a : long[i] = 0
  <2>1. /\ long \in Seq(Digit) /\ Len(long) = n + a
        /\ \A i \in 1 .. n + a : long[i] = IF i <= n THEN digits[i] ELSE zeros[i - n]
    BY <1>1, <1>2
  <2>2. \A i \in n + 1 .. n + a : i \in 1 .. n + a /\ ~(i <= n) /\ i - n \in 1 .. a
    BY <1>1
  <2>3. \A i \in 1 .. n : i \in 1 .. n + a /\ i <= n
    BY <1>1
  <2> HIDE DEF long, n
  <2> QED
    BY <1>3, <2>1, <2>2, <2>3
<1>5. long[1] # 0 /\ long # << >>
  BY <1>1, <1>4
<1> HIDE DEF long
<1>6. PICK value : PrefixValues(long, value)
  BY <1>4, PrefixValuesExist
<1>7. Number(digits) = value[n]
  BY <1>1, <1>4, <1>6, NumberOfPrefix
<1>8. DividedByTens(Number(long), a) = Number(digits)
  <2>1. a \in 0 .. Len(long) /\ Len(long) - a = n /\ Len(long) - a + 1 .. Len(long) = n + 1 .. n + a
    BY <1>1, <1>4
  <2>2. DividedByTens(Number(long), a) =
          IF \A j \in Len(long) - a + 1 .. Len(long) : long[j] = 0 THEN value[Len(long) - a] ELSE Refused
    BY <1>4, <1>6, <2>1, DividedNumber
  <2> QED
    BY <1>4, <1>7, <2>1, <2>2
<1>9. Number(long) \in Nat /\ Number(digits) \in Nat
  BY <1>4, <1>5, NonzeroNumber
<1>10. ASSUME NEW size \in Nat
       PROVE  DividedByTens(size, a) = Number(digits) <=> size = Number(long)
  <2> DEFINE product == Number(digits) * PowerOfTen[a]
  <2>1. DividedByTens(size, a) = Number(digits) <=> size = product
    BY <1>9, DividedIsFactor
  <2>2. Number(long) = product
    BY <1>8, <1>9, DividedIsFactor
  <2> QED
    BY <2>1, <2>2
<1> HIDE DEF n
<1> QED
  BY <1>4, <1>5, <1>10 DEF long, zeros, n

\* Moving the point keeps exactly the sizes: nothing is left when no size is equal.
LEMMA ShiftedIsExact ==
  ASSUME NEW digits \in Seq(Digit), digits # << >>, digits[1] # 0,
         NEW fractional_digits \in Nat, NEW token \in Token, NEW exponent \in Nat,
         NEW shifted,
         shifted = ShiftedDigits(digits, fractional_digits, token.exponent_negative, exponent),
         NEW shift, shift = (IF token.exponent_negative THEN 0 - exponent ELSE exponent) - fractional_digits
  PROVE  /\ shifted \in Seq(Digit)
         /\ \A size \in Size :
              IsExact(size, Number(digits), shift) <=> shifted # << >> /\ size = Number(shifted)
<1> DEFINE negative == token.exponent_negative
           n == Len(digits)
           M == Number(digits)
           remove == IF negative THEN fractional_digits + exponent
                     ELSE IF exponent < fractional_digits THEN fractional_digits - exponent
                     ELSE 0
           append == IF ~negative /\ exponent >= fractional_digits
                       THEN exponent - fractional_digits ELSE 0
           kept == SubSeq(digits, 1, n - remove)
           zeros == [i \in 1 .. append |-> 0]
           lost == negative /\ ( \/ exponent > n \/ fractional_digits > n - exponent )
           nonzero == \E i \in Len(kept) + 1 .. n : digits[i] # 0
<1>1. shifted = IF \/ lost \/ remove >= n \/ nonzero
                   \/ append > Digits10 + 1 \/ Len(kept) + append > Digits10 + 1
                  THEN << >> ELSE kept \o zeros
  BY DEF ShiftedDigits
<1>2. n \in Nat /\ n >= 1 /\ M \in Nat
  BY NonzeroNumber
<1>3. Size \subseteq Nat /\ Refused \notin Size /\ \A size \in Size : size <= SizeMax
  BY SizeAssumption DEF Size, Refused
<1>4. CASE negative \/ exponent < fractional_digits
  <2>1. remove \in Nat /\ append = 0 /\ shift = 0 - remove /\ (lost => remove >= n)
    BY <1>2, <1>4
  <2>2. zeros = << >>
    BY <2>1
  <2>3. ASSUME NEW size \in Size
        PROVE  IsExact(size, M, shift) <=> DividedByTens(M, remove) = size
    <3>1. CASE remove = 0
      <4>1. shift = 0 /\ 0 >= 0
        BY <2>1, <3>1
      <4>2. DividedByTens(size, 0) = size /\ DividedByTens(M, 0) = M
        <5>1. size \in Int /\ M \in Int /\ 0 \in Nat
          BY <1>2, <1>3
        <5> HIDE DEF M
        <5> QED
          BY <5>1, DividedSteps
      <4> HIDE DEF M, remove
      <4> QED
        BY <3>1, <4>1, <4>2 DEF IsExact
    <3>2. CASE remove # 0
      <4>1. ~(shift >= 0) /\ 0 - shift = remove
        BY <2>1, <3>2
      <4> HIDE DEF M, remove
      <4> QED
        BY <4>1 DEF IsExact
    <3> QED
      BY <3>1, <3>2
  <2> HIDE DEF M, remove, append, zeros, lost
  <2>4. CASE remove >= n
    <3>1. shifted = << >>
      BY <1>1, <2>4
    <3>2. DividedByTens(M, remove) = Refused
      BY <2>1, <2>4, Shortened DEF M
    <3>3. shifted \in Seq(Digit)
      BY <3>1
    <3>4. \A size \in Size : IsExact(size, M, shift) <=> shifted # << >> /\ size = Number(shifted)
      BY <1>3, <2>3, <3>1, <3>2
    <3> QED
      BY <3>3, <3>4 DEF M
  <2>5. CASE remove < n
    <3>1. /\ kept \in Seq(Digit) /\ Len(kept) = n - remove /\ kept[1] # 0
          /\ DividedByTens(M, remove) =
               IF \A j \in n - remove + 1 .. n : digits[j] = 0 THEN Number(kept) ELSE Refused
      BY <2>1, <2>5, Shortened DEF M
    <3>2. ~lost /\ ~(remove >= n) /\ ~(append > Digits10 + 1) /\ Len(kept) + append = Len(kept)
      BY <1>2, <2>1, <2>5, <3>1, Digits10Bounds
    <3>3. nonzero <=> ~ \A j \in n - remove + 1 .. n : digits[j] = 0
      BY <3>1
    <3>4. kept # << >> /\ kept \o zeros = kept
      <4>1. n - remove >= 1 /\ Len(<< >>) = 0
        BY <1>2, <2>1, <2>5
      <4> HIDE DEF kept
      <4> QED
        BY <2>2, <3>1, <4>1
    <3> HIDE DEF kept, nonzero
    <3>5. shifted = IF nonzero \/ Len(kept) > Digits10 + 1 THEN << >> ELSE kept
      BY <1>1, <3>2, <3>4
    <3>6. Len(kept) > Digits10 + 1 => Number(kept) \notin Size
      <4> SUFFICES ASSUME Len(kept) > Digits10 + 1 PROVE Number(kept) \notin Size
        OBVIOUS
      <4>1. Number(kept) \in Nat /\ Number(kept) > SizeMax
        BY <3>1, TooLong
      <4> QED
        BY <1>3, <4>1, SizeAssumption
    <3>7. shifted \in Seq(Digit)
      BY <3>1, <3>5
    <3>8. \A size \in Size : IsExact(size, M, shift) <=> shifted # << >> /\ size = Number(shifted)
      BY <1>3, <2>3, <3>1, <3>3, <3>4, <3>5, <3>6
    <3> QED
      BY <3>7, <3>8 DEF M
  <2> QED
    BY <1>2, <2>1, <2>4, <2>5
<1>5. CASE ~negative /\ exponent >= fractional_digits
  <2>1. /\ remove = 0 /\ append \in Nat /\ shift = append /\ ~lost /\ shift >= 0
        /\ append = exponent - fractional_digits
    BY <1>5
  <2>2. kept = digits /\ Len(kept) = n /\ ~nonzero /\ ~(remove >= n)
    <3>1. n - remove = n
      BY <1>2, <2>1
    <3>2. SubSeq(digits, 1, Len(digits)) = digits
      OBVIOUS
    <3>3. kept = digits
      BY <3>1, <3>2
    <3> HIDE DEF kept
    <3> QED
      BY <1>2, <2>1, <3>3
  <2> HIDE DEF M, remove, append, lost, nonzero, kept
  <2> DEFINE long == digits \o zeros
  <2>3. /\ long \in Seq(Digit) /\ Len(long) = n + append /\ long[1] # 0
        /\ \A size \in Nat : DividedByTens(size, append) = M <=> size = Number(long)
    BY <2>1, Lengthened DEF M
  <2>4. shifted = IF append > Digits10 + 1 \/ n + append > Digits10 + 1 THEN << >> ELSE long
    BY <1>1, <2>1, <2>2
  <2>5. append > Digits10 + 1 \/ n + append > Digits10 + 1 <=> Len(long) > Digits10 + 1
    BY <1>2, <2>1, <2>3, Digits10Bounds
  <2>6. Len(long) > Digits10 + 1 => Number(long) \notin Size
    <3> SUFFICES ASSUME Len(long) > Digits10 + 1 PROVE Number(long) \notin Size
      OBVIOUS
    <3>1. Number(long) \in Nat /\ Number(long) > SizeMax
      BY <2>3, TooLong
    <3> QED
      BY <1>3, <3>1, SizeAssumption
  <2>7. long # << >>
    <3>1. n + append >= 1 /\ Len(<< >>) = 0
      BY <1>2, <2>1
    <3> HIDE DEF long
    <3> QED
      BY <2>3, <3>1
  <2> HIDE DEF long
  <2>8. shifted \in Seq(Digit)
    BY <2>3, <2>4
  <2>9. ASSUME NEW size \in Size
        PROVE  IsExact(size, M, shift) <=> shifted # << >> /\ size = Number(shifted)
    <3>1. IsExact(size, M, shift) <=> DividedByTens(size, append) = M
      BY <2>1 DEF IsExact
    <3>2. IsExact(size, M, shift) <=> size = Number(long)
      BY <1>3, <2>3, <3>1
    <3> QED
      BY <2>4, <2>5, <2>6, <2>7, <3>2
  <2> QED
    BY <2>8, <2>9 DEF M
<1> QED
  BY <1>4, <1>5

\* An exponent beyond the limit of the loop leaves no size either way.
LEMMA HugeExponent ==
  ASSUME NEW digits \in Seq(Digit), digits # << >>, digits[1] # 0, Len(digits) <= TextSize,
         NEW fractional_digits \in 0 .. TextSize, NEW negative \in BOOLEAN,
         NEW exponent \in Nat, exponent > ExponentLimit, NEW size \in Size
  PROVE  ~IsExact(size, Number(digits),
                  (IF negative THEN 0 - exponent ELSE exponent) - fractional_digits)
<1> DEFINE n == Len(digits)
           M == Number(digits)
           shift == (IF negative THEN 0 - exponent ELSE exponent) - fractional_digits
<1>1. n \in Nat /\ n >= 1 /\ n <= TextSize /\ M \in Nat
  BY NonzeroNumber
<1>2. /\ TextSize \in Nat /\ Digits10 \in Nat
      /\ exponent > TextSize + Digits10 + 1
      /\ fractional_digits \in Nat /\ fractional_digits <= TextSize
  BY TextAssumption, Digits10Bounds DEF ExponentLimit
<1>3. size \in Nat /\ size <= SizeMax /\ size # Refused /\ SizeMax \in Nat
  BY SizeAssumption DEF Size, Refused
<1>4. CASE negative
  <2> DEFINE r == exponent + fractional_digits
  <2>1. ~(shift >= 0) /\ 0 - shift = r /\ r \in Nat /\ r >= n
    BY <1>1, <1>2, <1>4
  <2> HIDE DEF shift, r
  <2>2. DividedByTens(M, r) = Refused
    BY <2>1, Shortened
  <2> HIDE DEF M
  <2> QED
    BY <1>3, <2>1, <2>2 DEF IsExact, shift, M
<1>5. CASE ~negative
  <2> DEFINE a == exponent - fractional_digits
             long == digits \o [i \in 1 .. a |-> 0]
  <2>1. shift >= 0 /\ shift = a /\ a \in Nat /\ n + a > Digits10 + 1
    BY <1>1, <1>2, <1>5
  <2> HIDE DEF shift, a
  <2>2. /\ long \in Seq(Digit) /\ Len(long) = n + a /\ long[1] # 0
        /\ \A s \in Nat : DividedByTens(s, a) = M <=> s = Number(long)
    BY <2>1, Lengthened
  <2> HIDE DEF long, M, n
  <2>3. Number(long) \in Nat /\ Number(long) > SizeMax
    BY <2>1, <2>2, TooLong
  <2>4. DividedByTens(size, a) # M
    BY <1>3, <2>2, <2>3
  <2> QED
    BY <2>1, <2>4 DEF IsExact, shift, M
<1> QED
  BY <1>4, <1>5

\* The digits before the first that is not zero are zeros and change no value.
LEMMA LeadingZeros ==
  ASSUME NEW digits \in Seq(Digit)
  PROVE  LET first == Significant(digits)
             rest == SubSeq(digits, first, Len(digits))
         IN  /\ first \in 0 .. Len(digits)
             /\ first = 0 => Number(digits) = 0
             /\ first # 0 => /\ rest \in Seq(Digit) /\ rest # << >> /\ rest[1] # 0
                             /\ Len(rest) <= Len(digits)
                             /\ Number(rest) = Number(digits)
<1> DEFINE n == Len(digits)
           I == {i \in 1 .. n : digits[i] # 0}
           first == Significant(digits)
<1>1. first = IF I = {} THEN 0 ELSE Min(I)
  BY DEF Significant, SelectInSeq
<1>2. I \subseteq Nat /\ n \in Nat
  OBVIOUS
<1>3. ASSUME I # {} PROVE Min(I) \in I /\ \A i \in I : Min(I) <= i
  <2> HIDE DEF I
  <2>1. \E least \in I : \A i \in I : least <= i
    BY <1>2, <1>3, LeastNatural
  <2> QED
    BY <2>1 DEF Min
<1>4. PICK value : PrefixValues(digits, value)
  BY PrefixValuesExist
<1>5. /\ value \in [0 .. n -> Nat] /\ value[0] = 0
      /\ \A i \in 1 .. n : value[i] = 10 * value[i - 1] + digits[i]
      /\ Number(digits) = value[n]
  BY <1>4, NumberIsValue DEF PrefixValues
<1> HIDE DEF n, first
\* The values before a position with zeros only.
<1> DEFINE P == {k \in Nat : k <= n /\ (\A i \in 1 .. k : digits[i] = 0) => value[k] = 0}
<1>6. 0 \in P
  BY <1>5
<1>7. ASSUME NEW k \in Nat, k \in P PROVE k + 1 \in P
  <2> SUFFICES ASSUME k + 1 <= n, \A i \in 1 .. k + 1 : digits[i] = 0 PROVE value[k + 1] = 0
    OBVIOUS
  <2>1. k + 1 \in 1 .. n /\ k + 1 \in 1 .. k + 1 /\ k + 1 - 1 = k /\ \A i \in 1 .. k : i \in 1 .. k + 1
    BY <1>2
  <2>2. value[k] = 0
    BY <1>2, <1>7, <2>1
  <2>3. value[k + 1] = 10 * value[k] + digits[k + 1] /\ digits[k + 1] = 0
    BY <1>5, <2>1
  <2> QED
    BY <2>2, <2>3
<1> HIDE DEF P
<1>8. \A k \in Nat : k \in P
  BY <1>6, <1>7, NaturalInduction
<1>9. first \in 0 .. n
  <2> HIDE DEF I
  <2>1. I \subseteq 0 .. n /\ 0 \in 0 .. n
    BY <1>2 DEF I
  <2> QED
    BY <1>1, <1>3, <2>1
<1>10. ASSUME first = 0 PROVE Number(digits) = 0
  <2>1. I = {}
    <3> SUFFICES ASSUME I # {} PROVE FALSE
      OBVIOUS
    <3>1. first \in I /\ 0 \notin I
      BY <1>1, <1>3
    <3> QED
      BY <1>10, <3>1
  <2>2. \A i \in 1 .. n : digits[i] = 0
    BY <2>1
  <2> QED
    BY <1>2, <1>5, <1>8, <2>2 DEF P
<1>11. ASSUME first # 0
       PROVE  LET rest == SubSeq(digits, first, n)
              IN  /\ rest \in Seq(Digit) /\ rest # << >> /\ rest[1] # 0
                  /\ Len(rest) <= n
                  /\ Number(rest) = Number(digits)
  <2> DEFINE rest == SubSeq(digits, first, n)
             m == n - first + 1
             later == [i \in 0 .. m |-> value[first - 1 + i]]
  <2>1. first \in I /\ (\A i \in I : first <= i)
    <3> HIDE DEF I
    <3> QED
      BY <1>1, <1>3, <1>11
  <2>2. first \in 1 .. n /\ digits[first] # 0
    BY <2>1
  <2>3. m \in Nat /\ m >= 1 /\ m <= n /\ first - 1 \in Nat /\ first - 1 <= n /\ first - 1 + m = n
    BY <1>2, <2>2
  <2>4. /\ rest \in Seq(Digit) /\ Len(rest) = m
        /\ \A i \in 1 .. m : rest[i] = digits[first - 1 + i]
    <3>1. rest \in Seq(Digit) /\ Len(rest) = m
      BY <1>2, <2>2 DEF n
    <3>2. \A i \in 1 .. m : rest[i] = digits[first + i - 1] /\ first + i - 1 = first - 1 + i
      BY <1>2, <2>2 DEF n
    <3> QED
      BY <3>1, <3>2
  <2>5. value[first - 1] = 0
    <3>1. \A i \in 1 .. first - 1 : i \in 1 .. n /\ ~(first <= i)
      BY <1>2, <2>2
    <3>2. \A i \in 1 .. first - 1 : digits[i] = 0
      BY <2>1, <3>1
    <3> QED
      BY <1>8, <2>3, <3>2 DEF P
  <2> HIDE DEF rest, m, I
  <2>6. PrefixValues(rest, later)
    <3>1. \A i \in 0 .. m : first - 1 + i \in 0 .. n
      BY <1>2, <2>3
    <3>2. later \in [0 .. m -> Nat] /\ later[0] = 0
      <4>1. first - 1 + 0 = first - 1 /\ 0 \in 0 .. m
        BY <2>3
      <4> QED
        BY <1>5, <2>5, <3>1, <4>1
    <3>3. ASSUME NEW i \in 1 .. m PROVE later[i] = 10 * later[i - 1] + rest[i]
      <4> DEFINE k == first - 1 + i
      <4>1. k \in 1 .. n /\ k - 1 = first - 1 + (i - 1) /\ i \in 0 .. m /\ i - 1 \in 0 .. m
        BY <1>2, <2>3
      <4>2. later[i] = value[k] /\ later[i - 1] = value[k - 1] /\ rest[i] = digits[k]
        BY <2>4, <4>1
      <4> HIDE DEF k, later
      <4>3. value[k] = 10 * value[k - 1] + digits[k]
        BY <1>5, <4>1
      <4> QED
        BY <4>2, <4>3
    <3> HIDE DEF later
    <3> QED
      BY <2>4, <3>2, <3>3 DEF PrefixValues
  <2>7. later[m] = value[n]
    BY <2>3
  <2> HIDE DEF later
  <2>8. Number(rest) = Number(digits)
    BY <1>5, <2>4, <2>6, <2>7, NumberIsValue
  <2>9. rest # << >> /\ rest[1] # 0
    <3>1. 1 \in 1 .. m /\ first - 1 + 1 = first
      BY <2>2, <2>3
    <3> QED
      BY <2>2, <2>4, <3>1
  <2> QED
    BY <2>3, <2>4, <2>8, <2>9 DEF rest
<1> QED
  BY <1>9, <1>10, <1>11 DEF n, first

(***************************************************************************)
(* parse_metadata_size: for numbers of any length and every width of       *)
(* size_t, the size that a token writes is accepted, in whatever form, and *)
(* a token that writes no size is refused.                                 *)
(***************************************************************************)
THEOREM ParsedSizeIsExact ==
  ASSUME NEW token \in Token, IsJsonNumber(token)
  PROVE  ExactSizes(token) = {ParseMetadataSize(token)} \ {Refused}
<1> DEFINE all == token.whole \o token.fraction
           first == Significant(all)
           rest == SubSeq(all, first, Len(all))
           M == Number(all)
           E == Number(token.exponent)
           fd == Len(token.fraction)
           exponent == BoundedNumber(token.exponent, ExponentLimit)
           shifted == ShiftedDigits(rest, fd, token.exponent_negative, exponent)
           shift == (IF token.exponent_negative THEN 0 - E ELSE E) - fd
<1>1. /\ token.whole \in Seq(Digit) /\ token.fraction \in Seq(Digit)
      /\ token.exponent \in Seq(Digit)
      /\ token.exponent_negative \in BOOLEAN /\ token.negative \in BOOLEAN
      /\ Len(token.whole) + Len(token.fraction) + Len(token.exponent) <= TextSize
  BY DEF Token
<1>2. all \in Seq(Digit) /\ Len(all) <= TextSize /\ fd \in 0 .. TextSize
  <2> DEFINE w == token.whole
             f == token.fraction
             e == token.exponent
  <2>1. \A digits \in Seq(Digit) : Len(digits) \in Nat
    OBVIOUS
  <2>2. /\ w \in Seq(Digit) /\ f \in Seq(Digit) /\ e \in Seq(Digit)
        /\ Len(w) + Len(f) + Len(e) <= TextSize
    BY <1>1
  <2> HIDE DEF w, f, e
  <2>3. Len(w) \in Nat /\ Len(f) \in Nat /\ Len(e) \in Nat
    BY <2>1, <2>2
  <2>4. w \o f \in Seq(Digit) /\ Len(w \o f) = Len(w) + Len(f)
    BY <2>2
  <2>5. Len(w) + Len(f) <= TextSize /\ Len(f) \in 0 .. TextSize
    BY <2>2, <2>3, TextAssumption
  <2> QED
    BY <2>4, <2>5 DEF w, f
<1>3. E \in Nat
  <2>1. PICK value : PrefixValues(token.exponent, value)
    BY <1>1, PrefixValuesExist
  <2>2. E = value[Len(token.exponent)]
    BY <1>1, <2>1, NumberIsValue
  <2>3. value \in [0 .. Len(token.exponent) -> Nat] /\ Len(token.exponent) \in 0 .. Len(token.exponent)
    BY <1>1, <2>1 DEF PrefixValues
  <2> HIDE DEF E
  <2> QED
    BY <2>2, <2>3
<1>4. ExponentLimit \in Nat
  BY TextAssumption, Digits10Bounds DEF ExponentLimit
<1>5. exponent = IF E <= ExponentLimit THEN E ELSE Refused
  BY <1>1, <1>4, BoundedNumberIsNumber
<1>6. ExactSizes(token) = {size \in Size : (token.negative => M = 0) /\ IsExact(size, M, shift)}
  BY DEF ExactSizes, IsExact
<1>7. ParseMetadataSize(token) =
        IF first = 0 THEN 0
        ELSE IF token.negative \/ exponent = Refused THEN Refused
        ELSE IF shifted = << >> THEN Refused
        ELSE BoundedNumber(shifted, SizeMax)
  BY DEF ParseMetadataSize
<1>8. SizeMax \in Nat /\ Size = 0 .. SizeMax /\ Refused \notin Nat /\ shift \in Int
  BY <1>2, <1>3, SizeAssumption DEF Size, Refused
<1> HIDE DEF all
<1>zeros. /\ first \in 0 .. Len(all) /\ (first = 0 => M = 0)
          /\ first # 0 => /\ rest \in Seq(Digit) /\ rest # << >> /\ rest[1] # 0
                          /\ Len(rest) <= Len(all) /\ Number(rest) = M
  BY <1>2, LeadingZeros
<1> HIDE DEF first, rest, M, E, fd, exponent, shift
<1>9. CASE first = 0
  <2>1. ASSUME NEW size \in Size PROVE IsExact(size, 0, shift) <=> size = 0
    <3>1. \A k \in Nat : PowerOfTen[k] \in Nat /\ PowerOfTen[k] > 0
      <4> SUFFICES ASSUME NEW k \in Nat PROVE PowerOfTen[k] \in Nat /\ PowerOfTen[k] > 0
        OBVIOUS
      <4>1. PowerOfTen[k] \in Nat /\ PowerOfTen[k] > k
        BY PowerSteps, PowersGrow
      <4> QED
        BY <4>1
    <3>2. size \in Nat /\ 0 \in Nat
      BY <1>8
    <3>3. CASE shift >= 0
      <4>1. shift \in Nat
        BY <1>8, <3>3
      <4>2. DividedByTens(size, shift) = 0 <=> size = 0 * PowerOfTen[shift]
        BY <3>2, <4>1, DividedIsFactor
      <4>3. 0 * PowerOfTen[shift] = 0
        BY <3>1, <4>1
      <4> QED
        BY <3>3, <4>2, <4>3 DEF IsExact
    <3>4. CASE ~(shift >= 0)
      <4>1. 0 - shift \in Nat
        BY <1>8, <3>4
      <4> DEFINE k == 0 - shift
                 p == PowerOfTen[k]
      <4> HIDE DEF k
      <4>2. DividedByTens(0, k) = size <=> 0 = size * p
        BY <3>2, <4>1, DividedIsFactor DEF k
      <4>3. p \in Nat /\ p > 0
        BY <3>1, <4>1 DEF k
      <4> HIDE DEF p
      <4>4. 0 = size * p <=> size = 0
        BY <3>2, <4>3
      <4> QED
        BY <3>4, <4>2, <4>4 DEF IsExact, k
    <3> QED
      BY <3>3, <3>4
  <2>2. ParseMetadataSize(token) = 0 /\ M = 0
    BY <1>7, <1>9, <1>zeros
  <2> QED
    BY <1>6, <1>8, <2>1, <2>2
<1>10. CASE first # 0 /\ token.negative
  <2>1. M # 0
    <3>1. Number(rest) >= 1 /\ Number(rest) \in Nat
      BY <1>10, <1>zeros, NonzeroNumber
    <3> QED
      BY <1>10, <1>zeros, <3>1
  <2>2. ParseMetadataSize(token) = Refused
    BY <1>7, <1>10
  <2> QED
    BY <1>6, <1>10, <2>1, <2>2
<1>11. CASE first # 0 /\ ~token.negative /\ E > ExponentLimit
  <2>1. exponent = Refused
    BY <1>3, <1>4, <1>5, <1>11
  <2>2. ParseMetadataSize(token) = Refused
    BY <1>7, <1>11, <2>1
  <2>3. Len(rest) <= TextSize
    BY <1>2, <1>11, <1>zeros, TextAssumption
  <2>4. \A size \in Size : ~IsExact(size, Number(rest), shift)
    BY <1>1, <1>2, <1>3, <1>11, <1>zeros, <2>3, HugeExponent DEF shift
  <2> QED
    BY <1>6, <1>11, <1>zeros, <2>2, <2>4
<1>12. CASE first # 0 /\ ~token.negative /\ ~(E > ExponentLimit)
  <2>1. exponent = E /\ exponent # Refused
    BY <1>3, <1>4, <1>5, <1>8, <1>12
  <2>2. /\ shifted \in Seq(Digit)
        /\ \A size \in Size : IsExact(size, M, shift) <=> shifted # << >> /\ size = Number(shifted)
    <3>1. fd \in Nat
      BY <1>2
    <3>2. shifted = ShiftedDigits(rest, fd, token.exponent_negative, E)
      BY <2>1
    <3>3. shift = (IF token.exponent_negative THEN 0 - E ELSE E) - fd
      BY DEF shift
    <3>4. rest \in Seq(Digit) /\ rest # << >> /\ rest[1] # 0 /\ Number(rest) = M
      BY <1>12, <1>zeros
    <3> HIDE DEF shifted
    <3>5. shifted \in Seq(Digit)
      BY <1>3, <3>1, <3>2, <3>3, <3>4, ShiftedIsExact
    <3>6. \A size \in Size :
            IsExact(size, Number(rest), shift) <=> shifted # << >> /\ size = Number(shifted)
      BY <1>3, <3>1, <3>2, <3>3, <3>4, ShiftedIsExact
    <3> QED
      BY <3>4, <3>5, <3>6
  <2> HIDE DEF shifted
  <2>3. ExactSizes(token) = {size \in Size : shifted # << >> /\ size = Number(shifted)}
    BY <1>6, <1>12, <2>2
  <2>4. ParseMetadataSize(token) =
          IF shifted = << >> THEN Refused
          ELSE IF Number(shifted) <= SizeMax THEN Number(shifted) ELSE Refused
    BY <1>7, <1>8, <1>12, <2>1, <2>2, BoundedNumberIsNumber
  <2>5. Number(shifted) \in Nat
    <3>1. PICK value : PrefixValues(shifted, value)
      BY <2>2, PrefixValuesExist
    <3>2. value \in [0 .. Len(shifted) -> Nat] /\ Len(shifted) \in 0 .. Len(shifted)
      BY <2>2, <3>1 DEF PrefixValues
    <3>3. Number(shifted) = value[Len(shifted)]
      BY <2>2, <3>1, NumberIsValue
    <3> QED
      BY <3>2, <3>3
  <2>6. CASE shifted # << >> /\ Number(shifted) <= SizeMax
    <3>1. Number(shifted) \in Size /\ Number(shifted) # Refused
      BY <1>8, <2>5, <2>6
    <3> QED
      BY <2>3, <2>4, <2>6, <3>1
  <2>7. CASE ~(shifted # << >> /\ Number(shifted) <= SizeMax)
    <3>1. ParseMetadataSize(token) = Refused
      BY <2>4, <2>7
    <3>2. \A size \in Size : ~(shifted # << >> /\ size = Number(shifted))
      BY <1>8, <2>7
    <3> QED
      BY <2>3, <3>1, <3>2
  <2> QED
    BY <2>6, <2>7
<1> QED
  BY <1>3, <1>4, <1>8, <1>9, <1>10, <1>11, <1>12

\* What a token that is not a JSON number writes is not accepted.
LEMMA AcceptedSizeIsExact ==
  ASSUME NEW token \in Token, ParseMetadataSize(token) # Refused
  PROVE  ExactSizes(token) = {ParseMetadataSize(token)}
<1>1. IsJsonNumber(token)
  BY DEF ParseMetadataSize
<1> QED
  BY <1>1, ParsedSizeIsExact

\* What is accepted is a size: no conversion wraps around.
LEMMA ParsedSizeIsSize ==
  ASSUME NEW token \in Token
  PROVE  ParseMetadataSize(token) \in Size \cup {Refused}
<1>1. CASE ParseMetadataSize(token) = Refused
  BY <1>1
<1>2. CASE ParseMetadataSize(token) # Refused
  <2>1. ExactSizes(token) = {ParseMetadataSize(token)}
    BY <1>2, AcceptedSizeIsExact
  <2>2. ExactSizes(token) \subseteq Size
    BY DEF ExactSizes
  <2> QED
    BY <2>1, <2>2
<1> QED
  BY <1>1, <1>2

-----------------------------------------------------------------------------

\* The fields of a document that reads as a whole have all been read.
LEMMA AllFieldsParse ==
  ASSUME NEW document, NEW fields, DOMAIN fields \subseteq Nat \ {0},
         AllParse(document, fields), NEW i \in DOMAIN fields
  PROVE  FieldParses(document, fields[i])
<1>1. fields[i] \in ParsedFields(document, fields)
  BY DEF AllParse
<1>2. PICK k \in DOMAIN fields :
        /\ fields[k] = fields[i]
        /\ \A j \in 1 .. k : FieldParses(document, fields[j])
  BY <1>1 DEF ParsedFields
<1> QED
  BY <1>2

\* The timings of a grid so far, from the start of the range in equal steps.
GridBegun(offsets, m) ==
  /\ offsets \in Seq(Size) /\ offsets # << >>
  /\ (m.timing_search_stop_inclusive - m.timing_search_start) % m.timing_search_step = 0
  /\ \A i \in 1 .. Len(offsets) :
       offsets[i] = m.timing_search_start + m.timing_search_step * (i - 1)
  /\ offsets[Len(offsets)] <= m.timing_search_stop_inclusive

Increasing(offsets) ==
  \A i, j \in DOMAIN offsets : i < j => offsets[i] < offsets[j]

\* The loop of the grid goes on after a timing.
Remaining(timing, m) ==
  ~(SizeSubtract(m.timing_search_stop_inclusive, timing) < m.timing_search_step)

\* What the loader leaves in the metadata of acquisition_demo.
RangeLoaded(m) ==
  /\ m \in [SizeFields \ {"samples_per_symbol"} -> Size]
  /\ ~InvalidRange(m)

\* The range of a loaded document lies in its recording.
LEMMA LoadedRange ==
  ASSUME NEW m, RangeLoaded(m)
  PROVE  /\ m.timing_search_start \in Size /\ m.timing_search_stop_inclusive \in Size
         /\ m.timing_search_step \in Size /\ m.timing_search_step > 0
         /\ m.sample_count \in Size /\ m.preamble_length \in Size /\ m.preamble_length > 0
         /\ m.timing_search_start <= m.timing_search_stop_inclusive
         /\ m.timing_search_stop_inclusive + m.preamble_length <= m.sample_count
<1>1. {"sample_count", "preamble_length", "timing_search_start", "timing_search_stop_inclusive",
       "timing_search_step"} \subseteq SizeFields \ {"samples_per_symbol"}
  BY DEF SizeFields
<1>2. /\ m.timing_search_start \in Size /\ m.timing_search_stop_inclusive \in Size
      /\ m.timing_search_step \in Size
      /\ m.sample_count \in Size /\ m.preamble_length \in Size
  BY <1>1 DEF RangeLoaded
<1> QED
  BY <1>2, SizeAssumption DEF RangeLoaded, InvalidRange, Size

\* No size_t wraps around while a grid grows.
LEMMA NoWrapInRange ==
  ASSUME NEW m, RangeLoaded(m), NEW timing \in Size, timing <= m.timing_search_stop_inclusive
  PROVE  /\ SizeSubtract(m.timing_search_stop_inclusive, timing)
              = m.timing_search_stop_inclusive - timing
         /\ Remaining(timing, m) =>
              /\ SizeAdd(timing, m.timing_search_step) = timing + m.timing_search_step
              /\ timing + m.timing_search_step \in Size
              /\ timing + m.timing_search_step <= m.timing_search_stop_inclusive
<1> DEFINE stop == m.timing_search_stop_inclusive
           size == m.timing_search_step
<1>1. stop \in Nat /\ size \in Nat /\ timing \in Nat /\ SizeMax \in Nat /\ stop <= SizeMax
      /\ timing <= stop
  BY LoadedRange, SizeAssumption DEF Size
<1> HIDE DEF stop, size
<1>2. \A x, n \in Nat : x < n => x % n = x
  OBVIOUS
<1>3. SizeSubtract(stop, timing) = stop - timing
  BY <1>1, <1>2 DEF SizeSubtract
<1>4. ASSUME Remaining(timing, m)
      PROVE  timing + size <= stop
  BY <1>1, <1>3, <1>4 DEF Remaining, stop, size
<1>5. Remaining(timing, m) => SizeAdd(timing, size) = timing + size /\ timing + size \in Size
  BY <1>1, <1>2, <1>4 DEF SizeAdd, Size
<1> QED
  BY <1>3, <1>4, <1>5 DEF stop, size

\* One more timing keeps the grid.
LEMMA GridGrows ==
  ASSUME NEW m, RangeLoaded(m), NEW offsets, GridBegun(offsets, m), Increasing(offsets),
         Remaining(offsets[Len(offsets)], m)
  PROVE  LET longer == Append(offsets, SizeAdd(offsets[Len(offsets)], m.timing_search_step))
         IN  GridBegun(longer, m) /\ Increasing(longer)
<1> DEFINE n == Len(offsets)
           last == offsets[n]
           size == m.timing_search_step
           start == m.timing_search_start
           stop == m.timing_search_stop_inclusive
           new == SizeAdd(last, size)
           longer == Append(offsets, new)
<1>1. /\ offsets \in Seq(Size) /\ n \in Nat /\ n >= 1 /\ last \in Size /\ last <= stop
      /\ \A i \in 1 .. n : offsets[i] = start + size * (i - 1)
      /\ (stop - start) % size = 0
  BY DEF GridBegun
<1>2. /\ start \in Nat /\ stop \in Nat /\ size \in Nat /\ size > 0 /\ last \in Nat
  <2>1. start \in Size /\ stop \in Size /\ size \in Size /\ size > 0 /\ start <= stop
    BY LoadedRange
  <2> HIDE DEF start, stop, size, last
  <2> QED
    BY <1>1, <2>1, SizeAssumption DEF Size
<1>3. new = last + size /\ new \in Size /\ new <= stop
  BY <1>1, NoWrapInRange
<1> HIDE DEF last, size, start, stop, new
<1>4. /\ longer \in Seq(Size) /\ Len(longer) = n + 1
      /\ \A i \in 1 .. n : longer[i] = offsets[i]
      /\ longer[n + 1] = new
  BY <1>1, <1>3, AppendProperties
<1> HIDE DEF longer
<1>5. new = start + size * n
  <2>1. last = start + size * (n - 1)
    BY <1>1 DEF last
  <2>2. size * (n - 1 + 1) = size * (n - 1) + size * 1
    BY <1>1, <1>2, Distributes
  <2> HIDE DEF n
  <2> QED
    BY <1>1, <1>2, <1>3, <2>1, <2>2
<1>6. \A i \in 1 .. n + 1 : longer[i] = start + size * (i - 1)
  <2> SUFFICES ASSUME NEW i \in 1 .. n + 1 PROVE longer[i] = start + size * (i - 1)
    OBVIOUS
  <2>1. CASE i = n + 1
    BY <1>1, <1>4, <1>5, <2>1
  <2>2. CASE i \in 1 .. n
    BY <1>1, <1>4, <2>2
  <2> QED
    BY <1>1, <2>1, <2>2
<1>7. GridBegun(longer, m)
  BY <1>1, <1>3, <1>4, <1>6 DEF GridBegun, size, start, stop
<1>8. ASSUME NEW i \in DOMAIN longer, NEW j \in DOMAIN longer, i < j
      PROVE  longer[i] < longer[j]
  <2>1. i \in 1 .. n + 1 /\ j \in 1 .. n + 1 /\ i \in 1 .. n
    BY <1>1, <1>4, <1>8
  <2>2. offsets[i] \in Nat
    BY <1>1, <2>1, SizeAssumption DEF Size
  <2>3. CASE j = n + 1
    <3>1. i = n \/ offsets[i] < last
      BY <1>1, <2>1 DEF Increasing, last
    <3>2. offsets[i] <= last
      BY <1>2, <2>2, <3>1 DEF last
    <3> QED
      BY <1>2, <1>3, <1>4, <2>1, <2>2, <2>3, <3>2
  <2>4. CASE j \in 1 .. n
    BY <1>1, <1>4, <1>8, <2>1, <2>4 DEF Increasing
  <2> QED
    BY <1>1, <2>1, <2>3, <2>4
<1> QED
  BY <1>7, <1>8 DEF Increasing, longer, new, last, size

\* A grid that has no timing to add holds the whole range, both ends included.
LEMMA GridIsWhole ==
  ASSUME NEW m, RangeLoaded(m), NEW offsets, GridBegun(offsets, m),
         ~Remaining(offsets[Len(offsets)], m)
  PROVE  /\ {offsets[i] : i \in DOMAIN offsets} =
              {t \in m.timing_search_start .. m.timing_search_stop_inclusive :
                 (t - m.timing_search_start) % m.timing_search_step = 0}
         /\ m.timing_search_stop_inclusive \in {offsets[i] : i \in DOMAIN offsets}
<1> DEFINE n == Len(offsets)
           last == offsets[n]
           size == m.timing_search_step
           start == m.timing_search_start
           stop == m.timing_search_stop_inclusive
<1>1. /\ offsets \in Seq(Size) /\ n \in Nat /\ n >= 1 /\ last \in Size /\ last <= stop
      /\ \A i \in 1 .. n : offsets[i] = start + size * (i - 1)
      /\ (stop - start) % size = 0
  BY DEF GridBegun
<1>2. /\ start \in Nat /\ stop \in Nat /\ size \in Nat \ {0} /\ last \in Nat /\ start <= stop
  <2>1. start \in Size /\ stop \in Size /\ size \in Size /\ size > 0 /\ start <= stop
    BY LoadedRange
  <2> HIDE DEF start, stop, size, last
  <2> QED
    BY <1>1, <2>1, SizeAssumption DEF Size
<1>3. stop - last < size
  BY <1>1, <1>2, NoWrapInRange DEF Remaining
<1> DEFINE k == (stop - start) \div size
<1>4. stop - start = size * k /\ k \in Nat
  <2> DEFINE d == stop - start
  <2>1. d \in Nat /\ d % size = 0
    BY <1>1, <1>2
  <2> HIDE DEF d, size
  <2>2. d = size * (d \div size) /\ d \div size \in Nat
    BY <1>2, <2>1
  <2> QED
    BY <2>2 DEF d
<1> HIDE DEF last, size, start, stop, k, n
<1>5. last = start + size * (n - 1)
  BY <1>1 DEF last
\* The last timing is the stop.
<1>6. n - 1 = k
  <2>1. size * (k - (n - 1)) = stop - last
    <3>1. size * ((k - (n - 1)) + (n - 1)) = size * (k - (n - 1)) + size * (n - 1)
      BY <1>1, <1>2, <1>4, Distributes
    <3>2. k - (n - 1) + (n - 1) = k
      BY <1>1, <1>4
    <3> QED
      BY <1>1, <1>2, <1>4, <1>5, <3>1, <3>2
  <2> DEFINE a == k - (n - 1)
  <2>2. a \in Int
    BY <1>1, <1>4
  <2>3. size * a \in 0 .. size - 1
    BY <1>1, <1>2, <1>3, <2>1
  <2> HIDE DEF a
  <2>4. a = 0
    BY <1>2, <2>2, <2>3
  <2> QED
    BY <1>1, <1>4, <2>4 DEF a
<1>7. ASSUME NEW i \in 1 .. n
      PROVE  offsets[i] \in start .. stop /\ (offsets[i] - start) % size = 0
  <2>1. size * ((i - 1) + (n - i)) = size * (i - 1) + size * (n - i)
    BY <1>1, <1>2, Distributes
  <2>2. i - 1 + (n - i) = n - 1
    BY <1>1
  <2>3. size * (i - 1) \in Nat /\ size * (n - i) \in Nat
    BY <1>1, <1>2
  <2>4. offsets[i] = start + size * (i - 1)
    BY <1>1
  <2>5. offsets[i] \in start .. stop
    BY <1>1, <1>2, <1>4, <1>6, <2>1, <2>2, <2>3, <2>4
  <2>6. offsets[i] - start = size * (i - 1) + 0
    BY <1>2, <2>3, <2>4
  <2>7. i - 1 \in Nat /\ offsets[i] - start \in Nat /\ 0 \in 0 .. size - 1
    BY <1>2, <2>3, <2>6
  <2>8. (offsets[i] - start) % size = 0
    <3> DEFINE d == offsets[i] - start
               j == i - 1
    <3>1. d \in Nat /\ j \in Nat /\ 0 \in 0 .. size - 1 /\ d = size * j + 0
      BY <2>6, <2>7
    <3> HIDE DEF d, j
    <3>2. d % size = 0
      BY <1>2, <3>1, DivisionUnique
    <3> QED
      BY <3>2 DEF d
  <2> QED
    BY <2>5, <2>8
<1>8. ASSUME NEW t \in start .. stop, (t - start) % size = 0
      PROVE  \E i \in 1 .. n : offsets[i] = t
  <2> DEFINE d == t - start
             q == d \div size
  <2>1. d \in Nat /\ d % size = 0
    BY <1>2, <1>8
  <2> HIDE DEF d
  <2>2. d = size * q /\ q \in Nat
    BY <1>2, <2>1
  <2> HIDE DEF q
  <2>3. q <= k
    <3> SUFFICES ASSUME q > k PROVE FALSE
      BY <1>4, <2>2
    <3>1. size * (k + (q - k)) = size * k + size * (q - k)
      BY <1>2, <1>4, <2>2, Distributes
    <3>2. k + (q - k) = q
      BY <1>4, <2>2
    <3>3. size * (q - k) >= size
      BY <1>2, <1>4, <2>2
    <3> QED
      BY <1>2, <1>4, <2>2, <3>1, <3>2, <3>3 DEF d
  <2>4. q + 1 \in 1 .. n
    BY <1>1, <1>4, <1>6, <2>2, <2>3
  <2>5. PICK i \in 1 .. n : i = q + 1
    BY <2>4
  <2>6. offsets[i] = start + size * (i - 1)
    BY <1>1
  <2>7. i - 1 = q
    BY <2>2, <2>5
  <2>8. offsets[i] = t
    BY <1>2, <2>2, <2>6, <2>7 DEF d
  <2> QED
    BY <2>8
<1>9. DOMAIN offsets = 1 .. n
  BY <1>1 DEF n
<1>10. {offsets[i] : i \in DOMAIN offsets} = {t \in start .. stop : (t - start) % size = 0}
  BY <1>7, <1>8, <1>9
<1>11. offsets[n] = stop /\ n \in 1 .. n
  BY <1>1, <1>2, <1>4, <1>5, <1>6 DEF last
<1>12. stop \in {offsets[i] : i \in DOMAIN offsets}
  BY <1>9, <1>11
<1> QED
  BY <1>10, <1>12 DEF start, stop, size

-----------------------------------------------------------------------------
(* DemoPrograms.                                                            *)

CommandLine ==
  [given : Nat, metadata : {Default, "sidecar", "other"}, metadata_explicit : BOOLEAN,
   preamble : {Default, "given"}, implementation : {"reference", "neon", "sme2", "unknown"},
   decoder : {"viterbi-reference", "unknown"}]

\* What the programs were given.
CommandPart ==
  /\ program \in {"replay_demo", "acquisition_demo"}
  /\ disk \in Disks /\ recording \in Recordings
  /\ arguments \in CommandLine
  /\ arguments.metadata_explicit = TRUE \/ arguments.metadata = Default
  /\ metadata_path \in {Default, "sidecar", "other"}

\* Until a document has been loaded the metadata are the defaults.
SourcePart ==
  /\ stage = "arguments" => metadata = DefaultMetadata
  /\ stage = "metadata" =>
       IF program = "replay_demo"
         THEN /\ metadata = DefaultMetadata
              /\ IF metadata_path = Default THEN arguments.metadata = Default
                 ELSE arguments.metadata # Default => metadata_path = arguments.metadata
         ELSE metadata_path \in {"sidecar", "other"}
  /\ stage = "configured" => program = "replay_demo"
  /\ ReplayHasOneSource

\* What the loaders of acquisition_demo have established.
RangePart ==
  /\ stage \in {"files", "grid", "searched"} =>
       /\ program = "acquisition_demo"
       /\ RangeLoaded(metadata.sizes)
       /\ metadata.cfo_hypotheses_hz \in Seq(Frequencies \cup {NaN})
  /\ stage \in {"grid", "searched"} =>
       /\ recording \in Captures /\ disk.preamble \in Preamble
       /\ Recording[recording].length = metadata.sizes.sample_count
       /\ disk.preamble.length = metadata.sizes.preamble_length

GridPart ==
  /\ Increasing(timing_offsets)
  /\ stage \in {"arguments", "metadata", "configured", "files"} => timing_offsets = << >>
  /\ stage = "grid" => timing_offsets = << >> \/ GridBegun(timing_offsets, metadata.sizes)
  /\ stage = "searched" =>
       /\ GridBegun(timing_offsets, metadata.sizes)
       /\ ~Remaining(timing_offsets[Len(timing_offsets)], metadata.sizes)
       /\ plan.preamble_length = metadata.sizes.preamble_length

\* The best candidate of a result is the peak of its plan.
BestIsPeak(p, c, best) ==
  \E h \in Hypotheses(p) : IsPeak(p, c, h, Hypotheses(p)) /\ best = CandidateOf(p, c, h)

PeakPart ==
  /\ stage = "searched" /\ result.ok => BestIsPeak(plan, recording, result.best)
  /\ SuccessMeansTruthIsThePeak

DemoInv == CommandPart /\ SourcePart /\ RangePart /\ GridPart /\ PeakPart

\* Without a timing there is nothing to order.
LEMMA EmptyGrid == Increasing(<< >>)
BY DEF Increasing

\* The programs start with the defaults.
LEMMA DemoInitInv == Init => DemoInv
<1> SUFFICES ASSUME Init PROVE DemoInv
  OBVIOUS
<1>1. CommandPart
  BY DEF Init, CommandPart, NoArguments, CommandLine
<1>2. stage = "arguments" /\ metadata = DefaultMetadata /\ timing_offsets = << >>
  BY DEF Init
<1> QED
  BY <1>1, <1>2, EmptyGrid DEF DemoInv, SourcePart, RangePart, GridPart, PeakPart,
     ReplayHasOneSource, SuccessMeansTruthIsThePeak

\* How a document reads does not change while the program stays the same.
LEMMA SameParsing ==
  ASSUME UNCHANGED program, NEW document
  PROVE  /\ ReplayContract(document)' <=> ReplayContract(document)
         /\ ReplayCandidate(document, TRUE)' = ReplayCandidate(document, TRUE)
<1>1. \A field : FieldParses(document, field)' <=> FieldParses(document, field)
  BY DEF FieldParses
<1>2. ParsedFields(document, ReplayFields)' = ParsedFields(document, ReplayFields)
  BY <1>1 DEF ParsedFields
<1>3. AllParse(document, ReplayFields)' <=> AllParse(document, ReplayFields)
  BY <1>2 DEF AllParse
<1>4. ReplayCandidate(document, TRUE)' = ReplayCandidate(document, TRUE)
  BY <1>2 DEF ReplayCandidate
<1>5. ReplayContract(document)' <=> ReplayContract(document)
  BY <1>3, <1>4 DEF ReplayContract
<1> QED
  BY <1>4, <1>5

\* The end of a program that refuses, fails or helps.
LEMMA ExitInv ==
  ASSUME DemoInv, CommandPart', UNCHANGED <<program, disk, recording, timing_offsets>>,
         stage' \in {"help", "refused", "failure"},
         stage' = "failure" => program = "acquisition_demo"
  PROVE  DemoInv'
<1>1. Increasing(timing_offsets')
  BY DEF DemoInv, GridPart
<1>2. SourcePart'
  BY DEF SourcePart, ReplayHasOneSource
<1>3. RangePart'
  BY DEF RangePart
<1>4. GridPart'
  BY <1>1 DEF GridPart
<1>5. PeakPart'
  BY DEF PeakPart, SuccessMeansTruthIsThePeak
<1> QED
  BY <1>2, <1>3, <1>4, <1>5 DEF DemoInv

\* The fields of a command line.
LEMMA FieldsOf ==
  ASSUME NEW a \in CommandLine
  PROVE  /\ a.given \in Nat /\ a.metadata \in {Default, "sidecar", "other"}
         /\ a.metadata_explicit \in BOOLEAN /\ a.preamble \in {Default, "given"}
         /\ a.implementation \in {"reference", "neon", "sme2", "unknown"}
         /\ a.decoder \in {"viterbi-reference", "unknown"}
BY DEF CommandLine

\* What --metadata makes of a command line is one.
LEMMA MetadataOption ==
  ASSUME NEW a \in CommandLine, NEW path \in {Default, "sidecar", "other"}, NEW b,
         b = [a EXCEPT !.given = @ + 1, !.metadata = path, !.metadata_explicit = TRUE]
  PROVE  b \in CommandLine /\ b.metadata_explicit = TRUE
<1>1. b \in CommandLine
  <2>1. b = [given |-> a.given + 1, metadata |-> path, metadata_explicit |-> TRUE,
            preamble |-> a.preamble, implementation |-> a.implementation, decoder |-> a.decoder]
    BY DEF CommandLine
  <2>2. a.given + 1 \in Nat
    BY FieldsOf
  <2> QED
    BY <2>1, <2>2, FieldsOf DEF CommandLine
<1>2. b.metadata_explicit = TRUE
  BY DEF CommandLine
<1> QED
  BY <1>1, <1>2

\* --preamble.
LEMMA PreambleOption ==
  ASSUME NEW a \in CommandLine, NEW b, b = [a EXCEPT !.given = @ + 1, !.preamble = "given"]
  PROVE  b \in CommandLine /\ b.metadata_explicit = a.metadata_explicit /\ b.metadata = a.metadata
<1>1. b \in CommandLine
  <2>1. b = [given |-> a.given + 1, metadata |-> a.metadata, metadata_explicit |-> a.metadata_explicit,
            preamble |-> "given", implementation |-> a.implementation, decoder |-> a.decoder]
    BY DEF CommandLine
  <2>2. a.given + 1 \in Nat
    BY FieldsOf
  <2> QED
    BY <2>1, <2>2, FieldsOf DEF CommandLine
<1>2. b.metadata_explicit = a.metadata_explicit
  BY DEF CommandLine
<1>3. b.metadata = a.metadata
  BY DEF CommandLine
<1> QED
  BY <1>1, <1>2, <1>3

\* --decoder with a name that is not known.
LEMMA DecoderOption ==
  ASSUME NEW a \in CommandLine, NEW b, b = [a EXCEPT !.given = @ + 1, !.decoder = "unknown"]
  PROVE  b \in CommandLine /\ b.metadata_explicit = a.metadata_explicit /\ b.metadata = a.metadata
<1>1. b \in CommandLine
  <2>1. b = [given |-> a.given + 1, metadata |-> a.metadata, metadata_explicit |-> a.metadata_explicit,
            preamble |-> a.preamble, implementation |-> a.implementation, decoder |-> "unknown"]
    BY DEF CommandLine
  <2>2. a.given + 1 \in Nat
    BY FieldsOf
  <2> QED
    BY <2>1, <2>2, FieldsOf DEF CommandLine
<1>2. b.metadata_explicit = a.metadata_explicit
  BY DEF CommandLine
<1>3. b.metadata = a.metadata
  BY DEF CommandLine
<1> QED
  BY <1>1, <1>2, <1>3

\* --implementation.
LEMMA ImplementationOption ==
  ASSUME NEW a \in CommandLine, NEW name \in {"reference", "neon", "sme2", "unknown"}, NEW b,
         b = [a EXCEPT !.given = @ + 1, !.implementation = name]
  PROVE  b \in CommandLine /\ b.metadata_explicit = a.metadata_explicit /\ b.metadata = a.metadata
<1>1. b \in CommandLine
  <2>1. b = [given |-> a.given + 1, metadata |-> a.metadata, metadata_explicit |-> a.metadata_explicit,
            preamble |-> a.preamble, implementation |-> name, decoder |-> a.decoder]
    BY DEF CommandLine
  <2>2. a.given + 1 \in Nat
    BY FieldsOf
  <2> QED
    BY <2>1, <2>2, FieldsOf DEF CommandLine
<1>2. b.metadata_explicit = a.metadata_explicit
  BY DEF CommandLine
<1>3. b.metadata = a.metadata
  BY DEF CommandLine
<1> QED
  BY <1>1, <1>2, <1>3

\* Reading an option.
LEMMA ReadArgumentInv == ASSUME DemoInv, ReadArgument PROVE DemoInv'
<1>1. /\ stage = "arguments" /\ stage' \in {"arguments", "help", "refused"}
      /\ UNCHANGED <<program, disk, recording, metadata, metadata_path, timing_offsets, plan, result>>
  BY DEF ReadArgument, Exit
<1>2. arguments' \in CommandLine /\ (arguments'.metadata_explicit = TRUE \/ arguments'.metadata = Default)
  <2>1. arguments \in CommandLine /\ (arguments.metadata_explicit = TRUE \/ arguments.metadata = Default)
    BY DEF DemoInv, CommandPart
  <2>2. CASE \E path \in {Default, "sidecar", "other"} :
               arguments' = [arguments EXCEPT !.given = @ + 1, !.metadata = path,
                                              !.metadata_explicit = TRUE]
    <3>1. PICK path \in {Default, "sidecar", "other"} :
            arguments' = [arguments EXCEPT !.given = @ + 1, !.metadata = path,
                                           !.metadata_explicit = TRUE]
      BY <2>2
    <3> QED
      BY <2>1, <3>1, MetadataOption
  <2>3. CASE arguments' = [arguments EXCEPT !.given = @ + 1, !.preamble = "given"]
    BY <2>1, <2>3, PreambleOption
  <2>4. CASE arguments' = [arguments EXCEPT !.given = @ + 1, !.decoder = "unknown"]
    BY <2>1, <2>4, DecoderOption
  <2>5. CASE \E name \in {"reference", "neon", "sme2", "unknown"} :
               arguments' = [arguments EXCEPT !.given = @ + 1, !.implementation = name]
    <3>1. PICK name \in {"reference", "neon", "sme2", "unknown"} :
            arguments' = [arguments EXCEPT !.given = @ + 1, !.implementation = name]
      BY <2>5
    <3> QED
      BY <2>1, <3>1, ImplementationOption
  <2>6. CASE UNCHANGED arguments
    BY <2>1, <2>6
  <2> QED
    BY <2>2, <2>3, <2>4, <2>5, <2>6 DEF ReadArgument
<1>3. CommandPart'
  BY <1>1, <1>2 DEF DemoInv, CommandPart
<1>4. CASE stage' # "arguments"
  BY <1>1, <1>3, <1>4, ExitInv
<1>5. CASE stage' = "arguments"
  BY <1>1, <1>3, <1>5 DEF DemoInv, SourcePart, RangePart, GridPart, PeakPart,
     ReplayHasOneSource, SuccessMeansTruthIsThePeak
<1> QED
  BY <1>1, <1>4, <1>5

\* Choosing the metadata file.
LEMMA ChooseMetadataInv == ASSUME DemoInv, ChooseMetadata PROVE DemoInv'
<1>1. /\ stage = "arguments" /\ stage' \in {"metadata", "refused"}
      /\ UNCHANGED <<program, disk, recording, arguments, metadata, timing_offsets, plan, result>>
  BY DEF ChooseMetadata, Exit
<1>2. arguments.metadata \in {Default, "sidecar", "other"}
  BY DEF DemoInv, CommandPart, CommandLine
<1>3. CommandPart'
  BY <1>1, <1>2 DEF ChooseMetadata, Exit, DemoInv, CommandPart
<1>4. CASE stage' = "refused"
  BY <1>1, <1>3, <1>4, ExitInv
<1>5. CASE stage' = "metadata"
  <2>1. SourcePart'
    <3>1. metadata_path' = IF arguments.metadata # Default THEN arguments.metadata
                           ELSE IF program = "replay_demo" /\ disk.sidecar = Missing THEN Default
                           ELSE "sidecar"
      BY <1>5 DEF ChooseMetadata, Exit
    <3>2. metadata = DefaultMetadata
      BY <1>1 DEF DemoInv, SourcePart
    <3> QED
      BY <1>1, <1>2, <1>5, <3>1, <3>2 DEF SourcePart, ReplayHasOneSource
  <2>2. RangePart' /\ GridPart' /\ PeakPart'
    BY <1>1, <1>5 DEF DemoInv, RangePart, GridPart, PeakPart, SuccessMeansTruthIsThePeak
  <2> QED
    BY <1>3, <2>1, <2>2 DEF DemoInv
<1> QED
  BY <1>1, <1>4, <1>5

\* A document is loaded whole, or the defaults stay.
LEMMA LoadReplayMetadataInv == ASSUME DemoInv, LoadReplayMetadata PROVE DemoInv'
<1>1. /\ program = "replay_demo" /\ stage = "metadata"
      /\ UNCHANGED <<program, disk, recording, arguments, timing_offsets, plan, result>>
  BY DEF LoadReplayMetadata
<1>2. /\ metadata = DefaultMetadata
      /\ IF metadata_path = Default THEN arguments.metadata = Default
         ELSE arguments.metadata # Default => metadata_path = arguments.metadata
  BY <1>1 DEF DemoInv, SourcePart
<1>3. /\ arguments.metadata_explicit = TRUE \/ arguments.metadata = Default
      /\ metadata_path \in {Default, "sidecar", "other"}
  BY DEF DemoInv, CommandPart
<1>4. ASSUME stage' = "configured", metadata_path' \in {Default, metadata_path}, ReplayHasOneSource'
      PROVE  DemoInv'
  <2>1. CommandPart'
    BY <1>1, <1>3, <1>4 DEF DemoInv, CommandPart
  <2>2. SourcePart'
    BY <1>1, <1>4 DEF SourcePart
  <2>3. RangePart' /\ GridPart' /\ PeakPart'
    BY <1>1, <1>4 DEF DemoInv, RangePart, GridPart, PeakPart, SuccessMeansTruthIsThePeak
  <2> QED
    BY <2>1, <2>2, <2>3 DEF DemoInv
<1>5. CASE stage' = "configured" /\ metadata_path' = Default /\ metadata' = DefaultMetadata
           /\ arguments.metadata = Default
  <2>1. ReplayHasOneSource'
    BY <1>1, <1>5 DEF ReplayHasOneSource, ReplayConfiguration, DefaultMetadata
  <2> QED
    BY <1>4, <1>5, <2>1
<1>6. CASE metadata_path = Default /\ stage' = "configured" /\ UNCHANGED <<metadata, metadata_path>>
  BY <1>2, <1>5, <1>6
<1>7. ASSUME metadata_path # Default, NEW document \in {Missing, disk[metadata_path]},
             IF document # Missing /\ ReplayContract(document)
               THEN /\ metadata' = ReplayCandidate(document, TRUE)
                    /\ stage' = "configured" /\ UNCHANGED metadata_path
               ELSE /\ metadata' = FailedLoad(document)
                    /\ IF arguments.metadata_explicit
                         THEN Exit("refused") /\ UNCHANGED metadata_path
                         ELSE stage' = "configured" /\ metadata_path' = Default
      PROVE  DemoInv'
  <2>1. CASE document # Missing /\ ReplayContract(document)
    <3>1. /\ document = disk'[metadata_path'] /\ metadata_path' = metadata_path
          /\ metadata' = ReplayCandidate(document, TRUE) /\ stage' = "configured"
      BY <1>1, <1>7, <2>1
    <3>2. ReplayContract(document)' /\ metadata' = ReplayCandidate(document, TRUE)'
      BY <1>1, <2>1, <3>1, SameParsing
    <3>3. ReplayContract(disk[metadata_path])' /\ metadata' = ReplayCandidate(disk[metadata_path], TRUE)'
      BY <3>1, <3>2
    <3>4. ReplayHasOneSource'
      BY <1>1, <1>2, <1>7, <3>1, <3>3 DEF ReplayHasOneSource
    <3> QED
      BY <1>4, <3>1, <3>4
  <2>2. CASE ~(document # Missing /\ ReplayContract(document)) /\ arguments.metadata_explicit
    <3>1. stage' = "refused" /\ metadata_path' = metadata_path
      BY <1>7, <2>2 DEF Exit
    <3>2. CommandPart'
      BY <1>1, <3>1 DEF DemoInv, CommandPart
    <3> QED
      BY <1>1, <3>1, <3>2, ExitInv
  <2>3. CASE ~(document # Missing /\ ReplayContract(document)) /\ ~arguments.metadata_explicit
    BY <1>3, <1>5, <1>7, <2>3 DEF FailedLoad
  <2> QED
    BY <2>1, <2>2, <2>3
<1> QED
  BY <1>6, <1>7 DEF LoadReplayMetadata

\* The replay runs with the configuration it was given.
LEMMA RunReplayInv == ASSUME DemoInv, RunReplay PROVE DemoInv'
<1>1. /\ program = "replay_demo" /\ stage = "configured" /\ stage' \in {"success", "failure"}
      /\ UNCHANGED <<program, disk, recording, arguments, metadata, metadata_path, timing_offsets,
                     plan, result>>
  BY DEF RunReplay, Exit
<1>2. ReplayHasOneSource'
  <2>1. ReplayHasOneSource
    BY DEF DemoInv, SourcePart
  <2>2. PICK read : read = disk[metadata_path]
    OBVIOUS
  <2>3. /\ ReplayContract(read)' <=> ReplayContract(read)
        /\ ReplayCandidate(read, TRUE)' = ReplayCandidate(read, TRUE)
    BY <1>1, SameParsing
  <2> QED
    BY <1>1, <2>1, <2>2, <2>3 DEF ReplayHasOneSource, ReplayConfiguration
<1>3. CommandPart' /\ SourcePart'
  BY <1>1, <1>2 DEF DemoInv, CommandPart, SourcePart
<1>4. RangePart' /\ GridPart' /\ PeakPart'
  BY <1>1 DEF DemoInv, RangePart, GridPart, PeakPart, SuccessMeansTruthIsThePeak
<1> QED
  BY <1>3, <1>4 DEF DemoInv

\* What acquisition_demo reads from a document it takes.
LEMMA LoadAcquisitionMetadataInv == ASSUME DemoInv, LoadAcquisitionMetadata PROVE DemoInv'
<1>1. /\ program = "acquisition_demo" /\ stage = "metadata" /\ stage' \in {"failure", "files"}
      /\ UNCHANGED <<program, disk, recording, arguments, metadata_path, timing_offsets, plan, result>>
  BY DEF LoadAcquisitionMetadata, Exit
<1>2. CommandPart'
  BY <1>1 DEF DemoInv, CommandPart
<1>3. CASE stage' = "failure"
  BY <1>1, <1>2, <1>3, ExitInv
<1>4. CASE stage' = "files"
  <2>1. PICK document : document = disk[metadata_path]
    OBVIOUS
  <2>2. /\ document # Missing /\ AllParse(document, AcquisitionFields)
        /\ ~InvalidRange(Sizes(document))
        /\ metadata' = [sizes |-> Sizes(document),
                        cfo_hypotheses_hz |-> document.cfo_hypotheses_hz,
                        true_cfo_hz |-> document.true_cfo_hz]
    BY <1>4, <2>1 DEF LoadAcquisitionMetadata, Exit
  <2>3. IsDocument(document)
    <3>1. metadata_path \in {"sidecar", "other"} /\ disk \in Disks
      BY <1>1 DEF DemoInv, SourcePart, CommandPart
    <3> QED
      BY <2>1, <2>2, <3>1, FilesAssumption
  <2>4. ASSUME NEW i \in 1 .. 11
        PROVE  FieldParses(document, AcquisitionFields[i])
    <3>1. DOMAIN AcquisitionFields = 1 .. 11
      BY DEF AcquisitionFields
    <3> QED
      BY <2>2, <3>1, AllFieldsParse
  <2>5. ASSUME NEW field \in SizeFields \ {"samples_per_symbol"}
        PROVE  Sizes(document)[field] \in Size
    <3>1. \E i \in 1 .. 11 : AcquisitionFields[i] = field
      <4>1. /\ AcquisitionFields[3] = "sample_count" /\ AcquisitionFields[4] = "preamble_length"
            /\ AcquisitionFields[6] = "timing_search_start"
            /\ AcquisitionFields[7] = "timing_search_stop_inclusive"
            /\ AcquisitionFields[8] = "timing_search_step"
            /\ AcquisitionFields[10] = "true_timing_offset"
        BY DEF AcquisitionFields
      <4>2. /\ 3 \in 1 .. 11 /\ 4 \in 1 .. 11 /\ 6 \in 1 .. 11 /\ 7 \in 1 .. 11
            /\ 8 \in 1 .. 11 /\ 10 \in 1 .. 11
        OBVIOUS
      <4> QED
        BY <4>1, <4>2, <2>5 DEF SizeFields
    <3>2. FieldParses(document, field)
      BY <2>4, <3>1
    <3>3. field \in SizeFields /\ field # "schema"
      BY <2>5 DEF SizeFields
    <3>4. document[field] # Null /\ SizeParses(document[field])
      BY <1>1, <3>2, <3>3 DEF FieldParses
    <3>5. document[field] \in Token /\ ParseMetadataSize(document[field]) # Refused
      BY <2>3, <3>3, <3>4 DEF IsDocument, SizeParses
    <3>6. ParseMetadataSize(document[field]) \in Size
      BY <3>5, ParsedSizeIsSize
    <3> QED
      BY <3>6 DEF Sizes
  <2>6. RangeLoaded(Sizes(document))
    BY <2>2, <2>5 DEF RangeLoaded, Sizes
  <2>7. document.cfo_hypotheses_hz \in Seq(Frequencies \cup {NaN})
    <3>1. AcquisitionFields[9] = "cfo_hypotheses_hz" /\ 9 \in 1 .. 11
      BY DEF AcquisitionFields
    <3>2. FieldParses(document, "cfo_hypotheses_hz")
      BY <2>4, <3>1
    <3>3. "cfo_hypotheses_hz" \notin SizeFields
      BY DEF SizeFields
    <3>4. document["cfo_hypotheses_hz"] \notin {Null, Missing}
      BY <1>1, <3>2, <3>3 DEF FieldParses
    <3> QED
      BY <2>3, <3>4 DEF IsDocument
  <2>8. RangePart'
    BY <1>1, <1>4, <2>2, <2>6, <2>7 DEF RangePart
  <2>9. SourcePart' /\ GridPart' /\ PeakPart'
    BY <1>1, <1>4 DEF DemoInv, SourcePart, GridPart, PeakPart, ReplayHasOneSource,
                      SuccessMeansTruthIsThePeak
  <2> QED
    BY <1>2, <2>8, <2>9 DEF DemoInv
<1> QED
  BY <1>1, <1>3, <1>4

\* Recording and preamble are as long as the document says.
LEMMA LoadFilesInv == ASSUME DemoInv, LoadFiles PROVE DemoInv'
<1>1. /\ stage = "files" /\ stage' \in {"failure", "grid"}
      /\ UNCHANGED <<program, disk, recording, arguments, metadata, metadata_path, timing_offsets,
                     plan, result>>
  BY DEF LoadFiles, Exit
<1>2. /\ CommandPart' /\ program = "acquisition_demo" /\ RangeLoaded(metadata.sizes)
      /\ metadata.cfo_hypotheses_hz \in Seq(Frequencies \cup {NaN})
      /\ disk \in Disks /\ recording \in Recordings
  BY <1>1 DEF DemoInv, CommandPart, RangePart
<1>3. CASE stage' = "failure"
  BY <1>1, <1>2, <1>3, ExitInv
<1>4. CASE stage' = "grid"
  <2>1. /\ recording # Missing /\ disk.preamble # Missing
        /\ Recording[recording].length = metadata.sizes.sample_count
        /\ disk.preamble.length = metadata.sizes.preamble_length
    BY <1>4 DEF LoadFiles, Exit
  <2>2. recording \in Captures /\ disk.preamble \in Preamble
    BY <1>2, <2>1, FilesAssumption
  <2>3. RangePart'
    BY <1>1, <1>2, <1>4, <2>1, <2>2 DEF RangePart
  <2>4. SourcePart' /\ GridPart' /\ PeakPart'
    BY <1>1, <1>4 DEF DemoInv, SourcePart, GridPart, PeakPart, ReplayHasOneSource,
                      SuccessMeansTruthIsThePeak
  <2> QED
    BY <1>2, <2>3, <2>4 DEF DemoInv
<1> QED
  BY <1>1, <1>3, <1>4

\* The first timing, or a step that does not divide the range.
LEMMA BeginGridInv == ASSUME DemoInv, BeginGrid PROVE DemoInv'
<1>1. /\ stage = "grid" /\ stage' \in {"failure", "grid"}
      /\ UNCHANGED <<program, disk, recording, arguments, metadata, metadata_path, plan, result>>
  BY DEF BeginGrid, Exit
<1>2. /\ CommandPart' /\ program = "acquisition_demo" /\ RangeLoaded(metadata.sizes)
  BY <1>1 DEF DemoInv, CommandPart, RangePart
<1>3. CASE stage' = "failure"
  <2>1. timing_offsets' = timing_offsets
    BY <1>1, <1>3 DEF BeginGrid, Exit
  <2> QED
    BY <1>1, <1>2, <1>3, <2>1, ExitInv
<1>4. CASE stage' = "grid"
  <2>1. PICK m : m = metadata.sizes
    OBVIOUS
  <2>2. /\ (m.timing_search_stop_inclusive - m.timing_search_start) % m.timing_search_step = 0
        /\ timing_offsets' = <<m.timing_search_start>>
    BY <1>4, <2>1 DEF BeginGrid, Exit
  <2>3. GridBegun(<<m.timing_search_start>>, m) /\ Increasing(<<m.timing_search_start>>)
    <3>1. RangeLoaded(m)
      BY <1>2, <2>1
    <3>2. /\ m.timing_search_start \in Size /\ m.timing_search_step \in Size
          /\ m.timing_search_start <= m.timing_search_stop_inclusive
      BY <3>1, LoadedRange
    <3> DEFINE start == m.timing_search_start
               size == m.timing_search_step
    <3>3. start + size * (1 - 1) = start
      <4>1. start \in Int /\ size \in Int
        BY <3>2, SizeAssumption DEF Size
      <4> HIDE DEF start, size
      <4> QED
        BY <4>1
    <3> HIDE DEF start, size
    <3>4. GridBegun(<<start>>, m)
      <4>1. <<start>> \in Seq(Size) /\ <<start>> # << >> /\ Len(<<start>>) = 1 /\ <<start>>[1] = start
        BY <3>2 DEF start
      <4> DEFINE s == <<start>>
      <4>2. \A i \in 1 .. 1 : s[i] = start + size * (i - 1)
        BY <3>3, <4>1
      <4> HIDE DEF s
      <4> QED
        BY <2>2, <3>2, <4>1, <4>2 DEF GridBegun, start, size, s
    <3>5. Increasing(<<start>>)
      BY DEF Increasing
    <3> QED
      BY <3>4, <3>5 DEF start
  <2>4. GridPart'
    BY <1>1, <1>4, <2>1, <2>2, <2>3 DEF GridPart
  <2>5. SourcePart' /\ RangePart' /\ PeakPart'
    BY <1>1, <1>4 DEF DemoInv, SourcePart, RangePart, PeakPart, ReplayHasOneSource,
                      SuccessMeansTruthIsThePeak
  <2> QED
    BY <1>2, <2>4, <2>5 DEF DemoInv
<1> QED
  BY <1>1, <1>3, <1>4

\* The loop ends when no timing remains.
LEMMA GridEnds == GridDone(LastTiming) <=> ~Remaining(timing_offsets[Len(timing_offsets)], metadata.sizes)
BY DEF GridDone, LastTiming, Remaining

\* One more timing.
LEMMA ExtendGridInv == ASSUME DemoInv, ExtendGrid PROVE DemoInv'
<1>1. /\ stage = "grid" /\ stage' = "grid" /\ timing_offsets # << >>
      /\ UNCHANGED <<program, disk, recording, arguments, metadata, metadata_path, plan, result>>
      /\ Remaining(timing_offsets[Len(timing_offsets)], metadata.sizes)
  BY GridEnds DEF ExtendGrid
<1>2. PICK m, offsets : m = metadata.sizes /\ offsets = timing_offsets
  OBVIOUS
<1>3. /\ RangeLoaded(m) /\ GridBegun(offsets, m) /\ Increasing(offsets)
      /\ Remaining(offsets[Len(offsets)], m)
  BY <1>1, <1>2 DEF DemoInv, RangePart, GridPart
<1> DEFINE longer == Append(offsets, SizeAdd(offsets[Len(offsets)], m.timing_search_step))
<1>4. GridBegun(longer, m) /\ Increasing(longer)
  BY <1>3, GridGrows
<1>5. timing_offsets' = longer
  BY <1>2 DEF ExtendGrid, LastTiming
<1> HIDE DEF longer
<1>6. GridPart'
  BY <1>1, <1>2, <1>4, <1>5 DEF GridPart
<1>7. CommandPart' /\ SourcePart' /\ RangePart' /\ PeakPart'
  BY <1>1 DEF DemoInv, CommandPart, SourcePart, RangePart, PeakPart, ReplayHasOneSource,
              SuccessMeansTruthIsThePeak
<1> QED
  BY <1>6, <1>7 DEF DemoInv

\* A search that succeeds reports the peak of its plan.
LEMMA SearchFindsPeak ==
  ASSUME NEW p \in Plan, NEW c \in Captures, NEW implementation,
         SearchResult(p, c, implementation).ok
  PROVE  BestIsPeak(p, c, SearchResult(p, c, implementation).best)
<1> DEFINE r == SearchResult(p, c, implementation)
<1>1. implementation \in Implementations
  <2> SUFFICES ASSUME implementation \notin Implementations PROVE FALSE
    OBVIOUS
  <2>1. r = [NoResult EXCEPT !.error = "implementation unavailable"]
    BY DEF SearchResult
  <2>2. r.ok = FALSE
    BY <2>1 DEF NoResult
  <2> QED
    BY <2>2
<1>2. RunError(p, c) = NoError
  <2> SUFFICES ASSUME RunError(p, c) # NoError PROVE FALSE
    OBVIOUS
  <2>1. r = [NoResult EXCEPT !.error = RunError(p, c)]
    BY <1>1 DEF SearchResult
  <2>2. r.ok = FALSE
    BY <2>1 DEF NoResult
  <2> QED
    BY <2>2
<1>3. r = TopTwoResult(p, c)
  BY <1>1, <1>2 DEF SearchResult
<1>4. PICK h \in Hypotheses(p) : /\ IsPeak(p, c, h, Hypotheses(p))
                                 /\ TopTwoResult(p, c).best = CandidateOf(p, c, h)
  BY <1>2, SearchedPeaks
<1> QED
  BY <1>3, <1>4 DEF BestIsPeak

\* The plan of the whole grid, and its search.
LEMMA SearchRecordingInv == ASSUME DemoInv, SearchRecording PROVE DemoInv'
<1>1. /\ stage = "grid" /\ stage' \in {"failure", "searched"} /\ timing_offsets # << >>
      /\ UNCHANGED <<program, disk, recording, arguments, metadata, metadata_path, timing_offsets>>
      /\ ~Remaining(timing_offsets[Len(timing_offsets)], metadata.sizes)
  BY GridEnds DEF SearchRecording, Exit
<1>2. /\ CommandPart' /\ program = "acquisition_demo" /\ RangeLoaded(metadata.sizes)
      /\ metadata.cfo_hypotheses_hz \in Seq(Frequencies \cup {NaN})
      /\ recording \in Captures /\ disk.preamble \in Preamble
      /\ disk.preamble.length = metadata.sizes.preamble_length
      /\ GridBegun(timing_offsets, metadata.sizes) /\ Increasing(timing_offsets)
  BY <1>1 DEF DemoInv, CommandPart, RangePart, GridPart
<1>3. CASE stage' = "failure"
  BY <1>1, <1>2, <1>3, ExitInv
<1>4. CASE stage' = "searched"
  <2>1. PICK config : config = [sample_rate_valid |-> TRUE,
                                preamble |-> disk.preamble,
                                timing_offsets |-> timing_offsets,
                                frequency_offsets_hz |-> metadata.cfo_hypotheses_hz]
    OBVIOUS
  <2>2. /\ plan' = PreparedPlan(config) /\ PlanError(config) = NoError
        /\ result' = SearchResult(plan', recording, arguments.implementation)
    BY <1>4, <2>1 DEF SearchRecording, Exit
  <2>3. config \in Config
    BY <1>2, <2>1 DEF Config, Preamble, GridBegun
  <2>4. plan' \in Plan /\ plan'.preamble_length = metadata.sizes.preamble_length
    <3>1. PreparedPlan(config).preamble_length = config.preamble.length
      BY <2>2 DEF PreparedPlan
    <3> QED
      BY <1>2, <2>1, <2>2, <2>3, <3>1, PreparedPlanType
  <2>5. GridPart'
    BY <1>1, <1>2, <1>4, <2>4 DEF GridPart
  <2>6. PeakPart'
    <3> PICK name : name = arguments.implementation
      OBVIOUS
    <3>1. PICK p \in Plan, c \in Captures : p = plan' /\ c = recording
      BY <1>2, <2>4
    <3>2. SearchResult(p, c, name).ok => BestIsPeak(p, c, SearchResult(p, c, name).best)
      BY SearchFindsPeak
    <3>3. result'.ok => BestIsPeak(plan', recording', result'.best)
      BY <1>1, <2>2, <3>1, <3>2
    <3>4. BestIsPeak(plan, recording, result.best)' <=> BestIsPeak(plan', recording', result'.best)
      BY DEF BestIsPeak
    <3> QED
      BY <1>4, <3>3, <3>4 DEF PeakPart, SuccessMeansTruthIsThePeak
  <2>7. SourcePart' /\ RangePart'
    BY <1>1, <1>2, <1>4 DEF DemoInv, SourcePart, RangePart, ReplayHasOneSource
  <2> QED
    BY <1>2, <2>5, <2>6, <2>7 DEF DemoInv
<1> QED
  BY <1>1, <1>3, <1>4

\* Success is reported for the peak only.
LEMMA ReportInv == ASSUME DemoInv, Report PROVE DemoInv'
<1>1. /\ stage = "searched" /\ program = "acquisition_demo"
      /\ stage' = IF AcquisitionSuccess(result) THEN "success" ELSE "failure"
      /\ UNCHANGED <<program, disk, recording, arguments, metadata, metadata_path, timing_offsets,
                     plan, result>>
  BY DEF DemoInv, RangePart, Report, Exit
<1>2. CommandPart' /\ SourcePart' /\ RangePart' /\ GridPart'
  BY <1>1 DEF DemoInv, CommandPart, SourcePart, RangePart, GridPart, ReplayHasOneSource
<1>3. SuccessMeansTruthIsThePeak'
  <2> SUFFICES ASSUME stage' = "success" PROVE SuccessMeansTruthIsThePeak'
    BY DEF SuccessMeansTruthIsThePeak
  <2>1. AcquisitionSuccess(result)
    BY <1>1
  <2>2. PICK h \in Hypotheses(plan) : /\ IsPeak(plan, recording, h, Hypotheses(plan))
                                      /\ result.best = CandidateOf(plan, recording, h)
    BY <1>1, <2>1 DEF DemoInv, PeakPart, BestIsPeak, AcquisitionSuccess
  <2>3. /\ CandidateOf(plan, recording, h).timing_offset = metadata.sizes.true_timing_offset
        /\ CandidateOf(plan, recording, h).frequency_offset_hz = metadata.true_cfo_hz
    BY <2>1, <2>2 DEF AcquisitionSuccess
  <2> QED
    BY <1>1, <2>2, <2>3 DEF SuccessMeansTruthIsThePeak
<1>4. PeakPart'
  BY <1>1, <1>3 DEF PeakPart
<1> QED
  BY <1>2, <1>4 DEF DemoInv

\* The stages of both programs keep the invariant.
LEMMA DemoInvariance == Spec => []DemoInv
<1>1. DemoInv /\ [Next]_vars => DemoInv'
  <2> SUFFICES ASSUME DemoInv, [Next]_vars PROVE DemoInv'
    OBVIOUS
  <2>1. CASE Next
    BY <2>1, ReadArgumentInv, ChooseMetadataInv, LoadReplayMetadataInv, RunReplayInv,
       LoadAcquisitionMetadataInv, LoadFilesInv, BeginGridInv, ExtendGridInv,
       SearchRecordingInv, ReportInv DEF Next
  <2>2. CASE UNCHANGED vars
    <3>1. ReplayHasOneSource'
      <4>1. ReplayHasOneSource
        BY DEF DemoInv, SourcePart
      <4>2. PICK read : read = disk[metadata_path]
        OBVIOUS
      <4>3. /\ ReplayContract(read)' <=> ReplayContract(read)
            /\ ReplayCandidate(read, TRUE)' = ReplayCandidate(read, TRUE)
        BY <2>2, SameParsing DEF vars
      <4> QED
        BY <2>2, <4>1, <4>2, <4>3 DEF vars, ReplayHasOneSource, ReplayConfiguration
    <3> QED
      BY <2>2, <3>1 DEF vars, DemoInv, CommandPart, SourcePart, RangePart, GridPart, PeakPart,
                        SuccessMeansTruthIsThePeak
  <2> QED
    BY <2>1, <2>2
<1> QED
  BY <1>1, DemoInitInv, PTL DEF Spec

(***************************************************************************)
(* ReplayHasOneSource: whatever the command line and the files hold, a     *)
(* replay is configured from a whole v2 document or from the defaults.     *)
(***************************************************************************)
THEOREM ReplayIsConfiguredOnce == Spec => []ReplayHasOneSource
<1>1. DemoInv => ReplayHasOneSource
  BY DEF DemoInv, SourcePart
<1> QED
  BY <1>1, DemoInvariance, PTL

(***************************************************************************)
(* LoadedSizesAreExact: for every file, every length of the numbers in it  *)
(* and every width of size_t, the samples per symbol of a replay equal the *)
(* number that its document writes, and a document is not refused because  *)
(* of a number that is a size.                                             *)
(***************************************************************************)
THEOREM LoadedSizesAreWritten == Spec => []LoadedSizesAreExact
<1>1. DemoInv => LoadedSizesAreExact
  <2> SUFFICES ASSUME DemoInv, program = "replay_demo", NEW path \in {"sidecar", "other"},
                      disk[path] # Missing, disk[path].samples_per_symbol \notin {Null, Missing}
               PROVE  LET token == disk[path].samples_per_symbol
                      IN  /\ stage = "configured" /\ metadata_path = path =>
                               ExactSizes(token) = {metadata.samples_per_symbol}
                          /\ stage = "metadata" /\ IsJsonNumber(token) /\ ExactSizes(token) # {} =>
                               SizeParses(token)
    BY DEF LoadedSizesAreExact
  <2> DEFINE token == disk[path].samples_per_symbol
  <2>1. disk \in Disks
    BY DEF DemoInv, CommandPart
  <2>2. token \in Token /\ token \notin {Null, Missing}
    BY <2>1, FilesAssumption DEF IsDocument, SizeFields
  <2>3. ASSUME stage = "configured", metadata_path = path
        PROVE  ExactSizes(token) = {metadata.samples_per_symbol}
    <3> DEFINE document == disk[path]
    <3>1. metadata_path # Default
      BY <2>3, DefaultAssumption
    <3>2. ReplayContract(document) /\ metadata = ReplayCandidate(document, TRUE)
      BY <2>3, <3>1 DEF DemoInv, SourcePart, ReplayHasOneSource
    <3>3. AllParse(document, ReplayFields)
      BY <3>2 DEF ReplayContract
    <3> HIDE DEF document
    <3>4. 7 \in DOMAIN ReplayFields /\ DOMAIN ReplayFields \subseteq Nat \ {0}
          /\ ReplayFields[7] = "samples_per_symbol"
      BY DEF ReplayFields
    <3>5. "samples_per_symbol" \in ParsedFields(document, ReplayFields)
      BY <3>3, <3>4 DEF AllParse
    <3>6. metadata.samples_per_symbol = FieldValue(document, "samples_per_symbol")
      BY <3>2, <3>5 DEF ReplayCandidate
    <3>7. document.samples_per_symbol = token
      BY DEF document
    <3>8. metadata.samples_per_symbol = ParseMetadataSize(token)
      BY <2>2, <3>6, <3>7 DEF FieldValue, SizeFields
    <3>9. FieldParses(document, "samples_per_symbol")
      BY <3>3, <3>4, AllFieldsParse
    <3>10. ParseMetadataSize(token) # Refused
      BY <3>7, <3>9 DEF FieldParses, SizeFields, SizeParses
    <3> QED
      BY <2>2, <3>8, <3>10, AcceptedSizeIsExact
  <2>4. ASSUME IsJsonNumber(token), ExactSizes(token) # {}
        PROVE  SizeParses(token)
    <3>1. ExactSizes(token) = {ParseMetadataSize(token)} \ {Refused}
      BY <2>2, <2>4, ParsedSizeIsExact
    <3> QED
      BY <2>2, <2>4, <3>1 DEF SizeParses
  <2> QED
    BY <2>3, <2>4
<1> QED
  BY <1>1, DemoInvariance, PTL

(***************************************************************************)
(* SearchedGridIsWhole: for every width of size_t and every range that the *)
(* loader admits, the loop lists the whole range and every window of it    *)
(* lies in the recording.                                                  *)
(***************************************************************************)
THEOREM GridIsSearchedWhole == Spec => []SearchedGridIsWhole
<1>1. DemoInv => SearchedGridIsWhole
  <2> SUFFICES ASSUME DemoInv PROVE SearchedGridIsWhole
    OBVIOUS
  <2>1. \A i, j \in DOMAIN timing_offsets : i < j => timing_offsets[i] < timing_offsets[j]
    BY DEF DemoInv, GridPart, Increasing
  <2>2. ASSUME stage = "searched"
        PROVE  LET m == metadata.sizes
                   offsets == {timing_offsets[i] : i \in DOMAIN timing_offsets}
               IN  /\ offsets = {t \in m.timing_search_start .. m.timing_search_stop_inclusive :
                                    (t - m.timing_search_start) % m.timing_search_step = 0}
                   /\ m.timing_search_stop_inclusive \in offsets
                   /\ \A t \in offsets : t + plan.preamble_length <= Recording[recording].length
    <3>1. PICK m, grid : m = metadata.sizes /\ grid = timing_offsets
      OBVIOUS
    <3>2. /\ RangeLoaded(m) /\ GridBegun(grid, m) /\ ~Remaining(grid[Len(grid)], m)
          /\ Recording[recording].length = m.sample_count
          /\ plan.preamble_length = m.preamble_length
      BY <2>2, <3>1 DEF DemoInv, RangePart, GridPart
    <3> DEFINE offsets == {grid[i] : i \in DOMAIN grid}
               start == m.timing_search_start
               stop == m.timing_search_stop_inclusive
    <3>3. /\ offsets = {t \in start .. stop : (t - start) % m.timing_search_step = 0}
          /\ stop \in offsets
      BY <3>2, GridIsWhole
    <3>4. /\ start \in Int /\ stop \in Int /\ m.sample_count \in Int /\ m.preamble_length \in Int
          /\ stop <= m.sample_count - m.preamble_length
      BY <3>2, SizeAssumption DEF RangeLoaded, InvalidRange, SizeFields, Size
    <3> HIDE DEF offsets, start, stop
    <3>5. \A t \in offsets : t + m.preamble_length <= m.sample_count
      BY <3>3, <3>4
    <3> QED
      BY <3>1, <3>2, <3>3, <3>5 DEF offsets, start, stop
  <2> QED
    BY <2>1, <2>2 DEF SearchedGridIsWhole
<1> QED
  BY <1>1, DemoInvariance, PTL

(***************************************************************************)
(* SuccessMeansTruthIsThePeak: exit code 0 of acquisition_demo vouches for *)
(* the true hypothesis, whatever was recorded.                             *)
(***************************************************************************)
THEOREM SuccessIsThePeak == Spec => []SuccessMeansTruthIsThePeak
<1>1. DemoInv => SuccessMeansTruthIsThePeak
  BY DEF DemoInv, PeakPart
<1> QED
  BY <1>1, DemoInvariance, PTL

=============================================================================
