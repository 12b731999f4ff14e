------------------------------ MODULE IqReader ------------------------------
(***************************************************************************)
(* load_iq_from_file: reads interleaved float32 samples in chunks into a   *)
(* vector that may hold samples of an earlier call.  The file is counted   *)
(* in bytes, so that it may end, and a chunk may end, within a sample.     *)
(* Another process may still be recording: it appends while this one       *)
(* reads, until MaxBytes.                                                  *)
(*                                                                         *)
(* A sample is its number in the file, from one.                           *)
(***************************************************************************)
EXTENDS Naturals, Sequences

CONSTANTS
  SampleBytes,   \* 2 * sizeof(float)
  ChunkBytes,    \* sizeof(buffer), 1024 samples
  MaxBytes

ASSUME ReaderAssumption ==
  /\ SampleBytes \in Nat \ {0} /\ ChunkBytes \in Nat \ {0} /\ MaxBytes \in Nat
  /\ ChunkBytes % SampleBytes = 0

Samples == 1 .. MaxBytes \div SampleBytes

VARIABLES
  file_bytes,    \* length of the file
  not_finite,    \* samples with an infinite or NaN component
  position,      \* bytes read
  out_samples,
  read_stage,    \* "called", "reading", or the value returned
  seen_bytes     \* history: length of the file at the last read

reader_vars == <<file_bytes, not_finite, position, out_samples, read_stage, seen_bytes>>

ReaderInit ==
  /\ file_bytes \in 0 .. MaxBytes
  /\ not_finite \in {{}} \cup {{s} : s \in Samples}
  /\ position = 0
  /\ out_samples \in {<< >>, <<1, 1>>}
  /\ read_stage = "called"
  /\ seen_bytes = 0

\* Variant: samples of the last chunk stay behind a failure.
FailureKeepsSamples(samples) == samples

FailureClears(samples) == << >>

Fail ==
  /\ read_stage' = "failed"
  /\ out_samples' = FailureClears(out_samples)

\* A path with a null byte, or a file that cannot be opened.
RefusePath ==
  /\ read_stage = "called"
  /\ read_stage' = "failed"
  /\ out_samples' = << >>
  /\ UNCHANGED <<file_bytes, not_finite, position, seen_bytes>>

OpenFile ==
  /\ read_stage = "called"
  /\ read_stage' = "reading"
  /\ out_samples' = << >>
  /\ UNCHANGED <<file_bytes, not_finite, position, seen_bytes>>

\* fread of one buffer, which returns less only at the end of the file.
ReadBytes == IF file_bytes - position < ChunkBytes THEN file_bytes - position ELSE ChunkBytes

\* Samples of the chunk, in order.
ChunkSamples(n) == [i \in 1 .. n |-> position \div SampleBytes + i]

ReadChunk ==
  /\ read_stage = "reading"
  /\ seen_bytes' = file_bytes
  /\ position' = position + ReadBytes
  /\ LET chunk == ChunkSamples(ReadBytes \div SampleBytes)
         partial == ReadBytes % SampleBytes # 0
         finite == \A i \in DOMAIN chunk : chunk[i] \notin not_finite
         loaded == out_samples \o chunk
         last == ReadBytes < ChunkBytes
     IN \/ (partial \/ ~finite) /\ Fail
        \/ /\ ~partial /\ finite
           /\ out_samples' = loaded
           /\ read_stage' = IF ~last THEN "reading" ELSE IF loaded = << >> THEN "failed" ELSE "loaded"
  /\ UNCHANGED <<file_bytes, not_finite>>

\* fread reports an error.
ReadError ==
  /\ read_stage = "reading"
  /\ Fail
  /\ UNCHANGED <<file_bytes, not_finite, position, seen_bytes>>

\* The recording goes on, in pieces of any size.
ExtendRecording ==
  /\ \E n \in 1 .. MaxBytes - file_bytes : file_bytes' = file_bytes + n
  /\ UNCHANGED <<not_finite, position, out_samples, read_stage, seen_bytes>>

ReaderNext == RefusePath \/ OpenFile \/ ReadChunk \/ ReadError \/ ExtendRecording

ReaderSpec == ReaderInit /\ [][ReaderNext]_reader_vars

-----------------------------------------------------------------------------
\* Success means all samples of the file as it was at the last read, in order and
\* finite, and no byte besides; failure leaves the vector empty, whatever it held
\* before the call and wherever the failure came (promised in iq_reader.h).
AllSamplesOrNone ==
  /\ read_stage = "loaded" =>
       /\ out_samples = [i \in 1 .. seen_bytes \div SampleBytes |-> i]
       /\ seen_bytes % SampleBytes = 0 /\ seen_bytes > 0
       /\ \A i \in DOMAIN out_samples : out_samples[i] \notin not_finite
  /\ read_stage = "failed" => out_samples = << >>

=============================================================================
