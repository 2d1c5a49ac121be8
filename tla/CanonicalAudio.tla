--------------------------- MODULE CanonicalAudio ---------------------------
(***************************************************************************)
(* Canonical audio: packages/core/src/index.js 518-734, and the copy of it *)
(* that packages/core/src/dsp-worker.js runs in a thread.                  *)
(*                                                                         *)
(* A byte has Byte values, 256 in the code; a 16-bit sample is two of      *)
(* them, a 24-bit one three and the 32-bit integers of the decoder have    *)
(* four, so widths keep their proportions whatever Byte is.  A WAV file is *)
(* the list of its chunks; the name "fmt " is "fmt" here.  An IEEE float   *)
(* is a fraction, or not a number.                                         *)
(***************************************************************************)
EXTENDS Integers, Sequences, SequencesExt

CONSTANTS Byte,         \* values of a byte
          TargetRate,   \* TARGET_SAMPLE_RATE
          FloatOf(_)    \* the float that four bytes encode

\* How many values integers of one to four bytes have.
Values == <<Byte, Byte * Byte, Byte * Byte * Byte, Byte * Byte * Byte * Byte>>

MaxInt32 == Values[4] \div 2 - 1

\* The first error, or none.
Outcome(ok, value) == [ok |-> ok, value |-> value]
Refused == Outcome(FALSE, <<>>)

\* The two's complement integer that an unsigned one stands for.
Signed(unsigned, width) ==
  IF unsigned < Values[width] \div 2 THEN unsigned ELSE unsigned - Values[width]

\* readInt16LE and decodeInt24LE.
Int16(bytes) == Signed(bytes[1] + Byte * bytes[2], 2)
Int24(bytes) == Signed(bytes[1] + Byte * (bytes[2] + Byte * bytes[3]), 3)

-----------------------------------------------------------------------------
LastBody(file, id) ==
  LET with == {i \in DOMAIN file.chunks : file.chunks[i].id = id}
  IN  file.chunks[CHOOSE i \in with : \A j \in with : j <= i].body

\* parseWavFile.  `riff` is the check of the file's head, `cut` that a chunk
\* is longer than the rest of the file; of several chunks of one kind the
\* last one counts.
ParseWavFile(file) ==
  IF /\ file.riff /\ ~ file.cut
     /\ {"fmt", "data"} \subseteq {file.chunks[i].id : i \in DOMAIN file.chunks}
    THEN Outcome(TRUE, [format |-> LastBody(file, "fmt"), data |-> LastBody(file, "data")])
    ELSE Refused

ValidFormat(format) ==
  /\ format.sampleRate > 0
  /\ format.channels \in {1, 2}
  /\ \/ format.audioFormat = 1 /\ format.bytesPerSample \in {2, 3}
     \/ format.audioFormat = 3 /\ format.bytesPerSample = 4

\* The bytes of each sample in turn.
Samples(data, width) ==
  [i \in 1 .. Len(data) \div width |-> SubSeq(data, (i - 1) * width + 1, i * width)]

Truncated(num, den) == IF num >= 0 THEN num \div den ELSE - ((- num) \div den)

Clamped(v) == IF v > MaxInt32 THEN MaxInt32 ELSE IF v < - MaxInt32 - 1 THEN - MaxInt32 - 1 ELSE v

FromFloat(f) == Clamped(Truncated(f.num * MaxInt32, f.den))

MutantUnshiftedSample(bytes) ==
  CASE Len(bytes) = 2 -> Int16(bytes)
    [] Len(bytes) = 3 -> Int24(bytes)
    [] Len(bytes) = 4 -> FromFloat(FloatOf(bytes))

DecodeSample(bytes) ==
  CASE Len(bytes) = 2 -> Int16(bytes) * Byte
    [] Len(bytes) = 3 -> Int24(bytes)
    [] Len(bytes) = 4 -> FromFloat(FloatOf(bytes))

DecodePcmSamplesToInt32(data, format) ==
  LET samples == Samples(data, format.bytesPerSample)
  IN  IF format.audioFormat = 3 /\ \E i \in DOMAIN samples : FloatOf(samples[i]).kind # "finite"
        THEN Refused
        ELSE Outcome(TRUE, [i \in DOMAIN samples |-> DecodeSample(samples[i])])

-----------------------------------------------------------------------------
\* Rounded to the nearest integer, halves away from zero.
DivRoundSigned(num, den) ==
  IF num >= 0 THEN (num + den \div 2) \div den ELSE - ((- num + den \div 2) \div den)

\* resampleInterleavedLinearInt32: output frame k lies k * rate / TargetRate
\* frames into the input, between its left and its right neighbour there.
ResampleInterleaved(input, channels, rate) ==
  LET inFrames  == Len(input) \div channels
      outFrames == (inFrames * TargetRate + rate \div 2) \div rate
      At(frame, c) == input[frame * channels + c + 1]
      Sample(k, c) ==
        LET left  == (k * rate) \div TargetRate
            right == IF left + 1 < inFrames THEN left + 1 ELSE inFrames - 1
            frac  == (k * rate) % TargetRate
        IN  DivRoundSigned(At(left, c) * (TargetRate - frac) + At(right, c) * frac, TargetRate)
  IN  [i \in 1 .. outFrames * channels |-> Sample((i - 1) \div channels, (i - 1) % channels)]

\* writeInt24LE: the low three bytes of a sample.
Int24LE(v) == << v % Byte, (v \div Byte) % Byte, (v \div (Byte * Byte)) % Byte >>

\* writeInterleavedInt32To24BitLE.
WriteInterleaved24(samples) ==
  [j \in 1 .. 3 * Len(samples) |-> Int24LE(samples[(j - 1) \div 3 + 1])[((j - 1) % 3) + 1]]

-----------------------------------------------------------------------------
\* The rest of canonicalizeWavTo24BitLE, after the samples are decoded.
Canonical(decoded, format) ==
  IF ~ decoded.ok THEN Refused
  ELSE Outcome(TRUE,
         WriteInterleaved24(IF format.sampleRate = TargetRate THEN decoded.value
                            ELSE ResampleInterleaved(decoded.value, format.channels, format.sampleRate)))

\* The file is read, its format is supported and its data are whole frames.
Readable(file) ==
  LET wav == ParseWavFile(file)
  IN  /\ wav.ok
      /\ ValidFormat(wav.value.format)
      /\ Len(wav.value.data) % (wav.value.format.bytesPerSample * wav.value.format.channels) = 0

CanonicalizeWavTo24BitLE(file) ==
  IF ~ Readable(file) THEN Refused
  ELSE LET wav == ParseWavFile(file).value
       IN  Canonical(DecodePcmSamplesToInt32(wav.data, wav.format), wav.format)

MutantUnshifted(data, format) ==
  LET samples == Samples(data, format.bytesPerSample)
  IN  Outcome(TRUE, [i \in DOMAIN samples |->
                      IF Len(samples[i]) = 2 THEN Int16(samples[i]) ELSE Int24(samples[i])])

\* What the thread decodes.  Its copy lacks the check that a float is finite:
\* not a number becomes 0 in an Int32Array, and an infinity is clamped.
WorkerDecode(data, format) ==
  LET FromAnyFloat(f) ==
        CASE f.kind = "nan" -> 0
          [] f.kind = "+inf" -> MaxInt32
          [] f.kind = "-inf" -> - MaxInt32 - 1
          [] f.kind = "finite" -> FromFloat(f)
      samples == Samples(data, format.bytesPerSample)
  IN  Outcome(TRUE, [i \in DOMAIN samples |->
        IF format.audioFormat = 3 THEN FromAnyFloat(FloatOf(samples[i]))
                                  ELSE DecodeSample(samples[i])])

WorkerCanonicalize(file) ==
  IF ~ Readable(file) THEN Refused
  ELSE LET wav == ParseWavFile(file).value
       IN  Canonical(WorkerDecode(wav.data, wav.format), wav.format)
=============================================================================
