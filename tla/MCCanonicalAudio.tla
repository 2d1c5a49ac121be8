-------------------------- MODULE MCCanonicalAudio --------------------------
(***************************************************************************)
(* WAV files up to a bound, a sample or a chunk at a time, and the         *)
(* canonical bytes that the two copies of the code make of them.           *)
(***************************************************************************)
EXTENDS CanonicalAudio

CONSTANTS Rates,        \* sample rates of the files
          MaxSamples,   \* bound: samples in a data chunk
          MaxChunks     \* bound: chunks of a file

ASSUME AudioAssumption ==
  /\ Byte \in Nat \ {0} /\ Byte % 2 = 0
  /\ TargetRate \in Nat \ {0}
  /\ Rates \subseteq Nat
  /\ \A bytes \in [1 .. 4 -> 0 .. Byte - 1] :
       FloatOf(bytes).kind = "finite" =>
         FloatOf(bytes).num \in Int /\ FloatOf(bytes).den \in Nat \ {0}

VARIABLE wav   \* the file under test

FormatsOf(kinds, channels, rates) ==
  {[audioFormat |-> kind[1], bytesPerSample |-> kind[2], channels |-> c, sampleRate |-> r] :
     kind \in kinds, c \in channels, r \in rates}

Supported == FormatsOf({<<1, 2>>, <<1, 3>>, <<3, 4>>}, {1, 2}, Rates)
Unsupported == FormatsOf({<<3, 2>>, <<1, 4>>}, {1}, {TargetRate})
                 \cup FormatsOf({<<1, 2>>}, {0, 3}, {TargetRate}) \cup FormatsOf({<<1, 2>>}, {1}, {0})

\* Samples at the ends of the range, around zero and in between.
StoredSamples(width) ==
  LET Half == Values[width] \div 2
      Bytes(v) == Int24LE(v) \o << (v \div Values[3]) % Byte >>
  IN  {SubSeq(Bytes(v), 1, width) : v \in {- Half, -3, -1, 2, Half - 1}}

\* Floats, told apart by their low byte: a quarter, minus three halves, an
\* infinity, and not a number.
MCFloatOf(bytes) ==
  LET finite(num, den) == [kind |-> "finite", num |-> num, den |-> den]
  IN  CASE bytes[1] = 0 -> finite(1, 4)
        [] bytes[1] = 1 -> finite(-3, 2)
        [] bytes[1] = 2 -> [kind |-> "-inf"]
        [] OTHER -> [kind |-> "nan"]

Data == LastBody(wav, "data")
Format == LastBody(wav, "fmt")

File(chunks) == [riff |-> TRUE, cut |-> FALSE, chunks |-> chunks]
NoFile == File(<<>>)

WithData(format, data) == File(<<[id |-> "fmt", body |-> format], [id |-> "data", body |-> data]>>)

AudioInit ==
  wav \in {NoFile} \cup {WithData(format, <<>>) : format \in Supported \cup Unsupported}

WithChunk(chunk) == wav' = [wav EXCEPT !.chunks = Append(@, chunk)]

AddSample ==
  LET last == wav.chunks[Len(wav.chunks)]
  IN  /\ last.id = "data"
      /\ Len(last.body) < MaxSamples * Format.bytesPerSample
      /\ \E bytes \in StoredSamples(Format.bytesPerSample) :
           wav' = [wav EXCEPT !.chunks[Len(wav.chunks)].body = @ \o bytes]

\* A chunk of another kind, a second data chunk, or a second format that
\* stands in for one that is not supported.
AddChunk ==
  /\ Len(wav.chunks) < MaxChunks
  /\ Len(Data) <= Format.bytesPerSample
  /\ \/ ~ ValidFormat(Format) /\ \E format \in Supported : WithChunk([id |-> "fmt", body |-> format])
     \/ Format.sampleRate = TargetRate /\ WithChunk([id |-> "LIST", body |-> <<0>>])
     \/ Format.sampleRate = TargetRate /\ WithChunk([id |-> "data", body |-> <<>>])

\* The file loses its end, or a byte of its head.
DamageFile ==
  /\ Len(Data) <= Format.bytesPerSample
  /\ wav.riff /\ ~ wav.cut
  /\ wav' = [wav EXCEPT !.cut = TRUE] \/ wav' = [wav EXCEPT !.riff = FALSE]

AudioNext == wav # NoFile /\ (AddSample \/ AddChunk \/ DamageFile)

AudioSpec == AudioInit /\ [][AudioNext]_wav

-----------------------------------------------------------------------------
canonical == CanonicalizeWavTo24BitLE(wav)

\* Canonical audio is canonical: written as a 24-bit file at the target rate
\* it is its own canonical audio, or the hash of a recording would depend on
\* how often it was converted.
CanonicalIsFixpoint ==
  canonical.ok =>
    LET again == WithData([audioFormat |-> 1, bytesPerSample |-> 3,
                           channels |-> Format.channels, sampleRate |-> TargetRate],
                          canonical.value)
    IN  CanonicalizeWavTo24BitLE(again) = canonical

\* The samples of a PCM file as three bytes each: a zero byte goes below a
\* sample of 16 bits.
Widened(bytes) == IF Len(bytes) = 2 THEN <<0>> \o bytes ELSE bytes
sourceSamples ==
  LET stored == Samples(Data, Format.bytesPerSample)
  IN  [i \in DOMAIN stored |-> Widened(stored[i])]

canonicalSamples == Samples(canonical.value, 3)
fromPcm == canonical.ok /\ Format.audioFormat = 1

\* A PCM file at the target rate keeps the bytes of every sample, in place.
SamplesAreKept == (fromPcm /\ Format.sampleRate = TargetRate) => canonicalSamples = sourceSamples

\* At time k / TargetRate lies, in channel c of the source, the straight line
\* from the frame at or before this time to the next one, or to itself where it
\* is the last.  `out` is at most half a unit away from that line.
OnTheLine(out, k, c) ==
  LET frames == Len(sourceSamples) \div Format.channels
      At(frame) == Int24(sourceSamples[frame * Format.channels + c + 1])
  IN  \E left \in 0 .. frames - 1 :
        LET right == IF left = frames - 1 THEN left ELSE left + 1
            past  == k * Format.sampleRate - left * TargetRate
            line  == At(left) * (TargetRate - past) + At(right) * past
        IN  /\ 0 <= past /\ past < TargetRate
            /\ - TargetRate <= 2 * (TargetRate * out - line)
            /\ 2 * (TargetRate * out - line) <= TargetRate

\* A PCM file at another rate is interpolated: every sample of the result comes
\* from its two neighbours in its own channel of the source and from nothing else.
ResamplingInterpolates ==
  (fromPcm /\ Format.sampleRate # TargetRate) =>
    \A i \in DOMAIN canonicalSamples :
      OnTheLine(Int24(canonicalSamples[i]), (i - 1) \div Format.channels, (i - 1) % Format.channels)

\* What is hashed for a recording with integer samples is the recording: kept
\* byte by byte at the target rate, interpolated between the neighbours at any
\* other, and not changed by a second conversion.  Of float samples only the
\* last is said: what is written of them is not their value (index.js:605, :639).
CanonicalAudioIsFaithful == SamplesAreKept /\ ResamplingInterpolates /\ CanonicalIsFixpoint

\* The copy of the code that runs in the worker thread makes the same bytes
\* of every file that the server's own copy accepts, so a proof can be
\* checked wherever its audio was hashed.
WorkerAgrees == canonical.ok => WorkerCanonicalize(wav) = canonical
=============================================================================
