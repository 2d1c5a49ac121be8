---------------------------- MODULE WatermarkCode ----------------------------
(***************************************************************************)
(* The watermark of packages/watermark/src/index.js: a payload becomes     *)
(* repeated blocks of a sync word and Hamming(7,4) codewords, the bits are *)
(* spread over tiles of time and frequency, and are voted on when they are *)
(* read back.                                                              *)
(*                                                                         *)
(* The signal is ideal: the carriers of different tiles do not disturb     *)
(* each other and the host audio is silent, so that what a tile holds is   *)
(* the sum of the polarities embedded in it.  A payload is the sequence of *)
(* its nibbles, of four bits each.                                         *)
(***************************************************************************)
EXTENDS Integers, Sequences, FiniteSets, Functions

CONSTANTS SyncWord,           \* SYNC_WORD, as bits
          Nibbles,            \* nibbles of a payload, 16 in the code
          RepetitionFactor,
          SubbandCount

Bit == {0, 1}
Xor(a, b, c) == (a + b + c) % 2

BlockBits == Len(SyncWord) + 7 * Nibbles
TotalBits == RepetitionFactor * BlockBits

-----------------------------------------------------------------------------
HammingEncode(d) ==
  << Xor(d[1], d[2], d[4]), Xor(d[1], d[3], d[4]), d[1], Xor(d[2], d[3], d[4]), d[2], d[3], d[4] >>

MutantNoCorrection(r) == << r[3], r[5], r[6], r[7] >>

\* The syndrome names the position of a single wrong bit.
HammingDecode(r) ==
  LET s1 == (r[1] + r[3] + r[5] + r[7]) % 2
      s2 == (r[2] + r[3] + r[6] + r[7]) % 2
      s4 == (r[4] + r[5] + r[6] + r[7]) % 2
      errorPos == 4 * s4 + 2 * s2 + s1
      c == [i \in 1 .. 7 |-> IF i = errorPos THEN 1 - r[i] ELSE r[i]]
  IN  << c[3], c[5], c[6], c[7] >>

\* The j-th bit of a block: the sync word, then the codeword of each nibble.
BlockBit(payload, j) ==
  LET coded == j - Len(SyncWord) - 1
  IN  IF j <= Len(SyncWord) THEN SyncWord[j]
      ELSE HammingEncode(payload[coded \div 7 + 1])[(coded % 7) + 1]

\* payloadToBitsECC.
PayloadToBitsECC(payload) ==
  [i \in 1 .. TotalBits |-> BlockBit(payload, ((i - 1) % BlockBits) + 1)]

\* The bits that the repetitions hold for position i of the block.
Votes(bits, i) == [rep \in 1 .. RepetitionFactor |-> bits[(rep - 1) * BlockBits + i]]
Ones(votes) == Cardinality({rep \in DOMAIN votes : votes[rep] = 1})

\* A tie is a 1.
Majority(votes) == IF 2 * Ones(votes) >= Len(votes) THEN 1 ELSE 0

SyncMatches(bits, rep) ==
  Cardinality({i \in DOMAIN SyncWord : bits[(rep - 1) * BlockBits + i] = SyncWord[i]})

\* The repetitions whose sync word is three quarters right, syncQuality being
\* their share.
SyncOk(bits) == {rep \in 1 .. RepetitionFactor : SyncMatches(bits, rep) >= (3 * Len(SyncWord)) \div 4}

\* decodeBitsECC.
DecodeBitsECC(bits) ==
  LET Codeword(k) == [p \in 1 .. 7 |-> Majority(Votes(bits, Len(SyncWord) + 7 * (k - 1) + p))]
  IN  [payload |-> [k \in 1 .. Nibbles |-> HammingDecode(Codeword(k))],
       syncOk  |-> Cardinality(SyncOk(bits))]

-----------------------------------------------------------------------------
FrameCount(frames, frameSize, hopLength) ==
  1 + (IF frames > frameSize THEN frames - frameSize ELSE 0) \div hopLength

MutantEvenStride(frameCount) ==
  [i \in 1 .. TotalBits |-> << ((i - 1) * 36) % frameCount, ((i - 1) * 19) % SubbandCount >>]

\* createSpreadingPlan: the tile of each bit.
SpreadingPlan(frameCount) ==
  [i \in 1 .. TotalBits |-> << ((i - 1) * 37) % frameCount, ((i - 1) * 19) % SubbandCount >>]

\* embedBitsIntoChannel on silence: each bit pushes its tile up or down.
EmbedBits(bits, plan) ==
  [tile \in Range(plan) |->
     LET there == {i \in DOMAIN plan : plan[i] = tile}
         ups == Cardinality({i \in there : bits[i] = 1})
     IN  ups - (Cardinality(there) - ups)]

\* correlateChannel, and the sign of its scores.
HardBits(channel, plan) ==
  [i \in DOMAIN plan |-> IF channel[plan[i]] >= 0 THEN 1 ELSE 0]

Embed(payload, frameCount) ==
  EmbedBits(PayloadToBitsECC(payload), SpreadingPlan(frameCount))

\* comparePayloadBits, in bits.
MatchingBits(expected, payload) ==
  Cardinality({k \in (1 .. Nibbles) \X (1 .. 4) : expected[k[1]][k[2]] = payload[k[1]][k[2]]})

\* extract: what is read, and whether it counts as the expected payload.
Extract(channel, frameCount, expected) ==
  LET decoded == DecodeBitsECC(HardBits(channel, SpreadingPlan(frameCount)))
  IN  [payload   |-> decoded.payload,
       recovered |-> /\ 4 * MatchingBits(expected, decoded.payload) >= 3 * 4 * Nibbles
                     /\ 2 * decoded.syncOk >= RepetitionFactor]
=============================================================================
