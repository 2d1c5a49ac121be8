--------------------------- MODULE MCWatermarkCode ---------------------------
(***************************************************************************)
(* Damaged watermarks: one repetition is lost to a burst and further bits  *)
(* flip elsewhere; and audio of every length up to a bound.                *)
(***************************************************************************)
EXTENDS WatermarkCode

CONSTANTS Payloads,        \* the payloads under test
          MaxFrameCount    \* bound: frames of the audio

\* The vote is won against one wrong repetition from three repetitions on;
\* the code writes four.
ASSUME CodeAssumption ==
  /\ SyncWord \in Seq(Bit)
  /\ Nibbles \in Nat \ {0} /\ SubbandCount \in Nat \ {0}
  /\ RepetitionFactor \in Nat /\ RepetitionFactor >= 3
  /\ Payloads \subseteq [1 .. Nibbles -> [1 .. 4 -> Bit]]
  /\ MaxFrameCount \in Nat

VARIABLES payload,   \* what was embedded, <<>> for nothing
          burst,     \* the repetition a burst destroys, 0 for none, and what it leaves
          flips,     \* the other bit that flips in each codeword: <<repetition, position>>
          frames     \* frames of the audio, 0 while bits are studied

codeVars == <<payload, burst, flips, frames>>

MCSyncWord == <<0, 1, 0, 1, 1, 0, 1, 0>>
MCPayloads ==
  { << <<0,0,0,0>>, <<0,0,0,0>> >>, << <<1,1,1,1>>, <<0,1,0,0>> >>, << <<1,0,1,1>>, <<0,0,1,0>> >> }

NoBurst == [rep |-> 0, left |-> 0]

CodeInit ==
  /\ payload \in Payloads \cup {<<>>}
  /\ burst = NoBurst
  /\ flips = [k \in 1 .. Nibbles |-> <<0, 0>>]
  /\ frames = 0

Burst ==
  /\ frames = 0 /\ burst.rep = 0
  /\ \E rep \in 1 .. RepetitionFactor, left \in Bit : burst' = [rep |-> rep, left |-> left]
  /\ UNCHANGED <<payload, flips, frames>>

Flip(k) ==
  /\ frames = 0 /\ flips[k] = <<0, 0>>
  /\ \E rep \in 1 .. RepetitionFactor, p \in 1 .. 7 : flips' = [flips EXCEPT ![k] = <<rep, p>>]
  /\ UNCHANGED <<payload, burst, frames>>

Longer ==
  /\ burst = NoBurst /\ flips = [k \in 1 .. Nibbles |-> <<0, 0>>]
  /\ frames < MaxFrameCount
  /\ frames' = frames + 1
  /\ UNCHANGED <<payload, burst, flips>>

CodeNext == payload # <<>> /\ (Burst \/ Longer \/ \E k \in 1 .. Nibbles : Flip(k))

CodeSpec == CodeInit /\ [][CodeNext]_codeVars

-----------------------------------------------------------------------------
Repetition(i) == ((i - 1) \div BlockBits) + 1
Offset(i) == ((i - 1) % BlockBits) + 1

\* The bits as the damage leaves them; a burst turns a repetition into zeros
\* or ones.
Damaged ==
  LET bits == PayloadToBitsECC(payload)
      Flipped(i) == \E k \in 1 .. Nibbles : /\ Repetition(i) = flips[k][1]
                                            /\ Offset(i) = Len(SyncWord) + 7 * (k - 1) + flips[k][2]
  IN  [i \in DOMAIN bits |-> IF Repetition(i) = burst.rep THEN burst.left
                             ELSE IF Flipped(i) THEN 1 - bits[i] ELSE bits[i]]

\* A payload survives the loss of a whole repetition and one further wrong
\* bit in every codeword: the vote may end in a tie, which reads as 1, but
\* then the codeword has one wrong bit and Hamming's syndrome names it.
DamageIsCorrected ==
  payload # <<>> =>
    LET decoded == DecodeBitsECC(Damaged)
    IN  /\ decoded.payload = payload
        /\ 2 * decoded.syncOk >= RepetitionFactor

\* Audio with at least as many frames as the code has bits carries the
\* payload, unless the number of frames is a multiple of the stride of the
\* plan: then 37 steps fall on the same frames and the bits shout each other
\* down, however long the audio is.
LongAudioCarriesPayload ==
  (frames >= TotalBits /\ frames % 37 # 0) =>
    LET read == Extract(Embed(payload, frames), frames, payload)
    IN  read.payload = payload /\ read.recovered
=============================================================================
