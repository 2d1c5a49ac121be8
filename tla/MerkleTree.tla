----------------------------- MODULE MerkleTree -----------------------------
(***************************************************************************)
(* The Merkle tree of packages/ledger/src/index.js, over symbolic hashes:  *)
(* SHA-256 is taken to be injective, so the hash of a pair is the pair.    *)
(* A leaf hash is any value that is not a pair.                            *)
(*                                                                         *)
(* The code rebuilds `level` in a while loop; here Levels(hashes) is the   *)
(* function from a number of rounds, which is never more than the number   *)
(* of leaves, to the level they leave, and Height(hashes) the number of    *)
(* rounds the loop runs.                                                   *)
(***************************************************************************)
EXTENDS Integers, Sequences, SequencesExt

CONSTANT ZERO_HASH   \* the root of no leaves at all

HashPair(left, right) == <<left, right>>

MutantPromoteOddNode(level) ==
  [k \in 1 .. (Len(level) + 1) \div 2 |->
     IF 2*k <= Len(level) THEN HashPair(level[2*k - 1], level[2*k]) ELSE level[2*k - 1]]

\* One round of the loop: neighbours are hashed together and a last node
\* without a right neighbour is hashed with itself.
NextLevel(level) ==
  LET Node(i) == IF i <= Len(level) THEN level[i] ELSE level[i - 1]
  IN  [k \in 1 .. (Len(level) + 1) \div 2 |-> HashPair(level[2*k - 1], Node(2*k))]

Levels(hashes) ==
  LET level[k \in 0 .. Len(hashes)] ==
        IF k = 0 THEN hashes ELSE NextLevel(level[k - 1])
  IN  level

\* The loop runs while level.length > 1.
Height(hashes) ==
  LET levels == Levels(hashes)
  IN  CHOOSE k \in DOMAIN levels : /\ Len(levels[k]) <= 1
                                   /\ \A j \in 0 .. k - 1 : Len(levels[j]) > 1

BuildMerkleRoot(hashes) ==
  IF hashes = <<>> THEN ZERO_HASH ELSE Levels(hashes)[Height(hashes)][1]

MutantSiblingSide(level, index) ==
  LET siblingIndex == IF index % 2 = 1 THEN index - 1 ELSE index + 1
  IN  [position |-> "right",
       hash |-> IF siblingIndex < Len(level) THEN level[siblingIndex + 1]
                                             ELSE level[index + 1]]

\* The step of the proof that leaves one level: the sibling of the node at
\* 0-based `index`, or the node itself when it is a last odd one.
ProofStep(level, index) ==
  LET isRightNode == index % 2 = 1
      siblingIndex == IF isRightNode THEN index - 1 ELSE index + 1
  IN  [position |-> IF isRightNode THEN "left" ELSE "right",
       hash |-> IF siblingIndex < Len(level) THEN level[siblingIndex + 1]
                                             ELSE level[index + 1]]

\* index = Math.floor(index / 2), once a round.
Indices(targetIndex, rounds) ==
  LET index[k \in 0 .. rounds] ==
        IF k = 0 THEN targetIndex ELSE index[k - 1] \div 2
  IN  index

\* buildMerkleProof for an index the code accepts (its RangeError is the
\* precondition): one step per level below the root.
BuildMerkleProof(hashes, targetIndex) ==
  LET levels == Levels(hashes)
      index == Indices(targetIndex, Len(hashes))
  IN  [k \in 1 .. Height(hashes) |-> ProofStep(levels[k - 1], index[k - 1])]

Ascend(current, step) ==
  IF step.position = "left" THEN HashPair(step.hash, current)
                            ELSE HashPair(current, step.hash)

\* The hash the verifier arrives at when it folds the proof into the leaf.
FoldProof(leafHash, proof) == FoldLeft(Ascend, leafHash, proof)

VerifyMerkleProof(leafHash, proof, rootHash) ==
  FoldProof(leafHash, proof) = rootHash
=============================================================================
