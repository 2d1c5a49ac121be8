---------------------------- MODULE MCMerkleTree ----------------------------
(***************************************************************************)
(* Every list of leaf hashes up to a bound, built one leaf at a time the   *)
(* way a batch collects events, and what the tree functions return for it. *)
(* The value repeated in a list stands for two events with one content.    *)
(***************************************************************************)
EXTENDS MerkleTree

CONSTANTS Leaves,      \* the leaf hashes events may have
          MaxLeaves,   \* bound: leaves in the list under test
          MaxOther     \* bound: leaves in the list it is compared with

VARIABLE leaves   \* the list under test

MerkleInit == leaves = <<>>

AddLeaf == /\ Len(leaves) < MaxLeaves
           /\ \E leaf \in Leaves : leaves' = Append(leaves, leaf)

StartOver == leaves' = <<>>

MerkleNext == AddLeaf \/ StartOver

MerkleSpec == MerkleInit /\ [][MerkleNext]_leaves

Positions(list) == 0 .. Len(list) - 1

OtherLists == UNION {[1 .. n -> Leaves] : n \in 1 .. MaxOther}

\* The reference: root[k][i] is the root of the perfect tree of height k whose
\* first leaf is list[i]; where the list ends before its right half begins,
\* that half repeats the left one.
TreeRoot(list, height) ==
  LET width[k \in 0 .. height] == IF k = 0 THEN 1 ELSE 2 * width[k - 1]
      root[k \in 0 .. height] ==
        IF k = 0 THEN list
        ELSE LET half == root[k - 1]
                 Right(i) == i + width[k - 1]
             IN  [i \in DOMAIN list |->
                    HashPair(half[i], half[IF Right(i) <= Len(list) THEN Right(i) ELSE i])]
  IN  root[height][1]

\* buildMerkleRoot, which works upwards level by level, computes the root of
\* the perfect tree over the list, whatever the number of leaves is.
RootIsPerfectTree ==
  leaves # <<>> => BuildMerkleRoot(leaves) = TreeRoot(leaves, Height(leaves))

\* The proof buildMerkleProof makes for any position is accepted by
\* verifyMerkleProof for the leaf at that position, last odd leaves included,
ProofsVerify ==
  \A i \in Positions(leaves) :
    VerifyMerkleProof(leaves[i + 1], BuildMerkleProof(leaves, i), BuildMerkleRoot(leaves))

\* and a proof made from any other list, of whatever length, never gets a
\* leaf accepted under this root that is not one of this list's leaves.
NoForeignInclusion ==
  leaves # <<>> =>
    \A other \in OtherLists : \A i \in Positions(other) : \A leaf \in Leaves :
      VerifyMerkleProof(leaf, BuildMerkleProof(other, i), BuildMerkleRoot(leaves))
        => leaf \in ToSet(leaves)

\* Proofs prove the leaves of a list and nothing else: every position has a
\* proof that verifies, and no other hash does.
ProvesExactlyItsLeaves == ProofsVerify /\ NoForeignInclusion

\* Two lists of one length share a root only when they are the same list: the
\* root fixes the order of a batch's events. (Of lists of different length it
\* does not: an odd list shares its root with the one that repeats its end.)
RootBindsOrder ==
  \A other \in OtherLists :
    (Len(other) = Len(leaves) /\ BuildMerkleRoot(other) = BuildMerkleRoot(leaves))
      => other = leaves

\* The root of a list is its perfect tree's and, for its length, of no other list.
RootIsBindingTree == RootIsPerfectTree /\ RootBindsOrder
=============================================================================
