---------------------------- MODULE MCAlgorithms ----------------------------
(***************************************************************************)
(* The processing of data in one run: a behaviour is about the pool of     *)
(* audio workers, with two of them and more tasks, so that two tasks wait  *)
(* while others are answered, fail, or go down with their thread; or it    *)
(* studies a Merkle tree, a WAV file, or a watermark.  It leaves the rest  *)
(* alone.                                                                  *)
(***************************************************************************)
EXTENDS DspPool, MCMerkleTree, MCCanonicalAudio, MCWatermarkCode

VARIABLE part

vars == <<part, poolVars, leaves, wav, codeVars>>

Init ==
  /\ part \in {"pool", "tree", "audio", "watermark"}
  /\ PoolInit /\ MerkleInit /\ AudioInit /\ CodeInit
  /\ part # "audio" => wav = NoFile
  /\ part # "watermark" => payload = <<>>

Next ==
  /\ UNCHANGED part
  /\ \/ part = "pool" /\ PoolNext /\ UNCHANGED <<leaves, wav, codeVars>>
     \/ part = "tree" /\ MerkleNext /\ UNCHANGED <<poolVars, wav, codeVars>>
     \/ part = "audio" /\ AudioNext /\ UNCHANGED <<poolVars, leaves, codeVars>>
     \/ part = "watermark" /\ CodeNext /\ UNCHANGED <<poolVars, leaves, wav>>

Spec == Init /\ [][Next]_vars /\ PoolFairness
=============================================================================
