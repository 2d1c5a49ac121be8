------------------------------ MODULE MCClients ------------------------------
(***************************************************************************)
(* The parts that are clients of a remote service, in one run: a behaviour *)
(* is about the recorder page or about the wallet, each with the session   *)
(* store of the server, about the wallet's key pair, or about the ledger's *)
(* publisher and its anchor provider, and leaves the rest alone.           *)
(***************************************************************************)
EXTENDS RecorderFlow, WalletFlow, WalletKeys, AnchorPublisher

VARIABLE part

vars == <<part, flowVars, walletVars, keyVars, publisherVars>>

MCScopeSets == {{"recording"}}

Init ==
  /\ part \in {"recorder", "wallet", "keys", "publisher"}
  /\ FlowInit /\ WalletInit /\ KeyInit /\ PublisherInit

RecorderPart == FlowNext /\ UNCHANGED <<walletVars, keyVars, publisherVars>>
WalletPart == WalletNext /\ UNCHANGED <<tabVars, authorized, keyVars, publisherVars>>
KeysPart == KeyNext /\ UNCHANGED <<flowVars, walletVars, publisherVars>>
PublisherPart == PublisherNext /\ UNCHANGED <<flowVars, walletVars, keyVars>>

Next ==
  /\ UNCHANGED part
  /\ \/ part = "recorder" /\ RecorderPart
     \/ part = "wallet" /\ WalletPart
     \/ part = "keys" /\ KeysPart
     \/ part = "publisher" /\ PublisherPart

Spec == Init /\ [][Next]_vars /\ FlowFairness /\ PublisherFairness
=============================================================================
