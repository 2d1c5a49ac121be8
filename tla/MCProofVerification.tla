------------------------- MODULE MCProofVerification -------------------------
(***************************************************************************)
(* Instances of ProofVerification for TLC: seven kinds of registrations,   *)
(* three servers, and verifiers that expect no session, the session of the *)
(* identity or another one.                                                *)
(***************************************************************************)
EXTENDS ProofVerification

CONSTANTS k1, k2, wallet, m1, m2, sound, none

MCKeys == <<k1, k2>>
\* One-byte hashes that collide: every other timestamp, and all sessions.
MCDerivedByte(key, timestamp) == timestamp % 2
MCSessionByte(nonce) == 1

Request(type, level) ==
  [ proofType |-> type, complianceLevel |-> level, includeWatermark |-> none,
    requireIdentity |-> FALSE, identity |-> none, nonce |-> none, timestamp |-> none,
    usageEventId |-> "event", watermarkPayload |-> level > 1,
    timestampSource |-> "attestation", metadata |-> [model |-> m1], session_id |-> none ]

\* A session that has been redeemed at 0 and lasts until 1.
MCIdentity ==
  CreateIdentityAssertion(
    CreateSessionChallenge("origin", "session", "qr", {"generation"}, 1, "session key"),
    wallet, 0, none)

MCRequests ==
  { [Request("GENERATED", 2) EXCEPT !.nonce = 1],
    [Request("GENERATED", 2) EXCEPT !.identity = MCIdentity],
    Request("RECORDED", 1),
    [Request("GENERATED", 3) EXCEPT !.timestamp = 1],
    [Request("GENERATED", 3) EXCEPT !.timestamp = 1, !.timestampSource = "token",
                                    !.usageEventId = "other event", !.metadata = [model |-> m2]],
    [Request("RECORDED", 2) EXCEPT !.includeWatermark = TRUE, !.session_id = m1],
    [Request("RECORDED", 2) EXCEPT !.includeWatermark = TRUE, !.watermarkPayload = FALSE] }

Expect(sessionId, nonce, sessionKey) ==
  [session_id |-> sessionId, nonce |-> nonce, session_public_key |-> sessionKey]
MCExpectations ==
  {Expect(none, none, none), Expect("session", "qr", "session key"), Expect(none, "other", none)}

\* The default server, one that checks all it can and keeps its state in
\* files, and one that does not track nonces.
Default ==
  [ requiredLevel |-> 1, requireIdentity |-> FALSE, origins |-> none, attested |-> none,
    maxSkew |-> 1, trackNonce |-> TRUE, persistent |-> FALSE, authorities |-> {} ]
MCConfigs ==
  { Default,
    [Default EXCEPT !.persistent = TRUE, !.requiredLevel = 2, !.origins = {"origin"},
                    !.authorities = {[tsa |-> "tsa", policy_oids |-> {"policy"}]}],
    [Default EXCEPT !.trackNonce = FALSE] }

\* For the run about mixed packages: an identity, two generated level-3 packages
\* of one time that differ in metadata and event, and a marked recording.
\* Nonces, which only have more refused, are not tracked.
MCMixed ==
  {r \in MCRequests : r.complianceLevel > 1 /\ r.nonce = none /\ r.watermarkPayload}
MCUntracked == {[c EXCEPT !.trackNonce = FALSE] : c \in MCConfigs}

MCTrustStore == {"tsa"}
=============================================================================
