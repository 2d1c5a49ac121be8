---------------------------- MODULE ProofPackages ----------------------------
(***************************************************************************)
(* Proof packages and identity assertions of packages/core/src/index.js:   *)
(* what a registration signs and what a package says.                      *)
(*                                                                         *)
(* Hashes and signatures are ideal.  The hash of a value is the value, a   *)
(* key stands for its creator id and its key id, and a signature is the    *)
(* pair of the key and the message.  Only the hashes cut down to one byte, *)
(* which a watermark carries as its nonce, are constants, free to collide. *)
(***************************************************************************)
EXTENDS Integers, Sequences, FiniteSets, TLC

CONSTANTS
  Null,              \* null, or a field that is not there
  SessionByte(_),    \* first byte of the hash of a session's nonce
  DerivedByte(_, _), \* first byte of the hash of a key and a timestamp
  TimestampSpan      \* 2^24, what the timestamp of a watermark wraps at

ProofTypes == {"RECORDED", "GENERATED"}
SessionScopes == {"recording", "generation", "export"}
ComplianceLevels == 1 .. 3

Given(value, default) == IF value = Null THEN default ELSE value

\* Checks are pairs of the reason to refuse and what has to hold, in the
\* order the code makes them; the first that fails decides.
FirstFailure(checks) ==
  LET failed == {i \in DOMAIN checks : ~ checks[i][2]}
  IN  IF failed = {} THEN "VALID"
      ELSE checks[CHOOSE i \in failed : \A j \in failed : i <= j][1]

\* An expectation that is not stated is met by everything.
Expected(value, received) == value = Null \/ received = value

Sign(key, message) == [key |-> key, message |-> message]

-----------------------------------------------------------------------------
(* Identity assertions.                                                    *)

CreateSessionChallenge(origin, sessionId, nonce, scope, expiresAt, sessionKey) ==
  [ verifier_origin |-> origin, session_id |-> sessionId, nonce |-> nonce,
    session_scope |-> scope, session_expires_at |-> expiresAt,
    session_public_key |-> sessionKey ]

UnsignedIdentityPayload(identity) ==
  [f \in DOMAIN identity \ {"signature"} |-> identity[f]]

CreateIdentityAssertion(challenge, key, timestamp, attestation) ==
  LET unsigned == challenge @@
        [ public_key |-> key, session_timestamp |-> timestamp,
          device_attested |-> attestation # Null, attestation |-> attestation ]
  IN  unsigned @@ [signature |-> Sign(key, unsigned)]

WellFormedIdentity(identity) ==
  /\ identity.session_scope # {} /\ identity.session_scope \subseteq SessionScopes
  /\ identity.session_expires_at > identity.session_timestamp

\* `expect` is the options object; `expect.attested` the attestations that
\* the verifyDeviceAttestation callback accepts, Null without a callback.
VerifyIdentityAssertion(identity, expect) ==
  FirstFailure(<<
    << "IDENTITY_INVALID", WellFormedIdentity(identity) >>,
    << "IDENTITY_UNTRUSTED_ORIGIN",
       expect.origins = Null \/ identity.verifier_origin \in expect.origins >>,
    << "IDENTITY_SESSION_ID_MISMATCH", Expected(expect.session_id, identity.session_id) >>,
    << "IDENTITY_NONCE_MISMATCH", Expected(expect.nonce, identity.nonce) >>,
    << "IDENTITY_SESSION_KEY_MISMATCH",
       Expected(expect.session_public_key, identity.session_public_key) >>,
    << "IDENTITY_SESSION_EXPIRED", expect.now <= identity.session_expires_at >>,
    << "IDENTITY_DEVICE_ATTESTATION_UNVERIFIED",
       identity.device_attested => identity.attestation # Null /\ expect.attested # Null >>,
    << "IDENTITY_DEVICE_ATTESTATION_INVALID",
       identity.device_attested /\ expect.attested # Null
         => identity.attestation \in expect.attested >>,
    << "IDENTITY_SIGNATURE_INVALID",
       identity.signature = Sign(identity.public_key, UnsignedIdentityPayload(identity)) >> >>)

\* What registerVoice expects of the identity it is given: its caller, the
\* server, passes no session key, no origins and no callback.
AtRegistration(timestamp) ==
  [ now |-> timestamp, origins |-> Null, session_id |-> Null, nonce |-> Null,
    session_public_key |-> Null, attested |-> Null ]

-----------------------------------------------------------------------------
(* What is signed.                                                         *)

\* The JSON text of an object with its keys sorted: the same for the same
\* entries, in whatever order they were written.
CanonicalMetadata(metadata) == {<<k, metadata[k]>> : k \in DOMAIN metadata}

\* The session is merged in first, so that the caller's own entries win.
EffectiveMetadata(request) ==
  request.metadata @@
  (IF request.session_id = Null THEN <<>> ELSE [session_id |-> request.session_id])

MutantFreeNonce(key, timestamp, nonce, sessionNonce) ==
  [ creator |-> key, timestamp |-> timestamp % TimestampSpan,
    nonce |-> Given(nonce, DerivedByte(key, timestamp)) ]

\* Of the nonces a watermark may carry, the session's comes before the
\* caller's, and that before the one derived from key and time.
CreateWatermarkPayload(key, timestamp, nonce, sessionNonce) ==
  [ creator |-> key, timestamp |-> timestamp % TimestampSpan,
    nonce |-> IF sessionNonce # Null THEN SessionByte(sessionNonce)
              ELSE Given(nonce, DerivedByte(key, timestamp)) ]

MutantUndatedMessage(p, canonicalMetadata) ==
  << p.proof_type, p.compliance_level, p.watermark_hex, p.identity, p.audio_hash, canonicalMetadata >>

SignatureMessage(p, canonicalMetadata) ==
  << p.proof_type, p.compliance_level, p.watermark_hex, p.identity,
     p.audio_hash, p.timestamp, canonicalMetadata >>

\* What a timestamp authority is asked to attest.
TimestampReceipt(p) ==
  << p.protocol_version, p.proof_type, p.compliance_level, p.audio_hash,
     p.public_key, p.creator_id, p.timestamp, p.usage_event_id >>

IncludesWatermark(request) ==
  Given(request.includeWatermark,
        request.proofType = "GENERATED" /\ request.complianceLevel >= 2)

RegisterRefusal(request, timestamp) ==
  FirstFailure(<<
    << "WATERMARK_AT_LEVEL_1", ~ (request.complianceLevel = 1 /\ IncludesWatermark(request)) >>,
    << "IDENTITY_REQUIRED", request.requireIdentity => request.identity # Null >>,
    << "IDENTITY_INVALID",
       request.identity # Null
         => VerifyIdentityAssertion(request.identity, AtRegistration(timestamp)) = "VALID" >> >>)

\* registerVoice, for a request that is not refused: the package of this
\* audio, signed with the key manager's key.
RegisterVoice(request, audio, key, timestamp, usageEventId) ==
  LET sessionNonce == IF request.identity = Null THEN Null ELSE request.identity.nonce
      watermark == IF IncludesWatermark(request)
                     THEN CreateWatermarkPayload(key, timestamp, request.nonce, sessionNonce)
                     ELSE Null
      metadata == EffectiveMetadata(request)
      unsigned ==
        [ protocol_version |-> "2.0", proof_type |-> request.proofType,
          compliance_level |-> request.complianceLevel,
          watermark_format_version |-> IF watermark = Null THEN Null ELSE "1.0",
          watermark_hex |-> watermark, watermark_payload |-> watermark,
          audio_hash |-> audio, public_key |-> key, creator_id |-> key, key_id |-> key,
          timestamp |-> timestamp, metadata |-> metadata,
          canonical_metadata |-> CanonicalMetadata(metadata), identity |-> request.identity,
          usage_event_id |-> IF request.complianceLevel >= 3 THEN usageEventId ELSE Null,
          ledger_anchor |-> Null, timestamp_attestation |-> Null,
          session_id |-> request.session_id, signature |-> Null ]
  IN  [unsigned EXCEPT !.signature =
         Sign(key, SignatureMessage(unsigned, unsigned.canonical_metadata))]
=============================================================================
