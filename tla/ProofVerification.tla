-------------------------- MODULE ProofVerification --------------------------
(***************************************************************************)
(* Proofs between their registration and their verification: the key       *)
(* manager, the nonce tracker and the revocation registry of the API       *)
(* server, POST /verify-proof and POST /key-revocations, and the part of   *)
(* POST /register that issues the package (Registration.tla has its gates  *)
(* and its awaits).  verifyProofPackage is synchronous: it is one step.    *)
(*                                                                         *)
(* Audio is [samples, mark]: what is heard, and the watermark in it.       *)
(***************************************************************************)
EXTENDS TimestampAttestation

CONSTANTS
  Keys,        \* the keys that rotations go through, as a sequence
  Samples,     \* what may be heard
  Requests,    \* bodies of POST /register
  Configs,     \* configurations of a server
  NonceBytes,  \* values of a nonce
  Expectations, \* what verifiers expect of the session an identity is of
  Dates,       \* bound: dates from which keys are revoked
  Horizon,     \* bound: the clock stops here
  MaxIssued,   \* bound: packages issued
  MaxMixed     \* bound: fields of a package that are another's, or left out

VARIABLES
  now,
  config,       \* the options of createServer, and where the state is kept
  keysUsed,     \* the key manager signs with Keys[keysUsed]; earlier ones are archived
  issued,       \* the packages given out, each with its audio
  events,       \* the ledger: the packages its events were made from
  nonces,       \* NonceReplayTracker: pairs of creator and nonce
  nonceFile,
  revocations,  \* RevocationRegistry: when each key is revoked, or Null
  revocationFile,
  acknowledged, \* the last revocation of each key that was answered with 201
  accepted      \* how often each creator and nonce was found VALID by a tracker

serverVars == <<nonces, nonceFile, revocations, revocationFile>>
vars == <<now, config, keysUsed, issued, events, serverVars, acknowledged, accepted>>

Key == Keys[keysUsed]
KeySet == {Keys[i] : i \in DOMAIN Keys}

ASSUME VerificationAssumption == Keys \in Seq(KeySet) /\ Keys # <<>> /\ Dates \subseteq Nat

-----------------------------------------------------------------------------
(* Registration.                                                           *)

\* WatermarkEngine.embed: no payload, no watermark.
Embed(samples, payload) == [samples |-> samples, mark |-> payload]

\* What a timestamp authority answers for a receipt.
Token(digest, tsa) ==
  [ imprint |-> digest, alg |-> "sha256", policy_oid |-> "policy",
    serial_number |-> 1, time |-> now, tsa |-> tsa ]

\* What the client sends for level 3: the token itself, or the attestation
\* made of it, with the digest that was attested.
Source(request, digest, tsa) ==
  IF request.timestampSource = "token" THEN [data |-> Token(digest, tsa), encoding |-> "base64"]
  ELSE [ParseOpenSslTsReplyText(Token(digest, tsa)).attestation EXCEPT !.digest = digest]

\* The package of a registration, and its event, once the ledger has
\* anchored it; the ledger returns the id that it was given.
Attested(signed, attestation) ==
  IF signed.compliance_level < 3 THEN signed
  ELSE [signed EXCEPT !.timestamp_attestation = attestation, !.ledger_anchor = TimestampReceipt(signed)]

\* The stretch of handleRegistration that prepares, signs and stores.  The
\* client sends the payload for the audio, which ought to be the one that
\* the proof will declare, or none.
Register ==
  /\ Cardinality(issued) < MaxIssued
  /\ \E request \in Requests, samples \in Samples, tsa \in TrustStore :
       LET timestamp == Given(request.timestamp, now)
           package(audio) == RegisterVoice(request, audio, Key, timestamp, request.usageEventId)
           payload == IF request.watermarkPayload THEN package(Null).watermark_hex ELSE Null
           audio == Embed(samples, payload)
           digest == TimestampReceipt(package(audio))
           normalized == IF request.complianceLevel < 3 THEN Success(Null)
                         ELSE NormalizeRfc3161(Source(request, digest, tsa), digest, config.authorities)
           complete == Attested(package(audio), normalized.attestation)
       IN /\ RegisterRefusal(request, timestamp) = "VALID"
          /\ normalized.ok
          /\ issued' = issued \cup {[package |-> complete, audio |-> audio]}
          /\ events' = events \cup {complete}
  /\ UNCHANGED <<now, config, keysUsed, serverVars, acknowledged, accepted>>

\* KeyManager.rotate: packages made from here on carry the new key.
Rotate ==
  /\ keysUsed < Len(Keys)
  /\ keysUsed' = keysUsed + 1
  /\ UNCHANGED <<now, config, issued, events, serverVars, acknowledged, accepted>>

-----------------------------------------------------------------------------
(* Verification.                                                           *)

\* WatermarkEngine.extract, as the server reads its answer: the payload that
\* was embedded is found, another one may pass for it.
WatermarkStatuses(audio, payload) ==
  IF payload = Null THEN {"not_applicable"}
  ELSE IF audio.mark = payload THEN {"present"}
  ELSE IF audio.mark = Null THEN {"missing", "degraded"}
  ELSE {"present", "missing", "degraded"}

DeclaredWatermark(p) == IF p.watermark_hex # Null THEN p.watermark_hex ELSE p.watermark_payload

PolicyChecks(p) ==
  << << "INVALID_PROTOCOL_VERSION", p.protocol_version = "2.0" >>,
     << "INVALID_PROOF_PACKAGE",
        p.proof_type \in ProofTypes /\ p.compliance_level \in ComplianceLevels >>,
     << "COMPLIANCE_LEVEL_TOO_LOW", p.compliance_level >= config.requiredLevel >> >>

\* Of the two forms of the metadata one is enough; both have to agree.
ContentChecks(p) ==
  << << "INVALID_METADATA", p.canonical_metadata # Null \/ p.metadata # Null >>,
     << "METADATA_MISMATCH",
        p.canonical_metadata # Null /\ p.metadata # Null
          => p.canonical_metadata = CanonicalMetadata(p.metadata) >>,
     << "CREATOR_ID_MISMATCH", p.creator_id = p.public_key >> >>

\* An identity is refused for its own reason.  What the caller expects of its
\* session says nothing where there is no identity.
IdentityChecks(p, expected) ==
  LET verdict == VerifyIdentityAssertion(p.identity,
        [ now |-> now, origins |-> config.origins, session_id |-> expected.session_id,
          nonce |-> expected.nonce, session_public_key |-> expected.session_public_key,
          attested |-> config.attested ])
  IN  IF p.identity # Null THEN << <<verdict, verdict = "VALID">> >>
      ELSE << << "IDENTITY_REQUIRED", ~ config.requireIdentity >> >>

\* At the server a present watermark is required of generated proofs only
\* under a policy that requires level 2 or more of every proof.
MustHavePresentWatermark(p) ==
  p.proof_type = "GENERATED" /\ p.compliance_level >= 2 /\ config.requiredLevel >= 2

WatermarkChecks(p, status) ==
  LET payload == DeclaredWatermark(p)
  IN << << "LEVEL1_AMBIGUOUS_FIELDS",
           p.compliance_level = 1
             => payload = Null /\ p.watermark_format_version = Null /\ p.usage_event_id = Null
                /\ p.ledger_anchor = Null /\ p.timestamp_attestation = Null >>,
        << "WATERMARK_FIELD_MISMATCH",
           p.watermark_hex # Null /\ p.watermark_payload # Null
             => p.watermark_hex = p.watermark_payload >>,
        << "GENERATED_WATERMARK_REQUIRED",
           p.proof_type = "GENERATED" /\ p.compliance_level >= 2 => payload # Null >>,
        << "WATERMARK_REQUIRED_NOT_PRESENT", MustHavePresentWatermark(p) => status = "present" >>,
        << "WATERMARK_SESSION_NONCE_MISMATCH",
           payload # Null /\ p.identity # Null /\ p.identity.nonce # Null
             => payload.nonce = SessionByte(p.identity.nonce) >> >>

Fresh(p) == now - p.timestamp \in -config.maxSkew .. config.maxSkew

\* Without a watermark there is no nonce: reading it throws.
NonceOf(p) == <<p.creator_id, DeclaredWatermark(p).nonce>>

ReplayChecks(p) ==
  << << "TIMESTAMP_OUT_OF_WINDOW", Fresh(p) >>,
     << "INVALID_PROOF_PACKAGE", config.trackNonce => DeclaredWatermark(p) # Null >>,
     << "REPLAY_DETECTED",
        config.trackNonce /\ DeclaredWatermark(p) # Null => NonceOf(p) \notin nonces >> >>

CryptographicChecks(p, audio) ==
  LET canonical == Given(p.canonical_metadata, CanonicalMetadata(p.metadata))
  IN << << "HASH_MISMATCH", p.audio_hash = audio >>,
        << "INVALID_SIGNATURE",
           p.signature = Sign(p.public_key,
             SignatureMessage([p EXCEPT !.watermark_hex = DeclaredWatermark(p)], canonical)) >> >>

Level3Checks(p) ==
  LET attestation == p.timestamp_attestation
      given == attestation # Null
  IN IF p.compliance_level < 3 THEN <<>> ELSE
     << << "TIMESTAMP_ATTESTATION_REQUIRED", given >>,
        << "LEVEL3_LEDGER_REFERENCE_REQUIRED", p.usage_event_id # Null /\ p.ledger_anchor # Null >>,
        << "TIMESTAMP_ATTESTATION_INVALID",
           given => attestation.type # Null /\ attestation.attested_at \in Nat
                    /\ attestation.digest # Null >>,
        << "TIMESTAMP_ATTESTATION_DIGEST_MISMATCH",
           given => attestation.digest = TimestampReceipt(p) >>,
        << "TIMESTAMP_ATTESTATION_INCONSISTENT", given => attestation.attested_at >= p.timestamp >>,
        << "TIMESTAMP_ATTESTATION_VERIFICATION_FAILED",
           given => VerifyRfc3161(attestation, TimestampReceipt(p), config.authorities) = "VALID" >> >>

RecordedChecks(p, status) ==
  << << "RECORDED_OPTIONAL_WATERMARK_INVALID",
        p.proof_type = "RECORDED" /\ DeclaredWatermark(p) # Null => status = "present" >> >>

Passes(checks) == \A i \in DOMAIN checks : checks[i][2]

BeforeNonce(p, status, expected) ==
  /\ Passes(PolicyChecks(p)) /\ Passes(ContentChecks(p)) /\ Passes(IdentityChecks(p, expected))
  /\ Passes(WatermarkChecks(p, status)) /\ Passes(ReplayChecks(p))

AfterNonce(p, audio, status) ==
  /\ Passes(CryptographicChecks(p, audio)) /\ Passes(Level3Checks(p))
  /\ Passes(RecordedChecks(p, status))

\* verifyProofPackage, and its answer to some caller.
Valid(p, audio, status, expected) ==
  BeforeNonce(p, status, expected) /\ AfterNonce(p, audio, status)

ValidForSome(p, audio, status) ==
  (\E expected \in Expectations : BeforeNonce(p, status, expected)) /\ AfterNonce(p, audio, status)

MutantAddUnsaved(nonce) == nonces' = nonces \cup {nonce} /\ UNCHANGED nonceFile

AddNonce(nonce) ==
  /\ nonces' = nonces \cup {nonce}
  /\ nonceFile' = IF config.persistent THEN nonces' ELSE nonceFile

\* The fields that whoever presents a package can take from another one.
Fields == { "proof_type", "compliance_level", "watermark_format_version", "watermark_hex",
            "watermark_payload", "audio_hash", "public_key", "creator_id", "key_id", "timestamp",
            "metadata", "canonical_metadata", "identity", "usage_event_id", "ledger_anchor",
            "timestamp_attestation", "signature" }

\* Some may be left out.
Optional == {"watermark_format_version", "watermark_hex", "watermark_payload", "metadata",
             "canonical_metadata", "identity", "usage_event_id", "ledger_anchor",
             "timestamp_attestation"}

\* What a presenter changes of a package: fields taken from another one, and
\* fields left out.
Mixes ==
  LET Few(S) == {T \in SUBSET S : Cardinality(T) <= MaxMixed}
  IN  { [taken |-> mix[1], left |-> mix[2]] :
          mix \in { pair \in Few(Fields) \X Few(Optional) :
                      Cardinality(pair[1]) + Cardinality(pair[2]) <= MaxMixed } }

\* To take what is the same or to leave out what is not there changes nothing.
Changes(p, q) ==
  {mix \in Mixes : /\ \A f \in mix.taken : p[f] # q[f]
                   /\ \A f \in mix.left : p[f] # Null}

\* Package p with what a mix takes from package q, and without what it leaves out.
Presented(p, q, mix) ==
  [f \in DOMAIN p |-> IF f \in mix.left THEN Null ELSE IF f \in mix.taken THEN q[f] ELSE p[f]]

Heard == {v.audio : v \in issued} \cup {Embed(samples, Null) : samples \in Samples}

\* What the verification of p comes to that gets as far as the nonce: the nonce,
\* and whether it passes the checks after it.
OutcomesOf(p) ==
  LET statuses(audio) == WatermarkStatuses(audio, DeclaredWatermark(p))
      heard == {s \in UNION {statuses(audio) : audio \in Heard} :
                  \E expected \in Expectations : BeforeNonce(p, s, expected)}
  IN  UNION { {<<NonceOf(p), AfterNonce(p, audio, s)>> : s \in heard \cap statuses(audio)} :
                audio \in Heard }

\* Two packages that were issued make up the one that is presented.
Outcomes ==
  UNION { UNION { OutcomesOf(Presented(v.package, w.package, mix)) :
                    mix \in Changes(v.package, w.package) } : v \in issued, w \in issued }

\* POST /verify-proof.  The nonce is taken before the audio and the signature
\* are looked at; without a tracker, or with a check that fails before it,
\* nothing changes.
VerifyProof ==
  /\ config.trackNonce
  /\ \E outcome \in Outcomes :
       /\ AddNonce(outcome[1])
       /\ accepted' = IF outcome[2] THEN [accepted EXCEPT ![outcome[1]] = @ + 1] ELSE accepted
  /\ UNCHANGED <<now, config, keysUsed, issued, events, revocations, revocationFile, acknowledged>>

-----------------------------------------------------------------------------
(* Revocation.                                                             *)

MutantFirstRevocation(key, effectiveAt) ==
  /\ revocations' = [revocations EXCEPT ![key] = Given(@, effectiveAt)]
  /\ revocationFile' = IF config.persistent THEN revocations' ELSE revocationFile
  /\ acknowledged' = [acknowledged EXCEPT ![key] = effectiveAt]
  /\ UNCHANGED <<now, config, keysUsed, issued, events, nonces, nonceFile, accepted>>

\* A key has one record: a later revocation takes the place of an earlier one.
Revoke(key, effectiveAt) ==
  /\ revocations' = [revocations EXCEPT ![key] = effectiveAt]
  /\ revocationFile' = IF config.persistent THEN revocations' ELSE revocationFile
  /\ acknowledged' = [acknowledged EXCEPT ![key] = effectiveAt]
  /\ UNCHANGED <<now, config, keysUsed, issued, events, nonces, nonceFile, accepted>>

CurrentKeyStatus(p) ==
  LET revokedAt == revocations[p.key_id]
  IN  IF revokedAt # Null /\ revokedAt <= now THEN "REVOKED" ELSE "ACTIVE"

HistoricalValidity(p) ==
  LET revokedAt == revocations[p.key_id]
  IN  IF revokedAt = Null THEN "NO_REVOCATION_RECORDED"
      ELSE IF p.timestamp_attestation = Null THEN "INDETERMINATE_UNATTESTED"
      ELSE IF p.timestamp_attestation.attested_at < revokedAt THEN "VALID_AT_ATTESTED_TIME"
      ELSE "REVOKED_AT_ATTESTED_TIME"

Digest(p) == IF p.timestamp_attestation = Null THEN Null ELSE p.timestamp_attestation.digest

\* FileLedger.verifyProofPackage, whose answer stands beside the verdict:
\* the event of this id agrees with the package.  Where there is no
\* watermark the event says null, and the package says nothing: these two
\* are not the same.
LedgerConfirms(p) ==
  \E e \in events :
    /\ \A f \in { "usage_event_id", "audio_hash", "proof_type", "compliance_level", "key_id",
                  "public_key", "creator_id", "watermark_payload", "timestamp", "ledger_anchor" } :
         e[f] = p[f]
    /\ e.watermark_payload # Null
    /\ Digest(e) = Digest(p)

-----------------------------------------------------------------------------
NoRevocations == [k \in KeySet |-> Null]

\* A new process: the key comes from the environment, the rest from files.
Restart ==
  /\ nonces' = IF config.persistent THEN nonceFile ELSE {}
  /\ revocations' = IF config.persistent THEN revocationFile ELSE NoRevocations
  /\ keysUsed' = 1
  /\ accepted' = IF config.persistent THEN accepted ELSE [a \in DOMAIN accepted |-> 0]
  /\ acknowledged' = IF config.persistent THEN acknowledged ELSE NoRevocations
  /\ UNCHANGED <<now, config, issued, events, nonceFile, revocationFile>>

Tick == now < Horizon /\ now' = now + 1
        /\ UNCHANGED <<config, keysUsed, issued, events, serverVars, acknowledged, accepted>>

Init ==
  /\ now = 0 /\ config \in Configs /\ keysUsed = 1
  /\ issued = {} /\ events = {}
  /\ nonces = {} /\ nonceFile = {}
  /\ revocations = NoRevocations /\ revocationFile = NoRevocations
  /\ acknowledged = NoRevocations
  /\ accepted = [a \in KeySet \X NonceBytes |-> 0]

Next ==
  \/ Register
  \/ Rotate
  \/ VerifyProof
  \/ \E i \in 1 .. keysUsed, effectiveAt \in Dates : Revoke(Keys[i], effectiveAt)
  \/ Restart
  \/ Tick

Spec == Init /\ [][Next]_vars

-----------------------------------------------------------------------------
(* Properties.                                                             *)

\* What a package claims over its signature.
Claims(p) ==
  << p.proof_type, p.compliance_level, DeclaredWatermark(p), p.audio_hash, p.public_key,
     p.creator_id, p.timestamp, Given(p.canonical_metadata, CanonicalMetadata(p.metadata)),
     p.identity >>

\* They are those of a package that was issued, with its audio.
IssuedClaims(p, audio) == \E u \in issued : Claims(p) = Claims(u.package) /\ u.audio = audio

\* At level 3 a package was issued with this receipt and this attestation, by a
\* trusted authority and not before the time of the proof.
IssuedReceipt(p) ==
  LET attestation == p.timestamp_attestation
  IN  p.compliance_level >= 3 =>
        /\ \E u \in issued : /\ TimestampReceipt(u.package) = TimestampReceipt(p)
                             /\ u.package.timestamp_attestation = attestation
        /\ attestation.message_imprint = TimestampReceipt(p)
        /\ attestation.attested_at >= p.timestamp
        /\ config.authorities # {} => \E a \in config.authorities : a.tsa = attestation.tsa
        /\ LedgerConfirms(p) => p.key_id = p.public_key

\* Whatever is put together from two packages that were issued, what
\* verifyProofPackage accepts claims over its signature what one of them
\* claims, of the audio it was issued with.  The event a level-3 package names
\* is not signed, and metadata, identity and watermark are not attested: the
\* event is that of a package issued with this very receipt - same audio, key,
\* kind, level and time, but perhaps other metadata - whose attestation it
\* carries.  Where the ledger agrees the key id is the signer's too.
AcceptedWasIssued ==
  \A v \in issued, w \in issued : \A mix \in Changes(v.package, w.package) :
    LET p == Presented(v.package, w.package, mix) IN
    \A audio \in Heard : \A status \in WatermarkStatuses(audio, DeclaredWatermark(p)) :
      ValidForSome(p, audio, status) => IssuedClaims(p, audio) /\ IssuedReceipt(p)

\* A tracker never lets a creator and nonce pass twice, in its whole life,
\* which restarts end only where its file is not configured.
AcceptedOnce == \A a \in DOMAIN accepted : accepted[a] <= 1

\* A server may require an identity, name the origins and attestations it
\* trusts, and a request the session; an identity lasts as long as its session.
AcceptableIdentity(identity, expected) ==
  IF identity = Null THEN ~ config.requireIdentity
  ELSE /\ config.origins = Null \/ identity.verifier_origin \in config.origins
       /\ Expected(expected.session_id, identity.session_id)
       /\ Expected(expected.nonce, identity.nonce)
       /\ Expected(expected.session_public_key, identity.session_public_key)
       /\ now <= identity.session_expires_at
       /\ identity.device_attested => config.attested # Null /\ identity.attestation \in config.attested

\* A server that tracks nonces, as it does by default, takes no package
\* without a watermark, and none whose nonce it has seen.
NonceIsNew(p) == config.trackNonce => DeclaredWatermark(p) # Null /\ NonceOf(p) \notin nonces

\* Where the watermark counts, the client has embedded the one declared.
MarkIsEmbedded(v) ==
  LET payload == DeclaredWatermark(v.package)
  IN  MustHavePresentWatermark(v.package) \/ (v.package.proof_type = "RECORDED" /\ payload # Null)
        => v.audio.mark = payload

\* Of the attestations that registration takes, verification takes those that
\* have a digest, which one made from a raw token has not, and that are not
\* earlier than the time the caller gave for the proof.
AttestationIsTaken(p) ==
  p.compliance_level >= 3 =>
    Digest(p) # Null /\ p.timestamp_attestation.attested_at >= p.timestamp

\* When a package as it was issued ought to be VALID.
Verifiable(v, expected) ==
  LET p == v.package
  IN  /\ p.compliance_level >= config.requiredLevel /\ Fresh(p)
      /\ AcceptableIdentity(p.identity, expected)
      /\ NonceIsNew(p) /\ MarkIsEmbedded(v) /\ AttestationIsTaken(p)

\* The registration and the verification fit: a package as it was issued is
\* VALID with its own audio just where it is Verifiable, whose parts are all
\* that registration lets through and verification does not.
IssuedVerifies ==
  \A v \in issued, expected \in Expectations :
    Verifiable(v, expected) <=>
      \A status \in WatermarkStatuses(v.audio, DeclaredWatermark(v.package)) :
        Valid(v.package, v.audio, status, expected)

\* A revocation that was answered is reported of every proof of its key from
\* its date on, whatever restarts or rotates, and says of an attested proof on
\* which side of that date it is.
RevocationReported ==
  \A v \in issued :
    LET p == v.package
        revokedAt == acknowledged[p.key_id]
    IN revokedAt # Null =>
         /\ CurrentKeyStatus(p) = (IF revokedAt <= now THEN "REVOKED" ELSE "ACTIVE")
         /\ p.timestamp_attestation # Null =>
              (HistoricalValidity(p) = "REVOKED_AT_ATTESTED_TIME"
                 <=> p.timestamp_attestation.attested_at >= revokedAt)
=============================================================================
