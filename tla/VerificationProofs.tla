------------------------- MODULE VerificationProofs -------------------------
(***************************************************************************)
(* Theorems about ProofVerification, for every server configuration, every *)
(* kind of request, any keys and hashes that may collide: a tracker passes *)
(* a creator and nonce once, a revocation that was answered is reported,   *)
(* what is accepted claims what one issued package claims, and, for the    *)
(* requests of RequestsFit, what is issued verifies just where it is       *)
(* Verifiable.                                                             *)
(***************************************************************************)
EXTENDS ProofVerification, WellFoundedInduction, TLAPS

-----------------------------------------------------------------------------
(* Lists of checks *)

LEMMA LeastExists ==
  ASSUME NEW S \in SUBSET Nat, S # {}
  PROVE  \E x \in S : \A y \in S : x <= y
<1> DEFINE R == {ss \in Nat \X Nat : ss[1] < ss[2]}
<1>1. R = OpToRel(<, Nat)
  BY DEF OpToRel
<1>2. IsWellFoundedOn(R, Nat)
  BY <1>1, NatLessThanWellFounded, Zenon
<1> HIDE DEF R
<1>3. PICK x \in S : \A y \in S : ~ (<<y, x>> \in R)
  BY <1>2, WFMin
<1>4. ASSUME NEW y \in S
      PROVE  x <= y
  <2>1. x \in Nat /\ y \in Nat
    OBVIOUS
  <2>2. y < x => <<y, x>> \in R
    BY <2>1 DEF R
  <2>3. QED
    BY <1>3, <2>1, <2>2
<1>5. QED
  BY <1>4

\* Where the first failure is none, no check fails.
LEMMA NoFailure ==
  ASSUME NEW checks, DOMAIN checks \subseteq Nat, \A i \in DOMAIN checks : checks[i][1] # "VALID"
  PROVE  FirstFailure(checks) = "VALID" <=> Passes(checks)
<1> DEFINE failed == {i \in DOMAIN checks : ~ checks[i][2]}
           first == CHOOSE i \in failed : \A j \in failed : i <= j
<1>1. failed = {} <=> Passes(checks)
  BY Zenon DEF Passes
<1>2. ASSUME failed # {}
      PROVE  first \in failed
  BY <1>2, LeastExists
<1>3. failed # {} => checks[first][1] # "VALID"
  BY <1>2
<1>4. FirstFailure(checks) = IF failed = {} THEN "VALID" ELSE checks[first][1]
  BY Zenon DEF FirstFailure
<1> HIDE DEF failed, first
<1>5. QED
  BY <1>1, <1>3, <1>4

-----------------------------------------------------------------------------
(* The checks of a verification *)

\* What the checks of a list say.
LEMMA PolicySays ==
  ASSUME NEW p
  PROVE  Passes(PolicyChecks(p)) <=>
           /\ p.protocol_version = "2.0"
           /\ p.proof_type \in ProofTypes /\ p.compliance_level \in ComplianceLevels
           /\ p.compliance_level >= config.requiredLevel
<1> DEFINE version == p.protocol_version = "2.0"
           known == p.proof_type \in ProofTypes /\ p.compliance_level \in ComplianceLevels
           enough == p.compliance_level >= config.requiredLevel
<1>1. PolicyChecks(p) = << << "INVALID_PROTOCOL_VERSION", version >>,
        << "INVALID_PROOF_PACKAGE", known >>, << "COMPLIANCE_LEVEL_TOO_LOW", enough >> >>
  BY Zenon DEF PolicyChecks
<1> HIDE DEF version, known, enough
<1>2. Passes(PolicyChecks(p)) <=> version /\ known /\ enough
  BY <1>1 DEF Passes
<1>3. QED
  BY <1>2 DEF version, known, enough

LEMMA ContentSays ==
  ASSUME NEW p
  PROVE  Passes(ContentChecks(p)) <=>
           /\ p.canonical_metadata # Null \/ p.metadata # Null
           /\ p.canonical_metadata # Null /\ p.metadata # Null
                => p.canonical_metadata = CanonicalMetadata(p.metadata)
           /\ p.creator_id = p.public_key
<1> DEFINE given == p.canonical_metadata # Null \/ p.metadata # Null
           agree == p.canonical_metadata # Null /\ p.metadata # Null
                      => p.canonical_metadata = CanonicalMetadata(p.metadata)
           creator == p.creator_id = p.public_key
<1>1. ContentChecks(p) = << << "INVALID_METADATA", given >>, << "METADATA_MISMATCH", agree >>,
                            << "CREATOR_ID_MISMATCH", creator >> >>
  BY Zenon DEF ContentChecks
<1> HIDE DEF given, agree, creator
<1>2. Passes(ContentChecks(p)) <=> given /\ agree /\ creator
  BY <1>1 DEF Passes
<1>3. QED
  BY <1>2 DEF given, agree, creator

LEMMA ReplaySays ==
  ASSUME NEW p
  PROVE  Passes(ReplayChecks(p)) <=>
           /\ Fresh(p)
           /\ config.trackNonce => DeclaredWatermark(p) # Null
           /\ config.trackNonce /\ DeclaredWatermark(p) # Null => NonceOf(p) \notin nonces
<1> DEFINE fresh == Fresh(p)
           given == config.trackNonce => DeclaredWatermark(p) # Null
           new == config.trackNonce /\ DeclaredWatermark(p) # Null => NonceOf(p) \notin nonces
<1>1. ReplayChecks(p) = << << "TIMESTAMP_OUT_OF_WINDOW", fresh >>,
                           << "INVALID_PROOF_PACKAGE", given >>, << "REPLAY_DETECTED", new >> >>
  BY Zenon DEF ReplayChecks
<1> HIDE DEF fresh, given, new
<1>2. Passes(ReplayChecks(p)) <=> fresh /\ given /\ new
  BY <1>1 DEF Passes
<1>3. QED
  BY <1>2 DEF fresh, given, new

\* The message a package is verified against.
Message(p) ==
  SignatureMessage([p EXCEPT !.watermark_hex = DeclaredWatermark(p)],
                   Given(p.canonical_metadata, CanonicalMetadata(p.metadata)))

LEMMA CryptographySays ==
  ASSUME NEW p, NEW audio
  PROVE  Passes(CryptographicChecks(p, audio)) <=>
           p.audio_hash = audio /\ p.signature = Sign(p.public_key, Message(p))
<1> DEFINE heard == p.audio_hash = audio
           signed == p.signature = Sign(p.public_key, Message(p))
<1>1. CryptographicChecks(p, audio)
        = << << "HASH_MISMATCH", heard >>, << "INVALID_SIGNATURE", signed >> >>
  BY Zenon DEF CryptographicChecks, Message
<1> HIDE DEF heard, signed
<1>2. Passes(CryptographicChecks(p, audio)) <=> heard /\ signed
  BY <1>1 DEF Passes
<1>3. QED
  BY <1>2 DEF heard, signed

LEMMA Level3Says ==
  ASSUME NEW p, p.compliance_level \in ComplianceLevels, p.compliance_level >= 3
  PROVE  LET attestation == p.timestamp_attestation IN
         Passes(Level3Checks(p)) <=>
           /\ attestation # Null
           /\ p.usage_event_id # Null /\ p.ledger_anchor # Null
           /\ attestation.type # Null /\ attestation.attested_at \in Nat /\ attestation.digest # Null
           /\ attestation.digest = TimestampReceipt(p)
           /\ attestation.attested_at >= p.timestamp
           /\ VerifyRfc3161(attestation, TimestampReceipt(p), config.authorities) = "VALID"
<1> DEFINE attestation == p.timestamp_attestation
           given == attestation # Null
           ledger == p.usage_event_id # Null /\ p.ledger_anchor # Null
           formed == given => attestation.type # Null /\ attestation.attested_at \in Nat
                              /\ attestation.digest # Null
           digest == given => attestation.digest = TimestampReceipt(p)
           later == given => attestation.attested_at >= p.timestamp
           verified == given =>
             VerifyRfc3161(attestation, TimestampReceipt(p), config.authorities) = "VALID"
<1>1. Level3Checks(p) =
        << << "TIMESTAMP_ATTESTATION_REQUIRED", given >>,
           << "LEVEL3_LEDGER_REFERENCE_REQUIRED", ledger >>,
           << "TIMESTAMP_ATTESTATION_INVALID", formed >>,
           << "TIMESTAMP_ATTESTATION_DIGEST_MISMATCH", digest >>,
           << "TIMESTAMP_ATTESTATION_INCONSISTENT", later >>,
           << "TIMESTAMP_ATTESTATION_VERIFICATION_FAILED", verified >> >>
  <2>1. ~ (p.compliance_level < 3)
    BY DEF ComplianceLevels
  <2>2. QED
    BY <2>1, Zenon DEF Level3Checks
<1> HIDE DEF given, ledger, formed, digest, later, verified
<1>2. Passes(Level3Checks(p)) <=> given /\ ledger /\ formed /\ digest /\ later /\ verified
  BY <1>1 DEF Passes
<1>3. QED
  BY <1>2, Zenon DEF given, ledger, formed, digest, later, verified

-----------------------------------------------------------------------------
(* A creator and nonce pass once *)

AcceptInv ==
  /\ accepted \in [KeySet \X NonceBytes -> Nat]
  /\ \A a \in KeySet \X NonceBytes : accepted[a] <= IF a \in nonces THEN 1 ELSE 0
  /\ config.persistent => nonceFile = nonces

\* What gets as far as the nonce carries one that the tracker does not have.
LEMMA OutcomeIsNew ==
  ASSUME config.trackNonce, NEW outcome \in Outcomes
  PROVE  outcome[1] \notin nonces
<1>1. PICK v \in issued, w \in issued :
        \E mix \in Changes(v.package, w.package) :
          outcome \in OutcomesOf(Presented(v.package, w.package, mix))
  BY DEF Outcomes
<1>2. PICK mix \in Changes(v.package, w.package) :
        outcome \in OutcomesOf(Presented(v.package, w.package, mix))
  BY <1>1
<1> DEFINE p == Presented(v.package, w.package, mix)
<1> HIDE DEF p
<1>3. outcome \in OutcomesOf(p)
  BY <1>2 DEF p
<1>4. PICK status, expected : outcome[1] = NonceOf(p) /\ BeforeNonce(p, status, expected)
  BY <1>3 DEF OutcomesOf
<1>5. Passes(ReplayChecks(p))
  BY <1>4 DEF BeforeNonce
<1>6. DeclaredWatermark(p) # Null /\ NonceOf(p) \notin nonces
  BY <1>5, ReplaySays
<1>7. QED
  BY <1>4, <1>6

LEMMA AcceptKept ==
  ASSUME AcceptInv, [Next]_vars
  PROVE  AcceptInv'
<1> USE DEF AcceptInv
<1>1. CASE VerifyProof
  <2>1. config.trackNonce /\ UNCHANGED config
    BY <1>1 DEF VerifyProof
  <2>2. PICK outcome \in Outcomes :
          /\ AddNonce(outcome[1])
          /\ accepted' = IF outcome[2] THEN [accepted EXCEPT ![outcome[1]] = @ + 1] ELSE accepted
    BY <1>1 DEF VerifyProof
  <2>3. outcome[1] \notin nonces
    BY <2>1, <2>2, OutcomeIsNew
  <2>4. nonces' = nonces \cup {outcome[1]} /\ (config'.persistent => nonceFile' = nonces')
    BY <2>1, <2>2 DEF AddNonce
  <2> DEFINE nonce == outcome[1]
  <2>5. CASE accepted' = accepted
    BY <2>4, <2>5
  <2>6. CASE accepted' = [accepted EXCEPT ![nonce] = @ + 1]
    <3> HIDE DEF nonce
    <3>1. accepted' \in [KeySet \X NonceBytes -> Nat]
      <4>1. CASE nonce \in KeySet \X NonceBytes
        BY <2>6, <4>1
      <4>2. CASE nonce \notin KeySet \X NonceBytes
        <5>1. accepted' = accepted
          BY <2>6, <4>2
        <5>2. QED
          BY <5>1
      <4>3. QED
        BY <4>1, <4>2
    <3>2. ASSUME NEW a \in KeySet \X NonceBytes
          PROVE  accepted'[a] <= IF a \in nonces' THEN 1 ELSE 0
      BY <2>3, <2>4, <2>6 DEF nonce
    <3>3. QED
      BY <2>4, <3>1, <3>2
  <2>7. QED
    BY <2>2, <2>5, <2>6
<1>2. CASE Restart
  BY <1>2 DEF Restart
<1>3. CASE Register \/ Rotate \/ Tick \/ UNCHANGED vars
  BY <1>3 DEF Register, Rotate, Tick, vars, serverVars
<1>4. ASSUME NEW key, NEW effectiveAt, Revoke(key, effectiveAt)
      PROVE  AcceptInv'
  BY <1>4 DEF Revoke
<1>5. QED
  BY <1>1, <1>2, <1>3, <1>4 DEF Next

\* A tracker never lets a creator and nonce pass twice: the nonce is new when
\* it is taken, and no restart forgets it without ending the tracker's life.
THEOREM PassedOnce == Spec => []AcceptedOnce
<1>1. Init => AcceptInv
  BY DEF Init, AcceptInv
<1>2. AcceptInv /\ [Next]_vars => AcceptInv'
  BY AcceptKept
<1>3. AcceptInv => AcceptedOnce
  <2>1. SUFFICES ASSUME AcceptInv, NEW a \in DOMAIN accepted
                 PROVE  accepted[a] <= 1
    BY DEF AcceptedOnce
  <2>2. a \in KeySet \X NonceBytes /\ accepted[a] \in Nat
    BY <2>1 DEF AcceptInv
  <2>3. QED
    BY <2>1, <2>2 DEF AcceptInv
<1>4. QED
  BY <1>1, <1>2, <1>3, PTL DEF Spec

-----------------------------------------------------------------------------
(* What is issued *)

\* A token that was verified is about the digest, and of a trusted authority.
LEMMA VerifiedSays ==
  ASSUME NEW att, NEW digest, NEW authorities,
         VerifyRfc3161(att, digest, authorities) = "VALID"
  PROVE  /\ att.type = "RFC3161"
         /\ att.message_imprint = digest /\ att.attested_at \in Nat
         /\ authorities # {} => \E a \in authorities : a.tsa = att.tsa
<1> DEFINE trusted == {NormalizeTrustedAuthority(a) : a \in authorities}
           matching == {a \in trusted : a.tsa = att.tsa}
           type == att.type = "RFC3161"
           alg == att.message_imprint_alg = "sha256"
           given == att.message_imprint # Null
           imprint == att.message_imprint = digest
           time == att.attested_at \in Nat
           genTime == att.gen_time = att.attested_at
           tsa == att.tsa # Null
           trust == trusted # {} => matching # {}
           serial == att.serial_number # Null
           policy == att.policy_oid # Null
           policies == \A a \in matching :
                         a.policy_oids # {} => att.policy_oid \in a.policy_oids
           token == att.token # Null
           checks ==
             << << "TYPE", type >>, << "MESSAGE_IMPRINT_ALG", alg >>,
                << "MESSAGE_IMPRINT_MISSING", given >>, << "MESSAGE_IMPRINT", imprint >>,
                << "ATTESTED_AT", time >>, << "GEN_TIME", genTime >>, << "TSA_MISSING", tsa >>,
                << "TSA_NOT_TRUSTED", trust >>, << "SERIAL_NUMBER", serial >>,
                << "POLICY_MISSING", policy >>, << "POLICY_NOT_TRUSTED", policies >>,
                << "TOKEN", token >> >>
<1>1. FirstFailure(checks) = "VALID"
  BY Zenon DEF VerifyRfc3161
<1>2. type /\ imprint /\ time /\ trust
  <2> HIDE DEF type, alg, given, imprint, time, genTime, tsa, trust, serial, policy, policies, token
  <2>1. DOMAIN checks \subseteq Nat /\ \A i \in DOMAIN checks : checks[i][1] # "VALID"
    OBVIOUS
  <2>2. Passes(checks)
    <3> HIDE DEF checks
    <3>1. QED
      BY <1>1, <2>1, NoFailure
  <2>3. QED
    BY <2>2 DEF Passes
<1>3. \A a : NormalizeTrustedAuthority(a).tsa = a.tsa
  BY DEF NormalizeTrustedAuthority
<1>4. QED
  BY <1>2, <1>3

\* A registration takes only an attestation that verifies.
LEMMA NormalizedIsVerified ==
  ASSUME NEW source, NEW digest, NEW authorities,
         NormalizeRfc3161(source, digest, authorities).ok
  PROVE  VerifyRfc3161(NormalizeRfc3161(source, digest, authorities).attestation,
                       digest, authorities) = "VALID"
  BY DEF NormalizeRfc3161, Fail

PackageFields == Fields \cup {"protocol_version", "session_id"}

\* An issued package is signed by the key it names, over the audio it was
\* issued with, and what attests it attests its receipt.
WellIssued(v) ==
  LET p == v.package IN
  /\ DOMAIN p = PackageFields
  /\ p.creator_id = p.public_key /\ p.key_id = p.public_key /\ p.public_key \in KeySet
  /\ p.watermark_payload = p.watermark_hex
  /\ p.canonical_metadata = CanonicalMetadata(p.metadata)
  /\ p.audio_hash = v.audio
  /\ p.signature = Sign(p.public_key, SignatureMessage(p, p.canonical_metadata))
  /\ p.timestamp_attestation # Null =>
       /\ p.timestamp_attestation.message_imprint = TimestampReceipt(p)
       /\ p.timestamp_attestation.attested_at \in Nat

IssuedInv ==
  /\ keysUsed \in DOMAIN Keys
  /\ \A v \in issued : WellIssued(v)
  /\ \A e \in events : e.key_id = e.public_key

LEMMA RegisteredIsWell ==
  ASSUME NEW request, NEW audio, NEW key \in KeySet, NEW timestamp, NEW id
  PROVE  LET p == RegisterVoice(request, audio, key, timestamp, id) IN
         /\ WellIssued([package |-> p, audio |-> audio])
         /\ p.timestamp_attestation = Null
  BY DEF RegisterVoice, WellIssued, PackageFields, Fields, SignatureMessage

LEMMA AttestedIsWell ==
  ASSUME NEW p, NEW audio, WellIssued([package |-> p, audio |-> audio]), NEW att,
         att.message_imprint = TimestampReceipt(p), att.attested_at \in Nat
  PROVE  WellIssued([package |-> [p EXCEPT !.timestamp_attestation = att,
                                           !.ledger_anchor = TimestampReceipt(p)],
                     audio |-> audio])
<1> DEFINE q == [p EXCEPT !.timestamp_attestation = att, !.ledger_anchor = TimestampReceipt(p)]
<1>1. DOMAIN p = PackageFields
  BY DEF WellIssued
<1>2. /\ DOMAIN q = PackageFields /\ q.timestamp_attestation = att
      /\ \A f \in PackageFields \ {"timestamp_attestation", "ledger_anchor"} : q[f] = p[f]
  BY <1>1 DEF PackageFields, Fields
<1> HIDE DEF q
<1>3. TimestampReceipt(q) = TimestampReceipt(p)
  BY <1>2 DEF TimestampReceipt, PackageFields, Fields
<1>4. SignatureMessage(q, q.canonical_metadata) = SignatureMessage(p, p.canonical_metadata)
  BY <1>2 DEF SignatureMessage, PackageFields, Fields
<1>5. WellIssued([package |-> q, audio |-> audio])
  BY <1>2, <1>3, <1>4 DEF WellIssued, PackageFields, Fields
<1>6. QED
  BY <1>5 DEF q

LEMMA RegisterKeepsIssued ==
  ASSUME IssuedInv, Register
  PROVE  IssuedInv'
<1>1. PICK request \in Requests, samples \in Samples, tsa \in TrustStore :
        LET timestamp == Given(request.timestamp, now)
            package(audio) == RegisterVoice(request, audio, Key, timestamp, request.usageEventId)
            payload == IF request.watermarkPayload THEN package(Null).watermark_hex ELSE Null
            audio == Embed(samples, payload)
            digest == TimestampReceipt(package(audio))
            normalized == IF request.complianceLevel < 3 THEN Success(Null)
                          ELSE NormalizeRfc3161(Source(request, digest, tsa), digest, config.authorities)
            complete == Attested(package(audio), normalized.attestation)
        IN /\ normalized.ok
           /\ issued' = issued \cup {[package |-> complete, audio |-> audio]}
           /\ events' = events \cup {complete}
  BY DEF Register
<1> DEFINE timestamp == Given(request.timestamp, now)
           package(audio) == RegisterVoice(request, audio, Key, timestamp, request.usageEventId)
           payload == IF request.watermarkPayload THEN package(Null).watermark_hex ELSE Null
           audio == Embed(samples, payload)
           signed == package(audio)
           digest == TimestampReceipt(signed)
           source == Source(request, digest, tsa)
           normalized == IF request.complianceLevel < 3 THEN Success(Null)
                         ELSE NormalizeRfc3161(source, digest, config.authorities)
           complete == Attested(signed, normalized.attestation)
           v == [package |-> complete, audio |-> audio]
<1>2. normalized.ok /\ issued' = issued \cup {v} /\ events' = events \cup {complete}
  BY <1>1, Zenon
<1>3. Key \in KeySet
  BY DEF IssuedInv, Key, KeySet
<1>4. WellIssued([package |-> signed, audio |-> audio]) /\ signed.timestamp_attestation = Null
  BY <1>3, RegisteredIsWell
<1>5. signed.compliance_level = request.complianceLevel
  BY DEF RegisterVoice
<1> HIDE DEF timestamp, package, payload, audio, signed, source
<1>6. WellIssued(v)
  <2>1. CASE request.complianceLevel < 3
    <3>1. complete = signed
      BY <1>5, <2>1 DEF Attested
    <3>2. QED
      BY <1>4, <3>1
  <2>2. CASE ~ (request.complianceLevel < 3)
    <3> DEFINE att == NormalizeRfc3161(source, digest, config.authorities).attestation
    <3>1. VerifyRfc3161(att, digest, config.authorities) = "VALID"
      BY <1>2, <2>2, NormalizedIsVerified
    <3>2. att.message_imprint = digest /\ att.attested_at \in Nat
      BY <3>1, VerifiedSays
    <3>3. complete = [signed EXCEPT !.timestamp_attestation = att, !.ledger_anchor = digest]
      BY <1>5, <2>2 DEF Attested
    <3> HIDE DEF att
    <3>4. QED
      BY <1>4, <3>2, <3>3, AttestedIsWell
  <2>3. QED
    BY <2>1, <2>2
<1>7. complete.key_id = complete.public_key
  BY <1>6 DEF WellIssued
<1> HIDE DEF complete, v
<1>8. keysUsed' = keysUsed
  BY DEF Register
<1>9. \A w \in issued' : WellIssued(w)
  BY <1>2, <1>6 DEF IssuedInv
<1>10. QED
  BY <1>2, <1>7, <1>8, <1>9 DEF IssuedInv, WellIssued

LEMMA IssuedKept ==
  ASSUME IssuedInv, [Next]_vars
  PROVE  IssuedInv'
<1>1. CASE Register
  BY <1>1, RegisterKeepsIssued
<1>2. CASE Rotate
  BY <1>2, VerificationAssumption DEF Rotate, IssuedInv, WellIssued
<1>3. CASE Restart
  BY <1>3, VerificationAssumption DEF Restart, IssuedInv, WellIssued
<1>4. CASE VerifyProof \/ Tick \/ UNCHANGED vars
  BY <1>4 DEF VerifyProof, Tick, vars, IssuedInv, WellIssued
<1>5. ASSUME NEW key, NEW effectiveAt, Revoke(key, effectiveAt)
      PROVE  IssuedInv'
  BY <1>5 DEF Revoke, IssuedInv, WellIssued
<1>6. QED
  BY <1>1, <1>2, <1>3, <1>4, <1>5 DEF Next

LEMMA IssuedAtInit == Init => IssuedInv
  BY VerificationAssumption DEF Init, IssuedInv

-----------------------------------------------------------------------------
(* A revocation that was answered is reported *)

RevocationInv ==
  /\ revocations = acknowledged
  /\ config.persistent => revocationFile = revocations
  /\ revocations \in [KeySet -> Nat \cup {Null}]
  /\ revocationFile \in [KeySet -> Nat \cup {Null}]

LEMMA RevocationKept ==
  ASSUME RevocationInv, [Next]_vars
  PROVE  RevocationInv'
<1> USE DEF RevocationInv
<1>1. ASSUME NEW i \in 1 .. keysUsed, NEW effectiveAt \in Dates, Revoke(Keys[i], effectiveAt)
      PROVE  RevocationInv'
  <2>1. effectiveAt \in Nat
    BY VerificationAssumption
  <2>2. QED
    BY <1>1, <2>1 DEF Revoke
<1>2. CASE Restart
  BY <1>2 DEF Restart, NoRevocations
<1>3. CASE Register \/ Rotate \/ VerifyProof \/ Tick \/ UNCHANGED vars
  BY <1>3 DEF Register, Rotate, VerifyProof, Tick, vars, serverVars
<1>4. QED
  BY <1>1, <1>2, <1>3 DEF Next

\* The last revocation of a key that was answered is what every report on its
\* proofs goes by, through restarts and rotations: the registry, its file and
\* the answers agree, and the time of an issued attestation is a number, so
\* that it lies on one side of the date.
THEOREM RevocationIsReported == Spec => []RevocationReported
<1>1. Init => IssuedInv /\ RevocationInv
  BY IssuedAtInit DEF Init, RevocationInv, NoRevocations
<1>2. IssuedInv /\ RevocationInv /\ [Next]_vars => (IssuedInv /\ RevocationInv)'
  BY IssuedKept, RevocationKept
<1>3. IssuedInv /\ RevocationInv => RevocationReported
  <2>1. SUFFICES ASSUME IssuedInv, RevocationInv, NEW v \in issued,
                        acknowledged[v.package.key_id] # Null
                 PROVE  LET p == v.package
                            revokedAt == acknowledged[p.key_id]
                        IN /\ CurrentKeyStatus(p) = (IF revokedAt <= now THEN "REVOKED" ELSE "ACTIVE")
                           /\ p.timestamp_attestation # Null =>
                                (HistoricalValidity(p) = "REVOKED_AT_ATTESTED_TIME"
                                   <=> p.timestamp_attestation.attested_at >= revokedAt)
    BY DEF RevocationReported
  <2>2. WellIssued(v) /\ revocations = acknowledged
    BY <2>1 DEF IssuedInv, RevocationInv
  <2>3. acknowledged[v.package.key_id] \in Nat
    BY <2>1, <2>2 DEF RevocationInv, WellIssued
  <2>4. QED
    BY <2>1, <2>2, <2>3 DEF WellIssued, CurrentKeyStatus, HistoricalValidity
<1>4. QED
  BY <1>1, <1>2, <1>3, PTL DEF Spec

-----------------------------------------------------------------------------
(* What is accepted was issued *)

\* Every field of a package that is put together comes from one of the two, or
\* is left out, which the signature cannot be.
LEMMA PutTogether ==
  ASSUME IssuedInv, NEW v \in issued, NEW w \in issued,
         NEW mix \in Changes(v.package, w.package)
  PROVE  LET p == Presented(v.package, w.package, mix) IN
         /\ DOMAIN p = PackageFields
         /\ p.signature \in {v.package.signature, w.package.signature}
         /\ p.timestamp_attestation \in
              {Null, v.package.timestamp_attestation, w.package.timestamp_attestation}
<1> DEFINE p == Presented(v.package, w.package, mix)
<1>1. DOMAIN v.package = PackageFields
  BY DEF IssuedInv, WellIssued
<1>2. mix.left \subseteq Optional
  BY DEF Changes, Mixes
<1>3. "signature" \notin mix.left
  BY <1>2 DEF Optional
<1>4. "signature" \in PackageFields /\ "timestamp_attestation" \in PackageFields
  BY DEF PackageFields, Fields
<1>5. QED
  BY <1>1, <1>3, <1>4 DEF Presented

\* What a signature was made over is what the package says that carries it.
LEMMA SignatureShows ==
  ASSUME NEW p, NEW u, WellIssued(u), DOMAIN p = PackageFields,
         p.signature = Sign(p.public_key, Message(p)), p.signature = u.package.signature
  PROVE  LET q == u.package IN
         /\ p.public_key = q.public_key /\ p.proof_type = q.proof_type
         /\ p.compliance_level = q.compliance_level
         /\ DeclaredWatermark(p) = DeclaredWatermark(q)
         /\ p.identity = q.identity /\ p.audio_hash = q.audio_hash /\ p.timestamp = q.timestamp
         /\ Given(p.canonical_metadata, CanonicalMetadata(p.metadata))
              = Given(q.canonical_metadata, CanonicalMetadata(q.metadata))
<1> DEFINE q == u.package
           r == [p EXCEPT !.watermark_hex = DeclaredWatermark(p)]
           canonical == Given(p.canonical_metadata, CanonicalMetadata(p.metadata))
<1>1. p.public_key = q.public_key
      /\ SignatureMessage(r, canonical) = SignatureMessage(q, q.canonical_metadata)
  BY DEF Sign, Message, WellIssued
<1>2. /\ r.watermark_hex = DeclaredWatermark(p) /\ r.proof_type = p.proof_type
      /\ r.compliance_level = p.compliance_level /\ r.identity = p.identity
      /\ r.audio_hash = p.audio_hash /\ r.timestamp = p.timestamp
  BY DEF PackageFields, Fields
<1>3. q.watermark_hex = DeclaredWatermark(q)
  BY DEF WellIssued, DeclaredWatermark
<1>4. q.canonical_metadata = Given(q.canonical_metadata, CanonicalMetadata(q.metadata))
  BY DEF WellIssued, Given
<1> HIDE DEF q, r, canonical
<1>5. /\ r.proof_type = q.proof_type /\ r.compliance_level = q.compliance_level
      /\ r.watermark_hex = q.watermark_hex /\ r.identity = q.identity
      /\ r.audio_hash = q.audio_hash /\ r.timestamp = q.timestamp
      /\ canonical = q.canonical_metadata
  BY <1>1 DEF SignatureMessage
<1>6. /\ p.public_key = q.public_key /\ p.proof_type = q.proof_type
      /\ p.compliance_level = q.compliance_level
      /\ DeclaredWatermark(p) = DeclaredWatermark(q)
      /\ p.identity = q.identity /\ p.audio_hash = q.audio_hash /\ p.timestamp = q.timestamp
      /\ canonical = Given(q.canonical_metadata, CanonicalMetadata(q.metadata))
  BY <1>1, <1>2, <1>3, <1>4, <1>5
<1>7. QED
  BY <1>6 DEF q, canonical

\* At level 3 a trusted authority attested the receipt, not before the time of
\* the proof.
LEMMA AttestedReceipt ==
  ASSUME NEW p, NEW audio, NEW status, NEW expected, Valid(p, audio, status, expected),
         p.compliance_level >= 3
  PROVE  LET att == p.timestamp_attestation IN
         /\ att # Null /\ att.message_imprint = TimestampReceipt(p)
         /\ att.attested_at >= p.timestamp
         /\ config.authorities # {} => \E a \in config.authorities : a.tsa = att.tsa
<1> DEFINE att == p.timestamp_attestation
<1>1. p.compliance_level \in ComplianceLevels
  BY PolicySays DEF Valid, BeforeNonce
<1>2. Passes(Level3Checks(p))
  BY DEF Valid, AfterNonce
<1>3. /\ att # Null /\ att.attested_at >= p.timestamp
      /\ VerifyRfc3161(att, TimestampReceipt(p), config.authorities) = "VALID"
  BY <1>1, <1>2, Level3Says
<1> HIDE DEF att
<1>4. /\ att.message_imprint = TimestampReceipt(p)
      /\ config.authorities # {} => \E a \in config.authorities : a.tsa = att.tsa
  BY <1>3, VerifiedSays
<1>5. QED
  BY <1>3, <1>4 DEF att

\* Whose signature a package carries that verifies, his claims it makes.
LEMMA ClaimsOfSigner ==
  ASSUME NEW p, NEW audio, NEW status, NEW expected, Valid(p, audio, status, expected),
         IssuedInv, NEW u \in issued, DOMAIN p = PackageFields,
         p.signature = u.package.signature
  PROVE  Claims(p) = Claims(u.package) /\ u.audio = audio
<1> DEFINE q == u.package
<1>1. /\ p.creator_id = p.public_key
      /\ p.audio_hash = audio /\ p.signature = Sign(p.public_key, Message(p))
  BY ContentSays, CryptographySays DEF Valid, BeforeNonce, AfterNonce
<1>2. WellIssued(u)
  BY DEF IssuedInv
<1>3. /\ p.public_key = q.public_key /\ p.proof_type = q.proof_type
      /\ p.compliance_level = q.compliance_level
      /\ DeclaredWatermark(p) = DeclaredWatermark(q)
      /\ p.identity = q.identity /\ p.audio_hash = q.audio_hash /\ p.timestamp = q.timestamp
      /\ Given(p.canonical_metadata, CanonicalMetadata(p.metadata))
           = Given(q.canonical_metadata, CanonicalMetadata(q.metadata))
  BY <1>1, <1>2, SignatureShows
<1>4. p.creator_id = q.creator_id
  BY <1>1, <1>2, <1>3 DEF WellIssued
<1> HIDE DEF q
<1>5. Claims(p) = Claims(q)
  BY <1>3, <1>4 DEF Claims
<1>6. QED
  BY <1>1, <1>2, <1>3, <1>5 DEF WellIssued, q

\* The attestation of a level-3 package that verifies was issued with its receipt:
\* both receipts are what the attestation's imprint says.
LEMMA ReceiptOfAttested ==
  ASSUME NEW p, NEW audio, NEW status, NEW expected, Valid(p, audio, status, expected),
         IssuedInv, NEW u \in issued, p.compliance_level >= 3,
         p.timestamp_attestation = u.package.timestamp_attestation
  PROVE  TimestampReceipt(u.package) = TimestampReceipt(p)
<1>1. WellIssued(u)
  BY DEF IssuedInv
<1>2. /\ p.timestamp_attestation # Null
      /\ p.timestamp_attestation.message_imprint = TimestampReceipt(p)
  BY AttestedReceipt
<1>3. QED
  BY <1>1, <1>2 DEF WellIssued

\* Whatever is put together from two issued packages, whatever number of fields
\* is exchanged or left out: what verifies claims over its signature what one of
\* them claims, of the audio it was issued with, and at level 3 it carries the
\* attestation of a package issued with this receipt.
THEOREM AcceptedIsIssued == Spec => []AcceptedWasIssued
<1>1. IssuedInv => AcceptedWasIssued
  <2>1. SUFFICES ASSUME IssuedInv, NEW v \in issued, NEW w \in issued,
                        NEW mix \in Changes(v.package, w.package), NEW audio, NEW status,
                        ValidForSome(Presented(v.package, w.package, mix), audio, status)
                 PROVE  /\ IssuedClaims(Presented(v.package, w.package, mix), audio)
                        /\ IssuedReceipt(Presented(v.package, w.package, mix))
    BY Zenon DEF AcceptedWasIssued
  <2> DEFINE p == Presented(v.package, w.package, mix)
  <2>2. /\ DOMAIN p = PackageFields
        /\ p.signature \in {v.package.signature, w.package.signature}
        /\ p.timestamp_attestation \in
             {Null, v.package.timestamp_attestation, w.package.timestamp_attestation}
    BY <2>1, PutTogether
  <2>3. PICK expected : Valid(p, audio, status, expected)
    BY <2>1 DEF ValidForSome, Valid
  <2> HIDE DEF p
  <2>4. IssuedClaims(p, audio)
    BY <2>1, <2>2, <2>3, ClaimsOfSigner DEF IssuedClaims
  <2>5. ASSUME p.compliance_level >= 3
        PROVE  \E u \in issued : /\ TimestampReceipt(u.package) = TimestampReceipt(p)
                                  /\ u.package.timestamp_attestation = p.timestamp_attestation
    <3>1. p.timestamp_attestation # Null
      BY <2>3, <2>5, AttestedReceipt
    <3>2. PICK u \in {v, w} : u.package.timestamp_attestation = p.timestamp_attestation
      BY <2>2, <3>1
    <3>3. QED
      BY <2>1, <2>3, <2>5, <3>2, ReceiptOfAttested
  <2>6. LedgerConfirms(p) => p.key_id = p.public_key
    BY <2>1 DEF LedgerConfirms, IssuedInv
  <2>7. IssuedReceipt(p)
    BY <2>3, <2>5, <2>6, AttestedReceipt DEF IssuedReceipt
  <2>8. QED
    BY <2>4, <2>7 DEF p
<1>2. QED
  BY <1>1, IssuedAtInit, IssuedKept, PTL DEF Spec

-----------------------------------------------------------------------------
(* What is issued verifies *)

(* The bodies that reach a registration: the kind and the level are known   *)
(* ones, a level-3 proof has an event id (the handler makes one where none  *)
(* is given), and nobody asks for a generated proof of level 2 or more      *)
(* without its watermark, which the server issues but no verifier takes.    *)
RequestsFit ==
  \A r \in Requests :
    /\ r.proofType \in ProofTypes /\ r.complianceLevel \in ComplianceLevels
    /\ r.complianceLevel >= 3 => r.usageEventId # Null
    /\ r.proofType = "GENERATED" /\ r.complianceLevel >= 2 => IncludesWatermark(r)

(* null is no number and no name, and none of the values that are made.     *)
NullIsNoValue ==
  /\ Null \notin Nat \cup TrustStore \cup {"policy", "sha256", "RFC3161"}
  /\ \A key, timestamp, nonce, sessionNonce :
       CreateWatermarkPayload(key, timestamp, nonce, sessionNonce) # Null
  /\ \A p : TimestampReceipt(p) # Null
  /\ \A metadata : CanonicalMetadata(metadata) # Null

\* What an identity must be, whatever is expected of it.
SoundIdentity(identity) ==
  /\ WellFormedIdentity(identity) /\ ~ identity.device_attested
  /\ identity.signature = Sign(identity.public_key, UnsignedIdentityPayload(identity))

\* What registration has seen to, in the words of the checks of a verification.
Registered(p) ==
  /\ p.protocol_version = "2.0"
  /\ p.proof_type \in ProofTypes /\ p.compliance_level \in ComplianceLevels
  /\ p.compliance_level = 1 =>
       /\ p.watermark_format_version = Null /\ p.watermark_hex = Null
       /\ p.ledger_anchor = Null /\ p.timestamp_attestation = Null
  /\ p.compliance_level < 3 => p.usage_event_id = Null
  /\ p.proof_type = "GENERATED" /\ p.compliance_level >= 2 => p.watermark_hex # Null
  /\ p.identity # Null =>
       /\ SoundIdentity(p.identity)
       /\ p.watermark_hex # Null /\ p.identity.nonce # Null
            => p.watermark_hex.nonce = SessionByte(p.identity.nonce)

\* The attestation of a level-3 package: it was verified, and where it has a
\* digest it is that of the receipt.
AttestedWell(p) ==
  p.compliance_level >= 3 =>
    /\ p.usage_event_id # Null /\ p.ledger_anchor # Null
    /\ p.timestamp_attestation.digest \in {Null, TimestampReceipt(p)}
    /\ VerifyRfc3161(p.timestamp_attestation, TimestampReceipt(p), config.authorities) = "VALID"

FitInv ==
  /\ now \in Nat
  /\ \A v \in issued : Registered(v.package) /\ AttestedWell(v.package)

\* An identity passes when it is sound and meets what is expected.
LEMMA IdentityPasses ==
  ASSUME NEW identity, NEW expect
  PROVE  VerifyIdentityAssertion(identity, expect) = "VALID" <=>
           /\ WellFormedIdentity(identity)
           /\ expect.origins = Null \/ identity.verifier_origin \in expect.origins
           /\ Expected(expect.session_id, identity.session_id)
           /\ Expected(expect.nonce, identity.nonce)
           /\ Expected(expect.session_public_key, identity.session_public_key)
           /\ expect.now <= identity.session_expires_at
           /\ identity.device_attested => identity.attestation # Null /\ expect.attested # Null
           /\ identity.device_attested /\ expect.attested # Null
                => identity.attestation \in expect.attested
           /\ identity.signature = Sign(identity.public_key, UnsignedIdentityPayload(identity))
<1> DEFINE formed == WellFormedIdentity(identity)
           origin == expect.origins = Null \/ identity.verifier_origin \in expect.origins
           session == Expected(expect.session_id, identity.session_id)
           nonce == Expected(expect.nonce, identity.nonce)
           sessionKey == Expected(expect.session_public_key, identity.session_public_key)
           lasts == expect.now <= identity.session_expires_at
           attested == identity.device_attested =>
                         identity.attestation # Null /\ expect.attested # Null
           device == identity.device_attested /\ expect.attested # Null
                       => identity.attestation \in expect.attested
           signed == identity.signature = Sign(identity.public_key, UnsignedIdentityPayload(identity))
           checks ==
             << << "IDENTITY_INVALID", formed >>, << "IDENTITY_UNTRUSTED_ORIGIN", origin >>,
                << "IDENTITY_SESSION_ID_MISMATCH", session >>, << "IDENTITY_NONCE_MISMATCH", nonce >>,
                << "IDENTITY_SESSION_KEY_MISMATCH", sessionKey >>,
                << "IDENTITY_SESSION_EXPIRED", lasts >>,
                << "IDENTITY_DEVICE_ATTESTATION_UNVERIFIED", attested >>,
                << "IDENTITY_DEVICE_ATTESTATION_INVALID", device >>,
                << "IDENTITY_SIGNATURE_INVALID", signed >> >>
<1>1. VerifyIdentityAssertion(identity, expect) = FirstFailure(checks)
  BY Zenon DEF VerifyIdentityAssertion
<1> HIDE DEF formed, origin, session, nonce, sessionKey, lasts, attested, device, signed
<1>2. DOMAIN checks \subseteq Nat /\ \A i \in DOMAIN checks : checks[i][1] # "VALID"
  OBVIOUS
<1>3. FirstFailure(checks) = "VALID" <=> Passes(checks)
  <2> HIDE DEF checks
  <2>1. QED
    BY <1>2, NoFailure
<1>4. Passes(checks) <=> /\ formed /\ origin /\ session /\ nonce /\ sessionKey
                         /\ lasts /\ attested /\ device /\ signed
  BY DEF Passes
<1> HIDE DEF checks
<1>5. QED
  BY <1>1, <1>3, <1>4
     DEF formed, origin, session, nonce, sessionKey, lasts, attested, device, signed

\* What a registration does not refuse.
LEMMA NotRefused ==
  ASSUME NEW request, NEW timestamp, RegisterRefusal(request, timestamp) = "VALID"
  PROVE  /\ ~ (request.complianceLevel = 1 /\ IncludesWatermark(request))
         /\ request.identity # Null => SoundIdentity(request.identity)
<1> DEFINE level == ~ (request.complianceLevel = 1 /\ IncludesWatermark(request))
           required == request.requireIdentity => request.identity # Null
           valid == request.identity # Null =>
             VerifyIdentityAssertion(request.identity, AtRegistration(timestamp)) = "VALID"
           checks == << << "WATERMARK_AT_LEVEL_1", level >>, << "IDENTITY_REQUIRED", required >>,
                        << "IDENTITY_INVALID", valid >> >>
<1>1. FirstFailure(checks) = "VALID"
  BY Zenon DEF RegisterRefusal
<1>2. level /\ valid
  <2> HIDE DEF level, required, valid
  <2>1. DOMAIN checks \subseteq Nat /\ \A i \in DOMAIN checks : checks[i][1] # "VALID"
    OBVIOUS
  <2>2. Passes(checks)
    <3> HIDE DEF checks
    <3>1. QED
      BY <1>1, <2>1, NoFailure
  <2>3. QED
    BY <2>2 DEF Passes
<1>3. AtRegistration(timestamp).attested = Null
  BY DEF AtRegistration
<1> DEFINE expect == AtRegistration(timestamp)
<1> HIDE DEF expect
<1>4. ASSUME request.identity # Null
      PROVE  SoundIdentity(request.identity)
  <2>1. VerifyIdentityAssertion(request.identity, expect) = "VALID" /\ expect.attested = Null
    BY <1>2, <1>3, <1>4 DEF expect
  <2>2. QED
    BY <2>1, IdentityPasses DEF SoundIdentity
<1>5. QED
  BY <1>2, <1>4

\* What registerVoice makes of a request that is not refused.
LEMMA MadeAsRegistered ==
  ASSUME RequestsFit, NullIsNoValue, NEW request \in Requests, NEW audio, NEW key,
         NEW timestamp, NEW id,
         RegisterRefusal(request, timestamp) = "VALID"
  PROVE  LET p == RegisterVoice(request, audio, key, timestamp, id) IN
         /\ Registered(p) /\ DOMAIN p = PackageFields
         /\ p.compliance_level = request.complianceLevel
         /\ p.compliance_level >= 3 => p.usage_event_id = id
<1> DEFINE p == RegisterVoice(request, audio, key, timestamp, id)
           sessionNonce == IF request.identity = Null THEN Null ELSE request.identity.nonce
           watermark == IF IncludesWatermark(request)
                          THEN CreateWatermarkPayload(key, timestamp, request.nonce, sessionNonce)
                          ELSE Null
<1>1. /\ p.protocol_version = "2.0" /\ p.proof_type = request.proofType
      /\ p.compliance_level = request.complianceLevel /\ p.watermark_hex = watermark
      /\ p.identity = request.identity /\ p.ledger_anchor = Null
      /\ p.timestamp_attestation = Null
      /\ p.watermark_format_version = IF watermark = Null THEN Null ELSE "1.0"
      /\ p.usage_event_id = IF request.complianceLevel >= 3 THEN id ELSE Null
      /\ DOMAIN p = PackageFields
  BY DEF RegisterVoice, PackageFields, Fields
<1>2. /\ request.proofType \in ProofTypes /\ request.complianceLevel \in ComplianceLevels
      /\ request.proofType = "GENERATED" /\ request.complianceLevel >= 2 => IncludesWatermark(request)
  BY DEF RequestsFit
<1>3. /\ ~ (request.complianceLevel = 1 /\ IncludesWatermark(request))
      /\ request.identity # Null => SoundIdentity(request.identity)
  BY NotRefused
<1>4. IncludesWatermark(request) => watermark # Null
  BY DEF NullIsNoValue
<1>5. watermark # Null /\ sessionNonce # Null => watermark.nonce = SessionByte(sessionNonce)
  BY DEF CreateWatermarkPayload
<1>6. request.complianceLevel \in Nat
  BY <1>2 DEF ComplianceLevels
<1> HIDE DEF p, watermark
<1>7. request.identity # Null /\ watermark # Null /\ request.identity.nonce # Null
        => watermark.nonce = SessionByte(request.identity.nonce)
  BY <1>5
<1>8. request.complianceLevel = 1 => watermark = Null
  BY <1>3 DEF watermark
<1>9. request.complianceLevel < 3 => ~ (request.complianceLevel >= 3)
  BY <1>6
<1> HIDE DEF sessionNonce
<1>10. Registered(p)
  BY <1>1, <1>2, <1>3, <1>4, <1>7, <1>8, <1>9 DEF Registered
<1>11. QED
  BY <1>1, <1>10 DEF p

\* The attestation a registration takes for a receipt has its digest or none.
LEMMA DigestOfSource ==
  ASSUME NullIsNoValue, now \in Nat, NEW request, NEW tsa \in TrustStore, NEW q, NEW authorities
  PROVE  LET digest == TimestampReceipt(q) IN
         NormalizeRfc3161(Source(request, digest, tsa), digest, authorities).ok =>
           NormalizeRfc3161(Source(request, digest, tsa), digest, authorities).attestation.digest
             \in {Null, digest}
<1> DEFINE digest == TimestampReceipt(q)
           token == Token(digest, tsa)
           source == Source(request, digest, tsa)
           normalized == NormalizeRfc3161(source, digest, authorities)
           parsed == ParseOpenSslTsReplyText(token)
<1>1. digest # Null
  BY DEF NullIsNoValue
<1> HIDE DEF digest
<1>2. /\ token.imprint = digest /\ token.alg = "sha256" /\ token.policy_oid = "policy"
      /\ token.serial_number = 1 /\ token.time = now /\ token.tsa = tsa
  BY DEF Token
<1>3. Null \notin {token.policy_oid, token.serial_number, token.alg, token.time,
                   token.tsa, token.imprint}
  BY <1>1, <1>2 DEF NullIsNoValue
<1> HIDE DEF token
<1>4. /\ parsed.ok /\ parsed.attestation.digest = Null
      /\ "data" \notin DOMAIN parsed.attestation /\ "digest" \in DOMAIN parsed.attestation
  BY <1>3 DEF ParseOpenSslTsReplyText, Success
<1> HIDE DEF parsed
<1>5. CASE request.timestampSource = "token"
  <2>1. source = [data |-> token, encoding |-> "base64"]
    BY <1>5 DEF Source, token, digest
  <2>2. ASSUME normalized.ok
        PROVE  normalized.attestation = parsed.attestation
    BY <2>1, <2>2
       DEF NormalizeRfc3161, TimestampTokenInput, ParseWithOpenSsl, Fail, parsed
  <2>3. QED
    BY <1>4, <2>2 DEF digest
<1>6. CASE request.timestampSource # "token"
  <2>1. source = [parsed.attestation EXCEPT !.digest = digest]
    BY <1>6 DEF Source, token, digest, parsed
  <2>2. "data" \notin DOMAIN source /\ source.digest = digest
    BY <1>4, <2>1
  <2> HIDE DEF source
  <2>3. normalized.ok => normalized.attestation = source
    BY <2>2 DEF NormalizeRfc3161, Success, Fail
  <2>4. QED
    BY <2>2, <2>3 DEF digest, source
<1>7. QED
  BY <1>5, <1>6

\* The attestation added at level 3 changes nothing that registration saw to.
LEMMA AttestedFits ==
  ASSUME NullIsNoValue, NEW p, NEW att, Registered(p), DOMAIN p = PackageFields,
         p.compliance_level >= 3, p.usage_event_id # Null,
         att.digest \in {Null, TimestampReceipt(p)},
         VerifyRfc3161(att, TimestampReceipt(p), config.authorities) = "VALID"
  PROVE  LET q == [p EXCEPT !.timestamp_attestation = att, !.ledger_anchor = TimestampReceipt(p)]
         IN  Registered(q) /\ AttestedWell(q)
<1> DEFINE q == [p EXCEPT !.timestamp_attestation = att, !.ledger_anchor = TimestampReceipt(p)]
<1>1. /\ DOMAIN q = PackageFields /\ q.timestamp_attestation = att
      /\ q.ledger_anchor = TimestampReceipt(p)
      /\ \A f \in PackageFields \ {"timestamp_attestation", "ledger_anchor"} : q[f] = p[f]
  BY DEF PackageFields, Fields
<1> HIDE DEF q
<1>2. TimestampReceipt(q) = TimestampReceipt(p)
  BY <1>1 DEF TimestampReceipt, PackageFields, Fields
<1>3. /\ q.protocol_version = p.protocol_version /\ q.proof_type = p.proof_type
      /\ q.compliance_level = p.compliance_level /\ q.watermark_hex = p.watermark_hex
      /\ q.usage_event_id = p.usage_event_id /\ q.identity = p.identity
      /\ q.watermark_format_version = p.watermark_format_version
  BY <1>1 DEF PackageFields, Fields
<1>4. Registered(q)
  <2>1. p.compliance_level # 1
    BY DEF Registered, ComplianceLevels
  <2>2. QED
    BY <1>3, <2>1 DEF Registered
<1>5. TimestampReceipt(p) # Null
  BY DEF NullIsNoValue
<1>6. AttestedWell(q)
  BY <1>1, <1>2, <1>3, <1>5 DEF AttestedWell
<1>7. QED
  BY <1>4, <1>6 DEF q

LEMMA RegisterKeepsFit ==
  ASSUME RequestsFit, NullIsNoValue, FitInv, Register
  PROVE  FitInv'
<1>1. PICK request \in Requests, samples \in Samples, tsa \in TrustStore :
        LET timestamp == Given(request.timestamp, now)
            package(audio) == RegisterVoice(request, audio, Key, timestamp, request.usageEventId)
            payload == IF request.watermarkPayload THEN package(Null).watermark_hex ELSE Null
            audio == Embed(samples, payload)
            digest == TimestampReceipt(package(audio))
            normalized == IF request.complianceLevel < 3 THEN Success(Null)
                          ELSE NormalizeRfc3161(Source(request, digest, tsa), digest, config.authorities)
            complete == Attested(package(audio), normalized.attestation)
        IN /\ RegisterRefusal(request, timestamp) = "VALID"
           /\ normalized.ok
           /\ issued' = issued \cup {[package |-> complete, audio |-> audio]}
  BY DEF Register
<1> DEFINE timestamp == Given(request.timestamp, now)
           package(audio) == RegisterVoice(request, audio, Key, timestamp, request.usageEventId)
           payload == IF request.watermarkPayload THEN package(Null).watermark_hex ELSE Null
           audio == Embed(samples, payload)
           signed == package(audio)
           digest == TimestampReceipt(signed)
           source == Source(request, digest, tsa)
           normalized == IF request.complianceLevel < 3 THEN Success(Null)
                         ELSE NormalizeRfc3161(source, digest, config.authorities)
           complete == Attested(signed, normalized.attestation)
           v == [package |-> complete, audio |-> audio]
<1>2. /\ RegisterRefusal(request, timestamp) = "VALID"
      /\ normalized.ok /\ issued' = issued \cup {v}
  BY <1>1, Zenon
<1> HIDE DEF timestamp, payload, audio
<1>3. /\ Registered(signed) /\ DOMAIN signed = PackageFields
      /\ signed.compliance_level = request.complianceLevel
      /\ signed.compliance_level >= 3 => signed.usage_event_id = request.usageEventId
  BY <1>2, MadeAsRegistered
<1>4. /\ request.complianceLevel \in 1 .. 3
      /\ request.complianceLevel >= 3 => request.usageEventId # Null
  BY DEF RequestsFit, ComplianceLevels
<1> HIDE DEF package, signed
<1>5. Registered(complete) /\ AttestedWell(complete)
  <2>1. CASE request.complianceLevel < 3
    <3>1. complete = signed
      BY <1>3, <2>1 DEF Attested
    <3>2. ~ (signed.compliance_level >= 3)
      BY <1>3, <1>4, <2>1
    <3>3. QED
      BY <1>3, <3>1, <3>2 DEF AttestedWell
  <2>2. CASE ~ (request.complianceLevel < 3)
    <3> DEFINE att == NormalizeRfc3161(source, digest, config.authorities).attestation
    <3>1. NormalizeRfc3161(source, digest, config.authorities).ok
      BY <1>2, <2>2
    <3>2. VerifyRfc3161(att, digest, config.authorities) = "VALID"
      BY <3>1, NormalizedIsVerified
    <3>3. att.digest \in {Null, digest}
      BY <3>1, DigestOfSource DEF FitInv
    <3>4. complete = [signed EXCEPT !.timestamp_attestation = att, !.ledger_anchor = digest]
      BY <1>3, <2>2 DEF Attested
    <3>5. signed.compliance_level >= 3 /\ signed.usage_event_id # Null
      BY <1>3, <1>4, <2>2
    <3> HIDE DEF att
    <3> DEFINE q == [signed EXCEPT !.timestamp_attestation = att, !.ledger_anchor = digest]
    <3>6. Registered(q) /\ AttestedWell(q)
      BY <1>3, <3>2, <3>3, <3>5, AttestedFits
    <3>7. QED
      BY <3>4, <3>6
  <2>3. QED
    BY <2>1, <2>2
<1> HIDE DEF complete
<1>6. now' = now /\ config' = config
  BY DEF Register
<1>7. ASSUME NEW w \in issued'
      PROVE  Registered(w.package) /\ AttestedWell(w.package)
  BY <1>2, <1>5 DEF FitInv
<1>8. QED
  BY <1>6, <1>7 DEF FitInv, AttestedWell

LEMMA FitKept ==
  ASSUME RequestsFit, NullIsNoValue, FitInv, [Next]_vars
  PROVE  FitInv'
<1>1. CASE Register
  BY <1>1, RegisterKeepsFit
<1>2. CASE Rotate \/ Restart \/ VerifyProof \/ Tick \/ UNCHANGED vars
  <2>1. now' \in Nat /\ config' = config /\ issued' = issued
    BY <1>2 DEF Rotate, Restart, VerifyProof, Tick, vars, FitInv
  <2>2. QED
    BY <2>1 DEF FitInv, AttestedWell
<1>3. ASSUME NEW key, NEW effectiveAt, Revoke(key, effectiveAt)
      PROVE  FitInv'
  BY <1>3 DEF Revoke, FitInv, AttestedWell
<1>4. QED
  BY <1>1, <1>2, <1>3 DEF Next

LEMMA WatermarkSays ==
  ASSUME NEW p, NEW status
  PROVE  LET payload == DeclaredWatermark(p) IN
         Passes(WatermarkChecks(p, status)) <=>
           /\ p.compliance_level = 1
                => payload = Null /\ p.watermark_format_version = Null /\ p.usage_event_id = Null
                   /\ p.ledger_anchor = Null /\ p.timestamp_attestation = Null
           /\ p.watermark_hex # Null /\ p.watermark_payload # Null
                => p.watermark_hex = p.watermark_payload
           /\ p.proof_type = "GENERATED" /\ p.compliance_level >= 2 => payload # Null
           /\ MustHavePresentWatermark(p) => status = "present"
           /\ payload # Null /\ p.identity # Null /\ p.identity.nonce # Null
                => payload.nonce = SessionByte(p.identity.nonce)
<1> DEFINE payload == DeclaredWatermark(p)
           level1 == p.compliance_level = 1
                       => payload = Null /\ p.watermark_format_version = Null
                          /\ p.usage_event_id = Null
                          /\ p.ledger_anchor = Null /\ p.timestamp_attestation = Null
           agree == p.watermark_hex # Null /\ p.watermark_payload # Null
                      => p.watermark_hex = p.watermark_payload
           given == p.proof_type = "GENERATED" /\ p.compliance_level >= 2 => payload # Null
           present == MustHavePresentWatermark(p) => status = "present"
           session == payload # Null /\ p.identity # Null /\ p.identity.nonce # Null
                        => payload.nonce = SessionByte(p.identity.nonce)
<1>1. WatermarkChecks(p, status) =
        << << "LEVEL1_AMBIGUOUS_FIELDS", level1 >>, << "WATERMARK_FIELD_MISMATCH", agree >>,
           << "GENERATED_WATERMARK_REQUIRED", given >>,
           << "WATERMARK_REQUIRED_NOT_PRESENT", present >>,
           << "WATERMARK_SESSION_NONCE_MISMATCH", session >> >>
  BY Zenon DEF WatermarkChecks
<1> HIDE DEF level1, agree, given, present, session
<1>2. Passes(WatermarkChecks(p, status)) <=> level1 /\ agree /\ given /\ present /\ session
  BY <1>1 DEF Passes
<1>3. QED
  BY <1>2, Zenon DEF level1, agree, given, present, session

LEMMA OneSays ==
  ASSUME NEW reason, NEW holds \in BOOLEAN
  PROVE  Passes(<< <<reason, holds>> >>) <=> holds
<1> DEFINE check == <<reason, holds>>
           checks == <<check>>
<1>1. check[2] = holds
  OBVIOUS
<1> HIDE DEF check
<1>2. Passes(checks) <=> check[2]
  BY DEF Passes
<1>3. QED
  BY <1>1, <1>2, Zenon DEF check

LEMMA RecordedSays ==
  ASSUME NEW p, NEW status
  PROVE  Passes(RecordedChecks(p, status)) <=>
           (p.proof_type = "RECORDED" /\ DeclaredWatermark(p) # Null => status = "present")
<1> DEFINE holds == p.proof_type = "RECORDED" /\ DeclaredWatermark(p) # Null => status = "present"
<1>1. RecordedChecks(p, status) = << << "RECORDED_OPTIONAL_WATERMARK_INVALID", holds >> >>
  BY Zenon DEF RecordedChecks
<1>2. holds \in BOOLEAN
  OBVIOUS
<1> HIDE DEF holds
<1>3. Passes(RecordedChecks(p, status)) <=> holds
  BY <1>1, <1>2, OneSays, Zenon
<1>4. QED
  BY <1>3 DEF holds

\* An identity that was registered passes just where it is acceptable: it is
\* sound, and no device has attested it.
LEMMA IdentitySays ==
  ASSUME NEW p, NEW expected, Registered(p)
  PROVE  Passes(IdentityChecks(p, expected)) <=> AcceptableIdentity(p.identity, expected)
<1>1. CASE p.identity = Null
  <2> DEFINE holds == ~ config.requireIdentity
  <2>1. AcceptableIdentity(p.identity, expected) <=> holds
    BY <1>1 DEF AcceptableIdentity
  <2>2. IdentityChecks(p, expected) = << << "IDENTITY_REQUIRED", holds >> >>
    BY <1>1, Zenon DEF IdentityChecks
  <2>3. holds \in BOOLEAN
    OBVIOUS
  <2> HIDE DEF holds
  <2>4. Passes(IdentityChecks(p, expected)) <=> holds
    BY <2>2, <2>3, OneSays, Zenon
  <2>5. QED
    BY <2>1, <2>4
<1>2. CASE p.identity # Null
  <2> DEFINE expect ==
        [ now |-> now, origins |-> config.origins, session_id |-> expected.session_id,
          nonce |-> expected.nonce, session_public_key |-> expected.session_public_key,
          attested |-> config.attested ]
             verdict == VerifyIdentityAssertion(p.identity, expect)
             holds == verdict = "VALID"
  <2>1. SoundIdentity(p.identity)
    BY <1>2 DEF Registered
  <2>2. /\ expect.now = now /\ expect.origins = config.origins
        /\ expect.session_id = expected.session_id /\ expect.nonce = expected.nonce
        /\ expect.session_public_key = expected.session_public_key
        /\ expect.attested = config.attested
    OBVIOUS
  <2>3. IdentityChecks(p, expected) = << << verdict, holds >> >>
    BY <1>2, Zenon DEF IdentityChecks
  <2> HIDE DEF expect
  <2>4. holds <=> AcceptableIdentity(p.identity, expected)
    <3>1. holds <=>
           /\ expect.origins = Null \/ p.identity.verifier_origin \in expect.origins
           /\ Expected(expect.session_id, p.identity.session_id)
           /\ Expected(expect.nonce, p.identity.nonce)
           /\ Expected(expect.session_public_key, p.identity.session_public_key)
           /\ expect.now <= p.identity.session_expires_at
      BY <2>1, IdentityPasses DEF SoundIdentity
    <3> HIDE DEF holds
    <3>2. ~ p.identity.device_attested
      BY <2>1 DEF SoundIdentity
    <3>3. QED
      BY <1>2, <2>2, <3>1, <3>2 DEF AcceptableIdentity
  <2>5. holds \in BOOLEAN
    OBVIOUS
  <2> HIDE DEF holds, verdict
  <2>6. Passes(IdentityChecks(p, expected)) <=> holds
    BY <2>3, <2>5, OneSays, Zenon
  <2>7. QED
    BY <2>4, <2>6
<1>3. QED
  BY <1>1, <1>2

\* The message that an issued package is verified against is the one signed.
LEMMA SignedMessage ==
  ASSUME NEW v, WellIssued(v)
  PROVE  LET p == v.package IN
         DeclaredWatermark(p) = p.watermark_hex
         /\ Message(p) = SignatureMessage(p, p.canonical_metadata)
<1> DEFINE p == v.package
           r == [p EXCEPT !.watermark_hex = DeclaredWatermark(p)]
<1>1. DeclaredWatermark(p) = p.watermark_hex
  BY DEF WellIssued, DeclaredWatermark
<1>2. Given(p.canonical_metadata, CanonicalMetadata(p.metadata)) = p.canonical_metadata
  BY DEF WellIssued, Given
<1>3. /\ r.watermark_hex = p.watermark_hex /\ r.proof_type = p.proof_type
      /\ r.compliance_level = p.compliance_level /\ r.identity = p.identity
      /\ r.audio_hash = p.audio_hash /\ r.timestamp = p.timestamp
  BY <1>1 DEF WellIssued, PackageFields, Fields
<1> HIDE DEF r
<1>4. SignatureMessage(r, p.canonical_metadata) = SignatureMessage(p, p.canonical_metadata)
  BY <1>3 DEF SignatureMessage
<1>5. QED
  BY <1>1, <1>2, <1>4 DEF Message, r

\* Whether the status of its watermark is good enough for an issued package.
StatusSuffices(p, status) ==
  MustHavePresentWatermark(p) \/ (p.proof_type = "RECORDED" /\ DeclaredWatermark(p) # Null)
    => status = "present"

\* What remains of the checks of a watermark, and of an attestation, once the
\* package has been issued.
LEMMA IssuedWatermark ==
  ASSUME NullIsNoValue, NEW v, WellIssued(v), Registered(v.package), NEW status
  PROVE  Passes(WatermarkChecks(v.package, status)) <=>
           (MustHavePresentWatermark(v.package) => status = "present")
<1> DEFINE p == v.package
           payload == DeclaredWatermark(p)
<1>1. payload = p.watermark_hex /\ payload = p.watermark_payload
  BY SignedMessage DEF WellIssued
<1>2. p.compliance_level \in 1 .. 3
  BY DEF Registered, ComplianceLevels
<1>3. /\ p.compliance_level = 1 =>
           payload = Null /\ p.watermark_format_version = Null /\ p.ledger_anchor = Null
           /\ p.timestamp_attestation = Null
      /\ p.compliance_level < 3 => p.usage_event_id = Null
      /\ p.proof_type = "GENERATED" /\ p.compliance_level >= 2 => payload # Null
      /\ payload # Null /\ p.identity # Null /\ p.identity.nonce # Null
           => payload.nonce = SessionByte(p.identity.nonce)
  BY <1>1 DEF Registered
<1>4. p.compliance_level = 1 => p.compliance_level < 3
  BY <1>2
<1> HIDE DEF p, payload
<1>5. /\ p.compliance_level = 1
           => payload = Null /\ p.watermark_format_version = Null /\ p.usage_event_id = Null
              /\ p.ledger_anchor = Null /\ p.timestamp_attestation = Null
      /\ p.watermark_hex = p.watermark_payload
  BY <1>1, <1>3, <1>4
<1>6. Passes(WatermarkChecks(p, status)) <=> (MustHavePresentWatermark(p) => status = "present")
  BY <1>3, <1>5, WatermarkSays, Zenon DEF payload
<1>7. QED
  BY <1>6 DEF p

LEMMA IssuedAttestation ==
  ASSUME NullIsNoValue, NEW p, Registered(p), AttestedWell(p)
  PROVE  Passes(Level3Checks(p)) <=> AttestationIsTaken(p)
<1>1. p.compliance_level \in 1 .. 3
  BY DEF Registered, ComplianceLevels
<1>2. CASE p.compliance_level < 3
  BY <1>1, <1>2 DEF Level3Checks, Passes, AttestationIsTaken
<1>3. CASE p.compliance_level >= 3
  <2> DEFINE attestation == p.timestamp_attestation
  <2>1. /\ p.usage_event_id # Null /\ p.ledger_anchor # Null
        /\ attestation.digest \in {Null, TimestampReceipt(p)}
        /\ VerifyRfc3161(attestation, TimestampReceipt(p), config.authorities) = "VALID"
    BY <1>3 DEF AttestedWell
  <2>2. Digest(p) = IF attestation = Null THEN Null ELSE attestation.digest
    BY DEF Digest
  <2>3. AttestationIsTaken(p) <=> Digest(p) # Null /\ attestation.attested_at >= p.timestamp
    BY <1>3 DEF AttestationIsTaken
  <2>4. p.compliance_level \in ComplianceLevels
    BY <1>1 DEF ComplianceLevels
  <2>5. Passes(Level3Checks(p)) <=>
          /\ attestation # Null
          /\ p.usage_event_id # Null /\ p.ledger_anchor # Null
          /\ attestation.type # Null /\ attestation.attested_at \in Nat /\ attestation.digest # Null
          /\ attestation.digest = TimestampReceipt(p)
          /\ attestation.attested_at >= p.timestamp
          /\ VerifyRfc3161(attestation, TimestampReceipt(p), config.authorities) = "VALID"
    BY <1>3, <2>4, Level3Says
  <2> HIDE DEF attestation
  <2>6. attestation.type = "RFC3161" /\ attestation.attested_at \in Nat
    BY <2>1, VerifiedSays
  <2>7. attestation.type # Null
    BY <2>6 DEF NullIsNoValue
  <2>8. QED
    BY <2>1, <2>2, <2>3, <2>5, <2>6, <2>7
<1>4. QED
  BY <1>1, <1>2, <1>3

\* Of all the checks these remain for an issued package.
LEMMA IssuedIsValid ==
  ASSUME NullIsNoValue, IssuedInv, FitInv, NEW v \in issued, NEW status, NEW expected
  PROVE  LET p == v.package IN
         Valid(p, v.audio, status, expected) <=>
           /\ p.compliance_level >= config.requiredLevel /\ Fresh(p)
           /\ AcceptableIdentity(p.identity, expected)
           /\ NonceIsNew(p) /\ AttestationIsTaken(p) /\ StatusSuffices(p, status)
<1> DEFINE p == v.package
<1>1. WellIssued(v) /\ Registered(p) /\ AttestedWell(p)
  BY DEF IssuedInv, FitInv
<1>2. Passes(PolicyChecks(p)) <=> p.compliance_level >= config.requiredLevel
  BY <1>1, PolicySays DEF Registered
<1>3. Passes(ContentChecks(p))
  <2>1. p.canonical_metadata = CanonicalMetadata(p.metadata) /\ p.creator_id = p.public_key
    BY <1>1 DEF WellIssued
  <2>2. p.canonical_metadata # Null
    BY <2>1 DEF NullIsNoValue
  <2>3. QED
    BY <2>1, <2>2, ContentSays
<1>4. Passes(IdentityChecks(p, expected)) <=> AcceptableIdentity(p.identity, expected)
  BY <1>1, IdentitySays
<1>5. Passes(WatermarkChecks(p, status)) <=> (MustHavePresentWatermark(p) => status = "present")
  BY <1>1, IssuedWatermark
<1>6. Passes(ReplayChecks(p)) <=> Fresh(p) /\ NonceIsNew(p)
  BY ReplaySays DEF NonceIsNew
<1>7. Passes(CryptographicChecks(p, v.audio))
  BY <1>1, SignedMessage, CryptographySays DEF WellIssued
<1>8. Passes(Level3Checks(p)) <=> AttestationIsTaken(p)
  BY <1>1, IssuedAttestation
<1>9. Passes(RecordedChecks(p, status)) <=>
        (p.proof_type = "RECORDED" /\ DeclaredWatermark(p) # Null => status = "present")
  BY RecordedSays
<1> HIDE DEF p
<1>10. Valid(p, v.audio, status, expected) <=>
         /\ p.compliance_level >= config.requiredLevel /\ Fresh(p)
         /\ AcceptableIdentity(p.identity, expected)
         /\ NonceIsNew(p) /\ AttestationIsTaken(p) /\ StatusSuffices(p, status)
  BY <1>2, <1>3, <1>4, <1>5, <1>6, <1>7, <1>8, <1>9, Zenon
     DEF Valid, BeforeNonce, AfterNonce, StatusSuffices
<1>11. QED
  BY <1>10 DEF p

\* Every status that a server may find suffices just where the watermark is the
\* one declared, or does not count.
LEMMA EveryStatusSuffices ==
  ASSUME NEW v, WellIssued(v), Registered(v.package)
  PROVE  (\A status \in WatermarkStatuses(v.audio, DeclaredWatermark(v.package)) :
            StatusSuffices(v.package, status))
         <=> MarkIsEmbedded(v)
<1> DEFINE p == v.package
           payload == DeclaredWatermark(p)
           statuses == WatermarkStatuses(v.audio, payload)
           counts == MustHavePresentWatermark(p) \/ (p.proof_type = "RECORDED" /\ payload # Null)
<1>1. counts => payload # Null
  BY SignedMessage DEF MustHavePresentWatermark, Registered
<1>2. payload # Null /\ v.audio.mark = payload => statuses = {"present"}
  BY DEF WatermarkStatuses
<1>3. payload # Null /\ v.audio.mark # payload => "missing" \in statuses
  BY DEF WatermarkStatuses
<1>4. \A status : StatusSuffices(p, status) <=> (counts => status = "present")
  BY DEF StatusSuffices
<1>5. MarkIsEmbedded(v) <=> (counts => v.audio.mark = payload)
  BY DEF MarkIsEmbedded
<1> HIDE DEF p, payload, statuses, counts
<1>6. (\A status \in statuses : StatusSuffices(p, status)) <=> MarkIsEmbedded(v)
  <2>1. CASE counts
    BY <1>1, <1>2, <1>3, <1>4, <1>5, <2>1
  <2>2. CASE ~ counts
    BY <1>4, <1>5, <2>2
  <2>3. QED
    BY <2>1, <2>2
<1>7. QED
  BY <1>6 DEF p, payload, statuses

LEMMA FitVerifies ==
  ASSUME NullIsNoValue, IssuedInv, FitInv, NEW v \in issued, NEW expected
  PROVE  Verifiable(v, expected) <=>
           \A status \in WatermarkStatuses(v.audio, DeclaredWatermark(v.package)) :
             Valid(v.package, v.audio, status, expected)
<1> DEFINE p == v.package
           statuses == WatermarkStatuses(v.audio, DeclaredWatermark(p))
           rest == /\ p.compliance_level >= config.requiredLevel /\ Fresh(p)
                   /\ AcceptableIdentity(p.identity, expected)
                   /\ NonceIsNew(p) /\ AttestationIsTaken(p)
<1>1. WellIssued(v) /\ Registered(p)
  BY DEF IssuedInv, FitInv
<1>2. \A status : Valid(p, v.audio, status, expected) <=> rest /\ StatusSuffices(p, status)
  BY IssuedIsValid
<1>3. (\A status \in statuses : StatusSuffices(p, status)) <=> MarkIsEmbedded(v)
  BY <1>1, EveryStatusSuffices
<1>4. \E status : status \in statuses
  BY DEF WatermarkStatuses
<1>5. Verifiable(v, expected) <=> rest /\ MarkIsEmbedded(v)
  BY DEF Verifiable
<1> HIDE DEF p, statuses, rest
<1>6. Verifiable(v, expected) <=> \A status \in statuses : Valid(p, v.audio, status, expected)
  BY <1>2, <1>3, <1>4, <1>5
<1>7. QED
  BY <1>6 DEF p, statuses

\* The registration and the verification fit: where no request asks for a
\* generated proof without its watermark, every package as it was issued, with
\* its own audio, is VALID just where it is Verifiable, so the parts of
\* Verifiable are all that registration lets through and verification refuses.
THEOREM IssuedAreVerified ==
  ASSUME RequestsFit, NullIsNoValue
  PROVE  Spec => []IssuedVerifies
<1>1. Init => FitInv
  BY DEF Init, FitInv
<1>2. FitInv /\ [Next]_vars => FitInv'
  BY FitKept
<1>3. IssuedInv /\ FitInv => IssuedVerifies
  BY FitVerifies, Zenon DEF IssuedVerifies
<1>4. QED
  BY <1>1, <1>2, <1>3, IssuedAtInit, IssuedKept, PTL DEF Spec
=============================================================================
