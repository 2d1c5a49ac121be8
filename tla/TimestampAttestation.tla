------------------------- MODULE TimestampAttestation -------------------------
(***************************************************************************)
(* RFC 3161 timestamps: packages/core/src/timestamp-attestation.js and     *)
(* openssl-rfc3161.js, and the trust configuration of the API server.      *)
(*                                                                         *)
(* A raw token is what an authority signed; the openssl program is external *)
(* and modelled by what its output is used for.  A field that is missing   *)
(* is Null.                                                                *)
(***************************************************************************)
EXTENDS ProofPackages

CONSTANT TrustStore    \* the authorities that the openssl options' CA files vouch for

Fail(reason) == [ok |-> FALSE, reason |-> reason]
Success(attestation) == [ok |-> TRUE, attestation |-> attestation]

\* Trusted authorities are names, or names with the policies they may use.
NormalizeTrustedAuthority(entry) ==
  IF DOMAIN entry = {"tsa"} THEN [tsa |-> entry.tsa, policy_oids |-> {}] ELSE entry

\* verifyRfc3161TimestampAttestation.  No authority configured means that
\* every one is trusted, and no policy that every policy is.
VerifyRfc3161(attestation, expectedDigest, authorities) ==
  LET trusted == {NormalizeTrustedAuthority(a) : a \in authorities}
      matching == {a \in trusted : a.tsa = attestation.tsa}
  IN FirstFailure(<<
    << "TYPE", attestation.type = "RFC3161" >>,
    << "MESSAGE_IMPRINT_ALG", attestation.message_imprint_alg = "sha256" >>,
    << "MESSAGE_IMPRINT_MISSING", attestation.message_imprint # Null >>,
    << "MESSAGE_IMPRINT", attestation.message_imprint = expectedDigest >>,
    << "ATTESTED_AT", attestation.attested_at \in Nat >>,
    << "GEN_TIME", attestation.gen_time = attestation.attested_at >>,
    << "TSA_MISSING", attestation.tsa # Null >>,
    << "TSA_NOT_TRUSTED", trusted # {} => matching # {} >>,
    << "SERIAL_NUMBER", attestation.serial_number # Null >>,
    << "POLICY_MISSING", attestation.policy_oid # Null >>,
    << "POLICY_NOT_TRUSTED",
       \A a \in matching : a.policy_oids # {} => attestation.policy_oid \in a.policy_oids >>,
    << "TOKEN", attestation.token # Null >> >>)

-----------------------------------------------------------------------------
\* The text openssl prints of a token, read line by line: every field has to
\* be there.  The result has no digest.
ParseOpenSslTsReplyText(token) ==
  LET printed == {token.policy_oid, token.serial_number, token.alg, token.time,
                  token.tsa, token.imprint}
  IN  IF Null \in printed THEN Fail("MISSING_FIELDS")
      ELSE Success([ type |-> "RFC3161", tsa |-> token.tsa, policy_oid |-> token.policy_oid,
                     serial_number |-> token.serial_number,
                     message_imprint_alg |-> token.alg, message_imprint |-> token.imprint,
                     attested_at |-> token.time, gen_time |-> token.time,
                     token |-> "raw", digest |-> Null ])

\* openssl ts -verify: the token is about this digest and its signer is one
\* the CA files vouch for.
OpenSslVerifies(token, expectedDigest) == token.imprint = expectedDigest /\ token.tsa \in TrustStore

\* parseRfc3161TokenWithOpenSsl: without a trust store nothing is parsed.
\* Whatever the two runs of the program throw becomes a failure.
ParseWithOpenSsl(token, expectedDigest) ==
  IF TrustStore = {} THEN Fail("NO_TRUST_STORE")
  ELSE IF OpenSslVerifies(token, expectedDigest) THEN ParseOpenSslTsReplyText(token)
  ELSE Fail("OPENSSL")

\* normalizeTimestampTokenInput: a string, or data in an encoding it knows.
TimestampTokenInput(source) ==
  IF source.data = Null THEN Fail("DATA")
  ELSE IF source.encoding \notin {Null, "base64", "hex", "utf8"} THEN Fail("ENCODING")
  ELSE [ok |-> TRUE, token |-> source.data]

\* normalizeRfc3161TimestampAttestation: a source with data is a raw token,
\* any other object is taken as it is.
NormalizeRfc3161(source, expectedDigest, authorities) ==
  LET input == TimestampTokenInput(source)
      parsed == IF "data" \notin DOMAIN source THEN Success(source)
                ELSE IF ~ input.ok THEN input
                ELSE ParseWithOpenSsl(input.token, expectedDigest)
      verdict == VerifyRfc3161(parsed.attestation, expectedDigest, authorities)
  IN  IF ~ parsed.ok THEN parsed
      ELSE IF verdict # "VALID" THEN Fail(verdict)
      ELSE parsed
=============================================================================
