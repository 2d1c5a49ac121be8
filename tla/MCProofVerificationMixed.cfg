SPECIFICATION Spec
CONSTANTS
  k1 = k1
  k2 = k2
  wallet = wallet
  m1 = m1
  m2 = m2
  sound = sound
  none = none
  Null <- none
  SessionByte <- MCSessionByte
  DerivedByte <- MCDerivedByte
  TimestampSpan = 16777216
  TrustStore <- MCTrustStore
  Keys <- MCKeys
  Samples = {sound}
  Requests <- MCMixed
  Configs <- MCUntracked
  NonceBytes = {0, 1}
  Expectations <- MCExpectations
  Dates = {}
  Horizon = 1
  MaxIssued = 2
  MaxMixed = 3
INVARIANTS AcceptedWasIssued
