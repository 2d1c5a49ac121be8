--------------------------- MODULE MCRegistration ---------------------------
EXTENDS Registration, TLC

CONSTANTS i1, i2, rec, r1, r2, r3, none

MCSessions == {i1, i2}
MCScopeSets == {{"recording"}, {"generation", "export"}}
MCRecordingSessions == {rec}
MCRequests == {r1, r2, r3}
MCAllGates == GateKinds

\* Requests are alike, and so are sessions.
Symmetric == Permutations(MCRequests) \cup Permutations(MCSessions)
=============================================================================
