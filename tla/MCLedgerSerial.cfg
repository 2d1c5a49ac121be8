SPECIFICATION Spec
CONSTANTS
  Calls = {a, b, c, d, e}
  Null = Null
  ZERO_HASH = ZERO_HASH
  MaxInFlight = 1
  Hazards = {"crash", "publish"}
SYMMETRY Symmetry
INVARIANTS
  ReferencedBatchExists
  ChainsIntact
  AckedEventsKept
  AnchoredStaysConfirmed
  NoEventSkipped
  RootsMatch
  PublicationKept
PROPERTIES
  StampsAreFinal
