SPECIFICATION Spec
CONSTANTS
  Calls = {a, b}
  Null = Null
  ZERO_HASH = ZERO_HASH
  MaxInFlight = 2
  Hazards = {}
SYMMETRY Symmetry
INVARIANTS
  AckedEventsKept
