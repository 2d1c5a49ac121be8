SPECIFICATION Spec
CONSTANTS
  Calls = {a, b, c}
  Null = Null
  ZERO_HASH = ZERO_HASH
  MaxInFlight = 2
  Hazards = {"publish", "reuse", "truncate", "crash", "tear"}
SYMMETRY Symmetry
INVARIANTS
  TypeOK
  ReferencedUntilPublished
