CONSTANTS
  Size = 4
  Payload = {p1, p2}
  Keep = Keep
SYMMETRY Symmetry
SPECIFICATION CMSpec
INVARIANTS
  CMTypeOK
PROPERTIES
  RefusedOnlyWhenFull
  ImplementsAgeQueue
