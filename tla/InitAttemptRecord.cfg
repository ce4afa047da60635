SPECIFICATION Spec
CONSTANTS
  r1 = r1
  r2 = r2
  r3 = r3
  d1 = d1
  d2 = d2
  NoRecord = NoRecord
  NoActor = NoActor
  Records = {r1, r2, r3}
  Parent <- Nested
  Calls = {d1, d2}
  Failures = {1, 3}
SYMMETRY CallSymmetry
INVARIANTS
  UpdatesComeFromOpen
  InFlightCounts
  OuterSawInner
