SPECIFICATION Spec
CONSTANTS
  a = a
  b = b
  c = c
  d = d
  i1 = i1
  i2 = i2
  i3 = i3
  i4 = i4
  NoOwner = NoOwner
  NoBlock = NoBlock
  Blocks = {a, b, c, d}
  Attempts = {i1, i2, i3, i4}
  MaxWaits = 4
SYMMETRY Symmetry
INVARIANTS
  SearchExact
  RefusalsNameCycles
  WaitsMatchGuards
  Acyclic
