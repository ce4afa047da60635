SPECIFICATION Spec
CONSTANTS
  Tables = {t1}
  v1 = v1
  v2 = v2
  v3 = v3
  k1 = k1
  k2 = k2
  Versions = {v1, v2}
  ColumnsOf <- SomeColumns
  KeyOf <- SomeKeys
  Keys = {k1, k2}
  NoKey = NoKey
  Unprobed = Unprobed
  Missing = none
  Readers = {r1, r2}
  Changers = {m1, m2}
  MaxGeneration = 2
  MayCancel = TRUE
  OthersCreate = TRUE
SYMMETRY Symmetry
INVARIANTS
  TypeOK
  CacheFresh
