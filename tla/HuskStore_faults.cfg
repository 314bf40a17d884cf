SPECIFICATION Spec
CONSTANTS
  k1 = k1
  k2 = k2
  v1 = v1
  v2 = v2
  Keys = {k1, k2}
  Values = {v1, v2}
  NoValue = NoValue
  BufferLimit = 2
  CacheCap = 1
  Faults = {"lost", "orphan"}
  RemovalFails = FALSE
  MaxSeq = 4
SYMMETRY KeySymmetry
PROPERTY ImplementsDurableMap
PROPERTY CompactionCollects
