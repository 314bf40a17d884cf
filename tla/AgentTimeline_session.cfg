SPECIFICATION Spec
CONSTANTS
  a = a
  b = b
  c = c
  s = s
  Files = {a, b, c}
  Contents = {1, 2}
  Wants <- ACallsBoth
  Sessions = {s}
  Writers = {}
  OplogMax = 1
  OplogKeep = 1
  StopInCheckpoint = FALSE
  LegacyLogs <- OneLegacyLog
  Claims <- StubClaims
  FaultLists = {{a, b, c}}
  Batches <- CalleeBatch
  Weights = {0}
  MaxOps = 3
  MaxWrites = 2
SYMMETRY CalleeSymmetry
INVARIANT ReplayRestoresSources
PROPERTY CompactionIndexStable
