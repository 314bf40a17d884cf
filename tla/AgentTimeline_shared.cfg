SPECIFICATION Spec
CONSTANTS
  a = a
  b = b
  c = c
  s = s
  s2 = s2
  w = w
  Files = {a}
  Contents = {1}
  Wants <- NoCalls
  Sessions = {s, s2}
  Writers = {w}
  OplogMax = 1
  OplogKeep = 1
  StopInCheckpoint = TRUE
  LegacyLogs <- NoLegacyLog
  Claims <- NoClaim
  FaultLists = {}
  Batches <- TwiceBatch
  Weights = {0, 1}
  MaxOps = 2
  MaxWrites = 2
SYMMETRY SessionSymmetry
INVARIANT ChainVerifies
INVARIANT NeverRefused
INVARIANT HeadCommits
PROPERTY HeadOnlyGrows
