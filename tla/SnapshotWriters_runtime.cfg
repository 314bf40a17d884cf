SPECIFICATION AnySpec
CONSTANTS
  p1 = p1
  p2 = p2
  p3 = p3
  Procs = {p1, p2, p3}
  MaxWrites = 4
  run1 = run1
  run2 = run2
  Runs = {run1, run2}
  a = a
  b = b
  absent = absent
  Paths = {1, 2}
  Contents = {a, b}
  Absent = absent
  Budget = 1
  MaxEdits = 2
  Priority <- Tied
  Cost <- Tied
  Nodes <- RegionNodes
  Links <- RegionLinks
  External = 0
  Full = 8
  Boost = 2
  Warm <- Warming
  Energies = {2, 5}
  Coolings <- CoolingArguments
  MaxCalls = 4
SYMMETRY RunSymmetry
INVARIANT RefusedForOthers
INVARIANT RestoredIsOwn
INVARIANT SameTreeSameLogs
INVARIANT ClustersAreComponents
INVARIANT ReplayRestoresEngine
PROPERTY OnlyRacesSlipBy
CHECK_DEADLOCK FALSE
