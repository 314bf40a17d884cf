SPECIFICATION Spec
CONSTANTS
  Agents <- Both
  Name <- Names
  Ids <- Order
  x = x
  y = y
  Ops = {x, y}
  OplogMax = 1
  OplogKeep = 1
  Builds <- BuildsOf
  MaxOpens <- OpensOf
  MaxSaves <- SavesOf
  MaxOps <- OpsOf
  MaxKeys <- KeysOf
  MaxPublished = 2
INVARIANTS
  KnownIsPublished
  DivergedOnlyIfForked
  SameHeadsSameView
PROPERTY PinnedLogIsSigned
CHECK_DEADLOCK FALSE
SYMMETRY Swaps
