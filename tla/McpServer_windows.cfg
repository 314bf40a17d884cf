SPECIFICATION EitherSpec
CONSTANTS
  f = f
  g = g
  Files = {f, g}
  NoFile = NoFile
  NoContent = NoContent
  Contents = {1, 2}
  Shortened = {1, 2}
  Alike <- LikePairs
  CcrCapacity = 1
  MaxLines = 3
  PipeSize = 2
  MaxRecalls = 1
  Budgets = {10, 16}
INVARIANT AckedIsDurable
INVARIANT LatestWindowRetrievable
PROPERTY WindowsSelectBest
PROPERTY EveryRequestAnswered
