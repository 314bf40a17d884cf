SPECIFICATION EitherSpec
CONSTANTS
  n1 = n1
  n2 = n2
  Nodes = {n1, n2}
  Contents <- Texts
  Budget = 5
  DictMinContent = 8
  DictMin = 4
  MaxFaults = 1
  MinMatch = 3
  Window = 6
  MaxMatch = 5
  DictWindow = 8
  DictMaxMatch = 7
  NearOffset = 6
  NearLength = 6
  LengthField = 4
  MaxChain = 2
  HashSize = 4
  MaxTokens = 2
  InlineNesting = 1
  MaxNesting = 2
  SignatureLines = 2
INVARIANT BlobsCanonical
INVARIANT OnlyTearsLose
INVARIANT NeverWrongRestore
INVARIANT OnlyCodeCounts
CHECK_DEADLOCK FALSE
