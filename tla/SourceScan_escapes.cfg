SPECIFICATION Spec
CONSTANTS
  Code <- CodeLexemes
  Quoted <- Backslash
  Heads <- Bodies
  MaxTokens = 4
  InlineNesting = 1
  MaxNesting = 2
  SignatureLines = 2
INVARIANT SpanIsItem
CHECK_DEADLOCK FALSE
