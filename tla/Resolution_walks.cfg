SPECIFICATION AnySpec
CONSTANTS
  Key <- Layout
  Decl <- Workspace
  Pageable <- Pages
INVARIANTS
  ResolvedFromSources
  OnlyPageInIsStale
  WalksAreExact
  BeliefsComeOfAssertions
PROPERTIES
  LoadedLinksSurvive
  LinksAreGrounded
CHECK_DEADLOCK FALSE
