\* Two migrators, three bundles, two imports.
SPECIFICATION Spec
CONSTANTS
  Migrators = {m1, m2}
  Bundles <- MCBundles
  None = None
  NoText = NoText
  MaxRuns = 2
INVARIANT ExtendKeepsText
CHECK_DEADLOCK FALSE
