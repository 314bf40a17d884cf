SPECIFICATION Spec
CONSTANTS
  x = x
  y = y
  z = z
  NoText = NoText
  Summary = Summary
  Nodes = {x, y, z}
  Links <- Chain
  Contents = {c1}
  Caps = {1,2}
  Compacts = TRUE
  Deepens = TRUE
  IndexFails = FALSE
  Stops = "clean"
INVARIANT OnePlace
INVARIANT NoOrphanedBlobs
INVARIANT NeighboursExact
PROPERTY AnchorDelivered
PROPERTY ImplementsVirtualGraph
