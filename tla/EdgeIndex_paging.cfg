SPECIFICATION EitherSpec
CONSTANTS
  x = x
  y = y
  z = z
  w = w
  Nodes = {x, y, z, w}
  Links <- Square
  Owned <- Resolved
  Cap = 3
  MaxCopies = 2
  Paths = {1, 2, 3}
  Contents = {x, y}
  Symlink = symlink
  Unreadable = unreadable
  Absent = absent
  MaxFiles = 2
  MaxEdits = 2
INVARIANT OnlyPageInMisleads
INVARIANT OnlySwapsFoolCaches
PROPERTY GraphFollowsTree
