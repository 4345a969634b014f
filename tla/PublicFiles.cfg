SPECIFICATION FSpec
CONSTANTS
  Workers = {w1, w2}
  Keys = {k1, k2, k3}
  Capacity = 2
  Broken = {k3}
  Fixed = {k2, k3}
  NoFile = NoFile
SYMMETRY Symmetry
CHECK_DEADLOCK FALSE
INVARIANTS Bounded KeepsMostRecent FTypeOK NoLeakedCopy CachedCopyComplete
