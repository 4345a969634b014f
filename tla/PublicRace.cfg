SPECIFICATION FSpec
CONSTANTS
  Workers = {w1, w2}
  Keys = {k1, k2}
  Capacity = 2
  Broken = {}
  Fixed = {k2}
  NoFile = NoFile
CHECK_DEADLOCK FALSE
INVARIANT GivenPathExists
