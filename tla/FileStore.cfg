SPECIFICATION Spec
CONSTANTS
  Workers = {w1, w2}
  MaxStores = 3
  Files <- MCFiles
  BlockSize = 3
  UintSize = 1
  UintLimit = 8
  Trails <- MCTrails
SYMMETRY Symmetry
CHECK_DEADLOCK FALSE
INVARIANTS TypeOK SoundFilesLoad BlocksKept
