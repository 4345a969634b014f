SPECIFICATION Spec
CONSTANTS
  Workers = {w1, w2}
  AnIds = {a}
  Texts = {c1, c2}
  Keys = {k1, k2}
  NoRow = NoRow
  MaxRow = 2
  MaxPair = 1
  MaxCalls = 3
SYMMETRY Symmetry
CHECK_DEADLOCK FALSE
INVARIANTS TypeOK OneTransaction AckedKept RowsWhole RelationsSound
PROPERTY StuckUntilRestart
