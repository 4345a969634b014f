SPECIFICATION Spec
CONSTANTS
  Regions = {r1, r2}
  Glyphs = {a, b}
  Blank = Blank
  Stamps = {1}
  NoRev = NoRev
  Id = Id
  MaxDiffs = 4
CHECK_DEADLOCK FALSE
INVARIANT RollbackRestores
