SPECIFICATION Spec
CONSTANTS
  Regions = {r1, r2}
  Glyphs = {a, b}
  Blank = Blank
  Stamps = {1}
  NoRev = NoRev
  Id = Id
  MaxDiffs = 5
CHECK_DEADLOCK FALSE
INVARIANTS RevisionsReplay HeadIsMaster RevisionsKept
