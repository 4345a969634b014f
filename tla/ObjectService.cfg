SPECIFICATION SSpec
CONSTANTS
  Workers = {w1, w2}
  Names = {"n", "ca", "cb"}
  LongNames = {"ca", "cb"}
  Dirs = {"hn", "ca", "cb", "hh"}
  KeyHash <- MCKeyHash
  Values <- MCValues
  Empty = Empty
  Garbage = Garbage
  MaxRestarts = 1
  Regions = {r1}
  Glyphs = {"a", "b"}
  Blank = Blank
  Stamps = {1}
  NoRev = NoRev
  ContentId <- MCContentId
  NoId = NoId
  NoText = NoText
  RequestIds = {"ca", NoId}
  MaxCreates = 3
SYMMETRY Symmetry
CHECK_DEADLOCK FALSE
INVARIANTS STypeOK GetReturnsLatest HistoryComplete
PROPERTY AbortOnlyWhenMuddled
