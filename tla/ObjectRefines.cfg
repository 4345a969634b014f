SPECIFICATION SequentialSpec
CONSTANTS
  Workers = {w1}
  Names = {"n", "ca", "cb"}
  LongNames = {"ca", "cb"}
  Dirs = {"hn", "ca", "cb", "hh"}
  KeyHash <- MCKeyHash
  Values <- MCValues
  Empty = Empty
  Garbage = Garbage
  MaxRestarts = 0
  Regions = {r1}
  Glyphs = {"a", "b"}
  Blank = Blank
  Stamps = {1}
  NoRev = NoRev
  ContentId <- MCContentId
  NoId = NoId
  NoText = NoText
  RequestIds = {"n", "ca"}
  MaxCreates = 4
CHECK_DEADLOCK FALSE
PROPERTIES ImplementsObjectMap EveryRequestAnswered
