SPECIFICATION LiveSpec
CONSTANTS
  Workers = {w1, w2}
  Names = {"n", "hn"}
  LongNames = {"hn"}
  Dirs = {"hn", "hhn"}
  KeyHash <- MCKeyHash
  Values = {v1, v2}
  Empty = Empty
  Garbage = Garbage
  MaxRestarts = 1
CHECK_DEADLOCK FALSE
INVARIANTS TypeOK NoDanglingLink TornOnlyInsideWrite AckedPutSurvives GetFindsAckedPut
PROPERTY EveryCallReturns
