SPECIFICATION LiveSpec
CONSTANTS
  Pool = {p1}
  MaxRequests = 2
  Signals = {"SIGTERM", "SIGINT"}
CHECK_DEADLOCK FALSE
INVARIANTS TypeOK CrashNeedsRequest
PROPERTIES RequestsFindManagers SignalEnds GetsToServe
