SPECIFICATION LiveSpec
CONSTANTS
  Clients = {"two", "one"}
  MaxCalls <- MCMaxCalls
  Calls <- MCCalls
  Keys = {"hv", "v"}
  Short = {"v"}
  Unspaced <- MCUnspaced
  Archive = "archive"
  Garbage = "garbage"
  Values = {"v", "u"}
  Digest <- MCDigest
  Files = {"f"}
CHECK_DEADLOCK FALSE
INVARIANTS TypeOK AnswersOnceInOrder TameClientsKeepServerUp DeafOnlyByItsOwnClient KvContentRight
PROPERTY EveryCallAnswered
