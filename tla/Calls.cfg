CONSTANTS
  Keys = {"1", "#"}
  Match <- MCMatch
  MaxPrompts = 1
  IdSpan = 2
  Asked = {"play", "getlinestatus", "wait", "recognize", "record", "transfer",
           "httpget", "exitval"}
  TermChars = {"none", "#"}
  TermTimeouts = {0}
  AudioStatuses <- MCAudioStatuses
SPECIFICATION FairSpec
INVARIANTS
  TypeOK
  OneCommand
  InStep
  FreshWhenAnswered
PROPERTIES
  RequestsAnswered
  CallEnds
  ParseReported
  NothingAfterDisconnect
CHECK_DEADLOCK FALSE
