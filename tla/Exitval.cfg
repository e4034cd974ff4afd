CONSTANTS
  Keys = {"1"}
  Match <- MCMatch
  MaxPrompts = 0
  IdSpan = 2
  Asked = {"wait", "exitval"}
  TermChars = {"none"}
  TermTimeouts = {0}
  AudioStatuses <- MCAudioStatuses
SPECIFICATION FairSpec
PROPERTIES
  ExitvalAnswered
CHECK_DEADLOCK FALSE
