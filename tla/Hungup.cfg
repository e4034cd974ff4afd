CONSTANTS
  Keys = {"1"}
  Match <- MCMatch
  MaxPrompts = 0
  IdSpan = 2
  Asked = {"recognize"}
  TermChars = {"none"}
  TermTimeouts = {0}
  AudioStatuses <- MCAudioStatuses
SPECIFICATION Spec
PROPERTIES
  SilentAfterHungup
CHECK_DEADLOCK FALSE
