CONSTANTS
  Keys = {"1"}
  Match <- MCMatch
  MaxPrompts = 3
  IdSpan = 4
  Asked = {"wait", "recognize", "transfer"}
  TermChars = {"none"}
  TermTimeouts = {0}
  AudioStatuses <- MCAudioStatuses
SPECIFICATION Spec
INVARIANTS
  PromptsInOrder
  NoPromptLost
  PromptsAwaited
PROPERTIES
  BargeinKept
  PromptsFirst
CHECK_DEADLOCK FALSE
