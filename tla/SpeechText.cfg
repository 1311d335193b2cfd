CONSTANTS
  MinChars = 2
  HardChars = 3
  MaxText = 6
SPECIFICATION SpeechTextSpec
INVARIANT AnswerIsHeard
CHECK_DEADLOCK FALSE
