SPECIFICATION Spec
CONSTANTS
    MaxUtterances = 2
    MaxTurns = 2
    MaxTokens = 1
    PipeCap = 1
    Scripts <- Conversations
CHECK_DEADLOCK FALSE
INVARIANTS
  TypeOK
  DiaryOnce
  InterruptedIsTruncated
  SpeakingHasATurn
  OnlyValidTailsStart
